------------------------ MODULE PredictionBookProofs ------------------------
(***************************************************************************)
(* Proofs about PredictionBook, for any drafts, markets, number of         *)
(* positions, portfolio requests and commands cut short: the types, and    *)
(* what a second payout, a second position and a missing fill cost.        *)
(***************************************************************************)
EXTENDS PredictionBook, FiniteSetTheorems, TLAPS

-----------------------------------------------------------------------------
(* Sums.                                                                   *)

LEMMA CountsOn ==
  ASSUME NEW D, NEW f \in [D -> Nat], NEW x
  PROVE  [f EXCEPT ![x] = @ + 1] \in [D -> Nat]
  <1> DEFINE g == [f EXCEPT ![x] = f[x] + 1]
  <1>1. \A y \in D : g[y] = IF y = x THEN f[y] + 1 ELSE f[y]
    OBVIOUS
  <1>2. DOMAIN g = D /\ g = [y \in D |-> g[y]]
    OBVIOUS
  <1>3. \A y \in D : g[y] \in Nat
    BY <1>1
  <1> HIDE DEF g
  <1>4. g \in [D -> Nat]
    BY <1>2, <1>3
  <1> QED BY <1>4 DEF g

LEMMA UnitsAre ==
  ASSUME NEW D, NEW f \in [D -> Nat], NEW x, NEW k
  PROVE  <<x, k>> \in Units(f) <=> x \in D /\ k \in 1 .. f[x]
  BY DEF Units

LEMMA UnitsGrow ==
  ASSUME NEW D, NEW f \in [D -> Nat], NEW x \in D
  PROVE  /\ Units([f EXCEPT ![x] = @ + 1]) = Units(f) \cup {<<x, f[x] + 1>>}
         /\ <<x, f[x] + 1>> \notin Units(f)
  <1> DEFINE g == [f EXCEPT ![x] = @ + 1]
             n == f[x]
  <1>0. /\ g \in [D -> Nat] /\ g[x] = n + 1 /\ n \in Nat
        /\ \A y \in D : y # x => g[y] = f[y]
    OBVIOUS
  <1> HIDE DEF g
  <1>1. ASSUME NEW u \in Units(g) PROVE u \in Units(f) \cup {<<x, n + 1>>}
    <2>1. PICK y \in D, k \in Nat : k \in 1 .. g[y] /\ u = <<y, k>>
      BY <1>0 DEF Units
    <2>2. y = x => k \in 1 .. n \/ k = n + 1
      BY <1>0, <2>1
    <2> QED BY <1>0, <2>1, <2>2, UnitsAre DEF n
  <1>2. ASSUME NEW u \in Units(f) PROVE u \in Units(g)
    <2>1. PICK y \in D, k \in Nat : k \in 1 .. f[y] /\ u = <<y, k>>
      BY DEF Units
    <2>2. k \in 1 .. g[y]
      BY <1>0, <2>1
    <2> QED BY <1>0, <2>1, <2>2, UnitsAre
  <1>3. <<x, n + 1>> \in Units(g) /\ <<x, n + 1>> \notin Units(f)
    <2>1. n + 1 \in 1 .. g[x] /\ n + 1 \notin 1 .. f[x]
      BY <1>0
    <2> QED BY <1>0, <2>1, UnitsAre
  <1> QED BY <1>1, <1>2, <1>3 DEF g, n

LEMMA SumGrows ==
  ASSUME NEW D, NEW f \in [D -> Nat], NEW x \in D, IsFiniteSet(Units(f))
  PROVE  /\ IsFiniteSet(Units([f EXCEPT ![x] = @ + 1]))
         /\ Sum(f) \in Nat
         /\ Sum([f EXCEPT ![x] = @ + 1]) = Sum(f) + 1
  <1> DEFINE g == [f EXCEPT ![x] = @ + 1]
             u == <<x, f[x] + 1>>
  <1>1. Units(g) = Units(f) \cup {u} /\ u \notin Units(f)
    BY UnitsGrow
  <1> HIDE DEF g, u
  <1>2. IsFiniteSet(Units(g)) /\ Cardinality(Units(g)) = Cardinality(Units(f)) + 1
    BY <1>1, FS_AddElement
  <1>3. Cardinality(Units(f)) \in Nat
    BY FS_CardinalityType
  <1>4. IsFiniteSet(Units(g)) /\ Sum(f) \in Nat /\ Sum(g) = Sum(f) + 1
    BY <1>2, <1>3 DEF Sum
  <1> QED BY <1>4 DEF g

LEMMA SumLess ==
  ASSUME NEW D, NEW f \in [D -> Nat], NEW g \in [D -> Nat], IsFiniteSet(Units(f)),
         \A x \in D : g[x] <= f[x]
  PROVE  IsFiniteSet(Units(g)) /\ Sum(g) \in Nat /\ Sum(f) \in Nat /\ Sum(g) <= Sum(f)
  <1>1. ASSUME NEW u \in Units(g) PROVE u \in Units(f)
    <2>1. PICK y \in D, k \in Nat : k \in 1 .. g[y] /\ u = <<y, k>>
      BY DEF Units
    <2>2. k \in 1 .. f[y]
      BY <2>1
    <2> QED BY <2>1, <2>2, UnitsAre
  <1>2. IsFiniteSet(Units(g)) /\ Cardinality(Units(g)) <= Cardinality(Units(f))
    BY <1>1, FS_Subset
  <1> QED BY <1>2, FS_CardinalityType DEF Sum

LEMMA SumOneMore ==
  ASSUME NEW D, NEW f \in [D -> Nat], NEW g \in [D -> Nat], IsFiniteSet(Units(f)), NEW x \in D,
         g[x] <= f[x] + 1, \A y \in D \ {x} : g[y] <= f[y]
  PROVE  IsFiniteSet(Units(g)) /\ Sum(g) \in Nat /\ Sum(f) \in Nat /\ Sum(g) <= Sum(f) + 1
  <1> DEFINE h == [f EXCEPT ![x] = @ + 1]
  <1>1. h \in [D -> Nat] /\ \A y \in D : g[y] <= h[y]
    OBVIOUS
  <1>2. IsFiniteSet(Units(h)) /\ Sum(h) = Sum(f) + 1 /\ Sum(f) \in Nat
    BY SumGrows
  <1> HIDE DEF h
  <1>3. IsFiniteSet(Units(g)) /\ Sum(g) \in Nat /\ Sum(g) <= Sum(h)
    BY <1>1, <1>2, SumLess
  <1> QED BY <1>2, <1>3

LEMMA SumNothing ==
  ASSUME NEW D, NEW f \in [D -> Nat], \A x \in D : f[x] = 0
  PROVE  IsFiniteSet(Units(f)) /\ Sum(f) = 0
  <1>1. Units(f) = {}
    BY DEF Units
  <1> QED BY <1>1, FS_EmptySet DEF Sum

-----------------------------------------------------------------------------
(* Type correctness.                                                       *)

LEMMA IdleTyped == Idle \in Loop /\ Idle.pc = "idle" /\ Idle.todo = {} /\ Idle.pos = 0
  BY DEF Idle, Loop, Proceeds

(* Where the loop goes after a position, or a list of them.                *)
LEMMA OnwardGoes ==
  ASSUME loop \in Loop, NEW todo \in SUBSET Positions, NEW next \in Onward(todo)
  PROVE  /\ next \in Loop
         /\ \/ next.pc \in {"idle", "settle"} /\ next.todo = {} /\ next.pos = 0
            \/ next.pc = "pay" /\ next.pos \in todo /\ next.todo = todo \ {next.pos}
  <1>1. CASE todo = {} /\ loop.work = {}
    BY <1>1, IdleTyped DEF Onward
  <1>2. CASE todo = {} /\ loop.work # {}
    <2>1. next = [Idle EXCEPT !.pc = "settle", !.work = loop.work]
      BY <1>2 DEF Onward
    <2>2. loop.work \in SUBSET Markets
      BY DEF Loop
    <2> QED BY <2>1, <2>2, IdleTyped DEF Loop
  <1>3. CASE todo # {}
    <2>1. PICK p \in todo :
            next = [loop EXCEPT !.pc = "pay", !.pos = p, !.end = "settled", !.won = 0,
                                !.todo = todo \ {p}]
      BY <1>3 DEF Onward
    <2>2. p \in Positions /\ todo \ {p} \in SUBSET Positions
      OBVIOUS
    <2>3. next \in Loop
      BY <2>1, <2>2 DEF Loop, Proceeds
    <2>4. next.pc = "pay" /\ next.pos = p /\ next.todo = todo \ {p}
      BY <2>1 DEF Loop
    <2> QED BY <2>3, <2>4
  <1> QED BY <1>1, <1>2, <1>3

LEMMA InitType == Init => TypeOK
  <1> SUFFICES ASSUME Init PROVE TypeOK
    OBVIOUS
  <1>1. cash \in Int /\ ledger \in Int /\ interrupts \in 0 .. MaxInterrupts /\ viewed \in 0 .. MaxViews
    BY CashAssumption, BoundsAssumption DEF Init
  <1> QED BY <1>1, IdleTyped DEF Init, TypeOK, DraftStatus, PositionStatus

LEMMA LoopTyped == TypeOK /\ [Next]_vars => loop' \in Loop
  <1> SUFFICES ASSUME TypeOK, [Next]_vars PROVE loop' \in Loop
    OBVIOUS
  <1>0. loop \in Loop
    BY DEF TypeOK
  <1>1. ASSUME NEW d \in Drafts, DraftBet(d) \/ ConfirmDraft(d) \/ CancelDraft(d)
        PROVE  loop' \in Loop
    BY <1>0, <1>1, IdleTyped DEF DraftBet, ConfirmDraft, CancelDraft, Loop
  <1>2. ASSUME NEW p \in Positions, ClosePosition(p) PROVE loop' \in Loop
    BY <1>2, IdleTyped DEF ClosePosition, Loop
  <1>3. ASSUME NEW ms \in SUBSET Markets, Settle(ms) PROVE loop' \in Loop
    BY <1>3, IdleTyped DEF Settle, Loop
  <1>4. CASE TakeStake \/ FillOpening \/ MarkConfirmed \/ UpdatePosition \/ Interrupt
    BY <1>0, <1>4, IdleTyped DEF TakeStake, FillOpening, MarkConfirmed, UpdatePosition, Interrupt, Loop
  <1>5. CASE OpenPosition
    BY <1>0, <1>5 DEF OpenPosition, Loop
  <1>6. CASE RecordSettlement
    <2>1. PICK m \in loop.work :
            loop' = [loop EXCEPT !.pc = "list", !.market = {m}, !.work = @ \ {m}]
      BY <1>6 DEF RecordSettlement
    <2>2. {m} \in SUBSET Markets /\ loop.work \ {m} \in SUBSET Markets
      BY <1>0 DEF Loop
    <2> QED BY <1>0, <2>1, <2>2 DEF Loop
  <1>7. CASE ListPositions
    BY <1>0, <1>7, OnwardGoes DEF ListPositions, Open
  <1>8. CASE Pay
    BY <1>0, <1>8 DEF Pay, Loop
  <1>9. CASE FillEnd
    <2>1. loop.todo \in SUBSET Positions
      BY <1>0 DEF Loop
    <2> QED BY <1>0, <1>9, <2>1, IdleTyped, OnwardGoes DEF FillEnd
  <1>10. CASE (\E v \in Views : ListView(v) \/ MarkPosition(v)) \/ UNCHANGED vars
    BY <1>0, <1>10 DEF ListView, MarkPosition, vars
  <1> QED BY <1>1, <1>2, <1>3, <1>4, <1>5, <1>6, <1>7, <1>8, <1>9, <1>10 DEF Next, Command, Step

(* What the loop points at while it works: a draft that is new, a position *)
(* that is open until it is paid, and a list of others that are.           *)
Betting == {"take", "open", "fill", "confirm"}
Paying == {"pay", "update"}
LoopInv ==
  /\ loop.pc \in Betting => loop.draft \in Drafts /\ draft[loop.draft] = "new"
  /\ loop.pc \in Paying \cup {"fill", "confirm", "record"} => loop.pos \in Positions
  /\ loop.pc \in {"fill", "confirm"} => draftOf[loop.pos] = loop.draft
  /\ loop.pc \in Paying => position[loop.pos] = "open"
  /\ loop.todo \subseteq Open \ {loop.pos}

(* Rows of positions that are not there: without a draft, without a fill,  *)
(* and in no list.                                                         *)
RowInv ==
  /\ \A p \in Positions : position[p] = "none" <=> draftOf[p] = NoDraft
  /\ \A p \in opened : position[p] # "none"
  /\ loop.pc = "fill" => loop.pos \notin opened
  /\ \A v \in Views : \A p \in view[v] : position[p] # "none"

SafeInv == TypeOK /\ LoopInv /\ RowInv

LEMMA NextType == TypeOK /\ LoopInv /\ [Next]_vars => TypeOK'
  <1> SUFFICES ASSUME TypeOK, LoopInv, [Next]_vars PROVE TypeOK'
    OBVIOUS
  <1>0. loop' \in Loop /\ loop \in Loop
    BY LoopTyped DEF TypeOK
  <1>1. CASE Command
    <2>1. ASSUME NEW d \in Drafts, DraftBet(d) \/ ConfirmDraft(d) \/ CancelDraft(d)
          PROVE  draft' \in [Drafts -> DraftStatus] /\ UNCHANGED <<position, draftOf, settled, money,
                                                                    fills, requests, interrupts>>
      BY <2>1 DEF DraftBet, ConfirmDraft, CancelDraft, TypeOK, DraftStatus, rows
    <2>2. ASSUME NEW p, NEW ms, ClosePosition(p) \/ Settle(ms)
          PROVE  UNCHANGED <<rows, money, fills, requests, interrupts>>
      BY <2>2 DEF ClosePosition, Settle
    <2> QED BY <1>0, <1>1, <2>1, <2>2 DEF Command, TypeOK, rows, money, fills, requests
  <1>2. CASE TakeStake
    <2>1. cash' = cash - 1 /\ staked' = [staked EXCEPT ![loop.draft] = @ + 1]
      BY <1>2 DEF TakeStake
    <2>2. cash' \in Int
      BY <2>1 DEF TypeOK
    <2>3. staked' \in [Drafts -> Nat]
      BY <2>1, CountsOn DEF TypeOK
    <2> QED BY <1>0, <1>2, <2>2, <2>3 DEF TakeStake, TypeOK, rows, fills, requests
  <1>3. CASE OpenPosition
    <2>1. position' \in [Positions -> PositionStatus] /\ draftOf' \in [Positions -> Drafts \cup {NoDraft}]
      BY <1>0, <1>3 DEF OpenPosition, TypeOK, PositionStatus, Loop
    <2> QED BY <1>0, <1>3, <2>1 DEF OpenPosition, TypeOK, money, fills, requests
  <1>4. CASE FillOpening
    <2>1. loop.pos \in Positions
      BY <1>4 DEF FillOpening, At, LoopInv
    <2>2. opened' \subseteq Positions /\ ledger' \in Int
      BY <1>4, <2>1 DEF FillOpening, TypeOK
    <2> QED BY <1>0, <1>4, <2>2 DEF FillOpening, TypeOK, rows, money, requests
  <1>5. CASE MarkConfirmed
    <2>1. draft' \in [Drafts -> DraftStatus]
      BY <1>5 DEF MarkConfirmed, TypeOK, DraftStatus
    <2> QED BY <1>0, <1>5, <2>1 DEF MarkConfirmed, TypeOK, money, fills, requests
  <1>6. CASE RecordSettlement
    <2>1. settled' \subseteq Markets
      BY <1>0, <1>6 DEF RecordSettlement, TypeOK, Loop
    <2> QED BY <1>0, <1>6, <2>1 DEF RecordSettlement, TypeOK, money, fills, requests
  <1>7. CASE ListPositions \/ UNCHANGED vars
    BY <1>0, <1>7 DEF ListPositions, TypeOK, rows, money, fills, requests, vars
  <1>8. CASE Pay
    <2>1. PICK won \in Proceeds : cash' = cash + won
      BY <1>8 DEF Pay
    <2>2. cash' \in Int
      BY <2>1 DEF TypeOK, Proceeds
    <2>3. paid' = [paid EXCEPT ![loop.pos] = @ + 1]
      BY <1>8 DEF Pay
    <2>4. paid' \in [Positions -> Nat]
      BY <2>3, CountsOn DEF TypeOK
    <2> QED BY <1>0, <1>8, <2>2, <2>4 DEF Pay, TypeOK, rows, fills, requests
  <1>9. CASE UpdatePosition
    <2>1. position' \in [Positions -> PositionStatus]
      BY <1>0, <1>9 DEF UpdatePosition, TypeOK, PositionStatus, Loop
    <2> QED BY <1>0, <1>9, <2>1 DEF UpdatePosition, TypeOK, money, fills, requests
  <1>10. CASE FillEnd
    <2>1. ended' \in [Positions -> Nat]
      <3>1. ended' = [ended EXCEPT ![loop.pos] = @ + 1]
        BY <1>10 DEF FillEnd
      <3> QED BY <3>1, CountsOn DEF TypeOK
    <2>2. ledger' \in Int
      BY <1>0, <1>10 DEF FillEnd, TypeOK, Loop, Proceeds
    <2> QED BY <1>0, <1>10, <2>1, <2>2 DEF FillEnd, TypeOK, rows, money, requests
  <1>11. CASE Interrupt
    <2>1. interrupts' \in 0 .. MaxInterrupts
      BY <1>11, BoundsAssumption DEF Interrupt, TypeOK
    <2> QED BY <1>0, <1>11, <2>1 DEF Interrupt, TypeOK, rows, money, fills, requests
  <1>12. ASSUME NEW v \in Views, ListView(v) PROVE TypeOK'
    <2>1. view' \in [Views -> SUBSET Positions] /\ viewed' \in 0 .. MaxViews
      BY <1>12, BoundsAssumption DEF ListView, TypeOK, Open
    <2> QED BY <1>0, <1>12, <2>1 DEF ListView, TypeOK, rows, money, fills
  <1>13. ASSUME NEW v \in Views, MarkPosition(v) PROVE TypeOK'
    <2>1. view' \in [Views -> SUBSET Positions]
      BY <1>13 DEF MarkPosition, TypeOK
    <2>2. position' \in [Positions -> PositionStatus] /\ reopened' \in [Positions -> Nat]
      BY <1>13 DEF MarkPosition, TypeOK, PositionStatus
    <2> QED BY <1>0, <1>13, <2>1, <2>2 DEF MarkPosition, TypeOK, money, fills
  <1> QED BY <1>1, <1>2, <1>3, <1>4, <1>5, <1>6, <1>7, <1>8, <1>9, <1>10, <1>11, <1>12, <1>13
          DEF Next, Step

-----------------------------------------------------------------------------
(* The loop and the rows.                                                  *)

LEMMA InitSafe == Init => SafeInv
  <1> SUFFICES ASSUME Init PROVE SafeInv
    OBVIOUS
  <1>1. LoopInv
    BY IdleTyped DEF Init, LoopInv, Betting, Paying
  <1>2. RowInv
    BY IdleTyped DEF Init, RowInv
  <1> QED BY <1>1, <1>2, InitType DEF SafeInv

(* A loop that is idle, or about to settle the next market.                *)
LEMMA Resting ==
  ASSUME NEW next \in Loop, next.pc \in {"idle", "settle", "list"}, next.todo = {}, loop' = next
  PROVE  LoopInv' /\ loop'.pc # "fill"
  BY DEF LoopInv, Betting, Paying

LEMMA GoesOnward ==
  ASSUME TypeOK, NEW todo \in SUBSET Positions, todo \subseteq Open, loop' \in Onward(todo),
         UNCHANGED position
  PROVE  LoopInv' /\ loop'.pc # "fill"
  <1>1. loop' \in Loop
    BY OnwardGoes DEF TypeOK
  <1>2. CASE loop'.pc \in {"idle", "settle"} /\ loop'.todo = {}
    BY <1>1, <1>2, Resting
  <1>3. CASE loop'.pc = "pay" /\ loop'.pos \in todo /\ loop'.todo = todo \ {loop'.pos}
    <2>1. Open' = Open /\ \A p \in todo : position[p] = "open"
      BY DEF Open
    <2> QED BY <1>1, <1>3, <2>1 DEF LoopInv, Betting, Paying
  <1> QED BY <1>2, <1>3, OnwardGoes DEF TypeOK

LEMMA CommandSafe == SafeInv /\ Command => LoopInv' /\ RowInv'
  <1> SUFFICES ASSUME SafeInv, Command PROVE LoopInv' /\ RowInv'
    OBVIOUS
  <1>0. loop \in Loop /\ draft \in [Drafts -> DraftStatus] /\ loop.pc = "idle" /\ Open' = Open
    BY DEF Command, SafeInv, TypeOK, DraftBet, ConfirmDraft, CancelDraft, ClosePosition, Settle, At,
           Open, rows
  <1>1. UNCHANGED <<position, draftOf, opened, view>>
    BY DEF Command, DraftBet, ConfirmDraft, CancelDraft, ClosePosition, Settle, rows, fills, requests
  <1>2. RowInv' \/ loop'.pc = "fill"
    BY <1>1 DEF SafeInv, RowInv
  <1>3. CASE UNCHANGED loop
    BY <1>0, <1>1, <1>2, <1>3 DEF SafeInv, LoopInv, Betting, Paying
  <1>4. ASSUME NEW d \in Drafts, ConfirmDraft(d), ~UNCHANGED loop PROVE LoopInv' /\ RowInv'
    <2>1. /\ loop' = [Idle EXCEPT !.pc = "take", !.draft = d] /\ UNCHANGED draft
          /\ draft[d] = "new"
      BY <1>4 DEF ConfirmDraft, rows
    <2>2. loop'.pc = "take" /\ loop'.draft = d /\ loop'.todo = {}
      BY <2>1 DEF Idle
    <2> QED BY <1>2, <2>1, <2>2 DEF LoopInv, Betting, Paying
  <1>5. ASSUME NEW p \in Positions, ClosePosition(p) PROVE LoopInv' /\ RowInv'
    <2>1. loop' = [Idle EXCEPT !.pc = "pay", !.pos = p] /\ position[p] = "open"
      BY <1>5 DEF ClosePosition
    <2>2. loop'.pc = "pay" /\ loop'.pos = p /\ loop'.todo = {}
      BY <2>1 DEF Idle
    <2> QED BY <1>1, <1>2, <2>1, <2>2 DEF LoopInv, Betting, Paying
  <1>6. ASSUME NEW ms \in SUBSET Markets, Settle(ms) PROVE LoopInv' /\ RowInv'
    <2>1. loop'.pc = "settle" /\ loop'.todo = {} /\ loop' = [Idle EXCEPT !.pc = "settle", !.work = ms]
      BY <1>6 DEF Settle, Idle
    <2> QED BY <1>2, <2>1 DEF LoopInv, Betting, Paying
  <1> QED BY <1>3, <1>4, <1>5, <1>6 DEF Command, DraftBet, CancelDraft

LEMMA StepSafe == SafeInv /\ (Step \/ Interrupt) => LoopInv' /\ RowInv'
  <1> SUFFICES ASSUME SafeInv, Step \/ Interrupt PROVE LoopInv' /\ RowInv'
    OBVIOUS
  <1>0. loop \in Loop /\ TypeOK
    BY DEF SafeInv, TypeOK
  <1>1. CASE TakeStake
    <2>1. /\ loop'.pc = "open" /\ loop'.draft = loop.draft /\ loop'.pos = loop.pos
          /\ loop'.todo = loop.todo /\ loop.pc = "take"
      BY <1>0, <1>1 DEF TakeStake, Loop, At
    <2>2. UNCHANGED <<draft, position, draftOf, opened, view>>
      BY <1>1 DEF TakeStake, rows, fills, requests
    <2> QED BY <2>1, <2>2 DEF SafeInv, LoopInv, RowInv, Betting, Paying, Open
  <1>2. CASE OpenPosition
    <2>1. PICK p \in Positions :
            /\ position[p] = "none" /\ position' = [position EXCEPT ![p] = "open"]
            /\ draftOf' = [draftOf EXCEPT ![p] = loop.draft]
            /\ loop' = [loop EXCEPT !.pc = "fill", !.pos = p]
            /\ loop.pc = "open" /\ UNCHANGED <<draft, opened, view>>
      BY <1>2 DEF OpenPosition, fills, requests, At
    <2>2. loop'.pc = "fill" /\ loop'.draft = loop.draft /\ loop'.pos = p /\ loop'.todo = loop.todo
      BY <1>0, <2>1 DEF Loop
    <2>3. /\ position'[p] = "open" /\ draftOf'[p] = loop.draft
          /\ \A q \in Positions : q # p => position'[q] = position[q] /\ draftOf'[q] = draftOf[q]
      BY <1>0, <2>1 DEF TypeOK
    <2>4. loop.draft \in Drafts /\ draft[loop.draft] = "new" /\ loop.draft # NoDraft
      BY <2>1, DraftsAssumption DEF SafeInv, LoopInv, Betting
    <2>5. p \notin loop.todo /\ Open \subseteq Open'
      BY <2>1, <2>3 DEF SafeInv, LoopInv, Open
    <2>6. LoopInv'
      BY <2>1, <2>2, <2>3, <2>4, <2>5 DEF SafeInv, LoopInv, Betting, Paying
    <2>7. p \notin opened
      BY <2>1 DEF SafeInv, RowInv
    <2>8. \A q \in Positions : position'[q] = "none" <=> draftOf'[q] = NoDraft
      BY <2>1, <2>3, <2>4 DEF SafeInv, RowInv
    <2>9. \A q \in Positions : position[q] # "none" => position'[q] # "none"
      BY <2>3
    <2>10. RowInv'
      BY <1>0, <2>1, <2>2, <2>7, <2>8, <2>9 DEF SafeInv, RowInv, TypeOK
    <2> QED BY <2>6, <2>10
  <1>3. CASE FillOpening
    <2>1. /\ loop'.pc = "confirm" /\ loop'.draft = loop.draft /\ loop'.pos = loop.pos
          /\ loop'.todo = loop.todo /\ loop.pc = "fill"
      BY <1>0, <1>3 DEF FillOpening, Loop, At
    <2>2. UNCHANGED <<draft, position, draftOf, view>> /\ opened' = opened \cup {loop.pos}
      BY <1>3 DEF FillOpening, rows, requests
    <2>3. draftOf[loop.pos] # NoDraft /\ loop.pos \in Positions
      BY <2>1, DraftsAssumption DEF SafeInv, LoopInv, Betting
    <2>4. position[loop.pos] # "none"
      BY <2>3 DEF SafeInv, RowInv
    <2>5. LoopInv'
      BY <2>1, <2>2 DEF SafeInv, LoopInv, Betting, Paying, Open
    <2> QED BY <2>1, <2>2, <2>4, <2>5 DEF SafeInv, RowInv
  <1>4. CASE MarkConfirmed \/ Interrupt
    <2>1. loop' = Idle /\ UNCHANGED <<position, draftOf, opened, view>>
      BY <1>4 DEF MarkConfirmed, Interrupt, rows, fills, requests
    <2> QED BY <2>1, IdleTyped, Resting DEF SafeInv, RowInv
  <1>5. CASE RecordSettlement
    <2>1. /\ loop'.pc = "list" /\ loop'.pos = loop.pos /\ loop'.todo = loop.todo
      BY <1>0, <1>5 DEF RecordSettlement, Loop
    <2>2. UNCHANGED <<draft, position, draftOf, opened, view>>
      BY <1>5 DEF RecordSettlement, fills, requests
    <2> QED BY <2>1, <2>2 DEF SafeInv, LoopInv, RowInv, Betting, Paying, Open
  <1>6. CASE ListPositions
    <2>1. UNCHANGED <<position, draftOf, opened, view>>
      BY <1>6 DEF ListPositions, rows, fills, requests
    <2>2. LoopInv' /\ loop'.pc # "fill"
      BY <1>0, <1>6, <2>1, GoesOnward DEF ListPositions, Open
    <2> QED BY <2>1, <2>2 DEF SafeInv, RowInv
  <1>7. CASE Pay
    <2>1. PICK won \in Proceeds : loop' = [loop EXCEPT !.pc = "update", !.won = won]
      BY <1>7 DEF Pay
    <2>2. /\ loop'.pc = "update" /\ loop'.pos = loop.pos /\ loop'.todo = loop.todo /\ loop.pc = "pay"
      BY <1>0, <1>7, <2>1 DEF Pay, Loop, At
    <2>3. UNCHANGED <<position, draftOf, opened, view>>
      BY <1>7 DEF Pay, rows, fills, requests
    <2> QED BY <2>2, <2>3 DEF SafeInv, LoopInv, RowInv, Betting, Paying, Open
  <1>8. CASE UpdatePosition
    <2>1. /\ loop'.pc = "record" /\ loop'.pos = loop.pos /\ loop'.todo = loop.todo
          /\ loop.pc = "update" /\ loop.end \in {"closed", "settled"}
      BY <1>0, <1>8 DEF UpdatePosition, Loop, At
    <2>2. UNCHANGED <<draft, draftOf, opened, view>>
      BY <1>8 DEF UpdatePosition, fills, requests
    <2>3. loop.pos \in Positions /\ position[loop.pos] = "open"
      BY <2>1 DEF SafeInv, LoopInv, Paying
    <2>4. \A q \in Positions : position'[q] = IF q = loop.pos THEN loop.end ELSE position[q]
      BY <1>0, <1>8 DEF UpdatePosition, TypeOK
    <2>5. LoopInv'
      BY <2>1, <2>3, <2>4 DEF SafeInv, LoopInv, Betting, Paying, Open
    <2>6. \A q \in Positions : position'[q] = "none" <=> position[q] = "none"
      BY <2>1, <2>3, <2>4
    <2> QED BY <1>0, <2>1, <2>2, <2>5, <2>6 DEF SafeInv, RowInv, TypeOK
  <1>9. CASE FillEnd
    <2>1. UNCHANGED <<position, draftOf, opened, view>>
      BY <1>9 DEF FillEnd, rows, requests
    <2>2. loop.todo \subseteq Open
      BY DEF SafeInv, LoopInv
    <2>3. LoopInv' /\ loop'.pc # "fill"
      <3>1. CASE loop' = Idle
        BY <3>1, IdleTyped, Resting
      <3>2. CASE loop' \in Onward(loop.todo)
        BY <1>0, <2>1, <2>2, <3>2, GoesOnward DEF Open
      <3> QED BY <1>9, <3>1, <3>2 DEF FillEnd
    <2> QED BY <2>1, <2>3 DEF SafeInv, RowInv
  <1> QED BY <1>1, <1>2, <1>3, <1>4, <1>5, <1>6, <1>7, <1>8, <1>9 DEF Step

LEMMA ViewSafe ==
  ASSUME SafeInv, NEW v \in Views, ListView(v) \/ MarkPosition(v)
  PROVE  LoopInv' /\ RowInv'
  <1>0. UNCHANGED <<draft, draftOf, opened, loop>>
    BY DEF ListView, MarkPosition, rows, fills
  <1>1. /\ \A p \in Positions : position'[p] = position[p] \/ position'[p] = "open"
        /\ \A p \in Positions : position'[p] = "none" <=> position[p] = "none"
    <2>1. CASE UNCHANGED position
      BY <2>1
    <2>2. ASSUME NEW p \in view[v], position' = [position EXCEPT ![p] = "open"]
          PROVE  /\ \A q \in Positions : position'[q] = position[q] \/ position'[q] = "open"
                 /\ \A q \in Positions : position'[q] = "none" <=> position[q] = "none"
      BY <2>2 DEF SafeInv, TypeOK, RowInv
    <2> QED BY <2>1, <2>2 DEF ListView, MarkPosition, rows
  <1>2. Open \subseteq Open' /\ \A p \in Open : position[p] # "none"
    BY <1>1 DEF Open
  <1>3. LoopInv'
    BY <1>0, <1>1, <1>2 DEF SafeInv, LoopInv, Betting, Paying
  <1>4. \A w \in Views : view'[w] \subseteq view[w] \/ view'[w] = Open
    BY DEF ListView, MarkPosition, SafeInv, TypeOK
  <1>5. \A w \in Views : \A p \in view'[w] : p \in Positions /\ position[p] # "none"
    BY <1>2, <1>4 DEF SafeInv, RowInv, TypeOK, Open
  <1>6. RowInv'
    BY <1>0, <1>1, <1>5 DEF SafeInv, RowInv, TypeOK
  <1> QED BY <1>3, <1>6

LEMMA NextSafe == SafeInv /\ [Next]_vars => SafeInv'
  <1> SUFFICES ASSUME SafeInv, [Next]_vars PROVE SafeInv'
    OBVIOUS
  <1>1. CASE UNCHANGED vars
    BY <1>1, NextType DEF vars, rows, fills, requests, SafeInv, LoopInv, RowInv, Open
  <1> QED BY <1>1, NextType, CommandSafe, StepSafe, ViewSafe DEF Next, SafeInv

LEMMA AlwaysSafe == Spec => []SafeInv
  BY InitSafe, NextSafe, PTL DEF Spec

(* The tables, the account and the loop keep the shape of their records in *)
(* every execution.                                                        *)
THEOREM TypeCorrect == Spec => []TypeOK
  <1>1. SafeInv => TypeOK
    BY DEF SafeInv
  <1> QED BY <1>1, AlwaysSafe, PTL

-----------------------------------------------------------------------------
(* Payouts.                                                                *)

(* What may still be paid for a position: one, until it is paid, and again *)
(* once its row says open after that.                                      *)
Due(p) ==
  IF position[p] \in {"none", "open"} /\ ~(loop.pc = "update" /\ loop.pos = p) THEN 1 ELSE 0
Claims(p) == paid[p] + Due(p) - reopened[p]
Beyond == [p \in Positions |-> IF Claims(p) > 1 THEN Claims(p) - 1 ELSE 0]

PayInv == IsFiniteSet(Units(Beyond)) /\ Sum(Beyond) <= interrupts

LEMMA BeyondTyped ==
  TypeOK => /\ Beyond \in [Positions -> Nat]
            /\ \A p \in Positions : Claims(p) \in Int /\ Due(p) \in 0 .. 1
            /\ interrupts \in Nat
  <1> SUFFICES ASSUME TypeOK
               PROVE  /\ Beyond \in [Positions -> Nat]
                      /\ \A p \in Positions : Claims(p) \in Int /\ Due(p) \in 0 .. 1
                      /\ interrupts \in Nat
    OBVIOUS
  <1>1. \A p \in Positions : Claims(p) \in Int /\ Due(p) \in 0 .. 1
    BY DEF TypeOK, Claims, Due
  <1> HIDE DEF Claims
  <1>2. Beyond \in [Positions -> Nat]
    BY <1>1 DEF Beyond
  <1> QED BY <1>1, <1>2, BoundsAssumption DEF TypeOK

(* A step in which nobody's claims grow, or one position's do by one, at   *)
(* the price of an interruption.                                           *)
LEMMA PayKeeps ==
  ASSUME TypeOK, TypeOK', PayInv,
         \/ interrupts' = interrupts /\ \A p \in Positions : Claims(p)' <= Claims(p)
         \/ /\ interrupts' = interrupts + 1
            /\ \E x \in Positions : /\ Claims(x)' <= Claims(x) + 1
                                    /\ \A p \in Positions \ {x} : Claims(p)' <= Claims(p)
         \/ interrupts' = interrupts + 1 /\ \A p \in Positions : Claims(p)' <= Claims(p)
  PROVE  PayInv'
  <1>0. TypeOK' => /\ Beyond' \in [Positions -> Nat]
                   /\ \A p \in Positions : Claims(p)' \in Int
    <2>1. (TypeOK => /\ Beyond \in [Positions -> Nat]
                     /\ \A p \in Positions : Claims(p) \in Int /\ Due(p) \in 0 .. 1
                     /\ interrupts \in Nat)'
      BY BeyondTyped, PTL
    <2> QED BY <2>1
  <1>1. /\ Beyond \in [Positions -> Nat] /\ Beyond' \in [Positions -> Nat] /\ interrupts \in Nat
        /\ \A p \in Positions : Claims(p) \in Int /\ Claims(p)' \in Int
    BY <1>0, BeyondTyped
  <1>2. /\ \A p \in Positions : Beyond[p] = IF Claims(p) > 1 THEN Claims(p) - 1 ELSE 0
        /\ \A p \in Positions : Beyond'[p] = IF Claims(p)' > 1 THEN Claims(p)' - 1 ELSE 0
    BY DEF Beyond
  <1>3. ASSUME NEW p \in Positions, Claims(p)' <= Claims(p) PROVE Beyond'[p] <= Beyond[p]
    <2> DEFINE n == Claims(p)
               m == Claims(p)'
    <2>1. n \in Int /\ m \in Int /\ m <= n
      BY <1>1, <1>3
    <2> HIDE DEF n, m
    <2>2. (IF m > 1 THEN m - 1 ELSE 0) <= (IF n > 1 THEN n - 1 ELSE 0)
      BY <2>1
    <2> QED BY <1>2, <2>2 DEF n, m
  <1>4. ASSUME NEW p \in Positions, Claims(p)' <= Claims(p) + 1 PROVE Beyond'[p] <= Beyond[p] + 1
    <2> DEFINE n == Claims(p)
               m == Claims(p)'
    <2>1. n \in Int /\ m \in Int /\ m <= n + 1
      BY <1>1, <1>4
    <2> HIDE DEF n, m
    <2>2. (IF m > 1 THEN m - 1 ELSE 0) <= (IF n > 1 THEN n - 1 ELSE 0) + 1
      BY <2>1
    <2> QED BY <1>2, <2>2 DEF n, m
  <1>5. CASE \A p \in Positions : Claims(p)' <= Claims(p)
    <2>1. \A p \in Positions : Beyond'[p] <= Beyond[p]
      BY <1>3, <1>5
    <2> DEFINE g == Beyond'
    <2> HIDE DEF g
    <2>2. g \in [Positions -> Nat] /\ \A p \in Positions : g[p] <= Beyond[p]
      BY <1>1, <2>1 DEF g
    <2>3. IsFiniteSet(Units(g)) /\ Sum(g) \in Nat /\ Sum(Beyond) \in Nat /\ Sum(g) <= Sum(Beyond)
      BY <1>1, <2>2, SumLess DEF PayInv
    <2>4. interrupts' \in {interrupts, interrupts + 1} /\ Sum(Beyond) <= interrupts
      BY DEF PayInv
    <2>5. Sum(g) <= interrupts'
      BY <1>1, <2>3, <2>4
    <2> QED BY <2>3, <2>5 DEF PayInv, g, Sum, Units
  <1>6. ASSUME interrupts' = interrupts + 1, NEW x \in Positions, Claims(x)' <= Claims(x) + 1,
               \A p \in Positions \ {x} : Claims(p)' <= Claims(p)
        PROVE  PayInv'
    <2> DEFINE g == Beyond'
    <2> HIDE DEF g
    <2>2. /\ g \in [Positions -> Nat] /\ g[x] <= Beyond[x] + 1
          /\ \A p \in Positions \ {x} : g[p] <= Beyond[p]
      BY <1>1, <1>3, <1>4, <1>6 DEF g
    <2>3. IsFiniteSet(Units(g)) /\ Sum(g) \in Nat /\ Sum(Beyond) \in Nat /\ Sum(g) <= Sum(Beyond) + 1
      BY <1>1, <2>2, SumOneMore DEF PayInv
    <2>4. Sum(g) <= interrupts'
      BY <1>1, <1>6, <2>3 DEF PayInv
    <2> QED BY <2>3, <2>4 DEF PayInv, g, Sum, Units
  <1> QED BY <1>5, <1>6

LEMMA InitPay == Init => PayInv
  <1> SUFFICES ASSUME Init PROVE PayInv
    OBVIOUS
  <1>1. \A p \in Positions : Claims(p) = 1
    BY IdleTyped DEF Init, Claims, Due
  <1>2. Beyond = [p \in Positions |-> 0]
    BY <1>1 DEF Beyond
  <1>3. Beyond \in [Positions -> Nat] /\ \A p \in Positions : Beyond[p] = 0
    BY <1>2
  <1> QED BY <1>3, SumNothing DEF Init, PayInv

LEMMA NextPay == SafeInv /\ SafeInv' /\ PayInv /\ [Next]_vars => PayInv'
  <1> SUFFICES ASSUME SafeInv, SafeInv', PayInv, [Next]_vars PROVE PayInv'
    OBVIOUS
  <1>0. TypeOK /\ TypeOK' /\ loop \in Loop
    BY DEF SafeInv, TypeOK
  \* A step that neither pays nor writes a position, at another place.
  <1>1. ASSUME UNCHANGED <<position, paid, reopened, interrupts>>,
               loop.pc # "update", loop'.pc # "update"
        PROVE  PayInv'
    <2>1. \A p \in Positions : Claims(p)' = Claims(p)
      BY <1>1 DEF Claims, Due
    <2>2. \A p \in Positions : Claims(p)' <= Claims(p)
      BY <1>0, <2>1, BeyondTyped
    <2> QED BY <1>0, <1>1, <2>2, PayKeeps
  <1>2. CASE Command
    <2>1. /\ UNCHANGED <<position, paid, reopened, interrupts>>
          /\ loop.pc = "idle" /\ loop'.pc # "update"
      BY <1>2 DEF Command, DraftBet, ConfirmDraft, CancelDraft, ClosePosition, Settle, rows, money,
                  requests, At, Idle
    <2> QED BY <1>1, <2>1
  <1>3. CASE TakeStake \/ FillOpening \/ MarkConfirmed \/ RecordSettlement
    <2>1. /\ UNCHANGED <<position, paid, reopened, interrupts>>
          /\ loop.pc # "update"
      BY <1>3 DEF TakeStake, FillOpening, MarkConfirmed, RecordSettlement, rows, money, requests, At
    <2>2. TakeStake \/ FillOpening \/ MarkConfirmed => loop'.pc # "update"
      BY <1>0 DEF TakeStake, FillOpening, MarkConfirmed, Idle, Loop
    <2>3. RecordSettlement => loop'.pc # "update"
      BY <1>0 DEF RecordSettlement, Loop
    <2> QED BY <1>1, <1>3, <2>1, <2>2, <2>3
  <1>4. CASE ListPositions \/ FillEnd
    <2>1. /\ UNCHANGED <<position, paid, reopened, interrupts>> /\ loop.pc # "update"
      BY <1>4 DEF ListPositions, FillEnd, rows, money, requests, At
    <2>2. \A todo \in SUBSET Positions : loop' \in Onward(todo) => loop'.pc # "update"
      BY <1>0, OnwardGoes
    <2>3. loop.todo \in SUBSET Positions /\ Idle.pc # "update"
      BY <1>0, IdleTyped DEF Loop
    <2>4. loop'.pc # "update"
      BY <1>4, <2>2, <2>3 DEF ListPositions, FillEnd, Open
    <2> QED BY <1>1, <2>1, <2>4
  <1>5. CASE OpenPosition
    <2>1. PICK p \in Positions :
            /\ position[p] = "none" /\ position' = [position EXCEPT ![p] = "open"]
            /\ loop' = [loop EXCEPT !.pc = "fill", !.pos = p]
            /\ loop.pc = "open" /\ UNCHANGED <<paid, reopened, interrupts>>
      BY <1>5 DEF OpenPosition, money, requests, At
    <2>2. loop'.pc # "update"
      BY <1>0, <2>1 DEF Loop
    <2>3. \A q \in Positions : position'[q] = IF q = p THEN "open" ELSE position[q]
      BY <1>0, <2>1 DEF TypeOK
    <2>4. \A q \in Positions : Claims(q)' = Claims(q)
      BY <2>1, <2>2, <2>3 DEF Claims, Due
    <2>5. \A q \in Positions : Claims(q)' <= Claims(q)
      BY <1>0, <2>4, BeyondTyped
    <2> QED BY <1>0, <2>1, <2>5, PayKeeps
  <1>6. CASE Pay
    <2>1. PICK won \in Proceeds : loop' = [loop EXCEPT !.pc = "update", !.won = won]
      BY <1>6 DEF Pay
    <2>2. loop'.pc = "update" /\ loop'.pos = loop.pos /\ loop.pc = "pay"
      BY <1>0, <1>6, <2>1 DEF Pay, Loop, At
    <2>3. UNCHANGED <<position, reopened, interrupts>> /\ paid' = [paid EXCEPT ![loop.pos] = @ + 1]
      BY <1>6 DEF Pay, rows, requests
    <2>4. loop.pos \in Positions /\ position[loop.pos] = "open"
      BY <2>2 DEF SafeInv, LoopInv, Paying
    <2>5. \A q \in Positions : paid'[q] = IF q = loop.pos THEN paid[q] + 1 ELSE paid[q]
      BY <1>0, <2>3 DEF TypeOK
    <2>6. \A q \in Positions : Due(q) = (IF q = loop.pos THEN Due(q)' + 1 ELSE Due(q)')
      BY <2>2, <2>3, <2>4 DEF Due
    <2>7. \A q \in Positions : paid[q] \in Nat /\ reopened[q] \in Nat /\ Due(q) \in 0 .. 1 /\ Due(q)' \in 0 .. 1
      BY <1>0 DEF TypeOK, Due
    <2>8. \A q \in Positions : Claims(q)' <= Claims(q)
      <3> SUFFICES ASSUME NEW q \in Positions PROVE Claims(q)' <= Claims(q)
        OBVIOUS
      <3>1. Claims(q)' = paid'[q] + Due(q)' - reopened[q]
        BY <2>3 DEF Claims
      <3>2. Claims(q) = paid[q] + Due(q) - reopened[q]
        BY DEF Claims
      <3> HIDE DEF Due, Claims
      <3> QED BY <2>5, <2>6, <2>7, <3>1, <3>2
    <2> QED BY <1>0, <2>3, <2>8, PayKeeps
  <1>7. CASE UpdatePosition
    <2>1. /\ loop'.pc = "record" /\ loop'.pos = loop.pos
          /\ loop.pc = "update" /\ loop.end \in {"closed", "settled"}
      BY <1>0, <1>7 DEF UpdatePosition, Loop, At
    <2>2. UNCHANGED <<paid, reopened, interrupts>>
      BY <1>7 DEF UpdatePosition, money, requests
    <2>3. \A q \in Positions : position'[q] = IF q = loop.pos THEN loop.end ELSE position[q]
      BY <1>0, <1>7 DEF UpdatePosition, TypeOK
    <2>4. \A q \in Positions : Claims(q)' = Claims(q)
      BY <2>1, <2>2, <2>3 DEF Claims, Due
    <2>5. \A q \in Positions : Claims(q)' <= Claims(q)
      BY <1>0, <2>4, BeyondTyped
    <2> QED BY <1>0, <2>2, <2>5, PayKeeps
  <1>8. CASE Interrupt
    <2>1. UNCHANGED <<position, paid, reopened>> /\ interrupts' = interrupts + 1 /\ loop'.pc = "idle"
      BY <1>8, IdleTyped DEF Interrupt, rows, money, requests
    <2>2. \A q \in Positions : \/ Due(q)' = Due(q)
                               \/ Due(q)' = Due(q) + 1 /\ loop.pc = "update" /\ q = loop.pos
      BY <2>1 DEF Due
    <2>3. \A q \in Positions : Claims(q)' = paid[q] + Due(q)' - reopened[q]
      BY <2>1 DEF Claims
    <2>4. \A q \in Positions : paid[q] \in Nat /\ reopened[q] \in Nat /\ Due(q) \in 0 .. 1
      BY <1>0 DEF TypeOK, Due
    <2>5. \A q \in Positions : /\ Claims(q)' <= Claims(q) + 1
                               /\ ~(loop.pc = "update" /\ q = loop.pos) => Claims(q)' <= Claims(q)
      <3> HIDE DEF Due
      <3> SUFFICES ASSUME NEW q \in Positions
                   PROVE  /\ Claims(q)' <= Claims(q) + 1
                          /\ ~(loop.pc = "update" /\ q = loop.pos) => Claims(q)' <= Claims(q)
        OBVIOUS
      <3>1. Claims(q) = paid[q] + Due(q) - reopened[q]
        BY DEF Claims
      <3>2. CASE Due(q)' = Due(q)
        BY <2>3, <2>4, <3>1, <3>2
      <3>3. CASE Due(q)' = Due(q) + 1 /\ loop.pc = "update" /\ q = loop.pos
        BY <2>3, <2>4, <3>1, <3>3
      <3> QED BY <2>2, <3>2, <3>3
    <2>6. CASE loop.pc = "update"
      <3>1. loop.pos \in Positions
        BY <2>6 DEF SafeInv, LoopInv, Paying
      <3> QED BY <1>0, <2>1, <2>5, <3>1, PayKeeps
    <2>7. CASE loop.pc # "update"
      BY <1>0, <2>1, <2>5, <2>7, PayKeeps
    <2> QED BY <2>6, <2>7
  <1>9. ASSUME NEW v \in Views, ListView(v) PROVE PayInv'
    <2>1. UNCHANGED <<position, paid, reopened, interrupts, loop>>
      BY <1>9 DEF ListView, rows, money
    <2>2. \A q \in Positions : Claims(q)' = Claims(q)
      BY <2>1 DEF Claims, Due
    <2>3. \A q \in Positions : Claims(q)' <= Claims(q)
      BY <1>0, <2>2, BeyondTyped
    <2> QED BY <1>0, <2>1, <2>3, PayKeeps
  <1>10. ASSUME NEW v \in Views, MarkPosition(v) PROVE PayInv'
    <2>0. UNCHANGED <<paid, interrupts, loop>>
      BY <1>10 DEF MarkPosition, money
    <2>1. CASE UNCHANGED <<position, reopened>>
      <3>1. \A q \in Positions : Claims(q)' = Claims(q)
        BY <2>0, <2>1 DEF Claims, Due
      <3>2. \A q \in Positions : Claims(q)' <= Claims(q)
        BY <1>0, <3>1, BeyondTyped
      <3> QED BY <1>0, <2>0, <3>2, PayKeeps
    <2>2. ASSUME NEW p \in view[v], position' = [position EXCEPT ![p] = "open"],
                 reopened' = IF position[p] = "open" THEN reopened
                             ELSE [reopened EXCEPT ![p] = @ + 1]
          PROVE  PayInv'
      <3>1. p \in Positions
        BY <1>0 DEF TypeOK
      <3>2. \A q \in Positions :
              /\ position'[q] = (IF q = p THEN "open" ELSE position[q])
              /\ reopened'[q] = IF q = p /\ position[p] # "open" THEN reopened[q] + 1 ELSE reopened[q]
        BY <1>0, <2>2, <3>1 DEF TypeOK
      <3>3. \A q \in Positions : /\ Due(q) \in 0 .. 1 /\ Due(q)' \in 0 .. 1
                                 /\ ~(q = p /\ position[p] # "open") => Due(q)' = Due(q)
        BY <2>0, <3>2 DEF Due
      <3>4. \A q \in Positions : Claims(q)' <= Claims(q)
        <4> SUFFICES ASSUME NEW q \in Positions PROVE Claims(q)' <= Claims(q)
          OBVIOUS
        <4>1. Claims(q)' = paid[q] + Due(q)' - reopened'[q]
          BY <2>0 DEF Claims
        <4>2. Claims(q) = paid[q] + Due(q) - reopened[q]
          BY DEF Claims
        <4>3. paid[q] \in Nat /\ reopened[q] \in Nat
          BY <1>0 DEF TypeOK
        <4> HIDE DEF Due, Claims
        <4>4. CASE q = p /\ position[p] # "open"
          BY <3>2, <3>3, <4>1, <4>2, <4>3, <4>4
        <4>5. CASE ~(q = p /\ position[p] # "open")
          BY <3>2, <3>3, <4>1, <4>2, <4>3, <4>5
        <4> QED BY <4>4, <4>5
      <3> QED BY <1>0, <2>0, <3>4, PayKeeps
    <2> QED BY <1>10, <2>1, <2>2 DEF MarkPosition
  <1>11. CASE UNCHANGED vars
    <2>1. UNCHANGED <<position, paid, reopened, interrupts, loop>>
      BY <1>11 DEF vars, rows, money, requests
    <2>2. \A q \in Positions : Claims(q)' = Claims(q)
      BY <2>1 DEF Claims, Due
    <2>3. \A q \in Positions : Claims(q)' <= Claims(q)
      BY <1>0, <2>2, BeyondTyped
    <2> QED BY <1>0, <2>1, <2>3, PayKeeps
  <1> QED BY <1>2, <1>3, <1>4, <1>5, <1>6, <1>7, <1>8, <1>9, <1>10, <1>11 DEF Next, Step

(* Whatever is closed, settled, swept, listed and cut short in any order:  *)
(* a second payout of a position has a stale row that a request wrote over *)
(* its end, or a command cut short between payout and row, behind it.      *)
THEOREM PayoutsAccounted == Spec => []PaidPerOpening
  <1> DEFINE Inv == SafeInv /\ PayInv
  <1>1. Init => Inv
    BY InitSafe, InitPay
  <1>2. Inv /\ [Next]_vars => Inv'
    BY NextSafe, NextPay
  <1>3. Inv => PaidPerOpening
    <2> SUFFICES ASSUME SafeInv, PayInv PROVE PaidPerOpening
      OBVIOUS
    <2> DEFINE f == [p \in Positions |-> IF paid[p] > 1 + reopened[p]
                                         THEN paid[p] - 1 - reopened[p] ELSE 0]
    <2>0. TypeOK
      BY DEF SafeInv
    <2>1. \A p \in Positions : paid[p] \in Nat /\ reopened[p] \in Nat /\ Due(p) \in 0 .. 1
      BY <2>0, BeyondTyped DEF TypeOK
    <2>2. f \in [Positions -> Nat] /\ Beyond \in [Positions -> Nat]
      BY <2>0, <2>1, BeyondTyped
    <2>3. ASSUME NEW p \in Positions PROVE f[p] <= Beyond[p]
      <3>1. Beyond[p] = IF paid[p] + Due(p) - reopened[p] > 1
                        THEN (paid[p] + Due(p) - reopened[p]) - 1 ELSE 0
        BY DEF Beyond, Claims
      <3> HIDE DEF Beyond, Due
      <3> QED BY <2>1, <3>1
    <2> HIDE DEF f
    <2>4. Sum(f) \in Nat /\ Sum(Beyond) \in Nat /\ Sum(f) <= Sum(Beyond)
      BY <2>2, <2>3, SumLess DEF PayInv
    <2>5. Sum(f) <= interrupts
      BY <2>0, <2>4, BeyondTyped DEF PayInv
    <2> QED BY <2>5 DEF PaidPerOpening, f
  <1> QED BY <1>1, <1>2, <1>3, PTL DEF Spec

-----------------------------------------------------------------------------
(* Positions of a draft.                                                   *)

(* The positions of a draft beyond its first, the drafts that have one and *)
(* are not confirmed, and the command that is about to confirm one.        *)
Extra == [d \in Drafts |-> IF PositionsOf(d) = {} THEN 0 ELSE Cardinality(PositionsOf(d)) - 1]
Unmarked == {d \in Drafts : PositionsOf(d) # {} /\ draft[d] # "confirmed"}
Confirming == IF loop.pc \in {"fill", "confirm"} THEN 1 ELSE 0

OneInv ==
  /\ IsFiniteSet(Units(Extra)) /\ IsFiniteSet(Unmarked)
  /\ Sum(Extra) + Cardinality(Unmarked) <= interrupts + Confirming

LEMMA PositionsCounted ==
  ASSUME NEW d
  PROVE  /\ IsFiniteSet(PositionsOf(d)) /\ Cardinality(PositionsOf(d)) \in Nat
         /\ Cardinality(PositionsOf(d)) = 0 <=> PositionsOf(d) = {}
  <1>1. IsFiniteSet(Positions) /\ PositionsOf(d) \in SUBSET Positions
    BY BoundsAssumption, FS_Interval DEF Positions, PositionsOf
  <1>2. IsFiniteSet(PositionsOf(d))
    BY <1>1, FS_Subset
  <1> QED BY <1>2, FS_CardinalityType, FS_EmptySet

LEMMA ExtraTyped == Extra \in [Drafts -> Nat]
  <1>1. \A d \in Drafts : (IF PositionsOf(d) = {} THEN 0 ELSE Cardinality(PositionsOf(d)) - 1) \in Nat
    BY PositionsCounted
  <1> QED BY <1>1 DEF Extra

LEMMA InitOne == Init => OneInv
  <1> SUFFICES ASSUME Init PROVE OneInv
    OBVIOUS
  <1>1. \A d \in Drafts : PositionsOf(d) = {}
    BY DraftsAssumption DEF Init, PositionsOf
  <1>2. Unmarked = {} /\ \A d \in Drafts : Extra[d] = 0
    BY <1>1 DEF Unmarked, Extra
  <1>3. IsFiniteSet(Units(Extra)) /\ Sum(Extra) = 0
    BY <1>2, ExtraTyped, SumNothing
  <1>4. IsFiniteSet(Unmarked) /\ Cardinality(Unmarked) = 0
    BY <1>2, FS_EmptySet
  <1> QED BY <1>3, <1>4, IdleTyped DEF OneInv, Confirming, Init

(* A step that opens nothing and confirms nothing.                         *)
LEMMA OneKeeps ==
  ASSUME SafeInv, SafeInv', OneInv, UNCHANGED draftOf,
         \A d \in Drafts : draft[d] = "confirmed" => draft'[d] = "confirmed",
         interrupts + Confirming <= interrupts' + Confirming'
  PROVE  OneInv'
  <1>1. \A d \in Drafts : PositionsOf(d)' = PositionsOf(d)
    BY DEF PositionsOf
  <1>2. Extra' = Extra
    BY <1>1 DEF Extra
  <1>3. Unmarked' \subseteq Unmarked
    BY <1>1 DEF Unmarked
  <1> DEFINE u == Unmarked'
  <1>4. IsFiniteSet(u) /\ Cardinality(u) <= Cardinality(Unmarked)
    BY <1>3, FS_Subset DEF OneInv
  <1>5. Cardinality(u) \in Nat /\ Cardinality(Unmarked) \in Nat /\ Sum(Extra) \in Nat
    BY <1>4, FS_CardinalityType DEF OneInv, Sum
  <1> HIDE DEF u
  <1>6. interrupts \in Nat /\ interrupts' \in Nat /\ Confirming \in 0 .. 1 /\ Confirming' \in 0 .. 1
    BY BoundsAssumption DEF SafeInv, TypeOK, Confirming
  <1>7. Sum(Extra) + Cardinality(u) <= interrupts' + Confirming'
    BY <1>4, <1>5, <1>6 DEF OneInv
  <1> QED BY <1>2, <1>4, <1>7 DEF OneInv, u, Sum, Units

(* What opening a position does to the rows of the draft, and to those of  *)
(* the others.                                                             *)
LEMMA OpensOne ==
  ASSUME SafeInv, OpenPosition
  PROVE  \E e \in Drafts, p \in Positions :
           /\ p \notin PositionsOf(e) /\ e = loop.draft
           /\ loop.pc = "open" /\ draft[e] = "new"
           /\ \A d \in Drafts : PositionsOf(d)' = IF d = e THEN PositionsOf(e) \cup {p}
                                               ELSE PositionsOf(d)
           /\ loop'.pc = "fill" /\ UNCHANGED <<draft, interrupts>>
  <1>0. loop \in Loop /\ draftOf \in [Positions -> Drafts \cup {NoDraft}]
    BY DEF SafeInv, TypeOK
  <1>1. PICK p \in Positions :
          /\ position[p] = "none" /\ draftOf' = [draftOf EXCEPT ![p] = loop.draft]
          /\ loop' = [loop EXCEPT !.pc = "fill", !.pos = p]
          /\ loop.pc = "open" /\ UNCHANGED <<draft, interrupts>>
    BY DEF OpenPosition, At
  <1>2. draftOf[p] = NoDraft /\ loop.draft \in Drafts /\ draft[loop.draft] = "new"
    BY <1>1 DEF SafeInv, RowInv, LoopInv, Betting
  <1>3. \A q \in Positions : draftOf'[q] = IF q = p THEN loop.draft ELSE draftOf[q]
    BY <1>0, <1>1
  <1>4. p \notin PositionsOf(loop.draft)
    BY <1>2, DraftsAssumption DEF PositionsOf
  <1>5. ASSUME NEW d \in Drafts
        PROVE  PositionsOf(d)' = IF d = loop.draft THEN PositionsOf(loop.draft) \cup {p} ELSE PositionsOf(d)
    <2>1. PositionsOf(d)' = {q \in Positions : draftOf'[q] = d}
      BY DEF PositionsOf
    <2>2. CASE d = loop.draft
      BY <1>3, <2>1, <2>2 DEF PositionsOf
    <2>3. CASE d # loop.draft
      BY <1>2, <1>3, <2>1, <2>3, DraftsAssumption DEF PositionsOf
    <2> QED BY <2>2, <2>3
  <1>7. loop'.pc = "fill"
    BY <1>0, <1>1 DEF Loop
  <1> QED BY <1>1, <1>2, <1>4, <1>5, <1>7

LEMMA OpenOne == SafeInv /\ SafeInv' /\ OneInv /\ OpenPosition => OneInv'
  <1> SUFFICES ASSUME SafeInv, SafeInv', OneInv, OpenPosition PROVE OneInv'
    OBVIOUS
  <1>1. PICK e \in Drafts, p \in Positions :
           /\ p \notin PositionsOf(e) /\ e = loop.draft
           /\ loop.pc = "open" /\ draft[e] = "new"
           /\ \A d \in Drafts : PositionsOf(d)' = IF d = e THEN PositionsOf(e) \cup {p}
                                               ELSE PositionsOf(d)
           /\ loop'.pc = "fill" /\ UNCHANGED <<draft, interrupts>>
    BY OpensOne
  <1> DEFINE n == Cardinality(PositionsOf(e))
             u == Unmarked'
             x == Extra'
  <1>2. n \in Nat /\ Cardinality(PositionsOf(e) \cup {p}) = n + 1 /\ (n = 0 <=> PositionsOf(e) = {})
    BY <1>1, PositionsCounted, FS_AddElement
  <1>3. interrupts \in Nat /\ Confirming = 0 /\ Confirming' = 1
    BY <1>1, BoundsAssumption DEF SafeInv, TypeOK, Confirming
  <1>4. x = [d \in Drafts |-> IF d = e THEN n ELSE Extra[d]]
    <2>1. \A d \in Drafts \ {e} : (IF PositionsOf(d)' = {} THEN 0 ELSE Cardinality(PositionsOf(d)') - 1)
                                  = Extra[d]
      BY <1>1 DEF Extra
    <2>2. (IF PositionsOf(e)' = {} THEN 0 ELSE Cardinality(PositionsOf(e)') - 1) = n
      <3>1. PositionsOf(e)' = PositionsOf(e) \cup {p}
        BY <1>1
      <3>2. PositionsOf(e)' # {} /\ Cardinality(PositionsOf(e)') = n + 1
        BY <1>2, <3>1
      <3> HIDE DEF n
      <3> QED BY <1>2, <3>2
    <2>3. x = [d \in Drafts |-> IF PositionsOf(d)' = {} THEN 0 ELSE Cardinality(PositionsOf(d)') - 1]
      BY DEF Extra
    <2> HIDE DEF x, n
    <2>4. ASSUME NEW d \in Drafts PROVE x[d] = IF d = e THEN n ELSE Extra[d]
      <3>1. x[d] = IF PositionsOf(d)' = {} THEN 0 ELSE Cardinality(PositionsOf(d)') - 1
        BY <2>3
      <3>2. CASE d = e
        BY <2>2, <3>1, <3>2
      <3>3. CASE d # e
        BY <2>1, <3>1, <3>3
      <3> QED BY <3>2, <3>3
    <2>5. x = [d \in Drafts |-> x[d]]
      BY <2>3
    <2> QED BY <2>4, <2>5
  <1>5. u = Unmarked \cup {e}
    <2>1. u = {d \in Drafts : PositionsOf(d)' # {} /\ draft[d] # "confirmed"}
      BY <1>1 DEF Unmarked
    <2>2. \A d \in Drafts : PositionsOf(d)' # {} <=> PositionsOf(d) # {} \/ d = e
      BY <1>1
    <2> HIDE DEF u
    <2> QED BY <1>1, <2>1, <2>2 DEF Unmarked
  <1>6. /\ Sum(Extra) \in Nat /\ Cardinality(Unmarked) \in Nat
        /\ Sum(Extra) + Cardinality(Unmarked) <= interrupts
        /\ IsFiniteSet(Units(Extra)) /\ IsFiniteSet(Unmarked)
    BY <1>3, FS_CardinalityType DEF OneInv, Sum
  <1>7. CASE n = 0
    <2>1. Extra[e] = 0 /\ e \notin Unmarked
      BY <1>1, <1>2, <1>7 DEF Extra, Unmarked
    <2>2. x = Extra
      <3>1. Extra = [d \in Drafts |-> Extra[d]]
        BY ExtraTyped
      <3> HIDE DEF x, n
      <3> QED BY <1>4, <1>7, <2>1, <3>1
    <2>3. IsFiniteSet(u) /\ Cardinality(u) = Cardinality(Unmarked) + 1
      BY <1>5, <1>6, <2>1, FS_AddElement
    <2> HIDE DEF x, u
    <2>4. Sum(x) + Cardinality(u) <= interrupts' + 1
      BY <1>1, <1>3, <1>6, <2>2, <2>3
    <2> QED BY <1>3, <1>6, <2>2, <2>3, <2>4 DEF OneInv, x, u, Sum, Units
  <1>8. CASE n # 0
    <2>1. Extra[e] = n - 1 /\ e \in Unmarked
      BY <1>1, <1>2, <1>8 DEF Extra, Unmarked
    <2>2. x = [Extra EXCEPT ![e] = @ + 1]
      <3> HIDE DEF x, n
      <3>1. (n - 1) + 1 = n
        BY <1>2
      <3>2. Extra = [d \in Drafts |-> Extra[d]]
        BY ExtraTyped
      <3> QED BY <1>4, <2>1, <3>1, <3>2
    <2>3. IsFiniteSet(Units(x)) /\ Sum(x) = Sum(Extra) + 1
      BY <1>1, <1>6, <2>2, ExtraTyped, SumGrows
    <2>4. u = Unmarked
      BY <1>5, <2>1
    <2> HIDE DEF x, u
    <2>5. Sum(x) + Cardinality(u) <= interrupts' + 1
      BY <1>1, <1>3, <1>6, <2>3, <2>4
    <2> QED BY <1>3, <1>6, <2>3, <2>4, <2>5 DEF OneInv, x, u, Sum, Units
  <1> QED BY <1>7, <1>8

LEMMA MarkOne == SafeInv /\ SafeInv' /\ OneInv /\ MarkConfirmed => OneInv'
  <1> SUFFICES ASSUME SafeInv, SafeInv', OneInv, MarkConfirmed PROVE OneInv'
    OBVIOUS
  <1> DEFINE e == loop.draft
             u == Unmarked'
  <1>1. /\ draft' = [draft EXCEPT ![e] = "confirmed"] /\ UNCHANGED <<draftOf, interrupts>>
        /\ loop.pc = "confirm" /\ loop'.pc = "idle"
    BY IdleTyped DEF MarkConfirmed, At
  <1>2. e \in Drafts /\ draft[e] = "new" /\ loop.pos \in PositionsOf(e)
    BY <1>1 DEF SafeInv, LoopInv, Betting, PositionsOf
  <1>3. Extra' = Extra /\ \A d \in Drafts : PositionsOf(d)' = PositionsOf(d)
    BY <1>1 DEF Extra, PositionsOf
  <1>4. e \in Unmarked /\ u = Unmarked \ {e}
    BY <1>1, <1>2, <1>3 DEF Unmarked, SafeInv, TypeOK
  <1>5. /\ IsFiniteSet(u) /\ Cardinality(u) = Cardinality(Unmarked) - 1
        /\ Cardinality(Unmarked) \in Nat /\ Sum(Extra) \in Nat /\ IsFiniteSet(Units(Extra))
        /\ Sum(Extra) + Cardinality(Unmarked) <= interrupts + Confirming
    BY <1>4, FS_RemoveElement, FS_CardinalityType DEF OneInv, Sum
  <1>6. interrupts \in Nat /\ Confirming = 1 /\ Confirming' = 0
    BY <1>1, BoundsAssumption DEF SafeInv, TypeOK, Confirming
  <1> HIDE DEF u
  <1>7. Sum(Extra) + Cardinality(u) <= interrupts' + Confirming'
    BY <1>1, <1>5, <1>6
  <1> QED BY <1>3, <1>5, <1>7 DEF OneInv, u, Sum, Units

LEMMA NextOne == SafeInv /\ SafeInv' /\ OneInv /\ [Next]_vars => OneInv'
  <1> SUFFICES ASSUME SafeInv, SafeInv', OneInv, [Next]_vars PROVE OneInv'
    OBVIOUS
  <1>0. loop \in Loop /\ loop' \in Loop /\ interrupts \in Nat /\ draft \in [Drafts -> DraftStatus]
    BY BoundsAssumption DEF SafeInv, TypeOK
  \* A step at another place, that leaves the drafts to others.
  <1>1. ASSUME UNCHANGED <<draftOf, interrupts>>,
               \A d \in Drafts : draft[d] = "confirmed" => draft'[d] = "confirmed",
               loop.pc \notin {"fill", "confirm"} \/ loop'.pc \in {"fill", "confirm"}
        PROVE  OneInv'
    <2>1. interrupts + Confirming <= interrupts' + Confirming'
      BY <1>0, <1>1 DEF Confirming
    <2> QED BY <1>1, <2>1, OneKeeps
  <1>2. CASE Command
    <2>1. UNCHANGED <<draftOf, interrupts>> /\ loop.pc = "idle"
      BY <1>2 DEF Command, DraftBet, ConfirmDraft, CancelDraft, ClosePosition, Settle, rows, At
    <2>2. \A d \in Drafts : draft[d] = "confirmed" => draft'[d] = "confirmed"
      BY <1>0, <1>2 DEF Command, DraftBet, ConfirmDraft, CancelDraft, ClosePosition, Settle, rows
    <2> QED BY <1>1, <2>1, <2>2
  <1>3. CASE TakeStake \/ RecordSettlement \/ ListPositions \/ Pay \/ UpdatePosition \/ FillEnd
    <2>1. /\ UNCHANGED <<draft, draftOf, interrupts>>
          /\ loop.pc \notin {"fill", "confirm"}
      BY <1>3 DEF TakeStake, RecordSettlement, ListPositions, Pay, UpdatePosition, FillEnd, rows, At
    <2> QED BY <1>1, <2>1
  <1>4. CASE FillOpening
    <2>1. loop'.pc = "confirm" /\ UNCHANGED <<draft, draftOf, interrupts>>
      BY <1>0, <1>4 DEF FillOpening, rows, Loop
    <2> QED BY <1>1, <2>1
  <1>5. CASE Interrupt
    <2>1. UNCHANGED <<draft, draftOf>> /\ interrupts' = interrupts + 1
      BY <1>5 DEF Interrupt, rows
    <2>2. interrupts + Confirming <= interrupts' + Confirming'
      BY <1>0, <2>1 DEF Confirming
    <2> QED BY <2>1, <2>2, OneKeeps
  <1>6. CASE \E v \in Views : ListView(v) \/ MarkPosition(v)
    <2>1. UNCHANGED <<draft, draftOf, interrupts, loop>>
      BY <1>6 DEF ListView, MarkPosition, rows
    <2> QED BY <1>1, <2>1
  <1>7. CASE UNCHANGED vars
    <2>1. UNCHANGED <<draft, draftOf, interrupts, loop>>
      BY <1>7 DEF vars, rows
    <2> QED BY <1>1, <2>1
  <1> QED BY <1>2, <1>3, <1>4, <1>5, <1>6, <1>7, OpenOne, MarkOne DEF Next, Step

(* However often a draft is confirmed, cancelled, expired and cut short in *)
(* between: each position beyond its first has a confirmation behind it    *)
(* that was cut short after it opened one.                                 *)
THEOREM OpeningsAccounted == Spec => []OnePositionPerDraft
  <1> DEFINE Inv == SafeInv /\ OneInv
  <1>1. Init => Inv
    BY InitSafe, InitOne
  <1>2. Inv /\ [Next]_vars => Inv'
    BY NextSafe, NextOne
  <1>3. Inv => OnePositionPerDraft
    <2> SUFFICES ASSUME SafeInv, OneInv PROVE OnePositionPerDraft
      OBVIOUS
    <2>1. /\ Sum(Extra) \in Nat /\ Cardinality(Unmarked) \in Nat
          /\ Sum(Extra) + Cardinality(Unmarked) <= interrupts + Confirming
          /\ Confirming \in 0 .. 1 /\ interrupts \in Nat
      BY FS_CardinalityType, BoundsAssumption DEF OneInv, Sum, SafeInv, TypeOK, Confirming
    \* The one that is about to be confirmed has a position of its own.
    <2>2. Confirming = 1 => Cardinality(Unmarked) >= 1
      <3> SUFFICES ASSUME Confirming = 1 PROVE Cardinality(Unmarked) >= 1
        OBVIOUS
      <3>1. /\ loop.draft \in Drafts /\ loop.pos \in PositionsOf(loop.draft)
            /\ draft[loop.draft] = "new"
        BY DEF Confirming, SafeInv, LoopInv, Betting, PositionsOf
      <3>2. loop.draft \in Unmarked
        BY <3>1 DEF Unmarked
      <3> QED BY <2>1, <3>2, FS_EmptySet DEF OneInv
    <2>3. Sum(Extra) <= interrupts
      BY <2>1, <2>2
    <2> QED BY <2>3 DEF OnePositionPerDraft, Extra
  <1> QED BY <1>1, <1>2, <1>3, PTL DEF Spec

-----------------------------------------------------------------------------
(* The account and the fills.                                              *)

(* A stake is taken before its position is opened, and a position is paid  *)
(* before it ends.                                                         *)
FirstInv ==
  /\ MoneyMovesFirst
  /\ loop.pc = "open" => Cardinality(PositionsOf(loop.draft)) < staked[loop.draft]
  /\ loop.pc = "update" => paid[loop.pos] >= 1

LEMMA InitFirst == Init => FirstInv
  <1> SUFFICES ASSUME Init PROVE FirstInv
    OBVIOUS
  <1>1. \A d \in Drafts : PositionsOf(d) = {}
    BY DraftsAssumption DEF Init, PositionsOf
  <1>2. \A d \in Drafts : Cardinality(PositionsOf(d)) = 0 /\ staked[d] = 0
    BY <1>1, FS_EmptySet DEF Init
  <1> QED BY <1>2, IdleTyped DEF FirstInv, MoneyMovesFirst, Init

Ended == {p \in Positions : position[p] \in {"closed", "settled"}}

(* A step that opens nothing, and takes no money back.                     *)
LEMMA FirstKeeps ==
  ASSUME SafeInv, SafeInv', FirstInv, UNCHANGED draftOf,
         \A d \in Drafts : staked'[d] >= staked[d],
         \A p \in Positions : paid'[p] >= paid[p],
         \A p \in Ended' : p \in Ended \/ paid'[p] >= 1
  PROVE  MoneyMovesFirst'
  <1>1. \A d \in Drafts : PositionsOf(d)' = PositionsOf(d)
    BY DEF PositionsOf
  <1>2. \A d \in Drafts : Cardinality(PositionsOf(d)) \in Nat
    BY PositionsCounted
  <1>3. \A d \in Drafts : staked[d] \in Nat /\ staked'[d] \in Nat
    BY DEF SafeInv, TypeOK
  <1>4. \A p \in Positions : paid[p] \in Nat /\ paid'[p] \in Nat
    BY DEF SafeInv, TypeOK
  <1>5. ASSUME NEW d \in Drafts PROVE Cardinality(PositionsOf(d)') <= staked'[d]
    <2>1. Cardinality(PositionsOf(d)) <= staked[d]
      BY DEF FirstInv, MoneyMovesFirst
    <2> QED BY <1>1, <1>2, <1>3, <2>1
  <1>6. ASSUME NEW p \in Positions, position'[p] \in {"closed", "settled"} PROVE paid'[p] >= 1
    <2>1. p \in Ended => paid[p] >= 1
      BY DEF FirstInv, MoneyMovesFirst, Ended
    <2>2. p \in Ended'
      BY <1>6 DEF Ended
    <2> QED BY <1>4, <2>1, <2>2
  <1> QED BY <1>5, <1>6 DEF MoneyMovesFirst

LEMMA NextFirst == SafeInv /\ SafeInv' /\ FirstInv /\ [Next]_vars => FirstInv'
  <1> SUFFICES ASSUME SafeInv, SafeInv', FirstInv, [Next]_vars PROVE FirstInv'
    OBVIOUS
  <1>0. /\ loop \in Loop /\ loop' \in Loop /\ TypeOK /\ TypeOK'
        /\ \A d \in Drafts : staked[d] \in Nat
        /\ \A p \in Positions : paid[p] \in Nat
    BY DEF SafeInv, TypeOK
  <1>1. ASSUME UNCHANGED <<draftOf, position, staked, paid>>, loop'.pc \notin {"open", "update"} PROVE FirstInv'
    <2>1. MoneyMovesFirst'
      BY <1>0, <1>1, FirstKeeps DEF Ended
    <2> QED BY <1>1, <2>1 DEF FirstInv
  <1>2. CASE Command
    <2>1. UNCHANGED <<draftOf, position, staked, paid>> /\ loop'.pc \notin {"open", "update"}
      BY <1>2 DEF Command, DraftBet, ConfirmDraft, CancelDraft, ClosePosition, Settle, rows, money, At,
                  Idle
    <2> QED BY <1>1, <2>1
  <1>3. CASE FillOpening \/ MarkConfirmed \/ Interrupt
    <2>1. UNCHANGED <<draftOf, position, staked, paid>>
      BY <1>3 DEF FillOpening, MarkConfirmed, Interrupt, rows, money
    <2>2. loop'.pc \notin {"open", "update"}
      BY <1>0, <1>3, IdleTyped DEF FillOpening, MarkConfirmed, Interrupt, Loop
    <2> QED BY <1>1, <2>1, <2>2
  <1>4. CASE RecordSettlement
    <2>1. UNCHANGED <<draftOf, position, staked, paid>>
      BY <1>4 DEF RecordSettlement, money
    <2>2. loop'.pc \notin {"open", "update"}
      BY <1>0, <1>4 DEF RecordSettlement, Loop
    <2> QED BY <1>1, <2>1, <2>2
  <1>5. CASE ListPositions \/ FillEnd
    <2>1. UNCHANGED <<draftOf, position, staked, paid>>
      BY <1>5 DEF ListPositions, FillEnd, rows, money
    <2>2. \A todo \in SUBSET Positions : loop' \in Onward(todo) => loop'.pc \notin {"open", "update"}
      BY <1>0, OnwardGoes
    <2>3. loop.todo \in SUBSET Positions /\ Idle.pc \notin {"open", "update"}
      BY <1>0, IdleTyped DEF Loop
    <2>4. loop'.pc \notin {"open", "update"}
      BY <1>5, <2>2, <2>3 DEF ListPositions, FillEnd, Open
    <2> QED BY <1>1, <2>1, <2>4
  <1>6. CASE TakeStake
    <2>1. /\ UNCHANGED <<draftOf, position, paid>> /\ staked' = [staked EXCEPT ![loop.draft] = @ + 1]
          /\ loop'.pc = "open" /\ loop'.draft = loop.draft /\ loop.pc = "take"
      BY <1>0, <1>6 DEF TakeStake, rows, Loop, At
    <2>2. loop.draft \in Drafts
      BY <2>1 DEF SafeInv, LoopInv, Betting
    <2>3. \A d \in Drafts : staked'[d] = IF d = loop.draft THEN staked[d] + 1 ELSE staked[d]
      BY <1>0, <2>1 DEF TypeOK
    <2>4. \A d \in Drafts : staked'[d] >= staked[d]
      BY <1>0, <2>3
    <2>5. \A p \in Positions : paid'[p] >= paid[p]
      BY <1>0, <2>1
    <2>6. MoneyMovesFirst'
      BY <2>1, <2>4, <2>5, FirstKeeps DEF Ended
    <2> DEFINE e == loop.draft
    <2>7. PositionsOf(e)' = PositionsOf(e) /\ e' = e
      BY <2>1 DEF PositionsOf
    <2>8. Cardinality(PositionsOf(e)) <= staked[e] /\ Cardinality(PositionsOf(e)) \in Nat
      BY <2>2, PositionsCounted DEF FirstInv, MoneyMovesFirst
    <2> HIDE DEF e
    <2>9. Cardinality(PositionsOf(e)) < staked'[e]
      BY <1>0, <2>2, <2>3, <2>8 DEF e
    <2>10. Cardinality(PositionsOf(e)') < staked'[e']
      BY <2>7, <2>9
    <2> QED BY <2>1, <2>6, <2>10 DEF FirstInv, e
  <1>7. CASE OpenPosition
    <2>1. PICK e \in Drafts, p \in Positions :
           /\ p \notin PositionsOf(e) /\ e = loop.draft
           /\ loop.pc = "open" /\ draft[e] = "new"
           /\ \A d \in Drafts : PositionsOf(d)' = IF d = e THEN PositionsOf(e) \cup {p}
                                               ELSE PositionsOf(d)
           /\ loop'.pc = "fill" /\ UNCHANGED <<draft, interrupts>>
      BY <1>7, OpensOne
    <2>2. UNCHANGED <<staked, paid>>
      BY <1>7 DEF OpenPosition, money
    <2>3. ASSUME NEW d \in Drafts PROVE Cardinality(PositionsOf(d)') <= staked[d]
      <3>1. CASE d = e
        <4>1. Cardinality(PositionsOf(d)') = Cardinality(PositionsOf(d)) + 1
          BY <2>1, <3>1, PositionsCounted, FS_AddElement
        <4>2. Cardinality(PositionsOf(d)) < staked[d] /\ Cardinality(PositionsOf(d)) \in Nat
          BY <2>1, <3>1, PositionsCounted DEF FirstInv
        <4> QED BY <1>0, <4>1, <4>2
      <3>2. CASE d # e
        BY <2>1, <3>2 DEF FirstInv, MoneyMovesFirst
      <3> QED BY <3>1, <3>2
    <2>4. ASSUME NEW q \in Positions, position'[q] \in {"closed", "settled"} PROVE paid[q] >= 1
      <3>1. position[q] \in {"closed", "settled"}
        BY <1>0, <1>7, <2>4 DEF OpenPosition, TypeOK
      <3> QED BY <3>1 DEF FirstInv, MoneyMovesFirst
    <2> QED BY <2>1, <2>2, <2>3, <2>4 DEF FirstInv, MoneyMovesFirst
  <1>8. CASE Pay
    <2>1. PICK won \in Proceeds : loop' = [loop EXCEPT !.pc = "update", !.won = won]
      BY <1>8 DEF Pay
    <2>2. loop'.pc = "update" /\ loop'.pos = loop.pos /\ loop.pc = "pay"
      BY <1>0, <1>8, <2>1 DEF Pay, Loop, At
    <2>3. UNCHANGED <<draftOf, position, staked>> /\ paid' = [paid EXCEPT ![loop.pos] = @ + 1]
      BY <1>8 DEF Pay, rows
    <2>4. loop.pos \in Positions
      BY <2>2 DEF SafeInv, LoopInv, Paying
    <2>5. \A q \in Positions : paid'[q] = IF q = loop.pos THEN paid[q] + 1 ELSE paid[q]
      BY <1>0, <2>3 DEF TypeOK
    <2>6. \A q \in Positions : paid'[q] >= paid[q]
      BY <1>0, <2>5
    <2>7. MoneyMovesFirst'
      BY <1>0, <2>3, <2>6, FirstKeeps DEF Ended
    <2>8. paid'[loop.pos] >= 1
      BY <1>0, <2>4, <2>5
    <2> QED BY <2>2, <2>7, <2>8 DEF FirstInv
  <1>9. CASE UpdatePosition
    <2>1. /\ loop'.pc = "record" /\ loop.pc = "update" /\ UNCHANGED <<draftOf, staked, paid>>
      BY <1>0, <1>9 DEF UpdatePosition, Loop, At, money
    <2>2. \A q \in Positions : q = loop.pos \/ position'[q] = position[q]
      BY <1>0, <1>9 DEF UpdatePosition, TypeOK
    <2>3. \A q \in Ended' : q \in Ended \/ paid'[q] >= 1
      BY <2>1, <2>2 DEF Ended, FirstInv
    <2>4. MoneyMovesFirst'
      BY <1>0, <2>1, <2>3, FirstKeeps
    <2> QED BY <2>1, <2>4 DEF FirstInv
  <1>10. CASE \E v \in Views : ListView(v) \/ MarkPosition(v)
    <2>1. UNCHANGED <<draftOf, staked, paid, loop>>
      BY <1>10 DEF ListView, MarkPosition, rows, money
    <2>2. Ended' \subseteq Ended
      BY <1>0, <1>10 DEF ListView, MarkPosition, rows, Ended, TypeOK
    <2>3. MoneyMovesFirst'
      BY <1>0, <2>1, <2>2, FirstKeeps
    <2>4. PositionsOf(loop.draft)' = PositionsOf(loop.draft)
      BY <2>1 DEF PositionsOf
    <2> QED BY <2>1, <2>3, <2>4 DEF FirstInv
  <1>11. CASE UNCHANGED vars
    BY <1>11 DEF vars, rows, money, FirstInv, MoneyMovesFirst, PositionsOf
  <1> QED BY <1>2, <1>3, <1>4, <1>5, <1>6, <1>7, <1>8, <1>9, <1>10, <1>11 DEF Next, Step

(* Every movement of the account has its fill, but for the command that    *)
(* owes it and those that were cut short while they did.                   *)
Moves == Sum(staked) + Sum(paid)
Recorded == Cardinality(opened) + Sum(ended)
Owed == IF loop.pc \in {"open", "fill", "update", "record"} THEN 1 ELSE 0

Countable ==
  /\ IsFiniteSet(Units(staked)) /\ IsFiniteSet(Units(paid)) /\ IsFiniteSet(Units(ended))
  /\ IsFiniteSet(opened)
FollowInv ==
  /\ Countable
  /\ Recorded + Owed <= Moves /\ Moves <= Recorded + interrupts + Owed

LEMMA InitFollow == Init => FollowInv
  <1> SUFFICES ASSUME Init PROVE FollowInv
    OBVIOUS
  <1>1. /\ staked \in [Drafts -> Nat] /\ paid \in [Positions -> Nat] /\ ended \in [Positions -> Nat]
        /\ \A d \in Drafts : staked[d] = 0
        /\ \A p \in Positions : paid[p] = 0 /\ ended[p] = 0
    BY DEF Init
  <1>2. /\ IsFiniteSet(Units(staked)) /\ Sum(staked) = 0
        /\ IsFiniteSet(Units(paid)) /\ Sum(paid) = 0
        /\ IsFiniteSet(Units(ended)) /\ Sum(ended) = 0
    BY <1>1, SumNothing
  <1>3. IsFiniteSet(opened) /\ Cardinality(opened) = 0
    BY FS_EmptySet DEF Init
  <1>4. interrupts = 0 /\ Owed = 0
    BY IdleTyped DEF Init, Owed
  <1> QED BY <1>2, <1>3, <1>4 DEF FollowInv, Countable, Moves, Recorded

LEMMA Naturals ==
  TypeOK /\ Countable => /\ Sum(staked) \in Nat /\ Sum(paid) \in Nat /\ Sum(ended) \in Nat
                         /\ Cardinality(opened) \in Nat
                         /\ Owed \in 0 .. 1 /\ interrupts \in Nat
  BY FS_CardinalityType, BoundsAssumption DEF Countable, Sum, Owed, TypeOK

LEMMA FollowKeeps ==
  ASSUME TypeOK, TypeOK', FollowInv, UNCHANGED <<staked, paid, opened, ended>>,
         \/ interrupts' = interrupts /\ Owed' = Owed
         \/ interrupts' = interrupts + 1 /\ Owed' = 0
  PROVE  FollowInv'
  <1>1. Sum(staked)' = Sum(staked) /\ Sum(paid)' = Sum(paid) /\ Sum(ended)' = Sum(ended) /\ Countable'
    BY DEF FollowInv, Countable
  <1>2. Moves' = Moves /\ Recorded' = Recorded
    BY <1>1 DEF Moves, Recorded
  <1>3. Moves \in Nat /\ Recorded \in Nat /\ Owed \in 0 .. 1 /\ interrupts \in Nat
    BY Naturals DEF FollowInv, Moves, Recorded
  <1> HIDE DEF Moves, Recorded, Owed
  <1>4. CASE interrupts' = interrupts /\ Owed' = Owed
    BY <1>1, <1>2, <1>4 DEF FollowInv
  <1>5. CASE interrupts' = interrupts + 1 /\ Owed' = 0
    BY <1>1, <1>2, <1>3, <1>5 DEF FollowInv
  <1> QED BY <1>4, <1>5

LEMMA NextFollow == SafeInv /\ SafeInv' /\ FollowInv /\ [Next]_vars => FollowInv'
  <1> SUFFICES ASSUME SafeInv, SafeInv', FollowInv, [Next]_vars PROVE FollowInv'
    OBVIOUS
  <1>0. loop \in Loop /\ loop' \in Loop /\ TypeOK /\ TypeOK' /\ Countable
    BY DEF SafeInv, TypeOK, FollowInv
  <1>1. /\ Sum(staked) \in Nat /\ Sum(paid) \in Nat /\ Sum(ended) \in Nat
        /\ Cardinality(opened) \in Nat /\ Owed \in 0 .. 1 /\ interrupts \in Nat
    BY <1>0, Naturals
  <1>2. ASSUME UNCHANGED <<staked, paid, opened, ended, interrupts>>, Owed' = Owed PROVE FollowInv'
    BY <1>0, <1>2, FollowKeeps
  <1>3. CASE Command
    <2>1. UNCHANGED <<staked, paid, opened, ended, interrupts>> /\ loop.pc = "idle"
          /\ loop'.pc \in {"idle", "take", "pay", "settle"}
      BY <1>3 DEF Command, DraftBet, ConfirmDraft, CancelDraft, ClosePosition, Settle, money, fills, At,
                  Idle
    <2> QED BY <1>2, <2>1 DEF Owed
  <1>4. CASE TakeStake
    <2>1. /\ UNCHANGED <<paid, opened, ended, interrupts>>
          /\ staked' = [staked EXCEPT ![loop.draft] = @ + 1]
          /\ Owed' = 1 /\ Owed = 0 /\ loop.draft \in Drafts
      BY <1>0, <1>4 DEF TakeStake, fills, Loop, At, Owed, SafeInv, LoopInv, Betting
    <2>2. IsFiniteSet(Units(staked)') /\ Sum(staked)' = Sum(staked) + 1
      BY <1>0, <2>1, SumGrows DEF TypeOK, Countable
    <2>3. Sum(paid)' = Sum(paid) /\ Sum(ended)' = Sum(ended) /\ Countable'
      BY <1>0, <2>1, <2>2 DEF Countable
    <2> QED BY <1>1, <2>1, <2>2, <2>3 DEF FollowInv, Moves, Recorded
  <1>5. CASE OpenPosition \/ UpdatePosition
    <2>1. /\ UNCHANGED <<staked, paid, opened, ended, interrupts>>
          /\ loop.pc \in {"open", "update"} /\ loop'.pc \in {"fill", "record"}
      BY <1>0, <1>5 DEF OpenPosition, UpdatePosition, money, fills, Loop, At
    <2> QED BY <1>2, <2>1 DEF Owed
  <1>6. CASE FillOpening
    <2>1. /\ UNCHANGED <<staked, paid, ended, interrupts>> /\ opened' = opened \cup {loop.pos}
          /\ Owed' = 0 /\ Owed = 1 /\ loop.pos \notin opened
      BY <1>0, <1>6 DEF FillOpening, money, Loop, At, Owed, SafeInv, RowInv
    <2>2. IsFiniteSet(opened') /\ Cardinality(opened') = Cardinality(opened) + 1
      BY <1>0, <2>1, FS_AddElement DEF Countable
    <2>3. /\ Sum(staked)' = Sum(staked) /\ Sum(paid)' = Sum(paid) /\ Sum(ended)' = Sum(ended)
          /\ Countable'
      BY <1>0, <2>1, <2>2 DEF Countable
    <2> QED BY <1>1, <2>1, <2>2, <2>3 DEF FollowInv, Moves, Recorded
  <1>7. CASE MarkConfirmed \/ RecordSettlement
    <2>1. UNCHANGED <<staked, paid, opened, ended, interrupts>> /\ loop.pc \in {"confirm", "settle"}
      BY <1>7 DEF MarkConfirmed, RecordSettlement, money, fills, At
    <2>2. MarkConfirmed => loop'.pc = "idle"
      BY IdleTyped DEF MarkConfirmed
    <2>3. RecordSettlement => loop'.pc = "list"
      BY <1>0 DEF RecordSettlement, Loop
    <2> QED BY <1>2, <1>7, <2>1, <2>2, <2>3 DEF Owed
  <1>8. \A todo \in SUBSET Positions : loop' \in Onward(todo) => loop'.pc \in {"idle", "settle", "pay"}
    BY <1>0, OnwardGoes
  <1>9. CASE ListPositions
    <2>1. UNCHANGED <<staked, paid, opened, ended, interrupts>> /\ loop.pc = "list"
      BY <1>9 DEF ListPositions, money, fills, At
    <2>2. loop'.pc \in {"idle", "settle", "pay"}
      BY <1>8, <1>9 DEF ListPositions, Open
    <2> QED BY <1>2, <2>1, <2>2 DEF Owed
  <1>10. CASE Pay
    <2>1. PICK won \in Proceeds : loop' = [loop EXCEPT !.pc = "update", !.won = won]
      BY <1>10 DEF Pay
    <2>2. /\ UNCHANGED <<staked, opened, ended, interrupts>> /\ paid' = [paid EXCEPT ![loop.pos] = @ + 1]
          /\ loop.pc = "pay"
      BY <1>10 DEF Pay, fills, At
    <2>3. Owed' = 1 /\ Owed = 0 /\ loop.pos \in Positions
      BY <1>0, <2>1, <2>2 DEF Loop, Owed, SafeInv, LoopInv, Paying
    <2>4. IsFiniteSet(Units(paid)') /\ Sum(paid)' = Sum(paid) + 1
      BY <1>0, <2>2, <2>3, SumGrows DEF TypeOK, Countable
    <2>5. Sum(staked)' = Sum(staked) /\ Sum(ended)' = Sum(ended) /\ Countable'
      BY <1>0, <2>2, <2>4 DEF Countable
    <2> QED BY <1>1, <2>2, <2>3, <2>4, <2>5 DEF FollowInv, Moves, Recorded
  <1>11. CASE FillEnd
    <2>1. /\ UNCHANGED <<staked, paid, opened, interrupts>> /\ ended' = [ended EXCEPT ![loop.pos] = @ + 1]
          /\ loop.pc = "record" /\ loop.pos \in Positions
      BY <1>11 DEF FillEnd, money, At, SafeInv, LoopInv
    <2>2. loop.todo \in SUBSET Positions
      BY <1>0 DEF Loop
    <2>3. Owed' = 0 /\ Owed = 1
      BY <1>8, <1>11, <2>1, <2>2, IdleTyped DEF FillEnd, Owed
    <2>4. IsFiniteSet(Units(ended)') /\ Sum(ended)' = Sum(ended) + 1
      BY <1>0, <2>1, SumGrows DEF TypeOK, Countable
    <2>5. Sum(staked)' = Sum(staked) /\ Sum(paid)' = Sum(paid) /\ Countable'
      BY <1>0, <2>1, <2>4 DEF Countable
    <2> QED BY <1>1, <2>1, <2>3, <2>4, <2>5 DEF FollowInv, Moves, Recorded
  <1>12. CASE Interrupt
    <2>1. UNCHANGED <<staked, paid, opened, ended>> /\ interrupts' = interrupts + 1 /\ Owed' = 0
      BY <1>12, IdleTyped DEF Interrupt, money, fills, Owed
    <2> QED BY <1>0, <2>1, FollowKeeps
  <1>13. CASE (\E v \in Views : ListView(v) \/ MarkPosition(v)) \/ UNCHANGED vars
    <2>1. UNCHANGED <<staked, paid, opened, ended, interrupts, loop>>
      BY <1>13 DEF ListView, MarkPosition, money, fills, vars
    <2> QED BY <1>2, <2>1 DEF Owed
  <1> QED BY <1>3, <1>4, <1>5, <1>6, <1>7, <1>9, <1>10, <1>11, <1>12, <1>13 DEF Next, Step

(* As long as nothing was cut short: the cash is what the fills add up to  *)
(* and what the command has moved without its fill.                        *)
Unbooked ==
  IF loop.pc \in {"open", "fill"} THEN -1
  ELSE IF loop.pc \in {"update", "record"} THEN loop.won ELSE 0
CashInv == interrupts = 0 => cash = InitialCash + ledger + Unbooked

LEMMA NextCash == SafeInv /\ SafeInv' /\ CashInv /\ [Next]_vars => CashInv'
  <1> SUFFICES ASSUME SafeInv, SafeInv', CashInv, [Next]_vars PROVE CashInv'
    OBVIOUS
  <1>0. /\ loop \in Loop /\ loop' \in Loop /\ cash \in Int /\ ledger \in Int /\ loop.won \in Nat
        /\ InitialCash \in Nat /\ interrupts \in Nat
    BY BoundsAssumption, CashAssumption DEF SafeInv, TypeOK, Loop, Proceeds
  <1>1. ASSUME UNCHANGED <<cash, ledger, interrupts>>, Unbooked' = Unbooked PROVE CashInv'
    BY <1>1 DEF CashInv
  <1>2. CASE Command
    <2>1. UNCHANGED <<cash, ledger, interrupts>> /\ loop.pc = "idle"
          /\ loop'.pc \in {"idle", "take", "pay", "settle"}
      BY <1>2 DEF Command, DraftBet, ConfirmDraft, CancelDraft, ClosePosition, Settle, money, fills, At,
                  Idle
    <2> QED BY <1>1, <2>1 DEF Unbooked
  <1>3. CASE TakeStake
    <2>1. cash' = cash - 1 /\ UNCHANGED <<ledger, interrupts>>
      BY <1>3 DEF TakeStake, fills
    <2>2. Unbooked' = -1 /\ Unbooked = 0
      BY <1>0, <1>3 DEF TakeStake, At, Loop, Unbooked
    <2> QED BY <1>0, <2>1, <2>2 DEF CashInv
  <1>4. CASE OpenPosition
    <2>1. UNCHANGED <<cash, ledger, interrupts>> /\ Unbooked' = -1 /\ Unbooked = -1
      BY <1>0, <1>4 DEF OpenPosition, money, fills, At, Loop, Unbooked
    <2> QED BY <1>1, <2>1
  <1>5. CASE FillOpening
    <2>1. ledger' = ledger - 1 /\ UNCHANGED <<cash, interrupts>>
      BY <1>5 DEF FillOpening, money
    <2>2. Unbooked' = 0 /\ Unbooked = -1
      BY <1>0, <1>5 DEF FillOpening, At, Loop, Unbooked
    <2> QED BY <1>0, <2>1, <2>2 DEF CashInv
  <1>6. CASE MarkConfirmed \/ RecordSettlement
    <2>1. UNCHANGED <<cash, ledger, interrupts>> /\ loop.pc \in {"confirm", "settle"}
      BY <1>6 DEF MarkConfirmed, RecordSettlement, money, fills, At
    <2>2. MarkConfirmed => loop'.pc = "idle"
      BY IdleTyped DEF MarkConfirmed
    <2>3. RecordSettlement => loop'.pc = "list"
      BY <1>0 DEF RecordSettlement, Loop
    <2> QED BY <1>1, <1>6, <2>1, <2>2, <2>3 DEF Unbooked
  <1>7. \A todo \in SUBSET Positions : loop' \in Onward(todo) => loop'.pc \in {"idle", "settle", "pay"}
    BY <1>0, OnwardGoes DEF SafeInv, TypeOK
  <1>8. CASE ListPositions
    <2>1. UNCHANGED <<cash, ledger, interrupts>> /\ loop.pc = "list"
      BY <1>8 DEF ListPositions, money, fills, At
    <2>2. loop'.pc \in {"idle", "settle", "pay"}
      BY <1>7, <1>8 DEF ListPositions, Open
    <2> QED BY <1>1, <2>1, <2>2 DEF Unbooked
  <1>9. CASE Pay
    <2>1. PICK won \in Proceeds :
            /\ cash' = cash + won /\ loop' = [loop EXCEPT !.pc = "update", !.won = won]
            /\ loop.pc = "pay" /\ UNCHANGED <<ledger, interrupts>>
      BY <1>9 DEF Pay, fills, At
    <2>2. Unbooked' = won /\ Unbooked = 0 /\ won \in Nat
      BY <1>0, <2>1 DEF Loop, Unbooked, Proceeds
    <2> QED BY <1>0, <2>1, <2>2 DEF CashInv
  <1>10. CASE UpdatePosition
    <2>1. UNCHANGED <<cash, ledger, interrupts>> /\ Unbooked' = loop.won /\ Unbooked = loop.won
      BY <1>0, <1>10 DEF UpdatePosition, money, fills, At, Loop, Unbooked
    <2> QED BY <1>1, <2>1
  <1>11. CASE FillEnd
    <2>1. ledger' = ledger + loop.won /\ UNCHANGED <<cash, interrupts>> /\ loop.pc = "record"
      BY <1>11 DEF FillEnd, money, At
    <2>2. loop.todo \in SUBSET Positions
      BY <1>0 DEF Loop
    <2>3. Unbooked' = 0 /\ Unbooked = loop.won
      BY <1>7, <1>11, <2>1, <2>2, IdleTyped DEF FillEnd, Unbooked
    <2> QED BY <1>0, <2>1, <2>3 DEF CashInv
  <1>12. CASE Interrupt
    <2>1. interrupts' # 0
      BY <1>0, <1>12 DEF Interrupt
    <2> QED BY <2>1 DEF CashInv
  <1>13. CASE (\E v \in Views : ListView(v) \/ MarkPosition(v)) \/ UNCHANGED vars
    <2>1. UNCHANGED <<cash, ledger, interrupts, loop>>
      BY <1>13 DEF ListView, MarkPosition, money, fills, vars
    <2> QED BY <1>1, <2>1 DEF Unbooked
  <1> QED BY <1>2, <1>3, <1>4, <1>5, <1>6, <1>8, <1>9, <1>10, <1>11, <1>12, <1>13 DEF Next, Step

(* In every execution: no position without its stake and none ended before *)
(* it was paid; every movement of the account has its fill, but one for    *)
(* each command that was cut short and the one at work; and until one was, *)
(* the cash of an idle loop is what the fills add up to.                   *)
THEOREM MoneyIsRecorded == Spec => []MoneyRecorded
  <1> DEFINE Inv == SafeInv /\ FirstInv /\ FollowInv /\ CashInv
  <1>1. Init => Inv
    <2>1. Init => CashInv
      BY IdleTyped, CashAssumption DEF Init, CashInv, Unbooked
    <2> QED BY <2>1, InitSafe, InitFirst, InitFollow
  <1>2. Inv /\ [Next]_vars => Inv'
    BY NextSafe, NextFirst, NextFollow, NextCash
  <1>3. Inv => MoneyRecorded
    <2> SUFFICES ASSUME SafeInv, FirstInv, FollowInv, CashInv PROVE MoneyRecorded
      OBVIOUS
    <2>1. MoneyMovesFirst
      BY DEF FirstInv
    <2>2. FillsFollow
      <3>1. /\ Moves \in Nat /\ Recorded \in Nat /\ Owed \in 0 .. 1 /\ interrupts \in Nat
            /\ loop.pc = "idle" => Owed = 0
        BY Naturals DEF FollowInv, Moves, Recorded, SafeInv, Owed
      <3>2. Recorded + Owed <= Moves /\ Moves <= Recorded + interrupts + Owed
        BY DEF FollowInv
      <3> HIDE DEF Moves, Recorded, Owed
      <3>3. Recorded <= Moves /\ Moves - Recorded <= interrupts + (IF loop.pc = "idle" THEN 0 ELSE 1)
        BY <3>1, <3>2
      <3> QED BY <3>3 DEF FillsFollow, Moves, Recorded, At
    <2>3. loop.pc = "idle" /\ interrupts = 0 => cash = InitialCash + ledger
      <3>1. InitialCash \in Nat /\ ledger \in Int
        BY CashAssumption DEF SafeInv, TypeOK
      <3> QED BY <3>1 DEF CashInv, Unbooked
    <2> QED BY <2>1, <2>2, <2>3 DEF MoneyRecorded, At
  <1> QED BY <1>1, <1>2, <1>3, PTL DEF Spec
=============================================================================
