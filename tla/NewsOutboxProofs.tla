-------------------------- MODULE NewsOutboxProofs --------------------------
(***************************************************************************)
(* Proofs about NewsOutbox, for any number of publishers, any feed and any *)
(* number of restarts, slow batches and failed calls: the types, that a    *)
(* lease keeps a row in the hands of one publisher, that the row of a      *)
(* posted story stays posted, what a second message costs, and that the    *)
(* offset passes no revision for nothing.                                  *)
(***************************************************************************)
EXTENDS NewsOutbox, FiniteSetTheorems, TLAPS

PumpState == [pc : {"idle", "ask", "get", "commit", "advance"},
              revision : 0 .. Last, skip : BOOLEAN, seen : Status]
LoopState == [pc : {"idle", "send", "posted", "refused"},
              rows : SUBSET Revisions, current : 0 .. Last]

-----------------------------------------------------------------------------
(* One publisher moves; the others stand where they stood.                 *)

LEMMA PumpFrame ==
  ASSUME TypeOK, NEW p \in Publishers, NEW x \in PumpState,
         x.pc # "idle" => x.revision # 0, PumpGoes(p, x)
  PROVE  /\ pump' \in [Publishers -> PumpState]
         /\ \A q \in Publishers : pump'[q] = IF q = p THEN x ELSE pump[q]
         /\ \A q \in Publishers : pump'[q].pc # "idle" => pump'[q].revision # 0
  BY DEF TypeOK, PumpGoes, PumpState

LEMMA LoopFrame ==
  ASSUME TypeOK, NEW p \in Publishers, NEW x \in LoopState, LoopGoes(p, x)
  PROVE  /\ loop' \in [Publishers -> LoopState]
         /\ \A q \in Publishers : loop'[q] = IF q = p THEN x ELSE loop[q]
  BY DEF TypeOK, LoopGoes, LoopState

LEMMA PumpTyped ==
  ASSUME TypeOK, NEW p \in Publishers
  PROVE  pump[p] \in PumpState
  BY DEF TypeOK, PumpState

LEMMA LoopTyped ==
  ASSUME TypeOK, NEW p \in Publishers
  PROVE  loop[p] \in LoopState
  BY DEF TypeOK, LoopState

LEMMA IdleTyped ==
  IdlePump \in PumpState /\ IdleLoop \in LoopState
  BY FeedAssumption DEF IdlePump, IdleLoop, PumpState, LoopState, Status

LEMMA RowsTyped ==
  ASSUME NEW rows \in SUBSET Revisions
  PROVE  /\ WithRows(rows) \in LoopState
         /\ WithRows(rows).rows = rows
         /\ WithRows(rows).pc \in {"idle", "send"}
  BY FeedAssumption DEF WithRows, IdleLoop, LoopState

(* The move of each step of the pump.                                      *)
LEMMA PumpMoves ==
  ASSUME TypeOK, NEW p \in Publishers,
         PumpStep(p) \/ ScheduleFails(p) \/ AdvanceRaises(p)
  PROVE  \E x \in PumpState : (x.pc # "idle" => x.revision # 0) /\ PumpGoes(p, x)
  <1>1. pump[p] \in PumpState /\ offset \in 0 .. Last
    BY PumpTyped DEF TypeOK
  <1>2. CASE Consider(p)
    <2>1. offset + 1 \in 1 .. Last
      BY <1>1, <1>2, FeedAssumption DEF Consider
    <2> DEFINE a == IF offset + 1 \in Removed THEN "ask" ELSE "get"
               b == offset + 1 \in Dull \cup backlog[p]
               n == offset + 1
    <2>2. PumpGoes(p, [IdlePump EXCEPT !.pc = a, !.revision = n, !.skip = b])
      BY <1>2 DEF Consider
    <2>3. a \in {"ask", "get"} /\ b \in BOOLEAN /\ n \in 0 .. Last /\ n # 0
      BY <2>1, FeedAssumption
    <2> HIDE DEF a, b, n
    <2>4. [IdlePump EXCEPT !.pc = a, !.revision = n, !.skip = b] \in PumpState
      BY <2>3, IdleTyped DEF PumpState
    <2>5. [IdlePump EXCEPT !.pc = a, !.revision = n, !.skip = b].revision = n
      BY DEF IdlePump
    <2> QED BY <2>2, <2>3, <2>4, <2>5
  <1>3. CASE Ask(p)
    <2>1. PICK b \in BOOLEAN : PumpGoes(p, [pump[p] EXCEPT !.pc = "get", !.skip = b])
      BY <1>1, <1>3 DEF Ask, PumpState
    <2>2. pump[p].revision # 0
      BY <1>3 DEF Ask, TypeOK
    <2> QED BY <1>1, <2>1, <2>2 DEF PumpState
  <1>4. CASE GetRow(p)
    <2>1. pump[p].revision \in Revisions
      BY <1>1, <1>4, FeedAssumption DEF GetRow, TypeOK, PumpState, Revisions
    <2>2. delivery[pump[p].revision] \in Status
      BY <2>1 DEF TypeOK
    <2> DEFINE d == delivery[pump[p].revision]
    <2>3. PumpGoes(p, [pump[p] EXCEPT !.pc = "commit", !.seen = d])
      BY <1>4 DEF GetRow
    <2> HIDE DEF d
    <2>4. d \in Status
      BY <2>2 DEF d
    <2>5. [pump[p] EXCEPT !.pc = "commit", !.seen = d] \in PumpState
      BY <1>1, <2>4 DEF PumpState
    <2>6. [pump[p] EXCEPT !.pc = "commit", !.seen = d].revision # 0
      BY <1>1, <1>4 DEF PumpState, GetRow, TypeOK
    <2> QED BY <2>3, <2>5, <2>6
  <1>5. CASE CommitRow(p)
    BY <1>1, <1>5 DEF CommitRow, PumpState, TypeOK
  <1>6. CASE Advance(p) \/ AdvanceRaises(p)
    <2>1. IdlePump.pc = "idle"
      BY DEF IdlePump
    <2> QED BY <1>6, <2>1, IdleTyped DEF Advance, AdvanceRaises
  <1>7. CASE ScheduleFails(p)
    BY <1>1, <1>7 DEF ScheduleFails, PumpState, TypeOK
  <1> QED BY <1>2, <1>3, <1>4, <1>5, <1>6, <1>7 DEF PumpStep

-----------------------------------------------------------------------------
(* Type correctness.                                                       *)

LEMMA InitType == Init => TypeOK
  BY FeedAssumption, BoundsAssumption, IdleTyped
     DEF Init, TypeOK, PumpState, LoopState, Status, Revisions, IdlePump

(* The pumps keep their type in the steps of a pump and in a restart, the  *)
(* loops in those of a loop and in a restart.                              *)
LEMMA PumpsTyped ==
  ASSUME TypeOK, NEW p \in Publishers,
         PumpStep(p) \/ ScheduleFails(p) \/ AdvanceRaises(p) \/ PumpGoes(p, IdlePump)
  PROVE  /\ pump' \in [Publishers -> PumpState]
         /\ \A q \in Publishers : pump'[q].pc # "idle" => pump'[q].revision # 0
  <1>1. IdlePump.pc = "idle"
    BY DEF IdlePump
  <1>2. PICK x \in PumpState : (x.pc # "idle" => x.revision # 0) /\ PumpGoes(p, x)
    BY <1>1, PumpMoves, IdleTyped
  <1> QED BY <1>2, PumpFrame

LEMMA NextType == TypeOK /\ [Next]_vars => TypeOK'
  <1> USE DEF PumpState, LoopState
  <1> SUFFICES ASSUME TypeOK, [Next]_vars PROVE TypeOK'
    OBVIOUS
  <1>1. ASSUME NEW p \in Publishers,
               PumpStep(p) \/ ScheduleFails(p) \/ AdvanceRaises(p)
        PROVE  TypeOK'
    <2>1. /\ delivery' \in [Revisions -> Status] /\ old' \subseteq Revisions
          /\ offset' \in 0 .. Last
      BY <1>1, PumpTyped
         DEF TypeOK, PumpStep, ScheduleFails, AdvanceRaises, Consider, Ask, GetRow,
             CommitRow, Advance, Status
    <2>2. failures' \in 0 .. MaxFailures /\ UNCHANGED <<crashes, overruns>>
      BY <1>1, BoundsAssumption
         DEF TypeOK, PumpStep, ScheduleFails, AdvanceRaises, Consider, Ask, GetRow,
             CommitRow, Advance, Fault, faults
    <2>3. UNCHANGED <<posts, backlog, loop>>
      BY <1>1 DEF PumpStep, ScheduleFails, AdvanceRaises, Consider, Ask, GetRow,
                  CommitRow, Advance
    <2> QED BY <1>1, <2>1, <2>2, <2>3, PumpsTyped DEF TypeOK
  <1>2. ASSUME NEW p \in Publishers, NEW rows \in SUBSET Revisions, Claim(p, rows)
        PROVE  TypeOK'
    <2>1. loop' \in [Publishers -> LoopState]
      BY <1>2, RowsTyped, LoopFrame DEF Claim
    <2>2. delivery' \in [Revisions -> Status] /\ old' \subseteq Revisions
      BY <1>2 DEF Claim, TypeOK, Status
    <2> QED BY <1>2, <2>1, <2>2 DEF Claim, TypeOK, faults
  <1>3. ASSUME NEW p \in Publishers, NEW r \in Revisions,
               SendAccepted(p, r) \/ SendRefused(p, r) \/ AnswerLost(p, r)
        PROVE  TypeOK'
    <2>1. PICK c \in {"posted", "refused"} :
            LoopGoes(p, [loop[p] EXCEPT !.pc = c, !.current = r])
      BY <1>3 DEF SendAccepted, SendRefused, AnswerLost
    <2>2. [loop[p] EXCEPT !.pc = c, !.current = r] \in LoopState
      <3>1. loop[p] \in LoopState /\ r \in 0 .. Last
        BY LoopTyped, FeedAssumption DEF Revisions
      <3> QED BY <3>1
    <2>3. loop' \in [Publishers -> LoopState]
      BY <2>1, <2>2, LoopFrame
    <2>4. posts' \in [Revisions -> Nat]
      BY <1>3 DEF SendAccepted, SendRefused, AnswerLost, TypeOK
    <2>5. failures' \in 0 .. MaxFailures /\ UNCHANGED <<crashes, overruns>>
      BY <1>3, BoundsAssumption
         DEF SendAccepted, SendRefused, AnswerLost, TypeOK, Fault, faults
    <2> QED BY <1>3, <2>3, <2>4, <2>5
            DEF SendAccepted, SendRefused, AnswerLost, TypeOK
  <1>4. ASSUME NEW p \in Publishers, MarkPosted(p) \/ MarkFailed(p) PROVE TypeOK'
    <2>1. loop[p].rows \ {loop[p].current} \in SUBSET Revisions
      BY LoopTyped
    <2>2. loop' \in [Publishers -> LoopState]
      BY <1>4, <2>1, RowsTyped, LoopFrame DEF MarkPosted, MarkFailed
    <2>3. delivery' \in [Revisions -> Status] /\ old' \subseteq Revisions
      BY <1>4 DEF MarkPosted, MarkFailed, TypeOK, Status
    <2> QED BY <1>4, <2>2, <2>3 DEF MarkPosted, MarkFailed, TypeOK, faults
  <1>5. ASSUME NEW p \in Publishers, DispatchRaises(p) PROVE TypeOK'
    <2>1. loop' \in [Publishers -> LoopState]
      BY <1>5, IdleTyped, LoopFrame DEF DispatchRaises
    <2> QED BY <1>5, <2>1, BoundsAssumption DEF DispatchRaises, TypeOK, Fault
  <1>6. ASSUME NEW p \in Publishers, NEW more \in SUBSET Revisions, Restart(p, more)
        PROVE  TypeOK'
    <2>1. loop' \in [Publishers -> LoopState]
      BY <1>6, IdleTyped, LoopFrame DEF Restart
    <2>2. /\ pump' \in [Publishers -> PumpState]
          /\ \A q \in Publishers : pump'[q].pc # "idle" => pump'[q].revision # 0
      BY <1>6, PumpsTyped DEF Restart
    <2>3. backlog' \in [Publishers -> SUBSET Revisions]
      BY <1>6 DEF Restart, TypeOK
    <2>4. crashes' \in 0 .. MaxCrashes
      BY <1>6, BoundsAssumption DEF Restart, TypeOK
    <2> QED BY <1>6, <2>1, <2>2, <2>3, <2>4 DEF Restart, TypeOK
  <1>7. ASSUME NEW r \in Revisions, Abandoned(r) \/ Overrun(r) PROVE TypeOK'
    BY <1>7, BoundsAssumption DEF Abandoned, Overrun, TypeOK, faults
  <1>8. CASE UNCHANGED vars
    BY <1>8 DEF vars, faults, TypeOK
  <1> QED BY <1>1, <1>2, <1>3, <1>4, <1>5, <1>6, <1>7, <1>8 DEF Next, LoopStep

(* Rows, pumps, loops and the offset keep their types in every reachable   *)
(* state; a pump at work always has a revision.                            *)
THEOREM TypeCorrect == Spec => []TypeOK
  BY InitType, NextType, PTL DEF Spec

-----------------------------------------------------------------------------
(* Leases.                                                                 *)

(* The row a loop has sent is one of its rows; and while leases hold, its  *)
(* rows are leased, but for those that a pump, which read them before,     *)
(* skipped meanwhile: neither are due, and no lease of them grows old.     *)
LeaseInv ==
  /\ \A p \in Publishers : loop[p].pc \in {"posted", "refused"} =>
       loop[p].current \in loop[p].rows
  /\ overruns = 0 => \A p \in Publishers : \A r \in loop[p].rows :
       delivery[r] \in {"sending", "skipped"} /\ r \notin old

LEMMA InitLease == Init => LeaseInv /\ OneSender
  BY DEF Init, LeaseInv, OneSender, IdleLoop

LEMMA NextLease ==
  TypeOK /\ LeaseInv /\ OneSender /\ [Next]_vars => LeaseInv' /\ OneSender'
  <1> SUFFICES ASSUME TypeOK, LeaseInv, OneSender, [Next]_vars
               PROVE  LeaseInv' /\ OneSender'
    OBVIOUS
  <1>l. \A p \in Publishers : loop[p].rows \subseteq Revisions
    BY LoopTyped DEF LoopState
  \* A step that adds no row to a loop and takes none of its rows from it.
  <1>f. ASSUME UNCHANGED overruns,
               \A p \in Publishers : loop'[p].rows \subseteq loop[p].rows,
               \A p \in Publishers : loop'[p].pc \in {"posted", "refused"} =>
                 loop'[p].current \in loop'[p].rows,
               overruns = 0 => \A p \in Publishers : \A r \in loop'[p].rows :
                 delivery'[r] \in {"sending", "skipped"} /\ r \notin old'
        PROVE  LeaseInv' /\ OneSender'
    BY <1>f DEF LeaseInv, OneSender
  <1>1. ASSUME NEW p \in Publishers,
               PumpStep(p) \/ ScheduleFails(p) \/ AdvanceRaises(p)
        PROVE  LeaseInv' /\ OneSender'
    <2>1. UNCHANGED <<loop, overruns>>
      BY <1>1 DEF PumpStep, ScheduleFails, AdvanceRaises, Consider, Ask, GetRow,
                  CommitRow, Advance, Fault, faults
    <2>2. CASE UNCHANGED <<delivery, old>>
      BY <2>1, <2>2, <1>f DEF LeaseInv
    <2>3. CASE CommitRow(p)
      <3>1. \A r \in Revisions : delivery[r] \in {"sending", "skipped"} =>
              delivery'[r] \in {"sending", "skipped"}
        BY <2>3 DEF CommitRow, TypeOK
      <3>2. old' \subseteq old
        BY <2>3 DEF CommitRow
      <3> QED BY <2>1, <3>1, <3>2, <1>l, <1>f DEF LeaseInv
    <2> QED BY <1>1, <2>2, <2>3 DEF PumpStep, ScheduleFails, AdvanceRaises,
                                    Consider, Ask, GetRow, Advance
  <1>2. ASSUME NEW p \in Publishers, NEW rows \in SUBSET Revisions, Claim(p, rows)
        PROVE  LeaseInv' /\ OneSender'
    <2>1. \A q \in Publishers :
            loop'[q] = IF q = p THEN WithRows(rows) ELSE loop[q]
      BY <1>2, RowsTyped, LoopFrame DEF Claim
    <2>2. overruns = 0 => \A q \in Publishers :
            loop[q].rows \cap (Due \cup Stale) = {}
      BY DEF LeaseInv, Due, Stale
    <2>3. \A r \in Revisions \ (Due \cup Stale) : delivery'[r] = delivery[r]
      BY <1>2 DEF Claim
    <2>4. \A r \in rows : delivery'[r] = "sending" /\ r \notin old'
      BY <1>2 DEF Claim
    <2>5. /\ rows \subseteq Due \cup Stale /\ old' \subseteq old
          /\ UNCHANGED overruns
      BY <1>2 DEF Claim, faults
    <2>6. LeaseInv'
      <3>1. \A q \in Publishers : loop'[q].pc \in {"posted", "refused"} =>
              loop'[q].current \in loop'[q].rows
        BY <2>1, RowsTyped DEF LeaseInv
      <3>2. overruns = 0 => \A r \in loop'[p].rows :
              delivery'[r] \in {"sending", "skipped"} /\ r \notin old'
        BY <2>1, <2>4, RowsTyped
      <3>3. overruns = 0 => \A q \in Publishers \ {p} : \A r \in loop'[q].rows :
              delivery'[r] \in {"sending", "skipped"} /\ r \notin old'
        BY <2>1, <2>2, <2>3, <2>5, <1>l DEF LeaseInv
      <3> QED BY <2>5, <3>1, <3>2, <3>3 DEF LeaseInv
    <2>7. OneSender'
      BY <2>1, <2>2, <2>5, RowsTyped DEF OneSender
    <2> QED BY <2>6, <2>7
  <1>3. ASSUME NEW p \in Publishers, NEW r \in Revisions,
               SendAccepted(p, r) \/ SendRefused(p, r) \/ AnswerLost(p, r)
        PROVE  LeaseInv' /\ OneSender'
    <2>1. PICK c \in {"posted", "refused"} :
            LoopGoes(p, [loop[p] EXCEPT !.pc = c, !.current = r])
      BY <1>3 DEF SendAccepted, SendRefused, AnswerLost
    <2>2. \A q \in Publishers : /\ loop'[q].rows = loop[q].rows
                                /\ q # p => loop'[q] = loop[q]
      BY <2>1, LoopTyped DEF LoopGoes, TypeOK, LoopState
    <2>3. loop'[p].current = r /\ r \in loop[p].rows
      BY <1>3, <2>1, LoopTyped
         DEF LoopGoes, TypeOK, LoopState, SendAccepted, SendRefused, AnswerLost
    <2>4. UNCHANGED <<delivery, old, overruns>>
      BY <1>3 DEF SendAccepted, SendRefused, AnswerLost, Fault, faults
    <2> QED BY <2>2, <2>3, <2>4, <1>f DEF LeaseInv
  <1>4. ASSUME NEW p \in Publishers, MarkPosted(p) \/ MarkFailed(p)
        PROVE  LeaseInv' /\ OneSender'
    <2> DEFINE c == loop[p].current
    <2>1. loop[p].rows \ {c} \in SUBSET Revisions
      BY LoopTyped DEF LoopState
    <2>2. /\ \A q \in Publishers :
               loop'[q] = IF q = p THEN WithRows(loop[p].rows \ {c}) ELSE loop[q]
          /\ UNCHANGED overruns
      BY <1>4, <2>1, RowsTyped, LoopFrame DEF MarkPosted, MarkFailed, faults
    <2>3. /\ \A r \in Revisions : r # c => delivery'[r] = delivery[r]
          /\ old' \subseteq old
      BY <1>4 DEF MarkPosted, MarkFailed, TypeOK
    <2>4. c \in loop[p].rows
      BY <1>4 DEF MarkPosted, MarkFailed, LeaseInv
    <2>5. overruns = 0 => \A q \in Publishers : c \notin loop'[q].rows
      BY <2>1, <2>2, <2>4, <1>l, RowsTyped DEF OneSender
    <2>6. \A q \in Publishers : loop'[q].rows \subseteq loop[q].rows
      BY <2>1, <2>2, RowsTyped
    <2>7. \A q \in Publishers : loop'[q].pc \in {"posted", "refused"} =>
            loop'[q].current \in loop'[q].rows
      BY <2>1, <2>2, RowsTyped DEF LeaseInv
    <2>8. overruns = 0 => \A q \in Publishers : \A r \in loop'[q].rows :
            delivery'[r] \in {"sending", "skipped"} /\ r \notin old'
      BY <2>3, <2>5, <2>6, <1>l DEF LeaseInv
    <2> QED BY <2>2, <2>6, <2>7, <2>8, <1>f
  <1>5. ASSUME NEW p \in Publishers, LoopGoes(p, IdleLoop),
               UNCHANGED <<delivery, old, overruns>>
        PROVE  LeaseInv' /\ OneSender'
    <2>1. \A q \in Publishers : loop'[q] = IF q = p THEN IdleLoop ELSE loop[q]
      BY <1>5, IdleTyped, LoopFrame
    <2>2. IdleLoop.rows = {} /\ IdleLoop.pc = "idle"
      BY DEF IdleLoop
    <2> QED BY <1>5, <2>1, <2>2, <1>f DEF LeaseInv
  <1>6. ASSUME NEW p \in Publishers,
               DispatchRaises(p) \/ \E more \in SUBSET Revisions : Restart(p, more)
        PROVE  LeaseInv' /\ OneSender'
    BY <1>5, <1>6 DEF DispatchRaises, Restart, Fault
  <1>7. ASSUME NEW r \in Revisions, Abandoned(r) PROVE LeaseInv' /\ OneSender'
    BY <1>7, <1>f DEF Abandoned, Leased, LeaseInv, faults
  <1>8. ASSUME NEW r \in Revisions, Overrun(r) PROVE LeaseInv' /\ OneSender'
    <2>1. overruns' # 0 /\ UNCHANGED loop
      BY <1>8 DEF Overrun, TypeOK
    <2> QED BY <2>1 DEF LeaseInv, OneSender
  <1>9. CASE UNCHANGED vars
    BY <1>9, <1>f DEF vars, faults, LeaseInv
  <1> QED BY <1>1, <1>2, <1>3, <1>4, <1>6, <1>7, <1>8, <1>9 DEF Next, LoopStep

(* While no batch outlasts its lease, no two publishers ever hold the same *)
(* row, however many there are and whatever restarts and failures happen.  *)
THEOREM NoSharedRow == Spec => []OneSender
  <1>1. Init => TypeOK /\ LeaseInv /\ OneSender
    BY InitType, InitLease
  <1>2. TypeOK /\ LeaseInv /\ OneSender /\ [Next]_vars
          => (TypeOK /\ LeaseInv /\ OneSender)'
    BY NextType, NextLease
  <1> QED BY <1>1, <1>2, PTL DEF Spec

-----------------------------------------------------------------------------
(* Posted rows.                                                            *)

Decides(p) == pump[p].pc \in {"get", "commit"} /\ pump[p].revision \notin Removed

(* Before the first restart every pump decides alike on the revision of a  *)
(* living story, so that no one skips what another one had sent: the dull  *)
(* ones are skipped by all, and are neither pending nor in a loop.         *)
DullInv ==
  crashes = 0 =>
    /\ \A p \in Publishers : backlog[p] = {}
    /\ \A p \in Publishers : pump[p].pc = "ask" => pump[p].revision \in Removed
    /\ \A p \in Publishers : Decides(p) => pump[p].skip = (pump[p].revision \in Dull)
    /\ \A r \in Dull \ Removed : delivery[r] \in {"none", "skipped"}
    /\ \A p \in Publishers : loop[p].rows \cap (Dull \ Removed) = {}

LEMMA InitDull == Init => DullInv
  BY FeedAssumption DEF Init, DullInv, Decides, IdlePump, IdleLoop, Revisions

LEMMA NextDull == TypeOK /\ LeaseInv /\ DullInv /\ [Next]_vars => DullInv'
  <1> SUFFICES ASSUME TypeOK, LeaseInv, DullInv, [Next]_vars, crashes' = 0
               PROVE  DullInv'
    BY DEF DullInv
  <1>d. Dull \subseteq Revisions
    BY FeedAssumption DEF Revisions
  \* What a step of a pump, and what a step of a loop, has to keep.
  <1>p. ASSUME UNCHANGED <<crashes, backlog, loop>>,
               \A q \in Publishers :
                 /\ pump'[q].pc = "ask" => pump'[q].revision \in Removed
                 /\ Decides(q)' => pump'[q].skip = (pump'[q].revision \in Dull),
               \A r \in Dull \ Removed : delivery'[r] \in {"none", "skipped"}
        PROVE  DullInv'
    BY <1>p DEF DullInv
  <1>l. ASSUME UNCHANGED <<crashes, backlog, pump>>,
               \A r \in Dull \ Removed : delivery'[r] = delivery[r],
               \A q \in Publishers : loop'[q].rows \cap (Dull \ Removed) = {}
        PROVE  DullInv'
    BY <1>l DEF DullInv, Decides
  <1>1. ASSUME NEW p \in Publishers,
               PumpStep(p) \/ ScheduleFails(p) \/ AdvanceRaises(p)
        PROVE  DullInv'
    <2>1. UNCHANGED <<crashes, backlog, loop>>
      BY <1>1 DEF PumpStep, ScheduleFails, AdvanceRaises, Consider, Ask, GetRow,
                  CommitRow, Advance, Fault, faults
    <2>2. \A q \in Publishers \ {p} : pump'[q] = pump[q]
      BY <1>1, PumpMoves, PumpFrame
    <2>3. /\ pump'[p].pc = "ask" => pump'[p].revision \in Removed
          /\ Decides(p)' => pump'[p].skip = (pump'[p].revision \in Dull)
      <3>t. pump[p] \in PumpState
        BY PumpTyped
      <3>1. CASE Consider(p)
        <4> DEFINE a == IF offset + 1 \in Removed THEN "ask" ELSE "get"
                   b == offset + 1 \in Dull \cup backlog[p]
        <4>1. pump'[p] = [IdlePump EXCEPT !.pc = a, !.revision = offset + 1, !.skip = b]
          BY <3>1 DEF Consider, PumpGoes, TypeOK
        <4>2. pump'[p].pc = a /\ pump'[p].revision = offset + 1 /\ pump'[p].skip = b
          BY <4>1 DEF IdlePump
        <4>3. b = (offset + 1 \in Dull)
          BY <2>1 DEF DullInv
        <4> QED BY <4>2, <4>3 DEF Decides
      <3>2. CASE Ask(p)
        <4>1. pump'[p].pc = "get" /\ pump'[p].revision = pump[p].revision
          BY <3>2, <3>t DEF Ask, PumpGoes, TypeOK, PumpState
        <4>2. pump[p].revision \in Removed
          BY <2>1, <3>2 DEF Ask, DullInv
        <4> QED BY <4>1, <4>2 DEF Decides
      <3>3. CASE GetRow(p)
        <4>1. /\ pump[p].pc = "get" /\ pump'[p].pc = "commit"
              /\ pump'[p].revision = pump[p].revision
              /\ pump'[p].skip = pump[p].skip
          BY <3>3, <3>t DEF GetRow, PumpGoes, TypeOK, PumpState
        <4> QED BY <2>1, <4>1 DEF Decides, DullInv
      <3>4. CASE CommitRow(p) \/ ScheduleFails(p)
        <4>1. pump'[p].pc = "advance"
          BY <3>4, <3>t DEF CommitRow, ScheduleFails, PumpGoes, TypeOK, PumpState
        <4> QED BY <4>1 DEF Decides
      <3>5. CASE Advance(p) \/ AdvanceRaises(p)
        <4>1. pump'[p].pc = "idle"
          BY <3>5 DEF Advance, AdvanceRaises, PumpGoes, TypeOK, IdlePump
        <4> QED BY <4>1 DEF Decides
      <3> QED BY <1>1, <3>1, <3>2, <3>3, <3>4, <3>5 DEF PumpStep
    <2>4. \A q \in Publishers :
            /\ pump'[q].pc = "ask" => pump'[q].revision \in Removed
            /\ Decides(q)' => pump'[q].skip = (pump'[q].revision \in Dull)
      BY <2>1, <2>2, <2>3 DEF DullInv, Decides
    <2>5. \A r \in Dull \ Removed : delivery'[r] \in {"none", "skipped"}
      <3>1. CASE CommitRow(p)
        <4>1. \A r \in Revisions : r # pump[p].revision => delivery'[r] = delivery[r]
          BY <3>1 DEF CommitRow, TypeOK
        <4>2. pump[p].revision \in Dull \ Removed => pump[p].skip
          BY <2>1, <3>1 DEF CommitRow, Decides, DullInv
        <4>3. pump[p].skip => \A r \in Revisions :
                delivery'[r] \in {delivery[r], "skipped"}
          BY <3>1 DEF CommitRow, TypeOK
        <4> QED BY <1>d, <2>1, <4>1, <4>2, <4>3 DEF DullInv
      <3>2. CASE UNCHANGED delivery
        BY <2>1, <3>2 DEF DullInv
      <3> QED BY <1>1, <3>1, <3>2 DEF PumpStep, ScheduleFails, AdvanceRaises,
                                      Consider, Ask, GetRow, Advance
    <2> QED BY <2>1, <2>4, <2>5, <1>p
  <1>2. ASSUME NEW p \in Publishers, NEW rows \in SUBSET Revisions, Claim(p, rows)
        PROVE  DullInv'
    <2>1. UNCHANGED <<crashes, backlog, pump>>
      BY <1>2 DEF Claim, faults
    <2>2. (Due \cup Stale) \cap (Dull \ Removed) = {}
      BY <2>1 DEF DullInv, Due, Stale
    <2>3. \A r \in Dull \ Removed : delivery'[r] = delivery[r]
      BY <1>2, <1>d, <2>2 DEF Claim
    <2>4. \A q \in Publishers : loop'[q] = IF q = p THEN WithRows(rows) ELSE loop[q]
      BY <1>2, RowsTyped, LoopFrame DEF Claim
    <2>5. \A q \in Publishers : loop'[q].rows \cap (Dull \ Removed) = {}
      BY <1>2, <2>1, <2>2, <2>4, RowsTyped DEF Claim, DullInv
    <2> QED BY <2>1, <2>3, <2>5, <1>l
  <1>3. ASSUME NEW p \in Publishers, NEW r \in Revisions,
               SendAccepted(p, r) \/ SendRefused(p, r) \/ AnswerLost(p, r)
        PROVE  DullInv'
    <2>1. UNCHANGED <<crashes, backlog, pump, delivery>>
      BY <1>3 DEF SendAccepted, SendRefused, AnswerLost, Fault, faults
    <2>2. PICK c \in {"posted", "refused"} :
            LoopGoes(p, [loop[p] EXCEPT !.pc = c, !.current = r])
      BY <1>3 DEF SendAccepted, SendRefused, AnswerLost
    <2>3. \A q \in Publishers : loop'[q].rows = loop[q].rows
      BY <2>2, LoopTyped DEF LoopGoes, TypeOK, LoopState
    <2> QED BY <2>1, <2>3, <1>l DEF DullInv
  <1>4. ASSUME NEW p \in Publishers, MarkPosted(p) \/ MarkFailed(p) PROVE DullInv'
    <2> DEFINE c == loop[p].current
    <2>1. UNCHANGED <<crashes, backlog, pump>>
      BY <1>4 DEF MarkPosted, MarkFailed, faults
    <2>2. loop[p].rows \ {c} \in SUBSET Revisions
      BY LoopTyped DEF LoopState
    <2>3. \A q \in Publishers :
            loop'[q] = IF q = p THEN WithRows(loop[p].rows \ {c}) ELSE loop[q]
      BY <1>4, <2>2, RowsTyped, LoopFrame DEF MarkPosted, MarkFailed
    <2>4. c \in loop[p].rows
      BY <1>4 DEF MarkPosted, MarkFailed, LeaseInv
    <2>5. c \notin Dull \ Removed
      BY <2>1, <2>4 DEF DullInv
    <2>6. \A r \in Dull \ Removed : delivery'[r] = delivery[r]
      BY <1>4, <1>d, <2>5 DEF MarkPosted, MarkFailed, TypeOK
    <2>7. \A q \in Publishers : loop'[q].rows \cap (Dull \ Removed) = {}
      BY <2>1, <2>2, <2>3, RowsTyped DEF DullInv
    <2> QED BY <2>1, <2>6, <2>7, <1>l
  <1>5. ASSUME NEW p \in Publishers, DispatchRaises(p) PROVE DullInv'
    <2>1. UNCHANGED <<crashes, backlog, pump, delivery>>
      BY <1>5 DEF DispatchRaises, Fault
    <2>2. \A q \in Publishers : loop'[q] = IF q = p THEN IdleLoop ELSE loop[q]
      BY <1>5, IdleTyped, LoopFrame DEF DispatchRaises
    <2> QED BY <2>1, <2>2, <1>l DEF DullInv, IdleLoop
  <1>6. ASSUME NEW p \in Publishers, NEW more, Restart(p, more) PROVE DullInv'
    BY <1>6 DEF Restart, TypeOK
  <1>7. ASSUME NEW r \in Revisions, Abandoned(r) \/ Overrun(r) PROVE DullInv'
    <2>1. UNCHANGED <<crashes, backlog, pump, delivery, loop>>
      BY <1>7 DEF Abandoned, Overrun, faults
    <2> QED BY <2>1, <1>l DEF DullInv
  <1>8. CASE UNCHANGED vars
    <2>1. UNCHANGED <<crashes, backlog, pump, delivery, loop>>
      BY <1>8 DEF vars, faults
    <2> QED BY <2>1, <1>l DEF DullInv
  <1> QED BY <1>1, <1>2, <1>3, <1>4, <1>5, <1>6, <1>7, <1>8 DEF Next, LoopStep

(* One step: who would overwrite a posted row is a pump, which only skips  *)
(* dull revisions, or a loop, which marks only rows it leases.             *)
LEMMA PostedStep ==
  ASSUME TypeOK, LeaseInv, DullInv, [Next]_vars, crashes' = 0, overruns' = 0,
         NEW r \in Revisions \ Removed, delivery[r] = "posted"
  PROVE  delivery'[r] = "posted"
  <1>d. /\ crashes = 0 => r \notin Dull
        /\ overruns = 0 => \A p \in Publishers : r \notin loop[p].rows
    <2>1. crashes = 0 /\ r \in Dull => delivery[r] \in {"none", "skipped"}
      BY DEF DullInv
    <2> QED BY <2>1 DEF LeaseInv
  <1>1. ASSUME NEW p \in Publishers, CommitRow(p) PROVE delivery'[r] = "posted"
    <2>1. crashes = 0
      BY <1>1 DEF CommitRow, faults
    <2>2. pump[p].revision = r => ~pump[p].skip
      BY <1>1, <1>d, <2>1 DEF CommitRow, Decides, DullInv
    <2> QED BY <1>1, <2>2 DEF CommitRow, TypeOK
  <1>2. ASSUME NEW p \in Publishers, NEW rows \in SUBSET Revisions, Claim(p, rows)
        PROVE  delivery'[r] = "posted"
    BY <1>2 DEF Claim, Due, Stale
  <1>3. ASSUME NEW p \in Publishers, MarkPosted(p) \/ MarkFailed(p)
        PROVE  delivery'[r] = "posted"
    <2>1. overruns = 0
      BY <1>3 DEF MarkPosted, MarkFailed, faults
    <2>2. loop[p].current \in loop[p].rows
      BY <1>3 DEF MarkPosted, MarkFailed, LeaseInv
    <2>3. loop[p].current # r
      BY <1>d, <2>1, <2>2
    <2> QED BY <1>3, <2>3 DEF MarkPosted, MarkFailed, TypeOK
  <1>4. CASE UNCHANGED delivery
    BY <1>4
  <1> QED BY <1>1, <1>2, <1>3, <1>4
          DEF Next, PumpStep, Consider, Ask, GetRow, Advance, ScheduleFails,
              AdvanceRaises, LoopStep, SendAccepted, SendRefused, AnswerLost,
              DispatchRaises, Restart, Abandoned, Overrun, vars

(* While no publisher has restarted and no lease has ended early, the row  *)
(* of a story that was posted stays posted, for any number of publishers   *)
(* that consider, lease, send and fail in any order.                       *)
THEOREM PostedRowsStay == Spec => PostedStaysPosted
  <1> DEFINE Inv == TypeOK /\ LeaseInv /\ OneSender /\ DullInv
  <1>1. Init => Inv
    BY InitType, InitLease, InitDull
  <1>2. Inv /\ [Next]_vars => Inv'
    BY NextType, NextLease, NextDull
  <1>3. Inv /\ [Next]_vars =>
          [crashes' = 0 /\ overruns' = 0 =>
             \A r \in Revisions \ Removed :
               delivery[r] = "posted" => delivery'[r] = "posted"]_vars
    BY PostedStep
  <1> QED BY <1>1, <1>2, <1>3, PTL DEF Spec, PostedStaysPosted

-----------------------------------------------------------------------------
(* The offset.                                                             *)

(* A revision that the offset passed, or will pass again when a pump that  *)
(* considers a later one, or is done with this one, advances.              *)
Passed(r) ==
  \/ r <= offset
  \/ \E p \in Publishers :
       \/ pump[p].pc # "idle" /\ r < pump[p].revision
       \/ pump[p].pc = "advance" /\ r = pump[p].revision
Unscheduled == {r \in Revisions : delivery[r] = "none" /\ Passed(r)}

(* The offset can fall back, since the slower of two pumps writes an older *)
(* one over it, and jump ahead again; what it passed without a row stays   *)
(* counted all the while.                                                  *)
PassInv ==
  /\ Cardinality(Unscheduled) <= failures
  /\ \A p \in Publishers : pump[p].pc = "commit" /\ pump[p].seen # "none" =>
       delivery[pump[p].revision] # "none"

LEMMA RevisionsFinite == IsFiniteSet(Revisions)
  <1>1. 1 \in Int /\ Last \in Int
    BY FeedAssumption
  <1> QED BY <1>1, FS_Interval DEF Revisions

LEMMA CountedSets ==
  ASSUME NEW S \in SUBSET Revisions, NEW T \in SUBSET Revisions
  PROVE  /\ Cardinality(T) \in Nat /\ Cardinality(S) \in Nat
         /\ T \subseteq S => Cardinality(T) <= Cardinality(S)
         /\ \A r : T \subseteq S \cup {r} => Cardinality(T) <= Cardinality(S) + 1
  <1>1. IsFiniteSet(S) /\ IsFiniteSet(T)
    BY RevisionsFinite, FS_Subset
  <1>2. Cardinality(S) \in Nat /\ Cardinality(T) \in Nat
    BY <1>1, FS_CardinalityType
  <1>3. T \subseteq S => Cardinality(T) <= Cardinality(S)
    BY <1>1, FS_Subset
  <1>4. ASSUME NEW r, T \subseteq S \cup {r} PROVE Cardinality(T) <= Cardinality(S) + 1
    <2>1. /\ IsFiniteSet(S \cup {r})
          /\ Cardinality(S \cup {r}) = IF r \in S THEN Cardinality(S) ELSE Cardinality(S) + 1
      BY <1>1, FS_AddElement
    <2>2. Cardinality(T) <= Cardinality(S \cup {r})
      BY <1>4, <2>1, FS_Subset
    <2> QED BY <1>2, <2>1, <2>2
  <1> QED BY <1>2, <1>3, <1>4

(* A row, once there, is never deleted.                                    *)
LEMMA RowsStay ==
  ASSUME TypeOK, [Next]_vars, NEW r \in Revisions, delivery[r] # "none"
  PROVE  delivery'[r] # "none"
  <1>1. ASSUME NEW p \in Publishers, CommitRow(p) PROVE delivery'[r] # "none"
    BY <1>1 DEF CommitRow, TypeOK
  <1>2. ASSUME NEW p \in Publishers, NEW rows, Claim(p, rows) PROVE delivery'[r] # "none"
    BY <1>2 DEF Claim
  <1>3. ASSUME NEW p \in Publishers, MarkPosted(p) \/ MarkFailed(p) PROVE delivery'[r] # "none"
    BY <1>3 DEF MarkPosted, MarkFailed, TypeOK
  <1> QED BY <1>1, <1>2, <1>3
          DEF Next, PumpStep, Consider, Ask, GetRow, Advance, ScheduleFails,
              AdvanceRaises, LoopStep, SendAccepted, SendRefused, AnswerLost,
              DispatchRaises, Restart, Abandoned, Overrun, vars

(* What a pump step passes: nothing new, or the revision it gives up.      *)
LEMMA PumpPasses ==
  ASSUME TypeOK, NEW p \in Publishers, PumpStep(p) \/ ScheduleFails(p) \/ AdvanceRaises(p),
         NEW r \in Revisions, Passed(r)'
  PROVE  \/ Passed(r)
         \/ r = pump[p].revision /\ (CommitRow(p) \/ ScheduleFails(p))
  <1>1. /\ r \in Nat /\ offset \in Nat /\ \A q \in Publishers : pump[q].revision \in Nat
        /\ pump[p] \in PumpState
    BY PumpTyped, FeedAssumption DEF TypeOK, PumpState, Revisions
  <1>2. \A q \in Publishers \ {p} : pump'[q] = pump[q]
    BY PumpMoves, PumpFrame
  <1>3. CASE Consider(p)
    <2> DEFINE a == IF offset + 1 \in Removed THEN "ask" ELSE "get"
               b == offset + 1 \in Dull \cup backlog[p]
    <2>1. pump'[p] = [IdlePump EXCEPT !.pc = a, !.revision = offset + 1, !.skip = b] /\ offset' = offset
      BY <1>3 DEF Consider, PumpGoes, TypeOK
    <2>2. pump'[p].pc # "advance" /\ pump'[p].revision = offset + 1
      BY <2>1 DEF IdlePump
    <2>3. r < offset + 1 => r <= offset
      BY <1>1
    <2> QED BY <1>2, <2>1, <2>2, <2>3 DEF Passed
  <1>4. CASE Ask(p) \/ GetRow(p)
    <2>1. Ask(p) => pump'[p].pc = "get" /\ pump'[p].revision = pump[p].revision
      BY <1>1 DEF Ask, PumpGoes, TypeOK, PumpState
    <2>2. GetRow(p) => pump'[p].pc = "commit" /\ pump'[p].revision = pump[p].revision
      BY <1>1 DEF GetRow, PumpGoes, TypeOK, PumpState
    <2>3. pump[p].pc # "idle" /\ offset' = offset
      BY <1>4 DEF Ask, GetRow
    <2> QED BY <1>2, <1>4, <2>1, <2>2, <2>3 DEF Passed
  <1>5. CASE CommitRow(p) \/ ScheduleFails(p)
    <2>1. pump[p].pc # "idle" /\ pump'[p].revision = pump[p].revision /\ offset' = offset
      BY <1>1, <1>5 DEF CommitRow, ScheduleFails, PumpGoes, TypeOK, PumpState
    <2> QED BY <1>2, <1>5, <2>1 DEF Passed
  <1>6. CASE Advance(p)
    <2>1. offset' = pump[p].revision /\ pump[p].pc = "advance" /\ pump'[p].pc = "idle"
      BY <1>6 DEF Advance, PumpGoes, TypeOK, IdlePump
    <2>2. r <= pump[p].revision => r < pump[p].revision \/ r = pump[p].revision
      BY <1>1
    <2> QED BY <1>2, <2>1, <2>2 DEF Passed
  <1>7. CASE AdvanceRaises(p)
    <2>1. offset' = offset /\ pump'[p].pc = "idle"
      BY <1>7 DEF AdvanceRaises, PumpGoes, TypeOK, IdlePump
    <2> QED BY <1>2, <2>1 DEF Passed
  <1> QED BY <1>3, <1>4, <1>5, <1>6, <1>7 DEF PumpStep

LEMMA InitPass == Init => PassInv
  <1> SUFFICES ASSUME Init PROVE PassInv
    OBVIOUS
  <1>1. \A r \in Revisions : ~Passed(r)
    BY FeedAssumption DEF Init, Passed, IdlePump, Revisions
  <1>2. Unscheduled = {}
    BY <1>1 DEF Unscheduled
  <1>3. \A p \in Publishers : pump[p].pc # "commit"
    BY DEF Init, IdlePump
  <1> QED BY <1>2, <1>3, FS_EmptySet DEF PassInv, Init

LEMMA NextPass == TypeOK /\ PassInv /\ [Next]_vars => PassInv'
  <1> SUFFICES ASSUME TypeOK, PassInv, [Next]_vars PROVE PassInv'
    OBVIOUS
  <1>t. failures \in Nat /\ Unscheduled \in SUBSET Revisions /\ Unscheduled' \in SUBSET Revisions
    BY BoundsAssumption DEF TypeOK, Unscheduled, Revisions
  \* Nothing new passed, or one revision given up for one failed call.
  <1>f. ASSUME \/ Unscheduled' \subseteq Unscheduled /\ failures' \in {failures, failures + 1}
               \/ failures' = failures + 1 /\ \E r : Unscheduled' \subseteq Unscheduled \cup {r}
        PROVE  Cardinality(Unscheduled') <= failures'
    <2>1. Cardinality(Unscheduled) <= failures
      BY DEF PassInv
    <2>2. /\ Cardinality(Unscheduled') \in Nat /\ Cardinality(Unscheduled) \in Nat
          /\ Unscheduled' \subseteq Unscheduled => Cardinality(Unscheduled') <= Cardinality(Unscheduled)
          /\ (\E r : Unscheduled' \subseteq Unscheduled \cup {r}) =>
               Cardinality(Unscheduled') <= Cardinality(Unscheduled) + 1
      BY <1>t, CountedSets
    <2> QED BY <1>t, <1>f, <2>1, <2>2
  <1>1. ASSUME NEW p \in Publishers, PumpStep(p) \/ ScheduleFails(p) \/ AdvanceRaises(p)
        PROVE  PassInv'
    <2>t. pump[p] \in PumpState /\ (pump[p].pc # "idle" => pump[p].revision \in Revisions)
      BY PumpTyped, FeedAssumption DEF TypeOK, PumpState, Revisions
    <2>1. CommitRow(p) => delivery'[pump[p].revision] # "none"
      <3> SUFFICES ASSUME CommitRow(p) PROVE delivery'[pump[p].revision] # "none"
        OBVIOUS
      <3> DEFINE d == pump[p].revision
                 s == IF pump[p].skip THEN "skipped" ELSE "pending"
      <3>1. d \in Revisions /\ pump[p].pc = "commit"
        BY <2>t DEF CommitRow
      <3>2. \/ delivery'[d] = s
            \/ /\ delivery'[d] = delivery[d]
               /\ ~(pump[p].seen = "none" /\ delivery[d] = "none")
        BY <3>1 DEF CommitRow, TypeOK
      <3>3. pump[p].seen # "none" => delivery[d] # "none"
        BY <3>1 DEF PassInv
      <3> QED BY <3>2, <3>3
    <2>2. \A r \in Unscheduled' : r \in Unscheduled \/ (ScheduleFails(p) /\ r = pump[p].revision)
      BY <1>1, <2>1, PumpPasses, RowsStay DEF Unscheduled
    <2>3. ScheduleFails(p) => failures' = failures + 1
      BY DEF ScheduleFails, Fault
    <2>4. failures' \in {failures, failures + 1}
      BY <1>1, <2>3 DEF PumpStep, AdvanceRaises, Consider, Ask, GetRow, CommitRow, Advance, Fault,
                        faults
    <2>5. Cardinality(Unscheduled') <= failures'
      BY <1>f, <2>2, <2>3, <2>4
    <2>6. ASSUME NEW q \in Publishers, pump'[q].pc = "commit", pump'[q].seen # "none"
          PROVE  delivery'[pump'[q].revision] # "none"
      <3>1. CASE q # p \/ ~GetRow(p)
        <4>1. pump'[q] = pump[q]
          <5>1. q # p => pump'[q] = pump[q]
            BY <1>1, PumpMoves, PumpFrame
          <5>2. q = p /\ ~GetRow(p) => pump'[q].pc # "commit"
            <6>1. Consider(p) => pump'[p].pc \in {"ask", "get"}
              <7> DEFINE a == IF offset + 1 \in Removed THEN "ask" ELSE "get"
                         b == offset + 1 \in Dull \cup backlog[p]
              <7>1. Consider(p) =>
                      pump'[p] = [IdlePump EXCEPT !.pc = a, !.revision = offset + 1, !.skip = b]
                BY DEF Consider, PumpGoes, TypeOK
              <7> HIDE DEF b
              <7> QED BY <7>1 DEF IdlePump
            <6>2. Advance(p) \/ AdvanceRaises(p) => pump'[p].pc = "idle"
              BY DEF Advance, AdvanceRaises, PumpGoes, TypeOK, IdlePump
            <6>3. Ask(p) => pump'[p].pc = "get"
              BY <2>t DEF Ask, PumpGoes, TypeOK, PumpState
            <6>4. CommitRow(p) \/ ScheduleFails(p) => pump'[p].pc = "advance"
              BY <2>t DEF CommitRow, ScheduleFails, PumpGoes, TypeOK, PumpState
            <6> QED BY <1>1, <6>1, <6>2, <6>3, <6>4 DEF PumpStep
          <5> QED BY <2>6, <3>1, <5>1, <5>2
        <4>2. pump[q].revision \in Revisions
          BY <2>6, <4>1, FeedAssumption DEF TypeOK, Revisions
        <4> QED BY <2>6, <4>1, <4>2, RowsStay DEF PassInv
      <3>2. CASE q = p /\ GetRow(p)
        <4>1. pump'[q].revision = pump[p].revision /\ pump'[q].seen = delivery[pump[p].revision]
          BY <2>t, <3>2 DEF GetRow, PumpGoes, TypeOK, PumpState
        <4> QED BY <2>6, <2>t, <3>2, <4>1, RowsStay DEF GetRow
      <3> QED BY <3>1, <3>2
    <2> QED BY <2>5, <2>6 DEF PassInv
  \* A step in which pumps stop, or do nothing.
  <1>2. ASSUME UNCHANGED offset, failures' \in {failures, failures + 1},
               \A q \in Publishers : pump'[q] = pump[q] \/ pump'[q] = IdlePump
        PROVE  PassInv'
    <2>1. IdlePump.pc = "idle"
      BY DEF IdlePump
    <2>2. \A r \in Revisions : Passed(r)' => Passed(r)
      BY <1>2, <2>1 DEF Passed
    <2>3. Unscheduled' \subseteq Unscheduled
      BY <2>2, RowsStay DEF Unscheduled
    <2>4. ASSUME NEW q \in Publishers, pump'[q].pc = "commit", pump'[q].seen # "none"
          PROVE  delivery'[pump'[q].revision] # "none"
      <3>1. pump'[q] = pump[q]
        BY <1>2, <2>1, <2>4
      <3>2. pump[q].revision \in Revisions
        BY <2>4, <3>1, FeedAssumption DEF TypeOK, Revisions
      <3> QED BY <2>4, <3>1, <3>2, RowsStay DEF PassInv
    <2> QED BY <1>2, <1>f, <2>3, <2>4 DEF PassInv
  <1>3. ASSUME NEW p \in Publishers, NEW more, Restart(p, more) PROVE PassInv'
    BY <1>2, <1>3 DEF Restart, PumpGoes, TypeOK
  <1>4. ASSUME UNCHANGED <<offset, pump>>, Fault \/ UNCHANGED failures PROVE PassInv'
    BY <1>2, <1>4 DEF Fault
  <1> QED BY <1>1, <1>3, <1>4
          DEF Next, LoopStep, Claim, SendAccepted, SendRefused, AnswerLost, MarkPosted, MarkFailed,
              DispatchRaises, Abandoned, Overrun, vars, faults

(* The offset passes a revision that has no row only for a failed call,    *)
(* however many pumps advance it forth and back.                           *)
THEOREM NoneUnscheduled == Spec => []ScheduledBeforePassed
  <1>1. Init => TypeOK /\ PassInv
    BY InitType, InitPass
  <1>2. TypeOK /\ PassInv /\ [Next]_vars => (TypeOK /\ PassInv)'
    BY NextType, NextPass
  <1>3. TypeOK /\ PassInv => ScheduledBeforePassed
    <2> SUFFICES ASSUME TypeOK, PassInv PROVE ScheduledBeforePassed
      OBVIOUS
    <2> DEFINE gap == {r \in 1 .. offset : delivery[r] = "none"}
    <2>1. offset \in 0 .. Last
      BY DEF TypeOK
    <2>2. gap \subseteq Unscheduled /\ Unscheduled \subseteq Revisions
      BY <2>1, FeedAssumption DEF Unscheduled, Passed, Revisions
    <2>3. Cardinality(gap) <= Cardinality(Unscheduled) /\ Cardinality(gap) \in Nat
          /\ Cardinality(Unscheduled) \in Nat
      BY <2>2, CountedSets
    <2>4. failures \in Nat /\ Cardinality(Unscheduled) <= failures
      BY BoundsAssumption DEF TypeOK, PassInv
    <2> HIDE DEF gap
    <2>5. Cardinality(gap) <= failures
      BY <2>3, <2>4
    <2> QED BY <2>5 DEF ScheduledBeforePassed, gap
  <1> QED BY <1>1, <1>2, <1>3, PTL DEF Spec

-----------------------------------------------------------------------------
(* Messages.                                                               *)

(* The publishers that may still send the row of r, and whether it may be  *)
(* claimed, now or once its lease has grown old.                           *)
Owing(r) ==
  {p \in Publishers : r \in loop[p].rows /\ ~(loop[p].pc = "posted" /\ loop[p].current = r)}
Open(r) ==
  \/ delivery[r] \in {"none", "pending", "failed"}
  \/ delivery[r] = "sending" /\ (r \in old \/ ~Leased(r))
Offers(r) == IF Open(r) THEN 1 ELSE 0

(* Messages sent and to be sent are one, plus one for each fault.          *)
Faults == crashes + overruns + failures
Balanced(r) ==
  /\ IsFiniteSet(Owing(r))
  /\ posts[r] + Cardinality(Owing(r)) + Offers(r) <= 1 + Faults
PostInv == \A r \in Revisions : Balanced(r)

(* The moves of the balance, of n messages, debtors S, i offers and k      *)
(* faults: something is given up or used, perhaps at the price of a fault; *)
(* a claim; a message of one who owed it, or that he still owes since its  *)
(* answer was lost; a debt turned into an offer.                           *)
Settles(n, S, i, k, m, T, j, l) ==
  \/ m = n /\ T \subseteq S /\ (j <= i \/ k + 1 <= l) /\ k <= l
  \/ m = n /\ (\E p : T \subseteq S \cup {p}) /\ i = 1 /\ j = 0 /\ k <= l
  \/ m = n + 1 /\ (\E p \in S : T \subseteq S \ {p}) /\ j <= i /\ k <= l
  \/ m = n + 1 /\ T \subseteq S /\ j <= i /\ k + 1 <= l
  \/ m = n /\ (\E p \in S : T \subseteq S \ {p}) /\ k <= l

LEMMA Balance ==
  ASSUME NEW n \in Nat, NEW S, IsFiniteSet(S), NEW i \in {0, 1}, NEW k \in Nat,
         NEW m \in Nat, NEW T, NEW j \in {0, 1}, NEW l \in Nat,
         n + Cardinality(S) + i <= 1 + k, Settles(n, S, i, k, m, T, j, l)
  PROVE  IsFiniteSet(T) /\ m + Cardinality(T) + j <= 1 + l
  <1>1. Cardinality(S) \in Nat
    BY FS_CardinalityType
  <1>2. CASE T \subseteq S
    <2>1. IsFiniteSet(T) /\ Cardinality(T) <= Cardinality(S)
      BY <1>2, FS_Subset
    <2>2. Cardinality(T) \in Nat
      BY <2>1, FS_CardinalityType
    <2>3. (\E p \in S : T \subseteq S \ {p}) => Cardinality(T) + 1 <= Cardinality(S)
      <3> SUFFICES ASSUME NEW p \in S, T \subseteq S \ {p} PROVE Cardinality(T) + 1 <= Cardinality(S)
        OBVIOUS
      <3>1. IsFiniteSet(S \ {p}) /\ Cardinality(S \ {p}) = Cardinality(S) - 1
        BY FS_RemoveElement
      <3>2. Cardinality(T) <= Cardinality(S \ {p})
        BY <3>1, FS_Subset
      <3> QED BY <1>1, <2>2, <3>1, <3>2
    <2>4. m + Cardinality(T) + j <= 1 + l
      BY <1>1, <1>2, <2>1, <2>2, <2>3 DEF Settles
    <2> QED BY <2>1, <2>4
  <1>3. CASE m = n /\ (\E p : T \subseteq S \cup {p}) /\ i = 1 /\ j = 0 /\ k <= l
    <2>1. PICK p : T \subseteq S \cup {p}
      BY <1>3
    <2>2. /\ IsFiniteSet(S \cup {p})
          /\ Cardinality(S \cup {p}) = IF p \in S THEN Cardinality(S) ELSE Cardinality(S) + 1
      BY FS_AddElement
    <2>3. IsFiniteSet(T) /\ Cardinality(T) <= Cardinality(S \cup {p})
      BY <2>1, <2>2, FS_Subset
    <2>4. Cardinality(T) \in Nat
      BY <2>3, FS_CardinalityType
    <2>5. m + Cardinality(T) + j <= 1 + l
      BY <1>1, <1>3, <2>2, <2>3, <2>4
    <2> QED BY <2>3, <2>5
  <1> QED BY <1>2, <1>3 DEF Settles

(* ... of one row in one step.                                             *)
LEMMA BalanceStep ==
  ASSUME TypeOK, TypeOK', NEW r \in Revisions, Balanced(r),
         \/ /\ posts'[r] = posts[r] /\ Owing(r)' \subseteq Owing(r)
            /\ (Open(r)' => Open(r)) \/ Faults + 1 <= Faults'
            /\ Faults <= Faults'
         \/ /\ posts'[r] = posts[r] /\ (\E p : Owing(r)' \subseteq Owing(r) \cup {p})
            /\ Open(r) /\ ~Open(r)' /\ Faults <= Faults'
         \/ /\ posts'[r] = posts[r] + 1 /\ (\E p \in Owing(r) : Owing(r)' \subseteq Owing(r) \ {p})
            /\ Open(r)' => Open(r)
            /\ Faults <= Faults'
         \/ /\ posts'[r] = posts[r] + 1 /\ Owing(r)' \subseteq Owing(r)
            /\ Open(r)' => Open(r)
            /\ Faults + 1 <= Faults'
         \/ /\ posts'[r] = posts[r] /\ (\E p \in Owing(r) : Owing(r)' \subseteq Owing(r) \ {p})
            /\ Faults <= Faults'
  PROVE  Balanced(r)'
  <1>1. posts[r] \in Nat /\ posts'[r] \in Nat
    BY DEF TypeOK
  <1>2. Faults \in Nat /\ Faults' \in Nat
    <2>1. \A a, b, c \in Nat : a + b + c \in Nat
      OBVIOUS
    <2>2. /\ crashes \in Nat /\ overruns \in Nat /\ failures \in Nat
          /\ crashes' \in Nat /\ overruns' \in Nat /\ failures' \in Nat
      BY BoundsAssumption DEF TypeOK
    <2> QED BY <2>1, <2>2 DEF Faults
  <1>3. /\ Offers(r) \in {0, 1} /\ Offers(r)' \in {0, 1}
        /\ (Open(r)' => Open(r)) => Offers(r)' <= Offers(r)
        /\ Open(r) => Offers(r) = 1
        /\ ~Open(r)' => Offers(r)' = 0
    BY DEF Offers
  <1>4. IsFiniteSet(Owing(r)) /\ posts[r] + Cardinality(Owing(r)) + Offers(r) <= 1 + Faults
    BY DEF Balanced
  <1> DEFINE n == posts[r]
             m == posts'[r]
             S == Owing(r)
             T == Owing(r)'
             i == Offers(r)
             j == Offers(r)'
             k == Faults
             l == Faults'
  <1>5. Settles(n, S, i, k, m, T, j, l)
    BY <1>3 DEF Settles
  <1> HIDE DEF n, m, S, T, i, j, k, l
  <1>6. /\ n \in Nat /\ m \in Nat /\ i \in {0, 1} /\ j \in {0, 1} /\ k \in Nat /\ l \in Nat
        /\ IsFiniteSet(S) /\ n + Cardinality(S) + i <= 1 + k
    BY <1>1, <1>2, <1>3, <1>4 DEF n, m, S, i, j, k, l
  <1>7. IsFiniteSet(T) /\ m + Cardinality(T) + j <= 1 + l
    BY <1>5, <1>6, Balance
  <1> QED BY <1>7 DEF Balanced, m, T, j, l

LEMMA FaultsCount ==
  ASSUME TypeOK
  PROVE  /\ UNCHANGED faults => Faults <= Faults'
         /\ Fault => Faults + 1 <= Faults' /\ Faults <= Faults'
         /\ \A p, more : Restart(p, more) => Faults + 1 <= Faults' /\ Faults <= Faults'
         /\ \A r : Overrun(r) => Faults + 1 <= Faults' /\ Faults <= Faults'
  <1>1. crashes \in Nat /\ overruns \in Nat /\ failures \in Nat
    BY BoundsAssumption DEF TypeOK
  <1>2. UNCHANGED faults => Faults' = Faults
    BY DEF faults, Faults
  <1>3. Fault => Faults' = crashes + overruns + (failures + 1)
    BY DEF Fault, Faults
  <1>4. \A p, more : Restart(p, more) => Faults' = (crashes + 1) + overruns + failures
    BY DEF Restart, Faults
  <1>5. \A r : Overrun(r) => Faults' = crashes + (overruns + 1) + failures
    BY DEF Overrun, Faults
  <1> HIDE DEF Fault, Restart, Overrun
  <1>6. /\ Faults <= Faults
        /\ Faults + 1 <= crashes + overruns + (failures + 1)
        /\ Faults + 1 <= (crashes + 1) + overruns + failures
        /\ Faults + 1 <= crashes + (overruns + 1) + failures
        /\ Faults \in Nat
    BY <1>1 DEF Faults
  <1>7. \A n \in Nat, m \in Nat : n + 1 <= m => n <= m
    OBVIOUS
  <1>8. /\ crashes + overruns + (failures + 1) \in Nat
        /\ (crashes + 1) + overruns + failures \in Nat
        /\ crashes + (overruns + 1) + failures \in Nat
    BY <1>1
  <1> QED BY <1>2, <1>3, <1>4, <1>5, <1>6, <1>7, <1>8

(* A row in nobody's new hands: its balance rests.                         *)
LEMMA Rests ==
  ASSUME TypeOK, TypeOK', NEW r \in Revisions, Balanced(r), posts'[r] = posts[r],
         Owing(r)' \subseteq Owing(r), Faults <= Faults',
         (Open(r)' => Open(r)) \/ Faults + 1 <= Faults'
  PROVE  Balanced(r)'
  BY BalanceStep

LEMMA PumpBalance ==
  ASSUME TypeOK, TypeOK', NEW p \in Publishers,
         PumpStep(p) \/ ScheduleFails(p) \/ AdvanceRaises(p),
         NEW r \in Revisions, Balanced(r)
  PROVE  Balanced(r)'
  <1>1. UNCHANGED <<posts, loop>> /\ (UNCHANGED faults \/ Fault)
    BY DEF PumpStep, ScheduleFails, AdvanceRaises, Consider, Ask, GetRow, CommitRow, Advance
  <1>2. Owing(r)' = Owing(r) /\ Leased(r)' = Leased(r)
    BY <1>1 DEF Owing, Leased
  <1>3. CASE CommitRow(p)
    <2>1. /\ old' \subseteq old
          /\ delivery'[r] # delivery[r] => delivery[r] = "none" \/ delivery'[r] = "skipped"
      BY <1>3 DEF CommitRow, TypeOK
    <2>2. Open(r)' => Open(r)
      BY <1>2, <2>1 DEF Open
    <2> QED BY <1>1, <1>2, <2>2, Rests, FaultsCount
  <1>4. CASE UNCHANGED <<delivery, old>>
    <2>1. Open(r)' = Open(r)
      BY <1>2, <1>4 DEF Open
    <2> QED BY <1>1, <1>2, <2>1, Rests, FaultsCount
  <1> QED BY <1>3, <1>4 DEF PumpStep, ScheduleFails, AdvanceRaises, Consider, Ask, GetRow, Advance

LEMMA ClaimBalance ==
  ASSUME TypeOK, TypeOK', NEW p \in Publishers, NEW rows \in SUBSET Revisions, Claim(p, rows),
         NEW r \in Revisions, Balanced(r)
  PROVE  Balanced(r)'
  <1>1. /\ loop[p].rows = {} /\ UNCHANGED <<posts, faults>> /\ rows \subseteq Due \cup Stale
        /\ old' = old \ (rows \cup Stale)
    BY DEF Claim, IdleLoop
  <1>2. \A q \in Publishers : loop'[q] = IF q = p THEN WithRows(rows) ELSE loop[q]
    BY RowsTyped, LoopFrame DEF Claim
  <1>3. delivery'[r] = IF r \in rows THEN "sending" ELSE IF r \in Stale THEN "failed" ELSE delivery[r]
    BY DEF Claim
  <1>4. CASE r \in rows
    <2>1. Open(r)
      BY <1>1, <1>4 DEF Open, Due, Stale
    <2>2. ~Open(r)'
      <3>1. r \in loop'[p].rows
        BY <1>2, <1>4, RowsTyped
      <3> QED BY <1>1, <1>3, <1>4, <3>1 DEF Open, Leased
    <2>3. Owing(r)' \subseteq Owing(r) \cup {p}
      BY <1>2 DEF Owing
    <2> QED BY <1>1, <2>1, <2>2, <2>3, BalanceStep, FaultsCount
  <1>5. CASE r \notin rows
    <2>1. Owing(r)' \subseteq Owing(r) /\ (Leased(r) => Leased(r)')
      BY <1>1, <1>2, <1>5, RowsTyped DEF Owing, Leased
    <2>2. Open(r)' => Open(r)
      BY <1>1, <1>3, <1>5, <2>1 DEF Open, Stale
    <2> QED BY <1>1, <2>1, <2>2, Rests, FaultsCount
  <1> QED BY <1>4, <1>5

LEMMA SendBalance ==
  ASSUME TypeOK, TypeOK', NEW p \in Publishers, NEW x \in Revisions,
         SendAccepted(p, x) \/ SendRefused(p, x) \/ AnswerLost(p, x),
         NEW r \in Revisions, Balanced(r)
  PROVE  Balanced(r)'
  <1>1. UNCHANGED <<delivery, old>> /\ (UNCHANGED faults \/ Fault) /\ p \in Owing(x)
    BY DEF SendAccepted, SendRefused, AnswerLost, Owing
  <1>2. PICK c \in {"posted", "refused"} : LoopGoes(p, [loop[p] EXCEPT !.pc = c, !.current = x])
    BY DEF SendAccepted, SendRefused, AnswerLost
  <1>3. /\ \A q \in Publishers : loop'[q].rows = loop[q].rows
        /\ \A q \in Publishers \ {p} : loop'[q] = loop[q]
        /\ loop'[p].current = x /\ loop[p].pc = "send" /\ loop'[p].pc = c
    BY <1>2, LoopTyped DEF LoopGoes, TypeOK, LoopState, SendAccepted, SendRefused, AnswerLost
  <1>4. Open(r)' = Open(r)
    BY <1>1, <1>3 DEF Open, Leased
  <1>5. Owing(r)' \subseteq Owing(r)
    BY <1>3 DEF Owing
  <1>6. CASE SendAccepted(p, x)
    <2>1. posts'[r] = (IF r = x THEN posts[r] + 1 ELSE posts[r]) /\ UNCHANGED faults
      BY <1>6 DEF SendAccepted, TypeOK
    <2>2. loop'[p].pc = "posted"
      BY <1>6, LoopTyped DEF SendAccepted, LoopGoes, TypeOK, LoopState
    <2>3. Owing(x)' \subseteq Owing(x) \ {p}
      BY <1>3, <2>2 DEF Owing
    <2>4. r = x => Balanced(r)'
      BY <1>1, <1>4, <2>1, <2>3, BalanceStep, FaultsCount
    <2>5. r # x => Balanced(r)'
      BY <1>4, <1>5, <2>1, Rests, FaultsCount
    <2> QED BY <2>4, <2>5
  <1>7. CASE SendRefused(p, x)
    BY <1>1, <1>4, <1>5, <1>7, Rests, FaultsCount DEF SendRefused
  <1>8. CASE AnswerLost(p, x)
    <2>1. posts'[r] = (IF r = x THEN posts[r] + 1 ELSE posts[r]) /\ Fault
      BY <1>8 DEF AnswerLost, TypeOK
    <2>2. r = x => Balanced(r)'
      BY <1>4, <1>5, <2>1, BalanceStep, FaultsCount
    <2>3. r # x => Balanced(r)'
      BY <1>4, <1>5, <2>1, Rests, FaultsCount
    <2> QED BY <2>2, <2>3
  <1> QED BY <1>6, <1>7, <1>8

LEMMA MarkBalance ==
  ASSUME TypeOK, TypeOK', LeaseInv, NEW p \in Publishers, MarkPosted(p) \/ MarkFailed(p),
         NEW r \in Revisions, Balanced(r)
  PROVE  Balanced(r)'
  <1> DEFINE c == loop[p].current
  <1>1. UNCHANGED <<posts, faults>> /\ old' = old \ {c} /\ c \in loop[p].rows
    BY DEF MarkPosted, MarkFailed, LeaseInv
  <1>2. loop[p].rows \ {c} \in SUBSET Revisions
    BY LoopTyped DEF LoopState
  <1>3. \A q \in Publishers : loop'[q] = IF q = p THEN WithRows(loop[p].rows \ {c}) ELSE loop[q]
    BY <1>2, RowsTyped, LoopFrame DEF MarkPosted, MarkFailed
  <1>4. r # c => delivery'[r] = delivery[r]
    BY DEF MarkPosted, MarkFailed, TypeOK
  <1>5. Owing(r)' \subseteq Owing(r) /\ (r = c => p \notin Owing(r)')
    BY <1>2, <1>3, RowsTyped DEF Owing
  <1>6. CASE r # c
    <2>1. Leased(r) => Leased(r)'
      BY <1>2, <1>3, <1>6, RowsTyped DEF Leased
    <2>2. Open(r)' => Open(r)
      BY <1>1, <1>4, <1>6, <2>1 DEF Open
    <2> QED BY <1>1, <1>5, <2>2, Rests, FaultsCount
  <1>7. CASE r = c /\ MarkPosted(p)
    <2>1. ~Open(r)'
      BY <1>7 DEF MarkPosted, TypeOK, Open
    <2> QED BY <1>1, <1>5, <2>1, Rests, FaultsCount
  <1>8. CASE r = c /\ MarkFailed(p)
    <2>1. p \in Owing(r)
      BY <1>1, <1>8 DEF MarkFailed, Owing
    <2>2. Owing(r)' \subseteq Owing(r) \ {p}
      BY <1>5, <1>8
    <2> QED BY <1>1, <2>1, <2>2, BalanceStep, FaultsCount
  <1> QED BY <1>6, <1>7, <1>8

LEMMA InitPost == Init => PostInv
  <1> SUFFICES ASSUME Init, NEW r \in Revisions PROVE Balanced(r)
    BY DEF PostInv
  <1>1. Owing(r) = {}
    BY DEF Init, Owing, IdleLoop
  <1>2. posts[r] = 0 /\ Faults = 0 /\ Offers(r) \in {0, 1}
    BY DEF Init, Faults, Offers
  <1> QED BY <1>1, <1>2, FS_EmptySet DEF Balanced

LEMMA NextPost ==
  TypeOK /\ TypeOK' /\ LeaseInv /\ PostInv /\ [Next]_vars => PostInv'
  <1> SUFFICES ASSUME TypeOK, TypeOK', LeaseInv, [Next]_vars, NEW r \in Revisions, Balanced(r)
               PROVE  Balanced(r)'
    BY DEF PostInv
  <1>1. ASSUME NEW p \in Publishers, DispatchRaises(p) \/ \E more : Restart(p, more)
        PROVE  Balanced(r)'
    <2>1. Faults + 1 <= Faults' /\ Faults <= Faults' /\ UNCHANGED posts
      BY <1>1, FaultsCount DEF DispatchRaises, Restart
    <2>2. \A q \in Publishers : loop'[q] = IF q = p THEN IdleLoop ELSE loop[q]
      BY <1>1, IdleTyped, LoopFrame DEF DispatchRaises, Restart
    <2>3. Owing(r)' \subseteq Owing(r)
      BY <2>2 DEF Owing, IdleLoop
    <2> QED BY <2>1, <2>3, Rests
  <1>2. ASSUME NEW x \in Revisions, Abandoned(x) PROVE Balanced(r)'
    <2>1. /\ UNCHANGED <<posts, delivery, loop, faults>> /\ old' = old \cup {x}
          /\ ~Leased(x)
      BY <1>2 DEF Abandoned
    <2>2. Owing(r)' = Owing(r) /\ Leased(r)' = Leased(r)
      BY <2>1 DEF Owing, Leased
    <2>3. Open(r)' => Open(r)
      BY <2>1, <2>2 DEF Open
    <2> QED BY <2>1, <2>2, <2>3, Rests, FaultsCount
  <1>3. ASSUME NEW x \in Revisions, Overrun(x) PROVE Balanced(r)'
    <2>1. UNCHANGED <<posts, loop>>
      BY <1>3 DEF Overrun
    <2>2. Owing(r)' = Owing(r)
      BY <2>1 DEF Owing
    <2> QED BY <1>3, <2>1, <2>2, Rests, FaultsCount
  <1>4. CASE UNCHANGED vars
    <2>1. UNCHANGED <<posts, delivery, old, loop, faults>>
      BY <1>4 DEF vars
    <2>2. Owing(r)' = Owing(r) /\ Open(r)' = Open(r)
      BY <2>1 DEF Owing, Open, Leased
    <2> QED BY <2>1, <2>2, Rests, FaultsCount
  <1> QED BY <1>1, <1>2, <1>3, <1>4, PumpBalance, ClaimBalance, SendBalance, MarkBalance
          DEF Next, LoopStep

(* Every message beyond a revision's first has a restart, a lease that     *)
(* ended early or a failed call behind it, each of which pays for one      *)
(* message of it: for any number of publishers and any interleaving.       *)
THEOREM RepeatsArePaid == Spec => []RepeatsAreFaults
  <1> DEFINE Inv == TypeOK /\ LeaseInv /\ OneSender /\ PostInv
  <1>1. Init => Inv
    BY InitType, InitLease, InitPost
  <1>2. Inv /\ [Next]_vars => Inv'
    BY NextType, NextLease, NextPost
  <1>3. Inv => RepeatsAreFaults
    <2> SUFFICES ASSUME TypeOK, NEW r \in Revisions, Balanced(r)
                 PROVE  posts[r] <= 1 + crashes + overruns + failures
      BY DEF RepeatsAreFaults, PostInv
    <2>1. /\ posts[r] \in Nat /\ Cardinality(Owing(r)) \in Nat /\ Offers(r) \in Nat
          /\ crashes \in Nat /\ overruns \in Nat /\ failures \in Nat
      BY BoundsAssumption, FS_CardinalityType DEF TypeOK, Balanced, Offers
    <2>2. posts[r] + Cardinality(Owing(r)) + Offers(r) <= 1 + (crashes + overruns + failures)
      BY DEF Balanced, Faults
    <2> HIDE DEF Balanced
    <2> QED BY <2>1, <2>2
  <1> QED BY <1>1, <1>2, <1>3, PTL DEF Spec
=============================================================================
