--------------------------- MODULE PredictionBook ---------------------------
(***************************************************************************)
(* PredictionMarketPaperService: bets on prediction markets, on paper.     *)
(* The trader's command loop drafts, confirms, cancels, closes and settles *)
(* bets, one command at a time; nothing is kept in memory, and a command   *)
(* commits the account, the position, the fill and the draft one after the *)
(* other.  A portfolio request runs in another process: it lists the open  *)
(* positions, awaits a quote for each and writes the listed row back.      *)
(* One account; every bet has a stake of one.                              *)
(***************************************************************************)
EXTENDS Integers, FiniteSets

CONSTANTS
  Drafts,          \* ids that drafts may get
  Markets,         \* market outcomes
  MarketOf,        \* the market outcome a draft bets on
  NoDraft,         \* no draft
  InitialCash,     \* prediction_market_paper_initial_cash_usd, in stakes
  Views,           \* portfolio requests that may run at the same time
  MaxPositions,    \* bound: positions ever opened
  MaxInterrupts,   \* bound: commands cut short by a restart or an error
  MaxViews         \* bound: portfolio requests

ASSUME DraftsAssumption == NoDraft \notin Drafts
                           /\ MarketOf \in [Drafts -> Markets]
ASSUME CashAssumption == InitialCash \in Nat
ASSUME BoundsAssumption == /\ MaxPositions \in Nat
                           /\ MaxInterrupts \in Nat
                           /\ MaxViews \in Nat

Positions == 1 .. MaxPositions
DraftStatus == {"none", "new", "confirmed", "cancelled", "expired"}
PositionStatus == {"none", "open", "closed", "settled"}

(* What a bet is worth when it is closed or settled: nothing or a gain.    *)
Proceeds == {0, 2}

VARIABLES
  draft, position,   \* the status of the rows
  draftOf,           \* position.draft_id
  settled,           \* markets with a settlement row
  cash,              \* account.cash_usd
  staked, paid,      \* account commits for a draft, and for a position's end
  opened, ended,     \* fill rows of an opening, and how many of an end
  ledger,            \* the sum of cash_delta_usd of the fills
  loop,              \* the command loop
  view,              \* what each portfolio request has listed and not marked
  reopened,          \* writes of a request that opened a position again
  interrupts, viewed

rows == <<draft, position, draftOf, settled>>
money == <<cash, staked, paid>>
fills == <<opened, ended, ledger>>
requests == <<view, reopened, viewed>>
vars == <<rows, money, fills, loop, requests, interrupts>>

Loop == [pc : {"idle", "take", "open", "fill", "confirm", "settle", "list",
               "pay", "update", "record"},
         draft : Drafts \cup {NoDraft},
         pos : Positions \cup {0},
         end : {"closed", "settled"},
         won : Proceeds,
         market : SUBSET Markets,       \* the one being settled
         todo : SUBSET Positions,       \* listed, and still to be settled
         work : SUBSET Markets]         \* to be settled after this one

Idle == [pc |-> "idle", draft |-> NoDraft, pos |-> 0, end |-> "closed",
         won |-> 0, market |-> {}, todo |-> {}, work |-> {}]

Init ==
  /\ draft = [d \in Drafts |-> "none"]
  /\ position = [p \in Positions |-> "none"]
  /\ draftOf = [p \in Positions |-> NoDraft]
  /\ settled = {} /\ cash = InitialCash
  /\ staked = [d \in Drafts |-> 0] /\ paid = [p \in Positions |-> 0]
  /\ opened = {} /\ ended = [p \in Positions |-> 0] /\ ledger = 0
  /\ loop = Idle
  /\ view = [v \in Views |-> {}]
  /\ reopened = [p \in Positions |-> 0]
  /\ interrupts = 0 /\ viewed = 0

At(pc) == loop.pc = pc
Open == {p \in Positions : position[p] = "open"}

-----------------------------------------------------------------------------
(* Drafts.                                                                 *)

DraftBet(d) ==
  /\ At("idle") /\ draft[d] = "none"
  /\ draft' = [draft EXCEPT ![d] = "new"]
  /\ UNCHANGED <<position, draftOf, settled, money, fills, loop, requests,
                 interrupts>>

(* A wrong status literal.                                                 *)
CancelDraftMisspelt(d) ==
  /\ At("idle") /\ draft[d] = "new"
  /\ draft' = [draft EXCEPT ![d] = "canceled"]
  /\ UNCHANGED <<position, draftOf, settled, money, fills, loop, requests,
                 interrupts>>

CancelDraft(d) ==
  /\ At("idle") /\ draft[d] = "new"
  /\ draft' = [draft EXCEPT ![d] = "cancelled"]
  /\ UNCHANGED <<position, draftOf, settled, money, fills, loop, requests,
                 interrupts>>

(* Without the check of the draft's status.                                *)
ConfirmDraftAnyway(d) ==
  /\ At("idle") /\ draft[d] # "none" /\ cash >= 1
  /\ loop' = [Idle EXCEPT !.pc = "take", !.draft = d]
  /\ UNCHANGED <<rows, money, fills, requests, interrupts>>

(* confirm_draft up to its first commit: an expired draft is marked so,    *)
(* and one the cash does not cover is refused.                             *)
ConfirmDraft(d) ==
  /\ At("idle") /\ draft[d] = "new"
  /\ \/ /\ draft' = [draft EXCEPT ![d] = "expired"]
        /\ UNCHANGED <<position, draftOf, settled, loop>>
     \/ /\ cash >= 1
        /\ loop' = [Idle EXCEPT !.pc = "take", !.draft = d]
        /\ UNCHANGED rows
  /\ UNCHANGED <<money, fills, requests, interrupts>>

(* update_prediction_market_paper_account with the cash that was read: the *)
(* loop is the only writer of the account.                                 *)
TakeStake ==
  /\ At("take")
  /\ cash' = cash - 1
  /\ staked' = [staked EXCEPT ![loop.draft] = @ + 1]
  /\ loop' = [loop EXCEPT !.pc = "open"]
  /\ UNCHANGED <<rows, paid, fills, requests, interrupts>>

OpenPosition ==
  \E p \in Positions :
    /\ At("open")
    /\ position[p] = "none" /\ \A q \in 1 .. p - 1 : position[q] # "none"
    /\ position' = [position EXCEPT ![p] = "open"]
    /\ draftOf' = [draftOf EXCEPT ![p] = loop.draft]
    /\ loop' = [loop EXCEPT !.pc = "fill", !.pos = p]
    /\ UNCHANGED <<draft, settled, money, fills, requests, interrupts>>

FillOpening ==
  /\ At("fill")
  /\ opened' = opened \cup {loop.pos} /\ ledger' = ledger - 1
  /\ loop' = [loop EXCEPT !.pc = "confirm"]
  /\ UNCHANGED <<rows, money, ended, requests, interrupts>>

MarkConfirmed ==
  /\ At("confirm")
  /\ draft' = [draft EXCEPT ![loop.draft] = "confirmed"]
  /\ loop' = Idle
  /\ UNCHANGED <<position, draftOf, settled, money, fills, requests,
                 interrupts>>

-----------------------------------------------------------------------------
(* Closing and settling.                                                   *)

ClosePosition(p) ==
  /\ At("idle") /\ position[p] = "open"
  /\ loop' = [Idle EXCEPT !.pc = "pay", !.pos = p]
  /\ UNCHANGED <<rows, money, fills, requests, interrupts>>

(* prediction_market_settle names one market, the sweep every market that  *)
(* a provider reports as settled.                                          *)
Settle(ms) ==
  /\ At("idle") /\ ms # {}
  /\ loop' = [Idle EXCEPT !.pc = "settle", !.work = ms]
  /\ UNCHANGED <<rows, money, fills, requests, interrupts>>

RecordSettlement ==
  \E m \in loop.work :
    /\ At("settle")
    /\ settled' = settled \cup {m}
    /\ loop' = [loop EXCEPT !.pc = "list", !.market = {m}, !.work = @ \ {m}]
    /\ UNCHANGED <<draft, position, draftOf, money, fills, requests,
                   interrupts>>

(* The next of the listed positions, else the next market, else the end of *)
(* the command.                                                            *)
Onward(todo) ==
  IF todo = {}
  THEN IF loop.work = {} THEN {Idle}
       ELSE {[Idle EXCEPT !.pc = "settle", !.work = loop.work]}
  ELSE {[loop EXCEPT !.pc = "pay", !.pos = p, !.end = "settled", !.won = 0,
                     !.todo = todo \ {p}] : p \in todo}

(* Without the filter on the position's status.                            *)
ListPositionsAll ==
  /\ At("list")
  /\ loop' \in Onward({p \in Positions :
                         /\ position[p] # "none"
                         /\ MarketOf[draftOf[p]] \in loop.market})
  /\ UNCHANGED <<rows, money, fills, requests, interrupts>>

ListPositions ==
  /\ At("list")
  /\ loop' \in Onward({p \in Open : MarketOf[draftOf[p]] \in loop.market})
  /\ UNCHANGED <<rows, money, fills, requests, interrupts>>

(* The position is written before the account.                             *)
PayAfterwards ==
  /\ At("pay")
  /\ position' = [position EXCEPT ![loop.pos] = loop.end]
  /\ loop' = [loop EXCEPT !.pc = "update"]
  /\ UNCHANGED <<draft, draftOf, settled, money, fills, requests, interrupts>>

Pay ==
  \E won \in Proceeds :
    /\ At("pay")
    /\ cash' = cash + won
    /\ paid' = [paid EXCEPT ![loop.pos] = @ + 1]
    /\ loop' = [loop EXCEPT !.pc = "update", !.won = won]
    /\ UNCHANGED <<rows, staked, fills, requests, interrupts>>

UpdatePosition ==
  /\ At("update")
  /\ position' = [position EXCEPT ![loop.pos] = loop.end]
  /\ loop' = [loop EXCEPT !.pc = "record"]
  /\ UNCHANGED <<draft, draftOf, settled, money, fills, requests, interrupts>>

FillEnd ==
  /\ At("record")
  /\ ended' = [ended EXCEPT ![loop.pos] = @ + 1]
  /\ ledger' = ledger + loop.won
  /\ loop' \in IF loop.end = "closed" THEN {Idle} ELSE Onward(loop.todo)
  /\ UNCHANGED <<rows, money, opened, requests, interrupts>>

(* A restart of the trader, or a call that raises.  The command is claimed *)
(* again, or retried: it is one more command.                              *)
Interrupt ==
  /\ ~At("idle") /\ interrupts < MaxInterrupts
  /\ interrupts' = interrupts + 1
  /\ loop' = Idle
  /\ UNCHANGED <<rows, money, fills, requests>>

-----------------------------------------------------------------------------
(* portfolio, in another process.                                          *)

ListView(v) ==
  /\ view[v] = {} /\ viewed < MaxViews
  /\ view' = [view EXCEPT ![v] = Open]
  /\ viewed' = viewed + 1
  /\ UNCHANGED <<rows, money, fills, loop, reopened, interrupts>>

(* _marked_position: without a quote nothing is written, otherwise every   *)
(* field of the listed row is.                                             *)
MarkPosition(v) ==
  \E p \in view[v] :
    /\ view' = [view EXCEPT ![v] = @ \ {p}]
    /\ \/ UNCHANGED <<position, reopened>>
       \/ /\ position' = [position EXCEPT ![p] = "open"]
          /\ reopened' = IF position[p] = "open" THEN reopened
                         ELSE [reopened EXCEPT ![p] = @ + 1]
    /\ UNCHANGED <<draft, draftOf, settled, money, fills, loop, viewed,
                   interrupts>>

Command ==
  \/ \E d \in Drafts : DraftBet(d) \/ ConfirmDraft(d) \/ CancelDraft(d)
  \/ \E p \in Positions : ClosePosition(p)
  \/ \E ms \in SUBSET Markets : Settle(ms)

Step ==
  \/ TakeStake \/ OpenPosition \/ FillOpening \/ MarkConfirmed
  \/ RecordSettlement \/ ListPositions
  \/ Pay \/ UpdatePosition \/ FillEnd

Next ==
  \/ Command \/ Step \/ Interrupt
  \/ \E v \in Views : ListView(v) \/ MarkPosition(v)

Spec == Init /\ [][Next]_vars

-----------------------------------------------------------------------------
(* The tables, the account and the loop have the shape of their records.   *)
TypeOK ==
  /\ draft \in [Drafts -> DraftStatus]
  /\ position \in [Positions -> PositionStatus]
  /\ draftOf \in [Positions -> Drafts \cup {NoDraft}]
  /\ settled \subseteq Markets
  /\ cash \in Int /\ ledger \in Int
  /\ staked \in [Drafts -> Nat]
  /\ paid \in [Positions -> Nat] /\ ended \in [Positions -> Nat]
  /\ opened \subseteq Positions
  /\ loop \in Loop
  /\ view \in [Views -> SUBSET Positions]
  /\ reopened \in [Positions -> Nat]
  /\ interrupts \in 0 .. MaxInterrupts /\ viewed \in 0 .. MaxViews

(* What a function of naturals counts, and how much it counts in all.      *)
Units(f) == UNION {{x} \X (1 .. f[x]) : x \in DOMAIN f}
Sum(f) == Cardinality(Units(f))
PositionsOf(d) == {p \in Positions : draftOf[p] = d}

(* A bet is paid out once for each time its position was opened, by its    *)
(* confirmation or by a portfolio request that wrote a stale row over a    *)
(* closed one, and once more for each command that was cut short: nothing  *)
(* else pays twice, neither a repeated close nor a settlement and a sweep. *)
PaidPerOpening ==
  Sum([p \in Positions |-> IF paid[p] > 1 + reopened[p]
                           THEN paid[p] - 1 - reopened[p] ELSE 0])
    <= interrupts

(* A draft makes one position; the confirmation that is cut short before   *)
(* it marks the draft, and starts again, makes one more.                   *)
OnePositionPerDraft ==
  Sum([d \in Drafts |-> IF PositionsOf(d) = {} THEN 0
                        ELSE Cardinality(PositionsOf(d)) - 1]) <= interrupts

(* No position without its stake, and none closed or settled before it was *)
(* paid.                                                                   *)
MoneyMovesFirst ==
  /\ \A d \in Drafts : Cardinality(PositionsOf(d)) <= staked[d]
  /\ \A p \in Positions :
       position[p] \in {"closed", "settled"} => paid[p] >= 1

(* Every movement of the account has its fill, but for one of each command *)
(* that was cut short and of the one that is running.                      *)
FillsFollow ==
  LET moves == Sum(staked) + Sum(paid)
      recorded == Cardinality(opened) + Sum(ended)
  IN /\ recorded <= moves
     /\ moves - recorded <= interrupts + (IF At("idle") THEN 0 ELSE 1)

(* Wherever a command is cut short, the money has moved before the         *)
(* position and the position before the fill, and nothing else is missing; *)
(* as long as none was, the cash is what the fills add up to.              *)
MoneyRecorded ==
  /\ MoneyMovesFirst /\ FillsFollow
  /\ At("idle") /\ interrupts = 0 => cash = InitialCash + ledger
=============================================================================
