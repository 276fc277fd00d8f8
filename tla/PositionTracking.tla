-------------------------- MODULE PositionTracking --------------------------
(***************************************************************************)
(* PositionTrackingService: alerts for the price levels of one tracked     *)
(* position.  The tracker is a row of the database and, in the process     *)
(* that watches prices, a copy in memory.  Four activities share them and  *)
(* lock neither across an await: the price callback, which works on the    *)
(* copy it found and puts it back; the reload loop and the reload after a  *)
(* command in the Discord thread, which replace the copy by rows they read *)
(* earlier; and auto_arm.  The trader worker, another process, writes the  *)
(* row alone.  Levels are crossed downwards; a tracker's coin, its levels' *)
(* wording and position_tracking_max_active are left out.                  *)
(***************************************************************************)
EXTENDS Integers, FiniteSets

CONSTANTS
  Levels,        \* the levels of the tracker
  PriceOf,       \* the price of each
  Terminal,      \* those that complete the tracker
  Rearmable,     \* those with metadata allow_rearm
  MaxPrice,      \* bound: prices are 0 .. MaxPrice
  ArmPrices,     \* the prices that a plan may be armed at
  MaxCommands,   \* bound: commands of the thread and of the trader worker
  MaxFaults,     \* bound: restarts, and database calls or alerts that fail
  MaxEvents      \* bound: prices, commands and faults together

ASSUME LevelsAssumption == /\ PriceOf \in [Levels -> Nat]
                           /\ ArmPrices \subseteq -1 .. MaxPrice
                           /\ Terminal \subseteq Levels
                           /\ Rearmable \subseteq Levels \ Terminal
ASSUME BoundsAssumption == /\ MaxPrice \in Nat /\ MaxEvents \in Nat
                           /\ MaxCommands \in Nat /\ MaxFaults \in Nat

Prices == 0 .. MaxPrice

(* A plan may have no price: like one beyond every level it is above none. *)
NoPrice == -1
Quotes == {NoPrice} \cup Prices
Live == {"pending", "active"}
Off == {"paused", "completed", "expired", "stopped"}
Status == {"none"} \cup Live \cup Off
TargetOf == [stop |-> "stopped", pause |-> "paused", resume |-> "active"]

VARIABLES
  row,         \* the rows of the tracker and its levels
  memory,      \* self._trackers
  seen,        \* the tracker is in self._seen_price
  armer,       \* where auto_arm stands
  quote,       \* the price in the plan it stored, until that is in memory
  proc,        \* where the price callback stands
  reload,      \* where each reload stands
  alerts,      \* history: alerts sent for each level
  rearms,      \* history: how often each was armed again
  stale,       \* history: copies installed that the row had moved on from
  resumed,     \* history: a command resumed the tracker
  owed,        \* history: levels that a committed price hit, to be alerted
  prices, commands, faults

history == <<alerts, rearms, stale, resumed, owed>>
vars == <<row, memory, seen, armer, quote, proc, reload, history, prices,
          commands, faults>>

(* A copy is of a tracker that is pending or active: no other is loaded.   *)
Copy == [here : BOOLEAN, price : Quotes, armed : SUBSET Levels]
NoCopy == [here |-> FALSE, price |-> NoPrice, armed |-> {}]
CopyOf(r) == [here |-> TRUE, price |-> r.price, armed |-> r.armed]
Row == [status : Status, price : Quotes, armed : SUBSET Levels]
Armed(at) == [status |-> "pending", price |-> at, armed |-> Levels]

Processing == [pc : {"idle", "write", "levels", "alerted", "complete"},
               to : Prices,              \* the new price
               pending : BOOLEAN,        \* the row was loaded as pending
               armed : SUBSET Levels,    \* the levels to be put back as armed
               hits : SUBSET Levels,
               todo : SUBSET Levels,     \* still to be alerted or armed again
               told : SUBSET Levels]     \* alerted, its row not yet disarmed
Waiting == [pc |-> "idle", to |-> 0, pending |-> FALSE, armed |-> {},
            hits |-> {}, todo |-> {}, told |-> {}]
Completing == [Waiting EXCEPT !.pc = "complete"]

Reloaders == {"loop", "thread"}
Reloading == [pc : {"idle", "set", "start", "levels", "expire", "swap"},
              copy : Copy,
              action : {"", "stop", "pause", "resume", "set_ttl"}]
Resting == [pc |-> "idle", copy |-> NoCopy, action |-> ""]

Init ==
  /\ row = [status |-> "none", price |-> NoPrice, armed |-> {}]
  /\ memory = NoCopy /\ seen = FALSE /\ armer = "idle" /\ quote = NoPrice
  /\ proc = Waiting /\ reload = [r \in Reloaders |-> Resting]
  /\ alerts = [l \in Levels |-> 0] /\ rearms = [l \in Levels |-> 0]
  /\ stale = 0 /\ resumed = FALSE /\ owed = {}
  /\ prices = 0 /\ commands = 0 /\ faults = 0

Room == prices + commands + faults < MaxEvents

(* The repository logs what a call raises and returns as if nothing were:  *)
(* the write is lost, or the alert is.                                     *)
Lost == faults < MaxFaults /\ Room /\ faults' = faults + 1
NotLost == UNCHANGED faults

(* A copy goes into memory whose row has been rewritten since it was read. *)
Install(copy) ==
  /\ memory' = copy
  /\ stale' = IF copy # NoCopy /\ (copy.armed # row.armed
                                   \/ copy.price # row.price)
              THEN stale + 1 ELSE stale

-----------------------------------------------------------------------------
(* auto_arm: the row, and after its commit the copy, unless the arming     *)
(* process is not the one that watches prices.  The price may be unknown,  *)
(* and beyond some of the levels.                                          *)

ArmCreate ==
  /\ armer = "idle"
  /\ armer' = "created"
  /\ \E at \in ArmPrices : quote' = at /\ row' = Armed(at)
  /\ UNCHANGED <<memory, seen, proc, reload, history, prices, commands, faults>>

ArmPut ==
  /\ armer = "created"
  /\ armer' = "done" /\ quote' = NoPrice
  /\ \/ Install(CopyOf(Armed(quote)))
     \/ UNCHANGED <<memory, stale>>
  /\ UNCHANGED <<row, seen, proc, reload, alerts, rearms, resumed, owed,
                 prices, commands, faults>>

-----------------------------------------------------------------------------
(* process_price and _process_tracker_price.                               *)

(* The levels that a price crosses on its way below are no longer crossed  *)
(* by one that stops at the level.                                         *)
HitsBelowOnly(copy, to, first) ==
  {l \in copy.armed :
     \/ copy.price > PriceOf[l] /\ PriceOf[l] > to
     \/ first /\ l \in Terminal /\ to <= PriceOf[l]}

(* evaluate_level: a level is hit by a crossing, a terminal one also by a  *)
(* first price that is beyond it already.                                  *)
Hits(copy, to, first) ==
  {l \in copy.armed :
     \/ copy.price > PriceOf[l] /\ PriceOf[l] >= to
     \/ first /\ l \in Terminal /\ to <= PriceOf[l]}

(* A level that may be armed again is, when the price is well above it.    *)
Rearmed(copy, to) == {l \in Rearmable \ copy.armed : to > PriceOf[l]}

(* The callback finds the copy; all that it does follows from the copy and *)
(* the new price.  The row is loaded for the price at the same time: only  *)
(* its status matters, and only until the next commit of it.               *)
PriceArrives(to) ==
  LET hits == Hits(memory, to, ~seen)
      back == Rearmed(memory, to)
  IN /\ proc.pc = "idle" /\ memory.here /\ Room
     /\ prices' = prices + 1
     /\ proc' = [pc |-> "write", to |-> to, pending |-> row.status = "pending",
                 armed |-> (memory.armed \ hits) \cup back,
                 hits |-> hits, todo |-> hits \cup back, told |-> {}]
     /\ UNCHANGED <<row, memory, seen, armer, quote, reload, history, commands,
                    faults>>

(* History: what a price is to alert is read off the row, whatever copy    *)
(* the callback has and whatever it has seen: the armed levels crossed     *)
(* from the last committed price, and the terminal ones it is beyond.      *)
Due(to) ==
  {l \in row.armed : to <= PriceOf[l] /\ (l \in Terminal \/ row.price > PriceOf[l])}

(* update_position_tracker_price commits; then the levels are evaluated.   *)
PriceWrite ==
  /\ proc.pc = "write"
  /\ \/ /\ row' = [row EXCEPT !.price = proc.to,
                              !.status = IF proc.pending THEN "active" ELSE @]
        /\ owed' = owed \cup Due(proc.to) /\ NotLost
     \/ Lost /\ UNCHANGED <<row, owed>>
  /\ proc' = [proc EXCEPT !.pc = "levels", !.pending = FALSE]
  /\ UNCHANGED <<memory, seen, armer, quote, reload, alerts, rearms, stale,
                 resumed, prices, commands>>

(* _record_and_alert: the alert, and after it the row of the level.        *)
Alert(l) ==
  /\ proc.pc = "levels" /\ l \in proc.todo \cap proc.hits
  /\ \/ alerts' = [alerts EXCEPT ![l] = @ + 1] /\ owed' = owed \ {l} /\ NotLost
     \/ Lost /\ UNCHANGED <<alerts, owed>>
  /\ proc' = [proc EXCEPT !.pc = "alerted", !.todo = @ \ {l}, !.told = {l}]
  /\ UNCHANGED <<row, memory, seen, armer, quote, reload, rearms, stale,
                 resumed, prices, commands>>

Disarm ==
  /\ proc.pc = "alerted"
  /\ \/ row' = [row EXCEPT !.armed = @ \ proc.told] /\ NotLost
     \/ Lost /\ UNCHANGED row
  /\ proc' = [proc EXCEPT !.pc = "levels", !.told = {}]
  /\ UNCHANGED <<memory, seen, armer, quote, reload, history, prices, commands>>

Rearm(l) ==
  /\ proc.pc = "levels" /\ l \in proc.todo \ proc.hits
  /\ \/ row' = [row EXCEPT !.armed = @ \cup {l}] /\ NotLost
     \/ Lost /\ UNCHANGED row
  /\ rearms' = [rearms EXCEPT ![l] = @ + 1]
  /\ proc' = [proc EXCEPT !.todo = @ \ {l}]
  /\ UNCHANGED <<memory, seen, armer, quote, reload, alerts, stale, resumed,
                 owed, prices, commands>>

Completes == proc.hits \cap Terminal # {}
After == [here |-> TRUE, price |-> proc.to, armed |-> proc.armed]

(* The levels of the copy stay what they were.                             *)
PutBackLevelsKept ==
  /\ proc.pc = "levels" /\ proc.todo = {}
  /\ memory' = IF Completes THEN NoCopy
               ELSE [After EXCEPT !.armed = @ \cup proc.hits]
  /\ seen' = TRUE
  /\ proc' = IF Completes THEN Completing ELSE Waiting
  /\ UNCHANGED <<row, armer, quote, reload, history, prices, commands, faults>>

(* The tracker's status is not written at the end.                         *)
PutBackUncompleted ==
  /\ proc.pc = "levels" /\ proc.todo = {}
  /\ memory' = IF Completes THEN NoCopy ELSE After
  /\ seen' = TRUE
  /\ proc' = Waiting
  /\ UNCHANGED <<row, armer, quote, reload, history, prices, commands, faults>>

(* The copy goes back into memory, whatever memory holds by now; that of a *)
(* completed tracker is taken out.                                         *)
PutBack ==
  /\ proc.pc = "levels" /\ proc.todo = {}
  /\ memory' = IF Completes THEN NoCopy ELSE After
  /\ seen' = TRUE
  /\ proc' = IF Completes THEN Completing ELSE Waiting
  /\ UNCHANGED <<row, armer, quote, reload, history, prices, commands, faults>>

Complete ==
  /\ proc.pc = "complete"
  /\ \/ row' = [row EXCEPT !.status = "completed"] /\ NotLost
     \/ Lost /\ UNCHANGED row
  /\ proc' = Waiting
  /\ UNCHANGED <<memory, seen, armer, quote, reload, history, prices, commands>>

-----------------------------------------------------------------------------
(* reload_active_trackers, by the loop and at the end of a thread command. *)

To(r, next) == reload' = [reload EXCEPT ![r] = next]

Starts(r) == reload[r].pc = IF r = "loop" THEN "idle" ELSE "start"

(* The tracker's row, whose time may be up by now; when the query fails    *)
(* there are no trackers.                                                  *)
ReloadRead(r) ==
  /\ Starts(r)
  /\ \/ /\ row.status \in Live
        /\ \E due \in BOOLEAN :
             To(r, IF due THEN [Resting EXCEPT !.pc = "expire"]
                   ELSE [Resting EXCEPT !.pc = "levels",
                                        !.copy = [CopyOf(row) EXCEPT !.armed = {}]])
        /\ NotLost
     \/ row.status \notin Live /\ To(r, [Resting EXCEPT !.pc = "swap"]) /\ NotLost
     \/ Lost /\ To(r, [Resting EXCEPT !.pc = "swap"])
  /\ UNCHANGED <<row, memory, seen, armer, quote, proc, history, prices,
                 commands>>

(* The rows of its levels, by a query of their own.                        *)
ReloadLevels(r) ==
  /\ reload[r].pc = "levels"
  /\ To(r, [reload[r] EXCEPT !.pc = "swap", !.copy.armed = row.armed])
  /\ UNCHANGED <<row, memory, seen, armer, quote, proc, history, prices,
                 commands, faults>>

Expire(r) ==
  /\ reload[r].pc = "expire"
  /\ \/ row' = [row EXCEPT !.status = "expired"] /\ NotLost
     \/ Lost /\ UNCHANGED row
  /\ To(r, [Resting EXCEPT !.pc = "swap"])
  /\ UNCHANGED <<memory, seen, armer, quote, proc, history, prices, commands>>

(* The loaded trackers are merged into those in memory.                    *)
SwapKeepsOthers(r) ==
  /\ reload[r].pc = "swap"
  /\ IF reload[r].copy = NoCopy THEN UNCHANGED <<memory, stale>>
     ELSE Install(reload[r].copy)
  /\ To(r, Resting)
  /\ UNCHANGED <<row, seen, armer, quote, proc, alerts, rearms, resumed, owed,
                 prices, commands, faults>>

Swap(r) ==
  /\ reload[r].pc = "swap"
  /\ Install(reload[r].copy)
  /\ seen' = (seen /\ reload[r].copy # NoCopy)
  /\ To(r, Resting)
  /\ UNCHANGED <<row, armer, quote, proc, alerts, rearms, resumed, owed, prices,
                 commands, faults>>

-----------------------------------------------------------------------------
(* Commands.  The thread's act on trackers that are not over, as listed;   *)
(* the trader worker's on any.                                             *)

ThreadCommand(a) ==
  /\ reload["thread"].pc = "idle" /\ commands < MaxCommands /\ Room
  /\ row.status \in Live \cup {"paused"}
  /\ commands' = commands + 1
  /\ To("thread", [Resting EXCEPT !.pc = "set", !.action = a])
  /\ UNCHANGED <<row, memory, seen, armer, quote, proc, history, prices,
                 faults>>

(* A wrong status literal.                                                 *)
ThreadSetMisspelt ==
  LET a == reload["thread"].action IN
  /\ reload["thread"].pc = "set"
  /\ row' = [row EXCEPT !.status = a]
  /\ To("thread", [Resting EXCEPT !.pc = "start"])
  /\ UNCHANGED <<memory, seen, armer, quote, proc, history, prices, commands,
                 faults>>

ThreadSet ==
  LET a == reload["thread"].action IN
  /\ reload["thread"].pc = "set"
  /\ \/ /\ row' = IF a = "set_ttl" THEN row
                  ELSE [row EXCEPT !.status = TargetOf[a]]
        /\ resumed' = (resumed \/ a = "resume") /\ NotLost
     \/ Lost /\ UNCHANGED <<row, resumed>>
  /\ To("thread", [Resting EXCEPT !.pc = "start"])
  /\ UNCHANGED <<memory, seen, armer, quote, proc, alerts, rearms, stale, owed,
                 prices, commands>>

WorkerCommand(a) ==
  /\ row.status # "none" /\ commands < MaxCommands /\ Room
  /\ commands' = commands + 1
  /\ row' = [row EXCEPT !.status = TargetOf[a]]
  /\ resumed' = (resumed \/ a = "resume")
  /\ UNCHANGED <<memory, seen, armer, quote, proc, reload, alerts, rearms,
                 stale, owed, prices, faults>>

Crash ==
  /\ faults < MaxFaults /\ Room
  /\ faults' = faults + 1
  /\ memory' = NoCopy /\ seen' = FALSE
  /\ armer' = IF armer = "created" THEN "done" ELSE armer
  /\ quote' = NoPrice
  /\ proc' = Waiting /\ reload' = [r \in Reloaders |-> Resting]
  /\ UNCHANGED <<row, history, prices, commands>>

-----------------------------------------------------------------------------
Process ==
  \/ PriceWrite \/ PutBack \/ Disarm \/ Complete
  \/ \E l \in Levels : Alert(l) \/ Rearm(l)

Reload(r) == ReloadRead(r) \/ ReloadLevels(r) \/ Expire(r) \/ Swap(r)

Command ==
  \/ \E a \in DOMAIN TargetOf \cup {"set_ttl"} : ThreadCommand(a)
  \/ \E a \in DOMAIN TargetOf : WorkerCommand(a)

Next ==
  \/ ArmCreate \/ ArmPut
  \/ (\E to \in Prices : PriceArrives(to)) \/ Process
  \/ (\E r \in Reloaders : Reload(r)) \/ ThreadSet
  \/ Command \/ Crash

Spec == Init /\ [][Next]_vars

(* The loop reloads every position_tracking_reload_seconds, and whatever   *)
(* was begun goes on.  Prices, commands, time and restarts are not forced. *)
Fairness == /\ WF_vars(ArmPut) /\ WF_vars(Process) /\ WF_vars(ThreadSet)
            /\ \A r \in Reloaders : WF_vars(Reload(r))

FairSpec == Spec /\ Fairness

-----------------------------------------------------------------------------
(* The row, the copy and the activities have the shape of their records.   *)
TypeOK ==
  /\ row \in Row /\ memory \in Copy /\ seen \in BOOLEAN
  /\ armer \in {"idle", "created", "done"} /\ quote \in Quotes
  /\ proc \in Processing
  /\ reload \in [Reloaders -> Reloading]
  /\ alerts \in [Levels -> Nat] /\ rearms \in [Levels -> Nat]
  /\ stale \in Nat /\ resumed \in BOOLEAN /\ owed \in SUBSET Levels
  /\ prices \in 0 .. MaxEvents /\ commands \in 0 .. MaxCommands
  /\ faults \in 0 .. MaxFaults

(* A level alerts once, and again only when it was armed again, after a    *)
(* restart or a lost write, or because a reload or auto_arm put a copy     *)
(* into memory that the row had moved on from.                             *)
RepeatsAccounted ==
  \A l \in Levels : alerts[l] <= 1 + rearms[l] + stale + faults

(* Between two prices no alert is owed: an armed level that a committed    *)
(* price crossed, coming from the one committed before, or a terminal one  *)
(* that it was beyond, at the arming already or since, was alerted, unless *)
(* a restart, a lost write or a stale copy came in between.                *)
NoCrossingSwallowed ==
  proc.pc = "idle" /\ stale + faults = 0 => owed = {}

(* A terminal level that was hit ends the tracker, whatever reloads and    *)
(* commands happen meanwhile: only a resume makes it live again.           *)
TerminalEnds ==
  proc.pc = "idle" /\ ~resumed /\ faults = 0 /\ row.status # "none"
    => (Terminal \subseteq row.armed \/ row.status \notin Live)

(* A tracker that stays stopped, paused, expired or completed is out of    *)
(* memory in the end, and stays out, although the price callback may put   *)
(* it back there.                                                          *)
QuietInTheEnd == <>[](row.status \in Off) => <>[](memory = NoCopy)
=============================================================================
