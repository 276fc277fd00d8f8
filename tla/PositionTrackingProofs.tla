----------------------- MODULE PositionTrackingProofs -----------------------
(***************************************************************************)
(* Proofs about PositionTracking, for any levels, prices and bounds: the   *)
(* types, that a repeated alert is accounted for, that no committed        *)
(* crossing goes without its alert and that a terminal hit ends a tracker. *)
(***************************************************************************)
EXTENDS PositionTracking, TLAPS

(* The callback is at work with what it found.                             *)
Busy == proc.pc \in {"write", "levels", "alerted"}

(* Only a command that was given is carried out.                           *)
CommandInv ==
  reload["thread"].pc = "set" => reload["thread"].action \in DOMAIN TargetOf \cup {"set_ttl"}

(* There is nothing before the tracker is armed.                           *)
FreshInv ==
  armer = "idle" =>
    /\ row.status = "none" /\ row.armed = {} /\ memory = NoCopy /\ proc = Waiting
    /\ \A r \in Reloaders : reload[r].copy = NoCopy /\ reload[r].pc \in {"idle", "swap"}
    /\ \A l \in Levels : alerts[l] = 0
    /\ ~seen /\ owed = {}

(* What the callback has left to do follows from what it will put back.    *)
PlanInv ==
  Busy => /\ proc.hits \cap proc.armed = {}
          /\ proc.todo \subseteq proc.hits \cup proc.armed
          /\ proc.told \subseteq proc.hits

(* The levels that may alert as things are, without another stale copy,    *)
(* fault or arming: a level that alerted may not, while its row is about   *)
(* to be written.                                                          *)
Ready ==
  IF Busy
  THEN (proc.armed \ proc.todo) \cup (proc.hits \cap proc.todo)
         \cup (row.armed \ IF proc.pc = "alerted" THEN proc.told ELSE {})
  ELSE memory.armed \cup row.armed
Credit(l) == IF l \in Ready THEN 1 ELSE 0
Paid(l) == alerts[l] + Credit(l) <= 1 + rearms[l] + stale + faults
CreditInv == \A l \in Levels : Paid(l)

(* As long as nothing failed and no stale copy was installed, the copy and *)
(* the row agree between two prices, and during one the row is on its way  *)
(* to what will be put back, and all that the price hit will be alerted.   *)
(* A terminal level is on the near side of the last price once there was   *)
(* one: a price beyond it is a crossing, or the first.                     *)
Between ==
  /\ seen => \A l \in row.armed \cap Terminal : row.price > PriceOf[l]
  /\ memory.here => memory.armed = row.armed /\ memory.price = row.price
  /\ owed = {}
During ==
  /\ \A l \in proc.armed \cap Terminal : proc.to > PriceOf[l]
  /\ proc.armed \ proc.todo \subseteq row.armed
  /\ row.armed \subseteq proc.armed \cup (proc.hits \cap proc.todo)
                           \cup IF proc.pc = "alerted" THEN proc.told ELSE {}
  /\ proc.pc = "write" => owed = {} /\ Due(proc.to) \subseteq proc.hits \cap proc.todo
  /\ proc.pc # "write" => row.price = proc.to /\ owed \subseteq proc.hits \cap proc.todo
Clean == stale = 0 /\ faults = 0
AgreeInv == Clean => IF Busy THEN During ELSE Between

(* A tracker that is live has its terminal levels armed, unless the        *)
(* callback is about to complete it; one that was read as pending had them *)
(* armed.                                                                  *)
Unhit == Terminal \subseteq row.armed
EndInv ==
  ~resumed /\ faults = 0 =>
    /\ proc.pc \in {"idle", "write"} => Unhit \/ row.status \notin Live
    /\ proc.pc = "write" /\ proc.pending => Unhit
    /\ proc.pc \in {"levels", "alerted"} => Unhit \/ row.status \notin Live \/ Completes

-----------------------------------------------------------------------------
(* The steps, by what they do to the copy and the row.                     *)

LEMMA RecordsTyped ==
  /\ NoCopy \in Copy /\ ~NoCopy.here /\ NoCopy.armed = {}
  /\ Waiting \in Processing /\ Waiting.pc = "idle"
  /\ Completing \in Processing /\ Completing.pc = "complete"
  /\ Resting \in Reloading /\ Resting.copy = NoCopy /\ Resting.pc = "idle"
  /\ \A at \in Quotes : /\ Armed(at) \in Row /\ Armed(at).armed = Levels
                        /\ Armed(at).price = at /\ Armed(at).status = "pending"
  /\ \A r \in Row : CopyOf(r) \in Copy /\ CopyOf(r).here /\ CopyOf(r) # NoCopy
  <1>1. 0 \in Prices /\ NoPrice \in Quotes
    BY BoundsAssumption DEF Prices, Quotes
  <1>2. NoCopy \in Copy /\ ~NoCopy.here /\ NoCopy.armed = {}
    BY <1>1 DEF NoCopy, Copy
  <1>3. /\ Waiting \in Processing /\ Waiting.pc = "idle"
        /\ Completing \in Processing /\ Completing.pc = "complete"
    BY <1>1 DEF Waiting, Completing, Processing
  <1>4. Resting \in Reloading /\ Resting.copy = NoCopy /\ Resting.pc = "idle"
    BY <1>2 DEF Resting, Reloading
  <1>5. \A at \in Quotes : /\ Armed(at) \in Row /\ Armed(at).armed = Levels
                           /\ Armed(at).price = at /\ Armed(at).status = "pending"
    BY DEF Armed, Row, Status, Live
  <1>6. \A r \in Row : CopyOf(r) \in Copy /\ CopyOf(r).here /\ CopyOf(r) # NoCopy
    BY DEF CopyOf, Copy, NoCopy, Row
  <1> QED BY <1>2, <1>3, <1>4, <1>5, <1>6

LEMMA ArmPricesQuoted == ArmPrices \subseteq Quotes
  BY LevelsAssumption, BoundsAssumption DEF Quotes, Prices, NoPrice

MayFail == faults' = faults \/ faults' = faults + 1

(* A copy is installed and nothing else of note happens.                   *)
Installs(copy) ==
  /\ copy \in Copy /\ Install(copy)
  /\ UNCHANGED <<row, proc, alerts, rearms, resumed, owed, faults>>
  /\ seen' => seen

(* Nothing but the status of the row changes.                              *)
Quiet ==
  /\ row'.price = row.price /\ row'.armed = row.armed
  /\ UNCHANGED <<memory, seen, proc, alerts, rearms, stale, owed>> /\ MayFail

-----------------------------------------------------------------------------
(* Type correctness.                                                       *)

LEMMA TargetTyped ==
  /\ DOMAIN TargetOf = {"stop", "pause", "resume"}
  /\ TargetOf["stop"] = "stopped" /\ TargetOf["pause"] = "paused" /\ TargetOf["resume"] = "active"
  /\ \A a \in DOMAIN TargetOf : TargetOf[a] \in Status
  /\ \A a \in DOMAIN TargetOf : a # "resume" => TargetOf[a] \in Off
  BY DEF TargetOf, Status, Live, Off

LEMMA InitType == Init => TypeOK /\ CommandInv
  <1> SUFFICES ASSUME Init PROVE TypeOK /\ CommandInv
    OBVIOUS
  <1>1. NoPrice \in Quotes
    BY DEF Quotes
  <1>2. row \in Row /\ memory \in Copy /\ proc \in Processing
    BY <1>1, RecordsTyped DEF Init, Row, Status
  <1>3. reload \in [Reloaders -> Reloading] /\ reload["thread"].pc = "idle"
    BY RecordsTyped DEF Init, Reloaders
  <1>4. alerts \in [Levels -> Nat] /\ rearms \in [Levels -> Nat]
    BY DEF Init
  <1>5. prices = 0 /\ commands = 0 /\ faults = 0 /\ stale = 0
    BY DEF Init
  <1>6. resumed = FALSE /\ seen = FALSE /\ armer = "idle" /\ quote \in Quotes /\ owed = {}
    BY <1>1 DEF Init
  <1>7. /\ prices \in 0 .. MaxEvents /\ commands \in 0 .. MaxCommands /\ faults \in 0 .. MaxFaults
        /\ stale \in Nat
    BY <1>5, BoundsAssumption
  <1> QED BY <1>2, <1>3, <1>4, <1>6, <1>7 DEF TypeOK, CommandInv

(* The counters of the bounds.                                             *)
LEMMA CountersTyped ==
  ASSUME TypeOK, [Next]_vars
  PROVE  /\ prices' \in 0 .. MaxEvents /\ commands' \in 0 .. MaxCommands
         /\ faults' \in 0 .. MaxFaults /\ MayFail
  <1>1. ASSUME Lost \/ NotLost PROVE faults' \in 0 .. MaxFaults /\ MayFail
    BY <1>1, BoundsAssumption DEF Lost, NotLost, MayFail, TypeOK
  <1>2. Crash => faults' \in 0 .. MaxFaults /\ MayFail
    BY BoundsAssumption DEF Crash, MayFail, TypeOK
  <1>3. UNCHANGED faults => faults' \in 0 .. MaxFaults /\ MayFail
    BY DEF MayFail, TypeOK
  <1>4. Lost \/ NotLost \/ Crash \/ UNCHANGED faults
    BY DEF Next, ArmCreate, ArmPut, PriceArrives, Process, PriceWrite, Alert, Disarm, Rearm,
           PutBack, Complete, Reload, ReloadRead, ReloadLevels, Expire, Swap, ThreadSet,
           Command, ThreadCommand, WorkerCommand, Install, vars
  <1>5. ASSUME NEW to \in Prices, PriceArrives(to) PROVE prices' \in 0 .. MaxEvents
    BY <1>5, BoundsAssumption DEF PriceArrives, Room, TypeOK
  <1>6. prices' \in 0 .. MaxEvents
    <2>1. UNCHANGED prices \/ \E to \in Prices : PriceArrives(to)
      BY DEF Next, ArmCreate, ArmPut, Process, PriceWrite, Alert, Disarm, Rearm,
             PutBack, Complete, Reload, ReloadRead, ReloadLevels, Expire, Swap, ThreadSet,
             Command, ThreadCommand, WorkerCommand, Crash, vars
    <2> QED BY <1>5, <2>1 DEF TypeOK
  <1>7. Command => commands' \in 0 .. MaxCommands
    <2>1. Command => commands < MaxCommands /\ commands' = commands + 1
      BY DEF Command, ThreadCommand, WorkerCommand
    <2> QED BY <2>1, BoundsAssumption DEF TypeOK
  <1>8. commands' \in 0 .. MaxCommands
    <2>1. UNCHANGED commands \/ Command
      BY DEF Next, ArmCreate, ArmPut, PriceArrives, Process, PriceWrite, Alert, Disarm, Rearm,
             PutBack, Complete, Reload, ReloadRead, ReloadLevels, Expire, Swap, ThreadSet,
             Crash, vars
    <2> QED BY <1>7, <2>1 DEF TypeOK
  <1> QED BY <1>1, <1>2, <1>3, <1>4, <1>6, <1>8

LEMMA InstallTyped ==
  ASSUME TypeOK, NEW copy \in Copy, Install(copy)
  PROVE  memory' \in Copy /\ stale' \in Nat /\ (stale' = stale \/ stale' = stale + 1)
  <1>1. stale \in Nat
    BY DEF TypeOK
  <1> QED BY <1>1 DEF Install

(* The row, the copy and the histories.                                    *)
LEMMA RowTyped ==
  ASSUME TypeOK, CommandInv, [Next]_vars
  PROVE  row' \in Row
  <1>0. row \in Row /\ proc \in Processing
    BY DEF TypeOK
  <1>1. \A s \in Status : [row EXCEPT !.status = s] \in Row
    BY <1>0 DEF Row
  <1>2. \A levels \in SUBSET Levels : [row EXCEPT !.armed = levels] \in Row
    BY <1>0 DEF Row
  <1>3. "active" \in Status /\ "completed" \in Status /\ "expired" \in Status
    BY DEF Status, Live, Off
  <1>4. PriceWrite => row' \in Row
    <2> DEFINE status == IF proc.pending THEN "active" ELSE row.status
    <2>1. proc.to \in Quotes /\ status \in Status
      BY <1>0, <1>3 DEF Processing, Row, Quotes
    <2>2. PriceWrite => row' = row \/ row' = [row EXCEPT !.price = proc.to, !.status = status]
      BY DEF PriceWrite
    <2> HIDE DEF status
    <2> QED BY <1>0, <2>1, <2>2 DEF Row
  <1>5. Disarm => row' \in Row
    <2>1. row.armed \ proc.told \in SUBSET Levels
      BY <1>0 DEF Row
    <2> QED BY <1>0, <1>2, <2>1 DEF Disarm
  <1>6. ASSUME NEW l \in Levels, Rearm(l) PROVE row' \in Row
    <2>1. row.armed \cup {l} \in SUBSET Levels
      BY <1>0 DEF Row
    <2> QED BY <1>0, <1>2, <1>6, <2>1 DEF Rearm
  <1>7. ThreadSet => row' \in Row
    BY <1>0, <1>1, TargetTyped DEF ThreadSet, CommandInv
  <1>8. ASSUME NEW a \in DOMAIN TargetOf, WorkerCommand(a) PROVE row' \in Row
    BY <1>1, <1>8, TargetTyped DEF WorkerCommand
  <1>9. ArmCreate => row' \in Row
    BY ArmPricesQuoted, RecordsTyped DEF ArmCreate
  <1>10. Complete => row' \in Row
    BY <1>0, <1>1, <1>3 DEF Complete
  <1>11. \A r \in Reloaders : Expire(r) => row' \in Row
    BY <1>0, <1>1, <1>3 DEF Expire
  <1>12. \/ UNCHANGED row \/ PriceWrite \/ Disarm \/ (\E l \in Levels : Rearm(l)) \/ ThreadSet
         \/ (\E a \in DOMAIN TargetOf : WorkerCommand(a)) \/ ArmCreate \/ Complete
         \/ (\E r \in Reloaders : Expire(r))
    BY DEF Next, ArmPut, PriceArrives, Process, Alert, PutBack, Reload, ReloadRead,
           ReloadLevels, Swap, Command, ThreadCommand, Crash, vars
  <1> QED BY <1>0, <1>4, <1>5, <1>6, <1>7, <1>8, <1>9, <1>10, <1>11, <1>12

LEMMA MemoryTyped ==
  ASSUME TypeOK, [Next]_vars
  PROVE  /\ memory' \in Copy /\ stale' \in Nat /\ seen' \in BOOLEAN
         /\ armer' \in {"idle", "created", "done"} /\ resumed' \in BOOLEAN
         /\ quote' \in Quotes
  <1>0. proc \in Processing /\ reload \in [Reloaders -> Reloading] /\ memory \in Copy
    BY DEF TypeOK
  <1>1. /\ After \in Copy /\ CopyOf(Armed(quote)) \in Copy
        /\ \A r \in Reloaders : reload[r].copy \in Copy
    <2>1. Armed(quote) \in Row
      BY RecordsTyped DEF TypeOK
    <2> QED BY <1>0, <2>1, RecordsTyped DEF After, Copy, Processing, Reloading, Quotes
  <1>2. ASSUME UNCHANGED <<memory, stale>> \/ (\E copy \in Copy : Install(copy))
                 \/ (memory' \in {NoCopy, After} /\ UNCHANGED stale)
        PROVE  memory' \in Copy /\ stale' \in Nat
    BY <1>1, <1>2, InstallTyped, RecordsTyped DEF TypeOK
  <1>3. \/ UNCHANGED <<memory, stale>> \/ (\E copy \in Copy : Install(copy))
        \/ (memory' \in {NoCopy, After} /\ UNCHANGED stale)
    BY <1>1, RecordsTyped
       DEF Next, ArmCreate, ArmPut, PriceArrives, Process, PriceWrite, Alert, Disarm, Rearm,
           PutBack, Complete, Reload, ReloadRead, ReloadLevels, Expire, Swap, ThreadSet,
           Command, ThreadCommand, WorkerCommand, Crash, vars, history
  <1>4. seen' \in BOOLEAN /\ armer' \in {"idle", "created", "done"}
    BY DEF Next, ArmCreate, ArmPut, PriceArrives, Process, PriceWrite, Alert, Disarm, Rearm,
           PutBack, Complete, Reload, ReloadRead, ReloadLevels, Expire, Swap, ThreadSet,
           Command, ThreadCommand, WorkerCommand, Crash, vars, TypeOK
  <1>5. resumed' \in BOOLEAN
    BY DEF Next, ArmCreate, ArmPut, PriceArrives, Process, PriceWrite, Alert, Disarm, Rearm,
           PutBack, Complete, Reload, ReloadRead, ReloadLevels, Expire, Swap, ThreadSet,
           Command, ThreadCommand, WorkerCommand, Crash, vars, history, TypeOK
  <1>6. quote' \in Quotes
    <2>1. NoPrice \in Quotes
      BY DEF Quotes
    <2>2. quote' = quote \/ quote' = NoPrice \/ quote' \in ArmPrices
      BY DEF Next, ArmCreate, ArmPut, PriceArrives, Process, PriceWrite, Alert, Disarm, Rearm,
             PutBack, Complete, Reload, ReloadRead, ReloadLevels, Expire, Swap, ThreadSet,
             Command, ThreadCommand, WorkerCommand, Crash, vars
    <2> QED BY <2>1, <2>2, ArmPricesQuoted DEF TypeOK
  <1> QED BY <1>2, <1>3, <1>4, <1>5, <1>6

LEMMA AlertsTyped ==
  ASSUME TypeOK, [Next]_vars
  PROVE  /\ alerts' \in [Levels -> Nat] /\ rearms' \in [Levels -> Nat]
         /\ owed' \in SUBSET Levels
  <1>1. ASSUME NEW l \in Levels, Alert(l) PROVE alerts' \in [Levels -> Nat] /\ UNCHANGED rearms
    BY <1>1 DEF Alert, TypeOK
  <1>2. ASSUME NEW l \in Levels, Rearm(l) PROVE rearms' \in [Levels -> Nat] /\ UNCHANGED alerts
    BY <1>2 DEF Rearm, TypeOK
  <1>3. \/ UNCHANGED <<alerts, rearms>> \/ \E l \in Levels : Alert(l) \/ Rearm(l)
    BY DEF Next, ArmCreate, ArmPut, PriceArrives, Process, PriceWrite, Disarm,
           PutBack, Complete, Reload, ReloadRead, ReloadLevels, Expire, Swap, ThreadSet,
           Command, ThreadCommand, WorkerCommand, Crash, vars, history
  <1>4. owed' \in SUBSET Levels
    <2>1. Due(proc.to) \subseteq Levels
      BY DEF Due, TypeOK, Row
    <2>2. UNCHANGED owed \/ owed' = owed \cup Due(proc.to) \/ \E l : owed' = owed \ {l}
      BY DEF Next, ArmCreate, ArmPut, PriceArrives, Process, PriceWrite, Alert, Disarm, Rearm,
             PutBack, Complete, Reload, ReloadRead, ReloadLevels, Expire, Swap, ThreadSet,
             Command, ThreadCommand, WorkerCommand, Crash, vars, history
    <2> QED BY <2>1, <2>2 DEF TypeOK
  <1> QED BY <1>1, <1>2, <1>3, <1>4 DEF TypeOK

LEMMA ProcTyped ==
  ASSUME TypeOK, [Next]_vars
  PROVE  proc' \in Processing
  <1>0. proc \in Processing /\ row \in Row /\ memory \in Copy
    BY DEF TypeOK
  <1>1. ASSUME NEW to \in Prices, PriceArrives(to) PROVE proc' \in Processing
    <2> DEFINE hits == Hits(memory, to, ~seen)
               back == Rearmed(memory, to)
               levels == (memory.armed \ hits) \cup back
               pending == row.status = "pending"
    <2>1. /\ hits \in SUBSET Levels /\ back \in SUBSET Levels /\ levels \in SUBSET Levels
          /\ hits \cup back \in SUBSET Levels /\ pending \in BOOLEAN
      BY <1>0, LevelsAssumption DEF Hits, Rearmed, Copy
    <2>2. proc' = [pc |-> "write", to |-> to, pending |-> pending, armed |-> levels,
                   hits |-> hits, todo |-> hits \cup back, told |-> {}]
      BY <1>1 DEF PriceArrives
    <2> HIDE DEF hits, back, levels, pending
    <2> QED BY <2>1, <2>2 DEF Processing
  <1>2. /\ [proc EXCEPT !.pc = "levels", !.pending = FALSE] \in Processing
        /\ [proc EXCEPT !.pc = "levels", !.told = {}] \in Processing
    BY <1>0 DEF Processing
  <1>3. ASSUME NEW l \in Levels PROVE /\ [proc EXCEPT !.todo = @ \ {l}] \in Processing
                           /\ [proc EXCEPT !.pc = "alerted", !.todo = @ \ {l}, !.told = {l}] \in Processing
    <2>1. proc.todo \ {l} \in SUBSET Levels
      BY <1>0 DEF Processing
    <2> QED BY <1>0, <2>1 DEF Processing
  <1>4. Process => proc' \in Processing
    <2>1. PriceWrite \/ Disarm \/ PutBack \/ Complete => proc' \in Processing
      BY <1>2, RecordsTyped DEF PriceWrite, Disarm, PutBack, Complete
    <2>2. ASSUME NEW l \in Levels, Alert(l) PROVE proc' \in Processing
      <3>1. proc' = [proc EXCEPT !.pc = "alerted", !.todo = @ \ {l}, !.told = {l}]
        BY <2>2 DEF Alert
      <3> QED BY <1>3, <3>1
    <2>3. ASSUME NEW l \in Levels, Rearm(l) PROVE proc' \in Processing
      <3>1. proc' = [proc EXCEPT !.todo = @ \ {l}]
        BY <2>3 DEF Rearm
      <3> QED BY <1>3, <3>1
    <2> QED BY <2>1, <2>2, <2>3 DEF Process
  <1>5. \/ UNCHANGED proc \/ proc' = Waiting \/ Process \/ \E to \in Prices : PriceArrives(to)
    BY DEF Next, ArmCreate, ArmPut, Reload, ReloadRead, ReloadLevels, Expire, Swap, ThreadSet,
           Command, ThreadCommand, WorkerCommand, Crash, vars
  <1> QED BY <1>0, <1>1, <1>4, <1>5, RecordsTyped

LEMMA ReloadTyped ==
  ASSUME TypeOK, CommandInv, [Next]_vars
  PROVE  reload' \in [Reloaders -> Reloading] /\ CommandInv'
  <1>0. reload \in [Reloaders -> Reloading] /\ row \in Row /\ "thread" \in Reloaders
    BY DEF TypeOK, Reloaders
  <1>1. ASSUME NEW r \in Reloaders, NEW next \in Reloading, To(r, next),
               next.pc = "set" => next.action \in DOMAIN TargetOf \cup {"set_ttl"}
        PROVE  reload' \in [Reloaders -> Reloading] /\ CommandInv'
    <2>1. reload' \in [Reloaders -> Reloading]
      BY <1>0, <1>1 DEF To
    <2>2. reload'["thread"] = IF r = "thread" THEN next ELSE reload["thread"]
      BY <1>0, <1>1 DEF To
    <2> QED BY <1>1, <2>1, <2>2 DEF CommandInv
  <1>2. ASSUME NEW pc \in {"idle", "swap", "start"}
        PROVE  /\ [Resting EXCEPT !.pc = pc] \in Reloading
               /\ [Resting EXCEPT !.pc = pc].pc = pc
    BY RecordsTyped DEF Reloading
  <1>3. ASSUME NEW r \in Reloaders, ReloadRead(r)
        PROVE  reload' \in [Reloaders -> Reloading] /\ CommandInv'
    <2>1. ASSUME NEW due \in BOOLEAN,
                 To(r, IF due THEN [Resting EXCEPT !.pc = "expire"]
                       ELSE [Resting EXCEPT !.pc = "levels",
                                            !.copy = [CopyOf(row) EXCEPT !.armed = {}]])
          PROVE  reload' \in [Reloaders -> Reloading] /\ CommandInv'
      <3> DEFINE copy == [CopyOf(row) EXCEPT !.armed = {}]
                 next == IF due THEN [Resting EXCEPT !.pc = "expire"]
                         ELSE [Resting EXCEPT !.pc = "levels", !.copy = copy]
      <3>1. copy \in Copy
        BY <1>0, RecordsTyped DEF Copy
      <3>2. To(r, next)
        BY <2>1
      <3> HIDE DEF copy
      <3>3. next \in Reloading /\ next.pc \in {"expire", "levels"}
        BY <3>1, RecordsTyped DEF Reloading
      <3> HIDE DEF next
      <3> QED BY <1>1, <3>2, <3>3
    <2>2. ASSUME To(r, [Resting EXCEPT !.pc = "swap"])
          PROVE  reload' \in [Reloaders -> Reloading] /\ CommandInv'
      BY <1>1, <1>2, <2>2
    <2> QED BY <1>3, <2>1, <2>2 DEF ReloadRead
  <1>4. ASSUME NEW r \in Reloaders, ReloadLevels(r)
        PROVE  reload' \in [Reloaders -> Reloading] /\ CommandInv'
    <2> DEFINE old == reload[r]
               next == [old EXCEPT !.pc = "swap", !.copy.armed = row.armed]
    <2>1. old \in Reloading /\ row.armed \in SUBSET Levels
      BY <1>0 DEF Row
    <2>2. To(r, next)
      BY <1>4 DEF ReloadLevels
    <2> HIDE DEF old
    <2>3. [old.copy EXCEPT !.armed = row.armed] \in Copy
      BY <2>1 DEF Reloading, Copy
    <2>4. next = [old EXCEPT !.pc = "swap", !.copy = [old.copy EXCEPT !.armed = row.armed]]
      BY <2>1 DEF Reloading
    <2>5. next \in Reloading /\ next.pc = "swap"
      BY <2>1, <2>3, <2>4 DEF Reloading
    <2> HIDE DEF next
    <2> QED BY <1>1, <2>2, <2>5
  <1>5. ASSUME NEW r \in Reloaders, Expire(r) \/ Swap(r)
        PROVE  reload' \in [Reloaders -> Reloading] /\ CommandInv'
    BY <1>1, <1>2, <1>5, RecordsTyped DEF Expire, Swap
  <1>6. ASSUME ThreadSet PROVE reload' \in [Reloaders -> Reloading] /\ CommandInv'
    BY <1>0, <1>1, <1>2, <1>6 DEF ThreadSet
  <1>7. ASSUME NEW a \in DOMAIN TargetOf \cup {"set_ttl"}, ThreadCommand(a)
        PROVE  reload' \in [Reloaders -> Reloading] /\ CommandInv'
    <2> DEFINE next == [Resting EXCEPT !.pc = "set", !.action = a]
    <2>1. a \in {"stop", "pause", "resume", "set_ttl"}
      BY TargetTyped
    <2>2. next \in Reloading /\ next.pc = "set" /\ next.action = a
      BY <2>1, RecordsTyped DEF Reloading
    <2>3. To("thread", next)
      BY <1>7 DEF ThreadCommand
    <2> HIDE DEF next
    <2> QED BY <1>0, <1>1, <1>7, <2>2, <2>3
  <1>8. CASE Crash
    BY <1>0, <1>8, RecordsTyped DEF Crash, CommandInv
  <1>9. CASE UNCHANGED reload
    BY <1>0, <1>9 DEF CommandInv
  <1> QED BY <1>3, <1>4, <1>5, <1>6, <1>7, <1>8, <1>9
          DEF Next, ArmCreate, ArmPut, PriceArrives, Process, PriceWrite, Alert, Disarm, Rearm,
              PutBack, Complete, Reload, Command, WorkerCommand, vars

LEMMA StepType == TypeOK /\ CommandInv /\ [Next]_vars => TypeOK' /\ CommandInv'
  BY CountersTyped, RowTyped, MemoryTyped, AlertsTyped, ProcTyped, ReloadTyped DEF TypeOK

LEMMA AlwaysTyped == Spec => [](TypeOK /\ CommandInv)
  BY InitType, StepType, PTL DEF Spec

(* The row, the copy and the activities keep the shape of their records.   *)
THEOREM TypeCorrect == Spec => []TypeOK
  BY AlwaysTyped, PTL

-----------------------------------------------------------------------------
(* What the callback has to do, and what there is before the arming.       *)

LEMMA NextCases ==
  ASSUME TypeOK, [Next]_vars
  PROVE  \/ ArmCreate \/ (\E copy : Installs(copy)) \/ Quiet \/ Crash
         \/ (\E to \in Prices : PriceArrives(to)) \/ PriceWrite
         \/ (\E l \in Levels : Alert(l)) \/ (\E l \in Levels : Rearm(l))
         \/ Disarm \/ PutBack \/ Complete
  <1>0. row \in Row /\ MayFail
    BY CountersTyped DEF TypeOK
  <1>1. \A s : /\ [row EXCEPT !.status = s].price = row.price
               /\ [row EXCEPT !.status = s].armed = row.armed
    BY <1>0 DEF Row
  <1>2. ArmPut => Quiet \/ Installs(CopyOf(Armed(quote)))
    <2>1. Armed(quote) \in Row
      BY RecordsTyped DEF TypeOK
    <2> QED BY <1>0, <2>1, RecordsTyped DEF ArmPut, Quiet, Installs
  <1>3. ASSUME NEW r \in Reloaders, Swap(r) PROVE \E copy : Installs(copy)
    <2>1. reload[r].copy \in Copy
      BY DEF TypeOK, Reloading
    <2> QED BY <1>3, <2>1 DEF Swap, Installs
  <1>4. ASSUME NEW r \in Reloaders, ReloadRead(r) \/ ReloadLevels(r) \/ Expire(r) PROVE Quiet
    BY <1>0, <1>1, <1>4 DEF ReloadRead, ReloadLevels, Expire, Quiet, history
  <1>5. ThreadSet => Quiet
    BY <1>0, <1>1 DEF ThreadSet, Quiet
  <1>6. Command => Quiet
    BY <1>0, <1>1 DEF Command, ThreadCommand, WorkerCommand, Quiet, history
  <1>7. UNCHANGED vars => Quiet
    BY <1>0 DEF vars, history, Quiet
  <1> QED BY <1>2, <1>3, <1>4, <1>5, <1>6, <1>7 DEF Next, Process, Reload

LEMMA PlanStep == TypeOK /\ PlanInv /\ [Next]_vars => PlanInv'
  <1> SUFFICES ASSUME TypeOK, PlanInv, [Next]_vars PROVE PlanInv'
    OBVIOUS
  <1>0. proc \in Processing
    BY DEF TypeOK
  <1>1. UNCHANGED proc => PlanInv'
    BY DEF PlanInv, Busy
  <1>2. proc'.pc \in {"idle", "complete"} => PlanInv'
    BY DEF PlanInv, Busy
  <1>3. ASSUME NEW to \in Prices, PriceArrives(to) PROVE PlanInv'
    <2> DEFINE hits == Hits(memory, to, ~seen)
               back == Rearmed(memory, to)
    <2>1. /\ proc'.armed = (memory.armed \ hits) \cup back
          /\ proc'.hits = hits /\ proc'.todo = hits \cup back /\ proc'.told = {}
      BY <1>3 DEF PriceArrives
    <2>2. hits \subseteq memory.armed /\ back \cap memory.armed = {}
      BY DEF Hits, Rearmed
    <2> HIDE DEF hits, back
    <2> QED BY <2>1, <2>2 DEF PlanInv
  <1>4. ASSUME proc'.armed = proc.armed, proc'.hits = proc.hits, proc'.todo \subseteq proc.todo, Busy,
               proc'.told \subseteq proc.told \cup proc.hits
        PROVE  PlanInv'
    BY <1>4 DEF PlanInv
  <1>5. PriceWrite \/ Disarm => PlanInv'
    <2>1. PriceWrite \/ Disarm => /\ Busy
                                  /\ \/ proc' = [proc EXCEPT !.pc = "levels", !.pending = FALSE]
                                     \/ proc' = [proc EXCEPT !.pc = "levels", !.told = {}]
      BY DEF PriceWrite, Disarm, Busy
    <2> QED BY <1>0, <1>4, <2>1 DEF Processing
  <1>6. ASSUME NEW l \in Levels, Alert(l) PROVE PlanInv'
    <2>1. Busy /\ l \in proc.hits /\ proc' = [proc EXCEPT !.pc = "alerted", !.todo = @ \ {l}, !.told = {l}]
      BY <1>6 DEF Alert, Busy
    <2> QED BY <1>0, <1>4, <2>1 DEF Processing
  <1>7. ASSUME NEW l \in Levels, Rearm(l) PROVE PlanInv'
    <2>1. Busy /\ proc' = [proc EXCEPT !.todo = @ \ {l}]
      BY <1>7 DEF Rearm, Busy
    <2> QED BY <1>0, <1>4, <2>1 DEF Processing
  <1>8. PutBack \/ Complete \/ Crash => PlanInv'
    <2>1. PutBack \/ Complete \/ Crash => proc' = Waiting \/ proc' = Completing
      BY DEF PutBack, Complete, Crash
    <2> QED BY <1>2, <2>1, RecordsTyped
  <1>9. ArmCreate \/ Quiet \/ (\E copy : Installs(copy)) => UNCHANGED proc
    BY DEF ArmCreate, Quiet, Installs
  <1> QED BY <1>1, <1>3, <1>5, <1>6, <1>7, <1>8, <1>9, NextCases

LEMMA FreshStep == TypeOK /\ FreshInv /\ [Next]_vars => FreshInv'
  <1> SUFFICES ASSUME TypeOK, FreshInv, [Next]_vars, armer' = "idle" PROVE FreshInv'
    BY DEF FreshInv
  <1>0. reload \in [Reloaders -> Reloading] /\ "thread" \in Reloaders
    BY DEF TypeOK, Reloaders
  <1>1. armer = "idle"
    BY DEF Next, ArmCreate, ArmPut, PriceArrives, Process, PriceWrite, Alert, Disarm, Rearm,
           PutBack, Complete, Reload, ReloadRead, ReloadLevels, Expire, Swap, ThreadSet,
           Command, ThreadCommand, WorkerCommand, Crash, vars
  <1>2. /\ row.status = "none" /\ row.armed = {} /\ memory = NoCopy /\ proc = Waiting
        /\ \A r \in Reloaders : reload[r].copy = NoCopy /\ reload[r].pc \in {"idle", "swap"}
        /\ \A l \in Levels : alerts[l] = 0
        /\ ~seen /\ owed = {}
    BY <1>1 DEF FreshInv
  <1>3. ~Process /\ \A to \in Prices : ~PriceArrives(to)
    BY <1>2, RecordsTyped
       DEF Process, PriceWrite, Alert, Disarm, Rearm, PutBack, Complete, PriceArrives
  <1>4. ~ArmCreate /\ ~ArmPut /\ ~ThreadSet /\ ~Command
    <2>1. row.status \notin Live \cup {"paused"}
      BY <1>2 DEF Live
    <2> QED BY <1>0, <1>1, <1>2, <2>1 DEF ArmCreate, ArmPut, ThreadSet, Command, ThreadCommand, WorkerCommand
  <1>5. ASSUME NEW r \in Reloaders, reload' = [reload EXCEPT ![r] = [Resting EXCEPT !.pc = "swap"]]
                 \/ reload' = [reload EXCEPT ![r] = Resting]
        PROVE  \A s \in Reloaders : reload'[s].copy = NoCopy /\ reload'[s].pc \in {"idle", "swap"}
    <2>1. [Resting EXCEPT !.pc = "swap"].copy = NoCopy /\ [Resting EXCEPT !.pc = "swap"].pc = "swap"
      BY RecordsTyped DEF Reloading
    <2> HIDE DEF Resting
    <2> QED BY <1>0, <1>2, <1>5, <2>1, RecordsTyped
  <1>6. ASSUME NEW r \in Reloaders, Reload(r) PROVE FreshInv'
    <2>1. ~ReloadLevels(r) /\ ~Expire(r)
      BY <1>2 DEF ReloadLevels, Expire
    <2>2. CASE ReloadRead(r)
      <3>1. row.status \notin Live
        BY <1>2 DEF Live
      <3>2. To(r, [Resting EXCEPT !.pc = "swap"]) /\ UNCHANGED <<row, memory, seen, proc, alerts, owed>>
        BY <2>2, <3>1 DEF ReloadRead, history
      <3> QED BY <1>2, <1>5, <3>2 DEF FreshInv, To
    <2>3. CASE Swap(r)
      <3>1. memory' = NoCopy /\ ~seen' /\ To(r, Resting) /\ UNCHANGED <<row, proc, alerts, owed>>
        BY <1>2, <2>3 DEF Swap, Install
      <3> QED BY <1>2, <1>5, <3>1 DEF FreshInv, To
    <2> QED BY <1>6, <2>1, <2>2, <2>3 DEF Reload
  <1>7. CASE Crash
    <2>1. memory' = NoCopy /\ ~seen' /\ proc' = Waiting /\ UNCHANGED <<row, alerts, owed>>
          /\ \A r \in Reloaders : reload'[r] = Resting
      BY <1>7 DEF Crash, history
    <2> QED BY <1>2, <2>1, RecordsTyped DEF FreshInv
  <1>8. CASE UNCHANGED vars
    BY <1>2, <1>8 DEF FreshInv, vars, history
  <1> QED BY <1>3, <1>4, <1>6, <1>7, <1>8 DEF Next

-----------------------------------------------------------------------------
(* Alerts are paid for.                                                    *)

LEMMA StillPaid ==
  ASSUME TypeOK, NEW l \in Levels, Paid(l), MayFail,
         alerts'[l] = alerts[l], rearms'[l] = rearms[l] \/ rearms'[l] = rearms[l] + 1,
         stale' = stale \/ stale' = stale + 1,
         \/ l \in Ready' => l \in Ready
         \/ faults' = faults + 1 \/ stale' = stale + 1 \/ rearms'[l] = rearms[l] + 1
  PROVE  Paid(l)'
  <1>1. alerts[l] \in Nat /\ rearms[l] \in Nat /\ stale \in Nat /\ faults \in Nat
    BY BoundsAssumption DEF TypeOK
  <1>2. Credit(l) = (IF l \in Ready THEN 1 ELSE 0) /\ Credit(l)' = (IF l \in Ready' THEN 1 ELSE 0)
    BY DEF Credit
  <1> HIDE DEF Credit
  <1> QED BY <1>1, <1>2 DEF Paid, MayFail

LEMMA CreditStep ==
  TypeOK /\ FreshInv /\ PlanInv /\ CreditInv /\ [Next]_vars => CreditInv'
  <1> SUFFICES ASSUME TypeOK, FreshInv, PlanInv, CreditInv, [Next]_vars, NEW l \in Levels
               PROVE  Paid(l)'
    BY DEF CreditInv
  <1>0. /\ Paid(l) /\ MayFail /\ proc \in Processing /\ row \in Row /\ memory \in Copy
        /\ alerts \in [Levels -> Nat] /\ rearms \in [Levels -> Nat]
    BY CountersTyped DEF CreditInv, TypeOK
  <1>1. ASSUME UNCHANGED <<alerts, rearms, stale>>,
               (l \in Ready' => l \in Ready) \/ faults' = faults + 1
        PROVE  Paid(l)'
    BY <1>0, <1>1, StillPaid
  <1>2. CASE ArmCreate
    <2>1. alerts'[l] = 0 /\ rearms'[l] \in Nat /\ stale' \in Nat /\ faults' \in Nat
      BY <1>2, BoundsAssumption DEF ArmCreate, FreshInv, history, TypeOK
    <2>2. Credit(l)' \in {0, 1}
      BY DEF Credit
    <2>3. UNCHANGED <<alerts, rearms, stale, faults>>
      BY <1>2 DEF ArmCreate, history
    <2>4. alerts[l] = 0 /\ rearms[l] \in Nat /\ stale \in Nat /\ faults \in Nat
      BY <2>1, <2>3
    <2>5. CASE Credit(l)' = 0
      BY <2>3, <2>4, <2>5 DEF Paid
    <2>6. CASE Credit(l)' = 1
      BY <2>3, <2>4, <2>6 DEF Paid
    <2> QED BY <2>2, <2>5, <2>6
  <1>3. ASSUME NEW copy, Installs(copy) PROVE Paid(l)'
    <2>1. Ready' = IF Busy THEN Ready ELSE copy.armed \cup row.armed
      BY <1>3 DEF Installs, Install, Ready, Busy
    <2>2. copy = NoCopy \/ copy.armed = row.armed \/ stale' = stale + 1
      BY <1>3 DEF Installs, Install
    <2>3. (l \in Ready' => l \in Ready) \/ stale' = stale + 1
      BY <2>1, <2>2, RecordsTyped DEF Ready
    <2>4. UNCHANGED <<alerts, rearms>> /\ (stale' = stale \/ stale' = stale + 1)
      BY <1>3 DEF Installs, Install
    <2> QED BY <1>0, <2>3, <2>4, StillPaid
  <1>4. CASE Quiet
    BY <1>1, <1>4 DEF Quiet, Ready, Busy
  <1>5. CASE Crash
    BY <1>1, <1>5 DEF Crash, history
  <1>6. ASSUME NEW to \in Prices, PriceArrives(to) PROVE Paid(l)'
    <2> DEFINE hits == Hits(memory, to, ~seen)
               back == Rearmed(memory, to)
    <2>1. /\ proc'.armed = (memory.armed \ hits) \cup back /\ proc'.pc = "write"
          /\ proc'.hits = hits /\ proc'.todo = hits \cup back
          /\ UNCHANGED <<row, alerts, rearms, stale>> /\ proc.pc = "idle"
      BY <1>6 DEF PriceArrives, history
    <2>2. hits \subseteq memory.armed
      BY DEF Hits
    <2> HIDE DEF hits, back
    <2>3. Ready = memory.armed \cup row.armed /\ Busy' /\ proc'.pc # "alerted"
      BY <2>1 DEF Ready, Busy
    <2>4. Ready' \subseteq Ready
      BY <2>1, <2>2, <2>3 DEF Ready
    <2> QED BY <1>1, <2>1, <2>4
  <1>7. ASSUME Busy, Busy', proc'.armed = proc.armed, proc'.hits = proc.hits
        PROVE  /\ Ready = (proc.armed \ proc.todo) \cup (proc.hits \cap proc.todo)
                            \cup (row.armed \ IF proc.pc = "alerted" THEN proc.told ELSE {})
               /\ Ready' = (proc.armed \ proc'.todo) \cup (proc.hits \cap proc'.todo)
                            \cup (row'.armed \ IF proc'.pc = "alerted" THEN proc'.told ELSE {})
    BY <1>7 DEF Ready
  <1>8. CASE PriceWrite
    <2>1. /\ Busy /\ proc.pc = "write" /\ proc' = [proc EXCEPT !.pc = "levels", !.pending = FALSE]
          /\ UNCHANGED <<alerts, rearms, stale>>
      BY <1>8 DEF PriceWrite, Busy, history
    <2>2. /\ Busy' /\ proc'.pc = "levels" /\ proc'.armed = proc.armed /\ proc'.hits = proc.hits
          /\ proc'.todo = proc.todo
      BY <1>0, <2>1 DEF Busy, Processing
    <2>3. row'.armed = row.armed
      BY <1>0, <1>8 DEF PriceWrite, Row
    <2>4. Ready' = Ready
      BY <1>7, <2>1, <2>2, <2>3
    <2> QED BY <1>1, <2>1, <2>4
  <1>9. ASSUME NEW m \in Levels, Alert(m) PROVE Paid(l)'
    <2>1. /\ Busy /\ proc.pc = "levels" /\ m \in proc.todo \cap proc.hits
          /\ proc' = [proc EXCEPT !.pc = "alerted", !.todo = @ \ {m}, !.told = {m}]
          /\ UNCHANGED <<row, rearms, stale>>
      BY <1>9 DEF Alert, Busy
    <2>2. /\ Busy' /\ proc'.pc = "alerted" /\ proc'.armed = proc.armed /\ proc'.hits = proc.hits
          /\ proc'.todo = proc.todo \ {m}
      BY <1>0, <2>1 DEF Busy, Processing
    <2>3. m \notin proc.armed
      BY <2>1 DEF PlanInv
    <2>4. m \in Ready /\ m \notin Ready' /\ Ready' \subseteq Ready
      BY <1>7, <2>1, <2>2, <2>3
    <2>5. CASE UNCHANGED alerts
      BY <1>1, <2>1, <2>4, <2>5
    <2>6. CASE alerts' = [alerts EXCEPT ![m] = @ + 1] /\ NotLost
      <3>1. CASE l = m
        <4>1. /\ Credit(l) = 1 /\ Credit(l)' = 0 /\ alerts'[l] = alerts[l] + 1
              /\ UNCHANGED <<rearms, stale, faults>>
          BY <1>0, <2>1, <2>4, <2>6, <3>1 DEF Credit, NotLost
        <4>2. alerts[l] \in Nat /\ rearms[l] \in Nat /\ stale \in Nat /\ faults \in Nat
          BY BoundsAssumption DEF TypeOK
        <4> QED BY <1>0, <4>1, <4>2 DEF Paid
      <3>2. CASE l # m
        <4>1. alerts'[l] = alerts[l] /\ rearms'[l] = rearms[l]
          BY <1>0, <2>1, <2>6, <3>2
        <4> QED BY <1>0, <2>1, <2>4, <4>1, StillPaid
      <3> QED BY <3>1, <3>2
    <2> QED BY <1>9, <2>5, <2>6 DEF Alert
  <1>10. ASSUME NEW m \in Levels, Rearm(m) PROVE Paid(l)'
    <2>1. /\ Busy /\ proc.pc = "levels" /\ m \in proc.todo \ proc.hits
          /\ proc' = [proc EXCEPT !.todo = @ \ {m}]
          /\ rearms' = [rearms EXCEPT ![m] = @ + 1] /\ UNCHANGED <<alerts, stale>>
          /\ row' = [row EXCEPT !.armed = @ \cup {m}] \/ row' = row
      BY <1>10 DEF Rearm, Busy
    <2>2. /\ Busy' /\ proc'.pc = "levels" /\ proc'.armed = proc.armed /\ proc'.hits = proc.hits
          /\ proc'.todo = proc.todo \ {m}
      BY <1>0, <2>1 DEF Busy, Processing
    <2>3. row'.armed \subseteq row.armed \cup {m}
      BY <1>0, <2>1 DEF Row
    <2>4. Ready' \subseteq Ready \cup {m}
      BY <1>7, <2>1, <2>2, <2>3
    <2>5. rearms'[l] = IF l = m THEN rearms[l] + 1 ELSE rearms[l]
      BY <1>0, <2>1
    <2> QED BY <1>0, <2>1, <2>4, <2>5, StillPaid
  <1>11. CASE Disarm
    <2>1. /\ Busy /\ proc.pc = "alerted" /\ proc' = [proc EXCEPT !.pc = "levels", !.told = {}]
          /\ UNCHANGED <<alerts, rearms, stale>>
          /\ row' = [row EXCEPT !.armed = @ \ proc.told] \/ faults' = faults + 1
      BY <1>11 DEF Disarm, Busy, Lost, history
    <2>2. /\ Busy' /\ proc'.pc = "levels" /\ proc'.armed = proc.armed /\ proc'.hits = proc.hits
          /\ proc'.todo = proc.todo
      BY <1>0, <2>1 DEF Busy, Processing
    <2>3. CASE row' = [row EXCEPT !.armed = @ \ proc.told]
      <3>1. row'.armed = row.armed \ proc.told
        BY <1>0, <2>3 DEF Row
      <3>2. Ready' \subseteq Ready
        BY <1>7, <2>1, <2>2, <3>1
      <3> QED BY <1>1, <2>1, <3>2
    <2> QED BY <1>1, <2>1, <2>3
  <1>12. CASE PutBack
    <2>1. /\ Busy /\ proc.pc = "levels" /\ proc.todo = {} /\ UNCHANGED <<row, alerts, rearms, stale>>
          /\ memory' = NoCopy \/ memory' = After
          /\ proc' = Waiting \/ proc' = Completing
      BY <1>12 DEF PutBack, Busy, history
    <2>2. ~Busy'
      BY <1>0, <2>1, RecordsTyped DEF Busy, Processing
    <2>3. memory'.armed \subseteq proc.armed
      BY <2>1, RecordsTyped DEF After
    <2>4. Ready' \subseteq Ready
      BY <2>1, <2>2, <2>3 DEF Ready
    <2> QED BY <1>1, <2>1, <2>4
  <1>13. CASE Complete
    <2>1. ~Busy /\ ~Busy' /\ UNCHANGED <<memory, alerts, rearms, stale>> /\ row'.armed = row.armed
      BY <1>0, <1>13, RecordsTyped DEF Complete, Busy, history, Row
    <2> QED BY <1>1, <2>1 DEF Ready
  <1> QED BY <1>2, <1>3, <1>4, <1>5, <1>6, <1>8, <1>9, <1>10, <1>11, <1>12, <1>13, NextCases

-----------------------------------------------------------------------------
(* The copy and the row agree.                                             *)

LEMMA StaysClean ==
  ASSUME TypeOK, [Next]_vars, Clean'
  PROVE  Clean /\ ~Lost /\ ~Crash
  <1>1. faults \in Nat /\ stale \in Nat
    BY BoundsAssumption DEF TypeOK
  <1>2. faults = 0 /\ ~Lost /\ ~Crash
    BY <1>1, CountersTyped DEF MayFail, Clean, Lost, Crash
  <1>3. stale' = stale \/ stale' = stale + 1
    BY DEF Next, ArmCreate, ArmPut, PriceArrives, Process, PriceWrite, Alert, Disarm, Rearm,
           PutBack, Complete, Reload, ReloadRead, ReloadLevels, Expire, Swap, ThreadSet,
           Command, ThreadCommand, WorkerCommand, Crash, Install, vars, history
  <1>4. stale = 0
    BY <1>1, <1>3 DEF Clean
  <1> QED BY <1>2, <1>4 DEF Clean

LEMMA AgreeStep ==
  TypeOK /\ FreshInv /\ PlanInv /\ AgreeInv /\ [Next]_vars => AgreeInv'
  <1> SUFFICES ASSUME TypeOK, FreshInv, PlanInv, AgreeInv, [Next]_vars, Clean'
               PROVE  (IF Busy THEN During ELSE Between)'
    BY DEF AgreeInv
  <1>0. /\ Clean /\ ~Lost /\ ~Crash
        /\ proc \in Processing /\ row \in Row /\ memory \in Copy
        /\ (Busy => During) /\ (~Busy => Between)
    BY StaysClean DEF AgreeInv, TypeOK
  <1>p. /\ \A l \in Levels : PriceOf[l] \in Int
        /\ row.price \in Int /\ memory.armed \subseteq Levels /\ row.armed \subseteq Levels
    BY <1>0, LevelsAssumption, BoundsAssumption DEF Row, Copy, Quotes, Prices, NoPrice
  <1>1. ASSUME row'.armed = row.armed, row'.price = row.price, seen' => seen,
               UNCHANGED <<memory, proc, owed>>
        PROVE  (IF Busy THEN During ELSE Between)'
    <2>1. CASE Busy
      BY <1>0, <1>1, <2>1 DEF Busy, During, Due
    <2>2. CASE ~Busy
      BY <1>0, <1>1, <2>2 DEF Busy, Between
    <2> QED BY <2>1, <2>2
  <1>2. CASE ArmCreate
    <2>1. memory' = NoCopy /\ proc' = Waiting /\ ~seen' /\ owed' = {}
      BY <1>2 DEF ArmCreate, FreshInv, history
    <2>2. ~Busy'
      BY <2>1, RecordsTyped DEF Busy
    <2>3. Between'
      BY <2>1, RecordsTyped DEF Between
    <2> QED BY <2>2, <2>3
  <1>3. ASSUME NEW copy, Installs(copy) PROVE (IF Busy THEN During ELSE Between)'
    <2>1. UNCHANGED <<row, proc, owed>> /\ memory' = copy /\ (seen' => seen)
      BY <1>3 DEF Installs, Install
    <2>2. copy = NoCopy \/ (copy.armed = row.armed /\ copy.price = row.price)
      <3>1. stale' = 0 /\ stale = 0
        BY <1>0 DEF Clean
      <3> QED BY <1>3, <3>1 DEF Installs, Install
    <2>3. CASE Busy
      BY <1>0, <2>1, <2>3 DEF Busy, During, Due
    <2>4. CASE ~Busy
      BY <1>0, <2>1, <2>2, <2>4, RecordsTyped DEF Busy, Between
    <2> QED BY <2>3, <2>4
  <1>4. CASE Quiet
    BY <1>1, <1>4 DEF Quiet
  <1>5. ASSUME NEW to \in Prices, PriceArrives(to) PROVE (IF Busy THEN During ELSE Between)'
    <2> DEFINE hits == Hits(memory, to, ~seen)
               back == Rearmed(memory, to)
    <2>1. /\ proc'.armed = (memory.armed \ hits) \cup back /\ proc'.pc = "write"
          /\ proc'.hits = hits /\ proc'.todo = hits \cup back /\ proc'.to = to
          /\ UNCHANGED <<row, owed>> /\ proc.pc = "idle" /\ memory.here
      BY <1>5 DEF PriceArrives, history
    <2>2. /\ memory.armed = row.armed /\ memory.price = row.price /\ owed = {}
          /\ seen => \A l \in row.armed \cap Terminal : row.price > PriceOf[l]
      BY <1>0, <2>1 DEF Busy, Between
    <2>3. to \in Int
      BY BoundsAssumption DEF Prices
    <2>d. \A l \in row.armed :
             to <= PriceOf[l] /\ (l \in Terminal \/ row.price > PriceOf[l]) => l \in hits
      <3> SUFFICES ASSUME NEW l \in row.armed, to <= PriceOf[l],
                          l \in Terminal \/ row.price > PriceOf[l]
                   PROVE  l \in hits
        OBVIOUS
      <3>1. l \in memory.armed /\ PriceOf[l] \in Int /\ PriceOf[l] >= to
        BY <1>p, <2>2, <2>3
      <3>2. CASE memory.price > PriceOf[l]
        BY <3>1, <3>2 DEF Hits
      <3>3. CASE ~(memory.price > PriceOf[l])
        <4>1. l \in Terminal /\ ~seen
          BY <2>2, <3>3
        <4> QED BY <3>1, <4>1 DEF Hits
      <3> QED BY <3>2, <3>3
    <2>4. \A l \in (memory.armed \ hits) \cap Terminal : to > PriceOf[l]
      BY <1>p, <2>2, <2>3, <2>d
    <2>5. \A l \in back : to > PriceOf[l]
      BY DEF Rearmed
    <2>e. Due(to)' \subseteq hits
      BY <2>1, <2>d DEF Due
    <2>6. back \cap memory.armed = {} /\ hits \subseteq memory.armed
      BY DEF Hits, Rearmed
    <2> HIDE DEF hits, back
    <2>7. During'
      <3>1. \A l \in proc'.armed \cap Terminal : proc'.to > PriceOf[l]
        BY <2>1, <2>4, <2>5
      <3>2. Due(proc.to)' \subseteq proc'.hits \cap proc'.todo
        BY <2>1, <2>e DEF Due
      <3> QED BY <2>1, <2>2, <2>6, <3>1, <3>2 DEF During
    <2> QED BY <2>1, <2>7 DEF Busy
  <1>6. CASE PriceWrite
    <2>1. /\ Busy /\ proc.pc = "write" /\ proc' = [proc EXCEPT !.pc = "levels", !.pending = FALSE]
          /\ row'.armed = row.armed /\ row'.price = proc.to
          /\ owed' = owed \cup Due(proc.to)
      BY <1>0, <1>6 DEF PriceWrite, Busy, Row
    <2>2. /\ proc'.pc = "levels" /\ proc'.armed = proc.armed /\ proc'.hits = proc.hits
          /\ proc'.todo = proc.todo /\ proc'.to = proc.to
      BY <1>0, <2>1 DEF Processing
    <2>3. During'
      BY <1>0, <2>1, <2>2 DEF During
    <2> QED BY <2>2, <2>3 DEF Busy
  <1>7. ASSUME NEW m \in Levels, Alert(m) PROVE (IF Busy THEN During ELSE Between)'
    <2>1. /\ Busy /\ proc.pc = "levels" /\ m \in proc.todo \cap proc.hits
          /\ proc' = [proc EXCEPT !.pc = "alerted", !.todo = @ \ {m}, !.told = {m}] /\ UNCHANGED row
          /\ owed' = owed \ {m}
      BY <1>0, <1>7 DEF Alert, Busy
    <2>2. /\ proc'.pc = "alerted" /\ proc'.armed = proc.armed /\ proc'.hits = proc.hits
          /\ proc'.todo = proc.todo \ {m} /\ proc'.to = proc.to
      BY <1>0, <2>1 DEF Processing
    <2>3. m \notin proc.armed
      BY <2>1 DEF PlanInv
    <2>4. During'
      BY <1>0, <2>1, <2>2, <2>3 DEF During
    <2> QED BY <2>2, <2>4 DEF Busy
  <1>8. ASSUME NEW m \in Levels, Rearm(m) PROVE (IF Busy THEN During ELSE Between)'
    <2>1. /\ Busy /\ proc.pc = "levels" /\ m \in proc.todo \ proc.hits
          /\ proc' = [proc EXCEPT !.todo = @ \ {m}]
          /\ row' = [row EXCEPT !.armed = @ \cup {m}] /\ UNCHANGED owed
      BY <1>0, <1>8 DEF Rearm, Busy
    <2>2. /\ proc'.pc = "levels" /\ proc'.armed = proc.armed /\ proc'.hits = proc.hits
          /\ proc'.todo = proc.todo \ {m} /\ proc'.to = proc.to
          /\ row'.armed = row.armed \cup {m} /\ row'.price = row.price
      BY <1>0, <2>1 DEF Processing, Row
    <2>3. m \in proc.armed
      BY <2>1 DEF PlanInv
    <2>4. During'
      BY <1>0, <2>1, <2>2, <2>3 DEF During
    <2> QED BY <2>2, <2>4 DEF Busy
  <1>9. CASE Disarm
    <2>1. /\ Busy /\ proc.pc = "alerted" /\ proc' = [proc EXCEPT !.pc = "levels", !.told = {}]
          /\ row' = [row EXCEPT !.armed = @ \ proc.told] /\ UNCHANGED owed
      BY <1>0, <1>9 DEF Disarm, Busy, history
    <2>2. /\ proc'.pc = "levels" /\ proc'.armed = proc.armed /\ proc'.hits = proc.hits
          /\ proc'.todo = proc.todo /\ proc'.to = proc.to
          /\ row'.armed = row.armed \ proc.told /\ row'.price = row.price
      BY <1>0, <2>1 DEF Processing, Row
    <2>3. proc.told \cap proc.armed = {}
      BY <2>1 DEF PlanInv
    <2>4. During'
      BY <1>0, <2>1, <2>2, <2>3 DEF During
    <2> QED BY <2>2, <2>4 DEF Busy
  <1>10. CASE PutBack
    <2>1. /\ Busy /\ proc.pc = "levels" /\ proc.todo = {} /\ UNCHANGED row
          /\ memory' = NoCopy \/ memory' = After
          /\ proc' = Waiting \/ proc' = Completing
          /\ UNCHANGED owed
      BY <1>10 DEF PutBack, Busy, history
    <2>2. ~Busy'
      BY <1>0, <2>1, RecordsTyped DEF Busy, Processing
    <2>3. row.armed = proc.armed /\ row.price = proc.to /\ owed = {}
      BY <1>0, <2>1 DEF During
    <2>4. After.armed = proc.armed /\ After.price = proc.to
      BY DEF After
    <2>5. Between'
      BY <1>0, <2>1, <2>3, <2>4, RecordsTyped DEF Between, During
    <2> QED BY <2>2, <2>5
  <1>11. CASE Complete
    <2>1. /\ ~Busy /\ ~Busy' /\ UNCHANGED <<memory, seen, owed>>
          /\ row'.armed = row.armed /\ row'.price = row.price
      BY <1>0, <1>11, RecordsTyped DEF Complete, Busy, Row, history
    <2> QED BY <1>0, <2>1 DEF Between
  <1> QED BY <1>0, <1>2, <1>3, <1>4, <1>5, <1>6, <1>7, <1>8, <1>9, <1>10, <1>11, NextCases

-----------------------------------------------------------------------------
(* A terminal hit ends the tracker.                                        *)

(* The status goes from off to live by a resume only, or by the commit of  *)
(* a price whose row was read while it was pending.                        *)
LEMMA StatusSteps ==
  ASSUME TypeOK, CommandInv, [Next]_vars, ~resumed', ~ArmCreate, ~PriceWrite
  PROVE  ~resumed /\ (row'.status = row.status \/ row'.status \in Off)
  <1>0. row \in Row
    BY DEF TypeOK
  <1>1. \A s : [row EXCEPT !.status = s].status = s
    BY <1>0 DEF Row
  <1>2. \A levels : [row EXCEPT !.armed = levels].status = row.status
    BY <1>0 DEF Row
  <1>3. ~resumed
    <2>1. resumed \in BOOLEAN /\ resumed' \in BOOLEAN
      BY MemoryTyped DEF TypeOK
    <2>2. \/ UNCHANGED resumed \/ \E a : resumed' = (resumed \/ a = "resume")
      BY DEF Next, ArmPut, PriceArrives, Process, Alert, Disarm, Rearm, PutBack, Complete,
             Reload, ReloadRead, ReloadLevels, Expire, Swap, ThreadSet, Command,
             ThreadCommand, WorkerCommand, Crash, vars, history
    <2> QED BY <2>1, <2>2
  <1> SUFFICES row'.status = row.status \/ row'.status \in Off
    BY <1>3
  <1>4. ASSUME NEW a \in DOMAIN TargetOf, WorkerCommand(a) PROVE row'.status \in Off
    <2>1. a # "resume"
      BY <1>4 DEF WorkerCommand
    <2>2. row' = [row EXCEPT !.status = TargetOf[a]]
      BY <1>4 DEF WorkerCommand
    <2> QED BY <1>1, <2>1, <2>2, TargetTyped
  <1>5. CASE ThreadSet
    <2> DEFINE a == reload["thread"].action
    <2>1. \/ UNCHANGED row
          \/ a # "set_ttl" /\ a # "resume" /\ row' = [row EXCEPT !.status = TargetOf[a]]
      BY <1>5 DEF ThreadSet
    <2>2. a \in DOMAIN TargetOf \cup {"set_ttl"}
      BY <1>5 DEF ThreadSet, CommandInv
    <2> HIDE DEF a
    <2> QED BY <1>1, <2>1, <2>2, TargetTyped
  <1>6. CASE Complete \/ \E r \in Reloaders : Expire(r)
    <2>1. \/ UNCHANGED row \/ row' = [row EXCEPT !.status = "completed"]
          \/ row' = [row EXCEPT !.status = "expired"]
      BY <1>6 DEF Complete, Expire
    <2> QED BY <1>1, <2>1 DEF Off
  <1>7. CASE Disarm \/ \E l \in Levels : Rearm(l)
    <2>1. UNCHANGED row \/ \E levels : row' = [row EXCEPT !.armed = levels]
      BY <1>7 DEF Disarm, Rearm
    <2> QED BY <1>2, <2>1
  <1>8. CASE UNCHANGED row
    BY <1>8
  <1> QED BY <1>4, <1>5, <1>6, <1>7, <1>8
          DEF Next, ArmPut, PriceArrives, Process, Alert, PutBack, Reload, ReloadRead,
              ReloadLevels, Swap, Command, ThreadCommand, Crash, vars

LEMMA EndStep ==
  TypeOK /\ CommandInv /\ PlanInv /\ EndInv /\ [Next]_vars => EndInv'
  <1> SUFFICES ASSUME TypeOK, CommandInv, PlanInv, EndInv, [Next]_vars, ~resumed', faults' = 0
               PROVE  EndInv'
    BY DEF EndInv
  <1>0. /\ proc \in Processing /\ row \in Row
        /\ faults = 0 /\ ~Lost /\ ~Crash
    <2>1. faults \in Nat
      BY BoundsAssumption DEF TypeOK
    <2> QED BY <2>1, CountersTyped DEF MayFail, Lost, Crash, TypeOK
  <1>o. Off \cap Live = {}
    BY DEF Off, Live
  <1>1. CASE ArmCreate
    <2>1. Unhit'
      BY <1>1, ArmPricesQuoted, RecordsTyped, LevelsAssumption DEF ArmCreate, Unhit
    <2> QED BY <2>1 DEF EndInv
  <1>2. CASE PriceWrite
    <2> DEFINE status == IF proc.pending THEN "active" ELSE row.status
    <2>1. /\ proc.pc = "write" /\ proc' = [proc EXCEPT !.pc = "levels", !.pending = FALSE] /\ UNCHANGED resumed
          /\ row' = [row EXCEPT !.price = proc.to, !.status = status]
      BY <1>0, <1>2 DEF PriceWrite, history
    <2>2. proc'.pc = "levels" /\ row'.armed = row.armed /\ row'.status = status
      BY <1>0, <2>1 DEF Processing, Row
    <2>3. proc.pending \in BOOLEAN
      BY <1>0 DEF Processing
    <2> QED BY <1>0, <2>1, <2>2, <2>3 DEF EndInv, Unhit
  <1>3. CASE ~ArmCreate /\ ~PriceWrite
    <2>1. ~resumed /\ (row'.status = row.status \/ row'.status \in Off)
      BY <1>3, StatusSteps
    <2>2. row'.status \in Live => row.status \in Live
      BY <1>o, <2>1
    <2>3. ASSUME UNCHANGED proc, row'.armed = row.armed PROVE EndInv'
      BY <1>0, <2>1, <2>2, <2>3 DEF EndInv, Unhit, Completes
    <2>4. ASSUME NEW copy, Installs(copy) PROVE EndInv'
      BY <2>3, <2>4 DEF Installs
    <2>5. Quiet => EndInv'
      BY <2>3 DEF Quiet
    <2>6. ASSUME NEW to \in Prices, PriceArrives(to) PROVE EndInv'
      <3>1. /\ proc.pc = "idle" /\ proc'.pc = "write" /\ UNCHANGED row
            /\ proc'.pending = (row.status = "pending")
        BY <2>6 DEF PriceArrives
      <3> QED BY <1>0, <2>1, <3>1 DEF EndInv, Unhit, Live
    <2>7. ASSUME proc.pc \in {"levels", "alerted"}, proc'.pc \in {"levels", "alerted"},
                 proc'.hits = proc.hits, Unhit => Unhit' \/ Completes
          PROVE  EndInv'
      BY <1>0, <2>1, <2>2, <2>7 DEF EndInv, Completes
    <2>8. ASSUME NEW l \in Levels, Alert(l) PROVE EndInv'
      <3>1. /\ proc.pc = "levels" /\ UNCHANGED row
            /\ proc' = [proc EXCEPT !.pc = "alerted", !.todo = @ \ {l}, !.told = {l}]
        BY <2>8 DEF Alert
      <3>2. proc'.pc = "alerted" /\ proc'.hits = proc.hits
        BY <1>0, <3>1 DEF Processing
      <3> QED BY <2>7, <3>1, <3>2 DEF Unhit
    <2>9. ASSUME NEW l \in Levels, Rearm(l) PROVE EndInv'
      <3>1. /\ proc.pc = "levels" /\ row' = [row EXCEPT !.armed = @ \cup {l}]
            /\ proc' = [proc EXCEPT !.todo = @ \ {l}]
        BY <1>0, <2>9 DEF Rearm
      <3>2. proc'.pc = "levels" /\ proc'.hits = proc.hits /\ row'.armed = row.armed \cup {l}
        BY <1>0, <3>1 DEF Processing, Row
      <3> QED BY <2>7, <3>1, <3>2 DEF Unhit
    <2>10. CASE Disarm
      <3>1. /\ proc.pc = "alerted" /\ row' = [row EXCEPT !.armed = @ \ proc.told]
            /\ proc' = [proc EXCEPT !.pc = "levels", !.told = {}]
        BY <1>0, <2>10 DEF Disarm
      <3>2. /\ proc'.pc = "levels" /\ proc'.hits = proc.hits
            /\ row'.armed = row.armed \ proc.told
        BY <1>0, <3>1 DEF Processing, Row
      <3>3. proc.told \subseteq proc.hits
        BY <3>1 DEF PlanInv, Busy
      <3> QED BY <2>7, <3>1, <3>2, <3>3 DEF Unhit, Completes
    <2>11. CASE PutBack
      <3>1. /\ proc.pc = "levels" /\ UNCHANGED row
            /\ IF Completes THEN proc' = Completing ELSE proc' = Waiting
        BY <2>11 DEF PutBack
      <3>2. IF Completes THEN proc'.pc = "complete" ELSE proc'.pc = "idle"
        BY <1>0, <3>1, RecordsTyped DEF Processing
      <3> QED BY <1>0, <2>1, <3>1, <3>2 DEF EndInv, Unhit
    <2>12. CASE Complete
      <3>1. row'.status = "completed" /\ proc'.pc = "idle"
        BY <1>0, <2>12, RecordsTyped DEF Complete, Row
      <3> QED BY <3>1 DEF EndInv, Live
    <2> QED BY <1>0, <1>3, <2>4, <2>5, <2>6, <2>8, <2>9, <2>10, <2>11, <2>12, NextCases
  <1> QED BY <1>1, <1>2, <1>3

-----------------------------------------------------------------------------
SafeInv ==
  TypeOK /\ CommandInv /\ FreshInv /\ PlanInv /\ CreditInv /\ AgreeInv /\ EndInv

LEMMA InitSafe == Init => SafeInv
  <1> SUFFICES ASSUME Init PROVE SafeInv
    OBVIOUS
  <1>1. /\ row.status = "none" /\ row.armed = {} /\ memory = NoCopy /\ proc = Waiting
        /\ \A r \in Reloaders : reload[r] = Resting
        /\ \A l \in Levels : alerts[l] = 0 /\ rearms[l] = 0
        /\ stale = 0 /\ faults = 0 /\ ~seen /\ owed = {}
    BY DEF Init
  <1>2. ~Busy /\ FreshInv /\ PlanInv
    BY <1>1, RecordsTyped DEF Busy, FreshInv, PlanInv
  <1>3. CreditInv
    <2> SUFFICES ASSUME NEW l \in Levels PROVE Paid(l)
      BY DEF CreditInv
    <2>1. Credit(l) = 0
      BY <1>1, <1>2, RecordsTyped DEF Credit, Ready
    <2> QED BY <1>1, <2>1 DEF Paid
  <1>4. AgreeInv
    BY <1>1, <1>2, RecordsTyped DEF AgreeInv, Between
  <1>5. EndInv
    BY <1>1, RecordsTyped DEF EndInv, Live
  <1> QED BY <1>2, <1>3, <1>4, <1>5, InitType DEF SafeInv

LEMMA AlwaysSafe == Spec => []SafeInv
  <1>1. SafeInv /\ [Next]_vars => SafeInv'
    BY StepType, FreshStep, PlanStep, CreditStep, AgreeStep, EndStep DEF SafeInv
  <1> QED BY <1>1, InitSafe, PTL DEF Spec

(* A level alerts once; a second alert has an arming, a stale copy in      *)
(* memory, a restart or a failed call behind it, however prices, reloads,  *)
(* commands and restarts interleave.                                       *)
THEOREM AlertsArePaid == Spec => []RepeatsAccounted
  <1>1. SafeInv => RepeatsAccounted
    <2> SUFFICES ASSUME SafeInv, NEW l \in Levels
                 PROVE  alerts[l] <= 1 + rearms[l] + stale + faults
      BY DEF RepeatsAccounted
    <2>1. /\ alerts[l] \in Nat /\ rearms[l] \in Nat /\ stale \in Nat /\ faults \in Nat
          /\ Credit(l) \in {0, 1} /\ alerts[l] + Credit(l) <= 1 + rearms[l] + stale + faults
      BY BoundsAssumption DEF SafeInv, TypeOK, Credit, CreditInv, Paid
    <2> QED BY <2>1
  <1> QED BY <1>1, AlwaysSafe, PTL

(* An armed level that a committed price crossed, or a terminal one that   *)
(* it was beyond, was alerted, unless a restart, a lost write or a stale   *)
(* copy came in between; wherever the levels lie and the plan was armed.   *)
THEOREM CrossingsAlerted == Spec => []NoCrossingSwallowed
  <1>1. SafeInv => NoCrossingSwallowed
    <2> SUFFICES ASSUME SafeInv, proc.pc = "idle", stale + faults = 0
                 PROVE  owed = {}
      BY DEF NoCrossingSwallowed
    <2>1. Clean
      BY BoundsAssumption DEF SafeInv, TypeOK, Clean
    <2> QED BY <2>1 DEF SafeInv, AgreeInv, Busy, Between
  <1> QED BY <1>1, AlwaysSafe, PTL

(* A terminal level that was hit ends the tracker, whatever reloads and    *)
(* commands happen meanwhile: only a resume makes it live again.           *)
THEOREM HitsEndTrackers == Spec => []TerminalEnds
  <1>1. SafeInv => TerminalEnds
    BY DEF SafeInv, EndInv, TerminalEnds, Unhit
  <1> QED BY <1>1, AlwaysSafe, PTL
=============================================================================
