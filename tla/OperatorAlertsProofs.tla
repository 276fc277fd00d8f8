------------------------ MODULE OperatorAlertsProofs ------------------------
(***************************************************************************)
(* Proofs about OperatorAlerts, for any candidates, any number of failed   *)
(* calls and of restarts of either process: the types, that repeated       *)
(* messages and lost notifications are accounted for by faults, that the   *)
(* operator hears of one episode at a time, and that what the operator     *)
(* decided stays.                                                          *)
(***************************************************************************)
EXTENDS OperatorAlerts, FiniteSetTheorems, TLAPS

PumpState == [pc : {"idle", "send", "mark", "refuse", "dead"},
              batch : SUBSET Keys, current : SUBSET Keys]

(* The rows of a batch are leased and stay leased; a row has an attempt    *)
(* left until it is given up.                                              *)
BatchLeased ==
  /\ pump.current \subseteq pump.batch /\ \A k, l \in pump.current : k = l
  /\ \A k \in pump.batch : row[k] = "sending" /\ k \notin lapsed
  /\ pump.pc \in {"idle", "dead"} => pump.batch = {}
  /\ \A k \in Keys : attempts[k] < MaxAttempts \/ row[k] = "dead_letter"

(* The message that is owed to nobody's fault: the one of a row that is    *)
(* marked sent, or is about to be.                                         *)
Credit(k) ==
  IF row[k] = "sent" \/ (pump.pc = "mark" /\ k \in pump.current) THEN 1 ELSE 0

PostsAccounted ==
  \A k \in Keys : posts[k] <= publisherRestarts + failures + Credit(k)

OutboxInv == OutboxTypeOK /\ BatchLeased /\ PostsAccounted

(* A call either returns or uses up one of the failures.                   *)
Call == Returns \/ Raises

-----------------------------------------------------------------------------
(* The outbox.                                                             *)

LEMMA IdleTyped == /\ IdlePump \in PumpState
                   /\ IdlePump.pc = "idle" /\ IdlePump.batch = {} /\ IdlePump.current = {}
  BY DEF IdlePump, PumpState

LEMMA FailuresTyped ==
  ASSUME OutboxTypeOK, Call
  PROVE  /\ failures \in Nat /\ failures' \in Nat /\ failures' \in 0 .. MaxFailures
         /\ publisherRestarts \in Nat
         /\ failures' = failures \/ failures' = failures + 1
  BY OutboxAssumption DEF OutboxTypeOK, Call, Returns, Raises

(* Where the pump stands after the rest of its batch is known.             *)
LEMMA ContinueTyped ==
  ASSUME NEW batch \in SUBSET Keys, Continue(batch)
  PROVE  /\ pump' \in PumpState
         /\ pump'.batch = batch /\ pump'.current = {} /\ pump'.pc \in {"idle", "send"}
         /\ pump'.pc = "idle" => batch = {}
  BY IdleTyped DEF Continue, PumpState, IdlePump

LEMMA OutboxInit0 == Init => OutboxInv
  BY OutboxAssumption, IdleTyped
     DEF Init, OutboxInit, OutboxInv, OutboxTypeOK, BatchLeased, PostsAccounted, Credit,
         PumpState, RowStatus

(* The steps of the others leave the outbox alone or put a row into it.    *)
LEMMA OutboxElse ==
  ASSUME OutboxInv, Call, UNCHANGED outbox \/ \E k \in Keys : Enqueue(k)
  PROVE  OutboxInv'
  <1> USE DEF OutboxInv
  <1>1. OutboxTypeOK'
    BY FailuresTyped DEF OutboxTypeOK, Enqueue, outbox, RowStatus
  <1>2. UNCHANGED <<attempts, lapsed, posts, pump, publisherRestarts>>
    BY DEF Enqueue, outbox
  <1>3. \A k \in Keys : row'[k] = row[k] \/ (row[k] = "none" /\ row'[k] = "pending")
    BY DEF Enqueue, outbox, OutboxTypeOK
  <1>4. BatchLeased'
    BY <1>2, <1>3 DEF BatchLeased, OutboxTypeOK
  <1>5. ASSUME NEW k \in Keys
        PROVE  posts'[k] <= publisherRestarts' + failures' + Credit(k)'
    <2>1. Credit(k)' = Credit(k)
      BY <1>2, <1>3 DEF Credit
    <2>2. Credit(k) \in Nat /\ posts[k] \in Nat
      BY DEF Credit, OutboxTypeOK
    <2> QED BY <1>2, <2>1, <2>2, FailuresTyped DEF PostsAccounted
  <1> QED BY <1>1, <1>4, <1>5 DEF PostsAccounted

LEMMA Accounts ==
  ASSUME NEW p \in Nat, NEW q \in Nat, NEW c \in Nat, NEW d \in Nat,
         NEW m \in Nat, NEW n \in Nat, NEW x \in Nat,
         p <= m + c, n = m + x, q + c <= p + d + x
  PROVE  q <= n + d
  OBVIOUS

(* The message of a step is owed to its credit or to its fault.            *)
Owed(faults) ==
  /\ publisherRestarts' + failures' = publisherRestarts + failures + faults
  /\ \A k \in Keys : posts'[k] + Credit(k) <= posts[k] + Credit(k)' + faults

LEMMA PostsFrame ==
  ASSUME OutboxTypeOK, PostsAccounted, OutboxTypeOK',
         NEW faults \in {0, 1}, Owed(faults)
  PROVE  PostsAccounted'
  <1> SUFFICES ASSUME NEW k \in Keys
               PROVE  posts'[k] <= publisherRestarts' + failures' + Credit(k)'
    BY DEF PostsAccounted
  <1>1. /\ posts[k] \in Nat /\ posts'[k] \in Nat
        /\ publisherRestarts \in Nat /\ failures \in Nat
        /\ publisherRestarts' \in Nat /\ failures' \in Nat
    BY OutboxAssumption DEF OutboxTypeOK
  <1>2. Credit(k) \in Nat /\ Credit(k)' \in Nat
    BY DEF Credit
  <1>3. posts[k] <= publisherRestarts + failures + Credit(k)
    BY DEF PostsAccounted
  <1>4. /\ posts'[k] + Credit(k) <= posts[k] + Credit(k)' + faults
        /\ publisherRestarts' + failures' = publisherRestarts + failures + faults
    BY DEF Owed
  <1>5. /\ publisherRestarts + failures \in Nat
        /\ publisherRestarts' + failures' \in Nat
    BY <1>1
  <1> DEFINE p == posts[k]
             q == posts'[k]
             c == Credit(k)
             d == Credit(k)'
             m == publisherRestarts + failures
             n == publisherRestarts' + failures'
  <1>6. /\ p \in Nat /\ q \in Nat /\ c \in Nat /\ d \in Nat /\ m \in Nat /\ n \in Nat
        /\ p <= m + c /\ n = m + faults /\ q + c <= p + d + faults
    BY <1>1, <1>2, <1>3, <1>4, <1>5
  <1> HIDE DEF p, q, c, d, m, n
  <1>7. q <= n + d
    BY <1>6, Accounts
  <1> QED BY <1>7 DEF q, n, d

LEMMA ClaimKeeps ==
  ASSUME OutboxInv, NEW again \in SUBSET Keys, Claim(again)
  PROVE  OutboxInv'
  <1> USE DEF OutboxInv
  <1> DEFINE rows == again \cup Expired \cup {k \in Keys : row[k] = "pending"}
  <1>1. rows \in SUBSET Keys
    BY DEF Expired, OutboxTypeOK
  <1>2. \A k \in rows : row[k] \in {"failed", "sending", "pending"}
    BY DEF Expired, Claim
  <1>3. /\ Continue(rows) /\ lapsed' = lapsed \ rows /\ pump = IdlePump
        /\ row' = [k \in Keys |-> IF k \in rows THEN "sending" ELSE row[k]]
        /\ UNCHANGED <<attempts, posts, publisherRestarts, failures>>
    BY DEF Claim, Returns
  <1> HIDE DEF rows
  <1>4. /\ pump' \in PumpState /\ pump'.batch = rows /\ pump'.current = {}
        /\ pump'.pc \in {"idle", "send"} /\ (pump'.pc = "idle" => rows = {})
    BY <1>1, <1>3, ContinueTyped
  <1>5. OutboxTypeOK'
    BY <1>1, <1>3, <1>4 DEF OutboxTypeOK, PumpState, RowStatus
  <1>6. BatchLeased'
    BY <1>1, <1>2, <1>3, <1>4 DEF BatchLeased
  <1>7. \A k \in Keys : Credit(k)' = Credit(k)
    BY <1>2, <1>3, <1>4, IdleTyped DEF Credit
  <1>8. \A k \in Keys : posts'[k] + Credit(k) <= posts[k] + Credit(k)' + 0
    BY <1>3, <1>7 DEF OutboxTypeOK, Credit
  <1>9. publisherRestarts' + failures' = publisherRestarts + failures + 0
    BY <1>3, OutboxAssumption DEF OutboxTypeOK
  <1> QED BY <1>5, <1>6, <1>8, <1>9, PostsFrame DEF Owed

(* A message is sent: delivered, refused, or delivered with a lost answer. *)
LEMMA SendKeeps ==
  ASSUME OutboxInv, NEW k \in Keys, Delivered(k) \/ Refused(k) \/ AnswerLost(k)
  PROVE  OutboxInv'
  <1> USE DEF OutboxInv
  <1>1. /\ pump.pc = "send" /\ k \in pump.batch
        /\ UNCHANGED <<row, attempts, lapsed, publisherRestarts>>
    BY DEF Delivered, Refused, AnswerLost, Sending
  <1>2. PICK pc \in {"mark", "refuse"} :
          /\ pump' = [pump EXCEPT !.pc = pc, !.current = {k}]
          /\ Delivered(k) => pc = "mark"
    BY DEF Delivered, Refused, AnswerLost, Answer
  <1>a. pump \in PumpState
    BY DEF OutboxTypeOK, PumpState
  <1>b. /\ pump' \in PumpState /\ pump'.batch = pump.batch /\ pump'.current = {k}
        /\ pump'.pc = pc
    BY <1>2, <1>a DEF PumpState
  <1>3. posts' \in [Keys -> Nat] /\ Call
    BY DEF Delivered, Refused, AnswerLost, OutboxTypeOK, Call
  <1>4. OutboxTypeOK'
    BY <1>1, <1>b, <1>3, FailuresTyped DEF OutboxTypeOK, PumpState
  <1>5. BatchLeased'
    BY <1>1, <1>b DEF BatchLeased
  <1>6. /\ Credit(k) = 0
        /\ \A l \in Keys : l # k => Credit(l)' = Credit(l)
        /\ Delivered(k) => Credit(k)' = 1
        /\ Credit(k)' \in 0 .. 1
    <2>1. Credit(k) = 0
      BY <1>1 DEF Credit, BatchLeased
    <2>2. \A l \in Keys : l # k => Credit(l)' = Credit(l)
      BY <1>1, <1>b DEF Credit
    <2>3. Delivered(k) => Credit(k)' = 1
      BY <1>2, <1>b DEF Credit
    <2> QED BY <2>1, <2>2, <2>3 DEF Credit
  <1>7. CASE AnswerLost(k)
    <2>1. /\ \A l \in Keys : posts'[l] = IF l = k THEN posts[l] + 1 ELSE posts[l]
          /\ failures' = failures + 1
      BY <1>7 DEF AnswerLost, Raises, OutboxTypeOK
    <2>2. \A l \in Keys : posts'[l] + Credit(l) <= posts[l] + Credit(l)' + 1
      BY <1>6, <2>1 DEF OutboxTypeOK, Credit
    <2>3. publisherRestarts' + failures' = publisherRestarts + failures + 1
      BY <1>1, <2>1, OutboxAssumption DEF OutboxTypeOK
    <2> QED BY <1>4, <1>5, <2>2, <2>3, PostsFrame DEF Owed
  <1>8. CASE Delivered(k) \/ Refused(k)
    <2>1. \A l \in Keys : posts'[l] + Credit(l) <= posts[l] + Credit(l)' + 0
      <3> TAKE l \in Keys
      <3>1. posts[l] \in Nat /\ Credit(l) \in Nat /\ Credit(l)' \in Nat
        BY DEF OutboxTypeOK, Credit
      <3>2. CASE l = k /\ Delivered(k)
        <4>1. posts'[k] = posts[k] + 1
          BY <3>2 DEF Delivered, OutboxTypeOK
        <4> QED BY <1>6, <3>1, <3>2, <4>1
      <3>3. CASE l # k \/ Refused(k)
        <4>1. posts'[l] = posts[l]
          BY <1>8, <3>3 DEF Delivered, Refused, OutboxTypeOK
        <4> QED BY <1>6, <3>1, <3>3, <4>1
      <3> QED BY <1>8, <3>2, <3>3
    <2>2. publisherRestarts' + failures' = publisherRestarts + failures + 0
      BY <1>1, <1>8, OutboxAssumption DEF OutboxTypeOK, Delivered, Refused, Returns
    <2> QED BY <1>4, <1>5, <2>1, <2>2, PostsFrame DEF Owed
  <1> QED BY <1>7, <1>8

(* A message is marked, sent or failed.                                    *)
LEMMA MarkKeeps ==
  ASSUME OutboxInv, NEW k \in Keys, MarkSent(k) \/ MarkFailed(k)
  PROVE  OutboxInv'
  <1> USE DEF OutboxInv
  <1>1. PICK status \in RowStatus \ {"none"} : Mark(k, status)
    BY DEF MarkSent, MarkFailed, RowStatus
  <1>2. /\ k \in pump.current /\ k \in pump.batch /\ row[k] = "sending"
        /\ attempts[k] < MaxAttempts
        /\ lapsed' = lapsed \ {k} /\ Continue(pump.batch \ {k})
        /\ UNCHANGED <<posts, publisherRestarts, failures>>
        /\ row' = [row EXCEPT ![k] = status]
    BY <1>1 DEF Mark, BatchLeased, Returns
  <1>3. pump.batch \ {k} \in SUBSET Keys
    BY DEF OutboxTypeOK
  <1>4. /\ pump' \in PumpState /\ pump'.batch = pump.batch \ {k} /\ pump'.current = {}
        /\ pump'.pc \in {"idle", "send"} /\ (pump'.pc = "idle" => pump.batch \ {k} = {})
    BY <1>2, <1>3, ContinueTyped
  <1>5. /\ attempts' \in [Keys -> 0 .. MaxAttempts]
        /\ \A l \in Keys : attempts'[l] < MaxAttempts \/ row'[l] = "dead_letter"
    <2>1. CASE MarkSent(k)
      BY <1>2, <2>1 DEF MarkSent, OutboxTypeOK, BatchLeased
    <2>2. CASE MarkFailed(k)
      <3>1. attempts[k] \in Nat /\ attempts' = [attempts EXCEPT ![k] = @ + 1]
        BY <2>2, OutboxAssumption DEF OutboxTypeOK, MarkFailed
      <3>2. attempts[k] + 1 \in 0 .. MaxAttempts
        BY <1>2, <3>1, OutboxAssumption
      <3>3. attempts'[k] >= MaxAttempts => row'[k] = "dead_letter"
        BY <2>2 DEF MarkFailed, Mark, OutboxTypeOK
      <3>4. attempts'[k] = attempts[k] + 1
        BY <3>1 DEF OutboxTypeOK
      <3>5. attempts' \in [Keys -> 0 .. MaxAttempts]
        BY <3>1, <3>2 DEF OutboxTypeOK
      <3>6. attempts'[k] < MaxAttempts \/ row'[k] = "dead_letter"
        BY <3>1, <3>3, <3>4, OutboxAssumption
      <3>7. \A l \in Keys : l # k => attempts'[l] = attempts[l] /\ row'[l] = row[l]
        BY <1>2, <3>1 DEF OutboxTypeOK
      <3> QED BY <3>5, <3>6, <3>7 DEF BatchLeased
    <2> QED BY <2>1, <2>2
  <1>6. OutboxTypeOK'
    BY <1>2, <1>4, <1>5 DEF OutboxTypeOK, PumpState
  <1>7. BatchLeased'
    BY <1>2, <1>4, <1>5 DEF BatchLeased, OutboxTypeOK
  <1>8. \A l \in Keys : Credit(l) <= Credit(l)'
    <2> TAKE l \in Keys
    <2>1. CASE l = k /\ MarkSent(k)
      <3>1. row'[l] = "sent"
        BY <2>1 DEF MarkSent, Mark, OutboxTypeOK
      <3> QED BY <3>1 DEF Credit
    <2>2. CASE l = k /\ MarkFailed(k)
      <3>1. pump.pc = "refuse"
        BY <2>2 DEF MarkFailed
      <3> QED BY <1>2, <2>2, <3>1 DEF Credit
    <2>3. CASE l # k /\ l \notin pump.batch
      BY <1>2, <2>3 DEF Credit, BatchLeased, OutboxTypeOK
    <2>4. CASE l # k /\ l \in pump.batch
      <3>1. row[l] = "sending"
        BY <2>4 DEF BatchLeased
      <3>2. l \notin pump.current
        BY <1>2, <2>4 DEF BatchLeased
      <3> QED BY <3>1, <3>2 DEF Credit
    <2> QED BY <2>1, <2>2, <2>3, <2>4
  <1>9. \A l \in Keys : posts'[l] + Credit(l) <= posts[l] + Credit(l)' + 0
    BY <1>2, <1>8 DEF OutboxTypeOK, Credit
  <1>10. publisherRestarts' + failures' = publisherRestarts + failures + 0
    BY <1>2, OutboxAssumption DEF OutboxTypeOK
  <1> QED BY <1>6, <1>7, <1>9, <1>10, PostsFrame DEF Owed

(* The marking raises, the pump's task ends, or its process restarts: a    *)
(* credit may be lost, and there is the fault to show for it.              *)
LEMMA FaultKeeps ==
  ASSUME OutboxInv, MarkSentRaises \/ PumpDies \/ PublisherRestarts
  PROVE  OutboxInv'
  <1> USE DEF OutboxInv
  <1>1. UNCHANGED <<row, attempts, lapsed, posts>>
    BY DEF MarkSentRaises, PumpDies, PublisherRestarts
  <1>2. /\ publisherRestarts \in Nat /\ failures \in Nat
        /\ failures' \in 0 .. MaxFailures /\ publisherRestarts' \in 0 .. MaxRestarts
        /\ publisherRestarts' + failures' = publisherRestarts + failures + 1
    BY OutboxAssumption
       DEF OutboxTypeOK, MarkSentRaises, PumpDies, PublisherRestarts, Raises, Returns
  <1>3. pump \in PumpState
    BY DEF OutboxTypeOK, PumpState
  <1>4. /\ pump' \in PumpState /\ pump'.batch \subseteq pump.batch
        /\ pump'.current \subseteq pump'.batch /\ \A k, l \in pump'.current : k = l
        /\ pump'.pc \in {"idle", "dead"} => pump'.batch = {}
    <2>1. CASE MarkSentRaises
      <3>1. pump' = [pump EXCEPT !.pc = "refuse"]
        BY <2>1 DEF MarkSentRaises
      <3> QED BY <1>3, <3>1 DEF PumpState, BatchLeased
    <2>2. CASE PumpDies
      BY <2>2, IdleTyped DEF PumpDies, PumpState, IdlePump
    <2>3. CASE PublisherRestarts
      BY <2>3, IdleTyped DEF PublisherRestarts
    <2> QED BY <2>1, <2>2, <2>3
  <1>5. OutboxTypeOK'
    BY <1>1, <1>2, <1>4 DEF OutboxTypeOK, PumpState
  <1>6. BatchLeased'
    BY <1>1, <1>4 DEF BatchLeased
  <1>7. ASSUME NEW k \in Keys
        PROVE  posts'[k] + Credit(k) <= posts[k] + Credit(k)' + 1
    <2>1. /\ posts'[k] = posts[k] /\ posts[k] \in Nat
          /\ Credit(k) \in {0, 1} /\ Credit(k)' \in {0, 1}
      BY <1>1 DEF Credit, OutboxTypeOK
    <2> QED BY <2>1
  <1>8. Owed(1)
    BY <1>2, <1>7 DEF Owed
  <1> QED BY <1>5, <1>6, <1>8, PostsFrame

LEMMA LapseKeeps ==
  ASSUME OutboxInv, NEW k \in Keys, LeaseLapses(k)
  PROVE  OutboxInv'
  <1> USE DEF OutboxInv
  <1>1. OutboxTypeOK'
    BY DEF OutboxTypeOK, LeaseLapses, Returns
  <1>2. BatchLeased'
    BY DEF BatchLeased, LeaseLapses
  <1>3. PostsAccounted'
    BY DEF PostsAccounted, Credit, LeaseLapses, Returns
  <1> QED BY <1>1, <1>2, <1>3

LEMMA OutboxKeeps ==
  ASSUME OutboxInv, OutboxStep
  PROVE  OutboxInv'
  BY ClaimKeeps, SendKeeps, MarkKeeps, FaultKeeps, LapseKeeps DEF OutboxStep, PumpStep

(* The pump neither adds a row nor removes one.                            *)
LEMMA RowsStand ==
  ASSUME OutboxInv, OutboxStep
  PROVE  /\ \A k \in Keys : row'[k] = "none" <=> row[k] = "none"
         /\ Call
  <1> USE DEF OutboxInv
  <1>1. ASSUME NEW again \in SUBSET Keys, Claim(again)
        PROVE  \A k \in Keys : row'[k] = "none" <=> row[k] = "none"
    <2> DEFINE rows == again \cup Expired \cup {k \in Keys : row[k] = "pending"}
    <2>1. \A k \in rows : row[k] \in {"failed", "sending", "pending"}
      BY <1>1 DEF Expired, Claim
    <2>2. \A k \in Keys : row'[k] = IF k \in rows THEN "sending" ELSE row[k]
      BY <1>1 DEF Claim
    <2> HIDE DEF rows
    <2> QED BY <2>1, <2>2
  <1>2. ASSUME NEW k \in Keys, MarkSent(k) \/ MarkFailed(k)
        PROVE  \A l \in Keys : row'[l] = "none" <=> row[l] = "none"
    <2>1. PICK status \in RowStatus \ {"none"} : Mark(k, status)
      BY <1>2 DEF MarkSent, MarkFailed, RowStatus
    <2>2. row[k] = "sending" /\ row' = [row EXCEPT ![k] = status]
      BY <2>1 DEF Mark, BatchLeased
    <2> QED BY <2>2 DEF OutboxTypeOK
  <1>3. ASSUME NEW k \in Keys,
               Delivered(k) \/ Refused(k) \/ AnswerLost(k) \/ LeaseLapses(k)
        PROVE  row' = row /\ Call
    BY <1>3 DEF Delivered, Refused, AnswerLost, LeaseLapses, Call
  <1>4. ASSUME MarkSentRaises \/ PumpDies \/ PublisherRestarts
        PROVE  row' = row /\ Call
    BY <1>4 DEF MarkSentRaises, PumpDies, PublisherRestarts, Call
  <1>5. Call
    BY <1>3, <1>4 DEF OutboxStep, PumpStep, Claim, MarkSent, MarkFailed, Mark, Call
  <1> QED BY <1>1, <1>2, <1>3, <1>4, <1>5 DEF OutboxStep, PumpStep

-----------------------------------------------------------------------------
(* The watchdog.                                                           *)

WatchState ==
  [pc : {"idle", "detect", "decide", "persist", "send"}, tell : SUBSET AlertKeys,
   writes : Incidents]
CallState == [pc : {"none", "asked", "listed"}, row : Incidents]

(* An open incident has an episode, a severity and a sample to go.         *)
OpenProper(i) ==
  i.state = "open" => i.good < Recovery /\ i.episode # 0 /\ i.severity # 0

AllProper ==
  /\ OpenProper(incident) /\ OpenProper(incidentRow) /\ OpenProper(monitor.writes)
  /\ \A c \in Callers : OpenProper(calls[c].row)

(* A run announces one key at most and only after it has decided, which it *)
(* does when its own load is done.                                         *)
TellsOne ==
  /\ monitor.pc \in {"idle", "detect", "decide"} => monitor.tell = {}
  /\ \A k, l \in monitor.tell : k = l
  /\ monitor.pc \notin {"idle", "detect"} => calls["watchdog"] = NoCall

WatchInv == MonitorTypeOK /\ AllProper /\ TellsOne

WatchStep == WatchdogStep \/ CallStep("command")

WatchMove ==
  WatchStep \/ MonitorRestarts \/ \E keys \in SUBSET monitor.tell : Send(keys)

LEMMA WatchSteps ==
  ASSUME WatchStep
  PROVE  \/ \E c \in Callers : EnsureLoaded(c) \/ List(c) \/ Install(c)
         \/ DetectionEnds
         \/ \E severity \in Severities : Alert(severity)
         \/ NoAlert \/ Persist
  BY DEF WatchStep, WatchdogStep, CallStep, Callers

LEMMA GoesTo ==
  ASSUME NEW pc \in {"idle", "detect", "decide", "persist", "send"},
         NEW tell \in SUBSET AlertKeys, NEW writes \in Incidents, Goes(pc, tell, writes)
  PROVE  /\ monitor' \in WatchState
         /\ monitor'.pc = pc /\ monitor'.tell = tell /\ monitor'.writes = writes
  BY DEF Goes, WatchState

LEMMA NoIncidentTyped ==
  /\ NoIncident \in Incidents /\ OpenProper(NoIncident)
  /\ NoIncident.state = "none"
  BY MonitorAssumption DEF NoIncident, Incidents, OpenProper

LEMMA NoCallTyped ==
  /\ NoCall \in CallState /\ NoCall.pc = "none" /\ NoCall.row = NoIncident
  BY NoIncidentTyped DEF NoCall, CallState

LEMMA WatchTyped ==
  ASSUME MonitorTypeOK
  PROVE  /\ incident \in Incidents /\ incidentRow \in Incidents /\ monitor \in WatchState
         /\ calls \in [Callers -> CallState]
         /\ monitor.writes \in Incidents /\ monitor.tell \in SUBSET AlertKeys
  BY DEF MonitorTypeOK, WatchState, CallState

LEMMA WatchFrame ==
  ASSUME incident' \in Incidents, incidentRow' \in Incidents,
         monitor' \in WatchState, calls' \in [Callers -> CallState],
         loaded' \in BOOLEAN, raised' \in SUBSET AlertKeys,
         episodes' \in 0 .. MaxEpisodes, resolutions' \in Nat, overwrites' \in Nat
  PROVE  MonitorTypeOK'
  BY DEF MonitorTypeOK, WatchState, CallState

LEMMA WatchInit == Init => WatchInv
  <1> SUFFICES ASSUME MonitorInit PROVE WatchInv
    BY DEF Init
  <1>1. MonitorTypeOK
    <2>1. {incident, incidentRow} \subseteq Incidents
      BY NoIncidentTyped DEF MonitorInit
    <2>2. monitor \in WatchState
      BY NoIncidentTyped DEF MonitorInit, WatchState
    <2>3. calls \in [Callers -> CallState]
      BY NoCallTyped DEF MonitorInit
    <2>4. loaded \in BOOLEAN /\ raised \subseteq AlertKeys
      BY DEF MonitorInit
    <2>5. episodes \in 0 .. MaxEpisodes /\ resolutions \in Nat /\ overwrites \in Nat
      BY MonitorAssumption DEF MonitorInit
    <2> QED BY <2>1, <2>2, <2>3, <2>4, <2>5 DEF MonitorTypeOK, WatchState, CallState
  <1>2. AllProper /\ TellsOne
    BY NoIncidentTyped, NoCallTyped DEF MonitorInit, AllProper, TellsOne
  <1> QED BY <1>1, <1>2 DEF WatchInv

(* What becomes of the run when a caller comes back from the check.        *)
LEMMA GoesOnTo ==
  ASSUME WatchInv, NEW c \in Callers, GoesOn(c),
         c = "watchdog" => monitor.pc \in {"idle", "detect"}
  PROVE  /\ monitor' \in WatchState
         /\ \/ UNCHANGED monitor
            \/ /\ c = "watchdog" /\ monitor.tell = {} /\ monitor'.tell = {}
               /\ monitor'.writes = NoIncident
               /\ \/ monitor.pc = "idle" /\ monitor'.pc = "detect"
                  \/ monitor.pc = "detect" /\ monitor'.pc = "decide"
  <1>1. monitor \in WatchState
    BY WatchTyped DEF WatchInv
  <1>2. CASE c # "watchdog"
    BY <1>1, <1>2 DEF GoesOn
  <1>3. CASE c = "watchdog"
    <2>1. PICK pc \in {"detect", "decide"} :
            /\ Goes(pc, {}, NoIncident)
            /\ \/ monitor.pc = "idle" /\ pc = "detect"
               \/ monitor.pc = "detect" /\ pc = "decide"
      BY <1>3 DEF GoesOn
    <2>2. /\ monitor' \in WatchState /\ monitor'.pc = pc /\ monitor'.tell = {}
          /\ monitor'.writes = NoIncident
      BY <2>1, NoIncidentTyped, GoesTo
    <2>3. monitor.tell = {}
      BY <2>1 DEF WatchInv, TellsOne
    <2> QED BY <1>3, <2>1, <2>2, <2>3
  <1> QED BY <1>2, <1>3

LEMMA InFlight ==
  ASSUME WatchInv, calls["watchdog"].pc \in {"asked", "listed"}
  PROVE  monitor.pc \in {"idle", "detect"}
  BY NoCallTyped DEF WatchInv, TellsOne

(* The three stages of a load.                                             *)
LEMMA EnsureKeeps ==
  ASSUME WatchInv, NEW c \in Callers, EnsureLoaded(c)
  PROVE  /\ UNCHANGED <<incident, incidentRow, loaded, raised, episodes, resolutions,
                        overwrites, failures>>
         /\ calls[c] = NoCall /\ monitor' \in WatchState
         /\ \/ UNCHANGED calls
            \/ /\ ~loaded /\ UNCHANGED monitor
               /\ calls' = [calls EXCEPT ![c].pc = "asked"]
         /\ \/ UNCHANGED monitor
            \/ /\ loaded /\ c = "watchdog" /\ monitor.tell = {} /\ monitor'.tell = {}
               /\ monitor'.writes = NoIncident
               /\ \/ monitor.pc = "idle" /\ monitor'.pc = "detect"
                  \/ monitor.pc = "detect" /\ monitor'.pc = "decide"
  <1>1. /\ UNCHANGED <<incident, incidentRow, loaded, raised, episodes, resolutions,
                       overwrites, failures>>
        /\ calls[c] = NoCall
        /\ c = "watchdog" => monitor.pc \in {"idle", "detect"}
    BY DEF EnsureLoaded, incidents, history, Returns
  <1>2. CASE loaded
    <2>1. GoesOn(c) /\ UNCHANGED calls
      BY <1>2 DEF EnsureLoaded
    <2> QED BY <1>1, <1>2, <2>1, GoesOnTo
  <1>3. CASE ~loaded
    <2>1. calls' = [calls EXCEPT ![c].pc = "asked"] /\ UNCHANGED monitor
      BY <1>3 DEF EnsureLoaded
    <2> QED BY <1>1, <1>3, <2>1, WatchTyped DEF WatchInv
  <1> QED BY <1>2, <1>3

LEMMA ListKeeps ==
  ASSUME WatchInv, NEW c \in Callers, List(c)
  PROVE  /\ UNCHANGED <<incident, incidentRow, loaded, raised, episodes, resolutions,
                        overwrites>>
         /\ calls[c].pc = "asked" /\ monitor' \in WatchState
         /\ \/ /\ calls' = [calls EXCEPT ![c] = [pc |-> "listed", row |-> incidentRow]]
               /\ UNCHANGED <<monitor, failures>>
            \/ calls' = [calls EXCEPT ![c] = NoCall] /\ Raises
         /\ \/ UNCHANGED monitor
            \/ /\ c = "watchdog" /\ monitor.tell = {} /\ monitor'.tell = {}
               /\ monitor'.writes = NoIncident
               /\ \/ monitor.pc = "idle" /\ monitor'.pc = "detect"
                  \/ monitor.pc = "detect" /\ monitor'.pc = "decide"
  <1>1. /\ UNCHANGED <<incident, incidentRow, loaded, raised, episodes, resolutions,
                       overwrites>>
        /\ calls[c].pc = "asked"
    BY DEF List, incidents, history
  <1>2. c = "watchdog" => monitor.pc \in {"idle", "detect"}
    BY <1>1, InFlight
  <1>3. monitor \in WatchState
    BY WatchTyped DEF WatchInv
  <1>4. CASE GoesOn(c) /\ Raises /\ calls' = [calls EXCEPT ![c] = NoCall]
    BY <1>1, <1>2, <1>4, GoesOnTo
  <1>5. CASE /\ calls' = [calls EXCEPT ![c] = [pc |-> "listed", row |-> incidentRow]]
             /\ UNCHANGED <<monitor, failures>>
    BY <1>1, <1>3, <1>5
  <1> QED BY <1>4, <1>5 DEF List, Returns

LEMMA InstallKeeps ==
  ASSUME WatchInv, NEW c \in Callers, Install(c)
  PROVE  /\ UNCHANGED <<incidentRow, raised, episodes, resolutions, failures>>
         /\ calls[c].pc = "listed" /\ monitor' \in WatchState
         /\ calls' = [calls EXCEPT ![c] = NoCall]
         /\ loaded' = TRUE
         /\ \/ UNCHANGED incident /\ calls[c].row = NoIncident
            \/ incident' = calls[c].row
         /\ \/ UNCHANGED overwrites /\ (~loaded \/ UNCHANGED incident)
            \/ loaded /\ overwrites' = overwrites + 1
         /\ \/ UNCHANGED monitor
            \/ /\ c = "watchdog" /\ monitor.tell = {} /\ monitor'.tell = {}
               /\ monitor'.writes = NoIncident
               /\ \/ monitor.pc = "idle" /\ monitor'.pc = "detect"
                  \/ monitor.pc = "detect" /\ monitor'.pc = "decide"
  <1>1. /\ UNCHANGED <<incidentRow, raised, episodes, resolutions, failures>>
        /\ calls[c].pc = "listed" /\ calls' = [calls EXCEPT ![c] = NoCall]
        /\ loaded' = TRUE /\ GoesOn(c)
    BY DEF Install, history, Returns
  <1>2. c = "watchdog" => monitor.pc \in {"idle", "detect"}
    BY <1>1, InFlight
  <1>3. \/ UNCHANGED incident /\ calls[c].row = NoIncident
        \/ incident' = calls[c].row
    BY DEF Install, Installed
  <1>4. \/ UNCHANGED overwrites /\ (~loaded \/ UNCHANGED incident)
        \/ loaded /\ overwrites' = overwrites + 1
    BY DEF Install
  <1> QED BY <1>1, <1>2, <1>3, <1>4, GoesOnTo

LEMMA DetectionKeeps ==
  ASSUME WatchInv, DetectionEnds
  PROVE  /\ UNCHANGED <<incident, incidentRow, loaded, calls, raised, episodes,
                        resolutions, overwrites>>
         /\ monitor.pc = "detect" /\ monitor.tell = {} /\ monitor' \in WatchState
         /\ monitor'.pc = "idle" /\ monitor'.tell = {} /\ monitor'.writes = NoIncident
         /\ Call
  BY NoIncidentTyped, GoesTo
     DEF DetectionEnds, incidents, history, Call, WatchInv, TellsOne

(* What an alert makes of the incident.                                    *)
LEMMA AlertOpens ==
  ASSUME WatchInv, NEW severity \in Severities, Alert(severity)
  PROVE  \E episode \in 1 .. MaxEpisodes, tell \in SUBSET AlertKeys :
           /\ incident' \in Incidents /\ incident'.state = "open"
           /\ incident'.episode = episode /\ incident'.good = 0
           /\ incident'.severity # 0
           /\ incident.state = "open" => episode = incident.episode
           /\ tell \subseteq {<<episode, incident'.severity>>}
           /\ raised' = raised \cup tell /\ Goes("persist", tell, incident')
           /\ episodes' \in 0 .. MaxEpisodes
           /\ monitor.pc = "decide"
           /\ UNCHANGED <<incidentRow, loaded, calls, resolutions, overwrites, failures>>
  <1> USE DEF WatchInv
  <1> DEFINE new == ~Open
             episode == IF new THEN episodes + 1 ELSE incident.episode
             worst == IF new THEN severity ELSE Larger(severity, incident.severity)
             tell == IF new \/ severity > incident.severity
                     THEN {<<episode, worst>>} ELSE {}
  <1>1. incident \in Incidents /\ episodes \in 0 .. MaxEpisodes
    BY WatchTyped DEF MonitorTypeOK
  <1>2. /\ monitor.pc = "decide" /\ episode <= MaxEpisodes
        /\ episodes' = IF new THEN episode ELSE episodes
        /\ incident' = [state |-> "open", severity |-> worst, good |-> 0,
                        episode |-> episode]
        /\ raised' = raised \cup tell /\ Goes("persist", tell, incident')
        /\ UNCHANGED <<incidentRow, loaded, calls, resolutions, overwrites, failures>>
    BY DEF Alert, Returns
  <1>3. episode \in 1 .. MaxEpisodes
    <2>1. ~new => incident.episode \in 1 .. MaxEpisodes
      BY <1>1, MonitorAssumption DEF Open, AllProper, OpenProper, Incidents
    <2>2. episodes + 1 \in Nat \ {0}
      BY <1>1, MonitorAssumption
    <2> QED BY <1>2, <2>1, <2>2, MonitorAssumption
  <1>4. worst \in Severities
    BY <1>1 DEF Severities, Larger, Incidents, AllProper, OpenProper, Open
  <1>5. tell \in SUBSET AlertKeys
    BY <1>3, <1>4 DEF AlertKeys
  <1>6. episodes' \in 0 .. MaxEpisodes
    BY <1>1, <1>2, <1>3, MonitorAssumption
  <1>7. ~new => episode = incident.episode
    OBVIOUS
  <1>8. tell \subseteq {<<episode, worst>>}
    OBVIOUS
  <1> HIDE DEF episode, worst, tell
  <1>9. /\ incident' \in Incidents /\ incident'.state = "open"
        /\ incident'.episode = episode /\ incident'.good = 0 /\ incident'.severity = worst
    BY <1>2, <1>3, <1>4, MonitorAssumption DEF Incidents, Severities
  <1> QED BY <1>2, <1>3, <1>4, <1>5, <1>6, <1>7, <1>8, <1>9 DEF Open, Severities

(* What the lack of one makes of it.                                       *)
LEMMA NoAlertCounts ==
  ASSUME WatchInv, NoAlert
  PROVE  /\ incident' \in Incidents /\ OpenProper(incident')
         /\ \/ Goes("persist", {}, incident') \/ Goes("idle", {}, NoIncident)
         /\ monitor.pc = "decide"
         /\ UNCHANGED <<incidentRow, loaded, calls, raised, episodes, overwrites, failures>>
         /\ \/ UNCHANGED <<incident, resolutions>> /\ incident.state # "open"
            \/ /\ incident.state = "open" /\ incident'.state = "open"
               /\ incident'.episode = incident.episode /\ UNCHANGED resolutions
            \/ /\ incident.state = "open" /\ incident'.state = "resolved"
               /\ resolutions' = resolutions + 1
  <1> USE DEF WatchInv
  <1>1. incident \in Incidents
    BY WatchTyped
  <1>2. /\ monitor.pc = "decide"
        /\ \/ Goes("persist", {}, incident') \/ Goes("idle", {}, NoIncident)
        /\ UNCHANGED <<incidentRow, loaded, calls, raised, episodes, overwrites, failures>>
    BY DEF NoAlert, Returns
  <1>3. CASE ~Open
    BY <1>1, <1>2, <1>3 DEF NoAlert, Open, AllProper
  <1>4. CASE Open
    <2> DEFINE resolves == incident.good + 1 >= Recovery
               state == IF resolves THEN "resolved" ELSE "open"
               good == incident.good + 1
    <2>1. /\ incident' = [incident EXCEPT !.good = good, !.state = state]
          /\ resolutions' = IF resolves THEN resolutions + 1 ELSE resolutions
      BY <1>1, <1>4 DEF NoAlert, Incidents
    <2>2. good \in 0 .. Recovery /\ (state = "open" => good < Recovery)
          /\ state \in {"open", "resolved"} /\ (state = "open" <=> ~resolves)
      BY <1>1, <1>4, MonitorAssumption DEF Open, AllProper, OpenProper, Incidents
    <2> HIDE DEF good, state, resolves
    <2>3. /\ incident' \in Incidents /\ incident'.state = state
          /\ incident'.good = good /\ incident'.episode = incident.episode
          /\ incident'.severity = incident.severity
      BY <1>1, <2>1, <2>2 DEF Incidents
    <2>4. OpenProper(incident')
      BY <1>4, <2>2, <2>3 DEF OpenProper, AllProper, Open
    <2> QED BY <1>2, <1>4, <2>1, <2>2, <2>3, <2>4 DEF Open
  <1> QED BY <1>3, <1>4

LEMMA PersistKeeps ==
  ASSUME WatchInv, Persist
  PROVE  /\ monitor.pc = "persist" /\ monitor' \in WatchState
         /\ monitor'.tell = monitor.tell /\ monitor'.writes = NoIncident
         /\ monitor'.pc = IF monitor.tell = {} THEN "idle" ELSE "send"
         /\ UNCHANGED <<loaded, calls, raised, episodes, resolutions, overwrites>>
         /\ \/ /\ incidentRow' = monitor.writes /\ incident' = monitor.writes
               /\ UNCHANGED failures
            \/ incidentRow' \in {incidentRow, monitor.writes} /\ UNCHANGED incident /\ Raises
  <1>1. monitor.tell \in SUBSET AlertKeys
    BY WatchTyped DEF WatchInv
  <1>2. PICK pc \in {"idle", "send"} :
          /\ Goes(pc, monitor.tell, NoIncident)
          /\ pc = IF monitor.tell = {} THEN "idle" ELSE "send"
    BY DEF Persist, AfterPersist
  <1>3. /\ monitor' \in WatchState /\ monitor'.tell = monitor.tell
        /\ monitor'.writes = NoIncident /\ monitor'.pc = pc
    BY <1>1, <1>2, NoIncidentTyped, GoesTo
  <1>4. /\ monitor.pc = "persist"
        /\ UNCHANGED <<loaded, calls, raised, episodes, resolutions, overwrites>>
        /\ \/ /\ incidentRow' = monitor.writes /\ incident' = monitor.writes
              /\ UNCHANGED failures
           \/ incidentRow' \in {incidentRow, monitor.writes} /\ UNCHANGED incident /\ Raises
    BY DEF Persist, history, Returns
  <1> QED BY <1>2, <1>3, <1>4

LEMMA SendEnds ==
  ASSUME WatchInv, NEW keys \in SUBSET monitor.tell, Send(keys)
  PROVE  /\ monitor.pc = "send" /\ monitor' \in WatchState
         /\ monitor'.pc = "idle" /\ monitor'.tell = {} /\ monitor'.writes = NoIncident
         /\ UNCHANGED <<incident, incidentRow, loaded, calls, raised, episodes,
                        resolutions, overwrites>>
         /\ \/ UNCHANGED failures /\ keys = monitor.tell
            \/ Raises /\ keys = {}
  BY NoIncidentTyped, GoesTo DEF Send, incidents, history, Returns

LEMMA RestartKeeps ==
  ASSUME MonitorRestarts
  PROVE  /\ monitor' \in WatchState
         /\ monitor'.pc = "idle" /\ monitor'.tell = {} /\ monitor'.writes = NoIncident
         /\ incident' = NoIncident /\ loaded' = FALSE
         /\ calls' = [c \in Callers |-> NoCall]
         /\ UNCHANGED <<incidentRow, raised, episodes, resolutions, overwrites>>
  BY NoIncidentTyped, GoesTo DEF MonitorRestarts, history

(* Every step keeps the incidents it moves in their types.                 *)
LEMMA WatchKeeps ==
  ASSUME WatchInv, WatchMove
  PROVE  WatchInv'
  <1> USE DEF WatchInv
  <1>1. /\ incident \in Incidents /\ incidentRow \in Incidents
        /\ monitor \in WatchState /\ monitor.writes \in Incidents
        /\ calls \in [Callers -> CallState]
        /\ loaded \in BOOLEAN /\ raised \in SUBSET AlertKeys
        /\ episodes \in 0 .. MaxEpisodes /\ resolutions \in Nat /\ overwrites \in Nat
    BY WatchTyped DEF MonitorTypeOK
  <1>2. \A c \in Callers : calls[c].row \in Incidents
    BY <1>1 DEF CallState
  <1>3. ASSUME NEW c \in Callers, EnsureLoaded(c) PROVE WatchInv'
    <2>1. calls' \in [Callers -> CallState]
          /\ \A d \in Callers : calls'[d].row = calls[d].row
      BY <1>1, <1>3, EnsureKeeps DEF CallState
    <2>2. MonitorTypeOK'
      BY <1>1, <1>3, <2>1, EnsureKeeps, WatchFrame
    <2>3. AllProper'
      BY <1>3, <2>1, EnsureKeeps, NoIncidentTyped DEF AllProper, OpenProper
    <2>4. monitor'.pc \notin {"idle", "detect"} => calls'["watchdog"] = NoCall
      <3>1. CASE UNCHANGED monitor /\ monitor.pc \notin {"idle", "detect"}
        <4>1. c # "watchdog" /\ calls["watchdog"] = NoCall
          BY <1>3, <3>1 DEF EnsureLoaded, TellsOne
        <4> QED BY <1>1, <1>3, <4>1, EnsureKeeps DEF Callers
      <3>2. CASE c = "watchdog" /\ UNCHANGED calls
        BY <1>3, <3>2, EnsureKeeps
      <3>3. CASE monitor'.pc \in {"idle", "detect"}
        BY <3>3
      <3> QED BY <1>3, <3>1, <3>2, <3>3, EnsureKeeps
    <2>5. TellsOne'
      BY <1>3, <2>4, EnsureKeeps DEF TellsOne
    <2> QED BY <2>2, <2>3, <2>5
  <1>4. ASSUME NEW c \in Callers, List(c) PROVE WatchInv'
    <2>1. PICK call \in CallState :
            /\ calls' = [calls EXCEPT ![c] = call] /\ OpenProper(call.row)
            /\ call = NoCall \/ UNCHANGED monitor
      <3>1. [pc |-> "listed", row |-> incidentRow] \in CallState
        BY <1>1 DEF CallState
      <3>2. OpenProper(incidentRow) /\ OpenProper(NoIncident)
        BY NoIncidentTyped DEF AllProper
      <3> QED BY <1>4, <3>1, <3>2, ListKeeps, NoCallTyped
    <2>2. calls' \in [Callers -> CallState] /\ \A d \in Callers : OpenProper(calls'[d].row)
      BY <1>1, <2>1 DEF AllProper
    <2>3. MonitorTypeOK'
      BY <1>1, <1>4, <2>2, ListKeeps, WatchFrame
    <2>4. AllProper'
      BY <1>4, <2>2, ListKeeps, NoIncidentTyped DEF AllProper, OpenProper
    <2>5. monitor'.pc \notin {"idle", "detect"} => calls'["watchdog"] = NoCall
      <3>1. CASE c = "watchdog"
        BY <1>1, <1>4, <2>1, <3>1, ListKeeps, InFlight DEF Callers
      <3>2. CASE c # "watchdog"
        BY <1>1, <1>4, <2>1, <3>2, ListKeeps DEF Callers, TellsOne
      <3> QED BY <3>1, <3>2
    <2>6. TellsOne'
      BY <1>4, <2>5, ListKeeps DEF TellsOne
    <2> QED BY <2>3, <2>4, <2>6
  <1>5. ASSUME NEW c \in Callers, Install(c) PROVE WatchInv'
    <2>0. overwrites' = overwrites \/ overwrites' = overwrites + 1
      BY <1>5, InstallKeeps
    <2>1. /\ calls' = [calls EXCEPT ![c] = NoCall] /\ loaded' \in BOOLEAN
          /\ incident' \in {incident, calls[c].row} /\ overwrites' \in Nat
      <3>1. overwrites' \in Nat
        BY <1>1, <2>0
      <3> QED BY <1>5, <3>1, InstallKeeps
    <2>2. calls' \in [Callers -> CallState] /\ \A d \in Callers : OpenProper(calls'[d].row)
      BY <1>1, <2>1, NoCallTyped, NoIncidentTyped DEF AllProper
    <2>3. incident' \in Incidents /\ OpenProper(incident')
      BY <1>1, <1>2, <2>1 DEF AllProper
    <2>4. MonitorTypeOK'
      BY <1>1, <1>5, <2>1, <2>2, <2>3, InstallKeeps, WatchFrame
    <2>5. AllProper'
      BY <1>5, <2>2, <2>3, InstallKeeps, NoIncidentTyped DEF AllProper, OpenProper
    <2>6. monitor'.pc \notin {"idle", "detect"} => calls'["watchdog"] = NoCall
      <3>1. CASE c = "watchdog"
        BY <1>1, <2>1, <3>1
      <3>2. CASE c # "watchdog"
        BY <1>1, <1>5, <2>1, <3>2, InstallKeeps DEF Callers, TellsOne
      <3> QED BY <3>1, <3>2
    <2>7. TellsOne'
      BY <1>5, <2>6, InstallKeeps DEF TellsOne
    <2> QED BY <2>4, <2>5, <2>7
  <1>6. CASE DetectionEnds
    <2>1. MonitorTypeOK'
      BY <1>1, <1>6, DetectionKeeps, WatchFrame
    <2>2. AllProper' /\ TellsOne'
      BY <1>6, DetectionKeeps, NoIncidentTyped DEF AllProper, OpenProper, TellsOne
    <2> QED BY <2>1, <2>2
  <1>7. ASSUME NEW severity \in Severities, Alert(severity)
        PROVE  WatchInv'
    <2>1. PICK episode \in 1 .. MaxEpisodes, tell \in SUBSET AlertKeys :
           /\ incident' \in Incidents /\ incident'.state = "open"
           /\ incident'.episode = episode /\ incident'.good = 0
           /\ incident'.severity # 0 /\ monitor.pc = "decide"
           /\ tell \subseteq {<<episode, incident'.severity>>}
           /\ raised' = raised \cup tell /\ Goes("persist", tell, incident')
           /\ episodes' \in 0 .. MaxEpisodes
           /\ UNCHANGED <<incidentRow, loaded, calls, resolutions, overwrites, failures>>
      BY <1>7, AlertOpens
    <2>2. /\ monitor' \in WatchState /\ monitor'.tell = tell /\ monitor'.pc = "persist"
          /\ monitor'.writes = incident'
      BY <2>1, GoesTo
    <2>3. MonitorTypeOK'
      BY <1>1, <2>1, <2>2, WatchFrame
    <2>4. OpenProper(incident')
      BY <2>1, MonitorAssumption DEF OpenProper
    <2>5. AllProper'
      BY <2>1, <2>2, <2>4 DEF AllProper, OpenProper
    <2>6. \A k, l \in tell : k = l
      BY <2>1
    <2>7. TellsOne'
      BY <2>1, <2>2, <2>6 DEF TellsOne
    <2> QED BY <2>3, <2>5, <2>7
  <1>8. CASE NoAlert
    <2>1. /\ monitor' \in WatchState /\ monitor'.tell = {}
          /\ monitor'.writes \in {incident', NoIncident}
      BY <1>8, NoAlertCounts, NoIncidentTyped, GoesTo
    <2>2. resolutions' \in Nat
      BY <1>1, <1>8, NoAlertCounts
    <2>3. MonitorTypeOK'
      BY <1>1, <1>8, <2>1, <2>2, NoAlertCounts, WatchFrame
    <2>4. AllProper'
      BY <1>8, <2>1, NoAlertCounts, NoIncidentTyped DEF AllProper, OpenProper
    <2>5. TellsOne'
      BY <1>8, <2>1, NoAlertCounts DEF TellsOne
    <2> QED BY <2>3, <2>4, <2>5
  <1>9. CASE Persist
    <2>1. /\ incident' \in {incident, monitor.writes}
          /\ incidentRow' \in {incidentRow, monitor.writes}
      BY <1>9, PersistKeeps
    <2>2. MonitorTypeOK'
      BY <1>1, <1>9, <2>1, PersistKeeps, WatchFrame
    <2>3. OpenProper(incident') /\ OpenProper(incidentRow')
      BY <2>1 DEF AllProper
    <2>4. AllProper' /\ TellsOne'
      BY <1>9, <2>3, PersistKeeps, NoIncidentTyped DEF AllProper, OpenProper, TellsOne
    <2> QED BY <2>2, <2>4
  <1>10. ASSUME NEW keys \in SUBSET monitor.tell, Send(keys) PROVE WatchInv'
    <2>1. MonitorTypeOK'
      BY <1>1, <1>10, SendEnds, WatchFrame
    <2>2. AllProper' /\ TellsOne'
      BY <1>10, SendEnds, NoIncidentTyped DEF AllProper, OpenProper, TellsOne
    <2> QED BY <2>1, <2>2
  <1>11. CASE MonitorRestarts
    <2>1. loaded' \in BOOLEAN /\ incident' \in Incidents /\ calls' \in [Callers -> CallState]
      BY <1>11, RestartKeeps, NoIncidentTyped, NoCallTyped
    <2>2. MonitorTypeOK'
      BY <1>1, <1>11, <2>1, RestartKeeps, WatchFrame
    <2>3. AllProper' /\ TellsOne'
      BY <1>11, RestartKeeps, NoIncidentTyped, NoCallTyped DEF AllProper, OpenProper, TellsOne
    <2> QED BY <2>2, <2>3
  <1> QED BY <1>3, <1>4, <1>5, <1>6, <1>7, <1>8, <1>9, <1>10, <1>11, WatchSteps DEF WatchMove

-----------------------------------------------------------------------------
(* The proposals.                                                          *)

EngineState == [pc : {"idle", "check", "announce"}, todo : SUBSET Candidates,
                left : Nat, tell : SUBSET Candidates]
CommandState == [pc : {"idle", "get", "commit"}, candidate : SUBSET Candidates,
                 verdict : Verdicts]

(* The engine announces one proposal at most, right after it is stored.    *)
TellsProposal ==
  /\ engine.pc # "announce" => engine.tell = {}
  /\ \A c, d \in engine.tell : c = d

(* A command works on a proposal that exists, and commits only what was    *)
(* not decided when it looked; nothing decides it in between.              *)
CommandProper ==
  /\ command.candidate \subseteq Existing /\ \A c, d \in command.candidate : c = d
  /\ command.pc = "commit" => \A c \in command.candidate : proposal[c] \notin Verdicts

ProposalsInv ==
  ProposalsTypeOK /\ IsFiniteSet(Existing) /\ TellsProposal /\ CommandProper

ProposalMove ==
  \/ ProposalStep \/ (ProposalsRestart /\ Returns)
  \/ \E keys \in SUBSET engine.tell : Announce(keys)

(* The rows of proposals in a step: no new one, and no decided one other.  *)
RowsKept(rows) ==
  /\ rows \in [Candidates -> ProposalStatus]
  /\ \A c \in Candidates : /\ rows[c] = "none" <=> proposal[c] = "none"
                           /\ rows[c] \in Verdicts <=> proposal[c] \in Verdicts
                           /\ proposal[c] \in Verdicts => rows[c] = proposal[c]

LEMMA IdlesTyped ==
  /\ IdleEngine \in EngineState /\ IdleEngine.pc = "idle" /\ IdleEngine.tell = {}
  /\ IdleCommand \in CommandState /\ IdleCommand.pc = "idle" /\ IdleCommand.candidate = {}
  BY DEF IdleEngine, IdleCommand, EngineState, CommandState, Verdicts

LEMMA ProposalsTyped ==
  ASSUME ProposalsTypeOK
  PROVE  engine \in EngineState /\ command \in CommandState
  BY DEF ProposalsTypeOK, EngineState, CommandState

LEMMA ExpireKeeps ==
  ASSUME ProposalsTypeOK
  PROVE  RowsKept(Expire(proposal)) /\ RowsKept(proposal)
  BY DEF ProposalsTypeOK, RowsKept, Expire, ProposalStatus, Verdicts

LEMMA KeptSame ==
  ASSUME RowsKept(proposal')
  PROVE  Existing' = Existing
  BY DEF RowsKept, Existing

LEMMA NextTyped ==
  ASSUME NEW todo \in SUBSET Candidates, NEW left \in Nat, NextCandidate(todo, left)
  PROVE  engine' \in EngineState /\ engine'.pc # "announce" /\ engine'.tell = {}
  BY IdlesTyped DEF NextCandidate, EngineState, IdleEngine

LEMMA ProposalsInit0 == Init => ProposalsInv
  <1> SUFFICES ASSUME ProposalsInit PROVE ProposalsInv
    BY DEF Init
  <1>1. proposal \in [Candidates -> ProposalStatus] /\ overdue \subseteq Candidates
    BY DEF ProposalsInit, ProposalStatus
  <1>2. engine \in EngineState /\ command \in CommandState
    BY IdlesTyped DEF ProposalsInit
  <1>3. Existing = {}
    BY DEF ProposalsInit, Existing
  <1>4. TellsProposal /\ CommandProper
    BY IdlesTyped DEF ProposalsInit, TellsProposal, CommandProper
  <1> QED BY <1>1, <1>2, <1>3, <1>4, FS_EmptySet
          DEF ProposalsInv, ProposalsTypeOK, EngineState, CommandState

(* The rows are kept, the command idles or looks at an existing proposal.  *)
LEMMA KeptFrame ==
  ASSUME ProposalsInv, RowsKept(proposal'), overdue' \in SUBSET Candidates,
         engine' \in EngineState, engine'.pc # "announce" => engine'.tell = {},
         engine'.tell \subseteq engine.tell,
         \/ UNCHANGED command
         \/ command' = IdleCommand
         \/ \E c \in Existing, verdict \in Verdicts :
              command' = [pc |-> "get", candidate |-> {c}, verdict |-> verdict]
  PROVE  ProposalsInv'
  <1> USE DEF ProposalsInv
  <1>1. Existing' = Existing
    BY KeptSame
  <1>2. command \in CommandState /\ Existing \subseteq Candidates
    BY ProposalsTyped DEF Existing
  <1>3. command' \in CommandState
    BY <1>2, IdlesTyped DEF CommandState
  <1>4. CommandProper'
    BY <1>1, <1>2, IdlesTyped DEF CommandProper, CommandState, RowsKept
  <1>5. TellsProposal'
    BY DEF TellsProposal
  <1>6. ProposalsTypeOK'
    BY <1>3 DEF ProposalsTypeOK, RowsKept, EngineState, CommandState
  <1> QED BY <1>1, <1>4, <1>5, <1>6

LEMMA ProcessBookKeeps ==
  ASSUME ProposalsInv, NEW eligible \in SUBSET Candidates, ProcessBook(eligible)
  PROVE  ProposalsInv' /\ RowsKept(proposal')
  <1> USE DEF ProposalsInv
  <1> DEFINE left == Least(PerLoop, IF PerDay > Cardinality(Existing)
                                    THEN PerDay - Cardinality(Existing) ELSE 0)
  <1>1. Cardinality(Existing) \in Nat
    BY FS_CardinalityType
  <1>2. left \in Nat
    BY <1>1, ProposalsAssumption DEF Least
  <1>3. /\ engine' = [pc |-> "check", todo |-> eligible, left |-> left, tell |-> {}]
        /\ proposal' = Expire(proposal)
        /\ UNCHANGED <<overdue, command>>
    BY DEF ProcessBook
  <1> HIDE DEF left
  <1>4. engine' \in EngineState /\ engine'.tell = {}
    BY <1>2, <1>3 DEF EngineState
  <1>5. RowsKept(proposal')
    BY <1>3, ExpireKeeps
  <1>6. overdue' \in SUBSET Candidates
    BY <1>3 DEF ProposalsTypeOK
  <1> QED BY <1>3, <1>4, <1>5, <1>6, KeptFrame

(* A proposal is stored, and announced unless the call raised.             *)
LEMMA ProposeKeeps ==
  ASSUME ProposalsInv, NEW c \in Candidates, Propose(c), proposal' # proposal
  PROVE  /\ ProposalsInv'
         /\ Existing' = Existing \cup {c} /\ engine.tell = {}
         /\ engine'.tell = {c} \/ (engine'.tell = {} /\ Raises)
         /\ proposal[c] = "none" /\ proposal' = [proposal EXCEPT ![c] = "proposed"]
  <1> USE DEF ProposalsInv
  <1>1. /\ engine.pc = "check" /\ proposal[c] = "none" /\ engine.left > 0
        /\ proposal' = [proposal EXCEPT ![c] = "proposed"]
        /\ \/ engine' = [engine EXCEPT !.pc = "announce", !.todo = @ \ {c},
                                       !.left = @ - 1, !.tell = {c}]
           \/ NextCandidate(engine.todo \ {c}, engine.left) /\ Raises
        /\ UNCHANGED <<overdue, command>>
    BY DEF Propose
  <1>2. engine \in EngineState /\ command \in CommandState
    BY ProposalsTyped
  <1> DEFINE todo == engine.todo \ {c}
             left == engine.left - 1
  <1>3. todo \in SUBSET Candidates /\ left \in Nat /\ engine.left \in Nat
    BY <1>1, <1>2 DEF EngineState
  <1>4. \/ engine' = [engine EXCEPT !.pc = "announce", !.todo = todo,
                                    !.left = left, !.tell = {c}]
        \/ NextCandidate(todo, engine.left) /\ Raises
    BY <1>1, <1>2 DEF EngineState
  <1> HIDE DEF todo, left
  <1>5. /\ engine' \in EngineState
        /\ \/ engine'.pc = "announce" /\ engine'.tell = {c}
           \/ engine'.tell = {} /\ Raises
    <2>1. ASSUME engine' = [engine EXCEPT !.pc = "announce", !.todo = todo,
                                          !.left = left, !.tell = {c}]
          PROVE  engine' \in EngineState /\ engine'.pc = "announce" /\ engine'.tell = {c}
      BY <1>2, <1>3, <2>1 DEF EngineState
    <2>2. ASSUME NextCandidate(todo, engine.left)
          PROVE  engine' \in EngineState /\ engine'.tell = {}
      BY <1>3, <2>2, NextTyped
    <2> QED BY <1>4, <2>1, <2>2
  <1>6. /\ proposal' \in [Candidates -> ProposalStatus]
        /\ \A d \in Candidates : proposal'[d] = IF d = c THEN "proposed" ELSE proposal[d]
    BY <1>1 DEF ProposalsTypeOK, ProposalStatus
  <1>7. Existing' = Existing \cup {c}
    BY <1>6 DEF Existing
  <1>8. IsFiniteSet(Existing')
    BY <1>7, FS_AddElement
  <1>9. TellsProposal' /\ engine.tell = {}
    BY <1>1, <1>5 DEF TellsProposal
  <1>10. CommandProper'
    BY <1>1, <1>2, <1>6, <1>7 DEF CommandProper, Existing, Verdicts, CommandState
  <1>11. ProposalsTypeOK'
    BY <1>1, <1>5, <1>6 DEF ProposalsTypeOK, EngineState, CommandState
  <1> QED BY <1>1, <1>5, <1>7, <1>8, <1>9, <1>10, <1>11

(* A decision is committed.                                                *)
LEMMA CommitKeeps ==
  ASSUME ProposalsInv, NEW c \in Candidates, Commit(c)
  PROVE  /\ ProposalsInv' /\ Existing' = Existing /\ UNCHANGED engine
         /\ \A d \in Candidates : proposal[d] \in Verdicts => proposal'[d] = proposal[d]
  <1> USE DEF ProposalsInv
  <1>1. /\ command.pc = "commit" /\ c \in command.candidate
        /\ proposal' = [proposal EXCEPT ![c] = command.verdict]
        /\ command' = IdleCommand /\ UNCHANGED <<overdue, engine>>
    BY DEF Commit
  <1>2. engine \in EngineState /\ command \in CommandState
    BY ProposalsTyped
  <1>3. command.verdict \in Verdicts /\ proposal[c] # "none" /\ proposal[c] \notin Verdicts
    BY <1>1, <1>2 DEF CommandProper, Existing, CommandState
  <1>4. /\ proposal' \in [Candidates -> ProposalStatus]
        /\ \A d \in Candidates :
             proposal'[d] = IF d = c THEN command.verdict ELSE proposal[d]
    BY <1>1, <1>3 DEF ProposalsTypeOK, ProposalStatus
  <1>5. Existing' = Existing
    BY <1>3, <1>4 DEF Existing, Verdicts
  <1>6. CommandProper' /\ TellsProposal'
    BY <1>1, IdlesTyped DEF CommandProper, TellsProposal
  <1>7. ProposalsTypeOK'
    BY <1>1, <1>2, <1>4, IdlesTyped DEF ProposalsTypeOK, EngineState, CommandState
  <1> QED BY <1>1, <1>3, <1>4, <1>5, <1>6, <1>7

(* The steps that leave the stored proposals in their places.              *)
OtherMove ==
  \/ \E c \in Candidates :
       \/ SkipExisting(c) \/ (Propose(c) /\ proposal' = proposal)
       \/ TimePasses(c) \/ Get(c) \/ \E verdict \in Verdicts : Decide(c, verdict)
  \/ BookRaises \/ CommandRaises \/ ApiLists \/ ProposalsRestart
  \/ \E keys \in SUBSET engine.tell : Announce(keys)

LEMMA OthersKeep ==
  ASSUME ProposalsInv, OtherMove
  PROVE  ProposalsInv' /\ RowsKept(proposal')
  <1> USE DEF ProposalsInv
  <1>1. engine \in EngineState /\ command \in CommandState /\ overdue \in SUBSET Candidates
    BY ProposalsTyped DEF ProposalsTypeOK
  <1>2. ASSUME UNCHANGED <<proposal, overdue, command>>, engine' \in EngineState,
               engine'.tell = {}
        PROVE  ProposalsInv' /\ RowsKept(proposal')
    <2>1. RowsKept(proposal')
      BY <1>2, ExpireKeeps
    <2> QED BY <1>1, <1>2, <2>1, KeptFrame
  <1>3. ASSUME RowsKept(proposal'), overdue' \in SUBSET Candidates, UNCHANGED engine,
               \/ UNCHANGED command
               \/ command' = IdleCommand
               \/ \E c \in Existing, verdict \in Verdicts :
                    command' = [pc |-> "get", candidate |-> {c}, verdict |-> verdict]
        PROVE  ProposalsInv'
    <2>1. engine'.pc # "announce" => engine'.tell = {}
      BY <1>3 DEF TellsProposal
    <2> QED BY <1>1, <1>3, <2>1, KeptFrame
  <1>4. ASSUME NEW c \in Candidates, SkipExisting(c) \/ (Propose(c) /\ proposal' = proposal)
        PROVE  ProposalsInv' /\ RowsKept(proposal')
    <2>1. NextCandidate(engine.todo \ {c}, engine.left)
          /\ UNCHANGED <<proposal, overdue, command>>
      <3>1. CASE SkipExisting(c)
        BY <3>1 DEF SkipExisting
      <3>2. CASE (Propose(c) /\ proposal' = proposal)
        <4>1. proposal' # [proposal EXCEPT ![c] = "proposed"]
          BY <3>2 DEF Propose, ProposalsTypeOK
        <4>2. \/ proposal' = [proposal EXCEPT ![c] = "proposed"]
              \/ NextCandidate(engine.todo \ {c}, engine.left)
          BY <3>2 DEF Propose
        <4>3. UNCHANGED <<proposal, overdue, command>>
          BY <3>2 DEF Propose
        <4> QED BY <4>1, <4>2, <4>3
      <3> QED BY <1>4, <3>1, <3>2
    <2>2. engine.todo \ {c} \in SUBSET Candidates /\ engine.left \in Nat
      BY <1>1 DEF EngineState
    <2> QED BY <1>2, <2>1, <2>2, NextTyped
  <1>5. ASSUME NEW c \in Candidates, TimePasses(c)
        PROVE  ProposalsInv' /\ RowsKept(proposal')
    BY <1>1, <1>3, <1>5, ExpireKeeps DEF TimePasses
  <1>6. ASSUME NEW c \in Candidates, Get(c)
        PROVE  ProposalsInv' /\ RowsKept(proposal')
    <2>1. RowsKept(proposal')
      BY <1>6, ExpireKeeps DEF Get
    <2>2. CASE command' = IdleCommand
      BY <1>1, <1>3, <1>6, <2>1, <2>2 DEF Get
    <2>3. CASE command' # IdleCommand
      <3>1. /\ proposal[c] = "proposed" /\ command' = [command EXCEPT !.pc = "commit"]
            /\ c \in command.candidate /\ UNCHANGED <<proposal, overdue, engine>>
        BY <1>6, <2>3 DEF Get
      <3>2. /\ command' \in CommandState /\ command'.candidate = command.candidate
        BY <1>1, <3>1 DEF CommandState
      <3>3. CommandProper'
        BY <3>1, <3>2 DEF CommandProper, Existing, Verdicts
      <3>4. TellsProposal' /\ IsFiniteSet(Existing')
        BY <3>1 DEF TellsProposal, Existing
      <3>5. ProposalsTypeOK'
        BY <1>1, <3>1, <3>2 DEF ProposalsTypeOK, EngineState, CommandState
      <3> QED BY <2>1, <3>3, <3>4, <3>5
    <2> QED BY <2>2, <2>3
  <1>7. ASSUME NEW c \in Candidates, NEW verdict \in Verdicts, Decide(c, verdict)
        PROVE  ProposalsInv' /\ RowsKept(proposal')
    <2>1. RowsKept(proposal')
      BY <1>7, ExpireKeeps DEF Decide
    <2>2. c \in Existing
      BY <1>7 DEF Decide, Existing
    <2>3. /\ command' = [pc |-> "get", candidate |-> {c}, verdict |-> verdict]
          /\ UNCHANGED <<overdue, engine>>
      BY <1>7 DEF Decide
    <2> QED BY <1>1, <1>3, <2>1, <2>2, <2>3
  <1>8. CASE BookRaises
    BY <1>2, <1>8, IdlesTyped DEF BookRaises
  <1>9. CASE CommandRaises \/ ApiLists
    <2>1. /\ proposal' \in {proposal, Expire(proposal)} /\ UNCHANGED <<overdue, engine>>
          /\ command' \in {command, IdleCommand}
      BY <1>9 DEF CommandRaises, ApiLists
    <2>2. RowsKept(proposal')
      BY <2>1, ExpireKeeps
    <2> QED BY <1>1, <1>3, <2>1, <2>2
  <1>10. CASE ProposalsRestart
    <2>1. RowsKept(proposal') /\ overdue' \in SUBSET Candidates
      BY <1>1, <1>10, ExpireKeeps DEF ProposalsRestart
    <2>2. engine' = IdleEngine /\ command' = IdleCommand
      BY <1>10 DEF ProposalsRestart
    <2> QED BY <2>1, <2>2, IdlesTyped, KeptFrame
  <1>11. ASSUME NEW keys \in SUBSET engine.tell, Announce(keys)
         PROVE  ProposalsInv' /\ RowsKept(proposal')
    <2>1. /\ NextCandidate(engine.todo, engine.left)
          /\ UNCHANGED <<proposal, overdue, command>>
      BY <1>11 DEF Announce
    <2>2. engine.todo \in SUBSET Candidates /\ engine.left \in Nat
      BY <1>1 DEF EngineState
    <2> QED BY <1>2, <2>1, <2>2, NextTyped
  <1> QED BY <1>4, <1>5, <1>6, <1>7, <1>8, <1>9, <1>10, <1>11 DEF OtherMove

LEMMA ProposalCases ==
  ASSUME ProposalMove
  PROVE  \/ OtherMove
         \/ \E eligible \in SUBSET Candidates : ProcessBook(eligible)
         \/ \E c \in Candidates : Commit(c) \/ (Propose(c) /\ proposal' # proposal)
  BY DEF ProposalMove, ProposalStep, OtherMove

LEMMA ProposalsKeep ==
  ASSUME ProposalsInv, ProposalMove
  PROVE  ProposalsInv'
  BY ProposalCases, ProcessBookKeeps, ProposeKeeps, CommitKeeps, OthersKeep

-----------------------------------------------------------------------------
(* The system.                                                             *)

SafeInv ==
  /\ OutboxInv /\ WatchInv /\ ProposalsInv
  /\ enabled \in Settings /\ traderRestarts \in 0 .. MaxRestarts

LEMMA AlertKeysKeyed == AlertKeys \subseteq Keys /\ Candidates \subseteq Keys
  BY KeysAssumption

LEMMA EachCalls ==
  /\ WatchStep => Call
  /\ \A keys : Send(keys) => Call
  /\ ProposalStep => Call
  /\ \A keys : Announce(keys) => Call
  <1>1. WatchStep => Call
    BY WatchSteps DEF EnsureLoaded, List, Install, DetectionEnds, Alert, NoAlert, Persist, Call
  <1>2. \A keys : (Send(keys) => Call) /\ (Announce(keys) => Call)
    BY DEF Send, Announce, Call
  <1>3. ProposalStep => Call
    BY DEF ProposalStep, ProcessBook, SkipExisting, Propose, TimePasses, Get, Commit,
           Decide, BookRaises, CommandRaises, ApiLists, Call
  <1> QED BY <1>1, <1>2, <1>3

LEMMA EnqueuesKeys ==
  ASSUME NEW keys \in SUBSET Keys, EnqueueAll(keys)
  PROVE  UNCHANGED outbox \/ \E k \in Keys : Enqueue(k)
  BY DEF EnqueueAll

(* Who moves, and who stands still.                                        *)
LEMMA NextCases ==
  ASSUME SafeInv, [Next]_vars
  PROVE  \/ OutboxStep /\ UNCHANGED <<watchdog, proposals, trader>>
         \/ /\ WatchStep /\ Call
            /\ UNCHANGED <<outbox, proposals, trader>>
         \/ /\ \E keys \in SUBSET monitor.tell : Send(keys) /\ EnqueueAll(keys)
            /\ Call /\ UNCHANGED <<proposals, trader>>
         \/ /\ ProposalStep /\ Call
            /\ UNCHANGED <<outbox, watchdog, trader>>
         \/ /\ \E keys \in SUBSET engine.tell : Announce(keys) /\ EnqueueAll(keys)
            /\ Call /\ UNCHANGED <<watchdog, trader>>
         \/ TraderRestarts
         \/ UNCHANGED vars
  <1>1. CASE TellAlert /\ UNCHANGED <<proposals, trader>>
    BY <1>1, EachCalls DEF TellAlert
  <1>2. CASE TellProposal /\ UNCHANGED <<watchdog, trader>>
    BY <1>2, EachCalls DEF TellProposal
  <1>3. CASE WatchStep /\ UNCHANGED <<outbox, proposals, trader>>
    BY <1>3, EachCalls
  <1>4. CASE ProposalStep /\ UNCHANGED <<outbox, watchdog, trader>>
    BY <1>4, EachCalls
  <1>5. WatchdogStep \/ CallStep("command") => WatchStep
    BY DEF WatchStep
  <1> QED BY <1>1, <1>2, <1>3, <1>4, <1>5 DEF Next

LEMMA StandStill ==
  /\ WatchInv /\ UNCHANGED watchdog => WatchInv'
  /\ ProposalsInv /\ UNCHANGED proposals => ProposalsInv'
  /\ OutboxInv /\ UNCHANGED <<outbox, failures>> => OutboxInv'
  <1>1. WatchInv /\ UNCHANGED watchdog => WatchInv'
    BY DEF WatchInv, MonitorTypeOK, AllProper, TellsOne, OpenProper,
           watchdog, incidents, history
  <1>2. ProposalsInv /\ UNCHANGED proposals => ProposalsInv'
    BY DEF ProposalsInv, ProposalsTypeOK, Existing, TellsProposal, CommandProper, proposals
  <1>3. OutboxInv /\ UNCHANGED <<outbox, failures>> => OutboxInv'
    BY OutboxElse DEF Call, Returns
  <1> QED BY <1>1, <1>2, <1>3

LEMMA TellsKeys ==
  ASSUME SafeInv
  PROVE  SUBSET monitor.tell \subseteq SUBSET Keys /\ SUBSET engine.tell \subseteq SUBSET Keys
  <1>1. monitor.tell \subseteq AlertKeys
    BY WatchTyped DEF SafeInv, WatchInv, WatchState
  <1>2. engine.tell \subseteq Candidates
    BY ProposalsTyped DEF SafeInv, ProposalsInv, EngineState
  <1> QED BY <1>1, <1>2, AlertKeysKeyed

LEMMA SafeInit == Init => SafeInv
  BY OutboxInit0, WatchInit, ProposalsInit0, OutboxAssumption DEF Init, SafeInv

LEMMA SafeNext == SafeInv /\ [Next]_vars => SafeInv'
  <1> SUFFICES ASSUME SafeInv, [Next]_vars PROVE SafeInv'
    OBVIOUS
  <1> USE DEF SafeInv
  <1>1. ASSUME OutboxStep, UNCHANGED <<watchdog, proposals, trader>> PROVE SafeInv'
    BY <1>1, OutboxKeeps, StandStill DEF trader
  <1>2. ASSUME WatchStep, Call, UNCHANGED <<outbox, proposals, trader>> PROVE SafeInv'
    <2>1. WatchInv'
      BY <1>2, WatchKeeps DEF WatchMove
    <2> QED BY <1>2, <2>1, OutboxElse, StandStill DEF trader
  <1>3. ASSUME NEW keys \in SUBSET monitor.tell, Send(keys), EnqueueAll(keys), Call,
               UNCHANGED <<proposals, trader>>
        PROVE  SafeInv'
    <2>1. WatchInv'
      BY <1>3, WatchKeeps DEF WatchMove
    <2>2. UNCHANGED outbox \/ \E k \in Keys : Enqueue(k)
      BY <1>3, TellsKeys, EnqueuesKeys
    <2> QED BY <1>3, <2>1, <2>2, OutboxElse, StandStill DEF trader
  <1>4. ASSUME ProposalStep, Call, UNCHANGED <<outbox, watchdog, trader>> PROVE SafeInv'
    <2>1. ProposalsInv'
      BY <1>4, ProposalsKeep DEF ProposalMove
    <2> QED BY <1>4, <2>1, OutboxElse, StandStill DEF trader
  <1>5. ASSUME NEW keys \in SUBSET engine.tell, Announce(keys), EnqueueAll(keys), Call,
               UNCHANGED <<watchdog, trader>>
        PROVE  SafeInv'
    <2>1. ProposalsInv'
      BY <1>5, ProposalsKeep DEF ProposalMove
    <2>2. UNCHANGED outbox \/ \E k \in Keys : Enqueue(k)
      BY <1>5, TellsKeys, EnqueuesKeys
    <2> QED BY <1>5, <2>1, <2>2, OutboxElse, StandStill DEF trader
  <1>6. ASSUME TraderRestarts PROVE SafeInv'
    <2>1. WatchInv' /\ ProposalsInv'
      BY <1>6, WatchKeeps, ProposalsKeep DEF TraderRestarts, WatchMove, ProposalMove
    <2>2. OutboxInv' /\ enabled' \in Settings
      BY <1>6, OutboxElse DEF TraderRestarts, Call
    <2>3. traderRestarts' \in 0 .. MaxRestarts
      <3>1. publisherRestarts \in Nat /\ traderRestarts \in Nat /\ MaxRestarts \in Nat
        BY OutboxAssumption DEF OutboxInv, OutboxTypeOK
      <3>2. publisherRestarts + traderRestarts < MaxRestarts
            /\ traderRestarts' = traderRestarts + 1
        BY <1>6 DEF TraderRestarts
      <3> QED BY <3>1, <3>2
    <2> QED BY <2>1, <2>2, <2>3
  <1>7. ASSUME UNCHANGED vars PROVE SafeInv'
    BY <1>7, StandStill DEF vars, trader
  <1> QED BY <1>1, <1>2, <1>3, <1>4, <1>5, <1>6, <1>7, NextCases

LEMMA AlwaysSafe == Spec => []SafeInv
  BY SafeInit, SafeNext, PTL DEF Spec

(* The variables keep their types.                                         *)
THEOREM TypeCorrect == Spec => []TypeOK
  <1>1. SafeInv => TypeOK
    BY DEF SafeInv, TypeOK, OutboxInv, WatchInv, ProposalsInv
  <1> QED BY <1>1, AlwaysSafe, PTL

(* However often the pump sends, fails, loses its lease or restarts, each  *)
(* message of a key beyond its first has a restart of the publisher or a   *)
(* failed call behind it: OperationalNotificationPump posts no notification*)
(* again that it has marked, and claims none that another claim holds.     *)
THEOREM RepeatsAccounted == Spec => []RepeatsAreFaults
  <1>1. SafeInv => RepeatsAreFaults
    <2> SUFFICES ASSUME OutboxTypeOK, PostsAccounted, NEW k \in Keys
                 PROVE  posts[k] <= 1 + publisherRestarts + failures
      BY DEF SafeInv, OutboxInv, RepeatsAreFaults
    <2>1. posts[k] <= publisherRestarts + failures + Credit(k)
      BY DEF PostsAccounted
    <2>2. /\ Credit(k) \in {0, 1} /\ posts[k] \in Nat
          /\ publisherRestarts \in Nat /\ failures \in Nat
      BY OutboxAssumption DEF Credit, OutboxTypeOK
    <2> QED BY <2>1, <2>2
  <1> QED BY <1>1, AlwaysSafe, PTL

(* A command that was looked at before another decision was committed does *)
(* not overwrite it, nor does an expiry: what is decided stays.            *)
THEOREM DecisionsStay == Spec => DecisionsFinal
  <1>1. ASSUME SafeInv, [Next]_vars
        PROVE  \A c \in Candidates : proposal[c] \in Verdicts => proposal'[c] = proposal[c]
    <2>0. ProposalsInv
      BY <1>1 DEF SafeInv
    <2>1. ASSUME ProposalMove
          PROVE  \A c \in Candidates : proposal[c] \in Verdicts => proposal'[c] = proposal[c]
      <3>1. ASSUME OtherMove \/ \E eligible \in SUBSET Candidates : ProcessBook(eligible)
            PROVE  RowsKept(proposal')
        BY <2>0, <3>1, OthersKeep, ProcessBookKeeps
      <3>2. ASSUME NEW c \in Candidates, Propose(c), proposal' # proposal
            PROVE  \A d \in Candidates : proposal[d] \in Verdicts => proposal'[d] = proposal[d]
        <4>1. proposal[c] = "none" /\ proposal' = [proposal EXCEPT ![c] = "proposed"]
          BY <2>0, <3>2, ProposeKeeps
        <4> QED BY <2>0, <4>1 DEF Verdicts, ProposalsInv, ProposalsTypeOK
      <3> QED BY <2>0, <2>1, <3>1, <3>2, ProposalCases, CommitKeeps DEF RowsKept
    <2>2. ASSUME UNCHANGED proposal
          PROVE  \A c \in Candidates : proposal[c] \in Verdicts => proposal'[c] = proposal[c]
      BY <2>2
    <2>3. TraderRestarts => UNCHANGED proposal
      BY DEF TraderRestarts, ProposalsRestart
    <2>4. UNCHANGED proposals => UNCHANGED proposal
      BY DEF proposals
    <2>5. UNCHANGED vars => UNCHANGED proposals
      BY DEF vars
    <2> QED BY <1>1, <2>1, <2>2, <2>3, <2>4, <2>5, NextCases DEF ProposalMove
  <1>2. SafeInv /\ [Next]_vars =>
          [\A c \in Candidates : proposal[c] \in Verdicts => proposal'[c] = proposal[c]]_vars
    BY <1>1
  <1> QED BY <1>2, AlwaysSafe, PTL DEF Spec, DecisionsFinal

-----------------------------------------------------------------------------
(* Notifications that never reach the outbox.                              *)

Lost == {k \in ToTell : row[k] = "none"} \ OnTheWay

LEMMA AtMostOneMore ==
  ASSUME NEW S, IsFiniteSet(S), NEW T, NEW X, T \subseteq S \cup X,
         \A x, y \in X : x = y
  PROVE  /\ IsFiniteSet(T) /\ Cardinality(T) \in Nat /\ Cardinality(S) \in Nat
         /\ Cardinality(T) <= Cardinality(S) + 1
  <1>1. CASE X = {}
    <2>1. T \in SUBSET S
      BY <1>1
    <2> QED BY <2>1, FS_Subset, FS_CardinalityType
  <1>2. CASE X # {}
    <2>1. PICK x : X = {x}
      BY <1>2
    <2>2. /\ IsFiniteSet(S \cup {x}) /\ Cardinality(S) \in Nat
          /\ Cardinality(S \cup {x}) <= Cardinality(S) + 1
      <3>1. Cardinality(S) \in Nat
        BY FS_CardinalityType
      <3>2. IsFiniteSet(S \cup {x})
            /\ Cardinality(S \cup {x}) \in {Cardinality(S), Cardinality(S) + 1}
        BY FS_AddElement
      <3> QED BY <3>1, <3>2
    <2>3. IsFiniteSet(T) /\ Cardinality(T) <= Cardinality(S \cup {x})
      BY <2>1, <2>2, FS_Subset
    <2> QED BY <2>2, <2>3, FS_CardinalityType
  <1> QED BY <1>1, <1>2

LEMMA AlertKeysFinite == IsFiniteSet(AlertKeys)
  <1>1. 1 \in Int /\ 2 \in Int /\ MaxEpisodes \in Int
    BY MonitorAssumption
  <1>2. IsFiniteSet(1 .. MaxEpisodes) /\ IsFiniteSet(1 .. 2)
    BY <1>1, FS_Interval
  <1> QED BY <1>2, FS_Product DEF AlertKeys, Severities

LEMMA LostFinite ==
  ASSUME SafeInv
  PROVE  IsFiniteSet(Lost) /\ Cardinality(Lost) \in Nat
  <1>1. raised \in SUBSET AlertKeys /\ IsFiniteSet(Existing)
    BY DEF SafeInv, WatchInv, MonitorTypeOK, ProposalsInv
  <1>2. IsFiniteSet(ToTell)
    BY <1>1, AlertKeysFinite, FS_Subset, FS_Union DEF ToTell
  <1>3. Lost \in SUBSET ToTell
    BY DEF Lost
  <1> QED BY <1>2, <1>3, FS_Subset, FS_CardinalityType

LEMMA RowsStay ==
  ASSUME SafeInv, UNCHANGED outbox \/ \E k \in Keys : Enqueue(k)
  PROVE  \A k \in Keys : row'[k] = "none" => row[k] = "none"
  BY DEF SafeInv, OutboxInv, OutboxTypeOK, Enqueue, outbox

LEMMA KnownKeys ==
  ASSUME SafeInv
  PROVE  /\ ToTell \subseteq Keys
         /\ monitor.tell \subseteq AlertKeys /\ engine.tell \subseteq Candidates
         /\ \A k, l \in monitor.tell : k = l
         /\ \A c, d \in engine.tell : c = d
         /\ row \in [Keys -> RowStatus]
  <1>1. ToTell \subseteq AlertKeys \cup Candidates
    BY DEF SafeInv, WatchInv, MonitorTypeOK, ToTell, Existing
  <1>2. monitor.tell \subseteq AlertKeys /\ engine.tell \subseteq Candidates
    BY WatchTyped, ProposalsTyped
       DEF SafeInv, WatchInv, ProposalsInv, WatchState, EngineState
  <1> QED BY <1>1, <1>2, AlertKeysKeyed
          DEF SafeInv, WatchInv, ProposalsInv, TellsOne, TellsProposal,
              OutboxInv, OutboxTypeOK

(* What is decided in a step is on its way; what was on its way and is not *)
(* any more is in the outbox, unless a call failed.                        *)
LEMMA WatchLoses ==
  ASSUME SafeInv, WatchStep
  PROVE  \E tell : raised' = raised \cup tell /\ monitor.tell \cup tell \subseteq monitor'.tell
  <1>0. WatchInv
    BY DEF SafeInv
  <1>1. ASSUME NEW c \in Callers, EnsureLoaded(c) \/ List(c) \/ Install(c)
        PROVE  raised' = raised \cup {} /\ monitor.tell \cup {} \subseteq monitor'.tell
    BY <1>0, <1>1, EnsureKeeps, ListKeeps, InstallKeeps
  <1>2. DetectionEnds => raised' = raised \cup {} /\ monitor.tell \cup {} \subseteq monitor'.tell
    BY <1>0, DetectionKeeps
  <1>3. ASSUME NEW severity \in Severities, Alert(severity)
        PROVE  \E tell : raised' = raised \cup tell /\ monitor.tell \cup tell \subseteq monitor'.tell
    <2>1. PICK tell \in SUBSET AlertKeys :
            /\ incident' \in Incidents
            /\ raised' = raised \cup tell /\ Goes("persist", tell, incident')
            /\ monitor.pc = "decide"
      BY <1>0, <1>3, AlertOpens
    <2>2. monitor'.tell = tell /\ monitor.tell = {}
      BY <1>0, <2>1, GoesTo DEF WatchInv, TellsOne
    <2> QED BY <2>1, <2>2
  <1>4. NoAlert => raised' = raised \cup {} /\ monitor.tell \cup {} \subseteq monitor'.tell
    BY <1>0, NoAlertCounts DEF WatchInv, TellsOne
  <1>5. Persist => raised' = raised \cup {} /\ monitor.tell \cup {} \subseteq monitor'.tell
    BY <1>0, PersistKeeps
  <1> QED BY <1>1, <1>2, <1>3, <1>4, <1>5, WatchSteps

LEMMA EngineLoses ==
  ASSUME SafeInv, ProposalStep
  PROVE  \/ \E d : Existing' \subseteq Existing \cup d /\ engine.tell \cup d \subseteq engine'.tell
         \/ \E c : Existing' \subseteq Existing \cup {c} /\ engine.tell = {} /\ Raises
  <1>1. ProposalsInv
    BY DEF SafeInv
  <1>2. ASSUME NEW c \in Candidates, Propose(c), proposal' # proposal
        PROVE  \/ \E d : Existing' \subseteq Existing \cup d /\ engine.tell \cup d \subseteq engine'.tell
               \/ \E d : Existing' \subseteq Existing \cup {d} /\ engine.tell = {} /\ Raises
    <2>1. /\ Existing' = Existing \cup {c} /\ engine.tell = {}
          /\ engine'.tell = {c} \/ Raises
      BY <1>1, <1>2, ProposeKeeps
    <2> QED BY <2>1
  <1>3. ASSUME NEW c \in Candidates, Commit(c)
        PROVE  \E d : Existing' \subseteq Existing \cup d /\ engine.tell \cup d \subseteq engine'.tell
    <2>1. Existing' = Existing /\ UNCHANGED engine
      BY <1>1, <1>3, CommitKeeps
    <2> QED BY <2>1
  <1>4. ASSUME RowsKept(proposal'), ~(\E c \in Candidates : Propose(c) /\ proposal' # proposal),
               ~(\E c \in Candidates : Commit(c))
        PROVE  \E d : Existing' \subseteq Existing \cup d /\ engine.tell \cup d \subseteq engine'.tell
    <2>1. Existing' = Existing
      BY <1>4, KeptSame
    <2>2. ASSUME NEW c \in Candidates, Propose(c)
          PROVE  engine.tell = {}
      BY <1>1, <2>2 DEF Propose, ProposalsInv, TellsProposal
    <2>3. engine.tell = {} \/ UNCHANGED engine
      <3>1. ASSUME NEW c \in Candidates, SkipExisting(c) PROVE engine.tell = {}
        BY <1>1, <3>1 DEF SkipExisting, ProposalsInv, TellsProposal
      <3>2. ASSUME NEW eligible \in SUBSET Candidates, ProcessBook(eligible)
            PROVE  engine.tell = {}
        BY <3>2, IdlesTyped DEF ProcessBook
      <3>3. BookRaises => engine.tell = {}
        BY <1>1 DEF BookRaises, ProposalsInv, TellsProposal
      <3>4. ASSUME NEW c \in Candidates, NEW verdict \in Verdicts,
                   TimePasses(c) \/ Get(c) \/ Decide(c, verdict)
            PROVE  UNCHANGED engine
        BY <3>4 DEF TimePasses, Get, Decide
      <3>5. CommandRaises \/ ApiLists => UNCHANGED engine
        BY DEF CommandRaises, ApiLists
      <3>6. ASSUME NEW c \in Candidates, TimePasses(c) \/ Get(c) PROVE UNCHANGED engine
        BY <3>6 DEF TimePasses, Get
      <3> QED BY <1>4, <2>2, <3>1, <3>2, <3>3, <3>4, <3>5, <3>6 DEF ProposalStep
    <2> QED BY <2>1, <2>3
  <1>5. RowsKept(proposal') \/ (\E c \in Candidates : Propose(c) /\ proposal' # proposal)
          \/ (\E c \in Candidates : Commit(c))
    BY <1>1, ProposalCases, OthersKeep, ProcessBookKeeps DEF ProposalMove
  <1> QED BY <1>2, <1>3, <1>4, <1>5

LEMMA ToldStep ==
  ASSUME SafeInv, SafeInv', ToldOrFault, [Next]_vars
  PROVE  ToldOrFault'
  <1>1. /\ failures \in Nat /\ failures' \in Nat
        /\ traderRestarts \in Nat /\ traderRestarts' \in Nat
    BY OutboxAssumption DEF SafeInv, OutboxInv, OutboxTypeOK
  <1>2. /\ IsFiniteSet(Lost) /\ Cardinality(Lost) \in Nat
        /\ IsFiniteSet(Lost') /\ Cardinality(Lost') \in Nat
    <2>1. IsFiniteSet(Lost) /\ Cardinality(Lost) \in Nat
      BY LostFinite
    <2>2. (IsFiniteSet(Lost) /\ Cardinality(Lost) \in Nat)'
      BY LostFinite, PTL
    <2> QED BY <2>1, <2>2
  <1>3. /\ Cardinality(Lost) <= failures + 2 * traderRestarts
        /\ Cardinality(Lost') <= failures' + 2 * traderRestarts' => ToldOrFault'
    BY DEF ToldOrFault, Lost
  <1>4. ASSUME Lost' \subseteq Lost, Call, UNCHANGED traderRestarts PROVE ToldOrFault'
    <2>1. Cardinality(Lost') <= Cardinality(Lost)
      BY <1>2, <1>4, FS_Subset
    <2>2. failures' = failures \/ failures' = failures + 1
      BY <1>4 DEF Call, Returns, Raises
    <2> QED BY <1>1, <1>2, <1>3, <1>4, <2>1, <2>2
  <1>5. ASSUME NEW X, Lost' \subseteq Lost \cup X, \A x, y \in X : x = y,
               Raises, UNCHANGED traderRestarts
        PROVE  ToldOrFault'
    <2>1. Cardinality(Lost') <= Cardinality(Lost) + 1
      BY <1>2, <1>5, AtMostOneMore
    <2>2. failures' = failures + 1
      BY <1>5 DEF Raises
    <2> QED BY <1>1, <1>2, <1>3, <1>5, <2>1, <2>2
  <1>6. ASSUME OutboxStep, UNCHANGED <<watchdog, proposals, trader>> PROVE ToldOrFault'
    <2>1. Call /\ \A k \in Keys : row'[k] = "none" => row[k] = "none"
      BY <1>6, RowsStand DEF SafeInv
    <2>2. UNCHANGED <<raised, proposal, monitor, engine, traderRestarts>>
      BY <1>6 DEF watchdog, history, proposals, trader
    <2>3. Lost' \subseteq Lost
      BY <2>1, <2>2, KnownKeys DEF Lost, ToTell, OnTheWay, Existing
    <2> QED BY <1>4, <2>1, <2>2, <2>3
  <1>7. ASSUME WatchStep, Call, UNCHANGED <<outbox, proposals, trader>>
        PROVE  ToldOrFault'
    <2>1. PICK tell : raised' = raised \cup tell /\ monitor.tell \cup tell \subseteq monitor'.tell
      BY <1>7, WatchLoses
    <2>2. UNCHANGED <<row, proposal, engine, traderRestarts>>
      BY <1>7 DEF outbox, proposals, trader
    <2>3. Lost' \subseteq Lost
      BY <2>1, <2>2 DEF Lost, ToTell, OnTheWay, Existing
    <2> QED BY <1>4, <1>7, <2>2, <2>3
  <1>8. ASSUME ProposalStep, Call, UNCHANGED <<outbox, watchdog, trader>>
        PROVE  ToldOrFault'
    <2>1. UNCHANGED <<row, raised, monitor, traderRestarts>>
      BY <1>8 DEF outbox, watchdog, history, trader
    <2>2. ASSUME NEW d, Existing' \subseteq Existing \cup d,
                 engine.tell \cup d \subseteq engine'.tell
          PROVE  ToldOrFault'
      <3>1. Lost' \subseteq Lost
        BY <2>1, <2>2 DEF Lost, ToTell, OnTheWay
      <3> QED BY <1>4, <1>8, <2>1, <3>1
    <2>3. ASSUME NEW c, Existing' \subseteq Existing \cup {c}, engine.tell = {}, Raises
          PROVE  ToldOrFault'
      <3>1. Lost' \subseteq Lost \cup {c}
        BY <2>1, <2>3 DEF Lost, ToTell, OnTheWay
      <3> QED BY <1>5, <2>1, <2>3, <3>1
    <2> QED BY <1>8, <2>2, <2>3, EngineLoses
  <1>9. ASSUME NEW keys \in SUBSET monitor.tell, Send(keys), EnqueueAll(keys), Call,
               UNCHANGED <<proposals, trader>>
        PROVE  ToldOrFault'
    <2>1. UNCHANGED <<raised, proposal, engine, traderRestarts>> /\ monitor'.tell = {}
      BY <1>9 DEF Send, Goes, history, proposals, trader
    <2>2. \A k \in Keys : row'[k] = "none" => row[k] = "none"
      BY <1>9, TellsKeys, EnqueuesKeys, RowsStay
    <2>3. Lost' \subseteq Lost \cup monitor.tell
      BY <2>1, <2>2, KnownKeys DEF Lost, ToTell, OnTheWay, Existing
    <2>4. CASE Returns /\ keys = monitor.tell
      <3>1. \A k \in keys : row'[k] # "none"
        BY <1>9, KnownKeys, AlertKeysKeyed DEF EnqueueAll, Enqueue
      <3>2. Lost' \subseteq Lost
        BY <2>3, <2>4, <3>1 DEF Lost
      <3> QED BY <1>4, <1>9, <2>1, <3>2
    <2>5. CASE Raises
      BY <1>5, <2>1, <2>3, <2>5, KnownKeys
    <2> QED BY <1>9, <2>4, <2>5 DEF Send
  <1>10. ASSUME NEW keys \in SUBSET engine.tell, Announce(keys), EnqueueAll(keys), Call,
                UNCHANGED <<watchdog, trader>>
         PROVE  ToldOrFault'
    <2>1. UNCHANGED <<raised, proposal, monitor, traderRestarts>>
      BY <1>10 DEF Announce, watchdog, history, trader
    <2>2. \A k \in Keys : row'[k] = "none" => row[k] = "none"
      BY <1>10, TellsKeys, EnqueuesKeys, RowsStay
    <2>3. Lost' \subseteq Lost \cup engine.tell
      BY <2>1, <2>2, KnownKeys DEF Lost, ToTell, OnTheWay, Existing
    <2>4. CASE Returns /\ keys = engine.tell
      <3>1. \A k \in keys : row'[k] # "none"
        BY <1>10, KnownKeys, AlertKeysKeyed DEF EnqueueAll, Enqueue
      <3>2. Lost' \subseteq Lost
        BY <2>3, <2>4, <3>1 DEF Lost
      <3> QED BY <1>4, <1>10, <2>1, <3>2
    <2>5. CASE Raises
      BY <1>5, <2>1, <2>3, <2>5, KnownKeys
    <2> QED BY <1>10, <2>4, <2>5 DEF Announce
  <1>11. ASSUME TraderRestarts PROVE ToldOrFault'
    <2>1. /\ traderRestarts' = traderRestarts + 1 /\ UNCHANGED failures
          /\ UNCHANGED <<row, raised, proposal>>
      BY <1>11 DEF TraderRestarts, Returns, MonitorRestarts, ProposalsRestart, history, outbox
    <2>2. Lost' \subseteq (Lost \cup monitor.tell) \cup engine.tell
      BY <2>1 DEF Lost, ToTell, OnTheWay, Existing
    <2> DEFINE both == Lost \cup monitor.tell
    <2>3. /\ both \subseteq Lost \cup monitor.tell /\ Lost' \subseteq both \cup engine.tell
          /\ \A k, l \in monitor.tell : k = l
          /\ \A c, d \in engine.tell : c = d
      BY <2>2, KnownKeys
    <2> HIDE DEF both
    <2>4. /\ IsFiniteSet(both) /\ Cardinality(both) \in Nat
          /\ Cardinality(both) <= Cardinality(Lost) + 1
      BY <1>2, <2>3, AtMostOneMore
    <2>5. Cardinality(Lost') <= Cardinality(both) + 1
      BY <2>3, <2>4, AtMostOneMore
    <2> QED BY <1>1, <1>2, <1>3, <2>1, <2>4, <2>5
  <1>12. ASSUME UNCHANGED vars PROVE ToldOrFault'
    BY <1>12 DEF vars, ToldOrFault, ToTell, OnTheWay, Existing, outbox, watchdog,
                 history, proposals, trader
  <1> QED BY <1>6, <1>7, <1>8, <1>9, <1>10, <1>11, <1>12, NextCases

(* An alert that a run decided on and a proposal that is stored reach the  *)
(* outbox: one is lost for each call that failed, and an alert and a       *)
(* proposal at most for each restart of the trader, however the watchdog,  *)
(* the engine, the pump and the restarts interleave.                       *)
THEOREM ToldOrAccounted == Spec => []ToldOrFault
  <1>1. Init => ToldOrFault
    <2> SUFFICES ASSUME Init PROVE ToldOrFault
      OBVIOUS
    <2>1. Lost = {} /\ failures = 0 /\ traderRestarts = 0
      BY DEF Init, OutboxInit, MonitorInit, ProposalsInit, Lost, ToTell, Existing
    <2> QED BY <2>1, FS_EmptySet DEF ToldOrFault, Lost
  <1>2. ToldOrFault /\ SafeInv /\ SafeInv' /\ [Next]_vars => ToldOrFault'
    BY ToldStep
  <1> QED BY <1>1, <1>2, AlwaysSafe, PTL DEF Spec

-----------------------------------------------------------------------------
(* The episodes the operator hears of.                                     *)

(* Every resolution, failed call and late load allows for one more episode. *)
Budget == resolutions + failures + overwrites

(* The announced episodes leave room for the one that an incident which is *)
(* not open would start, and count that of an open one.                    *)
CoveredBy(inc, told, budget) ==
  IF inc.state = "open" THEN Cardinality(told \cup {inc.episode}) <= 1 + budget
  ELSE Cardinality(told) <= budget

(* With the one that the run is about to announce.                         *)
Told == Announced \cup {k[1] : k \in monitor.tell}

(* A run that decides although nothing is loaded has a failed call to      *)
(* spend: it could not list the incidents.                                 *)
Room == IF monitor.pc = "decide" THEN Budget - 1 ELSE Budget

(* What memory, the row and the incident that is about to be written know, *)
(* each on its own, keeps a run from starting an episode too many: memory  *)
(* unless the rows are still to be loaded, the row even before the send    *)
(* that follows its write.  Before anything is loaded, what a caller has   *)
(* listed does as well, however old it is.                                 *)
MemoryCovers ==
  \/ CoveredBy(incident, Told, Budget)
  \/ incident = NoIncident /\ ~loaded /\ monitor.pc \in {"idle", "detect"}
RowCovers ==
  CoveredBy(incidentRow, IF monitor.pc = "send" THEN Told ELSE Announced, Budget)
WriteCovers == monitor.pc = "persist" => CoveredBy(monitor.writes, Told, Budget)
ListedCovers ==
  ~loaded => /\ CoveredBy(incidentRow, Told, Room)
             /\ \A c \in Callers :
                  calls[c].pc = "listed" => CoveredBy(calls[c].row, Told, Room)

EpisodeInv ==
  /\ Cardinality(Told) <= 1 + Budget
  /\ MemoryCovers /\ RowCovers /\ WriteCovers /\ ListedCovers

LEMMA CoveredLess ==
  ASSUME NEW S, IsFiniteSet(S), NEW T \in SUBSET S, NEW m \in Int, NEW n \in Int, m <= n,
         NEW inc, CoveredBy(inc, S, m)
  PROVE  CoveredBy(inc, T, n)
  <1>1. CASE inc.state = "open"
    <2> DEFINE U == S \cup {inc.episode}
               V == T \cup {inc.episode}
    <2>1. IsFiniteSet(U)
      BY FS_AddElement
    <2>2. V \in SUBSET U /\ Cardinality(U) <= 1 + m
      BY <1>1 DEF CoveredBy
    <2> HIDE DEF U, V
    <2>3. IsFiniteSet(V) /\ Cardinality(V) <= Cardinality(U)
      BY <2>1, <2>2, FS_Subset
    <2>4. Cardinality(U) \in Nat /\ Cardinality(V) \in Nat
      BY <2>1, <2>3, FS_CardinalityType
    <2>5. Cardinality(V) <= 1 + n
      BY <2>2, <2>3, <2>4
    <2> QED BY <1>1, <2>5 DEF CoveredBy, V
  <1>2. CASE inc.state # "open"
    <2>1. Cardinality(S) <= m
      BY <1>2 DEF CoveredBy
    <2>2. IsFiniteSet(T) /\ Cardinality(T) <= Cardinality(S)
      BY FS_Subset
    <2>3. Cardinality(S) \in Nat /\ Cardinality(T) \in Nat
      BY <2>2, FS_CardinalityType
    <2>4. Cardinality(T) <= n
      BY <2>1, <2>2, <2>3
    <2> QED BY <1>2, <2>4 DEF CoveredBy
  <1> QED BY <1>1, <1>2

LEMMA CoveredMore ==
  ASSUME NEW S, IsFiniteSet(S), NEW x, NEW m \in Int, NEW inc, CoveredBy(inc, S, m)
  PROVE  CoveredBy(inc, S \cup {x}, m + 1)
  <1>1. CASE inc.state = "open"
    <2> DEFINE U == S \cup {inc.episode}
    <2>1. IsFiniteSet(U) /\ Cardinality(U) <= 1 + m
      BY <1>1, FS_AddElement DEF CoveredBy
    <2>2. (S \cup {x}) \cup {inc.episode} = U \cup {x}
      OBVIOUS
    <2> HIDE DEF U
    <2>3. Cardinality(U) \in Nat /\ Cardinality(U \cup {x}) \in {Cardinality(U), Cardinality(U) + 1}
      BY <2>1, FS_CardinalityType, FS_AddElement
    <2>4. Cardinality(U \cup {x}) <= 1 + (m + 1)
      BY <2>1, <2>3
    <2> QED BY <1>1, <2>2, <2>4 DEF CoveredBy
  <1>2. CASE inc.state # "open"
    <2>1. Cardinality(S) <= m
      BY <1>2 DEF CoveredBy
    <2>2. Cardinality(S) \in Nat /\ Cardinality(S \cup {x}) \in {Cardinality(S), Cardinality(S) + 1}
      BY FS_CardinalityType, FS_AddElement
    <2>3. Cardinality(S \cup {x}) <= m + 1
      BY <2>1, <2>2
    <2> QED BY <1>2, <2>3 DEF CoveredBy
  <1> QED BY <1>1, <1>2

(* Either way at most one more than the budget is known.                   *)
LEMMA CoveredBounds ==
  ASSUME NEW S, IsFiniteSet(S), NEW m \in Int, NEW inc, CoveredBy(inc, S, m)
  PROVE  Cardinality(S) \in Nat /\ Cardinality(S) <= 1 + m
  <1>1. Cardinality(S) \in Nat
    BY FS_CardinalityType
  <1>2. CASE inc.state = "open"
    <2> DEFINE U == S \cup {inc.episode}
    <2>1. Cardinality(U) <= 1 + m /\ S \in SUBSET U
      BY <1>2 DEF CoveredBy
    <2>2. IsFiniteSet(U)
      BY FS_AddElement
    <2> HIDE DEF U
    <2>3. Cardinality(S) <= Cardinality(U) /\ Cardinality(U) \in Nat
      BY <2>1, <2>2, FS_Subset, FS_CardinalityType
    <2> QED BY <1>1, <2>1, <2>3
  <1>3. CASE inc.state # "open"
    BY <1>1, <1>3 DEF CoveredBy
  <1> QED BY <1>1, <1>2, <1>3

LEMMA BudgetGrows ==
  ASSUME SafeInv, SafeInv', Call
  PROVE  /\ Budget \in Nat /\ Budget' \in Nat
         /\ UNCHANGED <<resolutions, overwrites>> =>
              Budget' \in {Budget, Budget + 1} /\ Budget <= Budget'
         /\ UNCHANGED <<resolutions, overwrites>> /\ Raises => Budget' = Budget + 1
         /\ resolutions' = resolutions + 1 /\ UNCHANGED <<failures, overwrites>> =>
              Budget' = Budget + 1
         /\ overwrites' = overwrites + 1 /\ UNCHANGED <<failures, resolutions>> =>
              Budget' = Budget + 1
         /\ UNCHANGED <<resolutions, failures, overwrites>> => Budget' = Budget
  <1>1. /\ failures \in Nat /\ failures' \in Nat
        /\ resolutions \in Nat /\ resolutions' \in Nat
        /\ overwrites \in Nat /\ overwrites' \in Nat
    BY OutboxAssumption DEF SafeInv, OutboxInv, OutboxTypeOK, WatchInv, MonitorTypeOK
  <1>2. /\ failures' = failures \/ failures' = failures + 1
        /\ Raises => failures' = failures + 1
    BY DEF Call, Returns, Raises
  <1>3. PICK f, r, o, g, s, p \in Nat :
          /\ f = failures /\ r = resolutions /\ o = overwrites
          /\ g = failures' /\ s = resolutions' /\ p = overwrites'
    BY <1>1
  <1>4. Budget = r + f + o /\ Budget' = s + g + p
    BY <1>3 DEF Budget
  <1>5. /\ r + f + o \in Nat /\ s + g + p \in Nat
        /\ r + (f + 1) + o = r + f + o + 1 /\ (r + 1) + f + o = r + f + o + 1
        /\ r + f + (o + 1) = r + f + o + 1 /\ r + f + o <= r + f + o + 1
        /\ r + f + o <= r + f + o
    OBVIOUS
  <1> QED BY <1>2, <1>3, <1>4, <1>5

LEMMA AnnouncedFinite == IsFiniteSet(Announced) /\ Cardinality(Announced) \in Nat
  <1>1. 1 \in Int /\ MaxEpisodes \in Int
    BY MonitorAssumption
  <1>2. Announced \in SUBSET (1 .. MaxEpisodes) /\ IsFiniteSet(1 .. MaxEpisodes)
    BY <1>1, FS_Interval DEF Announced
  <1> QED BY <1>2, FS_Subset, FS_CardinalityType

LEMMA AnnouncedStays ==
  ASSUME \A k \in AlertKeys : row'[k] = "none" <=> row[k] = "none"
  PROVE  Announced' = Announced
  BY DEF Announced, AlertKeys

(* What the run is to announce is known, or one more.                      *)
LEMMA ToldKnown ==
  ASSUME SafeInv
  PROVE  /\ IsFiniteSet(Told) /\ Cardinality(Told) \in Nat
         /\ Announced \in SUBSET Told /\ Cardinality(Announced) <= Cardinality(Told)
         /\ monitor.tell = {} => Told = Announced
         /\ \E x : Told \in SUBSET (Announced \cup {x})
  <1>1. \A k, l \in monitor.tell : k = l
    BY DEF SafeInv, WatchInv, TellsOne
  <1>2. PICK x : {k[1] : k \in monitor.tell} \subseteq {x}
    BY <1>1
  <1>3. IsFiniteSet(Announced \cup {x}) /\ Told \in SUBSET (Announced \cup {x})
    BY <1>2, AnnouncedFinite, FS_AddElement DEF Told
  <1>4. IsFiniteSet(Told) /\ Cardinality(Told) \in Nat
    BY <1>3, FS_Subset, FS_CardinalityType
  <1>5. Announced \in SUBSET Told
    BY DEF Told
  <1>6. monitor.tell = {} => Told = Announced
    BY DEF Told
  <1> QED BY <1>3, <1>4, <1>5, <1>6, FS_Subset

(* Which episodes each step of the others announces.                       *)
LEMMA OthersTell ==
  ASSUME SafeInv
  PROVE  /\ OutboxStep => Announced' = Announced
         /\ UNCHANGED outbox => Announced' = Announced
         /\ \A keys \in SUBSET engine.tell : EnqueueAll(keys) => Announced' = Announced
         /\ \A keys \in SUBSET monitor.tell :
              EnqueueAll(keys) => Announced' = Announced \cup {k[1] : k \in keys}
  <1>0. row \in [Keys -> RowStatus] /\ AlertKeys \subseteq Keys
    BY AlertKeysKeyed, KnownKeys
  <1>1. OutboxStep => Announced' = Announced
    BY <1>0, RowsStand, AnnouncedStays DEF SafeInv
  <1>2. UNCHANGED outbox => Announced' = Announced
    BY AnnouncedStays DEF outbox
  <1>3. ASSUME NEW keys \in SUBSET engine.tell, EnqueueAll(keys)
        PROVE  Announced' = Announced
    <2>1. keys \cap AlertKeys = {}
      BY KnownKeys, KeysAssumption
    <2>2. \A k \in AlertKeys : row'[k] = row[k]
      BY <1>0, <1>3, <2>1 DEF EnqueueAll, Enqueue, outbox
    <2> QED BY <2>2, AnnouncedStays
  <1>4. ASSUME NEW keys \in SUBSET monitor.tell, EnqueueAll(keys)
        PROVE  Announced' = Announced \cup {k[1] : k \in keys}
    <2>1. CASE keys = {}
      BY <1>2, <1>4, <2>1 DEF EnqueueAll
    <2>2. CASE keys # {}
      <3>1. PICK key \in AlertKeys : keys = {key}
        BY <2>2, KnownKeys
      <3>2. row' = [row EXCEPT ![key] = IF @ = "none" THEN "pending" ELSE @]
        BY <1>4, <3>1 DEF EnqueueAll, Enqueue
      <3>3. \A k \in AlertKeys : row'[k] # "none" <=> row[k] # "none" \/ k = key
        BY <1>0, <3>2
      <3>4. PICK n \in 1 .. MaxEpisodes, s \in Severities : key = <<n, s>>
        BY DEF AlertKeys
      <3>5. \A i \in 1 .. MaxEpisodes, t \in Severities :
              row'[<<i, t>>] # "none" <=> row[<<i, t>>] # "none" \/ (i = n /\ t = s)
        BY <3>3, <3>4 DEF AlertKeys
      <3>6. Announced' = Announced \cup {n}
        BY <3>5 DEF Announced
      <3>7. {k[1] : k \in keys} = {n}
        BY <3>1, <3>4
      <3> QED BY <3>6, <3>7
    <2> QED BY <2>1, <2>2
  <1> QED BY <1>1, <1>2, <1>3, <1>4

LEMMA AnyCovered ==
  ASSUME NEW S, IsFiniteSet(S), NEW m \in Int, Cardinality(S) <= 1 + m, NEW inc
  PROVE  CoveredBy(inc, S, m + 1)
  <1>1. /\ Cardinality(S) \in Nat
        /\ Cardinality(S \cup {inc.episode}) \in {Cardinality(S), Cardinality(S) + 1}
    BY FS_CardinalityType, FS_AddElement
  <1>2. Cardinality(S) <= m + 1 /\ Cardinality(S \cup {inc.episode}) <= 1 + (m + 1)
    BY <1>1
  <1> QED BY <1>2 DEF CoveredBy

LEMMA RoomBounds ==
  ASSUME SafeInv
  PROVE  /\ Budget \in Nat /\ Room \in Int /\ Room <= Budget /\ Budget <= Room + 1
         /\ Room = IF monitor.pc = "decide" THEN Budget - 1 ELSE Budget
  <1>1. failures \in Nat /\ resolutions \in Nat /\ overwrites \in Nat
    BY OutboxAssumption DEF SafeInv, OutboxInv, OutboxTypeOK, WatchInv, MonitorTypeOK
  <1>2. Budget \in Nat
    BY <1>1 DEF Budget
  <1> QED BY <1>2 DEF Room

LEMMA RoomBoundsNext ==
  ASSUME SafeInv'
  PROVE  /\ Budget' \in Nat /\ Room' \in Int /\ Room' <= Budget' /\ Budget' <= Room' + 1
         /\ Room' = IF monitor'.pc = "decide" THEN Budget' - 1 ELSE Budget'
  <1>1. failures' \in Nat /\ resolutions' \in Nat /\ overwrites' \in Nat
    BY OutboxAssumption DEF SafeInv, OutboxInv, OutboxTypeOK, WatchInv, MonitorTypeOK
  <1>2. PICK f, r, o \in Nat : f = failures' /\ r = resolutions' /\ o = overwrites'
    BY <1>1
  <1>3. PICK b \in Nat : b = Budget'
    <2>1. Budget' = r + f + o
      BY <1>2 DEF Budget
    <2>2. r + f + o \in Nat
      OBVIOUS
    <2> QED BY <2>1, <2>2
  <1>4. Room' = IF monitor'.pc = "decide" THEN Budget' - 1 ELSE Budget'
    BY DEF Room
  <1>5. CASE monitor'.pc = "decide"
    <2>1. Room' = b - 1
      BY <1>3, <1>4, <1>5
    <2>2. b - 1 \in Int /\ b - 1 <= b /\ b <= (b - 1) + 1
      OBVIOUS
    <2> QED BY <1>3, <1>4, <2>1, <2>2
  <1>6. CASE monitor'.pc # "decide"
    <2>1. Room' = b
      BY <1>3, <1>4, <1>6
    <2>2. b \in Int /\ b <= b /\ b <= b + 1
      OBVIOUS
    <2> QED BY <1>3, <1>4, <2>1, <2>2
  <1> QED BY <1>5, <1>6

LEMMA EpisodeFrame ==
  ASSUME Cardinality(Told') <= 1 + Budget', MemoryCovers', RowCovers', WriteCovers',
         ListedCovers'
  PROVE  EpisodeInv'
  BY DEF EpisodeInv

(* The run stands still, or comes back from the check.                     *)
MovedOn ==
  \/ UNCHANGED monitor
  \/ /\ monitor.tell = {} /\ monitor'.tell = {}
     /\ \/ monitor.pc = "idle" /\ monitor'.pc = "detect"
        \/ monitor.pc = "detect" /\ monitor'.pc = "decide"

LEMMA MovedTold ==
  ASSUME MovedOn, Announced' = Announced
  PROVE  /\ Told' = Told
         /\ monitor'.pc = "send" <=> monitor.pc = "send"
         /\ monitor'.pc = "persist" => UNCHANGED monitor
  BY DEF MovedOn, Told

(* What the row and the write knew they still know when nothing but the    *)
(* budget grew.                                                            *)
LEMMA MovedCovers ==
  ASSUME SafeInv, EpisodeInv, MovedOn, Announced' = Announced, UNCHANGED incidentRow,
         Budget' \in Nat, Budget <= Budget'
  PROVE  Cardinality(Told') <= 1 + Budget' /\ RowCovers' /\ WriteCovers'
  <1>1. /\ IsFiniteSet(Told) /\ IsFiniteSet(Announced) /\ Cardinality(Told) \in Nat
        /\ Budget \in Nat
    BY AnnouncedFinite, ToldKnown, RoomBounds
  <1>2. Cardinality(Told') <= 1 + Budget'
    BY <1>1, MovedTold DEF EpisodeInv
  <1>3. CoveredBy(incidentRow, IF monitor.pc = "send" THEN Told ELSE Announced, Budget')
    BY <1>1, CoveredLess DEF EpisodeInv, RowCovers
  <1>4. RowCovers'
    BY <1>3, MovedTold DEF RowCovers
  <1>5. WriteCovers'
    BY <1>1, MovedTold, CoveredLess DEF EpisodeInv, WriteCovers
  <1> QED BY <1>2, <1>4, <1>5

LEMMA EpisodeEnsures ==
  ASSUME SafeInv, SafeInv', EpisodeInv, Announced' = Announced, NEW c \in Callers,
         EnsureLoaded(c)
  PROVE  EpisodeInv'
  <1>1. WatchInv
    BY DEF SafeInv
  <1>2. /\ UNCHANGED <<incident, incidentRow, loaded, resolutions, overwrites, failures>>
        /\ calls[c] = NoCall /\ MovedOn
        /\ \/ UNCHANGED calls
           \/ /\ ~loaded /\ UNCHANGED monitor
              /\ calls' = [calls EXCEPT ![c].pc = "asked"]
        /\ UNCHANGED monitor \/ loaded
    BY <1>1, EnsureKeeps DEF MovedOn
  <1>3. Budget' = Budget /\ Budget \in Nat
    BY <1>2, RoomBounds DEF Budget
  <1>4. Cardinality(Told') <= 1 + Budget' /\ RowCovers' /\ WriteCovers' /\ Told' = Told
    BY <1>2, <1>3, MovedCovers, MovedTold
  <1>5. MemoryCovers'
    BY <1>2, <1>3, <1>4 DEF EpisodeInv, MemoryCovers
  <1>6. ListedCovers'
    <2>1. CASE loaded
      BY <1>2, <2>1 DEF ListedCovers
    <2>2. CASE ~loaded
      <3>1. Room' = Room
        BY <1>2, <1>3, <2>2 DEF Room
      <3>2. \A d \in Callers : calls'[d].pc = "listed" => calls'[d] = calls[d]
        BY <1>1, <1>2, WatchTyped DEF WatchInv, CallState
      <3> QED BY <1>2, <1>4, <2>2, <3>1, <3>2 DEF EpisodeInv, ListedCovers
    <2> QED BY <2>1, <2>2
  <1> QED BY <1>4, <1>5, <1>6, EpisodeFrame

LEMMA EpisodeLists ==
  ASSUME SafeInv, SafeInv', EpisodeInv, Announced' = Announced, NEW c \in Callers, List(c)
  PROVE  EpisodeInv'
  <1>1. WatchInv
    BY DEF SafeInv
  <1>2. /\ UNCHANGED <<incident, incidentRow, loaded, resolutions, overwrites>>
        /\ MovedOn
        /\ \/ /\ calls' = [calls EXCEPT ![c] = [pc |-> "listed", row |-> incidentRow]]
              /\ UNCHANGED <<monitor, failures>>
           \/ calls' = [calls EXCEPT ![c] = NoCall] /\ Raises
    BY <1>1, ListKeeps DEF MovedOn
  <1>3. /\ Budget \in Nat /\ Budget' \in Nat /\ Budget <= Budget'
        /\ \/ Budget' = Budget /\ UNCHANGED monitor
           \/ Budget' = Budget + 1
    BY <1>2, BudgetGrows DEF Call, Returns
  <1>4. Cardinality(Told') <= 1 + Budget' /\ RowCovers' /\ WriteCovers' /\ Told' = Told
    BY <1>2, <1>3, MovedCovers, MovedTold
  <1>5. IsFiniteSet(Told)
    BY ToldKnown
  <1>6. MemoryCovers'
    <2>1. CASE CoveredBy(incident, Told, Budget)
      <3>1. CoveredBy(incident, Told, Budget')
        BY <1>3, <1>5, <2>1, CoveredLess
      <3> QED BY <1>2, <1>4, <3>1 DEF MemoryCovers
    <2>2. CASE Budget' = Budget + 1
      <3>1. CoveredBy(incident, Told, Budget')
        BY <1>3, <1>5, <2>2, AnyCovered DEF EpisodeInv
      <3> QED BY <1>2, <1>4, <3>1 DEF MemoryCovers
    <2>3. CASE UNCHANGED monitor /\ ~CoveredBy(incident, Told, Budget)
      BY <1>2, <2>3 DEF EpisodeInv, MemoryCovers
    <2> QED BY <1>3, <2>1, <2>2, <2>3
  <1>7. ListedCovers'
    <2>1. CASE loaded
      BY <1>2, <2>1 DEF ListedCovers
    <2>2. CASE ~loaded
      <3>1. Room \in Int /\ Room' \in Int /\ Room <= Room'
        <4>1. CASE Budget' = Budget /\ UNCHANGED monitor
          BY <4>1, RoomBounds, RoomBoundsNext DEF Room
        <4>2. CASE Budget' = Budget + 1
          BY <1>3, <4>2, RoomBounds, RoomBoundsNext
        <4> QED BY <1>3, <4>1, <4>2
      <3>2. calls \in [Callers -> CallState]
        BY <1>1, WatchTyped DEF WatchInv
      <3>3. \A d \in Callers : calls'[d].pc = "listed" =>
              calls'[d] = calls[d] \/ calls'[d].row = incidentRow
        BY <1>2, <3>2, NoCallTyped
      <3>4. /\ CoveredBy(incidentRow, Told, Room')
            /\ \A d \in Callers :
                 calls[d].pc = "listed" => CoveredBy(calls[d].row, Told, Room')
        BY <1>5, <2>2, <3>1, CoveredLess DEF EpisodeInv, ListedCovers
      <3> QED BY <1>2, <1>4, <3>3, <3>4 DEF ListedCovers
    <2> QED BY <2>1, <2>2
  <1> QED BY <1>4, <1>6, <1>7, EpisodeFrame

(* A load that comes late is paid for, any other installs what is covered. *)
LEMMA EpisodeInstalls ==
  ASSUME SafeInv, SafeInv', EpisodeInv, Announced' = Announced, NEW c \in Callers,
         Install(c)
  PROVE  EpisodeInv'
  <1>1. WatchInv
    BY DEF SafeInv
  <1>2. /\ UNCHANGED <<incidentRow, resolutions, failures>>
        /\ MovedOn /\ loaded' = TRUE /\ calls[c].pc = "listed"
        /\ \/ UNCHANGED incident /\ calls[c].row = NoIncident
           \/ incident' = calls[c].row
        /\ \/ UNCHANGED overwrites /\ (~loaded \/ UNCHANGED incident)
           \/ loaded /\ overwrites' = overwrites + 1
    BY <1>1, InstallKeeps DEF MovedOn
  <1>3. /\ Budget \in Nat /\ Budget' \in Nat /\ Budget <= Budget'
        /\ UNCHANGED overwrites => Budget' = Budget
        /\ overwrites' = overwrites + 1 => Budget' = Budget + 1
    BY <1>2, BudgetGrows DEF Call, Returns
  <1>4. Cardinality(Told') <= 1 + Budget' /\ RowCovers' /\ WriteCovers' /\ Told' = Told
    BY <1>2, <1>3, MovedCovers, MovedTold
  <1>5. IsFiniteSet(Told)
    BY ToldKnown
  <1>6. CoveredBy(incident', Told, Budget')
    <2>1. CASE overwrites' = overwrites + 1
      BY <1>3, <1>5, <2>1, AnyCovered DEF EpisodeInv
    <2>2. CASE UNCHANGED overwrites /\ ~loaded
      <3>1. CoveredBy(calls[c].row, Told, Room)
        BY <1>2, <2>2 DEF EpisodeInv, ListedCovers
      <3>2. CoveredBy(calls[c].row, Told, Budget)
        BY <1>5, <3>1, RoomBounds, CoveredLess
      <3> QED BY <1>2, <1>3, <2>2, <3>2 DEF EpisodeInv, MemoryCovers
    <2>3. CASE UNCHANGED overwrites /\ UNCHANGED incident /\ loaded
      BY <1>3, <2>3 DEF EpisodeInv, MemoryCovers
    <2> QED BY <1>2, <2>1, <2>2, <2>3
  <1>7. MemoryCovers'
    BY <1>4, <1>6 DEF MemoryCovers
  <1>8. ListedCovers'
    BY <1>2 DEF ListedCovers
  <1> QED BY <1>4, <1>7, <1>8, EpisodeFrame

LEMMA EpisodeDetects ==
  ASSUME SafeInv, SafeInv', EpisodeInv, Announced' = Announced, DetectionEnds
  PROVE  EpisodeInv'
  <1>1. /\ UNCHANGED <<incident, incidentRow, loaded, calls, resolutions, overwrites>>
        /\ monitor.pc = "detect" /\ monitor.tell = {} /\ Call
        /\ monitor'.pc = "idle" /\ monitor'.tell = {}
    BY DetectionKeeps DEF SafeInv
  <1>2. Budget \in Nat /\ Budget' \in Nat /\ Budget <= Budget'
    BY <1>1, BudgetGrows
  <1>3. IsFiniteSet(Told) /\ Cardinality(Told) \in Nat /\ Told' = Told /\ Told = Announced
    BY <1>1, ToldKnown DEF Told
  <1>4. Room = Budget /\ Room' = Budget'
    BY <1>1, RoomBounds, RoomBoundsNext
  <1>5. Cardinality(Told') <= 1 + Budget'
    BY <1>2, <1>3 DEF EpisodeInv
  <1>6. MemoryCovers'
    BY <1>1, <1>2, <1>3, CoveredLess DEF EpisodeInv, MemoryCovers
  <1>7. RowCovers' /\ WriteCovers'
    BY <1>1, <1>2, <1>3, CoveredLess DEF EpisodeInv, RowCovers, WriteCovers
  <1>8. ListedCovers'
    BY <1>1, <1>2, <1>3, <1>4, CoveredLess DEF EpisodeInv, ListedCovers
  <1> QED BY <1>5, <1>6, <1>7, <1>8, EpisodeFrame

(* An alert starts an episode only when memory has room for it.            *)
LEMMA EpisodeOpens ==
  ASSUME SafeInv, SafeInv', EpisodeInv, Announced' = Announced,
         NEW severity \in Severities, Alert(severity)
  PROVE  EpisodeInv'
  <1>1. PICK episode \in 1 .. MaxEpisodes, tell \in SUBSET AlertKeys :
          /\ incident' \in Incidents
          /\ incident'.state = "open" /\ incident'.episode = episode
          /\ incident.state = "open" => episode = incident.episode
          /\ tell \subseteq {<<episode, incident'.severity>>}
          /\ Goes("persist", tell, incident') /\ monitor.pc = "decide"
          /\ UNCHANGED <<incidentRow, loaded, calls, resolutions, overwrites, failures>>
    BY AlertOpens DEF SafeInv
  <1>2. /\ monitor'.pc = "persist" /\ monitor'.tell = tell /\ monitor'.writes = incident'
        /\ monitor.tell = {}
    BY <1>1, GoesTo DEF SafeInv, WatchInv, TellsOne
  <1>3. /\ IsFiniteSet(Announced) /\ IsFiniteSet(Announced \cup {episode})
        /\ Told = Announced
    BY <1>2, AnnouncedFinite, ToldKnown, FS_AddElement
  <1>4. Budget \in Nat /\ Budget' = Budget
    BY <1>1, RoomBounds DEF Budget
  <1>5. CoveredBy(incident, Announced, Budget)
    BY <1>1, <1>3 DEF EpisodeInv, MemoryCovers
  <1>6. Cardinality(Announced \cup {episode}) <= 1 + Budget
    <2>1. CASE incident.state = "open"
      BY <1>1, <1>5, <2>1 DEF CoveredBy
    <2>2. CASE incident.state # "open"
      <3>1. Cardinality(Announced) <= Budget
        BY <1>5, <2>2 DEF CoveredBy
      <3>2. /\ Cardinality(Announced) \in Nat
            /\ Cardinality(Announced \cup {episode})
                 \in {Cardinality(Announced), Cardinality(Announced) + 1}
        BY <1>3, FS_AddElement, FS_CardinalityType
      <3> QED BY <1>4, <3>1, <3>2
    <2> QED BY <2>1, <2>2
  <1>7. Told' \in SUBSET (Announced \cup {episode})
    <2>1. \A k \in tell : k[1] = episode
      BY <1>1
    <2> QED BY <1>2, <2>1 DEF Told
  <1>8. Cardinality(Told') <= 1 + Budget'
    <2>1. IsFiniteSet(Told') /\ Cardinality(Told') <= Cardinality(Announced \cup {episode})
      BY <1>3, <1>7, FS_Subset
    <2>2. Cardinality(Told') \in Nat /\ Cardinality(Announced \cup {episode}) \in Nat
      BY <1>3, <2>1, FS_CardinalityType
    <2> QED BY <1>4, <1>6, <2>1, <2>2
  <1>9. CoveredBy(incident', Told', Budget')
    <2>1. Told' \cup {episode} = Announced \cup {episode}
      BY <1>7 DEF Told
    <2> QED BY <1>1, <1>4, <1>6, <2>1 DEF CoveredBy
  <1>10. MemoryCovers' /\ WriteCovers'
    BY <1>2, <1>9 DEF MemoryCovers, WriteCovers
  <1>11. RowCovers'
    BY <1>1, <1>2, <1>4 DEF EpisodeInv, RowCovers
  <1>12. ListedCovers'
    <2>1. Room = Budget - 1 /\ Room' = Budget
      BY <1>1, <1>2, <1>4, RoomBounds, RoomBoundsNext
    <2>2. ASSUME NEW inc, CoveredBy(inc, Told, Room)
          PROVE  CoveredBy(inc, Told', Room')
      <3>1. Room \in Int /\ Room + 1 = Room' /\ Room' \in Int /\ Room' <= Room'
        BY <1>4, <2>1
      <3>2. CoveredBy(inc, Announced \cup {episode}, Room')
        BY <1>3, <2>2, <3>1, CoveredMore
      <3> QED BY <1>3, <1>7, <3>1, <3>2, CoveredLess
    <2> QED BY <1>1, <2>2 DEF EpisodeInv, ListedCovers
  <1> QED BY <1>8, <1>10, <1>11, <1>12, EpisodeFrame

(* A good sample closes the episode at the cost of a resolution.           *)
LEMMA EpisodeCounts ==
  ASSUME SafeInv, SafeInv', EpisodeInv, Announced' = Announced, NoAlert
  PROVE  EpisodeInv'
  <1>1. WatchInv
    BY DEF SafeInv
  <1>2. /\ \/ monitor'.pc = "persist" /\ monitor'.writes = incident'
           \/ monitor'.pc = "idle"
        /\ monitor'.tell = {} /\ monitor.tell = {}
        /\ monitor.pc = "decide"
        /\ UNCHANGED <<incidentRow, loaded, calls, overwrites, failures>>
    BY <1>1, NoAlertCounts, NoIncidentTyped, GoesTo DEF WatchInv, TellsOne
  <1>3. /\ IsFiniteSet(Announced) /\ Cardinality(Announced) \in Nat
        /\ Told = Announced /\ Told' = Announced
    BY <1>2, AnnouncedFinite DEF Told
  <1>4. /\ Budget \in Nat /\ Budget' \in Nat /\ Budget <= Budget'
        /\ UNCHANGED resolutions => Budget' = Budget
        /\ resolutions' = resolutions + 1 => Budget' = Budget + 1
    <2>1. UNCHANGED resolutions \/ resolutions' = resolutions + 1
      BY <1>1, NoAlertCounts
    <2> QED BY <1>2, <2>1, BudgetGrows DEF Call, Returns
  <1>5. CoveredBy(incident, Announced, Budget)
    BY <1>2, <1>3 DEF EpisodeInv, MemoryCovers
  <1>6. Cardinality(Told') <= 1 + Budget'
    BY <1>3, <1>4 DEF EpisodeInv
  <1>7. CoveredBy(incident', Announced, Budget')
    <2>1. CASE UNCHANGED <<incident, resolutions>>
      BY <1>4, <1>5, <2>1
    <2>2. CASE /\ incident.state = "open" /\ incident'.state = "open"
               /\ incident'.episode = incident.episode /\ UNCHANGED resolutions
      BY <1>4, <1>5, <2>2 DEF CoveredBy
    <2>3. CASE incident'.state = "resolved" /\ resolutions' = resolutions + 1
      <3>1. Cardinality(Announced) <= Budget'
        BY <1>3, <1>4, <2>3 DEF EpisodeInv
      <3> QED BY <2>3, <3>1 DEF CoveredBy
    <2> QED BY <1>1, <2>1, <2>2, <2>3, NoAlertCounts
  <1>8. MemoryCovers' /\ WriteCovers'
    BY <1>2, <1>3, <1>7 DEF MemoryCovers, WriteCovers
  <1>9. RowCovers'
    BY <1>2, <1>3, <1>4, CoveredLess DEF EpisodeInv, RowCovers
  <1>10. ListedCovers'
    <2>1. Room \in Int /\ Room' \in Int /\ Room <= Room'
      BY <1>2, <1>4, RoomBounds, RoomBoundsNext
    <2> QED BY <1>2, <1>3, <2>1, CoveredLess DEF EpisodeInv, ListedCovers
  <1> QED BY <1>6, <1>8, <1>9, <1>10, EpisodeFrame

(* The row is written with what the run decided, or stays a key behind.    *)
LEMMA EpisodePersists ==
  ASSUME SafeInv, SafeInv', EpisodeInv, Announced' = Announced, Persist
  PROVE  EpisodeInv'
  <1>1. /\ monitor.pc = "persist" /\ monitor'.tell = monitor.tell
        /\ monitor'.pc = IF monitor.tell = {} THEN "idle" ELSE "send"
        /\ UNCHANGED <<loaded, calls, resolutions, overwrites>>
        /\ \/ /\ incidentRow' = monitor.writes /\ incident' = monitor.writes
              /\ UNCHANGED failures
           \/ incidentRow' \in {incidentRow, monitor.writes} /\ UNCHANGED incident /\ Raises
    BY PersistKeeps DEF SafeInv
  <1>2. /\ IsFiniteSet(Announced) /\ IsFiniteSet(Told) /\ Cardinality(Told) \in Nat
        /\ Told' = Told
    BY <1>1, AnnouncedFinite, ToldKnown DEF Told
  <1>3. /\ Budget \in Nat /\ Budget' \in Nat /\ Budget <= Budget'
        /\ Raises => Budget' = Budget + 1
    BY <1>1, BudgetGrows DEF Call, Returns
  <1>4. Cardinality(Told') <= 1 + Budget'
    BY <1>2, <1>3 DEF EpisodeInv
  <1>5. CoveredBy(monitor.writes, Told, Budget') /\ CoveredBy(incident, Told, Budget')
    BY <1>1, <1>2, <1>3, CoveredLess DEF EpisodeInv, MemoryCovers, WriteCovers
  <1>6. MemoryCovers' /\ WriteCovers'
    BY <1>1, <1>2, <1>5 DEF MemoryCovers, WriteCovers
  <1>7. CoveredBy(incidentRow', Told, Budget')
    <2>1. CASE incidentRow' = monitor.writes
      BY <1>5, <2>1
    <2>2. CASE incidentRow' = incidentRow /\ Raises
      <3>1. PICK x : Told \in SUBSET (Announced \cup {x})
        BY ToldKnown
      <3>2. CoveredBy(incidentRow, Announced \cup {x}, Budget')
        <4>1. CoveredBy(incidentRow, Announced, Budget)
          BY <1>1 DEF EpisodeInv, RowCovers
        <4>2. CoveredBy(incidentRow, Announced \cup {x}, Budget + 1)
          <5>1. Budget \in Int
            BY <1>3
          <5> QED BY <1>2, <4>1, <5>1, CoveredMore
        <4> QED BY <1>3, <2>2, <4>2
      <3>3. IsFiniteSet(Announced \cup {x})
        BY <1>2, FS_AddElement
      <3> QED BY <1>3, <2>2, <3>1, <3>2, <3>3, CoveredLess
    <2> QED BY <1>1, <2>1, <2>2
  <1>8. RowCovers'
    <2>1. monitor'.pc # "send" => Announced = Told
      BY <1>1, ToldKnown
    <2> QED BY <1>2, <1>7, <2>1 DEF RowCovers
  <1>9. ListedCovers'
    <2>1. Room \in Int /\ Room' = Budget' /\ Room <= Room'
      BY <1>1, <1>3, RoomBounds, RoomBoundsNext
    <2> QED BY <1>1, <1>2, <1>3, <1>7, <2>1, CoveredLess DEF EpisodeInv, ListedCovers
  <1> QED BY <1>4, <1>6, <1>8, <1>9, EpisodeFrame

(* The episode is announced, which all of them know of by now, or is not.  *)
LEMMA EpisodeSent ==
  ASSUME SafeInv, SafeInv', EpisodeInv, Call, NEW keys \in SUBSET monitor.tell, Send(keys),
         EnqueueAll(keys)
  PROVE  EpisodeInv'
  <1>1. /\ monitor.pc = "send" /\ monitor'.pc = "idle" /\ monitor'.tell = {}
        /\ UNCHANGED <<incident, incidentRow, loaded, calls, resolutions, overwrites>>
    BY SendEnds DEF SafeInv
  <1>2. Announced' = Announced \cup {k[1] : k \in keys}
    BY OthersTell
  <1>3. Told' = Announced' /\ Told' \in SUBSET Told
    BY <1>1, <1>2 DEF Told
  <1>4. Budget \in Nat /\ Budget' \in Nat /\ Budget <= Budget'
    BY <1>1, BudgetGrows
  <1>5. IsFiniteSet(Told) /\ Cardinality(Told) \in Nat
    BY ToldKnown
  <1>6. Room = Budget /\ Room' = Budget'
    BY <1>1, RoomBounds, RoomBoundsNext
  <1>7. Cardinality(Told') <= 1 + Budget'
    <2>1. Cardinality(Told') <= Cardinality(Told) /\ Cardinality(Told') \in Nat
      BY <1>3, <1>5, FS_Subset, FS_CardinalityType
    <2>2. Cardinality(Told) <= 1 + Budget
      BY DEF EpisodeInv
    <2> QED BY <1>4, <1>5, <2>1, <2>2
  <1>8. MemoryCovers'
    BY <1>1, <1>3, <1>4, <1>5, CoveredLess DEF EpisodeInv, MemoryCovers
  <1>9. RowCovers' /\ WriteCovers'
    BY <1>1, <1>3, <1>4, <1>5, CoveredLess DEF EpisodeInv, RowCovers, WriteCovers
  <1>10. ListedCovers'
    BY <1>1, <1>3, <1>4, <1>5, <1>6, CoveredLess DEF EpisodeInv, ListedCovers
  <1> QED BY <1>7, <1>8, <1>9, <1>10, EpisodeFrame

(* The watchdog stands still.                                              *)
LEMMA EpisodeElse ==
  ASSUME SafeInv, SafeInv', EpisodeInv, Call, Announced' = Announced, UNCHANGED watchdog
  PROVE  EpisodeInv'
  <1>1. UNCHANGED <<incident, incidentRow, loaded, calls, monitor, resolutions, overwrites>>
    BY DEF watchdog, incidents, history
  <1>2. MovedOn /\ Told' = Told
    BY <1>1 DEF MovedOn, Told
  <1>3. Budget \in Nat /\ Budget' \in Nat /\ Budget <= Budget'
    BY <1>1, BudgetGrows
  <1>4. IsFiniteSet(Told)
    BY ToldKnown
  <1>5. Cardinality(Told') <= 1 + Budget' /\ RowCovers' /\ WriteCovers'
    BY <1>1, <1>2, <1>3, MovedCovers
  <1>6. MemoryCovers'
    BY <1>1, <1>2, <1>3, <1>4, CoveredLess DEF EpisodeInv, MemoryCovers
  <1>7. ListedCovers'
    <2>1. Room \in Int /\ Room' \in Int /\ Room <= Room'
      BY <1>1, <1>3, RoomBounds, RoomBoundsNext
    <2> QED BY <1>1, <1>2, <1>4, <2>1, CoveredLess DEF EpisodeInv, ListedCovers
  <1> QED BY <1>5, <1>6, <1>7, EpisodeFrame

(* The restarted watchdog knows nothing until it has loaded the row.       *)
LEMMA EpisodeRestarts ==
  ASSUME SafeInv, SafeInv', EpisodeInv, Announced' = Announced, MonitorRestarts, Returns
  PROVE  EpisodeInv'
  <1>1. /\ incident' = NoIncident /\ loaded' = FALSE
        /\ monitor'.pc = "idle" /\ monitor'.tell = {}
        /\ calls' = [c \in Callers |-> NoCall]
        /\ UNCHANGED <<incidentRow, resolutions, overwrites, failures>>
    BY RestartKeeps DEF Returns
  <1>2. Budget' = Budget /\ Budget \in Nat /\ Room' = Budget'
    BY <1>1, RoomBounds, RoomBoundsNext DEF Budget
  <1>3. Told' = Announced /\ Announced \in SUBSET Told /\ IsFiniteSet(Told)
        /\ Cardinality(Announced) <= Cardinality(Told) /\ Cardinality(Told) \in Nat
    BY <1>1, ToldKnown DEF Told
  <1>4. Cardinality(Told') <= 1 + Budget'
    <2>1. Cardinality(Announced) \in Nat /\ Cardinality(Told) <= 1 + Budget
      BY AnnouncedFinite DEF EpisodeInv
    <2> QED BY <1>2, <1>3, <2>1
  <1>5. CoveredBy(incidentRow, Announced, Budget)
    BY <1>2, <1>3, CoveredLess DEF EpisodeInv, RowCovers
  <1>6. MemoryCovers' /\ RowCovers' /\ WriteCovers'
    BY <1>1, <1>2, <1>5 DEF MemoryCovers, RowCovers, WriteCovers
  <1>7. ListedCovers'
    BY <1>1, <1>2, <1>3, <1>5, NoCallTyped DEF ListedCovers
  <1> QED BY <1>4, <1>6, <1>7, EpisodeFrame

LEMMA EpisodeStep ==
  ASSUME SafeInv, SafeInv', EpisodeInv, [Next]_vars
  PROVE  EpisodeInv'
  <1>1. ASSUME OutboxStep, UNCHANGED <<watchdog, proposals, trader>> PROVE EpisodeInv'
    BY <1>1, OthersTell, RowsStand, EpisodeElse DEF SafeInv
  <1>2. ASSUME WatchStep, UNCHANGED <<outbox, proposals, trader>> PROVE EpisodeInv'
    <2>1. Announced' = Announced
      BY <1>2, OthersTell
    <2> QED BY <1>2, <2>1, WatchSteps, EpisodeEnsures, EpisodeLists, EpisodeInstalls,
               EpisodeDetects, EpisodeOpens, EpisodeCounts, EpisodePersists
  <1>3. ASSUME NEW keys \in SUBSET monitor.tell, Send(keys), EnqueueAll(keys), Call
        PROVE  EpisodeInv'
    BY <1>3, EpisodeSent
  <1>4. ASSUME ProposalStep, Call, UNCHANGED <<outbox, watchdog, trader>> PROVE EpisodeInv'
    BY <1>4, OthersTell, EpisodeElse
  <1>5. ASSUME NEW keys \in SUBSET engine.tell, EnqueueAll(keys), Call,
               UNCHANGED <<watchdog, trader>>
        PROVE  EpisodeInv'
    BY <1>5, OthersTell, EpisodeElse
  <1>6. ASSUME TraderRestarts PROVE EpisodeInv'
    BY <1>6, OthersTell, EpisodeRestarts DEF TraderRestarts
  <1>7. ASSUME UNCHANGED vars PROVE EpisodeInv'
    <2>1. UNCHANGED outbox /\ Call /\ UNCHANGED watchdog
      BY <1>7 DEF vars, Call, Returns
    <2> QED BY <2>1, OthersTell, EpisodeElse
  <1> QED BY <1>1, <1>2, <1>3, <1>4, <1>5, <1>6, <1>7, NextCases

(* One load at most comes late from a start of the trader to the next: of  *)
(* the two callers, one that has passed the check before the other's load  *)
(* was through.                                                            *)
LateInv ==
  /\ overwrites <= 1 + traderRestarts
  /\ (~loaded \/ \E c \in Callers : calls[c] # NoCall) => overwrites <= traderRestarts
  /\ loaded => \A c, d \in Callers : (calls[c] # NoCall /\ calls[d] # NoCall) => c = d

LEMMA LateStep ==
  ASSUME SafeInv, LateInv, [Next]_vars
  PROVE  LateInv'
  <1>1. /\ overwrites \in Nat /\ traderRestarts \in Nat
        /\ calls \in [Callers -> CallState] /\ loaded \in BOOLEAN
    BY WatchTyped, OutboxAssumption DEF SafeInv, WatchInv, MonitorTypeOK
  <1>2. WatchInv
    BY DEF SafeInv
  <1>3. ASSUME UNCHANGED <<loaded, calls, overwrites, traderRestarts>> PROVE LateInv'
    BY <1>3 DEF LateInv
  <1>4. ASSUME NEW c \in Callers, EnsureLoaded(c), UNCHANGED traderRestarts PROVE LateInv'
    BY <1>1, <1>2, <1>3, <1>4, EnsureKeeps DEF LateInv
  <1>5. ASSUME NEW c \in Callers, List(c), UNCHANGED traderRestarts PROVE LateInv'
    <2>1. /\ UNCHANGED <<loaded, overwrites>> /\ calls[c] # NoCall
          /\ \A d \in Callers : calls'[d] # NoCall => calls[d] # NoCall
      BY <1>1, <1>2, <1>5, ListKeeps, NoCallTyped
    <2> QED BY <1>5, <2>1 DEF LateInv
  <1>6. ASSUME NEW c \in Callers, Install(c), UNCHANGED traderRestarts PROVE LateInv'
    <2>1. /\ calls[c] # NoCall /\ loaded' = TRUE
          /\ \A d \in Callers : calls'[d] # NoCall => (calls[d] # NoCall /\ d # c)
          /\ \/ UNCHANGED overwrites
             \/ loaded /\ overwrites' = overwrites + 1
      BY <1>1, <1>2, <1>6, InstallKeeps, NoCallTyped
    <2>2. overwrites <= traderRestarts
      BY <2>1 DEF LateInv
    <2>3. \A d, e \in Callers : (d # c /\ e # c) => d = e
      BY DEF Callers
    <2>4. CASE UNCHANGED overwrites
      BY <1>1, <1>6, <2>1, <2>2, <2>3, <2>4 DEF LateInv
    <2>5. CASE loaded /\ overwrites' = overwrites + 1
      <3>1. \A d \in Callers : calls'[d] = NoCall
        BY <2>1, <2>5 DEF LateInv
      <3>2. overwrites' <= 1 + traderRestarts
        BY <1>1, <2>2, <2>5
      <3> QED BY <1>6, <2>1, <3>1, <3>2 DEF LateInv
    <2> QED BY <2>1, <2>4, <2>5
  <1>7. ASSUME WatchStep, UNCHANGED trader PROVE LateInv'
    <2>1. UNCHANGED traderRestarts
      BY <1>7 DEF trader
    <2>2. DetectionEnds => UNCHANGED <<loaded, calls, overwrites>>
      BY <1>2, DetectionKeeps
    <2>3. \A severity \in Severities :
            Alert(severity) => UNCHANGED <<loaded, calls, overwrites>>
      BY <1>2, AlertOpens
    <2>4. NoAlert \/ Persist => UNCHANGED <<loaded, calls, overwrites>>
      BY <1>2, NoAlertCounts, PersistKeeps
    <2> QED BY <1>3, <1>4, <1>5, <1>6, <1>7, <2>1, <2>2, <2>3, <2>4, WatchSteps
  <1>8. ASSUME NEW keys \in SUBSET monitor.tell, Send(keys), UNCHANGED trader PROVE LateInv'
    BY <1>2, <1>3, <1>8, SendEnds DEF trader
  <1>9. ASSUME UNCHANGED <<watchdog, trader>> PROVE LateInv'
    BY <1>3, <1>9 DEF watchdog, trader, incidents
  <1>10. ASSUME TraderRestarts PROVE LateInv'
    <2>1. /\ UNCHANGED overwrites /\ traderRestarts' = traderRestarts + 1
          /\ calls' = [c \in Callers |-> NoCall] /\ loaded' = FALSE
      BY <1>10, RestartKeeps DEF TraderRestarts
    <2>2. overwrites' <= traderRestarts' /\ overwrites' <= 1 + traderRestarts'
      BY <1>1, <2>1 DEF LateInv
    <2> QED BY <2>1, <2>2 DEF LateInv
  <1>11. UNCHANGED vars => UNCHANGED <<watchdog, trader>>
    BY DEF vars
  <1> QED BY <1>7, <1>8, <1>9, <1>10, <1>11, NextCases

(* Between two resolutions the operator hears of one episode, whenever the *)
(* trader restarts: a restarted watchdog takes the stored incident up      *)
(* before it decides anything, and stores a new one before it announces    *)
(* it.  A failed call may cost one more, and so may a load of the command  *)
(* that comes late, of which there is one for each start of the trader.    *)
THEOREM OneEpisode == Spec => []OneEpisodeAtATime
  <1>1. Init => EpisodeInv /\ LateInv
    <2> SUFFICES ASSUME Init PROVE EpisodeInv /\ LateInv
      OBVIOUS
    <2>1. /\ Announced = {} /\ Told = {}
          /\ resolutions = 0 /\ failures = 0 /\ overwrites = 0 /\ traderRestarts = 0
          /\ incident = NoIncident /\ incidentRow = NoIncident
          /\ monitor.pc = "idle" /\ calls = [c \in Callers |-> NoCall]
      BY AlertKeysKeyed
         DEF Init, OutboxInit, MonitorInit, Announced, Told, AlertKeys
    <2>2. Budget = 0 /\ Room = 0 /\ Cardinality({}) = 0
      BY <2>1, FS_EmptySet DEF Budget, Room
    <2>3. CoveredBy(NoIncident, {}, 0)
      BY <2>2, NoIncidentTyped DEF CoveredBy
    <2>4. Cardinality(Told) <= 1 + Budget
      BY <2>1, <2>2
    <2>5. MemoryCovers /\ RowCovers /\ WriteCovers /\ ListedCovers
      BY <2>1, <2>2, <2>3, NoCallTyped
         DEF MemoryCovers, RowCovers, WriteCovers, ListedCovers
    <2>6. LateInv
      BY <2>1 DEF LateInv
    <2> QED BY <2>4, <2>5, <2>6 DEF EpisodeInv
  <1>2. EpisodeInv /\ LateInv /\ SafeInv /\ SafeInv' /\ [Next]_vars => (EpisodeInv /\ LateInv)'
    BY EpisodeStep, LateStep
  <1>3. SafeInv /\ EpisodeInv /\ LateInv => OneEpisodeAtATime
    <2> SUFFICES ASSUME SafeInv, EpisodeInv, LateInv PROVE OneEpisodeAtATime
      OBVIOUS
    <2>1. /\ Cardinality(Announced) \in Nat /\ Cardinality(Told) \in Nat
          /\ Cardinality(Announced) <= Cardinality(Told)
          /\ Cardinality(Told) <= 1 + Budget /\ Budget \in Nat
      BY AnnouncedFinite, ToldKnown, RoomBounds DEF EpisodeInv
    <2>2. Cardinality(Announced) <= 1 + Budget
      BY <2>1
    <2>3. 1 + Budget = 1 + resolutions + failures + overwrites
      <3>1. resolutions \in Nat /\ failures \in Nat /\ overwrites \in Nat
        BY OutboxAssumption DEF SafeInv, OutboxInv, OutboxTypeOK, WatchInv, MonitorTypeOK
      <3> QED BY <3>1 DEF Budget
    <2> QED BY <2>2, <2>3 DEF OneEpisodeAtATime, LateInv
  <1> QED BY <1>1, <1>2, <1>3, AlwaysSafe, PTL DEF Spec
=============================================================================
