------------------------ MODULE WorkerCommandsProofs ------------------------
(***************************************************************************)
(* What holds of the worker_commands queue for every number of workers,    *)
(* requests, commands, crashes and overruns.                               *)
(***************************************************************************)
EXTENDS WorkerCommands, TLAPS

USE DEF CommandIds, Open, Terminal

LEMMA InitType == Init => TypeOK
  <1>1. NoRow \in Row /\ Idle \in WorkerState /\ NoRequest \in RequestState
    BY DEF NoRow, Row, Idle, WorkerState, NoRequest, RequestState
  <1> QED BY <1>1, BoundsAssumption DEF Init, TypeOK, Idle, NoRequest

(* The three tables after one of their entries was replaced.               *)
LEMMA RowsUpdate ==
  ASSUME TypeOK, NEW c \in CommandIds, NEW x \in Row,
         rows' = [rows EXCEPT ![c] = x]
  PROVE  rows' \in [CommandIds -> Row]
  BY DEF TypeOK

LEMMA WorkerUpdate ==
  ASSUME TypeOK, NEW w \in Workers, NEW x \in WorkerState,
         x.pc # "idle" => x.cmd # 0, worker' = [worker EXCEPT ![w] = x]
  PROVE  /\ worker' \in [Workers -> WorkerState]
         /\ \A v \in Workers : worker'[v].pc # "idle" => worker'[v].cmd # 0
  BY DEF TypeOK

LEMMA RequestUpdate ==
  ASSUME TypeOK, NEW r \in Requests, NEW x \in RequestState,
         x.pc # "idle" => x.cmd # 0, request' = [request EXCEPT ![r] = x]
  PROVE  /\ request' \in [Requests -> RequestState]
         /\ \A q \in Requests : request'[q].pc # "idle" => request'[q].cmd # 0
  BY DEF TypeOK

LEMMA SaveType ==
  ASSUME TypeOK, NEW c \in CommandIds, NEW seen, NEW new \in Open \cup Terminal,
         Save(c, seen, new)
  PROVE  rows' \in [CommandIds -> Row]
  <1>1. CASE new = seen
    BY <1>1 DEF Save, TypeOK
  <1>2. CASE new # seen
    <2>1. [rows[c] EXCEPT !.status = new] \in Row
      BY DEF TypeOK, Row
    <2>2. rows' = [rows EXCEPT ![c] = [rows[c] EXCEPT !.status = new]]
      BY <1>2 DEF Save
    <2> QED BY <2>1, <2>2, RowsUpdate
  <1> QED BY <1>1, <1>2

LEMMA AnswerType ==
  ASSUME TypeOK, NEW r \in Requests, NEW c \in CommandIds, Answer(r, c)
  PROVE  /\ request' \in [Requests -> RequestState]
         /\ \A q \in Requests : request'[q].pc # "idle" => request'[q].cmd # 0
  <1> DEFINE x == [NoRequest EXCEPT !.cmd = c]
  <1>1. x \in RequestState /\ x.pc = "idle"
    BY DEF NoRequest, RequestState
  <1> HIDE DEF x
  <1>2. request' = [request EXCEPT ![r] = x]
    BY DEF Answer, x
  <1> QED BY <1>1, <1>2, RequestUpdate

LEMMA LookupType ==
  ASSUME TypeOK, NEW r \in Requests, NEW k \in Key \cup {NoKey}, NEW n \in Nat,
         Lookup(r, k, n)
  PROVE  /\ nextId' \in 1 .. MaxCommands + 1
         /\ request' \in [Requests -> RequestState]
         /\ \A q \in Requests : request'[q].pc # "idle" => request'[q].cmd # 0
  <1>1. CASE \E c \in CommandIds :
               HasKey(c, k) /\ Answer(r, c) /\ UNCHANGED nextId
    BY <1>1, AnswerType DEF TypeOK
  <1>2. CASE ~\E c \in CommandIds :
               HasKey(c, k) /\ Answer(r, c) /\ UNCHANGED nextId
    <2> DEFINE x == [pc |-> "inserting", cmd |-> nextId, key |-> k,
                     retryAttempt |-> n, seen |-> "absent"]
    <2>1. nextId <= MaxCommands /\ nextId' = nextId + 1
      BY <1>2 DEF Lookup
    <2>2. x \in RequestState /\ x.cmd # 0
      BY <2>1, BoundsAssumption DEF TypeOK, RequestState
    <2>3. request' = [request EXCEPT ![r] = x]
      BY <1>2 DEF Lookup
    <2> HIDE DEF x
    <2> QED BY <2>1, <2>2, <2>3, RequestUpdate, BoundsAssumption DEF TypeOK
  <1> QED BY <1>1, <1>2

LEMMA NextType == TypeOK /\ [Next]_vars => TypeOK'
  <1> SUFFICES ASSUME TypeOK, [Next]_vars PROVE TypeOK'
    OBVIOUS
  <1>1. ASSUME NEW r \in Requests, Submit(r) PROVE TypeOK'
    <2>1. PICK k \in {DerivedKey(s) : s \in Subjects} \cup {NoKey} : Lookup(r, k, 0)
      BY <1>1 DEF Submit
    <2>2. k \in Key \cup {NoKey}
      BY DEF DerivedKey, Key
    <2> QED BY <1>1, <2>1, <2>2, LookupType DEF Submit, TypeOK
  <1>2. ASSUME NEW r \in Requests, Insert(r) PROVE TypeOK'
    <2> DEFINE q == request[r]
               x == [NoRow EXCEPT !.status = "pending", !.key = q.key,
                                  !.retryAttempt = q.retryAttempt]
    <2>1. q \in RequestState /\ q.cmd \in CommandIds
      BY <1>2 DEF Insert, TypeOK, RequestState
    <2>2. x \in Row
      BY <2>1 DEF RequestState, Row, NoRow
    <2>3. /\ request' \in [Requests -> RequestState]
          /\ \A p \in Requests : request'[p].pc # "idle" => request'[p].cmd # 0
      BY <1>2, <2>1, AnswerType DEF Insert
    <2>4. rows' = rows \/ rows' = [rows EXCEPT ![q.cmd] = x]
      BY <1>2 DEF Insert
    <2> HIDE DEF x
    <2>5. rows' \in [CommandIds -> Row]
      BY <2>1, <2>2, <2>4, RowsUpdate DEF TypeOK
    <2> QED BY <1>2, <2>3, <2>5 DEF Insert, TypeOK
  <1>3. ASSUME NEW r \in Requests, NEW c \in CommandIds, CancelRead(r, c)
        PROVE TypeOK'
    <2> DEFINE s == rows[c].status
               x == [NoRequest EXCEPT !.pc = "cancelling", !.cmd = c, !.seen = s]
    <2>1. s \in Open /\ c # 0
      BY <1>3 DEF CancelRead
    <2>2. request' = [request EXCEPT ![r] = x]
      BY <1>3 DEF CancelRead
    <2> HIDE DEF s
    <2>3. x \in RequestState /\ x.cmd = c
      BY <2>1 DEF NoRequest, RequestState
    <2> HIDE DEF x
    <2> QED BY <1>3, <2>1, <2>2, <2>3, RequestUpdate DEF CancelRead, TypeOK
  <1>4. ASSUME NEW r \in Requests, CancelWrite(r) PROVE TypeOK'
    <2>1. request[r].cmd \in CommandIds
      BY <1>4 DEF CancelWrite, TypeOK, RequestState
    <2>2. rows' \in [CommandIds -> Row]
      BY <1>4, <2>1, SaveType DEF CancelWrite
    <2>3. NoRequest \in RequestState /\ NoRequest.pc = "idle"
      BY DEF NoRequest, RequestState
    <2>4. request' = [request EXCEPT ![r] = NoRequest]
      BY <1>4 DEF CancelWrite
    <2> QED BY <1>4, <2>2, <2>3, <2>4, RequestUpdate DEF CancelWrite, TypeOK
  <1>5. ASSUME NEW r \in Requests, NEW c \in CommandIds, RetryRead(r, c)
        PROVE TypeOK'
    <2> DEFINE n == rows[c].retryAttempt + 1
               k == RetryKey(c, n)
               x == [NoRequest EXCEPT !.pc = "retrying", !.cmd = c, !.key = k,
                                      !.retryAttempt = n]
    <2>1. n \in Nat /\ c # 0
      BY DEF TypeOK, Row
    <2>2. k \in Key
      BY <2>1 DEF RetryKey, Key
    <2>3. request' = [request EXCEPT ![r] = x]
      BY <1>5 DEF RetryRead
    <2> HIDE DEF n, k
    <2>4. x \in RequestState /\ x.cmd = c
      BY <2>1, <2>2 DEF NoRequest, RequestState
    <2> HIDE DEF x
    <2> QED BY <1>5, <2>1, <2>3, <2>4, RequestUpdate DEF RetryRead, TypeOK
  <1>6. ASSUME NEW r \in Requests, RetryLookup(r) PROVE TypeOK'
    <2>1. request[r].key \in Key \cup {NoKey} /\ request[r].retryAttempt \in Nat
      BY DEF TypeOK, RequestState
    <2> QED BY <1>6, <2>1, LookupType DEF RetryLookup, TypeOK
  <1>7. ASSUME NEW w \in Workers, NEW c \in CommandIds, Claim(w, c)
        PROVE TypeOK'
    <2> DEFINE n == rows[c].attempts + 1
               y == [rows[c] EXCEPT !.status = "claimed", !.stale = FALSE,
                                    !.attempts = n]
               x == [pc |-> "handling", cmd |-> c, attempt |-> n,
                     seen |-> "absent"]
    <2>1. rows[c] \in Row /\ n \in Nat /\ c # 0
      BY DEF TypeOK, Row
    <2>2. rows' = [rows EXCEPT ![c] = y] /\ worker' = [worker EXCEPT ![w] = x]
      BY <1>7 DEF Claim, TypeOK
    <2> HIDE DEF n
    <2>3. y \in Row
      BY <2>1 DEF Row
    <2>4. x \in WorkerState /\ x.cmd = c
      BY <2>1 DEF WorkerState
    <2> HIDE DEF x, y
    <2> QED BY <1>7, <2>1, <2>2, <2>3, <2>4, RowsUpdate, WorkerUpdate
            DEF Claim, TypeOK
  <1>8. ASSUME NEW w \in Workers,
               HandlerReturns(w) \/ HandlerRaises(w) \/ CompleteRaises(w)
        PROVE TypeOK'
    <2>1. PICK p \in {"returned", "raised"} :
            worker' = [worker EXCEPT ![w] = [worker[w] EXCEPT !.pc = p]]
      BY <1>8 DEF HandlerReturns, HandlerRaises, CompleteRaises
    <2>2. [worker[w] EXCEPT !.pc = p] \in WorkerState /\ worker[w].cmd \in CommandIds
      BY <1>8 DEF HandlerReturns, HandlerRaises, CompleteRaises, TypeOK, WorkerState
    <2>3. Effect(w) \in CommandIds \X Nat
      BY <2>2 DEF Effect, TypeOK, WorkerState
    <2>4. effects' \subseteq CommandIds \X Nat
      BY <1>8, <2>3 DEF HandlerReturns, HandlerRaises, CompleteRaises, TypeOK
    <2>5. [worker[w] EXCEPT !.pc = p].cmd # 0
      BY <2>2 DEF TypeOK, WorkerState
    <2> QED BY <1>8, <2>1, <2>2, <2>4, <2>5, WorkerUpdate
            DEF HandlerReturns, HandlerRaises, CompleteRaises, TypeOK
  <1>9. ASSUME NEW w \in Workers, FinishRead(w) PROVE TypeOK'
    <2>1. worker[w] \in WorkerState /\ worker[w].cmd \in CommandIds
      BY <1>9 DEF FinishRead, TypeOK, WorkerState
    <2>2. rows[worker[w].cmd].status \in {"absent"} \cup Open \cup Terminal
      BY <2>1 DEF TypeOK, Row
    <2>3. PICK p \in {"completing", "failing"},
               s \in {"absent"} \cup Open \cup Terminal :
            worker' = [worker EXCEPT ![w] =
                         [worker[w] EXCEPT !.pc = p, !.seen = s]]
      BY <1>9, <2>2 DEF FinishRead
    <2> DEFINE x == [worker[w] EXCEPT !.pc = p, !.seen = s]
    <2>4. x \in WorkerState
      BY <2>1 DEF WorkerState
    <2>5. x.cmd = worker[w].cmd
      BY <2>1 DEF WorkerState
    <2>6. x.pc # "idle" => x.cmd # 0
      BY <2>1, <2>5
    <2>7. worker' = [worker EXCEPT ![w] = x]
      BY <2>3
    <2> HIDE DEF x
    <2>8. /\ worker' \in [Workers -> WorkerState]
          /\ \A v \in Workers : worker'[v].pc # "idle" => worker'[v].cmd # 0
      BY <2>4, <2>6, <2>7, WorkerUpdate
    <2> QED BY <1>9, <2>8 DEF FinishRead, TypeOK
  <1>10. ASSUME NEW w \in Workers, FinishWrite(w) PROVE TypeOK'
    <2>1. worker[w].cmd \in CommandIds
      BY <1>10 DEF FinishWrite, TypeOK, WorkerState
    <2>2. PICK new \in {"cancelled", "completed", "failed"} :
            Save(worker[w].cmd, worker[w].seen, new)
      BY <1>10 DEF FinishWrite
    <2>3. rows' \in [CommandIds -> Row]
      BY <2>1, <2>2, SaveType
    <2>4. Idle \in WorkerState /\ Idle.pc = "idle"
      BY DEF Idle, WorkerState
    <2> QED BY <1>10, <2>3, <2>4, WorkerUpdate DEF FinishWrite, TypeOK
  <1>11. ASSUME NEW w \in Workers, Crash(w) PROVE TypeOK'
    <2>1. Idle \in WorkerState /\ Idle.pc = "idle"
      BY DEF Idle, WorkerState
    <2> QED BY <1>11, <2>1, WorkerUpdate, BoundsAssumption DEF Crash, TypeOK
  <1>12. ASSUME NEW c \in CommandIds, Abandoned(c) \/ Overrun(c) PROVE TypeOK'
    <2>1. [rows[c] EXCEPT !.stale = TRUE] \in Row
      BY DEF TypeOK, Row
    <2>2. rows' = [rows EXCEPT ![c] = [rows[c] EXCEPT !.stale = TRUE]]
      BY <1>12 DEF Abandoned, Overrun, ClaimGrowsStale
    <2> QED BY <1>12, <2>1, <2>2, RowsUpdate, BoundsAssumption
            DEF Abandoned, Overrun, ClaimGrowsStale, TypeOK
  <1>13. CASE UNCHANGED vars
    BY <1>13 DEF vars, TypeOK
  <1> QED
    BY <1>1, <1>2, <1>3, <1>4, <1>5, <1>6, <1>7, <1>8, <1>9, <1>10, <1>11,
       <1>12, <1>13 DEF Next, WorkerStep, RequestStep

(* Rows, workers and requests keep the shape of the table and of the loops *)
(* in every reachable state.                                               *)
THEOREM TypeCorrect == Spec => []TypeOK
  BY InitType, NextType, PTL DEF Spec

-----------------------------------------------------------------------------
(* What a step leaves of the rows and of the workers, without EXCEPT.      *)

LEMMA SaveFrame ==
  ASSUME TypeOK, NEW c \in CommandIds, NEW seen,
         NEW new \in {"cancelling", "cancelled", "completed", "failed"},
         Save(c, seen, new)
  PROVE  \A d \in CommandIds :
           /\ rows'[d].key = rows[d].key
           /\ rows'[d].attempts = rows[d].attempts
           /\ rows'[d].stale = rows[d].stale
           /\ \/ rows'[d] = rows[d]
              \/ d = c /\ rows'[d].status = new
  BY DEF Save, TypeOK, Row

LEMMA IdleFrame ==
  ASSUME TypeOK, NEW w \in Workers, worker' = [worker EXCEPT ![w] = Idle]
  PROVE  \A v \in Workers : \/ worker'[v].pc = "idle"
                            \/ worker'[v] = worker[v] /\ v # w
  BY DEF TypeOK, Idle

LEMMA AnswerFrame ==
  ASSUME TypeOK, NEW r \in Requests, NEW c \in CommandIds, Answer(r, c)
  PROVE  \A q \in Requests : \/ request'[q].pc = "idle"
                             \/ request'[q] = request[q] /\ q # r
  BY DEF TypeOK, Answer, NoRequest

(* What a worker's commit leaves of it: a row that exists stays one.       *)
LEMMA RequestInvFrame ==
  ASSUME TypeOK, RequestInv, UNCHANGED <<nextId, request>>,
         \A d \in CommandIds : \/ rows'[d] = rows[d]
                               \/ /\ rows[d].status # "absent"
                                  /\ rows'[d].status # "absent"
  PROVE  RequestInv'
  <1>1. \A c \in CommandIds : c >= nextId => rows'[c].status = "absent"
    BY DEF RequestInv
  <1>2. \A c \in CommandIds : rows'[c].status = "absent" => rows'[c] = NoRow
    BY DEF RequestInv
  <1>3. \A r \in Requests : request[r].pc \in {"inserting", "cancelling"} =>
          request[r].cmd \in CommandIds
    BY BoundsAssumption DEF RequestInv, TypeOK, RequestState
  <1>4. \A r \in Requests : request[r].pc = "inserting" =>
          rows'[request[r].cmd].status = "absent"
    BY <1>3 DEF RequestInv
  <1>5. \A r \in Requests : request[r].pc = "cancelling" =>
          rows'[request[r].cmd].status # "absent"
    BY <1>3 DEF RequestInv
  <1> QED BY <1>1, <1>2, <1>4, <1>5 DEF RequestInv

(* The part of the invariant that speaks of the requests under way.        *)
LEMMA NextRequestInv ==
  TypeOK /\ RequestInv /\ ClaimInv /\ [Next]_vars => RequestInv'
  <1> SUFFICES ASSUME TypeOK, RequestInv, ClaimInv, [Next]_vars
               PROVE  RequestInv'
    OBVIOUS
  <1>l. ASSUME NEW r \in Requests, NEW k, NEW n, Lookup(r, k, n),
               UNCHANGED rows
        PROVE  RequestInv'
    <2>1. CASE \E c \in CommandIds : Answer(r, c) /\ UNCHANGED nextId
      BY <2>1, <1>l, AnswerFrame DEF RequestInv
    <2>2. CASE ~\E c \in CommandIds : Answer(r, c) /\ UNCHANGED nextId
      <3>1. /\ nextId' = nextId + 1
            /\ nextId \in CommandIds
            /\ request'[r].pc = "inserting" /\ request'[r].cmd = nextId
            /\ \A q \in Requests : q # r => request'[q] = request[q]
        BY <2>2, <1>l, BoundsAssumption DEF Lookup, TypeOK
      <3>2. \A q \in Requests : request[q].pc = "inserting" =>
              request[q].cmd # nextId
        BY BoundsAssumption DEF RequestInv, TypeOK, RequestState
      <3>3. rows[nextId].status = "absent"
        BY <3>1 DEF RequestInv
      <3>4. \A c \in CommandIds : c >= nextId' => rows'[c].status = "absent"
        BY <1>l, <3>1, BoundsAssumption DEF RequestInv
      <3>5. \A c \in CommandIds : rows'[c].status = "absent" => rows'[c] = NoRow
        BY <1>l DEF RequestInv
      <3>6. \A q \in Requests : request'[q].pc = "inserting" =>
              \/ q = r
              \/ request'[q] = request[q] /\ request[q].cmd < nextId
        BY <3>1 DEF RequestInv
      <3>7. \A q \in Requests : request'[q].pc = "inserting" =>
              /\ request'[q].cmd < nextId'
              /\ rows'[request'[q].cmd].status = "absent"
        <4> SUFFICES ASSUME NEW q \in Requests, request'[q].pc = "inserting"
                     PROVE  /\ request'[q].cmd < nextId'
                            /\ rows'[request'[q].cmd].status = "absent"
          OBVIOUS
        <4>1. CASE q = r
          BY <4>1, <1>l, <3>1, <3>3, BoundsAssumption
        <4>2. CASE q # r
          <5>1. request[q].cmd \in 0 .. MaxCommands
            BY BoundsAssumption DEF TypeOK, RequestState
          <5> QED BY <4>2, <5>1, <1>l, <3>1, BoundsAssumption DEF RequestInv
        <4> QED BY <4>1, <4>2
      <3>8. \A p, q \in Requests :
              request'[p].pc = "inserting" /\ request'[q].pc = "inserting"
                /\ request'[p].cmd = request'[q].cmd => p = q
        BY <3>1, <3>2, <3>6 DEF RequestInv
      <3>9. \A q \in Requests : request'[q].pc = "cancelling" =>
              rows'[request'[q].cmd].status \notin {"absent"}
        BY <1>l, <3>1 DEF RequestInv
      <3> QED BY <3>4, <3>5, <3>7, <3>8, <3>9 DEF RequestInv
    <2> QED BY <2>1, <2>2
  <1>1. ASSUME NEW r \in Requests, Submit(r) PROVE RequestInv'
    BY <1>1, <1>l DEF Submit
  <1>2. ASSUME NEW r \in Requests, Insert(r) PROVE RequestInv'
    <2>1. request[r].cmd \in CommandIds /\ request[r].cmd < nextId
      BY <1>2 DEF Insert, RequestInv, TypeOK, RequestState
    <2>2. \A q \in Requests : \/ request'[q].pc = "idle"
                              \/ request'[q] = request[q] /\ q # r
      BY <1>2, <2>1, AnswerFrame DEF Insert
    <2>3. \A d \in CommandIds : d # request[r].cmd => rows'[d] = rows[d]
      BY <1>2 DEF Insert, TypeOK
    <2>4. \A d \in CommandIds : \/ rows'[d] = rows[d]
                                \/ /\ d = request[r].cmd
                                   /\ rows'[d].status = "pending"
      BY <1>2 DEF Insert, TypeOK, NoRow, Row
    <2>5. \A q \in Requests : request'[q].pc = "inserting" =>
            request[q].cmd # request[r].cmd
      BY <1>2, <2>2 DEF Insert, RequestInv
    <2>6. nextId' = nextId
      BY <1>2 DEF Insert
    <2>7. \A c \in CommandIds : c >= nextId => rows'[c].status = "absent"
      BY <2>1, <2>4, BoundsAssumption DEF RequestInv, TypeOK
    <2>8. \A c \in CommandIds : rows'[c].status = "absent" => rows'[c] = NoRow
      BY <2>4 DEF RequestInv
    <2>9. \A q \in Requests : request'[q].pc = "inserting" =>
            /\ request'[q].cmd < nextId
            /\ rows'[request'[q].cmd].status = "absent"
      BY <2>2, <2>3, <2>5 DEF RequestInv, TypeOK, RequestState
    <2>10. \A q \in Requests : request'[q].pc = "cancelling" =>
             rows'[request'[q].cmd].status \notin {"absent"}
      BY <2>2, <2>4 DEF RequestInv, TypeOK, RequestState
    <2> QED BY <2>2, <2>6, <2>7, <2>8, <2>9, <2>10 DEF RequestInv
  <1>3. ASSUME NEW r \in Requests, NEW c \in CommandIds,
               CancelRead(r, c) \/ RetryRead(r, c)
        PROVE  RequestInv'
    <2>1. /\ rows' = rows /\ nextId' = nextId /\ rows[c].status # "absent"
          /\ request'[r].pc \in {"cancelling", "retrying"}
          /\ request'[r].cmd = c
          /\ \A q \in Requests : q # r => request'[q] = request[q]
      BY <1>3 DEF CancelRead, RetryRead, TypeOK, NoRequest
    <2> QED BY <2>1 DEF RequestInv
  <1>4. ASSUME NEW r \in Requests, CancelWrite(r) PROVE RequestInv'
    <2>1. request[r].cmd \in CommandIds /\ rows[request[r].cmd].status # "absent"
      BY <1>4 DEF CancelWrite, RequestInv, TypeOK, RequestState
    <2>2. \A q \in Requests : \/ request'[q].pc = "idle"
                              \/ request'[q] = request[q] /\ q # r
      BY <1>4 DEF CancelWrite, TypeOK, NoRequest
    <2>3. PICK new \in {"cancelled", "cancelling"} :
            Save(request[r].cmd, request[r].seen, new)
      BY <1>4 DEF CancelWrite
    <2>4. \A d \in CommandIds : \/ rows'[d] = rows[d]
                                \/ d = request[r].cmd /\ rows'[d].status = new
      BY <2>1, <2>3, SaveFrame
    <2>5. \A d \in CommandIds : \/ rows'[d] = rows[d]
                                \/ /\ rows[d].status # "absent"
                                   /\ rows'[d].status # "absent"
      BY <2>1, <2>4
    <2>6. nextId' = nextId
      BY <1>4 DEF CancelWrite
    <2>7. \A q \in Requests : request'[q].pc = "inserting" =>
            /\ request'[q].cmd < nextId
            /\ rows'[request'[q].cmd].status = "absent"
      BY <2>2, <2>5 DEF RequestInv, TypeOK, RequestState
    <2>8. \A q \in Requests : request'[q].pc = "cancelling" =>
             rows'[request'[q].cmd].status \notin {"absent"}
      BY <2>2, <2>5 DEF RequestInv, TypeOK, RequestState
    <2>9. \A c \in CommandIds : c >= nextId => rows'[c].status = "absent"
      BY <2>5 DEF RequestInv
    <2>10. \A c \in CommandIds : rows'[c].status = "absent" => rows'[c] = NoRow
      BY <2>5 DEF RequestInv
    <2> QED BY <2>2, <2>6, <2>7, <2>8, <2>9, <2>10 DEF RequestInv
  <1>5. ASSUME NEW r \in Requests, RetryLookup(r) PROVE RequestInv'
    BY <1>5, <1>l DEF RetryLookup
  <1>6. ASSUME NEW w \in Workers, NEW c \in CommandIds, Claim(w, c)
        PROVE RequestInv'
    <2>1. rows[c].status # "absent" /\ rows'[c].status = "claimed"
      BY <1>6 DEF Claim, Claimable, TypeOK, Row
    <2>2. \A d \in CommandIds : d # c => rows'[d] = rows[d]
      BY <1>6 DEF Claim, TypeOK
    <2> QED BY <1>6, <2>1, <2>2, BoundsAssumption
            DEF Claim, RequestInv, TypeOK, RequestState
  <1>7. ASSUME NEW w \in Workers,
               \/ HandlerReturns(w) \/ HandlerRaises(w) \/ FinishRead(w)
               \/ CompleteRaises(w) \/ Crash(w)
        PROVE RequestInv'
    BY <1>7 DEF HandlerReturns, HandlerRaises, FinishRead, CompleteRaises, Crash,
                RequestInv
  <1>8. ASSUME NEW w \in Workers, FinishWrite(w) PROVE RequestInv'
    <2>1. worker[w].cmd \in CommandIds /\ rows[worker[w].cmd].status # "absent"
      BY <1>8 DEF FinishWrite, ClaimInv, TypeOK, WorkerState
    <2>2. PICK new \in {"cancelled", "completed", "failed"} :
            Save(worker[w].cmd, worker[w].seen, new)
      BY <1>8 DEF FinishWrite
    <2>3. \A d \in CommandIds : \/ rows'[d] = rows[d]
                                \/ d = worker[w].cmd /\ rows'[d].status = new
      BY <2>1, <2>2, SaveFrame
    <2>4. UNCHANGED <<nextId, request>>
      BY <1>8 DEF FinishWrite
    <2>5. \A d \in CommandIds : \/ rows'[d] = rows[d]
                                \/ /\ rows[d].status # "absent"
                                   /\ rows'[d].status # "absent"
      BY <2>1, <2>3
    <2> QED BY <2>4, <2>5, RequestInvFrame
  <1>9. ASSUME NEW c \in CommandIds, Abandoned(c) \/ Overrun(c)
        PROVE  RequestInv'
    <2>1. /\ rows[c].status = "claimed" /\ rows'[c].status = "claimed"
          /\ \A d \in CommandIds : d # c => rows'[d] = rows[d]
          /\ UNCHANGED <<nextId, request>>
      BY <1>9 DEF Abandoned, Overrun, ClaimGrowsStale, TypeOK, Row
    <2> QED BY <2>1, BoundsAssumption DEF RequestInv, TypeOK, RequestState
  <1>10. CASE UNCHANGED vars
    BY <1>10 DEF vars, RequestInv
  <1> QED BY <1>1, <1>2, <1>3, <1>4, <1>5, <1>6, <1>7, <1>8, <1>9, <1>10
          DEF Next, WorkerStep, RequestStep

(* The part that speaks of the workers and of their claims.                *)
LEMMA NextClaimInv ==
  TypeOK /\ RequestInv /\ ClaimInv /\ [Next]_vars => ClaimInv'
  <1> SUFFICES ASSUME TypeOK, RequestInv, ClaimInv, [Next]_vars
               PROVE  ClaimInv'
    OBVIOUS
  <1> DEFINE RowsKept == \A d \in CommandIds :
               /\ rows'[d].attempts >= rows[d].attempts
               /\ rows[d].status \notin {"absent", "pending"} =>
                    rows'[d].status \notin {"absent", "pending"}
             Attempts == \A d \in CommandIds : rows[d].attempts \in Nat /\ rows'[d].attempts \in Nat
  <1>a. ASSUME RowsKept, Attempts, UNCHANGED <<worker, effects>> PROVE ClaimInv'
    <2>1. \A w \in Workers : worker[w].pc # "idle" => worker[w].cmd \in CommandIds
      BY DEF TypeOK, WorkerState
    <2>2. \A w \in Workers : worker[w].attempt \in Nat
      BY DEF TypeOK, WorkerState
    <2>3. \A e \in effects : e[1] \in CommandIds /\ e[2] \in Nat
      BY DEF TypeOK
    <2> QED BY <1>a, <2>1, <2>2, <2>3 DEF ClaimInv, Effect
  <1>b. ASSUME NEW w \in Workers, UNCHANGED <<rows, effects>>,
               \A v \in Workers : \/ worker'[v].pc = "idle"
                                  \/ worker'[v] = worker[v]
        PROVE  ClaimInv'
    <2>1. \A v \in Workers : worker'[v].pc # "idle" =>
            worker'[v] = worker[v] /\ Effect(v)' = Effect(v)
      BY <1>b DEF Effect
    <2> QED BY <1>b, <2>1 DEF ClaimInv
  <1>n. Attempts
    <2>1. TypeOK'
      BY NextType
    <2> QED BY <2>1 DEF TypeOK, Row
  <1>1. ASSUME NEW r \in Requests, Insert(r) PROVE ClaimInv'
    <2>1. request[r].cmd \in CommandIds /\ rows[request[r].cmd] = NoRow
      BY <1>1 DEF Insert, RequestInv, TypeOK, RequestState
    <2>2. \A d \in CommandIds : d # request[r].cmd => rows'[d] = rows[d]
      BY <1>1 DEF Insert, TypeOK
    <2>3. RowsKept
      BY <1>n, <2>1, <2>2 DEF NoRow
    <2> QED BY <1>1, <1>a, <1>n, <2>3 DEF Insert
  <1>2. ASSUME NEW r \in Requests, CancelWrite(r) PROVE ClaimInv'
    <2>1. request[r].cmd \in CommandIds
      BY <1>2 DEF CancelWrite, TypeOK, RequestState
    <2>2. PICK new \in {"cancelled", "cancelling"} :
            Save(request[r].cmd, request[r].seen, new)
      BY <1>2 DEF CancelWrite
    <2>3. RowsKept
      BY <1>n, <2>1, <2>2, SaveFrame
    <2> QED BY <1>2, <1>a, <1>n, <2>3 DEF CancelWrite
  <1>3. ASSUME NEW r \in Requests, \/ Submit(r) \/ RetryLookup(r)
                                   \/ \E c \in CommandIds :
                                        CancelRead(r, c) \/ RetryRead(r, c)
        PROVE  ClaimInv'
    <2>1. UNCHANGED <<rows, worker, effects>>
      BY <1>3 DEF Submit, RetryLookup, CancelRead, RetryRead
    <2> QED BY <2>1, <1>a, <1>n
  <1>4. ASSUME NEW w \in Workers, NEW c \in CommandIds, Claim(w, c)
        PROVE  ClaimInv'
    <2>1. /\ worker'[w].pc = "handling" /\ worker'[w].cmd = c
          /\ worker'[w].attempt = rows[c].attempts + 1
          /\ \A v \in Workers : v # w => worker'[v] = worker[v]
          /\ UNCHANGED effects
      BY <1>4 DEF Claim, TypeOK
    <2>2. /\ rows'[c].status = "claimed"
          /\ rows'[c].attempts = rows[c].attempts + 1
          /\ \A d \in CommandIds : d # c => rows'[d] = rows[d]
      BY <1>4 DEF Claim, TypeOK, Row
    <2>3. \A v \in Workers : worker[v].pc # "idle" =>
            worker[v].cmd \in CommandIds /\ worker[v].attempt \in Nat
      BY DEF TypeOK, WorkerState
    <2>4. \A e \in effects : e[1] \in CommandIds /\ e[2] \in Nat
      BY DEF TypeOK
    <2>5. <<c, rows[c].attempts + 1>> \notin effects
      BY <1>n DEF ClaimInv
    <2>6. \A v \in Workers : worker'[v].pc # "idle" =>
            /\ rows'[worker'[v].cmd].status \notin {"absent", "pending"}
            /\ worker'[v].attempt \in 1 .. rows'[worker'[v].cmd].attempts
      BY <1>n, <2>1, <2>2, <2>3 DEF ClaimInv
    <2>7. \A u, v \in Workers :
            worker'[u].pc # "idle" /\ worker'[v].pc # "idle"
              /\ Effect(u)' = Effect(v)' => u = v
      <3>1. \A v \in Workers : worker[v].pc # "idle" /\ worker[v].cmd = c =>
              worker[v].attempt # rows[c].attempts + 1
        BY <1>n, <2>3 DEF ClaimInv
      <3> QED BY <2>1, <3>1 DEF ClaimInv, Effect
    <2>8. \A e \in effects' : e[2] \in 1 .. rows'[e[1]].attempts
      BY <1>n, <2>1, <2>2, <2>4 DEF ClaimInv
    <2>9. \A v \in Workers : worker'[v].pc = "handling" => Effect(v)' \notin effects'
      BY <2>1, <2>5 DEF ClaimInv, Effect
    <2>10. \A v \in Workers : worker'[v].pc \in {"returned", "completing"} =>
             Effect(v)' \in effects'
      BY <2>1 DEF ClaimInv, Effect
    <2> QED BY <2>6, <2>7, <2>8, <2>9, <2>10 DEF ClaimInv
  <1>5. ASSUME NEW w \in Workers, HandlerReturns(w) \/ HandlerRaises(w)
        PROVE  ClaimInv'
    <2>1. /\ worker[w].pc = "handling"
          /\ worker'[w].pc \in {"returned", "raised"}
          /\ worker'[w].cmd = worker[w].cmd
          /\ worker'[w].attempt = worker[w].attempt
          /\ \A v \in Workers : v # w => worker'[v] = worker[v]
          /\ UNCHANGED rows
      BY <1>5 DEF HandlerReturns, HandlerRaises, TypeOK, WorkerState
    <2>2. /\ effects' = effects \/ effects' = effects \cup {Effect(w)}
          /\ worker'[w].pc = "returned" => effects' = effects \cup {Effect(w)}
      BY <1>5 DEF HandlerReturns, HandlerRaises, TypeOK, WorkerState
    <2>3. \A v \in Workers : Effect(v)' = Effect(v)
      BY <2>1 DEF Effect
    <2>4. \A e \in effects' : e[2] \in 1 .. rows'[e[1]].attempts
      <3>1. worker[w].attempt \in 1 .. rows[worker[w].cmd].attempts
        BY <2>1 DEF ClaimInv
      <3>2. Effect(w)[1] = worker[w].cmd /\ Effect(w)[2] = worker[w].attempt
        BY DEF Effect
      <3> QED BY <2>1, <2>2, <3>1, <3>2 DEF ClaimInv
    <2>5. \A v \in Workers : worker'[v].pc = "handling" => Effect(v)' \notin effects'
      <3> SUFFICES ASSUME NEW v \in Workers, worker'[v].pc = "handling"
                   PROVE  Effect(v) \notin effects'
        BY <2>3
      <3>1. v # w /\ worker[v].pc = "handling"
        BY <2>1
      <3>2. Effect(v) \notin effects /\ Effect(v) # Effect(w)
        BY <2>1, <3>1 DEF ClaimInv
      <3> QED BY <2>2, <3>2
    <2>6. \A v \in Workers : worker'[v].pc \in {"returned", "completing"} =>
            Effect(v)' \in effects'
      <3>1. \A v \in Workers : v # w /\ worker'[v].pc \in {"returned", "completing"}
              => Effect(v) \in effects
        BY <2>1 DEF ClaimInv
      <3> QED BY <2>1, <2>2, <2>3, <3>1
    <2>7. \A v \in Workers : worker'[v].pc # "idle" =>
            /\ rows'[worker'[v].cmd].status \notin {"absent", "pending"}
            /\ worker'[v].attempt \in 1 .. rows'[worker'[v].cmd].attempts
      BY <2>1 DEF ClaimInv
    <2>8. \A u, v \in Workers :
            worker'[u].pc # "idle" /\ worker'[v].pc # "idle"
              /\ Effect(u)' = Effect(v)' => u = v
      BY <2>1, <2>3 DEF ClaimInv
    <2> QED BY <2>4, <2>5, <2>6, <2>7, <2>8 DEF ClaimInv
  <1>6. ASSUME NEW w \in Workers, FinishRead(w) \/ CompleteRaises(w)
        PROVE  ClaimInv'
    <2>1. /\ worker'[w].pc \in {"completing", "failing", "raised"}
          /\ worker'[w].pc = "completing" => worker[w].pc = "returned"
          /\ worker[w].pc # "idle"
          /\ worker'[w].cmd = worker[w].cmd
          /\ worker'[w].attempt = worker[w].attempt
          /\ \A v \in Workers : v # w => worker'[v] = worker[v]
          /\ UNCHANGED <<rows, effects>>
      BY <1>6 DEF FinishRead, CompleteRaises, TypeOK, WorkerState
    <2>2. \A v \in Workers : /\ Effect(v)' = Effect(v)
                             /\ worker'[v].cmd = worker[v].cmd
                             /\ worker'[v].attempt = worker[v].attempt
                             /\ worker'[v].pc # "idle" <=> worker[v].pc # "idle"
      BY <2>1 DEF Effect
    <2> QED BY <2>1, <2>2 DEF ClaimInv
  <1>7. ASSUME NEW w \in Workers, Crash(w) PROVE ClaimInv'
    BY <1>7, <1>b, IdleFrame DEF Crash
  <1>8. ASSUME NEW w \in Workers, FinishWrite(w) PROVE ClaimInv'
    <2>1. worker[w].cmd \in CommandIds
      BY <1>8 DEF FinishWrite, TypeOK, WorkerState
    <2>2. PICK new \in {"cancelled", "completed", "failed"} :
            Save(worker[w].cmd, worker[w].seen, new)
      BY <1>8 DEF FinishWrite
    <2>3. RowsKept
      BY <1>n, <2>1, <2>2, SaveFrame
    <2>4. \A v \in Workers : worker'[v].pc # "idle" =>
            worker'[v] = worker[v] /\ worker[v].cmd \in CommandIds
              /\ worker[v].attempt \in Nat
      BY <1>8, IdleFrame DEF FinishWrite, TypeOK, WorkerState
    <2>5. UNCHANGED effects /\ \A e \in effects : e[1] \in CommandIds /\ e[2] \in Nat
      BY <1>8 DEF FinishWrite, TypeOK
    <2> QED BY <1>n, <2>3, <2>4, <2>5 DEF ClaimInv, Effect
  <1>9. ASSUME NEW c \in CommandIds, Abandoned(c) \/ Overrun(c) PROVE ClaimInv'
    <2>1. rows' = [rows EXCEPT ![c].stale = TRUE] /\ UNCHANGED <<worker, effects>>
      BY <1>9 DEF Abandoned, Overrun, ClaimGrowsStale
    <2>2. \A d \in CommandIds : /\ rows'[d].attempts = rows[d].attempts
                                /\ rows'[d].status = rows[d].status
      BY <2>1 DEF TypeOK, Row
    <2>3. RowsKept
      BY <1>n, <2>2
    <2> QED BY <1>a, <1>n, <2>1, <2>3
  <1>10. CASE UNCHANGED vars
    BY <1>10 DEF vars, ClaimInv, Effect
  <1> QED BY <1>1, <1>2, <1>3, <1>4, <1>5, <1>6, <1>7, <1>8, <1>9, <1>10
          DEF Next, WorkerStep, RequestStep

(* Exclusive execution: a command that somebody holds can be claimed again *)
(* only after an overrun, because its claim is fresh.                      *)
LEMMA NextLeaseInv ==
  TypeOK /\ RequestInv /\ ClaimInv /\ LeaseInv /\ ExclusiveExecution /\ [Next]_vars
    => LeaseInv' /\ ExclusiveExecution'
  <1> SUFFICES ASSUME TypeOK, RequestInv, ClaimInv, LeaseInv, ExclusiveExecution,
                      [Next]_vars, overruns' = 0
               PROVE  /\ \A w \in Workers, c \in CommandIds :
                           Holds(w, c)' /\ rows'[c].status = "claimed" =>
                             ~rows'[c].stale
                      /\ \A v, w \in Workers, c \in CommandIds :
                           Holds(v, c)' /\ Holds(w, c)' => v = w
    BY DEF LeaseInv, ExclusiveExecution
  <1> DEFINE LeaseGoal == \A w \in Workers, c \in CommandIds :
                            Holds(w, c)' /\ rows'[c].status = "claimed" =>
                              ~rows'[c].stale
             ExclusiveGoal == \A v, w \in Workers, c \in CommandIds :
                                Holds(v, c)' /\ Holds(w, c)' => v = w
  <1>h. \A w \in Workers, c \in CommandIds : Holds(w, c) =>
          rows[c].status \notin {"absent", "pending"}
    BY DEF Holds, ClaimInv
  <1>a. ASSUME overruns = 0,
               \A w \in Workers, c \in CommandIds : Holds(w, c)' => Holds(w, c),
               \A c \in CommandIds : \/ rows[c].status = "absent"
                                     \/ rows'[c].status # "claimed"
                                     \/ /\ rows[c].status = "claimed"
                                        /\ rows'[c].stale = rows[c].stale
        PROVE  LeaseGoal /\ ExclusiveGoal
    <2>1. LeaseGoal
      BY <1>a, <1>h DEF LeaseInv
    <2>2. ExclusiveGoal
      BY <1>a DEF ExclusiveExecution
    <2> QED BY <2>1, <2>2
  <1>1. ASSUME NEW r \in Requests, Insert(r) PROVE LeaseGoal /\ ExclusiveGoal
    <2>1. request[r].cmd \in CommandIds /\ rows[request[r].cmd].status = "absent"
      BY <1>1 DEF Insert, RequestInv, TypeOK, RequestState
    <2>2. \A d \in CommandIds : d # request[r].cmd => rows'[d] = rows[d]
      BY <1>1 DEF Insert, TypeOK
    <2> QED BY <1>1, <1>a, <2>1, <2>2 DEF Insert, Holds
  <1>2. ASSUME NEW r \in Requests, CancelWrite(r) PROVE LeaseGoal /\ ExclusiveGoal
    <2>1. request[r].cmd \in CommandIds
      BY <1>2 DEF CancelWrite, TypeOK, RequestState
    <2>2. PICK new \in {"cancelled", "cancelling"} :
            Save(request[r].cmd, request[r].seen, new)
      BY <1>2 DEF CancelWrite
    <2> QED BY <1>2, <1>a, <2>1, <2>2, SaveFrame DEF CancelWrite, Holds
  <1>3. ASSUME NEW r \in Requests, \/ Submit(r) \/ RetryLookup(r)
                                   \/ \E c \in CommandIds :
                                        CancelRead(r, c) \/ RetryRead(r, c)
        PROVE  LeaseGoal /\ ExclusiveGoal
    <2>1. UNCHANGED <<rows, worker, overruns>>
      BY <1>3 DEF Submit, RetryLookup, CancelRead, RetryRead
    <2> QED BY <2>1, <1>a DEF Holds
  <1>4. ASSUME NEW w \in Workers, NEW c \in CommandIds, Claim(w, c)
        PROVE  LeaseGoal /\ ExclusiveGoal
    <2>1. \A v \in Workers : ~Holds(v, c)
      BY <1>4, <1>h DEF Claim, Claimable, LeaseInv
    <2>2. /\ rows'[c].stale = FALSE /\ overruns = 0
          /\ \A d \in CommandIds : d # c => rows'[d] = rows[d]
      BY <1>4 DEF Claim, TypeOK, Row
    <2>3. \A v \in Workers, d \in CommandIds :
            Holds(v, d)' => Holds(v, d) \/ (v = w /\ d = c)
      BY <1>4 DEF Claim, Holds, TypeOK
    <2>4. \A d \in CommandIds : Holds(w, d)' => d = c
      BY <1>4 DEF Claim, Holds, TypeOK
    <2>5. LeaseGoal
      BY <2>2, <2>3 DEF LeaseInv
    <2>6. ExclusiveGoal
      BY <2>1, <2>2, <2>3, <2>4 DEF ExclusiveExecution
    <2> QED BY <2>5, <2>6
  <1>5. ASSUME NEW w \in Workers,
               \/ HandlerReturns(w) \/ HandlerRaises(w)
               \/ FinishRead(w) \/ CompleteRaises(w)
        PROVE  LeaseGoal /\ ExclusiveGoal
    <2>1. /\ worker[w].pc # "idle" /\ worker'[w].cmd = worker[w].cmd
          /\ \A v \in Workers : v # w => worker'[v] = worker[v]
          /\ UNCHANGED <<rows, overruns>>
      BY <1>5 DEF HandlerReturns, HandlerRaises, FinishRead, CompleteRaises,
                  TypeOK, WorkerState
    <2>2. \A v \in Workers, c \in CommandIds : Holds(v, c)' => Holds(v, c)
      BY <2>1 DEF Holds
    <2> QED BY <2>1, <2>2, <1>a
  <1>6. ASSUME NEW w \in Workers, Crash(w) PROVE LeaseGoal /\ ExclusiveGoal
    <2>1. \A v \in Workers, c \in CommandIds : Holds(v, c)' => Holds(v, c)
      BY <1>6, IdleFrame DEF Crash, Holds
    <2> QED BY <1>6, <2>1, <1>a DEF Crash
  <1>7. ASSUME NEW w \in Workers, FinishWrite(w) PROVE LeaseGoal /\ ExclusiveGoal
    <2>1. worker[w].cmd \in CommandIds
      BY <1>7 DEF FinishWrite, TypeOK, WorkerState
    <2>2. PICK new \in {"cancelled", "completed", "failed"} :
            Save(worker[w].cmd, worker[w].seen, new)
      BY <1>7 DEF FinishWrite
    <2>3. \A v \in Workers, c \in CommandIds : Holds(v, c)' => Holds(v, c)
      BY <1>7, IdleFrame DEF FinishWrite, Holds
    <2> QED BY <1>7, <1>a, <2>1, <2>2, <2>3, SaveFrame DEF FinishWrite
  <1>8. ASSUME NEW c \in CommandIds, Abandoned(c) PROVE LeaseGoal /\ ExclusiveGoal
    <2>1. /\ \A v \in Workers : ~Holds(v, c)
          /\ UNCHANGED <<worker, overruns>>
          /\ \A d \in CommandIds : d # c => rows'[d] = rows[d]
      BY <1>8 DEF Abandoned, ClaimGrowsStale, TypeOK
    <2>2. \A v \in Workers, d \in CommandIds : Holds(v, d)' <=> Holds(v, d)
      BY <2>1 DEF Holds
    <2> QED BY <2>1, <2>2 DEF LeaseInv, ExclusiveExecution
  <1>9. ASSUME NEW c \in CommandIds, Overrun(c) PROVE LeaseGoal /\ ExclusiveGoal
    BY <1>9 DEF Overrun, TypeOK
  <1>10. CASE UNCHANGED vars
    BY <1>10, <1>a DEF vars, Holds
  <1> QED BY <1>1, <1>2, <1>3, <1>4, <1>5, <1>6, <1>7, <1>8, <1>9, <1>10
          DEF Next, WorkerStep, RequestStep

(* The unique index: a row is inserted only when no row has its key, and   *)
(* no other step touches a key.                                            *)
LEMMA NextOneRowPerKey ==
  TypeOK /\ RequestInv /\ ClaimInv /\ OneRowPerKey /\ [Next]_vars => OneRowPerKey'
  <1> SUFFICES ASSUME TypeOK, RequestInv, ClaimInv, OneRowPerKey, [Next]_vars
               PROVE  OneRowPerKey'
    OBVIOUS
  <1>a. ASSUME \A d \in CommandIds :
                 /\ rows'[d].key = rows[d].key
                 /\ rows'[d].status # "absent" => rows[d].status # "absent"
        PROVE  OneRowPerKey'
    BY <1>a DEF OneRowPerKey, HasKey
  <1>1. ASSUME NEW r \in Requests, Insert(r) PROVE OneRowPerKey'
    <2> DEFINE q == request[r]
    <2>1. q.cmd \in CommandIds /\ rows[q.cmd].status = "absent"
      BY <1>1 DEF Insert, RequestInv, TypeOK, RequestState
    <2>2. CASE rows' = rows
      BY <2>2 DEF OneRowPerKey, HasKey
    <2>3. CASE rows' # rows
      <3>1. /\ \A c \in CommandIds : ~HasKey(c, q.key)
            /\ rows'[q.cmd].key = q.key
            /\ \A d \in CommandIds : d # q.cmd => rows'[d] = rows[d]
        BY <1>1, <2>1, <2>3 DEF Insert, TypeOK, NoRow
      <3>2. \A d \in CommandIds : rows[d].key = q.key => q.key = NoKey
        BY <3>1 DEF HasKey, RequestInv, NoRow
      <3> QED BY <2>1, <3>1, <3>2 DEF OneRowPerKey, HasKey
    <2> QED BY <2>2, <2>3
  <1>2. ASSUME NEW r \in Requests, CancelWrite(r) PROVE OneRowPerKey'
    <2>1. request[r].cmd \in CommandIds /\ rows[request[r].cmd].status # "absent"
      BY <1>2 DEF CancelWrite, RequestInv, TypeOK, RequestState
    <2>2. PICK new \in {"cancelled", "cancelling"} :
            Save(request[r].cmd, request[r].seen, new)
      BY <1>2 DEF CancelWrite
    <2> QED BY <1>a, <2>1, <2>2, SaveFrame
  <1>3. ASSUME NEW w \in Workers, FinishWrite(w) PROVE OneRowPerKey'
    <2>1. worker[w].cmd \in CommandIds /\ rows[worker[w].cmd].status # "absent"
      BY <1>3 DEF FinishWrite, ClaimInv, TypeOK, WorkerState
    <2>2. PICK new \in {"cancelled", "completed", "failed"} :
            Save(worker[w].cmd, worker[w].seen, new)
      BY <1>3 DEF FinishWrite
    <2> QED BY <1>a, <2>1, <2>2, SaveFrame
  <1>4. ASSUME NEW w \in Workers, NEW c \in CommandIds, Claim(w, c)
        PROVE  OneRowPerKey'
    <2>1. /\ rows[c].status # "absent" /\ rows'[c].key = rows[c].key
          /\ \A d \in CommandIds : d # c => rows'[d] = rows[d]
      BY <1>4 DEF Claim, Claimable, TypeOK, Row
    <2> QED BY <1>a, <2>1
  <1>5. ASSUME NEW c \in CommandIds, Abandoned(c) \/ Overrun(c)
        PROVE  OneRowPerKey'
    <2>1. rows' = [rows EXCEPT ![c].stale = TRUE]
      BY <1>5 DEF Abandoned, Overrun, ClaimGrowsStale
    <2>2. \A d \in CommandIds : /\ rows'[d].key = rows[d].key
                                /\ rows'[d].status = rows[d].status
      BY <2>1 DEF TypeOK, Row
    <2> QED BY <1>a, <2>2
  <1>6. CASE UNCHANGED rows
    BY <1>6, <1>a
  <1> QED BY <1>1, <1>2, <1>3, <1>4, <1>5, <1>6
          DEF Next, WorkerStep, RequestStep, Submit, CancelRead, RetryRead,
              RetryLookup, HandlerReturns, HandlerRaises, FinishRead,
              CompleteRaises, Crash, vars

(* Only the write of complete_worker_command makes a row completed, and    *)
(* the worker that writes it has just seen its handler return.             *)
LEMMA NextCompletedMeansDone ==
  TypeOK /\ RequestInv /\ ClaimInv /\ CompletedMeansDone /\ [Next]_vars
    => CompletedMeansDone'
  <1> SUFFICES ASSUME TypeOK, RequestInv, ClaimInv, CompletedMeansDone,
                      [Next]_vars
               PROVE  CompletedMeansDone'
    OBVIOUS
  <1>n. \A d \in CommandIds : rows[d].attempts \in Nat /\ rows'[d].attempts \in Nat
    BY NextType DEF TypeOK, Row
  <1>a. ASSUME effects \subseteq effects',
               \A d \in CommandIds :
                 /\ rows'[d].status = "completed" => rows[d].status = "completed"
                 /\ rows'[d].attempts >= rows[d].attempts
        PROVE  CompletedMeansDone'
    BY <1>n, <1>a DEF CompletedMeansDone
  <1>1. ASSUME NEW r \in Requests, Insert(r) PROVE CompletedMeansDone'
    <2>1. request[r].cmd \in CommandIds /\ rows[request[r].cmd] = NoRow
      BY <1>1 DEF Insert, RequestInv, TypeOK, RequestState
    <2>2. \A d \in CommandIds : \/ rows'[d] = rows[d]
                                \/ /\ d = request[r].cmd
                                   /\ rows'[d].status = "pending"
      BY <1>1 DEF Insert, TypeOK, NoRow, Row
    <2> QED BY <1>1, <1>a, <1>n, <2>1, <2>2 DEF Insert, NoRow
  <1>2. ASSUME NEW r \in Requests, CancelWrite(r) PROVE CompletedMeansDone'
    <2>1. request[r].cmd \in CommandIds
      BY <1>2 DEF CancelWrite, TypeOK, RequestState
    <2>2. PICK new \in {"cancelled", "cancelling"} :
            Save(request[r].cmd, request[r].seen, new)
      BY <1>2 DEF CancelWrite
    <2> QED BY <1>2, <1>a, <1>n, <2>1, <2>2, SaveFrame DEF CancelWrite
  <1>3. ASSUME NEW w \in Workers, FinishWrite(w) PROVE CompletedMeansDone'
    <2> DEFINE c == worker[w].cmd
    <2>1. c \in CommandIds /\ worker[w].pc \in {"completing", "failing"}
      BY <1>3 DEF FinishWrite, TypeOK, WorkerState
    <2>2. PICK new \in {"cancelled", "completed", "failed"} :
            /\ Save(c, worker[w].seen, new)
            /\ new = "completed" => worker[w].pc = "completing"
      BY <1>3 DEF FinishWrite
    <2>3. CASE new = "completed"
      <3>1. /\ <<c, worker[w].attempt>> \in effects
            /\ worker[w].attempt \in 1 .. rows[c].attempts
        BY <2>1, <2>2, <2>3 DEF ClaimInv, Effect
      <3>2. \A d \in CommandIds : /\ rows'[d].attempts = rows[d].attempts
                                  /\ rows'[d].status = rows[d].status \/ d = c
        BY <2>1, <2>2, SaveFrame
      <3>3. UNCHANGED effects
        BY <1>3 DEF FinishWrite
      <3> QED BY <2>1, <3>1, <3>2, <3>3 DEF CompletedMeansDone
    <2>4. CASE new # "completed"
      BY <1>3, <1>a, <1>n, <2>1, <2>2, <2>4, SaveFrame DEF FinishWrite
    <2> QED BY <2>3, <2>4
  <1>4. ASSUME NEW w \in Workers, NEW c \in CommandIds, Claim(w, c)
        PROVE  CompletedMeansDone'
    <2>1. /\ rows'[c].status = "claimed" /\ UNCHANGED effects
          /\ rows'[c].attempts = rows[c].attempts + 1
          /\ \A d \in CommandIds : d # c => rows'[d] = rows[d]
      BY <1>4 DEF Claim, TypeOK, Row
    <2> QED BY <1>a, <1>n, <2>1
  <1>5. ASSUME NEW c \in CommandIds, Abandoned(c) \/ Overrun(c)
        PROVE  CompletedMeansDone'
    <2>1. rows' = [rows EXCEPT ![c].stale = TRUE] /\ UNCHANGED effects
      BY <1>5 DEF Abandoned, Overrun, ClaimGrowsStale
    <2>2. \A d \in CommandIds : /\ rows'[d].attempts = rows[d].attempts
                                /\ rows'[d].status = rows[d].status
      BY <2>1 DEF TypeOK, Row
    <2> QED BY <1>a, <1>n, <2>1, <2>2
  <1>6. CASE UNCHANGED rows /\ effects \subseteq effects'
    BY <1>6, <1>a, <1>n
  <1> QED BY <1>1, <1>2, <1>3, <1>4, <1>5, <1>6
          DEF Next, WorkerStep, RequestStep, Submit, CancelRead, RetryRead,
              RetryLookup, HandlerReturns, HandlerRaises, FinishRead,
              CompleteRaises, Crash, vars

-----------------------------------------------------------------------------
LEMMA InitIInv == Init => IInv
  <1> SUFFICES ASSUME Init PROVE IInv
    OBVIOUS
  <1>1. TypeOK
    BY InitType
  <1>2. /\ \A c \in CommandIds : rows[c] = NoRow
        /\ \A w \in Workers : worker[w].pc = "idle"
        /\ \A r \in Requests : request[r].pc = "idle"
        /\ effects = {}
    BY DEF Init, Idle, NoRequest
  <1>3. RequestInv /\ ClaimInv
    <2>1. \A c \in CommandIds : rows[c].status = "absent"
      BY <1>2 DEF NoRow
    <2>2. RequestInv
      BY <1>2, <2>1 DEF RequestInv
    <2>3. ClaimInv
      BY <1>2 DEF ClaimInv
    <2> QED BY <2>2, <2>3
  <1>4. LeaseInv /\ ExclusiveExecution /\ OneRowPerKey /\ CompletedMeansDone
    BY <1>2 DEF LeaseInv, ExclusiveExecution, OneRowPerKey, CompletedMeansDone,
                HasKey, Holds, NoRow
  <1> QED BY <1>1, <1>3, <1>4 DEF IInv

LEMMA NextIInv == IInv /\ [Next]_vars => IInv'
  BY NextType, NextRequestInv, NextClaimInv, NextLeaseInv, NextOneRowPerKey,
     NextCompletedMeansDone DEF IInv

LEMMA Invariance == Spec => []IInv
  BY InitIInv, NextIInv, PTL DEF Spec

(* As long as no handler outlives its claim, no two workers ever run the   *)
(* same command at the same time, for any number of workers and crashes.   *)
THEOREM Exclusion == Spec => []ExclusiveExecution
  <1>1. IInv => ExclusiveExecution
    BY DEF IInv
  <1> QED BY <1>1, Invariance, PTL

(* Racing enqueues of one idempotency key leave one row.                   *)
THEOREM KeysAreUnique == Spec => []OneRowPerKey
  <1>1. IInv => OneRowPerKey
    BY DEF IInv
  <1> QED BY <1>1, Invariance, PTL

(* A completed row stands for a handler that took effect.                  *)
THEOREM CompletionIsHonest == Spec => []CompletedMeansDone
  <1>1. IInv => CompletedMeansDone
    BY DEF IInv
  <1> QED BY <1>1, Invariance, PTL

-----------------------------------------------------------------------------
(* How each step moves the rows through their phases.  A closed row stays  *)
(* closed; SaveFrame carries the two writes that may come from a stale     *)
(* read.                                                                   *)
LEMMA SavePhase ==
  ASSUME TypeOK, NEW c \in CommandIds, rows[c].status # "absent", NEW seen,
         NEW new \in {"cancelling", "cancelled", "completed", "failed"},
         Save(c, seen, new), UNCHANGED effects
  PROVE  Queue!Close(c) \/ UNCHANGED Queue!vars
  <1> DEFINE phase == [d \in CommandIds |-> PhaseOf(rows[d].status)]
             starts == [d \in CommandIds |-> rows[d].attempts]
  <1>1. \A d \in CommandIds : /\ rows'[d].attempts = rows[d].attempts
                              /\ \/ rows'[d] = rows[d]
                                 \/ d = c /\ rows'[d].status = new
    BY SaveFrame
  <1>2. starts' = starts
    BY <1>1
  <1>3. CASE rows'[c] = rows[c]
    <2>1. phase' = phase
      BY <1>1, <1>3
    <2> QED BY <1>2, <2>1 DEF Queue!vars
  <1>4. CASE rows'[c] # rows[c]
    <2>1. rows'[c].status = new /\ PhaseOf(new) = "closed"
      BY <1>1, <1>4 DEF PhaseOf
    <2>2. phase' = [phase EXCEPT ![c] = "closed"]
      BY <1>1, <2>1
    <2>3. phase[c] \in {"waiting", "active", "closed"}
      BY DEF PhaseOf, TypeOK, Row
    <2>4. CASE phase[c] \in {"waiting", "active"}
      BY <1>2, <2>2, <2>4 DEF Queue!Close
    <2>5. CASE phase[c] = "closed"
      <3>1. phase' = phase
        BY <2>2, <2>5
      <3> QED BY <1>2, <3>1 DEF Queue!vars
    <2> QED BY <2>3, <2>4, <2>5
  <1> QED BY <1>3, <1>4

LEMMA StepImplements == IInv /\ [Next]_vars => [Queue!Next]_(Queue!vars)
  <1> SUFFICES ASSUME TypeOK, RequestInv, ClaimInv, [Next]_vars
               PROVE  [Queue!Next]_(Queue!vars)
    BY DEF IInv
  <1> DEFINE phase == [d \in CommandIds |-> PhaseOf(rows[d].status)]
             starts == [d \in CommandIds |-> rows[d].attempts]
  <1>1. ASSUME NEW r \in Requests, Insert(r) PROVE [Queue!Next]_(Queue!vars)
    <2> DEFINE q == request[r]
               x == [NoRow EXCEPT !.status = "pending", !.key = q.key,
                                  !.retryAttempt = q.retryAttempt]
    <2>1. q.cmd \in CommandIds /\ rows[q.cmd] = NoRow /\ UNCHANGED effects
      BY <1>1 DEF Insert, RequestInv, TypeOK, RequestState
    <2>2. CASE rows' = rows
      BY <2>1, <2>2 DEF Queue!vars
    <2>3. CASE rows' # rows
      <3>1. rows' = [rows EXCEPT ![q.cmd] = x]
        BY <1>1, <2>3 DEF Insert
      <3>2. x.status = "pending" /\ x.attempts = 0
        BY DEF NoRow
      <3> HIDE DEF x
      <3>3. /\ rows'[q.cmd] = x
            /\ \A d \in CommandIds : d # q.cmd => rows'[d] = rows[d]
        BY <2>1, <3>1 DEF TypeOK
      <3>4. starts' = starts
        BY <2>1, <3>2, <3>3 DEF NoRow
      <3>5. phase[q.cmd] = "absent" /\ phase' = [phase EXCEPT ![q.cmd] = "waiting"]
        <4>1. PhaseOf(rows[q.cmd].status) = "absent" /\ PhaseOf(x.status) = "waiting"
          BY <2>1, <3>2 DEF NoRow, PhaseOf
        <4> QED BY <2>1, <3>3, <4>1
      <3>6. Queue!Submit(q.cmd)
        BY <2>1, <3>4, <3>5 DEF Queue!Submit
      <3> QED BY <2>1, <3>6 DEF Queue!Next
    <2> QED BY <2>2, <2>3
  <1>2. ASSUME NEW r \in Requests, CancelWrite(r) PROVE [Queue!Next]_(Queue!vars)
    <2>1. request[r].cmd \in CommandIds /\ rows[request[r].cmd].status # "absent"
      BY <1>2 DEF CancelWrite, RequestInv, TypeOK, RequestState
    <2>2. PICK new \in {"cancelled", "cancelling"} :
            Save(request[r].cmd, request[r].seen, new)
      BY <1>2 DEF CancelWrite
    <2>3. UNCHANGED effects
      BY <1>2 DEF CancelWrite
    <2> QED BY <2>1, <2>2, <2>3, SavePhase DEF Queue!Next
  <1>3. ASSUME NEW w \in Workers, FinishWrite(w) PROVE [Queue!Next]_(Queue!vars)
    <2>1. worker[w].cmd \in CommandIds /\ rows[worker[w].cmd].status # "absent"
      BY <1>3 DEF FinishWrite, ClaimInv, TypeOK, WorkerState
    <2>2. PICK new \in {"cancelled", "completed", "failed"} :
            Save(worker[w].cmd, worker[w].seen, new)
      BY <1>3 DEF FinishWrite
    <2>3. UNCHANGED effects
      BY <1>3 DEF FinishWrite
    <2> QED BY <2>1, <2>2, <2>3, SavePhase DEF Queue!Next
  <1>4. ASSUME NEW w \in Workers, NEW c \in CommandIds, Claim(w, c)
        PROVE  [Queue!Next]_(Queue!vars)
    <2>1. /\ rows[c].status \in {"pending", "claimed"} /\ UNCHANGED effects
          /\ rows'[c].status = "claimed"
          /\ rows'[c].attempts = rows[c].attempts + 1
          /\ \A d \in CommandIds : d # c => rows'[d] = rows[d]
      BY <1>4 DEF Claim, Claimable, TypeOK, Row
    <2>2. phase[c] \in {"waiting", "active"}
      BY <2>1 DEF PhaseOf
    <2>3. phase' = [phase EXCEPT ![c] = "active"]
      BY <2>1 DEF PhaseOf
    <2>4. starts' = [starts EXCEPT ![c] = starts[c] + 1]
      BY <2>1
    <2>5. Queue!Start(c)
      BY <2>1, <2>2, <2>3, <2>4 DEF Queue!Start
    <2> QED BY <2>5 DEF Queue!Next
  <1>5. ASSUME NEW w \in Workers, HandlerReturns(w) \/ HandlerRaises(w)
        PROVE  [Queue!Next]_(Queue!vars)
    <2> DEFINE c == worker[w].cmd
               n == worker[w].attempt
    <2>1. /\ worker[w].pc = "handling" /\ UNCHANGED rows
          /\ effects' = effects \/ effects' = effects \cup {<<c, n>>}
      BY <1>5 DEF HandlerReturns, HandlerRaises, Effect
    <2>2. c \in CommandIds /\ n \in 1 .. starts[c] /\ <<c, n>> \notin effects
      BY <2>1 DEF ClaimInv, Effect, TypeOK, WorkerState
    <2>3. phase' = phase /\ starts' = starts
      BY <2>1
    <2>4. CASE effects' = effects
      BY <2>3, <2>4 DEF Queue!vars
    <2>5. CASE effects' = effects \cup {<<c, n>>}
      <3>1. Queue!TakeEffect(c, n)
        BY <2>2, <2>3, <2>5 DEF Queue!TakeEffect
      <3> QED BY <2>2, <3>1 DEF Queue!Next
    <2> QED BY <2>1, <2>4, <2>5
  <1>6. ASSUME NEW c \in CommandIds, Abandoned(c) \/ Overrun(c)
        PROVE  [Queue!Next]_(Queue!vars)
    <2>1. rows' = [rows EXCEPT ![c].stale = TRUE] /\ UNCHANGED effects
      BY <1>6 DEF Abandoned, Overrun, ClaimGrowsStale
    <2>2. \A d \in CommandIds : /\ rows'[d].attempts = rows[d].attempts
                                /\ rows'[d].status = rows[d].status
      BY <2>1 DEF TypeOK, Row
    <2>3. phase' = phase /\ starts' = starts
      BY <2>2
    <2> QED BY <2>1, <2>3 DEF Queue!vars
  <1>7. CASE UNCHANGED <<rows, effects>>
    BY <1>7 DEF Queue!vars
  <1> QED BY <1>1, <1>2, <1>3, <1>4, <1>5, <1>6, <1>7
          DEF Next, WorkerStep, RequestStep, Submit, CancelRead, RetryRead,
              RetryLookup, FinishRead, CompleteRaises, Crash, vars

(* The table, its workers and its requests implement the abstract queue.   *)
THEOREM Refinement == Spec => ImplementsQueue
  <1>1. Init => Queue!Init
    BY DEF Init, Queue!Init, NoRow, PhaseOf
  <1> QED BY <1>1, Invariance, StepImplements, PTL
          DEF Spec, ImplementsQueue, Queue!Spec

(* A closed or cancelling command is never claimed again, although cancel, *)
(* complete and fail write what they decided from a row read earlier.      *)
THEOREM ClosedForGood == Spec => NeverReopened
  <1> DEFINE Shut == Terminal \cup {"cancelling"}
             Kept == \A c \in CommandIds : rows[c].status \in Shut =>
                       /\ rows'[c].status \in Shut
                       /\ rows'[c].attempts = rows[c].attempts
  <1>1. IInv /\ [Next]_vars => Kept
    <2> SUFFICES ASSUME TypeOK, RequestInv, ClaimInv, [Next]_vars PROVE Kept
      BY DEF IInv
    <2>1. ASSUME NEW c \in CommandIds, NEW seen, Save(c, seen, "cancelling")
                   \/ Save(c, seen, "cancelled") \/ Save(c, seen, "completed")
                   \/ Save(c, seen, "failed")
          PROVE  Kept
      <3>1. PICK new \in Shut : Save(c, seen, new)
        BY <2>1
      <3> QED BY <3>1, SaveFrame
    <2>2. ASSUME NEW r \in Requests, CancelWrite(r) PROVE Kept
      <3>1. request[r].cmd \in CommandIds
        BY <2>2 DEF CancelWrite, TypeOK, RequestState
      <3> QED BY <2>1, <2>2, <3>1 DEF CancelWrite
    <2>3. ASSUME NEW w \in Workers, FinishWrite(w) PROVE Kept
      <3>1. worker[w].cmd \in CommandIds
        BY <2>3 DEF FinishWrite, TypeOK, WorkerState
      <3>2. \/ Save(worker[w].cmd, worker[w].seen, "cancelled")
            \/ Save(worker[w].cmd, worker[w].seen, "completed")
            \/ Save(worker[w].cmd, worker[w].seen, "failed")
        BY <2>3 DEF FinishWrite
      <3> QED BY <2>1, <3>1, <3>2
    <2>4. ASSUME NEW r \in Requests, Insert(r) PROVE Kept
      <3>1. request[r].cmd \in CommandIds /\ rows[request[r].cmd].status = "absent"
        BY <2>4 DEF Insert, RequestInv, TypeOK, RequestState
      <3>2. \A d \in CommandIds : d # request[r].cmd => rows'[d] = rows[d]
        BY <2>4 DEF Insert, TypeOK
      <3> QED BY <3>1, <3>2
    <2>5. ASSUME NEW w \in Workers, NEW c \in CommandIds, Claim(w, c) PROVE Kept
      <3>1. /\ rows[c].status \in {"pending", "claimed"}
            /\ \A d \in CommandIds : d # c => rows'[d] = rows[d]
        BY <2>5 DEF Claim, Claimable, TypeOK
      <3> QED BY <3>1
    <2>6. ASSUME NEW c \in CommandIds, Abandoned(c) \/ Overrun(c) PROVE Kept
      <3>1. /\ rows[c].status = "claimed"
            /\ \A d \in CommandIds : d # c => rows'[d] = rows[d]
        BY <2>6 DEF Abandoned, Overrun, ClaimGrowsStale, TypeOK
      <3> QED BY <3>1
    <2>7. CASE UNCHANGED rows
      BY <2>7
    <2> QED BY <2>2, <2>3, <2>4, <2>5, <2>6, <2>7
            DEF Next, WorkerStep, RequestStep, Submit, CancelRead, RetryRead,
                RetryLookup, HandlerReturns, HandlerRaises, FinishRead,
                CompleteRaises, Crash, vars
  <1>2. Kept => [\A c \in CommandIds :
                   rows[c].status \in Shut =>
                     /\ rows'[c].status \in Shut
                     /\ rows'[c].attempts = rows[c].attempts]_vars
    OBVIOUS
  <1> QED BY <1>1, <1>2, Invariance, PTL DEF Spec, NeverReopened
=============================================================================
