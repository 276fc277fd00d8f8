--------------------------- MODULE WorkerCommands ---------------------------
(***************************************************************************)
(* The worker_commands queue of one service role: the API requests that    *)
(* enqueue, cancel and retry commands, the workers that claim and run      *)
(* them, and the database rows between the two.                            *)
(*                                                                         *)
(* Every repository method that reads a row, decides and writes it back in *)
(* a later await is two actions here (...Read and ...Write): the database  *)
(* runs at READ COMMITTED and the row is not locked, so another session    *)
(* may commit between the two.  Only claim_next_worker_command locks its   *)
(* row (FOR UPDATE SKIP LOCKED) and is one action.                         *)
(***************************************************************************)
EXTENDS Naturals, FiniteSets

CONSTANTS
  Workers,      \* worker processes of the role, all running command_loop
  Requests,     \* API requests that may be in flight at the same time
  Subjects,     \* values of a command's idempotency_key_fields
  NoKey,        \* the key of a command type without idempotency_key_fields
  MaxCommands,  \* bound: rows ever inserted
  MaxCrashes,   \* bound: worker crashes
  MaxOverruns   \* bound: claims that grow stale while their handler runs

ASSUME BoundsAssumption == /\ MaxCommands \in Nat
                           /\ MaxCrashes \in Nat
                           /\ MaxOverruns \in Nat

(* Commands are numbered in the order of their requested_at_ms, which is   *)
(* the order claim_next_worker_command serves.                             *)
CommandIds == 1 .. MaxCommands

(* _default_worker_command_idempotency_key, and the key of a retry.        *)
DerivedKey(s) == [of |-> s, retry |-> 0]
RetryKey(c, n) == [of |-> c, retry |-> n]

Key == [of : Subjects \cup CommandIds, retry : Nat]
ASSUME NoKeyAssumption == NoKey \notin Key

Open == {"pending", "claimed", "cancelling"}
Terminal == {"completed", "failed", "cancelled"}

Row == [status : {"absent"} \cup Open \cup Terminal,
        key : Key \cup {NoKey},
        retryAttempt : Nat,       \* metadata["retry_attempt"]
        attempts : Nat,           \* attempt_count
        stale : BOOLEAN]          \* claimed_at_ms < now - stale_after_ms

NoRow == [status |-> "absent", key |-> NoKey, retryAttempt |-> 0,
          attempts |-> 0, stale |-> FALSE]

WorkerState ==
  [pc : {"idle", "handling", "returned", "raised", "completing", "failing"},
   cmd : CommandIds \cup {0},     \* the claimed command
   attempt : Nat,                 \* its attempt_count when it was claimed
   seen : {"absent"} \cup Open \cup Terminal]   \* the status last loaded

Idle == [pc |-> "idle", cmd |-> 0, attempt |-> 0, seen |-> "absent"]

RequestState ==
  [pc : {"idle", "inserting", "cancelling", "retrying"},
   cmd : CommandIds \cup {0},     \* the command asked about or answered with
   key : Key \cup {NoKey},
   retryAttempt : Nat,
   seen : {"absent"} \cup Open]   \* the status last loaded

NoRequest == [pc |-> "idle", cmd |-> 0, key |-> NoKey, retryAttempt |-> 0,
              seen |-> "absent"]

VARIABLES
  rows,      \* the worker_commands table
  nextId,    \* the next command id: uuid4 and clock
  worker,    \* where each worker stands in command_loop
  request,   \* where each API request stands
  effects,   \* history: <<command, attempt>> of every handler effect
  crashes, overruns

vars == <<rows, nextId, worker, request, effects, crashes, overruns>>

Init ==
  /\ rows = [c \in CommandIds |-> NoRow]
  /\ nextId = 1
  /\ worker = [w \in Workers |-> Idle]
  /\ request = [r \in Requests |-> NoRequest]
  /\ effects = {}
  /\ crashes = 0
  /\ overruns = 0

HasKey(c, k) == rows[c].status # "absent" /\ rows[c].key = k /\ k # NoKey
Holds(w, c) == worker[w].pc # "idle" /\ worker[w].cmd = c

(* An ORM commit writes the status column only when it differs from the    *)
(* value this session loaded, whatever the row holds by now.               *)
Save(c, seen, new) ==
  rows' = IF new = seen THEN rows ELSE [rows EXCEPT ![c].status = new]

-----------------------------------------------------------------------------
(* API requests *)

Answer(r, c) == request' = [request EXCEPT ![r] = [NoRequest EXCEPT !.cmd = c]]

(* The SELECT of enqueue_worker_command: a row with the key answers the    *)
(* request, whatever became of it; otherwise an INSERT is prepared.        *)
Lookup(r, k, n) ==
  \/ \E c \in CommandIds : HasKey(c, k) /\ Answer(r, c) /\ UNCHANGED nextId
  \/ /\ \A c \in CommandIds : ~HasKey(c, k)
     /\ nextId <= MaxCommands
     /\ nextId' = nextId + 1
     /\ request' = [request EXCEPT ![r] =
                      [pc |-> "inserting", cmd |-> nextId, key |-> k,
                       retryAttempt |-> n, seen |-> "absent"]]

Submit(r) ==
  /\ request[r].pc = "idle"
  /\ \E k \in {DerivedKey(s) : s \in Subjects} \cup {NoKey} : Lookup(r, k, 0)
  /\ UNCHANGED <<rows, worker, effects, crashes, overruns>>

(* Without the unique index.                                               *)
InsertUnchecked(r) ==
  LET q == request[r] IN
  /\ q.pc = "inserting"
  /\ rows' = [rows EXCEPT ![q.cmd] =
                [NoRow EXCEPT !.status = "pending", !.key = q.key,
                              !.retryAttempt = q.retryAttempt]]
  /\ Answer(r, q.cmd)
  /\ UNCHANGED <<nextId, worker, effects, crashes, overruns>>

(* The INSERT and its commit; the unique index on idempotency_key sends a  *)
(* loser of the race back to the winner's row.                             *)
Insert(r) ==
  LET q == request[r] IN
  /\ q.pc = "inserting"
  /\ \/ \E c \in CommandIds :
          HasKey(c, q.key) /\ Answer(r, c) /\ UNCHANGED rows
     \/ /\ \A c \in CommandIds : ~HasKey(c, q.key)
        /\ rows' = [rows EXCEPT ![q.cmd] =
                      [NoRow EXCEPT !.status = "pending", !.key = q.key,
                                    !.retryAttempt = q.retryAttempt]]
        /\ Answer(r, q.cmd)
  /\ UNCHANGED <<nextId, worker, effects, crashes, overruns>>

(* The command id is not handed on.                                        *)
CancelReadUnnamed(r, c) ==
  /\ request[r].pc = "idle"
  /\ rows[c].status \in Open
  /\ request' = [request EXCEPT ![r] =
                   [NoRequest EXCEPT !.pc = "cancelling",
                                     !.seen = rows[c].status]]
  /\ UNCHANGED <<rows, nextId, worker, effects, crashes, overruns>>

(* A terminal command is returned as it is, which changes nothing.         *)
CancelRead(r, c) ==
  /\ request[r].pc = "idle"
  /\ rows[c].status \in Open
  /\ request' = [request EXCEPT ![r] =
                   [NoRequest EXCEPT !.pc = "cancelling", !.cmd = c,
                                     !.seen = rows[c].status]]
  /\ UNCHANGED <<rows, nextId, worker, effects, crashes, overruns>>

CancelWrite(r) ==
  LET q == request[r] IN
  /\ q.pc = "cancelling"
  /\ Save(q.cmd, q.seen,
          IF q.seen = "pending" THEN "cancelled" ELSE "cancelling")
  /\ request' = [request EXCEPT ![r] = NoRequest]
  /\ UNCHANGED <<nextId, worker, effects, crashes, overruns>>

(* An open command is returned as it is, which changes nothing.            *)
RetryRead(r, c) ==
  /\ request[r].pc = "idle"
  /\ rows[c].status \in Terminal
  /\ LET n == rows[c].retryAttempt + 1 IN
       request' = [request EXCEPT ![r] =
                     [NoRequest EXCEPT !.pc = "retrying", !.cmd = c,
                                       !.key = RetryKey(c, n),
                                       !.retryAttempt = n]]
  /\ UNCHANGED <<rows, nextId, worker, effects, crashes, overruns>>

RetryLookup(r) ==
  /\ request[r].pc = "retrying"
  /\ Lookup(r, request[r].key, request[r].retryAttempt)
  /\ UNCHANGED <<rows, worker, effects, crashes, overruns>>

-----------------------------------------------------------------------------
(* command_loop *)

(* Whatever the age of the claim; never after a claim; also after a        *)
(* cancellation.                                                           *)
ClaimableAtAnyAge(c) == rows[c].status \in {"pending", "claimed"}
ClaimableOnce(c) == rows[c].status = "pending"
ClaimableCancelled(c) ==
  \/ rows[c].status = "pending"
  \/ rows[c].status \in {"claimed", "cancelling"} /\ rows[c].stale

Claimable(c) == \/ rows[c].status = "pending"
                \/ rows[c].status = "claimed" /\ rows[c].stale

Claim(w, c) ==
  /\ worker[w].pc = "idle"
  /\ Claimable(c)
  /\ \A d \in CommandIds : Claimable(d) => c <= d
  /\ rows' = [rows EXCEPT ![c].status = "claimed", ![c].stale = FALSE,
                          ![c].attempts = @ + 1]
  /\ worker' = [worker EXCEPT ![w] =
                  [pc |-> "handling", cmd |-> c,
                   attempt |-> rows[c].attempts + 1, seen |-> "absent"]]
  /\ UNCHANGED <<nextId, request, effects, crashes, overruns>>

Effect(w) == <<worker[w].cmd, worker[w].attempt>>

HandlerReturns(w) ==
  /\ worker[w].pc = "handling"
  /\ worker' = [worker EXCEPT ![w].pc = "returned"]
  /\ effects' = effects \cup {Effect(w)}
  /\ UNCHANGED <<rows, nextId, request, crashes, overruns>>

(* An unsupported command or a failing handler, before or after its effect.*)
HandlerRaises(w) ==
  /\ worker[w].pc = "handling"
  /\ worker' = [worker EXCEPT ![w].pc = "raised"]
  /\ \E done \in {{}, {Effect(w)}} : effects' = effects \cup done
  /\ UNCHANGED <<rows, nextId, request, crashes, overruns>>

(* A command is completed also when its handler raised.                    *)
FinishReadAlwaysCompletes(w) ==
  /\ worker[w].pc \in {"returned", "raised"}
  /\ worker' = [worker EXCEPT ![w].pc = "completing",
                              ![w].seen = rows[worker[w].cmd].status]
  /\ UNCHANGED <<rows, nextId, request, effects, crashes, overruns>>

(* session.get of complete_worker_command, or of fail_worker_command.      *)
FinishRead(w) ==
  /\ worker[w].pc \in {"returned", "raised"}
  /\ worker' = [worker EXCEPT
                  ![w].pc = IF worker[w].pc = "returned" THEN "completing"
                                                         ELSE "failing",
                  ![w].seen = rows[worker[w].cmd].status]
  /\ UNCHANGED <<rows, nextId, request, effects, crashes, overruns>>

(* A failed command goes back to the queue.                                *)
FinishWriteReleases(w) ==
  LET k == worker[w] IN
  /\ k.pc \in {"completing", "failing"}
  /\ Save(k.cmd, k.seen, IF k.pc = "completing" THEN "completed" ELSE "pending")
  /\ worker' = [worker EXCEPT ![w] = Idle]
  /\ UNCHANGED <<nextId, request, effects, crashes, overruns>>

(* The commit of either: neither looks at claimed_by nor at what the row   *)
(* holds by now.                                                           *)
FinishWrite(w) ==
  LET k == worker[w] IN
  /\ k.pc \in {"completing", "failing"}
  /\ Save(k.cmd, k.seen,
          CASE k.seen = "cancelling" -> "cancelled"
            [] k.seen # "cancelling" /\ k.pc = "completing" -> "completed"
            [] OTHER -> "failed")
  /\ worker' = [worker EXCEPT ![w] = Idle]
  /\ UNCHANGED <<nextId, request, effects, crashes, overruns>>

(* complete_worker_command is inside the try: its error fails the command. *)
CompleteRaises(w) ==
  /\ worker[w].pc \in {"returned", "completing"}
  /\ worker' = [worker EXCEPT ![w].pc = "raised"]
  /\ UNCHANGED <<rows, nextId, request, effects, crashes, overruns>>

(* The process dies, is cancelled (CancelledError is no Exception), or     *)
(* fail_worker_command itself raises; a new instance starts idle.          *)
Crash(w) ==
  /\ worker[w].pc # "idle"
  /\ crashes < MaxCrashes
  /\ crashes' = crashes + 1
  /\ worker' = [worker EXCEPT ![w] = Idle]
  /\ UNCHANGED <<rows, nextId, request, effects, overruns>>

-----------------------------------------------------------------------------
(* The clock passes worker_command_claim_stale_seconds after a claim.      *)

ClaimGrowsStale(c) ==
  /\ rows[c].status = "claimed"
  /\ ~rows[c].stale
  /\ rows' = [rows EXCEPT ![c].stale = TRUE]
  /\ UNCHANGED <<nextId, worker, request, effects, crashes>>

Abandoned(c) == ClaimGrowsStale(c) /\ (\A w \in Workers : ~Holds(w, c))
                                   /\ UNCHANGED overruns
Overrun(c) == /\ ClaimGrowsStale(c)
              /\ \E w \in Workers : Holds(w, c)
              /\ overruns < MaxOverruns
              /\ overruns' = overruns + 1

-----------------------------------------------------------------------------
WorkerStep(w) ==
  \/ \E c \in CommandIds : Claim(w, c)
  \/ HandlerReturns(w) \/ HandlerRaises(w)
  \/ FinishRead(w) \/ FinishWrite(w) \/ CompleteRaises(w)

RequestStep(r) ==
  \/ Submit(r) \/ Insert(r) \/ CancelWrite(r) \/ RetryLookup(r)
  \/ \E c \in CommandIds : CancelRead(r, c) \/ RetryRead(r, c)

Next ==
  \/ \E w \in Workers : WorkerStep(w) \/ Crash(w)
  \/ \E r \in Requests : RequestStep(r)
  \/ \E c \in CommandIds : Abandoned(c) \/ Overrun(c)

Spec == Init /\ [][Next]_vars

(* A worker that runs keeps taking steps and its handlers end; a request   *)
(* under way is answered; time passes.  Crashes and new requests are not   *)
(* forced.                                                                 *)
Fairness ==
  /\ \A w \in Workers : WF_vars(WorkerStep(w))
  /\ \A r \in Requests : WF_vars(Insert(r) \/ CancelWrite(r) \/ RetryLookup(r))
  /\ \A c \in CommandIds : WF_vars(Abandoned(c))

FairSpec == Spec /\ Fairness

-----------------------------------------------------------------------------
(* Rows, workers and requests have the shape of the table and of the loops.*)
TypeOK ==
  /\ rows \in [CommandIds -> Row]
  /\ nextId \in 1 .. MaxCommands + 1
  /\ worker \in [Workers -> WorkerState]
  /\ request \in [Requests -> RequestState]
  /\ effects \subseteq CommandIds \X Nat
  /\ crashes \in 0 .. MaxCrashes
  /\ overruns \in 0 .. MaxOverruns
  /\ \A w \in Workers : worker[w].pc # "idle" => worker[w].cmd # 0
  /\ \A r \in Requests : request[r].pc # "idle" => request[r].cmd # 0

(* As long as no handler outlives worker_command_claim_stale_seconds, no   *)
(* two workers run the same command at the same time, whatever crashes,    *)
(* cancellations and retries happen: claim_next_worker_command hands a row *)
(* over only when its last holder is gone.                                 *)
ExclusiveExecution ==
  overruns = 0 =>
    \A v, w \in Workers, c \in CommandIds : Holds(v, c) /\ Holds(w, c) => v = w

(* Requests that race to enqueue the same idempotency key never leave two  *)
(* rows for it, also when both lookups found nothing.                      *)
OneRowPerKey ==
  \A c, d \in CommandIds : HasKey(c, rows[d].key) => c = d

(* A row says completed only if some run of its handler took effect; a     *)
(* cancelled, crashed or failed run never leaves completed behind.         *)
CompletedMeansDone ==
  \A c \in CommandIds :
    rows[c].status = "completed" => \E n \in 1 .. rows[c].attempts :
                                      <<c, n>> \in effects

(* Once a command is closed or its cancellation is asked for, no stale     *)
(* read and late write makes it claimable again.                           *)
NeverReopened ==
  [][\A c \in CommandIds :
       rows[c].status \in Terminal \cup {"cancelling"} =>
         /\ rows'[c].status \in Terminal \cup {"cancelling"}
         /\ rows'[c].attempts = rows[c].attempts]_vars

(* Every accepted command leaves the queue: it is run, failed, or under    *)
(* cancellation, also when the worker that had claimed it crashed.         *)
EveryCommandSettles ==
  \A c \in CommandIds :
    rows[c].status \in {"pending", "claimed"} ~>
      rows[c].status \in Terminal \cup {"cancelling"}

(* The table of rows seen as the abstract queue of CommandQueue.           *)
PhaseOf(status) ==
  CASE status = "absent" -> "absent"
    [] status = "pending" -> "waiting"
    [] status = "claimed" -> "active"
    [] OTHER -> "closed"

Queue == INSTANCE CommandQueue WITH
  Commands <- CommandIds,
  phase <- [c \in CommandIds |-> PhaseOf(rows[c].status)],
  starts <- [c \in CommandIds |-> rows[c].attempts],
  effects <- effects

(* The rows implement the abstract queue: nothing is started after it was  *)
(* closed, and a claim whose worker was lost never takes effect twice.     *)
ImplementsQueue == Queue!Spec

-----------------------------------------------------------------------------
(* The inductive invariant behind the theorems of WorkerCommandsProofs *)

(* A row under insertion is absent and belongs to one request; the other   *)
(* requests name rows that exist.                                          *)
RequestInv ==
  /\ \A c \in CommandIds : c >= nextId => rows[c].status = "absent"
  /\ \A c \in CommandIds : rows[c].status = "absent" => rows[c] = NoRow
  /\ \A r \in Requests : request[r].pc = "inserting" =>
       /\ request[r].cmd < nextId
       /\ rows[request[r].cmd].status = "absent"
  /\ \A q, r \in Requests :
       request[q].pc = "inserting" /\ request[r].pc = "inserting"
         /\ request[q].cmd = request[r].cmd => q = r
  /\ \A r \in Requests : request[r].pc = "cancelling" =>
       rows[request[r].cmd].status \notin {"absent"}

(* A worker at work holds a claim of its own: the number of its attempt is *)
(* shared with nobody, and its effect is recorded once its handler is done.*)
ClaimInv ==
  /\ \A w \in Workers : worker[w].pc # "idle" =>
       /\ rows[worker[w].cmd].status \notin {"absent", "pending"}
       /\ worker[w].attempt \in 1 .. rows[worker[w].cmd].attempts
  /\ \A v, w \in Workers :
       worker[v].pc # "idle" /\ worker[w].pc # "idle" /\ Effect(v) = Effect(w)
         => v = w
  /\ \A e \in effects : e[2] \in 1 .. rows[e[1]].attempts
  /\ \A w \in Workers : worker[w].pc = "handling" => Effect(w) \notin effects
  /\ \A w \in Workers :
       worker[w].pc \in {"returned", "completing"} => Effect(w) \in effects

(* Without overruns a claim that is held is never stale.                   *)
LeaseInv ==
  overruns = 0 => \A w \in Workers, c \in CommandIds :
                    Holds(w, c) /\ rows[c].status = "claimed" => ~rows[c].stale

IInv == /\ TypeOK /\ RequestInv /\ ClaimInv
        /\ LeaseInv /\ ExclusiveExecution
        /\ OneRowPerKey /\ CompletedMeansDone

-----------------------------------------------------------------------------
(* What a test says of every run and some runs do not do *)

(* A command under cancellation ends once its worker is done with it.      *)
CancellationSettles ==
  \A c \in CommandIds :
    rows[c].status = "cancelling" ~> rows[c].status \in Terminal
=============================================================================
