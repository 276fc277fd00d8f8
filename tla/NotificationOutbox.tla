------------------------- MODULE NotificationOutbox -------------------------
(***************************************************************************)
(* The operational notifications: rows that the trader process enqueues    *)
(* under a dedupe key, and the OperationalNotificationPump of the one      *)
(* discord_publisher that claims, sends and marks them.                    *)
(***************************************************************************)
EXTENDS Naturals, FiniteSets

CONSTANTS
  Keys,          \* the dedupe keys
  MaxAttempts,   \* max_attempts of the pump
  MaxFailures,   \* bound: calls that raise, or whose answer is lost
  MaxRestarts    \* bound: restarts of the two processes together

ASSUME OutboxAssumption == /\ MaxAttempts \in Nat \ {0}
                           /\ MaxFailures \in Nat /\ MaxRestarts \in Nat

RowStatus == {"none", "pending", "sending", "sent", "failed", "dead_letter"}
Settled == {"sent", "dead_letter"}

VARIABLES
  row,         \* status of each notification
  attempts,    \* its attempt_count
  lapsed,      \* the rows past their lease_expires_at_ms
  posts,       \* history: messages on Discord for each key
  pump,        \* where run_once stands, and the rest of its batch
  failures, publisherRestarts

outbox == <<row, attempts, lapsed, posts, pump, publisherRestarts>>

IdlePump == [pc |-> "idle", batch |-> {}, current |-> {}]

OutboxInit ==
  /\ row = [k \in Keys |-> "none"]
  /\ attempts = [k \in Keys |-> 0]
  /\ lapsed = {}
  /\ posts = [k \in Keys |-> 0]
  /\ pump = IdlePump
  /\ failures = 0 /\ publisherRestarts = 0

Raises == failures < MaxFailures /\ failures' = failures + 1
Returns == UNCHANGED failures

(* enqueue_operational_notification: a row of the key that is still due    *)
(* gets the new payload, any other one is left as it is.                   *)
Enqueue(k) ==
  /\ row' = [row EXCEPT ![k] = IF @ = "none" THEN "pending" ELSE @]
  /\ UNCHANGED <<attempts, lapsed, posts, pump, publisherRestarts>>

-----------------------------------------------------------------------------
(* run_once.                                                               *)

Continue(batch) ==
  pump' = IF batch = {} THEN IdlePump
          ELSE [pc |-> "send", batch |-> batch, current |-> {}]

(* Without the release of expired leases.                                  *)
NoneExpired == {}

Expired == {k \in lapsed : row[k] = "sending"}

(* claim_due_operational_notifications, one transaction: expired leases    *)
(* become failed and due, and what is due is leased: these, the pending    *)
(* rows, and of the failed ones those whose next attempt has come.  The    *)
(* batch holds them all here.                                              *)
Claim(again) ==
  LET rows == again \cup Expired \cup {k \in Keys : row[k] = "pending"}
  IN  /\ pump = IdlePump
      /\ again \subseteq {k \in Keys : row[k] = "failed"}
      /\ rows # {}
      /\ row' = [k \in Keys |-> IF k \in rows THEN "sending" ELSE row[k]]
      /\ lapsed' = lapsed \ rows
      /\ Continue(rows)
      /\ UNCHANGED <<attempts, posts, publisherRestarts>> /\ Returns

Sending(k) == pump.pc = "send" /\ k \in pump.batch
Answer(k, pc) == pump' = [pump EXCEPT !.pc = pc, !.current = {k}]

Delivered(k) ==
  /\ Sending(k)
  /\ posts' = [posts EXCEPT ![k] = @ + 1]
  /\ Answer(k, "mark")
  /\ UNCHANGED <<row, attempts, lapsed, publisherRestarts>> /\ Returns

(* No message id, or a payload that Discord would not take.                *)
Refused(k) ==
  /\ Sending(k)
  /\ Answer(k, "refuse")
  /\ UNCHANGED <<row, attempts, lapsed, posts, publisherRestarts>> /\ Returns

(* Discord has the message and the call raises.                            *)
AnswerLost(k) ==
  /\ Sending(k) /\ Raises
  /\ posts' = [posts EXCEPT ![k] = @ + 1]
  /\ Answer(k, "refuse")
  /\ UNCHANGED <<row, attempts, lapsed, publisherRestarts>>

Mark(k, status) ==
  /\ k \in pump.current
  /\ row' = [row EXCEPT ![k] = status]
  /\ lapsed' = lapsed \ {k}
  /\ Continue(pump.batch \ {k})
  /\ UNCHANGED <<posts, publisherRestarts>> /\ Returns

(* Without its commit.                                                     *)
MarkSentUncommitted(k) ==
  /\ pump.pc = "mark" /\ k \in pump.current
  /\ Continue(pump.batch \ {k})
  /\ UNCHANGED <<row, attempts, lapsed, posts, publisherRestarts>> /\ Returns

MarkSent(k) ==
  pump.pc = "mark" /\ Mark(k, "sent") /\ UNCHANGED attempts

(* The handler of the exception marks the row failed.                      *)
MarkSentRaises ==
  /\ pump.pc = "mark" /\ Raises
  /\ pump' = [pump EXCEPT !.pc = "refuse"]
  /\ UNCHANGED <<row, attempts, lapsed, posts, publisherRestarts>>

(* One attempt too many.                                                   *)
MarkFailedLate(k) ==
  /\ pump.pc = "refuse"
  /\ attempts' = [attempts EXCEPT ![k] = @ + 1]
  /\ Mark(k, IF attempts'[k] > MaxAttempts THEN "dead_letter" ELSE "failed")

MarkFailed(k) ==
  /\ pump.pc = "refuse"
  /\ attempts' = [attempts EXCEPT ![k] = @ + 1]
  /\ Mark(k, IF attempts'[k] >= MaxAttempts THEN "dead_letter" ELSE "failed")

(* The claim, or the mark in the handler, raises: run_forever ends, and    *)
(* the process lives on without it.                                        *)
PumpDies ==
  /\ pump.pc \in {"idle", "refuse"} /\ Raises
  /\ pump' = [IdlePump EXCEPT !.pc = "dead"]
  /\ UNCHANGED <<row, attempts, lapsed, posts, publisherRestarts>>

PumpStep ==
  \/ \E again \in SUBSET Keys : Claim(again)
  \/ \E k \in Keys : Delivered(k) \/ Refused(k) \/ MarkSent(k) \/ MarkFailed(k)

(* lease_expires_at_ms passes for a row that no pump has in hand.          *)
LeaseLapses(k) ==
  /\ row[k] = "sending" /\ k \notin lapsed /\ k \notin pump.batch
  /\ lapsed' = lapsed \cup {k}
  /\ UNCHANGED <<row, attempts, posts, pump, publisherRestarts>> /\ Returns

PublisherRestarts ==
  /\ publisherRestarts < MaxRestarts
  /\ publisherRestarts' = publisherRestarts + 1
  /\ pump' = IdlePump
  /\ UNCHANGED <<row, attempts, lapsed, posts>> /\ Returns

OutboxStep ==
  \/ PumpStep
  \/ \E k \in Keys : AnswerLost(k) \/ LeaseLapses(k)
  \/ MarkSentRaises \/ PumpDies \/ PublisherRestarts

OutboxTypeOK ==
  /\ row \in [Keys -> RowStatus]
  /\ attempts \in [Keys -> 0 .. MaxAttempts]
  /\ lapsed \subseteq Keys
  /\ posts \in [Keys -> Nat]
  /\ pump \in [pc : {"idle", "send", "mark", "refuse", "dead"},
               batch : SUBSET Keys, current : SUBSET Keys]
  /\ failures \in 0 .. MaxFailures /\ publisherRestarts \in 0 .. MaxRestarts
=============================================================================
