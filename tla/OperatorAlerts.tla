--------------------------- MODULE OperatorAlerts ---------------------------
(***************************************************************************)
(* What the trader process tells its operator: the watchdog's alerts and   *)
(* the engine's proposals, both through the operational notifications that *)
(* the discord_publisher process delivers.  Tasks and processes interleave *)
(* at their awaits, and each process restarts on its own.                  *)
(***************************************************************************)
EXTENDS IncidentMonitor, OperatorProposals

CONSTANT
  Settings       \* the combinations it may run in: which of "monitor"
                 \* (engine_validation_digest_enabled) and "proposals"
                 \* (engine_operator_proposals_enabled) are on, whether the
                 \* operator has the monitor run by "command", and whether
                 \* there is a "publisher"

(* The dedupe keys of the two begin with different words.                  *)
ASSUME KeysAssumption == /\ Keys = AlertKeys \cup Candidates
                         /\ AlertKeys \cap Candidates = {}
ASSUME SettingsAssumption ==
  Settings \subseteq SUBSET {"monitor", "command", "proposals", "publisher"}

VARIABLES
  enabled,
  traderRestarts

trader == <<enabled, traderRestarts>>
vars == <<outbox, failures, watchdog, proposals, trader>>

Init ==
  /\ OutboxInit /\ MonitorInit /\ ProposalsInit
  /\ enabled \in Settings /\ traderRestarts = 0

EnqueueAll(keys) ==
  IF keys = {} THEN UNCHANGED outbox ELSE \E k \in keys : Enqueue(k)

TellAlert ==
  \E keys \in SUBSET monitor.tell : Send(keys) /\ EnqueueAll(keys)

TellProposal ==
  \E keys \in SUBSET engine.tell : Announce(keys) /\ EnqueueAll(keys)

TraderRestarts ==
  /\ publisherRestarts + traderRestarts < MaxRestarts
  /\ traderRestarts' = traderRestarts + 1
  /\ MonitorRestarts /\ ProposalsRestart
  /\ UNCHANGED <<outbox, enabled>> /\ Returns

Next ==
  \/ /\ "publisher" \in enabled
     /\ OutboxStep /\ UNCHANGED <<watchdog, proposals, trader>>
     /\ publisherRestarts' + traderRestarts <= MaxRestarts
  \/ /\ "monitor" \in enabled
     /\ \/ WatchdogStep /\ UNCHANGED outbox
        \/ "command" \in enabled /\ CallStep("command") /\ UNCHANGED outbox
        \/ TellAlert
     /\ UNCHANGED <<proposals, trader>>
  \/ /\ "proposals" \in enabled
     /\ \/ ProposalStep /\ UNCHANGED outbox
        \/ TellProposal
     /\ UNCHANGED <<watchdog, trader>>
  \/ TraderRestarts

Spec == Init /\ [][Next]_vars

(* The pump's task is scheduled, its calls return, and leases run out.     *)
Delivery ==
  /\ "publisher" \in enabled
  /\ PumpStep \/ \E k \in Keys : LeaseLapses(k)
  /\ UNCHANGED <<watchdog, proposals, trader>>

FairSpec == Spec /\ WF_vars(Delivery)

-----------------------------------------------------------------------------
(* Types of the outbox, the incident, the proposals and the tasks.         *)
TypeOK ==
  /\ OutboxTypeOK /\ MonitorTypeOK /\ ProposalsTypeOK
  /\ enabled \in Settings /\ traderRestarts \in 0 .. MaxRestarts

(* Every message beyond a notification's first is the price of one restart *)
(* of the publisher or one call that failed.                               *)
RepeatsAreFaults ==
  \A k \in Keys : posts[k] <= 1 + publisherRestarts + failures

(* Every alert that a run of the watchdog decided on and every proposal is *)
(* in the outbox or on its way there; a failed call costs at most one of   *)
(* them, a restart of the trader one of each.                              *)
ToTell == raised \cup Existing
OnTheWay == monitor.tell \cup engine.tell
ToldOrFault ==
  Cardinality({k \in ToTell : row[k] = "none"} \ OnTheWay)
    <= failures + 2 * traderRestarts

(* The operator hears of one episode until it is resolved, over restarts   *)
(* of the trader as well.  A failed call may open it once more, and so may *)
(* a load that comes late: of the callers that find nothing loaded the     *)
(* slower replaces what the watchdog opened meanwhile, which happens once  *)
(* at most from a start of the trader to the next.                         *)
Announced == {n \in 1 .. MaxEpisodes : \E s \in Severities : row[<<n, s>>] # "none"}
OneEpisodeAtATime ==
  /\ Cardinality(Announced) <= 1 + resolutions + failures + overwrites
  /\ overwrites <= 1 + traderRestarts

(* What an operator decided stays: it neither expires nor is decided anew. *)
DecisionsFinal ==
  [][\A c \in Candidates :
       proposal[c] \in Verdicts => proposal'[c] = proposal[c]]_vars

(* Once nothing new is enqueued every notification ends up sent or given   *)
(* up, leases of a restarted publisher included, unless there is none or   *)
(* the pump's task ended.                                                  *)
EveryNotificationSettles ==
  <>[](\/ "publisher" \notin enabled \/ pump.pc = "dead"
       \/ \A k \in Keys : row[k] \in Settled \cup {"none"})
=============================================================================
