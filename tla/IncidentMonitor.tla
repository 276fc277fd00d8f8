--------------------------- MODULE IncidentMonitor ---------------------------
(***************************************************************************)
(* EngineValidationMonitorService: the watchdog of the trader process.  A  *)
(* run ensures that the stored incidents are loaded, looks for alerts and  *)
(* opens, escalates or resolves the incident of each alert type: first in  *)
(* memory, then in its row, then, if the operator is to be told, as a      *)
(* notification.  The command engine_validation_monitor_run_once detects   *)
(* alerts beside it, which loads the incidents as well.  Incidents of      *)
(* different types do not meet; here is one.  The record of pending        *)
(* samples that _duration_alert keeps for its own type is left out.        *)
(***************************************************************************)
EXTENDS NotificationOutbox

CONSTANTS
  Recovery,      \* good samples that resolve the incident
  MaxEpisodes,   \* bound: times the incident is opened
  MaxAlerts      \* bound: openings and escalations

ASSUME MonitorAssumption == /\ Recovery \in Nat \ {0}
                            /\ MaxEpisodes \in Nat /\ MaxAlerts \in Nat

(* warning or critical; 0: the run finds no alert of the type.             *)
Severities == 1 .. 2
NoIncident == [state |-> "none", severity |-> 0, good |-> 0, episode |-> 0]

(* The dedupe key: alert type, opened_at_ms and severity.  Openings at     *)
(* different times are numbered.                                           *)
AlertKeys == (1 .. MaxEpisodes) \X Severities

Callers == {"watchdog", "command"}
NoCall == [pc |-> "none", row |-> NoIncident]

VARIABLES
  incident,      \* _incident_states
  incidentRow,   \* operational_incidents
  loaded,        \* _incidents_loaded
  monitor,       \* where the run stands, the key it is to announce, and the
                 \* incident it is about to write
  calls,         \* _ensure_incidents_loaded of each caller, and what it listed
  raised,        \* history: the keys that runs decided to announce
  episodes, resolutions,   \* history: openings and resolutions
  overwrites     \* history: loads that came late and changed what memory knew

incidents == <<incident, incidentRow, loaded>>
history == <<raised, episodes, resolutions>>
watchdog == <<incidents, monitor, calls, history, overwrites>>

MonitorInit ==
  /\ incident = NoIncident /\ incidentRow = NoIncident /\ loaded = FALSE
  /\ monitor = [pc |-> "idle", tell |-> {}, writes |-> NoIncident]
  /\ calls = [c \in Callers |-> NoCall]
  /\ raised = {} /\ episodes = 0 /\ resolutions = 0 /\ overwrites = 0

Goes(pc, tell, writes) == monitor' = [pc |-> pc, tell |-> tell, writes |-> writes]

(* The check comes back: the run detects, or decides on what it detected.  *)
(* The command's run_once changes nothing more.                            *)
GoesOn(c) ==
  IF c = "watchdog"
  THEN Goes(IF monitor.pc = "idle" THEN "detect" ELSE "decide", {}, NoIncident)
  ELSE UNCHANGED monitor

(* _ensure_incidents_loaded up to its await, at the start of a detection,  *)
(* and again after that of the watchdog.                                   *)
EnsureLoaded(c) ==
  /\ calls[c] = NoCall
  /\ c = "watchdog" => monitor.pc \in {"idle", "detect"}
  /\ IF loaded THEN GoesOn(c) /\ UNCHANGED calls
     ELSE /\ calls' = [calls EXCEPT ![c].pc = "asked"]
          /\ UNCHANGED monitor
  /\ UNCHANGED <<incidents, history, overwrites>> /\ Returns

(* The rows are read.  A caller that could not list them goes on without.  *)
List(c) ==
  /\ calls[c].pc = "asked"
  /\ \/ calls' = [calls EXCEPT ![c] = [pc |-> "listed", row |-> incidentRow]]
        /\ UNCHANGED monitor /\ Returns
     \/ calls' = [calls EXCEPT ![c] = NoCall] /\ GoesOn(c) /\ Raises
  /\ UNCHANGED <<incidents, history, overwrites>>

(* The rows are listed and left alone.                                     *)
NothingInstalled(listed) == incident

Installed(listed) == IF listed = NoIncident THEN incident ELSE listed

(* They replace what memory knows, whatever came in since the check.       *)
Install(c) ==
  /\ calls[c].pc = "listed"
  /\ loaded' = TRUE
  /\ incident' = Installed(calls[c].row)
  /\ overwrites' = IF loaded /\ incident' # incident THEN overwrites + 1 ELSE overwrites
  /\ calls' = [calls EXCEPT ![c] = NoCall]
  /\ GoesOn(c)
  /\ UNCHANGED <<incidentRow, history>> /\ Returns

(* The run ends here when a query of the detection raises, and when it was *)
(* run_once for the digest.                                                *)
DetectionEnds ==
  /\ monitor.pc = "detect" /\ calls["watchdog"] = NoCall
  /\ Goes("idle", {}, NoIncident)
  /\ UNCHANGED <<incidents, calls, history, overwrites>> /\ (Returns \/ Raises)

Larger(m, n) == IF m > n THEN m ELSE n
Open == incident.state = "open"

(* An escalation keeps to the notification of the opening.                 *)
AlertUnescalated(severity) ==
  LET new == ~Open
      episode == IF new THEN episodes + 1 ELSE incident.episode
      worst == IF new THEN severity ELSE Larger(severity, incident.severity)
      tell == IF new THEN {<<episode, worst>>} ELSE {}
  IN  /\ monitor.pc = "decide"
      /\ episode <= MaxEpisodes /\ Cardinality(raised \cup tell) <= MaxAlerts
      /\ episodes' = IF new THEN episode ELSE episodes
      /\ incident' = [state |-> "open", severity |-> worst, good |-> 0,
                      episode |-> episode]
      /\ raised' = raised \cup IF new \/ severity > incident.severity
                               THEN {<<episode, worst>>} ELSE {}
      /\ Goes("persist", tell, incident')
      /\ UNCHANGED <<incidentRow, loaded, calls, resolutions, overwrites>> /\ Returns

(* An alert of the type: a new incident or an open one, whose severity     *)
(* never falls.                                                            *)
Alert(severity) ==
  LET new == ~Open
      episode == IF new THEN episodes + 1 ELSE incident.episode
      worst == IF new THEN severity ELSE Larger(severity, incident.severity)
      tell == IF new \/ severity > incident.severity
              THEN {<<episode, worst>>} ELSE {}
  IN  /\ monitor.pc = "decide"
      /\ episode <= MaxEpisodes /\ Cardinality(raised \cup tell) <= MaxAlerts
      /\ episodes' = IF new THEN episode ELSE episodes
      /\ incident' = [state |-> "open", severity |-> worst, good |-> 0,
                      episode |-> episode]
      /\ raised' = raised \cup tell
      /\ Goes("persist", tell, incident')
      /\ UNCHANGED <<incidentRow, loaded, calls, resolutions, overwrites>> /\ Returns

(* No alert of the type: a good sample of an open incident.                *)
NoAlert ==
  LET resolves == incident.good + 1 >= Recovery
  IN  /\ monitor.pc = "decide"
      /\ IF Open
           THEN /\ incident' = [incident EXCEPT
                     !.good = @ + 1, !.state = IF resolves THEN "resolved" ELSE "open"]
                /\ resolutions' = IF resolves THEN resolutions + 1 ELSE resolutions
                /\ Goes("persist", {}, incident')
           ELSE Goes("idle", {}, NoIncident) /\ UNCHANGED <<incident, resolutions>>
      /\ UNCHANGED <<incidentRow, loaded, calls, raised, episodes, overwrites>> /\ Returns

AfterPersist ==
  Goes(IF monitor.tell = {} THEN "idle" ELSE "send", monitor.tell, NoIncident)

(* _persist_incident from its upsert on.  What was written goes to memory  *)
(* once more; an exception, committed or not, is swallowed.                *)
Persist ==
  /\ monitor.pc = "persist"
  /\ AfterPersist
  /\ \/ incidentRow' = monitor.writes /\ incident' = monitor.writes /\ Returns
     \/ incidentRow' \in {incidentRow, monitor.writes} /\ UNCHANGED incident /\ Raises
  /\ UNCHANGED <<loaded, calls, history, overwrites>>

(* _send, once the incident is written; it swallows, too.                  *)
Send(enqueued) ==
  /\ monitor.pc = "send"
  /\ \/ Returns /\ enqueued = monitor.tell
     \/ Raises /\ enqueued = {}
  /\ Goes("idle", {}, NoIncident)
  /\ UNCHANGED <<incidents, calls, history, overwrites>>

MonitorRestarts ==
  /\ incident' = NoIncident /\ loaded' = FALSE
  /\ Goes("idle", {}, NoIncident)
  /\ calls' = [c \in Callers |-> NoCall]
  /\ UNCHANGED <<incidentRow, history, overwrites>>

CallStep(c) == EnsureLoaded(c) \/ List(c) \/ Install(c)

WatchdogStep ==
  \/ CallStep("watchdog")
  \/ DetectionEnds
  \/ \E severity \in Severities : Alert(severity)
  \/ NoAlert \/ Persist

Incidents ==
  [state : {"none", "open", "resolved"}, severity : 0 .. 2,
   good : 0 .. Recovery, episode : 0 .. MaxEpisodes]

MonitorTypeOK ==
  /\ {incident, incidentRow} \subseteq Incidents
  /\ loaded \in BOOLEAN
  /\ monitor \in [pc : {"idle", "detect", "decide", "persist", "send"},
                  tell : SUBSET AlertKeys, writes : Incidents]
  /\ calls \in [Callers -> [pc : {"none", "asked", "listed"}, row : Incidents]]
  /\ raised \subseteq AlertKeys
  /\ episodes \in 0 .. MaxEpisodes /\ resolutions \in Nat /\ overwrites \in Nat
=============================================================================
