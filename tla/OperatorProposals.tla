-------------------------- MODULE OperatorProposals --------------------------
(***************************************************************************)
(* EngineOperatorProposalService: the engine loop of the trader process    *)
(* turns eligible candidates into proposals and announces them; the        *)
(* command loop of the same process records what the operator decides; the *)
(* API, too, expires proposals.  One day and one symbol per candidate: the *)
(* cooldown of a symbol is that of its candidate's existing proposal.      *)
(***************************************************************************)
EXTENDS NotificationOutbox

CONSTANTS
  Candidates,
  PerLoop,      \* engine_operator_max_proposals_per_loop
  PerDay        \* engine_operator_max_proposals_per_day

ASSUME ProposalsAssumption == PerLoop \in Nat /\ PerDay \in Nat

Verdicts == {"acknowledged", "rejected"}
ProposalStatus == {"none", "proposed", "expired"} \cup Verdicts

VARIABLES
  proposal,     \* engine_operator_proposals
  overdue,      \* the candidates past expires_at_ms
  engine,       \* process_candidate_book: the candidates left, and how many
                \* more it may propose
  command       \* acknowledge or reject, as it is executed

proposals == <<proposal, overdue, engine, command>>

IdleEngine == [pc |-> "idle", todo |-> {}, left |-> 0, tell |-> {}]
IdleCommand == [pc |-> "idle", candidate |-> {}, verdict |-> "acknowledged"]

ProposalsInit ==
  /\ proposal = [c \in Candidates |-> "none"]
  /\ overdue = {}
  /\ engine = IdleEngine /\ command = IdleCommand

(* expire_engine_operator_proposals without the condition on the status.   *)
ExpireAny(rows) ==
  [c \in Candidates |-> IF c \in overdue /\ rows[c] # "none" THEN "expired" ELSE rows[c]]

(* expire_engine_operator_proposals, one update.                           *)
Expire(rows) ==
  [c \in Candidates |->
     IF c \in overdue /\ rows[c] = "proposed" THEN "expired" ELSE rows[c]]

Existing == {c \in Candidates : proposal[c] # "none"}
Least(m, n) == IF m < n THEN m ELSE n

-----------------------------------------------------------------------------
(* process_candidate_book: the book and what is eligible of it, which      *)
(* nothing overdue is.                                                     *)
ProcessBook(eligible) ==
  /\ engine = IdleEngine /\ eligible # {} /\ eligible \cap overdue = {}
  /\ proposal' = Expire(proposal)
  /\ engine' = [pc |-> "check", todo |-> eligible,
                left |-> Least(PerLoop, IF PerDay > Cardinality(Existing)
                                        THEN PerDay - Cardinality(Existing) ELSE 0),
                tell |-> {}]
  /\ UNCHANGED <<overdue, command>> /\ Returns

NextCandidate(todo, left) ==
  engine' = IF todo = {} \/ left = 0 THEN IdleEngine
            ELSE [pc |-> "check", todo |-> todo, left |-> left, tell |-> {}]

(* get_engine_operator_proposal_by_candidate skips what exists already.    *)
SkipExisting(c) ==
  /\ engine.pc = "check" /\ c \in engine.todo
  /\ proposal[c] # "none" \/ engine.left = 0
  /\ NextCandidate(engine.todo \ {c}, engine.left)
  /\ UNCHANGED <<proposal, overdue, command>> /\ Returns

(* upsert_engine_operator_proposal; it swallows its exception, and the     *)
(* candidate is left for a later book, or stored and never announced.      *)
Propose(c) ==
  /\ engine.pc = "check" /\ c \in engine.todo
  /\ proposal[c] = "none" /\ engine.left > 0
  /\ \/ /\ Returns
        /\ proposal' = [proposal EXCEPT ![c] = "proposed"]
        /\ engine' = [engine EXCEPT !.pc = "announce", !.todo = @ \ {c},
                                    !.left = @ - 1, !.tell = {c}]
     \/ /\ Raises
        /\ NextCandidate(engine.todo \ {c}, engine.left)
        /\ proposal' \in {proposal, [proposal EXCEPT ![c] = "proposed"]}
  /\ UNCHANGED <<overdue, command>>

(* _enqueue_proposal_notification, whose failure nobody sees.              *)
Announce(enqueued) ==
  /\ engine.pc = "announce"
  /\ \/ Returns /\ enqueued = engine.tell
     \/ Raises /\ enqueued = {}
  /\ NextCandidate(engine.todo, engine.left)
  /\ UNCHANGED <<proposal, overdue, command>>

(* Any other query of the book raises, which ends its processing.          *)
BookRaises ==
  /\ engine.pc = "check" /\ Raises
  /\ engine' = IdleEngine
  /\ UNCHANGED <<proposal, overdue, command>>

(* expires_at_ms passes.                                                   *)
TimePasses(c) ==
  /\ proposal[c] = "proposed" /\ c \notin overdue
  /\ overdue' = overdue \cup {c}
  /\ UNCHANGED <<proposal, engine, command>> /\ Returns

-----------------------------------------------------------------------------
(* acknowledge and reject.  A command may be executed again.               *)
Decide(c, verdict) ==
  /\ command = IdleCommand
  /\ proposal[c] # "none"
  /\ proposal' = Expire(proposal)
  /\ command' = [pc |-> "get", candidate |-> {c}, verdict |-> verdict]
  /\ UNCHANGED <<overdue, engine>> /\ Returns

(* update_engine_operator_proposal_status: the get ...                     *)
Get(c) ==
  /\ command.pc = "get" /\ c \in command.candidate
  /\ command' = IF proposal[c] = "proposed" THEN [command EXCEPT !.pc = "commit"]
                ELSE IdleCommand
  /\ UNCHANGED <<proposal, overdue, engine>> /\ Returns

(* ... and the commit, whatever the row is by then, which may raise though *)
(* it took effect.                                                         *)
Commit(c) ==
  /\ command.pc = "commit" /\ c \in command.candidate
  /\ proposal' = [proposal EXCEPT ![c] = command.verdict]
  /\ command' = IdleCommand
  /\ UNCHANGED <<overdue, engine>> /\ (Returns \/ Raises)

CommandRaises ==
  /\ command # IdleCommand /\ Raises
  /\ command' = IdleCommand
  /\ UNCHANGED <<proposal, overdue, engine>>

(* GET /engine/operator-proposals.                                         *)
ApiLists ==
  /\ proposal' = Expire(proposal)
  /\ UNCHANGED <<overdue, engine, command>> /\ Returns

ProposalsRestart ==
  /\ engine' = IdleEngine /\ command' = IdleCommand
  /\ UNCHANGED <<proposal, overdue>>

ProposalStep ==
  \/ \E eligible \in SUBSET Candidates : ProcessBook(eligible)
  \/ \E c \in Candidates :
       \/ SkipExisting(c) \/ Propose(c) \/ TimePasses(c)
       \/ Get(c) \/ Commit(c)
       \/ \E verdict \in Verdicts : Decide(c, verdict)
  \/ BookRaises \/ CommandRaises \/ ApiLists

ProposalsTypeOK ==
  /\ proposal \in [Candidates -> ProposalStatus]
  /\ overdue \subseteq Candidates
  /\ engine \in [pc : {"idle", "check", "announce"}, todo : SUBSET Candidates,
                 left : Nat, tell : SUBSET Candidates]
  /\ command \in [pc : {"idle", "get", "commit"}, candidate : SUBSET Candidates,
                  verdict : Verdicts]
=============================================================================
