----------------------------- MODULE NewsOutbox -----------------------------
(***************************************************************************)
(* The Discord news outbox: the pump of a discord_publisher hands story    *)
(* revisions to DiscordNewsPublisher, which schedules a row of             *)
(* newswire_deliveries for each; the delivery loop of the same process     *)
(* leases due rows, sends them and marks them.  Rows are keyed by channel, *)
(* story and revision.  The feed is the numbers 1 .. Last here: StoryFeed  *)
(* is about how it comes to be in that order.                              *)
(***************************************************************************)
EXTENDS Naturals, FiniteSets

CONSTANTS
  Publishers,    \* discord_publisher processes
  Last,          \* the revisions of the feed are 1 .. Last
  StoryOf,       \* the story of each revision
  Removed,       \* the revisions that retract their story
  Dull,          \* the revisions that policy or staleness skips
  MaxCrashes,    \* bound: process restarts
  MaxOverruns,   \* bound: leases that end while their holder still sends
  MaxFailures    \* bound: calls that raise, or whose answer is lost

ASSUME FeedAssumption == /\ Last \in Nat /\ DOMAIN StoryOf = 1 .. Last
                         /\ Removed \subseteq 1 .. Last /\ Dull \subseteq 1 .. Last
ASSUME BoundsAssumption == /\ MaxCrashes \in Nat /\ MaxOverruns \in Nat
                           /\ MaxFailures \in Nat

Revisions == 1 .. Last
Status == {"none", "pending", "skipped", "sending", "posted", "failed"}

VARIABLES
  delivery,    \* status of the row of each revision
  old,         \* the leases older than stale_after_ms
  posts,       \* messages on Discord for each revision
  offset,      \* the consumer's offset
  backlog,     \* what _skip_reason of each publisher calls startup_backlog
  pump,        \* where the pump of each publisher stands
  loop,        \* the delivery loop of each publisher and its rows
  crashes, overruns, failures

faults == <<crashes, overruns, failures>>
vars == <<delivery, old, posts, offset, backlog, pump, loop, faults>>

IdlePump == [pc |-> "idle", revision |-> 0, skip |-> FALSE, seen |-> "none"]
IdleLoop == [pc |-> "idle", rows |-> {}, current |-> 0]

Init ==
  /\ delivery = [r \in Revisions |-> "none"] /\ old = {}
  /\ posts = [r \in Revisions |-> 0]
  /\ offset = 0
  /\ backlog = [p \in Publishers |-> {}]
  /\ pump = [p \in Publishers |-> IdlePump]
  /\ loop = [p \in Publishers |-> IdleLoop]
  /\ crashes = 0 /\ overruns = 0 /\ failures = 0

Fault == /\ failures < MaxFailures /\ failures' = failures + 1
         /\ UNCHANGED <<crashes, overruns>>

-----------------------------------------------------------------------------
(* The pump: run_once row by row, with bus.publish as the callback and     *)
(* _on_event as the one subscriber.                                        *)

PumpGoes(p, next) == pump' = [pump EXCEPT ![p] = next]

(* The offset first, the callbacks after it.                               *)
ConsiderAdvanced(p) ==
  /\ pump[p].pc = "idle" /\ offset < Last
  /\ offset' = offset + 1
  /\ LET r == offset + 1
     IN  PumpGoes(p, [IdlePump EXCEPT !.pc = IF r \in Removed THEN "ask" ELSE "get",
                                      !.revision = r,
                                      !.skip = r \in Dull \cup backlog[p]])
  /\ UNCHANGED <<delivery, old, posts, backlog, loop, faults>>

(* _skip_reason; a retraction first asks whether its story was delivered.  *)
Consider(p) ==
  /\ pump[p].pc = "idle" /\ offset < Last
  /\ LET r == offset + 1
     IN  PumpGoes(p, [IdlePump EXCEPT !.pc = IF r \in Removed THEN "ask" ELSE "get",
                                      !.revision = r,
                                      !.skip = r \in Dull \cup backlog[p]])
  /\ UNCHANGED <<delivery, old, posts, offset, backlog, loop, faults>>

(* was_newswire_story_delivered.                                           *)
Delivered(r) ==
  \E q \in Revisions : StoryOf[q] = StoryOf[r] /\ delivery[q] = "posted"

Ask(p) ==
  /\ pump[p].pc = "ask"
  /\ PumpGoes(p, [pump[p] EXCEPT !.pc = "get",
                                 !.skip = @ /\ ~Delivered(pump[p].revision)])
  /\ UNCHANGED <<delivery, old, posts, offset, backlog, loop, faults>>

(* schedule_newswire_delivery: the get ...                                 *)
GetRow(p) ==
  /\ pump[p].pc = "get"
  /\ PumpGoes(p, [pump[p] EXCEPT !.pc = "commit", !.seen = delivery[pump[p].revision]])
  /\ UNCHANGED <<delivery, old, posts, offset, backlog, loop, faults>>

(* The update of a row whatever its status.                                *)
CommitRowAnyway(p) ==
  LET r == pump[p].revision
  IN  /\ pump[p].pc = "commit"
      /\ delivery' = [delivery EXCEPT ![r] = IF pump[p].skip THEN "skipped" ELSE "pending"]
      /\ old' = old \ {r}
      /\ PumpGoes(p, [pump[p] EXCEPT !.pc = "advance"])
      /\ UNCHANGED <<posts, offset, backlog, loop, faults>>

(* ... and the commit: an insert, which loses against another one; or the  *)
(* update of a row that was pending when it was loaded, which writes the   *)
(* status only if it differs and touches updated_at_ms in any case.        *)
CommitRow(p) ==
  LET r == pump[p].revision
      scheduled == IF pump[p].skip THEN "skipped" ELSE "pending"
  IN  /\ pump[p].pc = "commit"
      /\ delivery' = [delivery EXCEPT ![r] =
            IF \/ pump[p].seen = "none" /\ @ = "none"
               \/ pump[p].seen = "pending" /\ pump[p].skip
            THEN scheduled ELSE @]
      /\ old' = IF pump[p].seen = "pending" THEN old \ {r} ELSE old
      /\ PumpGoes(p, [pump[p] EXCEPT !.pc = "advance"])
      /\ UNCHANGED <<posts, offset, backlog, loop, faults>>

(* The schedule swallows its exception, the bus that of the question.      *)
ScheduleFails(p) ==
  /\ pump[p].pc \in {"ask", "get", "commit"}
  /\ Fault
  /\ PumpGoes(p, [pump[p] EXCEPT !.pc = "advance"])
  /\ UNCHANGED <<delivery, old, posts, offset, backlog, loop>>

(* The revision taken for a distance and added to the offset.              *)
AdvanceByRevision(p) ==
  /\ pump[p].pc = "advance"
  /\ offset' = offset + pump[p].revision
  /\ PumpGoes(p, IdlePump)
  /\ UNCHANGED <<delivery, old, posts, backlog, loop, faults>>

Advance(p) ==
  /\ pump[p].pc = "advance"
  /\ offset' = pump[p].revision
  /\ PumpGoes(p, IdlePump)
  /\ UNCHANGED <<delivery, old, posts, backlog, loop, faults>>

AdvanceRaises(p) ==
  /\ pump[p].pc = "advance"
  /\ Fault
  /\ PumpGoes(p, IdlePump)
  /\ UNCHANGED <<delivery, old, posts, offset, backlog, loop>>

PumpStep(p) == Consider(p) \/ Ask(p) \/ GetRow(p) \/ CommitRow(p) \/ Advance(p)

-----------------------------------------------------------------------------
(* _dispatch_due_deliveries.                                               *)

LoopGoes(p, next) == loop' = [loop EXCEPT ![p] = next]
WithRows(rows) ==
  IF rows = {} THEN IdleLoop ELSE [pc |-> "send", rows |-> rows, current |-> 0]

(* Leased rows are claimed as well.                                        *)
DueOrLeased == {r \in Revisions : delivery[r] \in {"pending", "failed", "sending"}}

(* Without the update of old leases.                                       *)
NoneStale == {}

Stale == {r \in old : delivery[r] = "sending"}
Due == {r \in Revisions : delivery[r] \in {"pending", "failed"}}

(* claim_due_newswire_deliveries, one transaction: old leases become       *)
(* failed, and of the rows whose time has come, any of the due ones, those *)
(* that are not locked are leased.                                         *)
Claim(p, rows) ==
  /\ loop[p] = IdleLoop
  /\ rows \subseteq Due \cup Stale /\ rows \cup Stale # {}
  /\ delivery' = [r \in Revisions |->
        IF r \in rows THEN "sending" ELSE IF r \in Stale THEN "failed" ELSE delivery[r]]
  /\ old' = old \ (rows \cup Stale)
  /\ LoopGoes(p, WithRows(rows))
  /\ UNCHANGED <<posts, offset, backlog, pump, faults>>

(* Discord takes the message and answers with its id.                      *)
SendAccepted(p, r) ==
  /\ loop[p].pc = "send" /\ r \in loop[p].rows
  /\ posts' = [posts EXCEPT ![r] = @ + 1]
  /\ LoopGoes(p, [loop[p] EXCEPT !.pc = "posted", !.current = r])
  /\ UNCHANGED <<delivery, old, offset, backlog, pump, faults>>

SendRefused(p, r) ==
  /\ loop[p].pc = "send" /\ r \in loop[p].rows
  /\ LoopGoes(p, [loop[p] EXCEPT !.pc = "refused", !.current = r])
  /\ UNCHANGED <<delivery, old, posts, offset, backlog, pump, faults>>

(* Discord takes the message and the call raises.                          *)
AnswerLost(p, r) ==
  /\ loop[p].pc = "send" /\ r \in loop[p].rows
  /\ Fault
  /\ posts' = [posts EXCEPT ![r] = @ + 1]
  /\ LoopGoes(p, [loop[p] EXCEPT !.pc = "refused", !.current = r])
  /\ UNCHANGED <<delivery, old, offset, backlog, pump>>

(* The message id taken for an error.                                      *)
MarkPostedFailed(p) ==
  /\ loop[p].pc = "posted"
  /\ delivery' = [delivery EXCEPT ![loop[p].current] = "failed"]
  /\ old' = old \ {loop[p].current}
  /\ LoopGoes(p, WithRows(loop[p].rows \ {loop[p].current}))
  /\ UNCHANGED <<posts, offset, backlog, pump, faults>>

(* mark_newswire_deliveries_posted and _failed write whatever is there.    *)
MarkPosted(p) ==
  /\ loop[p].pc = "posted"
  /\ delivery' = [delivery EXCEPT ![loop[p].current] = "posted"]
  /\ old' = old \ {loop[p].current}
  /\ LoopGoes(p, WithRows(loop[p].rows \ {loop[p].current}))
  /\ UNCHANGED <<posts, offset, backlog, pump, faults>>

MarkFailed(p) ==
  /\ loop[p].pc = "refused"
  /\ delivery' = [delivery EXCEPT ![loop[p].current] = "failed"]
  /\ old' = old \ {loop[p].current}
  /\ LoopGoes(p, WithRows(loop[p].rows \ {loop[p].current}))
  /\ UNCHANGED <<posts, offset, backlog, pump, faults>>

(* The enrichment or a mark raises: _delivery_loop goes on with the next   *)
(* claim, and the rest of the rows stays leased.                           *)
DispatchRaises(p) ==
  /\ loop[p] # IdleLoop
  /\ Fault
  /\ LoopGoes(p, IdleLoop)
  /\ UNCHANGED <<delivery, old, posts, offset, backlog, pump>>

LoopStep(p) ==
  \/ \E r \in Revisions : SendAccepted(p, r) \/ SendRefused(p, r)
  \/ MarkPosted(p) \/ MarkFailed(p)

-----------------------------------------------------------------------------
(* The process restarts.  What was published long enough before the start  *)
(* is startup backlog, and stays it at later starts.                       *)
Restart(p, more) ==
  /\ crashes < MaxCrashes /\ crashes' = crashes + 1
  /\ backlog' = [backlog EXCEPT ![p] = @ \cup more]
  /\ PumpGoes(p, IdlePump) /\ LoopGoes(p, IdleLoop)
  /\ UNCHANGED <<delivery, old, posts, offset, overruns, failures>>

Leased(r) == \E p \in Publishers : r \in loop[p].rows

(* A lease nobody works on any more grows old.                             *)
Abandoned(r) ==
  /\ delivery[r] = "sending" /\ r \notin old /\ ~Leased(r)
  /\ old' = old \cup {r}
  /\ UNCHANGED <<delivery, posts, offset, backlog, pump, loop, faults>>

(* A batch so slow that a lease grows old before its row is sent.          *)
Overrun(r) ==
  /\ overruns < MaxOverruns /\ overruns' = overruns + 1
  /\ delivery[r] = "sending" /\ r \notin old /\ Leased(r)
  /\ old' = old \cup {r}
  /\ UNCHANGED <<delivery, posts, offset, backlog, pump, loop, crashes, failures>>

Next ==
  \/ \E p \in Publishers :
       \/ PumpStep(p) \/ ScheduleFails(p) \/ AdvanceRaises(p)
       \/ \E rows \in SUBSET Revisions : Claim(p, rows)
       \/ LoopStep(p)
       \/ \E r \in Revisions : AnswerLost(p, r)
       \/ DispatchRaises(p)
       \/ \E more \in SUBSET Revisions : Restart(p, more)
  \/ \E r \in Revisions : Abandoned(r) \/ Overrun(r)

Spec == Init /\ [][Next]_vars

(* Both tasks are scheduled, a due row is claimed in the end, time passes, *)
(* and Discord accepts a message it is offered again and again.            *)
Fairness ==
  /\ \A p \in Publishers : WF_vars(PumpStep(p)) /\ WF_vars(LoopStep(p))
  /\ \A r \in Revisions :
       /\ SF_vars(\E p \in Publishers, rows \in SUBSET Revisions :
                    r \in rows \cup Stale /\ Claim(p, rows))
       /\ WF_vars(Abandoned(r))
       /\ SF_vars(\E p \in Publishers : SendAccepted(p, r))

FairSpec == Spec /\ Fairness

-----------------------------------------------------------------------------
(* Types of the rows, the pumps and the loops.                             *)
TypeOK ==
  /\ delivery \in [Revisions -> Status] /\ old \subseteq Revisions
  /\ posts \in [Revisions -> Nat] /\ offset \in 0 .. Last
  /\ backlog \in [Publishers -> SUBSET Revisions]
  /\ pump \in [Publishers -> [pc : {"idle", "ask", "get", "commit", "advance"},
                              revision : 0 .. Last, skip : BOOLEAN,
                              seen : Status]]
  /\ loop \in [Publishers -> [pc : {"idle", "send", "posted", "refused"},
                              rows : SUBSET Revisions, current : 0 .. Last]]
  /\ \A p \in Publishers : pump[p].pc # "idle" => pump[p].revision # 0
  /\ crashes \in 0 .. MaxCrashes /\ overruns \in 0 .. MaxOverruns
  /\ failures \in 0 .. MaxFailures

(* Every message beyond a revision's first is the price of one restart,    *)
(* one lease that ran out or one failed call.                              *)
RepeatsAreFaults ==
  \A r \in Revisions : posts[r] <= 1 + crashes + overruns + failures

(* The offset passes a revision only with its row in the outbox, or for    *)
(* one failed call.                                                        *)
ScheduledBeforePassed ==
  Cardinality({r \in 1 .. offset : delivery[r] = "none"}) <= failures

(* While leases hold, a row is in the hands of one publisher, and it is    *)
(* neither sent nor offered to another one.                                *)
OneSender ==
  overruns = 0 =>
    \A r \in Revisions, p, q \in Publishers :
      r \in loop[p].rows /\ r \in loop[q].rows => p = q

(* Until a publisher restarts or a lease ends early, the row of a story    *)
(* that was marked posted stays so: its message is not repeated and a      *)
(* retraction finds it.  A retraction itself may be found undelivered by   *)
(* one pump and scheduled by the other, and be skipped after it was posted.*)
PostedStaysPosted ==
  [][crashes' = 0 /\ overruns' = 0 =>
       \A r \in Revisions \ Removed :
         delivery[r] = "posted" => delivery'[r] = "posted"]_vars

(* A scheduled delivery ends up posted or skipped.                         *)
EveryDeliverySettles ==
  \A r \in Revisions :
    delivery[r] \in {"pending", "sending", "failed"}
      ~> delivery[r] \in {"posted", "skipped"}
=============================================================================
