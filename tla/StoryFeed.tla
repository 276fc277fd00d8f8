----------------------------- MODULE StoryFeed -----------------------------
(***************************************************************************)
(* The canonical story feed.  The newswire worker clusters news items into *)
(* stories, numbers their revisions and appends them to the table          *)
(* newswire_story_revisions; a StoredNewswireStoryPump in another process  *)
(* hands the rows to its callbacks in the order of (emitted_at_ms,         *)
(* revision_id) and keeps its offset in the database.  Several ingest      *)
(* workers share the clusterer under _story_pipeline_lock.                 *)
(***************************************************************************)
EXTENDS Naturals, FiniteSets

CONSTANTS
  Stories,        \* story ids; numbers, so that rows have an order
  Ingesters,      \* the ingest workers of the newswire process
  NoOne,          \* holds no lock
  Invalid,        \* the stories whose rows do not validate in the pump
  Isolated,       \* the callback is bus.publish, which swallows exceptions
  Bootstrap,      \* bootstrap_from_latest of the pump
  Batch,          \* batch_size of the pump
  MaxRevision,    \* bound: revisions of a story
  MaxTime,        \* bound: timestamps
  MaxReclassify,  \* bound: runs of reclassify_stories
  MaxForgets,     \* bound: items that no longer find their story
  MaxCrashes,     \* bound: restarts of either process
  MaxFailures     \* bound: calls that raise

ASSUME StoriesAssumption == Stories \subseteq Nat \ {0} /\ Invalid \subseteq Stories
ASSUME LockAssumption == NoOne \notin Ingesters
ASSUME SettingsAssumption == /\ Isolated \in BOOLEAN /\ Bootstrap \in BOOLEAN
                             /\ Batch \in Nat \ {0}
ASSUME BoundsAssumption == /\ MaxRevision \in Nat /\ MaxTime \in Nat
                           /\ MaxReclassify \in Nat /\ MaxForgets \in Nat
                           /\ MaxCrashes \in Nat /\ MaxFailures \in Nat

Numbers == 1 .. MaxRevision
Versions == 0 .. MaxRevision      \* 0: no such story
UpdateTypes == {"created", "updated", "retracted"}
Kinds == UpdateTypes \cup {"duplicate"}

(* A row of newswire_story_revisions; its id is a hash of story, revision  *)
(* and kind, and (story, revision) is unique.                              *)
Revision == [story : Stories, revision : Numbers, kind : Kinds, at : 1 .. MaxTime]
Start == [story |-> 0, revision |-> 0, kind |-> "none", at |-> 0]    \* no offset

VARIABLES
  clock,        \* received_at_ms of the last item
  last,         \* _last_emitted_at_ms of the clusterer
  story,        \* revision number of each story in the clusterer
  unassessed,   \* the revisions in the clusterer that have no assessment
  storyRow,     \* the same in newswire_stories
  stored,       \* newswire_story_revisions, a set of rows
  ingest,       \* what each ingest worker is persisting
  lock,         \* holder of _story_pipeline_lock
  reclassify,   \* the stories that reclassify_stories has read
  offset,       \* the pump's row of consumer_offsets
  pump,         \* the pump's position and its batch
  primed,       \* bootstrapped_from_latest
  emitted,      \* history: revisions assigned whose item did not fail
  handled,      \* history: revisions a callback took
  historic,     \* history: what was stored when the latest row was read
  reclassified, forgets, crashes, failures

newswire == <<clock, last, story, unassessed, storyRow, stored, ingest, lock, reclassify,
              emitted, reclassified, forgets>>
consumer == <<offset, pump, primed, handled, historic>>
faults == <<crashes, failures>>
vars == <<newswire, consumer, faults>>

IdleIngester == [pc |-> "idle", item |-> Start]
IdlePump == [pc |-> "idle", batch |-> {}]
NotRead == [s \in {} |-> 0]

Init ==
  /\ clock = 1 /\ last = 0
  /\ story = [s \in Stories |-> 0] /\ storyRow = [s \in Stories |-> 0]
  /\ unassessed = {}
  /\ stored = {} /\ emitted = {} /\ handled = {} /\ historic = {}
  /\ ingest = [w \in Ingesters |-> IdleIngester]
  /\ lock = NoOne /\ reclassify = NotRead
  /\ offset = Start /\ pump = IdlePump /\ primed = FALSE
  /\ reclassified = 0 /\ forgets = 0 /\ crashes = 0 /\ failures = 0

Fault == failures < MaxFailures /\ failures' = failures + 1 /\ UNCHANGED crashes
Larger(m, n) == IF m > n THEN m ELSE n

(* The order of the table's cursor.  Ids are hashes: any total order.      *)
Before(a, b) ==
  \/ a.at < b.at
  \/ a.at = b.at /\ a.story < b.story
  \/ a.at = b.at /\ a.story = b.story /\ a.revision < b.revision

-----------------------------------------------------------------------------
(* Ingestion, under the pipeline lock from the clustering to the append.   *)

(* Without the strictly monotonic timestamp.                               *)
EmittedOnReceipt(now) == now

(* Ingest workers that are not serialized.                                 *)
AlwaysFree == TRUE

(* upsert of the clusterer for an item of story s received at now.  An     *)
(* item may miss its story because it is evicted or older than a day; the  *)
(* new story then gets the same id, a hash of headline and publication.    *)
EmittedAt(now) == Larger(now, last + 1)

Free == lock = NoOne

Except(stories) == {item \in unassessed : item.story \notin stories}

Upsert(w, s, kind, now, found) ==
  LET known == found /\ story[s] > 0
      item == [story |-> s, revision |-> IF known THEN story[s] + 1 ELSE 1,
               kind |-> kind, at |-> EmittedAt(now)]
  IN  /\ ingest[w] = IdleIngester /\ Free
      /\ known <=> kind # "created"
      /\ item.revision <= MaxRevision /\ item.at <= MaxTime
      /\ IF found THEN UNCHANGED forgets
                  ELSE /\ story[s] > 0 /\ forgets < MaxForgets
                       /\ forgets' = forgets + 1
      /\ lock' = w
      /\ clock' = now /\ last' = item.at
      /\ story' = [story EXCEPT ![s] = item.revision]
      /\ unassessed' = Except({s})
      /\ emitted' = emitted \cup {item}
      /\ ingest' = [ingest EXCEPT ![w] = [pc |-> "story", item |-> item]]
      /\ UNCHANGED <<storyRow, stored, reclassify, reclassified, consumer, faults>>

(* An item that repeats what the source already reported of a story.  It   *)
(* is dropped when the story has an assessment; otherwise it goes on with  *)
(* the revision of the item that failed, number and timestamp unchanged.   *)
UpsertDuplicate(w, item) ==
  /\ ingest[w] = IdleIngester /\ Free
  /\ item \in unassessed
  /\ unassessed' = unassessed \ {item}
  /\ lock' = w
  /\ emitted' = emitted \cup {item}
  /\ ingest' = [ingest EXCEPT ![w] = [pc |-> "story", item |-> item]]
  /\ UNCHANGED <<clock, last, story, storyRow, stored, reclassify, reclassified,
                 forgets, consumer, faults>>

(* The assessor or the model review raises: the item is dropped and its    *)
(* revision stays in the clusterer without an assessment.                  *)
ItemFails(w) ==
  /\ ingest[w].pc = "story"
  /\ Fault
  /\ unassessed' = unassessed \cup {[ingest[w].item EXCEPT !.kind = "duplicate"]}
  /\ emitted' = emitted \ {ingest[w].item}
  /\ ingest' = [ingest EXCEPT ![w] = IdleIngester] /\ lock' = NoOne
  /\ UNCHANGED <<clock, last, story, storyRow, stored, reclassify,
                 reclassified, forgets, consumer>>

(* _persist_story, which swallows its exceptions.                          *)
PersistStory(w) ==
  /\ ingest[w].pc = "story"
  /\ ingest' = [ingest EXCEPT ![w].pc = "revision"]
  /\ \/ /\ storyRow' = [storyRow EXCEPT ![ingest[w].item.story] = ingest[w].item.revision]
        /\ UNCHANGED faults
     \/ Fault /\ UNCHANGED storyRow
  /\ UNCHANGED <<clock, last, story, unassessed, stored, lock, reclassify,
                 emitted, reclassified, forgets, consumer>>

(* The upsert by revision_id: the row of the same id is overwritten, a row *)
(* of the same number and another kind makes the insert fail.              *)
Appended(item) ==
  LET same == {r \in stored : r.story = item.story /\ r.revision = item.revision}
  IN  IF \E r \in same : r.kind # item.kind THEN stored ELSE (stored \ same) \cup {item}

(* _persist_story_revision, which swallows too; then the lock is released. *)
PersistRevision(w) ==
  /\ ingest[w].pc = "revision"
  /\ ingest' = [ingest EXCEPT ![w] = IdleIngester] /\ lock' = NoOne
  /\ \/ stored' = Appended(ingest[w].item) /\ UNCHANGED faults
     \/ Fault /\ UNCHANGED stored
  /\ UNCHANGED <<clock, last, story, unassessed, storyRow, reclassify, emitted,
                 reclassified, forgets, consumer>>

(* Without the check that a row was found.                                 *)
ReclassifyUnfound(chosen) ==
  /\ reclassify = NotRead /\ reclassified < MaxReclassify
  /\ chosen # {}
  /\ reclassify' = [s \in chosen |-> storyRow[s]]
  /\ reclassified' = reclassified + 1
  /\ UNCHANGED <<clock, last, story, unassessed, storyRow, stored, ingest, lock,
                 emitted, forgets, consumer, faults>>

(* reclassify_stories reads the rows, awaits the watch set and puts what   *)
(* it read back under the lock.  Nothing else touches stories or their     *)
(* rows while it has the lock, so that part is one step.                   *)
ReclassifyRead(chosen) ==
  /\ reclassify = NotRead /\ reclassified < MaxReclassify
  /\ chosen # {} /\ \A s \in chosen : storyRow[s] > 0
  /\ reclassify' = [s \in chosen |-> storyRow[s]]
  /\ reclassified' = reclassified + 1
  /\ UNCHANGED <<clock, last, story, unassessed, storyRow, stored, ingest, lock,
                 emitted, forgets, consumer, faults>>

PutBack(stories) ==
  [s \in Stories |-> IF s \in DOMAIN reclassify THEN reclassify[s] ELSE stories[s]]

Reclassify ==
  /\ reclassify # NotRead /\ Free
  /\ story' = PutBack(story) /\ unassessed' = Except(DOMAIN reclassify)
  /\ \/ storyRow' = PutBack(storyRow) /\ UNCHANGED faults
     \/ Fault /\ UNCHANGED storyRow
  /\ reclassify' = NotRead
  /\ UNCHANGED <<clock, last, stored, ingest, lock, emitted, reclassified,
                 forgets, consumer>>

(* The newswire process restarts and hydrates the clusterer from the rows, *)
(* or goes on without when that raises.  A restart takes longer than the   *)
(* timestamps can have run ahead of the clock.                             *)
RestartClock == clock' = Larger(clock, last) + 1 /\ clock' <= MaxTime

(* Without _hydrate_stories.                                               *)
RestartEmpty ==
  /\ crashes < MaxCrashes
  /\ RestartClock
  /\ last' = 0
  /\ crashes' = crashes + 1 /\ UNCHANGED failures
  /\ story' = [s \in Stories |-> 0]
  /\ unassessed' = {}
  /\ ingest' = [w \in Ingesters |-> IdleIngester]
  /\ lock' = NoOne /\ reclassify' = NotRead
  /\ UNCHANGED <<storyRow, stored, emitted, reclassified, forgets, consumer>>

Restart ==
  /\ crashes < MaxCrashes
  /\ RestartClock
  /\ last' = 0
  /\ crashes' = crashes + 1
  /\ \/ story' = storyRow /\ UNCHANGED failures
     \/ /\ failures < MaxFailures /\ failures' = failures + 1
        /\ story' = [s \in Stories |-> 0]
  /\ unassessed' = {}
  /\ ingest' = [w \in Ingesters |-> IdleIngester]
  /\ lock' = NoOne /\ reclassify' = NotRead
  /\ UNCHANGED <<storyRow, stored, emitted, reclassified, forgets, consumer>>

-----------------------------------------------------------------------------
(* The pump: run_once polls, lists a batch and takes it row by row.        *)

First(rows) == CHOOSE r \in rows : \A q \in rows : r = q \/ Before(r, q)
Latest(rows) == CHOOSE r \in rows : \A q \in rows : r = q \/ Before(q, r)

(* list_newswire_story_revisions_after.                                    *)
After(row) ==
  LET later == {r \in stored : Before(row, r)}
  IN  {r \in later : Cardinality({q \in later : Before(q, r)}) < Batch}

(* get_consumer_offset and _maybe_bootstrap_from_latest.                   *)
Poll ==
  /\ pump.pc = "idle"
  /\ IF Bootstrap /\ ~primed /\ offset = Start /\ stored # {}
       THEN /\ pump' = [pc |-> "adopt", batch |-> {Latest(stored)}]
            /\ historic' = stored
            /\ UNCHANGED primed
       ELSE /\ pump' = [pc |-> "list", batch |-> {}]
            /\ primed' = (primed \/ (Bootstrap /\ offset # Start))
            /\ UNCHANGED historic
  /\ UNCHANGED <<newswire, offset, handled, faults>>

Adopt ==
  /\ pump.pc = "adopt"
  /\ offset' = First(pump.batch) /\ primed' = TRUE
  /\ pump' = IdlePump
  /\ UNCHANGED <<newswire, handled, historic, faults>>

TakeNext(rows) ==
  pump' = IF rows = {} THEN IdlePump ELSE [pc |-> "take", batch |-> rows]

List ==
  /\ pump.pc = "list"
  /\ TakeNext(After(offset))
  /\ UNCHANGED <<newswire, offset, primed, handled, historic, faults>>

Current == First(pump.batch)

(* The callbacks take the row.                                             *)
HandOver ==
  /\ pump.pc = "take" /\ Current.story \notin Invalid
  /\ handled' = handled \cup {Current}
  /\ pump' = [pump EXCEPT !.pc = "advance"]
  /\ UNCHANGED <<newswire, offset, primed, historic, faults>>

(* A callback raises: the batch is given up, unless the bus swallowed it.  *)
CallbackRaises ==
  /\ pump.pc = "take" /\ Current.story \notin Invalid
  /\ Fault
  /\ pump' = IF Isolated THEN [pump EXCEPT !.pc = "advance"] ELSE IdlePump
  /\ UNCHANGED <<newswire, offset, primed, handled, historic>>

(* The offset of the batch's end, written after its first row.             *)
AdvanceToEnd ==
  /\ \/ pump.pc = "advance"
     \/ pump.pc = "take" /\ Current.story \in Invalid
  /\ offset' = Latest(pump.batch)
  /\ TakeNext(pump.batch \ {Current})
  /\ UNCHANGED <<newswire, primed, handled, historic, faults>>

(* update_consumer_offset after a row, or _skip_invalid_row.               *)
Advance ==
  /\ \/ pump.pc = "advance"
     \/ pump.pc = "take" /\ Current.story \in Invalid
  /\ offset' = Current
  /\ TakeNext(pump.batch \ {Current})
  /\ UNCHANGED <<newswire, primed, handled, historic, faults>>

AdvanceRaises ==
  /\ pump.pc = "advance"
  /\ Fault
  /\ pump' = IdlePump
  /\ UNCHANGED <<newswire, offset, primed, handled, historic>>

(* Every other database call of run_once is outside its try: the task ends *)
(* and the process lives on without it.                                    *)
PumpDies ==
  /\ \/ pump.pc \in {"idle", "adopt", "list"}
     \/ pump.pc = "take" /\ Current.story \in Invalid
  /\ Fault
  /\ pump' = [pc |-> "dead", batch |-> {}]
  /\ UNCHANGED <<newswire, offset, primed, handled, historic>>

RestartConsumer ==
  /\ crashes < MaxCrashes /\ crashes' = crashes + 1
  /\ pump' = IdlePump /\ primed' = FALSE
  /\ UNCHANGED <<newswire, offset, handled, historic, failures>>

-----------------------------------------------------------------------------
Ingestion ==
  \/ \E w \in Ingesters :
       \/ \E s \in Stories, kind \in UpdateTypes, now \in {clock, clock + 1}, found \in BOOLEAN :
            Upsert(w, s, kind, now, found)
       \/ \E item \in unassessed : UpsertDuplicate(w, item)
       \/ ItemFails(w) \/ PersistStory(w) \/ PersistRevision(w)
  \/ \E chosen \in SUBSET Stories : ReclassifyRead(chosen)
  \/ Reclassify
  \/ Restart

PumpStep == Poll \/ Adopt \/ List \/ HandOver \/ Advance
Pumping == PumpStep \/ CallbackRaises \/ AdvanceRaises \/ PumpDies \/ RestartConsumer

Next == Ingestion \/ Pumping

Spec == Init /\ [][Next]_vars

(* The pump's task is scheduled and its calls return.                      *)
FairSpec == Spec /\ WF_vars(PumpStep)

-----------------------------------------------------------------------------
Items == Revision \cup {Start}

(* Types of the clusterer, the tables, the lock and the pump.              *)
TypeOK ==
  /\ clock \in 1 .. MaxTime + 1 /\ last \in 0 .. MaxTime
  /\ story \in [Stories -> Versions] /\ storyRow \in [Stories -> Versions]
  /\ stored \subseteq Revision /\ emitted \subseteq Revision
  /\ unassessed \subseteq Revision
  /\ ingest \in [Ingesters -> [pc : {"idle", "story", "revision"}, item : Items]]
  /\ lock \in Ingesters \cup {NoOne}
  /\ DOMAIN reclassify \subseteq Stories
  /\ \A s \in DOMAIN reclassify : reclassify[s] \in Numbers
  /\ offset \in Items
  /\ pump \in [pc : {"idle", "adopt", "list", "take", "advance", "dead"},
               batch : SUBSET Revision]
  /\ handled \subseteq Revision /\ historic \subseteq Revision
  /\ primed \in BOOLEAN
  /\ reclassified \in 0 .. MaxReclassify /\ forgets \in 0 .. MaxForgets
  /\ crashes \in 0 .. MaxCrashes /\ failures \in 0 .. MaxFailures

(* The cursor of the pump never passes a stored revision that no callback  *)
(* took, except rows that do not validate and, for a consumer that starts  *)
(* from the latest row, what was stored when it read that row.  After an   *)
(* item failed, a repetition of it may store its revision behind cursors   *)
(* that went on meanwhile; no other revision is ever stored too late.      *)
NoneSkipped ==
  \A r \in stored :
    ~Before(offset, r) =>
      \/ r \in handled
      \/ r.story \in Invalid
      \/ Bootstrap /\ r \in historic
      \/ r.kind = "duplicate" /\ failures > 0

(* No call failed, no story was forgotten and none was put back.           *)
Untroubled == failures = 0 /\ forgets = 0 /\ reclassified = 0

(* The database never refusing, a restart costs at most the one revision   *)
(* that was being persisted: every other one is in the table.  A forgotten *)
(* or put back story may be numbered from below and overwrite a row.       *)
InFlight == {ingest[w].item : w \in Ingesters}
RevisionsSurvive ==
  Untroubled => Cardinality(emitted \ (stored \cup InFlight)) <= crashes

(* A consumer never gets an older revision of a story than it already had, *)
(* also when it gets some of them again after a restart.                   *)
StoriesInOrder ==
  [][Untroubled' =>
       \A r \in handled' \ handled : \A q \in handled :
          q.story = r.story => q.revision < r.revision]_vars

(* The clusterer goes on from the highest number in the table, also after  *)
(* a restart between the commits of a story and of its revision; only a    *)
(* forgotten story, a failed call, or reclassify_stories, which puts back  *)
(* what it read before it had the lock, may take a number back.            *)
NumbersGoOn ==
  Untroubled => \A r \in stored : r.revision <= story[r.story]

(* Every stored revision reaches the callbacks in the end.                 *)
EveryRevisionHanded ==
  \A s \in Stories \ Invalid, n \in Numbers :
    (\E r \in stored : r.story = s /\ r.revision = n)
      ~> (\E r \in handled : r.story = s /\ r.revision = n)
=============================================================================
