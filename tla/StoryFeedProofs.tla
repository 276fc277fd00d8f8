-------------------------- MODULE StoryFeedProofs --------------------------
(***************************************************************************)
(* Proofs about StoryFeed, for any stories, any number of ingest workers,  *)
(* any batch size and any number of faults: the types, that numbers go on, *)
(* that no stored revision is passed over, that a story's revisions reach  *)
(* the callbacks in order and that a restart loses one revision at most.   *)
(***************************************************************************)
EXTENDS StoryFeed, FiniteSetTheorems, TLAPS

IngestState == [pc : {"idle", "story", "revision"}, item : Items]
PumpState == [pc : {"idle", "adopt", "list", "take", "advance", "dead"},
              batch : SUBSET Revision]

Working(w) == ingest[w].pc # "idle"

(* Only the holder of the lock has an item in hand, and it was numbered.   *)
LockInv ==
  \A w \in Ingesters : /\ Working(w) => lock = w /\ ingest[w].item \in emitted
                       /\ ~Working(w) => ingest[w] = IdleIngester

(* What anybody has seen of the emitted revisions.                         *)
Known == stored \cup pump.batch \cup handled \cup historic

(* The revision of an item that failed, stored by its repetition, is late. *)
OnTime(r) == r.kind # "duplicate"

(* No two revisions have a timestamp in common, not with the revision of   *)
(* an item that failed either; the next one will be later than all, and    *)
(* the one in hand is later than all that were stored, unless it is late.  *)
TimeInv ==
  /\ IsFiniteSet(emitted)
  /\ \A r, q \in emitted \cup unassessed : r.at = q.at => r = q
  /\ \A r \in emitted \cup unassessed : r.at <= last \/ r.at < clock
  /\ unassessed \cap emitted = {}
  /\ \A r \in unassessed : ~OnTime(r)
  /\ failures = 0 => unassessed = {} /\ \A r \in emitted : OnTime(r)
  /\ Known \subseteq emitted /\ offset \in emitted \cup {Start}
  /\ \A w \in Ingesters : Working(w) =>
       \A r \in Known \cup {offset} :
         /\ r.at # ingest[w].item.at
         /\ OnTime(ingest[w].item) => r.at < ingest[w].item.at

Pending == {r \in stored : OnTime(r) /\ offset.at < r.at}

(* The batch is the head of what is pending: whatever else is pending, new *)
(* rows included, is later than all of it.  What a consumer that starts    *)
(* from the latest row adopts is later than no row it did not know of.     *)
(* Late rows are no part of this.                                          *)
PumpInv ==
  /\ pump.pc \in {"idle", "list", "dead"} => pump.batch = {}
  /\ pump.pc = "adopt" =>
       /\ Bootstrap /\ offset = Start
       /\ \E x \in Revision :
            /\ pump.batch = {x}
            /\ \A r \in stored : OnTime(r) /\ r.at <= x.at => r \in historic
  /\ pump.pc \in {"take", "advance"} =>
       /\ pump.batch # {}
       /\ \A b \in pump.batch : offset.at < b.at
       /\ \A r \in Pending \ pump.batch : \A b \in pump.batch : b.at < r.at
  /\ pump.pc = "advance" /\ ~Isolated =>
       \E b \in pump.batch \cap handled : \A c \in pump.batch : b.at <= c.at

(* Nothing that was handled is later than something pending.               *)
HandledInv == \A q \in handled, r \in Pending : q.at <= r.at

(* The numbers in memory, in the rows of the stories and in the feed; the  *)
(* feed is in the order of the numbers.                                    *)
NumberInv ==
  /\ reclassify # NotRead => reclassified # 0
  /\ Untroubled =>
     /\ \A s \in Stories : storyRow[s] <= story[s]
     /\ \A r \in stored : r.revision <= storyRow[r.story]
     /\ \A r, q \in stored : r.story = q.story /\ r.at < q.at => r.revision < q.revision
     /\ handled \subseteq stored /\ pump.batch \subseteq stored
     /\ \A w \in Ingesters : Working(w) =>
          LET item == ingest[w].item
          IN  /\ item.revision = story[item.story]
              /\ \A r \in stored : r.story = item.story => r.revision < item.revision
              /\ ingest[w].pc = "revision" => item.revision <= storyRow[item.story]

-----------------------------------------------------------------------------
(* Timestamps order the revisions.                                         *)

LEMMA NatMin ==
  ASSUME NEW T \in SUBSET Nat, T # {}
  PROVE  \E m \in T : \A n \in T : m <= n
  <1>1. PICK m \in T : \A n \in T : ~(<<n, m>> \in OpToRel(<, Nat))
    BY NatLessThanWellFounded, WFMin
  <1>2. \A n \in T : ~(n < m)
    BY <1>1 DEF OpToRel
  <1> QED BY <1>2

LEMMA NatMax ==
  ASSUME NEW bound \in Nat, NEW T \in SUBSET (0 .. bound), T # {}
  PROVE  \E m \in T : \A n \in T : n <= m
  <1> DEFINE U == {u \in Nat : \E n \in T : u = bound - n}
  <1>1. U \in SUBSET Nat
    OBVIOUS
  <1>2. U # {}
    <2>1. PICK n \in T : TRUE
      OBVIOUS
    <2>2. bound - n \in Nat
      OBVIOUS
    <2> QED BY <2>2
  <1>3. PICK u \in U : \A v \in U : u <= v
    BY <1>1, <1>2, NatMin
  <1>4. PICK m \in T : u = bound - m
    OBVIOUS
  <1>5. ASSUME NEW n \in T PROVE n <= m
    <2>1. bound - n \in U
      OBVIOUS
    <2>2. u <= bound - n
      BY <1>3, <2>1
    <2> QED BY <1>4, <2>2
  <1> QED BY <1>5

Distinct(rows) == \A r, q \in rows : r.at = q.at => r = q

LEMMA RevisionTyped ==
  ASSUME NEW r \in Revision
  PROVE  /\ r.at \in Nat /\ r.at \in 0 .. MaxTime /\ r.at > 0 /\ r # Start
         /\ r.story \in Stories /\ r.revision \in Nat \ {0} /\ r.revision \in Numbers
         /\ r.story \in Nat
  <1>1. r.at \in 1 .. MaxTime /\ r.story \in Stories /\ r.revision \in 1 .. MaxRevision
    BY DEF Revision, Numbers
  <1>2. r.story \in Nat \ {0}
    BY <1>1, StoriesAssumption
  <1>3. r # Start
    BY <1>2 DEF Start
  <1> QED BY <1>1, <1>2, <1>3, BoundsAssumption DEF Numbers

LEMMA ItemTyped ==
  ASSUME NEW r \in Items
  PROVE  r.at \in Nat /\ (r = Start \/ r \in Revision) /\ Start.at = 0 /\ Start.story = 0
  BY RevisionTyped DEF Items, Start

LEMMA BeforeAt ==
  ASSUME NEW a \in Items, NEW b \in Revision, a.at = b.at => a = b
  PROVE  Before(a, b) <=> a.at < b.at
  <1>1. a.at \in Nat /\ b.at \in Nat
    BY ItemTyped, RevisionTyped
  <1>2. ~Before(b, b)
    <2>1. b.story \in Nat /\ b.revision \in Nat
      BY RevisionTyped
    <2> QED BY <1>1, <2>1 DEF Before
  <1> QED BY <1>1, <1>2 DEF Before

LEMMA FirstIs ==
  ASSUME NEW S \in SUBSET Revision, S # {}, Distinct(S)
  PROVE  First(S) \in S /\ \A q \in S : First(S).at <= q.at
  <1> DEFINE T == {t \in Nat : \E r \in S : t = r.at}
  <1>1. T \in SUBSET Nat /\ T # {}
    <2>1. PICK r \in S : TRUE
      OBVIOUS
    <2>2. r.at \in Nat
      BY RevisionTyped
    <2> QED BY <2>2
  <1>2. PICK t \in T : \A n \in T : t <= n
    BY <1>1, NatMin
  <1>3. PICK r \in S : t = r.at
    OBVIOUS
  <1>4. ASSUME NEW q \in S PROVE r.at <= q.at
    <2>1. q.at \in T
      BY RevisionTyped
    <2> QED BY <1>2, <1>3, <2>1
  <1>5. \A q \in S : r = q \/ Before(r, q)
    <2> SUFFICES ASSUME NEW q \in S, r # q PROVE Before(r, q)
      OBVIOUS
    <2>1. r.at \in Nat /\ q.at \in Nat /\ r.at # q.at
      BY RevisionTyped DEF Distinct
    <2> QED BY <1>4, <2>1 DEF Before
  <1>6. First(S) \in S /\ \A q \in S : First(S) = q \/ Before(First(S), q)
    BY <1>5 DEF First
  <1>7. ASSUME NEW q \in S PROVE First(S).at <= q.at
    <2>1. First(S).at \in Nat /\ q.at \in Nat
      BY <1>6, RevisionTyped
    <2> QED BY <1>6, <2>1 DEF Before
  <1> QED BY <1>6, <1>7

LEMMA LatestIs ==
  ASSUME NEW S \in SUBSET Revision, S # {}, Distinct(S)
  PROVE  Latest(S) \in S /\ \A q \in S : q.at <= Latest(S).at
  <1> DEFINE T == {t \in 0 .. MaxTime : \E r \in S : t = r.at}
  <1>1. T \in SUBSET (0 .. MaxTime) /\ T # {}
    <2>1. PICK r \in S : TRUE
      OBVIOUS
    <2>2. r.at \in 0 .. MaxTime
      BY RevisionTyped
    <2> QED BY <2>2
  <1>2. PICK t \in T : \A n \in T : n <= t
    BY <1>1, NatMax, BoundsAssumption
  <1>3. PICK r \in S : t = r.at
    OBVIOUS
  <1>4. ASSUME NEW q \in S PROVE q.at <= r.at
    <2>1. q.at \in T
      BY RevisionTyped
    <2> QED BY <1>2, <1>3, <2>1
  <1>5. \A q \in S : r = q \/ Before(q, r)
    <2> SUFFICES ASSUME NEW q \in S, r # q PROVE Before(q, r)
      OBVIOUS
    <2>1. r.at \in Nat /\ q.at \in Nat /\ r.at # q.at
      BY RevisionTyped DEF Distinct
    <2> QED BY <1>4, <2>1 DEF Before
  <1>6. Latest(S) \in S /\ \A q \in S : Latest(S) = q \/ Before(q, Latest(S))
    BY <1>5 DEF Latest
  <1>7. ASSUME NEW q \in S PROVE q.at <= Latest(S).at
    <2>1. Latest(S).at \in Nat /\ q.at \in Nat
      BY <1>6, RevisionTyped
    <2> QED BY <1>6, <2>1 DEF Before
  <1> QED BY <1>6, <1>7

(* The page that is listed is the head of what comes after the offset.     *)
LEMMA AfterIs ==
  ASSUME NEW row \in Items, stored \subseteq Revision, IsFiniteSet(stored), Distinct(stored),
         \A r \in stored : r.at = row.at => r = row
  PROVE  /\ After(row) \subseteq stored
         /\ \A b \in After(row) : row.at < b.at
         /\ \A r \in stored \ After(row) : row.at < r.at =>
              \A b \in After(row) : b.at < r.at
  <1> DEFINE later == {r \in stored : Before(row, r)}
  <1>1. \A r \in stored : Before(row, r) <=> row.at < r.at
    BY BeforeAt
  <1>2. After(row) = {r \in later : Cardinality({q \in later : Before(q, r)}) < Batch}
    BY DEF After
  <1>3. IsFiniteSet(later)
    BY FS_Subset
  <1>4. ASSUME NEW r \in stored \ After(row), row.at < r.at, NEW b \in After(row)
        PROVE  b.at < r.at
    <2> DEFINE A == {q \in later : Before(q, r)}
               B == {q \in later : Before(q, b)}
    <2>1. r \in later /\ b \in later /\ ~(Cardinality(A) < Batch) /\ Cardinality(B) < Batch
      BY <1>1, <1>2, <1>4
    <2>2. r.at \in Nat /\ b.at \in Nat
      BY <2>1, RevisionTyped
    <2>3. SUFFICES ASSUME r.at <= b.at PROVE FALSE
      BY <2>2
    <2>4. A \in SUBSET B
      <3> SUFFICES ASSUME NEW q \in later, Before(q, r) PROVE Before(q, b)
        OBVIOUS
      <3>1. /\ q.at \in Nat /\ q.story \in Nat /\ q.revision \in Nat
            /\ r.story \in Nat /\ b.story \in Nat /\ r.revision \in Nat /\ b.revision \in Nat
        BY <2>1, RevisionTyped
      <3>2. r.at < b.at \/ r = b
        BY <2>1, <2>2, <2>3 DEF Distinct
      <3> QED BY <2>2, <3>1, <3>2 DEF Before
    <2>5. IsFiniteSet(B)
      BY <1>3, FS_Subset
    <2> HIDE DEF A, B
    <2>6. Cardinality(A) <= Cardinality(B) /\ Cardinality(A) \in Nat /\ Cardinality(B) \in Nat
      BY <2>4, <2>5, FS_Subset, FS_CardinalityType
    <2> QED BY <2>1, <2>6, SettingsAssumption
  <1> QED BY <1>1, <1>2, <1>4

-----------------------------------------------------------------------------
(* Type correctness.                                                       *)

LEMMA IdleTyped ==
  /\ IdleIngester \in IngestState /\ IdleIngester.pc = "idle" /\ IdleIngester.item = Start
  /\ IdlePump \in PumpState /\ IdlePump.pc = "idle" /\ IdlePump.batch = {}
  BY DEF IdleIngester, IdlePump, IngestState, PumpState, Items

LEMMA InitType == Init => TypeOK
  <1> SUFFICES ASSUME Init PROVE TypeOK
    OBVIOUS
  <1>1. /\ clock \in 1 .. MaxTime + 1 /\ last \in 0 .. MaxTime
        /\ story \in [Stories -> Versions] /\ storyRow \in [Stories -> Versions]
    BY BoundsAssumption DEF Init, Versions
  <1>2. ingest \in [Ingesters -> IngestState] /\ pump \in PumpState /\ offset \in Items
    BY IdleTyped DEF Init, Items
  <1>3. DOMAIN reclassify = {}
    BY DEF Init, NotRead
  <1>4. /\ stored = {} /\ emitted = {} /\ handled = {} /\ historic = {} /\ unassessed = {}
        /\ lock = NoOne /\ primed = FALSE
        /\ reclassified = 0 /\ forgets = 0 /\ crashes = 0 /\ failures = 0
    BY DEF Init
  <1>5. /\ stored \subseteq Revision /\ emitted \subseteq Revision
        /\ unassessed \subseteq Revision
        /\ handled \subseteq Revision /\ historic \subseteq Revision
        /\ lock \in Ingesters \cup {NoOne} /\ primed \in BOOLEAN
        /\ DOMAIN reclassify \subseteq Stories
        /\ \A s \in DOMAIN reclassify : reclassify[s] \in Numbers
    BY <1>3, <1>4
  <1>6. /\ reclassified \in 0 .. MaxReclassify /\ forgets \in 0 .. MaxForgets
        /\ crashes \in 0 .. MaxCrashes /\ failures \in 0 .. MaxFailures
    BY <1>4, BoundsAssumption
  <1> QED BY <1>1, <1>2, <1>5, <1>6 DEF TypeOK, IngestState, PumpState

(* A call that raises is counted.                                          *)
LEMMA Counted ==
  ASSUME TypeOK, UNCHANGED faults \/ Fault
  PROVE  /\ failures' \in 0 .. MaxFailures /\ crashes' \in 0 .. MaxCrashes
         /\ failures' # failures => failures' # 0
  BY BoundsAssumption DEF TypeOK, Fault, faults

(* The new revision of an item.                                            *)
LEMMA UpsertTyped ==
  ASSUME TypeOK, NEW w \in Ingesters, NEW s \in Stories, NEW kind \in UpdateTypes,
         NEW now \in {clock, clock + 1}, NEW found \in BOOLEAN, Upsert(w, s, kind, now, found)
  PROVE  \E item \in Revision :
           /\ item.story = s
           /\ last < item.at /\ clock <= item.at /\ item.at = last' /\ clock' = now
           /\ found => item.revision = story[s] + 1
           /\ found => forgets' = forgets
           /\ ~found => forgets' # 0
           /\ story' = [story EXCEPT ![s] = item.revision]
           /\ unassessed' \subseteq unassessed /\ OnTime(item)
           /\ emitted' = emitted \cup {item}
           /\ ingest' = [ingest EXCEPT ![w] = [pc |-> "story", item |-> item]]
           /\ ingest[w] = IdleIngester /\ lock = NoOne /\ lock' = w
           /\ forgets' \in 0 .. MaxForgets
           /\ UNCHANGED <<storyRow, stored, reclassify, reclassified, consumer, faults>>
  <1> DEFINE known == found /\ story[s] > 0
             number == IF known THEN story[s] + 1 ELSE 1
             at == EmittedAt(now)
             item == [story |-> s, revision |-> number, kind |-> kind, at |-> at]
  <1>1. /\ ingest[w] = IdleIngester /\ lock = NoOne /\ lock' = w
        /\ item.revision <= MaxRevision /\ item.at <= MaxTime
        /\ IF found THEN UNCHANGED forgets
                    ELSE forgets < MaxForgets /\ forgets' = forgets + 1
        /\ clock' = now /\ last' = item.at
        /\ story' = [story EXCEPT ![s] = item.revision]
        /\ unassessed' = Except({s})
        /\ emitted' = emitted \cup {item}
        /\ ingest' = [ingest EXCEPT ![w] = [pc |-> "story", item |-> item]]
        /\ UNCHANGED <<storyRow, stored, reclassify, reclassified, consumer, faults>>
    BY DEF Upsert, Free
  <1>2. story[s] \in 0 .. MaxRevision /\ clock \in Nat \ {0} /\ last \in Nat
        /\ forgets \in 0 .. MaxForgets
    BY BoundsAssumption DEF TypeOK, Versions
  <1>3. at \in Nat \ {0} /\ last < at /\ clock <= at /\ at <= MaxTime
    BY <1>1, <1>2 DEF EmittedAt, Larger
  <1>4. number \in 1 .. MaxRevision /\ (found => number = story[s] + 1)
    BY <1>1, <1>2, BoundsAssumption
  <1>5. /\ forgets' \in 0 .. MaxForgets /\ (found => forgets' = forgets)
        /\ (~found => forgets' # 0)
    BY <1>1, <1>2, BoundsAssumption
  <1>6. unassessed' \subseteq unassessed
    BY <1>1 DEF Except
  <1>7. item.at = at /\ item.revision = number /\ item.story = s /\ OnTime(item)
    BY DEF OnTime, UpdateTypes
  <1> HIDE DEF at, number
  <1>8. item \in Revision
    BY <1>3, <1>4, BoundsAssumption DEF Revision, Numbers, Kinds
  <1> HIDE DEF item
  <1> QED BY <1>1, <1>3, <1>4, <1>5, <1>6, <1>7, <1>8

(* The revision of an item that failed, as its repetition will store it.   *)
LEMMA RepetitionTyped ==
  ASSUME NEW r \in Revision
  PROVE  LET late == [r EXCEPT !.kind = "duplicate"]
         IN  late \in Revision /\ late.at = r.at /\ ~OnTime(late)
  BY DEF Revision, Kinds, OnTime

(* The parts of the type of the newswire and of its consumer.              *)
NewswireTypes ==
  /\ clock \in 1 .. MaxTime + 1 /\ last \in 0 .. MaxTime
  /\ story \in [Stories -> Versions] /\ storyRow \in [Stories -> Versions]
  /\ stored \subseteq Revision /\ emitted \subseteq Revision
  /\ unassessed \subseteq Revision
  /\ ingest \in [Ingesters -> IngestState]
  /\ lock \in Ingesters \cup {NoOne}
  /\ DOMAIN reclassify \subseteq Stories
  /\ \A s \in DOMAIN reclassify : reclassify[s] \in Numbers
  /\ reclassified \in 0 .. MaxReclassify /\ forgets \in 0 .. MaxForgets

ConsumerTypes ==
  /\ offset \in Items /\ pump \in PumpState
  /\ handled \subseteq Revision /\ historic \subseteq Revision
  /\ primed \in BOOLEAN

LEMMA TypeParts ==
  /\ TypeOK => NewswireTypes /\ ConsumerTypes
  /\ NewswireTypes' /\ ConsumerTypes' /\ crashes' \in 0 .. MaxCrashes
       /\ failures' \in 0 .. MaxFailures => TypeOK'
  BY DEF TypeOK, NewswireTypes, ConsumerTypes, IngestState, PumpState

LEMMA PartsStay ==
  /\ NewswireTypes /\ UNCHANGED newswire => NewswireTypes'
  /\ ConsumerTypes /\ UNCHANGED consumer => ConsumerTypes'
  BY DEF NewswireTypes, ConsumerTypes, newswire, consumer

LEMMA FirstIn ==
  ASSUME TypeOK, TimeInv, pump.batch # {}
  PROVE  /\ Current \in pump.batch /\ Current \in Revision
         /\ \A q \in pump.batch : Current.at <= q.at
  <1>1. pump.batch \in SUBSET Revision
    BY DEF TypeOK
  <1>2. Distinct(pump.batch)
    BY DEF TimeInv, Known, Distinct
  <1> QED BY <1>1, <1>2, FirstIs DEF Current

(* What a worker has in hand.                                              *)
LEMMA InHand ==
  ASSUME TypeOK, LockInv, NEW w \in Ingesters, Working(w)
  PROVE  /\ ingest[w].item \in Revision /\ ingest[w].item \in emitted /\ lock = w
         /\ ingest[w] \in IngestState
         /\ \A v \in Ingesters : Working(v) => v = w
  BY DEF TypeOK, LockInv, IngestState

LEMMA UpsertKeepsType ==
  ASSUME TypeOK, NEW w \in Ingesters, NEW s \in Stories, NEW kind \in UpdateTypes,
         NEW now \in {clock, clock + 1}, NEW found \in BOOLEAN, Upsert(w, s, kind, now, found)
  PROVE  NewswireTypes'
  <1>1. PICK item \in Revision :
           /\ clock <= item.at /\ item.at = last' /\ clock' = now
           /\ story' = [story EXCEPT ![s] = item.revision]
           /\ emitted' = emitted \cup {item}
           /\ ingest' = [ingest EXCEPT ![w] = [pc |-> "story", item |-> item]]
           /\ unassessed' \subseteq unassessed
           /\ lock' = w /\ forgets' \in 0 .. MaxForgets
           /\ UNCHANGED <<storyRow, stored, reclassify, reclassified>>
    BY UpsertTyped
  <1>2. item.at \in 0 .. MaxTime /\ item.revision \in Versions
    BY RevisionTyped, BoundsAssumption DEF Numbers, Versions
  <1>3. clock' \in 1 .. MaxTime + 1
    BY <1>1, <1>2, BoundsAssumption DEF TypeOK
  <1>4. [pc |-> "story", item |-> item] \in IngestState
    BY DEF IngestState, Items
  <1>5. ingest' \in [Ingesters -> IngestState] /\ story' \in [Stories -> Versions]
    BY <1>1, <1>2, <1>4 DEF TypeOK, IngestState
  <1> QED BY <1>1, <1>2, <1>3, <1>5 DEF TypeOK, NewswireTypes

LEMMA RepetitionKeepsType ==
  ASSUME TypeOK, NEW w \in Ingesters, NEW item \in unassessed, UpsertDuplicate(w, item)
  PROVE  NewswireTypes'
  <1>1. item \in Revision /\ [pc |-> "story", item |-> item] \in IngestState
    BY DEF TypeOK, IngestState, Items
  <1>2. ingest' \in [Ingesters -> IngestState]
    BY <1>1 DEF UpsertDuplicate, TypeOK, IngestState
  <1> QED BY <1>1, <1>2 DEF UpsertDuplicate, TypeOK, NewswireTypes

LEMMA HandKeepsType ==
  ASSUME TypeOK, LockInv, NEW w \in Ingesters,
         ItemFails(w) \/ PersistStory(w) \/ PersistRevision(w)
  PROVE  NewswireTypes'
  <1>1. /\ Working(w) /\ lock' \in {lock, NoOne}
        /\ emitted' \subseteq emitted
        /\ UNCHANGED <<clock, last, story, reclassify, reclassified, forgets>>
    BY DEF Working, ItemFails, PersistStory, PersistRevision
  <1>2. ingest[w] \in IngestState /\ ingest[w].item \in Revision
    BY <1>1, InHand
  <1>3. [ingest[w] EXCEPT !.pc = "revision"] \in IngestState
    BY <1>2 DEF IngestState
  <1>4. ingest' = [ingest EXCEPT ![w] = IdleIngester]
          \/ ingest' = [ingest EXCEPT ![w] = [ingest[w] EXCEPT !.pc = "revision"]]
    BY <1>2 DEF ItemFails, PersistStory, PersistRevision, TypeOK
  <1>5. ingest' \in [Ingesters -> IngestState]
    BY <1>3, <1>4, IdleTyped DEF TypeOK, IngestState
  <1>6. ingest[w].item.revision \in Versions /\ ingest[w].item.story \in Stories
    BY <1>2, RevisionTyped, BoundsAssumption DEF Numbers, Versions
  <1>7. storyRow' \in [Stories -> Versions]
    BY <1>6 DEF ItemFails, PersistStory, PersistRevision, TypeOK
  <1>8. stored' \subseteq Revision
    BY <1>2 DEF ItemFails, PersistStory, PersistRevision, Appended, TypeOK
  <1>9. unassessed' \subseteq Revision
    BY <1>2, RepetitionTyped DEF ItemFails, PersistStory, PersistRevision, TypeOK
  <1> QED BY <1>1, <1>5, <1>7, <1>8, <1>9 DEF TypeOK, NewswireTypes

LEMMA ReclassifyKeepsType ==
  ASSUME TypeOK, Reclassify \/ \E chosen \in SUBSET Stories : ReclassifyRead(chosen)
  PROVE  NewswireTypes'
  <1>1. CASE Reclassify
    <2>1. \A s \in DOMAIN reclassify : reclassify[s] \in Versions
      BY BoundsAssumption DEF TypeOK, Numbers, Versions
    <2>2. PutBack(story) \in [Stories -> Versions] /\ PutBack(storyRow) \in [Stories -> Versions]
      BY <2>1 DEF TypeOK, PutBack
    <2>3. DOMAIN reclassify' = {}
      BY <1>1 DEF Reclassify, NotRead
    <2>4. /\ story' \in [Stories -> Versions] /\ storyRow' \in [Stories -> Versions]
          /\ unassessed' \subseteq unassessed
          /\ UNCHANGED <<clock, last, stored, ingest, lock, emitted, reclassified, forgets>>
      BY <1>1, <2>2 DEF Reclassify, TypeOK, Except
    <2> QED BY <2>3, <2>4, TypeParts DEF NewswireTypes
  <1>2. ASSUME NEW chosen \in SUBSET Stories, ReclassifyRead(chosen)
        PROVE  NewswireTypes'
    <2>1. \A s \in chosen : storyRow[s] \in Numbers
      BY <1>2, BoundsAssumption DEF ReclassifyRead, TypeOK, Versions, Numbers
    <2>2. DOMAIN reclassify' = chosen /\ \A s \in chosen : reclassify'[s] \in Numbers
      BY <1>2, <2>1 DEF ReclassifyRead
    <2>3. reclassified' \in 0 .. MaxReclassify
      BY <1>2, BoundsAssumption DEF ReclassifyRead, TypeOK
    <2>4. UNCHANGED <<clock, last, story, unassessed, storyRow, stored, ingest, lock,
                      emitted, forgets>>
      BY <1>2 DEF ReclassifyRead
    <2> QED BY <2>2, <2>3, <2>4, TypeParts DEF NewswireTypes
  <1> QED BY <1>1, <1>2

LEMMA RestartKeepsType ==
  ASSUME TypeOK, Restart
  PROVE  NewswireTypes' /\ crashes' \in 0 .. MaxCrashes /\ failures' \in 0 .. MaxFailures
  <1>1. clock' \in 1 .. MaxTime + 1 /\ last' = 0
    BY BoundsAssumption DEF TypeOK, Restart, RestartClock, Larger
  <1>2. story' \in [Stories -> Versions]
    BY BoundsAssumption DEF TypeOK, Restart, Versions
  <1>3. ingest' \in [Ingesters -> IngestState] /\ lock' = NoOne
    BY IdleTyped DEF Restart
  <1>4. DOMAIN reclassify' = {}
    BY DEF Restart, NotRead
  <1>5. crashes' \in 0 .. MaxCrashes /\ failures' \in 0 .. MaxFailures
    BY BoundsAssumption DEF TypeOK, Restart
  <1> QED BY <1>1, <1>2, <1>3, <1>4, <1>5, BoundsAssumption
          DEF TypeOK, NewswireTypes, Restart

(* What ingestion leaves alone.                                            *)
LEMMA IngestionLeaves ==
  ASSUME Ingestion
  PROVE  UNCHANGED consumer /\ (Restart \/ UNCHANGED faults \/ Fault)
  <1>1. ASSUME NEW w \in Ingesters, NEW s \in Stories, NEW kind \in UpdateTypes,
               NEW now \in {clock, clock + 1}, NEW found \in BOOLEAN,
               Upsert(w, s, kind, now, found)
        PROVE  UNCHANGED <<consumer, faults>>
    BY <1>1 DEF Upsert
  <1>2. ASSUME NEW w \in Ingesters, NEW item \in unassessed, UpsertDuplicate(w, item)
        PROVE  UNCHANGED <<consumer, faults>>
    BY <1>2 DEF UpsertDuplicate
  <1>3. ASSUME NEW w \in Ingesters, ItemFails(w) \/ PersistStory(w) \/ PersistRevision(w)
        PROVE  UNCHANGED consumer /\ (UNCHANGED faults \/ Fault)
    BY <1>3 DEF ItemFails, PersistStory, PersistRevision
  <1>4. ASSUME Reclassify \/ \E chosen \in SUBSET Stories : ReclassifyRead(chosen)
        PROVE  UNCHANGED consumer /\ (UNCHANGED faults \/ Fault)
    BY <1>4 DEF Reclassify, ReclassifyRead
  <1>5. Restart => UNCHANGED consumer
    BY DEF Restart
  <1> QED BY <1>1, <1>2, <1>3, <1>4, <1>5 DEF Ingestion

LEMMA IngestionCounts ==
  ASSUME TypeOK, Ingestion
  PROVE  failures' = 0 => failures = 0
  <1>1. failures \in Nat
    BY BoundsAssumption DEF TypeOK
  <1>2. UNCHANGED faults \/ Fault \/ Restart
    BY IngestionLeaves
  <1> QED BY <1>1, <1>2 DEF Fault, faults, Restart

LEMMA IngestionTyped ==
  ASSUME TypeOK, LockInv, Ingestion
  PROVE  TypeOK'
  <1>1. ConsumerTypes' /\ (Restart \/ UNCHANGED faults \/ Fault)
    BY IngestionLeaves, TypeParts, PartsStay
  <1>2. NewswireTypes'
    BY UpsertKeepsType, RepetitionKeepsType, HandKeepsType, ReclassifyKeepsType, RestartKeepsType DEF Ingestion
  <1> QED BY <1>1, <1>2, RestartKeepsType, Counted, TypeParts

LEMMA PumpingTyped ==
  ASSUME TypeOK, TimeInv, PumpInv, Pumping
  PROVE  TypeOK'
  <1>1. NewswireTypes'
    BY TypeParts, PartsStay
       DEF Pumping, PumpStep, Poll, Adopt, List, HandOver, Advance, CallbackRaises,
           AdvanceRaises, PumpDies, RestartConsumer
  <1>2. crashes' \in 0 .. MaxCrashes /\ failures' \in 0 .. MaxFailures
    <2>1. CASE RestartConsumer
      BY <2>1, BoundsAssumption DEF RestartConsumer, TypeOK
    <2>2. CASE ~RestartConsumer
      <3>1. UNCHANGED faults \/ Fault
        BY <2>2 DEF Pumping, PumpStep, Poll, Adopt, List, HandOver, Advance, CallbackRaises,
                    AdvanceRaises, PumpDies
      <3> QED BY <3>1, Counted
    <2> QED BY <2>1, <2>2
  <1>3. pump \in PumpState /\ pump.batch \in SUBSET Revision
    BY DEF TypeOK, PumpState
  <1>4. ASSUME pump.pc \in {"adopt", "take", "advance"}
        PROVE  /\ Current \in pump.batch /\ Current \in Revision
    BY <1>4, FirstIn DEF PumpInv
  <1>5. CASE Poll
    <2>1. Distinct(stored) /\ stored \in SUBSET Revision
      BY DEF TimeInv, Known, Distinct, TypeOK
    <2>2. stored # {} => Latest(stored) \in Revision
      BY <2>1, LatestIs
    <2>3. pump' \in PumpState
      BY <1>5, <2>2 DEF Poll, PumpState
    <2> QED BY <1>1, <1>2, <1>5, <2>3, TypeParts DEF Poll, ConsumerTypes, TypeOK
  <1>6. CASE Adopt
    <2>1. First(pump.batch) \in Items
      BY <1>4, <1>6 DEF Adopt, Current, Items
    <2> QED BY <1>1, <1>2, <1>6, <2>1, IdleTyped, TypeParts DEF Adopt, ConsumerTypes, TypeOK
  <1>7. ASSUME NEW rows \in SUBSET Revision, TakeNext(rows)
        PROVE  pump' \in PumpState
    BY <1>7, IdleTyped DEF TakeNext, PumpState
  <1>8. CASE List
    <2>1. After(offset) \in SUBSET Revision
      BY DEF After, TypeOK
    <2> QED BY <1>1, <1>2, <1>7, <1>8, <2>1, TypeParts DEF List, ConsumerTypes, TypeOK
  <1>9. ASSUME UNCHANGED <<offset, primed, historic>>, handled' \subseteq Revision,
               pump' \in PumpState
        PROVE  TypeOK'
    BY <1>1, <1>2, <1>9, TypeParts DEF ConsumerTypes, TypeOK
  <1>10. [pump EXCEPT !.pc = "advance"] \in PumpState /\ [pc |-> "dead", batch |-> {}] \in PumpState
    BY <1>3 DEF PumpState
  <1>11. CASE HandOver
    BY <1>4, <1>9, <1>10, <1>11 DEF HandOver, TypeOK
  <1>12. CASE CallbackRaises \/ AdvanceRaises \/ PumpDies
    <2>1. UNCHANGED <<offset, primed, historic, handled>> /\ pump' \in PumpState
      BY <1>10, <1>12, IdleTyped DEF CallbackRaises, AdvanceRaises, PumpDies
    <2> QED BY <1>9, <2>1 DEF TypeOK
  <1>13. CASE Advance
    <2>1. offset' \in Items
      BY <1>4, <1>13 DEF Advance, Items
    <2>2. pump' \in PumpState
      BY <1>3, <1>7, <1>13 DEF Advance
    <2> QED BY <1>1, <1>2, <1>13, <2>1, <2>2, TypeParts DEF Advance, ConsumerTypes, TypeOK
  <1>14. CASE RestartConsumer
    BY <1>1, <1>2, <1>14, IdleTyped, TypeParts DEF RestartConsumer, ConsumerTypes, TypeOK
  <1> QED BY <1>5, <1>6, <1>8, <1>11, <1>12, <1>13, <1>14 DEF Pumping, PumpStep

-----------------------------------------------------------------------------
(* The lock and the timestamps.                                            *)

(* What a step of ingestion may be, for those who only look at timestamps. *)
NumbersItem(w, item) ==
  /\ item \in Revision
  /\ last < item.at /\ clock <= item.at /\ last' = item.at
  /\ OnTime(item) /\ unassessed' \subseteq unassessed
  /\ emitted' = emitted \cup {item}
  /\ ingest[w] = IdleIngester /\ lock = NoOne /\ lock' = w
  /\ ingest' = [ingest EXCEPT ![w] = [pc |-> "story", item |-> item]]
  /\ UNCHANGED <<stored, failures>>

Repeats(w, item) ==
  /\ item \in unassessed /\ unassessed' = unassessed \ {item}
  /\ emitted' = emitted \cup {item}
  /\ ingest[w] = IdleIngester /\ lock = NoOne /\ lock' = w
  /\ ingest' = [ingest EXCEPT ![w] = [pc |-> "story", item |-> item]]
  /\ UNCHANGED <<clock, last, stored, failures>>

Fails(w) ==
  /\ Working(w) /\ failures' # 0
  /\ unassessed' = unassessed \cup {[ingest[w].item EXCEPT !.kind = "duplicate"]}
  /\ emitted' = emitted \ {ingest[w].item}
  /\ ingest' = [ingest EXCEPT ![w] = IdleIngester] /\ lock' = NoOne
  /\ UNCHANGED <<clock, last, stored>>

Handles(w) ==
  /\ Working(w) /\ UNCHANGED <<clock, last, unassessed, emitted>>
  /\ failures' = 0 => failures = 0
  /\ stored' \subseteq stored \cup {ingest[w].item}
  /\ \/ ingest' = [ingest EXCEPT ![w] = IdleIngester] /\ lock' = NoOne
     \/ ingest' = [ingest EXCEPT ![w].pc = "revision"] /\ UNCHANGED <<lock, stored>>

Restarts ==
  /\ clock' = Larger(clock, last) + 1 /\ last' = 0
  /\ ingest' = [w \in Ingesters |-> IdleIngester]
  /\ unassessed' = {} /\ (failures' = 0 => failures = 0)
  /\ UNCHANGED <<stored, emitted>>

Rests ==
  /\ unassessed' \subseteq unassessed /\ (failures' = 0 => failures = 0)
  /\ UNCHANGED <<clock, last, ingest, lock, emitted, stored>>

LEMMA IngestionCases ==
  ASSUME TypeOK, Ingestion
  PROVE  /\ UNCHANGED consumer
         /\ \/ \E w \in Ingesters :
                 (\E item : NumbersItem(w, item) \/ Repeats(w, item)) \/ Fails(w) \/ Handles(w)
            \/ Restarts \/ Rests
  <1>0. failures \in Nat /\ ((UNCHANGED faults \/ Fault) => (failures' = 0 => failures = 0))
    BY BoundsAssumption DEF TypeOK, Fault, faults
  <1>1. UNCHANGED consumer
    BY IngestionLeaves
  <1>2. ASSUME NEW w \in Ingesters, NEW s \in Stories, NEW kind \in UpdateTypes,
               NEW now \in {clock, clock + 1}, NEW found \in BOOLEAN,
               Upsert(w, s, kind, now, found)
        PROVE  \E item : NumbersItem(w, item)
    BY <1>2, UpsertTyped DEF NumbersItem, faults
  <1>3. ASSUME NEW w \in Ingesters, PersistStory(w) \/ PersistRevision(w)
        PROVE  Handles(w)
    <2>1. UNCHANGED faults \/ Fault
      BY <1>3 DEF PersistStory, PersistRevision
    <2> QED BY <1>0, <1>3, <2>1 DEF Handles, Working, PersistStory, PersistRevision, Appended
  <1>4. ASSUME NEW w \in Ingesters, ItemFails(w) PROVE Fails(w)
    BY <1>0, <1>4 DEF Fails, Working, ItemFails, Fault
  <1>5. ASSUME NEW w \in Ingesters, NEW item \in unassessed, UpsertDuplicate(w, item)
        PROVE  Repeats(w, item)
    BY <1>5 DEF Repeats, UpsertDuplicate, Free, faults
  <1>6. Restart => Restarts
    BY <1>0 DEF Restart, Restarts, RestartClock
  <1>7. Reclassify \/ (\E chosen \in SUBSET Stories : ReclassifyRead(chosen)) => Rests
    <2>1. ASSUME Reclassify \/ (\E chosen \in SUBSET Stories : ReclassifyRead(chosen))
          PROVE  UNCHANGED faults \/ Fault
      BY <2>1 DEF Reclassify, ReclassifyRead
    <2> QED BY <1>0, <2>1 DEF Reclassify, ReclassifyRead, Rests, Except
  <1> QED BY <1>1, <1>2, <1>3, <1>4, <1>5, <1>6, <1>7 DEF Ingestion

LEMMA LockKeeps ==
  ASSUME TypeOK, LockInv, Ingestion \/ UNCHANGED newswire
  PROVE  LockInv'
  <1>0. ingest \in [Ingesters -> IngestState]
    BY DEF TypeOK, IngestState
  <1>1. ASSUME NEW w \in Ingesters, NEW item, NumbersItem(w, item) \/ Repeats(w, item)
        PROVE  LockInv'
    <2>1. \A v \in Ingesters : ~Working(v)
      BY <1>1, LockAssumption DEF LockInv, NumbersItem, Repeats
    <2>2. \A v \in Ingesters :
            ingest'[v] = IF v = w THEN [pc |-> "story", item |-> item] ELSE IdleIngester
      BY <1>0, <1>1, <2>1 DEF LockInv, NumbersItem, Repeats
    <2>3. \A v \in Ingesters : Working(v)' <=> v = w
      BY <2>2, IdleTyped DEF Working
    <2> QED BY <1>1, <2>2, <2>3 DEF LockInv, NumbersItem, Repeats
  <1>2. ASSUME NEW w \in Ingesters, Handles(w) \/ Fails(w) PROVE LockInv'
    <2>1. \A v \in Ingesters : Working(v) <=> v = w
      BY <1>2, InHand DEF Handles, Fails
    <2>2. CASE ingest' = [ingest EXCEPT ![w] = IdleIngester]
      <3>1. \A v \in Ingesters : ingest'[v] = IdleIngester /\ ~Working(v)'
        BY <1>0, <2>1, <2>2, IdleTyped DEF LockInv, Working
      <3> QED BY <3>1 DEF LockInv
    <2>3. CASE Handles(w) /\ ingest' = [ingest EXCEPT ![w].pc = "revision"] /\ UNCHANGED lock
      <3>1. \A v \in Ingesters : v # w => ingest'[v] = ingest[v]
        BY <1>0, <2>3
      <3>2. ingest'[w].pc = "revision" /\ ingest'[w].item = ingest[w].item
        BY <1>0, <2>3 DEF IngestState
      <3>3. \A v \in Ingesters : Working(v)' <=> v = w
        BY <2>1, <3>1, <3>2 DEF Working
      <3>4. UNCHANGED emitted
        BY <2>3 DEF Handles
      <3> QED BY <2>1, <2>3, <3>1, <3>2, <3>3, <3>4 DEF LockInv
    <2> QED BY <1>2, <2>2, <2>3 DEF Handles, Fails
  <1>3. CASE Restarts
    <2>1. \A v \in Ingesters : ingest'[v] = IdleIngester /\ ~Working(v)'
      BY <1>3, IdleTyped DEF Restarts, Working
    <2> QED BY <2>1 DEF LockInv
  <1>4. CASE Rests \/ UNCHANGED newswire
    BY <1>4 DEF Rests, newswire, LockInv, Working
  <1> QED BY <1>1, <1>2, <1>3, <1>4, IngestionCases

(* A new revision is later than every one before.                          *)
LEMMA NewIsLater ==
  ASSUME TypeOK, TimeInv, NEW w \in Ingesters, NEW item, NumbersItem(w, item)
  PROVE  /\ \A r \in emitted \cup unassessed : r.at < item.at
         /\ offset.at < item.at
         /\ Known \cup {offset} \subseteq emitted \cup {Start}
         /\ \A r \in Known \cup {offset} : r.at < item.at
  <1>1. item.at \in Nat \ {0} /\ last \in Nat /\ clock \in Nat
    BY RevisionTyped, BoundsAssumption DEF NumbersItem, TypeOK
  <1>2. ASSUME NEW r \in emitted \cup unassessed PROVE r.at < item.at
    <2>1. r.at \in Nat /\ (r.at <= last \/ r.at < clock)
      BY RevisionTyped DEF TypeOK, TimeInv
    <2> QED BY <1>1, <2>1 DEF NumbersItem
  <1>3. Start.at < item.at
    BY <1>1 DEF Start
  <1> QED BY <1>2, <1>3 DEF TimeInv

LEMMA TimeKeepsIngesting ==
  ASSUME TypeOK, LockInv, TimeInv, Ingestion
  PROVE  TimeInv'
  <1>0. /\ ingest \in [Ingesters -> IngestState] /\ UNCHANGED consumer
        /\ UNCHANGED <<pump, handled, historic, offset>>
    BY IngestionCases DEF TypeOK, IngestState, consumer
  <1>1. /\ \A r \in emitted \cup unassessed : r.at \in Nat /\ r \in Revision
        /\ last \in Nat /\ clock \in Nat
    BY RevisionTyped, BoundsAssumption DEF TypeOK
  <1>2. ASSUME NEW w \in Ingesters, NEW item, NumbersItem(w, item) \/ Repeats(w, item)
        PROVE  \A v \in Ingesters : Working(v)' => ingest'[v].item = item
    <2>1. \A v \in Ingesters : ingest[v] = IdleIngester
      BY <1>2, LockAssumption DEF LockInv, NumbersItem, Repeats, Working
    <2> QED BY <1>0, <1>2, <2>1, IdleTyped DEF NumbersItem, Repeats, Working
  <1>3. ASSUME NEW w \in Ingesters, NEW item, NumbersItem(w, item) PROVE TimeInv'
    <2>1. /\ \A r \in emitted \cup unassessed : r.at < item.at
          /\ \A r \in Known \cup {offset} : r.at < item.at
      BY <1>3, NewIsLater
    <2>2. Known' = Known /\ UNCHANGED offset
      BY <1>0, <1>3 DEF Known, NumbersItem
    <2>3. IsFiniteSet(emitted')
      BY <1>3, FS_AddElement DEF TimeInv, NumbersItem
    <2>4. /\ item.at \in Nat /\ item.at = last' /\ OnTime(item)
          /\ emitted' = emitted \cup {item} /\ unassessed' \subseteq unassessed
          /\ failures' = failures
      BY <1>3, RevisionTyped DEF NumbersItem
    <2>5. \A r, q \in emitted' \cup unassessed' : r.at = q.at => r = q
      BY <1>1, <2>1, <2>4 DEF TimeInv
    <2>6. \A r \in emitted' \cup unassessed' : r.at <= last'
      BY <1>1, <2>1, <2>4
    <2>7. unassessed' \cap emitted' = {} /\ \A r \in unassessed' : ~OnTime(r)
      BY <2>4 DEF TimeInv
    <2>8. failures' = 0 => unassessed' = {} /\ \A r \in emitted' : OnTime(r)
      BY <2>4 DEF TimeInv
    <2>9. Known' \subseteq emitted' /\ offset' \in emitted' \cup {Start}
      BY <2>2, <2>4 DEF TimeInv
    <2>10. ASSUME NEW v \in Ingesters, Working(v)', NEW r \in Known' \cup {offset'}
           PROVE  r.at # ingest'[v].item.at /\ r.at < ingest'[v].item.at
      <3>1. r.at < item.at /\ r.at \in Nat
        <4>1. Start.at \in Nat
          BY DEF Start
        <4> QED BY <1>1, <2>1, <2>2, <4>1 DEF TimeInv
      <3> QED BY <1>2, <1>3, <2>4, <2>10, <3>1
    <2> QED BY <2>3, <2>5, <2>6, <2>7, <2>8, <2>9, <2>10 DEF TimeInv
  <1>4. ASSUME NEW w \in Ingesters, NEW item, Repeats(w, item) PROVE TimeInv'
    <2>1. /\ item \in unassessed /\ ~OnTime(item) /\ failures # 0 /\ item \notin emitted
          /\ emitted' = emitted \cup {item} /\ unassessed' = unassessed \ {item}
          /\ UNCHANGED <<last, clock, failures>>
      BY <1>4 DEF TimeInv, Repeats
    <2>2. Known' = Known /\ UNCHANGED offset
      BY <1>0, <1>4 DEF Known, Repeats
    <2>3. IsFiniteSet(emitted')
      BY <2>1, FS_AddElement DEF TimeInv
    <2>4. emitted' \cup unassessed' = emitted \cup unassessed
      BY <2>1
    <2>5. /\ \A r, q \in emitted' \cup unassessed' : r.at = q.at => r = q
          /\ \A r \in emitted' \cup unassessed' : r.at <= last' \/ r.at < clock'
      BY <2>1, <2>4 DEF TimeInv
    <2>6. unassessed' \cap emitted' = {} /\ \A r \in unassessed' : ~OnTime(r)
      BY <2>1 DEF TimeInv
    <2>7. Known' \subseteq emitted' /\ offset' \in emitted' \cup {Start}
      BY <2>1, <2>2 DEF TimeInv
    <2>8. \A r \in Known' \cup {offset'} : r.at # item.at
      <3>1. item.at > 0 /\ Start.at = 0
        BY <1>1, <2>1, RevisionTyped DEF Start
      <3>2. \A r \in emitted : r.at # item.at
        BY <2>1 DEF TimeInv
      <3> QED BY <2>2, <3>1, <3>2 DEF TimeInv
    <2>9. \A v \in Ingesters : Working(v)' => ingest'[v].item = item
      BY <1>2, <1>4
    <2> QED BY <2>1, <2>3, <2>5, <2>6, <2>7, <2>8, <2>9 DEF TimeInv
  <1>5. ASSUME NEW w \in Ingesters, Fails(w) PROVE TimeInv'
    <2> DEFINE item == ingest[w].item
               late == [item EXCEPT !.kind = "duplicate"]
    <2>1. /\ item \in Revision /\ item \in emitted /\ \A v \in Ingesters : Working(v) => v = w
          /\ Working(w)
      BY <1>5, InHand DEF Fails
    <2>2. late \in Revision /\ late.at = item.at /\ ~OnTime(late)
      BY <2>1, RepetitionTyped
    <2>3. /\ unassessed' = unassessed \cup {late} /\ emitted' = emitted \ {item}
          /\ failures' # 0 /\ UNCHANGED <<last, clock>>
      BY <1>5 DEF Fails
    <2>4. Known' = Known /\ UNCHANGED offset
      BY <1>0, <1>5 DEF Known, Fails
    <2>5. \A v \in Ingesters : ~Working(v)'
      BY <1>0, <1>5, <2>1, IdleTyped DEF Fails, Working
    <2>6. IsFiniteSet(emitted')
      BY <2>3, FS_Subset DEF TimeInv
    <2> HIDE DEF late, item
    <2>7. \A r \in emitted' \cup unassessed : r.at # late.at
      BY <2>1, <2>2, <2>3 DEF TimeInv
    <2>8. \A r, q \in emitted' \cup unassessed' : r.at = q.at => r = q
      BY <2>3, <2>7 DEF TimeInv
    <2>9. \A r \in emitted' \cup unassessed' : r.at <= last' \/ r.at < clock'
      BY <2>1, <2>2, <2>3 DEF TimeInv
    <2>10. unassessed' \cap emitted' = {} /\ \A r \in unassessed' : ~OnTime(r)
      BY <2>2, <2>3, <2>7 DEF TimeInv
    <2>11. Known' \subseteq emitted' /\ offset' \in emitted' \cup {Start}
      <3>1. \A r \in Known \cup {offset} : r # item
        BY <2>1 DEF TimeInv, item
      <3> QED BY <2>3, <2>4, <3>1 DEF TimeInv
    <2> QED BY <2>3, <2>5, <2>6, <2>8, <2>9, <2>10, <2>11 DEF TimeInv
  <1>6. ASSUME NEW w \in Ingesters, Handles(w) PROVE TimeInv'
    <2>1. /\ ingest[w].item \in emitted /\ \A v \in Ingesters : Working(v) => v = w
      BY <1>6, InHand DEF Handles
    <2>2. Known' \subseteq Known \cup {ingest[w].item}
      BY <1>0, <1>6 DEF Known, Handles
    <2>3. UNCHANGED <<emitted, unassessed, last, clock>> /\ (failures' = 0 => failures = 0)
      BY <1>6 DEF Handles
    <2>4. \A v \in Ingesters : Working(v)' => /\ v = w /\ ingest'[v].item = ingest[v].item
                                              /\ Known' = Known
      BY <1>0, <1>6, <2>1, IdleTyped DEF Handles, Working, Known, IngestState
    <2>5. Known' \subseteq emitted' /\ offset' \in emitted' \cup {Start}
      BY <1>0, <2>1, <2>2, <2>3 DEF TimeInv
    <2>6. \A v \in Ingesters : Working(v)' =>
            \A r \in Known' \cup {offset'} :
              /\ r.at # ingest'[v].item.at
              /\ OnTime(ingest'[v].item) => r.at < ingest'[v].item.at
      BY <1>0, <1>6, <2>4 DEF TimeInv, Handles
    <2> QED BY <2>3, <2>5, <2>6 DEF TimeInv
  <1>7. CASE Restarts
    <2>1. \A v \in Ingesters : ~Working(v)'
      BY <1>7, IdleTyped DEF Restarts, Working
    <2>2. /\ Known' = Known /\ UNCHANGED <<offset, emitted>> /\ unassessed' = {}
          /\ failures' = 0 => failures = 0
      BY <1>0, <1>7 DEF Known, Restarts
    <2>3. \A r \in emitted' : r.at < clock'
      <3> SUFFICES ASSUME NEW r \in emitted PROVE r.at < clock'
        BY <2>2
      <3> QED BY <1>1, <1>7 DEF TimeInv, Restarts, Larger
    <2> QED BY <2>1, <2>2, <2>3 DEF TimeInv
  <1>8. CASE Rests
    <2>1. /\ Known' = Known /\ UNCHANGED <<offset, emitted, last, clock, ingest>>
          /\ unassessed' \subseteq unassessed /\ (failures' = 0 => failures = 0)
      BY <1>0, <1>8 DEF Known, Rests
    <2> QED BY <2>1 DEF TimeInv, Working
  <1> QED BY <1>3, <1>4, <1>5, <1>6, <1>7, <1>8, IngestionCases

(* The pump learns of no revision that is not known.                       *)
LEMMA PumpingKnows ==
  ASSUME TypeOK, TimeInv, PumpInv, Pumping
  PROVE  Known' \subseteq Known /\ offset' \in Known \cup {offset} /\ UNCHANGED newswire
  <1>1. ASSUME pump.pc \in {"adopt", "take", "advance"} PROVE Current \in pump.batch
    BY <1>1, FirstIn DEF PumpInv
  <1>2. UNCHANGED newswire /\ UNCHANGED stored
    BY DEF Pumping, PumpStep, Poll, Adopt, List, HandOver, Advance, CallbackRaises,
           AdvanceRaises, PumpDies, RestartConsumer, newswire
  <1>3. stored # {} => Latest(stored) \in stored
    <2>1. Distinct(stored) /\ stored \in SUBSET Revision
      BY DEF TimeInv, Known, Distinct, TypeOK
    <2> QED BY <2>1, LatestIs
  <1>4. pump \in PumpState
    BY DEF TypeOK, PumpState
  <1>5. CASE Poll
    BY <1>2, <1>3, <1>5 DEF Poll, Known
  <1>6. CASE Adopt
    BY <1>1, <1>2, <1>6, IdleTyped DEF Adopt, Known, Current
  <1>7. CASE List
    <2>1. After(offset) \subseteq stored
      BY DEF After
    <2> QED BY <1>2, <1>7, <2>1, IdleTyped DEF List, TakeNext, Known
  <1>8. CASE HandOver
    BY <1>1, <1>2, <1>4, <1>8 DEF HandOver, Known, PumpState
  <1>9. CASE Advance
    BY <1>1, <1>2, <1>9, IdleTyped DEF Advance, TakeNext, Known
  <1>10. CASE CallbackRaises \/ AdvanceRaises \/ PumpDies \/ RestartConsumer
    <2>1. pump'.batch \subseteq pump.batch
      BY <1>4, <1>10, IdleTyped
         DEF CallbackRaises, AdvanceRaises, PumpDies, RestartConsumer, PumpState
    <2>2. UNCHANGED <<offset, handled, historic>>
      BY <1>10 DEF CallbackRaises, AdvanceRaises, PumpDies, RestartConsumer
    <2> QED BY <1>2, <2>1, <2>2 DEF Known
  <1> QED BY <1>2, <1>5, <1>6, <1>7, <1>8, <1>9, <1>10 DEF Pumping, PumpStep

LEMMA PumpingCounts ==
  ASSUME TypeOK, Pumping
  PROVE  failures' = 0 => failures = 0
  <1>1. UNCHANGED failures \/ Fault
    BY DEF Pumping, PumpStep, Poll, Adopt, List, HandOver, Advance, CallbackRaises,
           AdvanceRaises, PumpDies, RestartConsumer, faults
  <1> QED BY <1>1, BoundsAssumption DEF Fault, TypeOK

LEMMA TimeKeepsPumping ==
  ASSUME TypeOK, TimeInv, PumpInv, Pumping
  PROVE  TimeInv'
  <1>1. /\ Known' \subseteq Known /\ offset' \in Known \cup {offset}
        /\ failures' = 0 => failures = 0
        /\ UNCHANGED <<emitted, unassessed, last, clock, ingest>>
    BY PumpingKnows, PumpingCounts DEF newswire
  <1> QED BY <1>1 DEF TimeInv, Working

-----------------------------------------------------------------------------
(* The batch.                                                              *)

(* A row that ingestion stores is later than whatever the pump knows, or   *)
(* it belongs to an item that failed.                                      *)
LEMMA NewRows ==
  ASSUME TypeOK, LockInv, TimeInv, Ingestion
  PROVE  /\ UNCHANGED consumer
         /\ \A r \in stored' \ stored :
              OnTime(r) => \A q \in Known \cup {offset} : q.at < r.at
  <1>1. ASSUME NEW w \in Ingesters, Handles(w)
        PROVE  \A r \in stored' \ stored :
                 OnTime(r) => \A q \in Known \cup {offset} : q.at < r.at
    BY <1>1 DEF Handles, TimeInv
  <1>2. \A w \in Ingesters : \A item : NumbersItem(w, item) \/ Repeats(w, item) \/ Fails(w)
                                 => stored' = stored
    BY DEF NumbersItem, Repeats, Fails
  <1>3. Restarts \/ Rests => stored' = stored
    BY DEF Restarts, Rests
  <1> QED BY <1>1, <1>2, <1>3, IngestionCases

LEMMA PumpKeepsIngesting ==
  ASSUME TypeOK, LockInv, TimeInv, PumpInv, Ingestion
  PROVE  PumpInv'
  <1>1. /\ UNCHANGED <<pump, handled, historic, offset>>
        /\ \A r \in stored' \ stored :
             OnTime(r) => \A q \in Known \cup {offset} : q.at < r.at
    BY NewRows DEF consumer
  <1>2. ASSUME NEW r \in stored' \ stored, OnTime(r), NEW x \in pump.batch
        PROVE  x.at < r.at /\ x.at \in Nat /\ r.at \in Nat
    <2>1. x \in Revision /\ r \in Revision
      BY IngestionTyped DEF TypeOK
    <2> QED BY <1>1, <1>2, <2>1, RevisionTyped DEF Known
  <1>3. ASSUME pump.pc = "adopt"
        PROVE  \E x \in Revision :
                 /\ pump.batch = {x}
                 /\ \A r \in stored' : OnTime(r) /\ r.at <= x.at => r \in historic
    <2>1. PICK x \in Revision :
             /\ pump.batch = {x}
             /\ \A r \in stored : OnTime(r) /\ r.at <= x.at => r \in historic
      BY <1>3 DEF PumpInv
    <2>2. \A r \in stored' : OnTime(r) /\ r.at <= x.at => r \in historic
      BY <1>2, <2>1
    <2> QED BY <2>1, <2>2
  <1>4. ASSUME pump.pc \in {"take", "advance"}
        PROVE  \A r \in Pending' \ pump.batch : \A b \in pump.batch : b.at < r.at
    <2>1. Pending' \subseteq Pending \cup {r \in stored' \ stored : OnTime(r)}
      BY <1>1 DEF Pending
    <2> QED BY <1>2, <1>4, <2>1 DEF PumpInv
  <1> QED BY <1>1, <1>3, <1>4 DEF PumpInv

(* The offset has no timestamp but its own row's.                          *)
LEMMA OffsetOwn ==
  ASSUME TypeOK, TimeInv
  PROVE  /\ offset \in Items /\ offset.at \in Nat
         /\ \A r \in stored : r.at = offset.at => r = offset
         /\ \A r \in stored : Before(offset, r) <=> offset.at < r.at
         /\ \A r \in stored : r \in Revision /\ r.at \in Nat
  <1>1. offset \in Items /\ stored \subseteq Revision /\ stored \subseteq emitted
    BY DEF TypeOK, TimeInv, Known
  <1>2. ASSUME NEW r \in stored, r.at = offset.at PROVE r = offset
    <2>1. r \in Revision /\ r.at \in Nat /\ r.at > 0
      BY <1>1, RevisionTyped
    <2>2. offset # Start
      BY <1>2, <2>1 DEF Start
    <2> QED BY <1>1, <1>2, <2>2 DEF TimeInv
  <1>3. \A r \in stored : Before(offset, r) <=> offset.at < r.at
    BY <1>1, <1>2, BeforeAt
  <1> QED BY <1>1, <1>2, <1>3, RevisionTyped, ItemTyped

LEMMA PumpKeepsPumping ==
  ASSUME TypeOK, TimeInv, PumpInv, Pumping
  PROVE  PumpInv'
  <1>1. UNCHANGED <<stored, emitted>>
    BY PumpingKnows DEF newswire
  <1>2. ASSUME pump.pc \in {"adopt", "take", "advance"}
        PROVE  /\ Current \in pump.batch /\ Current \in Revision
               /\ \A q \in pump.batch : Current.at <= q.at
    BY <1>2, FirstIn DEF PumpInv
  <1>3. pump \in PumpState /\ pump.batch \in SUBSET Revision /\ Distinct(pump.batch)
    BY DEF TypeOK, PumpState, TimeInv, Known, Distinct
  <1>4. ASSUME pump' = IdlePump \/ (pump'.pc \in {"list", "dead"} /\ pump'.batch = {})
        PROVE  PumpInv'
    BY <1>4, IdleTyped DEF PumpInv
  <1>5. ASSUME NEW rows \in SUBSET Revision, TakeNext(rows),
               \A b \in rows : offset'.at < b.at,
               \A r \in Pending' \ rows : \A b \in rows : b.at < r.at
        PROVE  PumpInv'
    <2>1. CASE rows = {}
      BY <1>4, <1>5, <2>1 DEF TakeNext
    <2>2. CASE rows # {}
      BY <1>5, <2>2 DEF TakeNext, PumpInv
    <2> QED BY <2>1, <2>2
  <1>6. CASE Poll
    <2>1. CASE pump'.pc = "list" /\ pump'.batch = {}
      BY <1>4, <2>1
    <2>2. CASE /\ Bootstrap /\ offset = Start /\ stored # {} /\ historic' = stored
               /\ pump' = [pc |-> "adopt", batch |-> {Latest(stored)}]
      <3>1. Distinct(stored) /\ stored \in SUBSET Revision
        BY DEF TimeInv, Known, Distinct, TypeOK
      <3>2. Latest(stored) \in Revision
        BY <2>2, <3>1, LatestIs
      <3>3. UNCHANGED offset
        BY <1>6 DEF Poll
      <3> QED BY <1>1, <2>2, <3>2, <3>3 DEF PumpInv
    <2> QED BY <1>6, <2>1, <2>2 DEF Poll
  <1>7. CASE List
    <2>1. IsFiniteSet(stored) /\ Distinct(stored) /\ stored \subseteq Revision
      BY FS_Subset DEF TimeInv, Known, Distinct, TypeOK
    <2>2. /\ After(offset) \subseteq stored
          /\ \A b \in After(offset) : offset.at < b.at
          /\ \A r \in stored \ After(offset) : offset.at < r.at =>
               \A b \in After(offset) : b.at < r.at
      BY <2>1, OffsetOwn, AfterIs
    <2>3. Pending' = Pending /\ UNCHANGED offset
      BY <1>1, <1>7 DEF List, Pending
    <2>4. \A r \in Pending' \ After(offset) : \A b \in After(offset) : b.at < r.at
      BY <2>2, <2>3 DEF Pending
    <2> QED BY <1>5, <1>7, <2>1, <2>2, <2>3, <2>4 DEF List
  <1>8. ASSUME pump.pc = "take", UNCHANGED offset, pump' = [pump EXCEPT !.pc = "advance"],
               Isolated \/ Current \in handled'
        PROVE  PumpInv'
    <2>1. pump'.pc = "advance" /\ pump'.batch = pump.batch
      BY <1>3, <1>8 DEF PumpState
    <2>2. Pending' = Pending
      BY <1>1, <1>8 DEF Pending
    <2> QED BY <1>2, <1>8, <2>1, <2>2 DEF PumpInv
  <1>9. CASE HandOver
    BY <1>8, <1>9 DEF HandOver
  <1>10. CASE Advance
    <2> DEFINE rows == pump.batch \ {Current}
    <2>1. pump.pc \in {"take", "advance"} /\ offset' = Current /\ TakeNext(rows)
      BY <1>10 DEF Advance
    <2>2. \A b \in rows : Current.at < b.at
      <3> SUFFICES ASSUME NEW b \in rows PROVE Current.at < b.at
        OBVIOUS
      <3>1. Current.at <= b.at /\ Current.at # b.at
        BY <1>2, <1>3, <2>1 DEF Distinct
      <3> QED BY <1>2, <1>3, <2>1, <3>1, RevisionTyped
    <2>3. ASSUME NEW r \in Pending' \ rows, NEW b \in rows PROVE b.at < r.at
      <3>1. r \in stored /\ Current.at < r.at
        BY <1>1, <2>1, <2>3 DEF Pending
      <3>2. r \notin pump.batch
        BY <1>2, <2>1, <2>3, <3>1, RevisionTyped
      <3>3. offset.at < Current.at
        BY <1>2, <2>1 DEF PumpInv
      <3>4. offset.at < r.at
        BY <1>2, <2>1, <3>1, <3>3, OffsetOwn, RevisionTyped
      <3> QED BY <2>1, <3>1, <3>2, <3>4 DEF PumpInv, Pending
    <2>4. rows \in SUBSET Revision
      BY <1>3
    <2> HIDE DEF rows
    <2> QED BY <1>5, <2>1, <2>2, <2>3, <2>4
  <1>11. CASE CallbackRaises
    BY <1>4, <1>8, <1>11 DEF CallbackRaises
  <1>12. CASE Adopt \/ AdvanceRaises \/ PumpDies \/ RestartConsumer
    BY <1>4, <1>12 DEF Adopt, AdvanceRaises, PumpDies, RestartConsumer
  <1> QED BY <1>6, <1>7, <1>9, <1>10, <1>11, <1>12 DEF Pumping, PumpStep

-----------------------------------------------------------------------------
SafeInv == TypeOK /\ LockInv /\ TimeInv /\ PumpInv

LEMMA InitSafe == Init => SafeInv
  <1> SUFFICES ASSUME Init PROVE SafeInv
    OBVIOUS
  <1>1. /\ stored = {} /\ emitted = {} /\ handled = {} /\ historic = {} /\ unassessed = {}
        /\ pump.batch = {} /\ pump.pc = "idle" /\ offset = Start
        /\ \A w \in Ingesters : ingest[w] = IdleIngester /\ ~Working(w)
    BY IdleTyped DEF Init, Working
  <1>2. LockInv
    BY <1>1 DEF LockInv
  <1>3. TimeInv
    BY <1>1, FS_EmptySet DEF TimeInv, Known
  <1>4. PumpInv
    BY <1>1 DEF PumpInv
  <1> QED BY <1>2, <1>3, <1>4, InitType DEF SafeInv

LEMMA StepSafe == SafeInv /\ [Next]_vars => SafeInv'
  <1> SUFFICES ASSUME SafeInv, [Next]_vars PROVE SafeInv'
    OBVIOUS
  <1>1. CASE Ingestion
    BY <1>1, IngestionTyped, LockKeeps, TimeKeepsIngesting, PumpKeepsIngesting DEF SafeInv
  <1>2. CASE Pumping
    <2>1. UNCHANGED newswire
      BY <1>2, PumpingKnows DEF SafeInv
    <2> QED BY <1>2, <2>1, PumpingTyped, LockKeeps, TimeKeepsPumping, PumpKeepsPumping
            DEF SafeInv
  <1>3. CASE UNCHANGED vars
    BY <1>3 DEF SafeInv, TypeOK, LockInv, TimeInv, PumpInv, Known, Working, Pending,
                vars, newswire, consumer, faults
  <1> QED BY <1>1, <1>2, <1>3 DEF Next

LEMMA AlwaysSafe == Spec => []SafeInv
  BY InitSafe, StepSafe, PTL DEF Spec

(* The clusterer, the tables, the lock and the pump keep their types.      *)
THEOREM TypeCorrect == Spec => []TypeOK
  <1>1. SafeInv => TypeOK
    BY DEF SafeInv
  <1> QED BY <1>1, AlwaysSafe, PTL

-----------------------------------------------------------------------------
(* No stored revision is passed over, by a callback that reports that it   *)
(* failed: the bus reports nothing.                                        *)

LEMMA NoneSkippedStep == ~Isolated /\ SafeInv /\ NoneSkipped /\ [Next]_vars => NoneSkipped'
  <1> SUFFICES ASSUME ~Isolated, SafeInv, NoneSkipped, [Next]_vars PROVE NoneSkipped'
    OBVIOUS
  <1> USE DEF SafeInv
  <1>0. /\ \A r \in stored : Before(offset, r) <=> offset.at < r.at
        /\ \A r \in stored' : Before(offset', r) <=> offset'.at < r.at
    <2>1. \A r \in stored : Before(offset, r) <=> offset.at < r.at
      BY OffsetOwn
    <2>2. SafeInv'
      BY StepSafe
    <2>3. (SafeInv => \A r \in stored : Before(offset, r) <=> offset.at < r.at)'
      BY OffsetOwn, PTL
    <2> QED BY <2>1, <2>2, <2>3
  <1>9. /\ failures > 0 => failures' > 0
        /\ \A r \in stored : ~OnTime(r) => failures > 0
        /\ \A r \in stored' : ~OnTime(r) => failures' > 0
    <2>1. SafeInv'
      BY StepSafe
    <2>2. failures \in Nat /\ failures' \in Nat
      BY <2>1, BoundsAssumption DEF TypeOK
    <2>3. failures' = 0 => failures = 0
      BY IngestionCounts, PumpingCounts DEF Next, vars, faults
    <2>4. /\ \A r \in stored : ~OnTime(r) => failures # 0
          /\ \A r \in stored' : ~OnTime(r) => failures' # 0
      BY <2>1 DEF TimeInv, Known
    <2> QED BY <2>2, <2>3, <2>4
  <1>1. CASE Ingestion
    <2>1. /\ UNCHANGED <<offset, handled, historic>>
          /\ \A r \in stored' \ stored : OnTime(r) => offset.at < r.at
      BY <1>1, NewRows DEF consumer
    <2> QED BY <1>0, <1>9, <2>1 DEF NoneSkipped, OnTime
  <1>2. CASE Pumping
    <2>1. UNCHANGED stored
      BY <1>2, PumpingKnows DEF newswire
    <2>2. handled \subseteq handled'
      BY <1>2 DEF Pumping, PumpStep, Poll, Adopt, List, HandOver, Advance, CallbackRaises,
                  AdvanceRaises, PumpDies, RestartConsumer
    <2>3. CASE UNCHANGED <<offset, historic>>
      BY <1>9, <2>1, <2>2, <2>3 DEF NoneSkipped
    <2>4. CASE offset = Start /\ UNCHANGED offset
      <3>1. \A r \in stored : offset.at < r.at
        BY <2>4, OffsetOwn, RevisionTyped DEF Start
      <3> QED BY <1>0, <2>1, <2>4, <3>1 DEF NoneSkipped
    <2>5. CASE Adopt
      <3>1. UNCHANGED historic /\ Bootstrap /\ offset' \in pump.batch
        BY <2>5, FirstIn DEF Adopt, PumpInv, Current
      <3>2. \A r \in stored : OnTime(r) /\ r.at <= offset'.at => r \in historic
        BY <2>5, <3>1 DEF PumpInv, Adopt
      <3>3. offset'.at \in Nat /\ \A r \in stored : r.at \in Nat
        BY <3>1, RevisionTyped DEF TypeOK
      <3> QED BY <1>0, <1>9, <2>1, <3>1, <3>2, <3>3 DEF NoneSkipped, OnTime
    <2>6. CASE Advance
      <3>1. /\ offset' = Current /\ Current \in pump.batch /\ Current \in Revision
            /\ \A q \in pump.batch : Current.at <= q.at
            /\ pump.pc \in {"take", "advance"} /\ UNCHANGED <<handled, historic>>
        BY <2>6, FirstIn DEF Advance, PumpInv
      <3>2. Current \in handled \/ Current.story \in Invalid
        <4>1. CASE pump.pc = "advance"
          <5>1. PICK b \in pump.batch \cap handled : \A c \in pump.batch : b.at <= c.at
            BY <4>1 DEF PumpInv
          <5>2. b.at = Current.at
            BY <3>1, <5>1, RevisionTyped DEF TypeOK
          <5> QED BY <3>1, <5>1, <5>2 DEF TimeInv, Known
        <4> QED BY <2>6, <4>1 DEF Advance
      <3>3. ASSUME NEW r \in stored, ~(Current.at < r.at), offset.at < r.at, OnTime(r)
            PROVE  r = Current
        <4>1. r \in pump.batch
          BY <3>1, <3>3 DEF PumpInv, Pending
        <4>2. r.at = Current.at
          BY <3>1, <3>3, <4>1, RevisionTyped DEF TypeOK
        <4> QED BY <3>1, <4>1, <4>2 DEF TimeInv, Known
      <3>4. ASSUME NEW r \in stored, ~(Current.at < r.at)
            PROVE  \/ r \in handled \/ r.story \in Invalid \/ (Bootstrap /\ r \in historic)
                   \/ ~OnTime(r)
        BY <1>0, <3>2, <3>3, <3>4 DEF NoneSkipped, OnTime
      <3> QED BY <1>0, <1>9, <2>1, <3>1, <3>4 DEF NoneSkipped, OnTime
    <2> QED BY <1>2, <2>3, <2>4, <2>5, <2>6
            DEF Pumping, PumpStep, Poll, List, HandOver, CallbackRaises, AdvanceRaises,
                PumpDies, RestartConsumer
  <1>3. CASE UNCHANGED vars
    BY <1>3 DEF NoneSkipped, vars, newswire, consumer, faults
  <1> QED BY <1>1, <1>2, <1>3 DEF Next

(* A callback that raises when it fails: the cursor never passes a stored  *)
(* revision that it did not take, except rows that do not validate, what a *)
(* consumer that starts from the latest row found there, and the revision  *)
(* of an item that failed, stored late by its repetition.                  *)
THEOREM CursorPassesNothing == ~Isolated /\ Spec => []NoneSkipped
  <1>1. ~Isolated => [](~Isolated)
    OBVIOUS
  <1>2. Init => NoneSkipped
    BY DEF Init, NoneSkipped
  <1> QED BY <1>1, <1>2, NoneSkippedStep, AlwaysSafe, PTL DEF Spec

-----------------------------------------------------------------------------
(* The callbacks take the rows in the order of the feed.                   *)

LEMMA Monotone ==
  ASSUME TypeOK, TypeOK', [Next]_vars
  PROVE  Untroubled' => Untroubled
  <1>1. ASSUME UNCHANGED faults \/ Fault PROVE failures' = 0 => failures = 0
    BY <1>1, BoundsAssumption DEF TypeOK, Fault, faults
  <1>2. CASE Ingestion
    <2>1. failures' = 0 => failures = 0
      BY <1>2, IngestionCounts
    <2>2. /\ forgets' = 0 => forgets = 0
          /\ reclassified' = 0 => reclassified = 0
      <3>1. ASSUME NEW w \in Ingesters, NEW s \in Stories, NEW kind \in UpdateTypes,
                   NEW now \in {clock, clock + 1}, NEW found \in BOOLEAN,
                   Upsert(w, s, kind, now, found)
            PROVE  forgets' \in {forgets, forgets + 1} /\ UNCHANGED reclassified
        BY <3>1 DEF Upsert
      <3>2. ASSUME NEW w \in Ingesters, NEW item \in unassessed, UpsertDuplicate(w, item)
            PROVE  UNCHANGED <<forgets, reclassified>>
        BY <3>2 DEF UpsertDuplicate
      <3>3. ASSUME NEW w \in Ingesters, ItemFails(w) \/ PersistStory(w) \/ PersistRevision(w)
            PROVE  UNCHANGED <<forgets, reclassified>>
        BY <3>3 DEF ItemFails, PersistStory, PersistRevision
      <3>4. ASSUME NEW chosen \in SUBSET Stories, ReclassifyRead(chosen)
            PROVE  UNCHANGED forgets /\ reclassified' = reclassified + 1
        BY <3>4 DEF ReclassifyRead
      <3>5. Reclassify \/ Restart => UNCHANGED <<forgets, reclassified>>
        BY DEF Reclassify, Restart
      <3>6. forgets' \in {forgets, forgets + 1} /\ reclassified' \in {reclassified, reclassified + 1}
        BY <1>2, <3>1, <3>2, <3>3, <3>4, <3>5 DEF Ingestion
      <3> QED BY <3>6, BoundsAssumption DEF TypeOK
    <2> QED BY <2>1, <2>2 DEF Untroubled
  <1>3. CASE Pumping
    <2>1. UNCHANGED <<forgets, reclassified>>
      BY <1>3 DEF Pumping, PumpStep, Poll, Adopt, List, HandOver, Advance, CallbackRaises,
                  AdvanceRaises, PumpDies, RestartConsumer, newswire
    <2>2. UNCHANGED failures \/ Fault
      BY <1>3 DEF Pumping, PumpStep, Poll, Adopt, List, HandOver, Advance, CallbackRaises,
                  AdvanceRaises, PumpDies, RestartConsumer, faults
    <2>3. failures' = 0 => failures = 0
      BY <1>1, <2>2 DEF Fault
    <2> QED BY <2>1, <2>3 DEF Untroubled
  <1>4. CASE UNCHANGED vars
    BY <1>4 DEF vars, newswire, faults, Untroubled
  <1> QED BY <1>2, <1>3, <1>4 DEF Next

(* What a step of the pump does to the cursor and to what was handled.     *)
LEMMA PumpMoves ==
  ASSUME SafeInv, Pumping
  PROVE  /\ UNCHANGED stored
         /\ offset.at <= offset'.at /\ offset.at \in Nat /\ offset'.at \in Nat
         /\ pump'.batch \subseteq pump.batch \cup stored
         /\ \/ UNCHANGED handled
            \/ /\ HandOver /\ handled' = handled \cup {Current}
               /\ Current \in pump.batch /\ offset.at < Current.at /\ Current \in Revision
               /\ \A r \in Pending : Current.at <= r.at
  <1> USE DEF SafeInv
  <1>1. UNCHANGED stored /\ offset.at \in Nat /\ pump \in PumpState
    BY PumpingKnows, OffsetOwn DEF newswire, TypeOK, PumpState
  <1>2. ASSUME pump.pc \in {"take", "advance"}
        PROVE  /\ Current \in pump.batch /\ Current \in Revision /\ offset.at < Current.at
               /\ \A q \in pump.batch : Current.at <= q.at /\ q \in Revision
    BY <1>2, FirstIn DEF PumpInv, TypeOK
  <1>3. offset.at <= offset'.at /\ offset'.at \in Nat
    <2>1. CASE UNCHANGED offset
      BY <1>1, <2>1
    <2>2. CASE Adopt
      <3>1. offset = Start /\ Start.at = 0 /\ offset'.at \in Nat
        <4>1. Current \in Revision
          BY <2>2, FirstIn DEF Adopt, PumpInv
        <4> QED BY <2>2, <4>1, RevisionTyped DEF Adopt, PumpInv, Current, Start
      <3> QED BY <3>1
    <2>3. CASE Advance
      BY <1>1, <1>2, <2>3, RevisionTyped DEF Advance
    <2> QED BY <2>1, <2>2, <2>3
            DEF Pumping, PumpStep, Poll, List, HandOver, CallbackRaises, AdvanceRaises,
                PumpDies, RestartConsumer
  <1>4. pump'.batch \subseteq pump.batch \cup stored
    <2>1. CASE Poll
      <3>1. Distinct(stored) /\ stored \in SUBSET Revision
        BY DEF TimeInv, Known, Distinct, TypeOK
      <3> QED BY <2>1, <3>1, LatestIs DEF Poll
    <2>2. CASE List
      BY <2>2, IdleTyped DEF List, TakeNext, After
    <2>3. CASE ~Poll /\ ~List
      BY <1>1, <2>3, IdleTyped
         DEF Pumping, PumpStep, Adopt, HandOver, Advance, TakeNext, CallbackRaises,
             AdvanceRaises, PumpDies, RestartConsumer, PumpState
    <2> QED BY <2>1, <2>2, <2>3
  <1>5. ASSUME HandOver
        PROVE  /\ handled' = handled \cup {Current} /\ Current \in pump.batch
               /\ offset.at < Current.at /\ Current \in Revision
               /\ \A r \in Pending : Current.at <= r.at
    <2>1. \A r \in Pending \ pump.batch : Current.at < r.at /\ r \in Revision
      BY <1>2, <1>5 DEF HandOver, PumpInv, Pending, TypeOK
    <2>2. \A r \in Pending : Current.at <= r.at
      BY <1>2, <1>5, <2>1, RevisionTyped DEF HandOver
    <2> QED BY <1>2, <1>5, <2>2 DEF HandOver
  <1>6. ~HandOver => UNCHANGED handled
    BY DEF Pumping, PumpStep, Poll, Adopt, List, Advance, CallbackRaises,
           AdvanceRaises, PumpDies, RestartConsumer
  <1> QED BY <1>1, <1>3, <1>4, <1>5, <1>6

LEMMA HandledStep == SafeInv /\ HandledInv /\ [Next]_vars => HandledInv'
  <1> SUFFICES ASSUME SafeInv, HandledInv, [Next]_vars PROVE HandledInv'
    OBVIOUS
  <1>0. \A r \in handled \cup stored \cup handled' \cup stored' : r \in Revision /\ r.at \in Nat
    BY StepSafe, RevisionTyped DEF SafeInv, TypeOK
  <1>1. CASE Ingestion
    <2>1. /\ UNCHANGED <<offset, handled>>
          /\ \A r \in stored' \ stored : OnTime(r) => \A q \in Known : q.at < r.at
      BY <1>1, NewRows DEF consumer, SafeInv
    <2>2. ASSUME NEW q \in handled, NEW r \in Pending' PROVE q.at <= r.at
      <3>1. CASE r \in Pending
        BY <3>1 DEF HandledInv
      <3>2. CASE r \notin Pending
        BY <1>0, <2>1, <3>2 DEF Pending, Known
      <3> QED BY <3>1, <3>2
    <2> QED BY <2>1, <2>2 DEF HandledInv
  <1>2. CASE Pumping
    <2>1. Pending' \subseteq Pending
      <3> SUFFICES ASSUME NEW r \in stored, offset'.at < r.at PROVE offset.at < r.at
        BY <1>2, PumpMoves DEF Pending
      <3> QED BY <1>0, <1>2, PumpMoves
    <2>2. \A q \in handled', r \in Pending : q.at <= r.at
      BY <1>2, PumpMoves DEF HandledInv
    <2> QED BY <2>1, <2>2 DEF HandledInv
  <1>3. CASE UNCHANGED vars
    BY <1>3 DEF HandledInv, Pending, vars, newswire, consumer
  <1> QED BY <1>1, <1>2, <1>3 DEF Next

(* The numbers, when nothing went wrong yet.                               *)
Climbs(rows) == \A r, q \in rows : r.story = q.story /\ r.at < q.at => r.revision < q.revision

Ahead(w) ==
  LET item == ingest[w].item
  IN  /\ item.revision = story[item.story]
      /\ \A r \in stored : r.story = item.story => r.revision < item.revision
      /\ ingest[w].pc = "revision" => item.revision <= storyRow[item.story]

Counts ==
  /\ \A s \in Stories : storyRow[s] <= story[s]
  /\ \A r \in stored : r.revision <= storyRow[r.story]
  /\ Climbs(stored)
  /\ \A w \in Ingesters : Working(w) => Ahead(w)

LEMMA NumberParts ==
  NumberInv <=> /\ reclassify # NotRead => reclassified # 0
                /\ Untroubled => Counts /\ handled \subseteq stored /\ pump.batch \subseteq stored
  BY DEF NumberInv, Counts, Climbs, Ahead

LEMMA NumbersTyped ==
  ASSUME TypeOK
  PROVE  /\ \A s \in Stories : story[s] \in Nat /\ storyRow[s] \in Nat
         /\ \A r \in stored : r.story \in Stories /\ r.revision \in Nat /\ r.at \in Nat
  BY RevisionTyped, BoundsAssumption DEF TypeOK, Versions

LEMMA CountsUpsert ==
  ASSUME SafeInv, Counts, NEW w \in Ingesters, NEW s \in Stories, NEW kind \in UpdateTypes,
         NEW now \in {clock, clock + 1}, NEW found \in BOOLEAN, Upsert(w, s, kind, now, found)
  PROVE  found => Counts'
  <1>0. TypeOK
    BY DEF SafeInv
  <1>1. PICK item \in Revision :
           /\ item.story = s
           /\ found => item.revision = story[s] + 1
           /\ story' = [story EXCEPT ![s] = item.revision]
           /\ ingest' = [ingest EXCEPT ![w] = [pc |-> "story", item |-> item]]
           /\ ingest[w] = IdleIngester /\ lock = NoOne
           /\ UNCHANGED <<storyRow, stored>>
    BY <1>0, UpsertTyped
  <1> SUFFICES ASSUME found PROVE Counts'
    OBVIOUS
  <1>2. ingest \in [Ingesters -> IngestState] /\ story \in [Stories -> Versions]
    BY DEF SafeInv, TypeOK, IngestState
  <1>3. \A v \in Ingesters : ingest[v] = IdleIngester
    BY <1>1, LockAssumption DEF SafeInv, LockInv
  <1>4. \A v \in Ingesters : Working(v)' => v = w
    BY <1>1, <1>2, <1>3, IdleTyped DEF Working
  <1>5. ingest'[w].item = item /\ ingest'[w].pc = "story"
    BY <1>1, <1>2
  <1>6. story'[s] = item.revision /\ \A z \in Stories \ {s} : story'[z] = story[z]
    BY <1>1, <1>2
  <1>7. story[s] < item.revision /\ item.revision \in Nat
    BY <1>1, NumbersTyped, RevisionTyped DEF SafeInv
  <1>8. \A r \in stored : r.story = s => r.revision < item.revision
    <2> SUFFICES ASSUME NEW r \in stored, r.story = s PROVE r.revision < item.revision
      OBVIOUS
    <2>1. r.revision <= storyRow[s] /\ storyRow[s] <= story[s]
      BY DEF Counts
    <2> QED BY <1>7, <2>1, NumbersTyped DEF SafeInv
  <1>9. \A z \in Stories : storyRow[z] <= story'[z]
    <2> SUFFICES ASSUME NEW z \in Stories PROVE storyRow[z] <= story'[z]
      OBVIOUS
    <2>1. CASE z = s
      BY <1>6, <1>7, <2>1, NumbersTyped DEF Counts, SafeInv
    <2>2. CASE z # s
      BY <1>6, <2>2 DEF Counts
    <2> QED BY <2>1, <2>2
  <1> HIDE DEF SafeInv
  <1>10. Ahead(w)'
    BY <1>1, <1>5, <1>6, <1>8 DEF Ahead
  <1> QED BY <1>1, <1>4, <1>9, <1>10 DEF Counts, Climbs

LEMMA CountsStory ==
  ASSUME SafeInv, Counts, NEW w \in Ingesters, PersistStory(w), UNCHANGED faults
  PROVE  Counts'
  <1> DEFINE item == ingest[w].item
  <1>1. /\ Working(w) /\ UNCHANGED <<stored, story>>
        /\ ingest' = [ingest EXCEPT ![w].pc = "revision"]
        /\ storyRow' = [storyRow EXCEPT ![item.story] = item.revision] \/ UNCHANGED storyRow
        /\ Fault \/ storyRow' = [storyRow EXCEPT ![item.story] = item.revision]
    BY DEF PersistStory, Working
  <1>2. ~Fault
    BY BoundsAssumption DEF Fault, faults, SafeInv, TypeOK
  <1>3. /\ item \in Revision /\ \A v \in Ingesters : Working(v) => v = w
    BY <1>1, InHand DEF SafeInv
  <1>4. ingest \in [Ingesters -> IngestState] /\ storyRow \in [Stories -> Versions]
    BY DEF SafeInv, TypeOK, IngestState
  <1>5. /\ item.revision = story[item.story] /\ item.story \in Stories /\ item.revision \in Nat
        /\ \A r \in stored : r.story = item.story => r.revision < item.revision
    BY <1>1, <1>3, RevisionTyped DEF Counts, Ahead
  <1>6. ingest'[w].item = item /\ \A v \in Ingesters \ {w} : ingest'[v] = ingest[v]
    BY <1>1, <1>4 DEF IngestState
  <1>7. \A v \in Ingesters : Working(v)' => v = w
    BY <1>3, <1>6 DEF Working
  <1>8. /\ storyRow'[item.story] = item.revision
        /\ \A z \in Stories : z # item.story => storyRow'[z] = storyRow[z]
    BY <1>1, <1>2, <1>4, <1>5
  <1>9. \A z \in Stories : storyRow'[z] <= story[z]
    BY <1>5, <1>8 DEF Counts
  <1>10. \A r \in stored : r.revision <= storyRow'[r.story]
    <2> SUFFICES ASSUME NEW r \in stored PROVE r.revision <= storyRow'[r.story]
      OBVIOUS
    <2>1. CASE r.story = item.story
      BY <1>5, <1>8, <2>1, NumbersTyped DEF SafeInv
    <2>2. CASE r.story # item.story
      BY <1>8, <2>2, NumbersTyped DEF Counts, SafeInv
    <2> QED BY <2>1, <2>2
  <1>11. Ahead(w)'
    BY <1>1, <1>5, <1>6, <1>8 DEF Ahead
  <1> QED BY <1>1, <1>7, <1>9, <1>10, <1>11 DEF Counts, Climbs

(* Nothing to overwrite: the row is appended.                              *)
LEMMA AppendedNew ==
  ASSUME SafeInv, Counts, NEW w \in Ingesters, Working(w)
  PROVE  Appended(ingest[w].item) = stored \cup {ingest[w].item}
  <1> DEFINE item == ingest[w].item
             same == {r \in stored : r.story = item.story /\ r.revision = item.revision}
  <1>1. item \in Revision
    BY InHand DEF SafeInv
  <1>2. \A r \in stored : r.story = item.story => r.revision < item.revision
    BY DEF Counts, Ahead
  <1>3. same = {}
    BY <1>1, <1>2, NumbersTyped, RevisionTyped DEF SafeInv
  <1>4. Appended(item) = IF \E r \in same : r.kind # item.kind THEN stored
                                                             ELSE (stored \ same) \cup {item}
    BY DEF Appended
  <1> QED BY <1>3, <1>4

LEMMA CountsRevision ==
  ASSUME SafeInv, Counts, failures = 0, NEW w \in Ingesters, PersistRevision(w),
         UNCHANGED faults
  PROVE  Counts' /\ stored' = stored \cup {ingest[w].item}
  <1> DEFINE item == ingest[w].item
  <1>1. /\ Working(w) /\ UNCHANGED <<story, storyRow>> /\ ingest[w].pc = "revision"
        /\ ingest' = [ingest EXCEPT ![w] = IdleIngester]
        /\ Fault \/ stored' = Appended(item)
    BY DEF PersistRevision, Working
  <1>2. ~Fault
    BY BoundsAssumption DEF Fault, faults, SafeInv, TypeOK
  <1>3. stored' = stored \cup {item}
    BY <1>1, <1>2, AppendedNew
  <1>4. /\ item \in Revision /\ \A v \in Ingesters : Working(v) => v = w
    BY <1>1, InHand DEF SafeInv
  <1>5. /\ item.revision <= storyRow[item.story]
        /\ \A r \in stored : r.story = item.story => r.revision < item.revision
    BY <1>1 DEF Counts, Ahead
  <1>6. \A r \in stored : r.at < item.at /\ r.at \in Nat /\ item.at \in Nat
    <2>1. item \in emitted /\ OnTime(item)
      BY <1>1, InHand DEF SafeInv, TimeInv
    <2> QED BY <1>1, <1>4, <2>1, NumbersTyped, RevisionTyped DEF SafeInv, TimeInv, Known
  <1>7. \A v \in Ingesters : ~Working(v)'
    BY <1>1, <1>4, IdleTyped DEF Working, SafeInv, TypeOK
  <1>8. Climbs(stored')
    BY <1>3, <1>4, <1>5, <1>6, RevisionTyped DEF Counts, Climbs
  <1> QED BY <1>1, <1>3, <1>5, <1>7, <1>8 DEF Counts

LEMMA NumberStep == SafeInv /\ NumberInv /\ [Next]_vars => NumberInv'
  <1> SUFFICES ASSUME SafeInv, NumberInv, [Next]_vars PROVE NumberInv'
    OBVIOUS
  <1>0. /\ SafeInv' /\ (Untroubled' => Untroubled)
        /\ TypeOK /\ TypeOK'
    BY StepSafe, Monotone DEF SafeInv
  <1>1. reclassify' # NotRead => reclassified' # 0
    <2>1. CASE UNCHANGED <<reclassify, reclassified>> \/ reclassify' = NotRead
      BY <2>1 DEF NumberInv
    <2>2. ASSUME NEW chosen \in SUBSET Stories, ReclassifyRead(chosen) PROVE reclassified' # 0
      BY <1>0, <2>2, BoundsAssumption DEF ReclassifyRead, TypeOK
    <2>3. ASSUME NEW w \in Ingesters, NEW s \in Stories, NEW kind \in UpdateTypes,
                 NEW now \in {clock, clock + 1}, NEW found \in BOOLEAN,
                 Upsert(w, s, kind, now, found)
          PROVE  UNCHANGED <<reclassify, reclassified>>
      BY <2>3 DEF Upsert
    <2>4. ASSUME NEW w \in Ingesters,
                 \/ \E item \in unassessed : UpsertDuplicate(w, item)
                 \/ ItemFails(w) \/ PersistStory(w) \/ PersistRevision(w)
          PROVE  UNCHANGED <<reclassify, reclassified>>
      BY <2>4 DEF UpsertDuplicate, ItemFails, PersistStory, PersistRevision
    <2>5. Reclassify \/ Restart => reclassify' = NotRead
      BY DEF Reclassify, Restart
    <2>6. Pumping \/ UNCHANGED vars => UNCHANGED <<reclassify, reclassified>>
      BY PumpingKnows DEF vars, newswire, SafeInv
    <2> QED BY <2>1, <2>2, <2>3, <2>4, <2>5, <2>6 DEF Next, Ingestion
  <1>2. SUFFICES ASSUME Untroubled, Untroubled'
                 PROVE  Counts' /\ handled' \subseteq stored' /\ pump'.batch \subseteq stored'
    <2>1. SUFFICES Untroubled' => Counts' /\ handled' \subseteq stored' /\ pump'.batch \subseteq stored'
      BY <1>1 DEF NumberInv, Counts, Climbs, Ahead
    <2> QED BY <1>0
  <1>3. Counts /\ handled \subseteq stored /\ pump.batch \subseteq stored
    BY <1>2, NumberParts
  <1>4. failures' = failures /\ reclassify = NotRead
    BY <1>2, NumberParts DEF Untroubled
  <1>5. ASSUME UNCHANGED <<story, storyRow, stored, ingest>> PROVE Counts'
    BY <1>3, <1>5 DEF Counts, Climbs, Ahead, Working
  <1>6. CASE Ingestion
    <2>1. UNCHANGED <<handled, pump>>
      BY <1>6, NewRows DEF consumer, SafeInv
    <2>2. ASSUME NEW w \in Ingesters, NEW s \in Stories, NEW kind \in UpdateTypes,
                 NEW now \in {clock, clock + 1}, NEW found \in BOOLEAN,
                 Upsert(w, s, kind, now, found)
          PROVE  Counts' /\ stored \subseteq stored'
      <3>1. found /\ UNCHANGED stored
        BY <1>0, <1>2, <2>2, UpsertTyped DEF Untroubled
      <3> QED BY <1>3, <2>2, <3>1, CountsUpsert
    <2>3. ~Fault /\ failures = 0 /\ unassessed = {}
      BY <1>0, <1>2, <1>4, BoundsAssumption DEF Fault, TypeOK, Untroubled, SafeInv, TimeInv
    <2>4. ASSUME NEW w \in Ingesters, ItemFails(w) \/ PersistStory(w) \/ PersistRevision(w)
          PROVE  Counts' /\ stored \subseteq stored'
      <3>1. (PersistStory(w) \/ PersistRevision(w)) /\ UNCHANGED faults
        BY <2>3, <2>4 DEF ItemFails, PersistStory, PersistRevision
      <3>2. PersistStory(w) => UNCHANGED stored
        BY DEF PersistStory
      <3> QED BY <1>3, <2>3, <3>1, <3>2, CountsStory, CountsRevision
    <2>5. ASSUME NEW chosen \in SUBSET Stories, ReclassifyRead(chosen)
          PROVE  Counts' /\ stored \subseteq stored'
      BY <1>5, <2>5 DEF ReclassifyRead
    <2>6. ~Reclassify
      BY <1>4 DEF Reclassify
    <2>7. ASSUME Restart PROVE Counts' /\ stored \subseteq stored'
      <3>1. story' = storyRow /\ UNCHANGED <<storyRow, stored>>
        BY <1>0, <1>4, <2>7, BoundsAssumption DEF Restart, TypeOK
      <3>2. \A w \in Ingesters : ~Working(w)'
        BY <2>7, IdleTyped DEF Restart, Working
      <3>3. \A s \in Stories : storyRow[s] \in Nat
        BY <1>0, NumbersTyped
      <3> QED BY <1>3, <3>1, <3>2, <3>3 DEF Counts, Climbs
    <2> QED BY <1>3, <1>6, <2>1, <2>2, <2>3, <2>4, <2>5, <2>6, <2>7 DEF Ingestion
  <1>7. CASE Pumping
    <2>1. UNCHANGED <<story, storyRow, stored, ingest>>
      BY <1>7, PumpingKnows DEF newswire, SafeInv
    <2>2. pump'.batch \subseteq stored' /\ handled' \subseteq stored'
      BY <1>3, <1>7, <2>1, PumpMoves
    <2> QED BY <1>5, <2>1, <2>2
  <1>8. CASE UNCHANGED vars
    BY <1>3, <1>5, <1>8 DEF vars, newswire, consumer
  <1> QED BY <1>6, <1>7, <1>8 DEF Next

LEMMA AlwaysNumbered == Spec => [](NumberInv /\ HandledInv)
  <1>1. Init => NumberInv /\ HandledInv
    <2> SUFFICES ASSUME Init PROVE NumberInv /\ HandledInv
      OBVIOUS
    <2>1. /\ stored = {} /\ handled = {} /\ pump.batch = {} /\ reclassify = NotRead
          /\ \A s \in Stories : storyRow[s] = 0 /\ story[s] = 0
          /\ \A w \in Ingesters : ~Working(w)
      BY IdleTyped DEF Init, Working
    <2> QED BY <2>1 DEF NumberInv, HandledInv
  <1> QED BY <1>1, NumberStep, HandledStep, AlwaysSafe, PTL DEF Spec

(* As long as no call failed and no story was forgotten or put back, the   *)
(* clusterer's number is the highest in the table, whatever restarts.      *)
THEOREM NumbersNeverGoBack == Spec => []NumbersGoOn
  <1>1. SafeInv /\ NumberInv => NumbersGoOn
    <2> SUFFICES ASSUME SafeInv, NumberInv, Untroubled, NEW r \in stored
                 PROVE  r.revision <= story[r.story]
      BY DEF NumbersGoOn
    <2>1. r.revision <= storyRow[r.story] /\ storyRow[r.story] <= story[r.story]
      BY NumbersTyped DEF SafeInv, NumberInv
    <2> QED BY <2>1, NumbersTyped DEF SafeInv
  <1> QED BY <1>1, AlwaysNumbered, AlwaysSafe, PTL

(* A callback is never given an older revision of a story than it had.     *)
THEOREM OrderKept == Spec => StoriesInOrder
  <1>1. SafeInv /\ NumberInv /\ HandledInv /\ [Next]_vars =>
          [Untroubled' => \A r \in handled' \ handled : \A q \in handled :
             q.story = r.story => q.revision < r.revision]_vars
    <2> SUFFICES ASSUME SafeInv, NumberInv, HandledInv, [Next]_vars, Untroubled',
                        NEW r \in handled' \ handled, NEW q \in handled, q.story = r.story
                 PROVE  q.revision < r.revision
      OBVIOUS
    <2>1. Untroubled
      BY StepSafe, Monotone DEF SafeInv
    <2>2. Climbs(stored) /\ handled \subseteq stored /\ pump.batch \subseteq stored
      BY <2>1, NumberParts DEF Counts
    <2>3. Pumping
      <3>1. Ingestion \/ UNCHANGED vars => UNCHANGED handled
        BY NewRows DEF consumer, vars, SafeInv
      <3> QED BY <3>1 DEF Next
    <2>4. r = Current /\ r \in pump.batch /\ offset.at < r.at
      BY <2>3, PumpMoves
    <2>5. q.at <= r.at
      <3>1. r \in stored /\ OnTime(r)
        BY <2>1, <2>2, <2>4 DEF SafeInv, TimeInv, Known, Untroubled
      <3> QED BY <2>4, <3>1 DEF HandledInv, Pending
    <2>6. q \in stored /\ r \in stored /\ q.at # r.at
      BY <2>2, <2>4 DEF SafeInv, TimeInv, Known
    <2>7. q.at < r.at
      BY <2>5, <2>6, NumbersTyped DEF SafeInv
    <2> QED BY <2>2, <2>6, <2>7 DEF Climbs
  <1> QED BY <1>1, AlwaysNumbered, AlwaysSafe, PTL DEF Spec, StoriesInOrder

-----------------------------------------------------------------------------
(* What a restart loses.                                                   *)

Lost == emitted \ (stored \cup InFlight)
Excused == Untroubled => Cardinality(Lost) <= crashes

LEMMA FewerLost ==
  ASSUME SafeInv, Excused, Untroubled' => Untroubled, Lost' \subseteq Lost, UNCHANGED crashes
  PROVE  Excused'
  <1>1. IsFiniteSet(Lost)
    BY FS_Subset DEF Lost, SafeInv, TimeInv
  <1>2. Cardinality(Lost') <= Cardinality(Lost)
    BY <1>1, FS_Subset
  <1>3. IsFiniteSet(Lost')
    BY <1>1, FS_Subset
  <1>4. Cardinality(Lost) \in Nat /\ Cardinality(Lost') \in Nat /\ crashes \in Nat
    BY <1>1, <1>3, FS_CardinalityType, BoundsAssumption DEF SafeInv, TypeOK
  <1> QED BY <1>2, <1>4 DEF Excused

LEMMA OneMoreLost ==
  ASSUME SafeInv, Excused, Untroubled' => Untroubled, NEW item, Lost' \subseteq Lost \cup {item},
         crashes' = crashes + 1
  PROVE  Excused'
  <1> DEFINE larger == Lost \cup {item}
  <1>1. IsFiniteSet(Lost)
    BY FS_Subset DEF Lost, SafeInv, TimeInv
  <1>2. IsFiniteSet(larger) /\ Cardinality(larger) \in {Cardinality(Lost), Cardinality(Lost) + 1}
    BY <1>1, FS_AddElement
  <1>3. Cardinality(Lost) \in Nat
    BY <1>1, FS_CardinalityType
  <1> HIDE DEF larger
  <1>4. Cardinality(Lost') <= Cardinality(larger) /\ IsFiniteSet(Lost')
    BY <1>2, FS_Subset DEF larger
  <1>5. Cardinality(Lost') \in Nat /\ crashes \in Nat
    BY <1>4, FS_CardinalityType, BoundsAssumption DEF SafeInv, TypeOK
  <1> DEFINE after == Cardinality(Lost')
  <1> HIDE DEF after
  <1>6. ASSUME Cardinality(Lost) <= crashes PROVE after <= crashes + 1
    BY <1>2, <1>3, <1>4, <1>5, <1>6 DEF after
  <1> QED BY <1>6 DEF Excused, after

LEMMA SurviveStep == SafeInv /\ NumberInv /\ Excused /\ [Next]_vars => Excused'
  <1> SUFFICES ASSUME SafeInv, NumberInv, Excused, [Next]_vars PROVE Excused'
    OBVIOUS
  <1>0. /\ Untroubled' => Untroubled
        /\ TypeOK /\ TypeOK' /\ LockInv
        /\ ingest \in [Ingesters -> IngestState]
    BY StepSafe, Monotone DEF SafeInv, TypeOK, IngestState
  <1>1. SUFFICES ASSUME Untroubled, Untroubled' PROVE Excused'
    BY <1>0 DEF Excused
  <1>2. Counts /\ failures' = failures /\ reclassify = NotRead
    BY <1>1, NumberParts DEF Untroubled
  <1>3. ~Fault /\ failures = 0 /\ unassessed = {}
    BY <1>0, <1>1, <1>2, BoundsAssumption DEF Fault, TypeOK, Untroubled, SafeInv, TimeInv
  <1>4. Start \notin emitted
    BY <1>0, RevisionTyped DEF TypeOK
  <1>5. ASSUME UNCHANGED <<emitted, stored, ingest>> PROVE Lost' = Lost
    BY <1>5 DEF Lost, InFlight
  <1>6. ASSUME NEW w \in Ingesters, NEW item, NumbersItem(w, item) PROVE Lost' \subseteq Lost
    <2>1. \A v \in Ingesters : ingest[v] = IdleIngester
      BY <1>0, <1>6, LockAssumption DEF LockInv, NumbersItem, Working
    <2>2. InFlight \subseteq {Start}
      BY <2>1, IdleTyped DEF InFlight
    <2>3. ingest'[w].item = item
      BY <1>0, <1>6 DEF NumbersItem
    <2>4. item \in InFlight'
      BY <2>3 DEF InFlight
    <2> QED BY <1>4, <1>6, <2>2, <2>4 DEF Lost, NumbersItem
  <1>7. ASSUME NEW w \in Ingesters, PersistStory(w) PROVE Lost' \subseteq Lost
    <2>1. /\ ingest' = [ingest EXCEPT ![w].pc = "revision"] /\ UNCHANGED <<emitted, stored>>
      BY <1>7 DEF PersistStory
    <2>2. \A v \in Ingesters : ingest'[v].item = ingest[v].item
      BY <1>0, <2>1 DEF IngestState
    <2>3. InFlight' = InFlight
      BY <2>2 DEF InFlight
    <2> QED BY <2>1, <2>3 DEF Lost
  <1>8. ASSUME NEW w \in Ingesters, PersistRevision(w) PROVE Lost' \subseteq Lost
    <2>1. UNCHANGED faults /\ UNCHANGED emitted /\ ingest' = [ingest EXCEPT ![w] = IdleIngester]
      BY <1>3, <1>8 DEF PersistRevision
    <2>2. stored' = stored \cup {ingest[w].item}
      BY <1>2, <1>3, <1>8, <2>1, CountsRevision
    <2>3. \A v \in Ingesters \ {w} : ingest'[v].item = ingest[v].item
      BY <1>0, <2>1
    <2>4. InFlight \subseteq InFlight' \cup {ingest[w].item}
      BY <2>3 DEF InFlight
    <2> QED BY <2>1, <2>2, <2>4 DEF Lost
  <1>9. CASE Restart
    <2>1. UNCHANGED <<emitted, stored>> /\ crashes' = crashes + 1
      BY <1>9 DEF Restart
    <2>2. PICK item : InFlight \subseteq {Start, item}
      <3>1. CASE \A w \in Ingesters : ~Working(w)
        <4>1. InFlight \subseteq {Start}
          BY <1>0, <3>1, IdleTyped DEF LockInv, InFlight
        <4> QED BY <4>1
      <3>2. ASSUME NEW w \in Ingesters, Working(w) PROVE InFlight \subseteq {Start, ingest[w].item}
        <4>1. \A v \in Ingesters : v = w \/ ingest[v].item = Start
          BY <1>0, <3>2, InHand, IdleTyped DEF LockInv
        <4> QED BY <4>1 DEF InFlight
      <3> QED BY <3>1, <3>2
    <2>3. Lost' \subseteq Lost \cup {item}
      BY <1>4, <2>1, <2>2 DEF Lost
    <2> QED BY <1>0, <2>1, <2>3, OneMoreLost
  <1>10. CASE Ingestion /\ ~Restart
    <2>1. UNCHANGED crashes
      <3>1. UNCHANGED faults \/ Fault
        BY <1>10, IngestionLeaves
      <3> QED BY <3>1 DEF Fault, faults
    <2>2. ASSUME NEW w \in Ingesters, NEW s \in Stories, NEW kind \in UpdateTypes,
                 NEW now \in {clock, clock + 1}, NEW found \in BOOLEAN,
                 Upsert(w, s, kind, now, found)
          PROVE  \E item : NumbersItem(w, item)
      BY <1>0, <2>2, UpsertTyped DEF NumbersItem, faults
    <2>3. ASSUME NEW w \in Ingesters, ItemFails(w) PROVE FALSE
      BY <1>3, <2>3 DEF ItemFails
    <2>4. ~Reclassify /\ \A chosen \in SUBSET Stories :
                           ReclassifyRead(chosen) => UNCHANGED <<emitted, stored, ingest>>
      BY <1>2 DEF Reclassify, ReclassifyRead
    <2>5. Lost' \subseteq Lost
      BY <1>3, <1>5, <1>6, <1>7, <1>8, <1>10, <2>2, <2>3, <2>4 DEF Ingestion
    <2> QED BY <1>0, <2>1, <2>5, FewerLost
  <1>11. CASE Pumping \/ UNCHANGED vars
    <2>1. UNCHANGED <<emitted, stored, ingest>>
      BY <1>11, PumpingKnows DEF newswire, vars, SafeInv
    <2>2. Lost' = Lost
      BY <1>5, <2>1
    <2>3. CASE RestartConsumer
      <3>1. Lost' \subseteq Lost \cup {Start} /\ crashes' = crashes + 1
        BY <2>2, <2>3 DEF RestartConsumer
      <3> QED BY <1>0, <3>1, OneMoreLost
    <2>4. CASE ~RestartConsumer
      <3>1. UNCHANGED crashes
        BY <1>3, <1>11, <2>4
           DEF Pumping, PumpStep, Poll, Adopt, List, HandOver, Advance, CallbackRaises,
               AdvanceRaises, PumpDies, vars, faults
      <3> QED BY <1>0, <2>2, <3>1, FewerLost
    <2> QED BY <2>3, <2>4
  <1> QED BY <1>9, <1>10, <1>11 DEF Next

(* As long as no call failed and no story was forgotten or put back, a     *)
(* restart costs the one revision that was being persisted at most.        *)
THEOREM RestartLosesOne == Spec => []RevisionsSurvive
  <1>1. Init => Excused
    <2> SUFFICES ASSUME Init PROVE Excused
      OBVIOUS
    <2>1. Lost = {} /\ crashes = 0
      BY DEF Init, Lost
    <2> QED BY <2>1, FS_EmptySet DEF Excused
  <1>2. Excused => RevisionsSurvive
    BY DEF Excused, Lost, RevisionsSurvive
  <1> QED BY <1>1, <1>2, SurviveStep, AlwaysNumbered, AlwaysSafe, PTL DEF Spec
=============================================================================
