----------------------------- MODULE ListingsProofs ----------------------------
(***************************************************************************)
(* What TLAPS proves of Listings, for any number of events, writers and    *)
(* updates: a client that reads page after page misses no event that was   *)
(* there when it began, and edits of an update and the saves of its event  *)
(* do not get in each other's way.                                         *)
(***************************************************************************)
EXTENDS Listings, FiniteLemmas

\* The place of key k among the keys D.
Rank(D, k) == Cardinality({j \in D : j <= k})

LEMMA RankInjective ==
  ASSUME NEW D \in SUBSET Nat, IsFiniteSet(D), NEW k \in D, NEW l \in D, Rank(D, k) = Rank(D, l)
  PROVE  k = l
<1>1. ASSUME NEW a \in D, NEW b \in D, a < b PROVE Rank(D, a) # Rank(D, b)
  <2> DEFINE A == {j \in D : j <= a}
             B == {j \in D : j <= b}
  <2>1. a \in Nat /\ b \in Nat /\ \A j \in D : j \in Nat
    OBVIOUS
  <2>2. B \subseteq D /\ A \subseteq B /\ b \in B /\ b \notin A
    <3>1. /\ \A j \in D : j <= a => j <= b
          /\ b <= b /\ ~(b <= a)
      BY <1>1, <2>1
    <3>2. QED
      BY <3>1
  <2> HIDE DEF A, B
  <2>3. IsFiniteSet(B)
    BY <2>2, FS_Subset
  <2>4. Cardinality(A) # Cardinality(B)
    BY <2>2, <2>3, FS_Subset
  <2>5. QED
    BY <2>4 DEF Rank, A, B
<1>2. \A a, b \in D : a < b \/ b < a \/ a = b
  OBVIOUS
<1>3. QED
  BY <1>1, <1>2

\* A key above all others takes the last place, and leaves the others theirs.
LEMMA RankAdded ==
  ASSUME NEW D \in SUBSET Nat, IsFiniteSet(D), NEW n \in Nat, \A j \in D : j < n
  PROVE  /\ Cardinality(D \cup {n}) = Cardinality(D) + 1
         /\ Rank(D \cup {n}, n) = Cardinality(D) + 1
         /\ \A k \in D : Rank(D \cup {n}, k) = Rank(D, k)
<1>1. n \notin D /\ \A j \in D : j \in Nat
  OBVIOUS
<1>2. Cardinality(D \cup {n}) = Cardinality(D) + 1
  BY <1>1, FS_AddElement
<1>3. {j \in D \cup {n} : j <= n} = D \cup {n}
  <2>1. \A j \in D \cup {n} : j <= n
    BY <1>1
  <2>2. QED
    BY <2>1
<1>4. \A k \in D : {j \in D \cup {n} : j <= k} = {j \in D : j <= k}
  BY <1>1
<1>5. QED
  BY <1>2, <1>3, <1>4 DEF Rank

-----------------------------------------------------------------------------
(* The inductive invariant *)

Keys == DOMAIN update

\* The lock of the event's row: one writer at a time has a key that is not
\* committed, and that key is the last one.
WInv ==
    /\ lastUpdate \in Nat
    /\ Keys \subseteq 1..lastUpdate
    /\ DOMAIN writer = Writer
    /\ \A w \in Writer : writer[w].at = "inserted" =>
          writer[w].key = lastUpdate /\ lastUpdate \notin Keys /\ lastUpdate # 0
    /\ \A v, w \in Writer :
          writer[v].at \in {"locked", "inserted"} /\ writer[w].at \in {"locked", "inserted"}
          => v = w

\* Every place has a key.
Ranked(D) == \A p \in 1..Cardinality(D) : \E k \in D : Rank(D, k) = p

\* What the client has seen is still at the place it saw it at.
SeenStays ==
    /\ editor.at = "viewed" /\ editor.sorted =>
          \A p \in DOMAIN editor.seen :
             /\ p \in 1..Cardinality(Keys)
             /\ editor.seen[p] \in Keys /\ Rank(Keys, editor.seen[p]) = p
    /\ editor.at = "asked" /\ editor.sorted =>
          /\ editor.position \in 1..Cardinality(Keys)
          /\ editor.want \in Keys /\ Rank(Keys, editor.want) = editor.position
    /\ EditHitsWhatWasSeen

UInv == WInv /\ Ranked(Keys) /\ SeenStays

LEMMA KeysFinite ==
  ASSUME WInv
  PROVE  Keys \in SUBSET Nat /\ IsFiniteSet(Keys) /\ Cardinality(Keys) \in Nat
<1>1. IsFiniteSet(1..lastUpdate)
  BY FS_Interval DEF WInv
<1>2. Keys \in SUBSET (1..lastUpdate) /\ lastUpdate \in Nat
  BY DEF WInv
<1> HIDE DEF Keys
<1>3. IsFiniteSet(Keys) /\ Cardinality(Keys) \in Nat
  BY <1>1, <1>2, FS_Subset, FS_CardinalityType
<1>4. QED
  BY <1>2, <1>3

\* ById lists the keys by their places.
LEMMA ByIdRanked ==
  ASSUME WInv, Ranked(Keys)
  PROVE  /\ ById \in Seq(Keys)
         /\ DOMAIN ById = 1..Cardinality(Keys) /\ Len(ById) = Cardinality(Keys)
         /\ \A p \in 1..Cardinality(Keys) : ById[p] \in Keys /\ Rank(Keys, ById[p]) = p
<1>1. ASSUME NEW p \in 1..Cardinality(Keys)
      PROVE  ById[p] \in Keys /\ Rank(Keys, ById[p]) = p
  <2>1. \E k \in Keys : Cardinality({j \in Keys : j <= k}) = p
    BY <1>1 DEF Ranked, Rank
  <2>2. ById[p] = CHOOSE k \in Keys : Cardinality({j \in Keys : j <= k}) = p
    BY <1>1 DEF ById, Keys
  <2>3. QED
    BY <2>1, <2>2 DEF Rank
<1>2. DOMAIN ById = 1..Cardinality(Keys)
  BY DEF ById, Keys
<1>3. ById \in Seq(Keys)
  <2> DEFINE C == Cardinality(Keys)
             F(p) == CHOOSE k \in Keys : Cardinality({j \in Keys : j <= k}) = p
  <2>1. ById = [p \in 1..C |-> F(p)]
    BY DEF ById, Keys
  <2> HIDE DEF F
  <2>2. \A p \in 1..C : F(p) \in Keys
    BY <1>1, <2>1
  <2>3. ById \in [1..C -> Keys] /\ C \in Nat
    BY <2>1, <2>2, KeysFinite
  <2>4. QED
    BY <2>3
<1>4. QED
  BY <1>1, <1>2, <1>3, KeysFinite

LEMMA InitUInv == Init => UInv
<1> SUFFICES ASSUME Init PROVE UInv
  OBVIOUS
<1>1. Keys = {} /\ Cardinality({}) = 0
  BY FS_EmptySet DEF Init, UpdatesInit, Keys
<1>2. \A w \in Writer : writer[w].at = "out"
  BY DEF Init, UpdatesInit, Out
<1>3. editor.at = "out"
  BY DEF Init, UpdatesInit, Out
<1>4. WInv
  BY <1>1, <1>2 DEF Init, UpdatesInit, WInv
<1>5. Ranked(Keys) /\ SeenStays
  BY <1>1, <1>3 DEF Ranked, SeenStays, EditHitsWhatWasSeen
<1>6. QED
  BY <1>4, <1>5 DEF UInv

-----------------------------------------------------------------------------
(* The steps of the writers *)

\* A writer goes on to s and the updates stay.
LEMMA WritesStep ==
  ASSUME UInv, NEW w \in Writer, NEW s, Writes(w, s), UNCHANGED <<update, lastUpdate, editor>>,
         s.at # "inserted",
         s.at = "locked" => \A v \in Writer \ {w} : writer[v].at \notin {"locked", "inserted"}
  PROVE  UInv'
<1>1. DOMAIN writer' = Writer /\ \A v \in Writer : writer'[v] = IF v = w THEN s ELSE writer[v]
  BY DEF UInv, WInv, Writes
<1>2. Keys' = Keys
  BY DEF Keys
<1>3. WInv'
  BY <1>1, <1>2 DEF UInv, WInv
<1>4. Ranked(Keys)' /\ SeenStays'
  BY <1>2 DEF UInv, Ranked, SeenStays, EditHitsWhatWasSeen
<1>5. QED
  BY <1>3, <1>4 DEF UInv

LEMMA InsertUpdateUInv ==
  ASSUME UInv, NEW w \in Writer, InsertUpdate(w)
  PROVE  UInv'
<1> DEFINE s == [at |-> "inserted", copy |-> writer[w].copy, key |-> lastUpdate + 1]
<1>1. /\ DOMAIN writer' = Writer /\ \A v \in Writer \ {w} : writer'[v] = writer[v]
      /\ writer'[w].at = "inserted" /\ writer'[w].key = lastUpdate + 1
      /\ writer[w].at = "locked" /\ lastUpdate' = lastUpdate + 1 /\ lastUpdate \in Nat
  BY DEF UInv, WInv, InsertUpdate, Writes
<1>2. Keys' = Keys /\ editor' = editor
  BY DEF InsertUpdate, Keys
<1>3. WInv'
  <2>1. Keys \subseteq 1..lastUpdate' /\ lastUpdate' \notin Keys
    BY <1>1 DEF UInv, WInv
  <2>2. \A v \in Writer \ {w} : writer[v].at \notin {"locked", "inserted"}
    BY <1>1 DEF UInv, WInv
  <2>3. QED
    BY <1>1, <1>2, <2>1, <2>2 DEF WInv
<1>4. Ranked(Keys)' /\ SeenStays'
  BY <1>2 DEF UInv, Ranked, SeenStays, EditHitsWhatWasSeen
<1>5. QED
  BY <1>3, <1>4 DEF UInv

LEMMA CommitUpdateUInv ==
  ASSUME UInv, NEW w \in Writer, CommitUpdate(w)
  PROVE  UInv'
<1> DEFINE D == Keys
           n == writer[w].key
<1>1. /\ DOMAIN writer' = Writer /\ \A v \in Writer \ {w} : writer'[v] = writer[v]
      /\ writer'[w].at = "out" /\ lastUpdate' = lastUpdate /\ editor' = editor
  BY DEF UInv, WInv, CommitUpdate, Writes, Out
<1>2. Keys' = D \cup {n} /\ n = lastUpdate /\ n \notin D /\ lastUpdate \in Nat
  BY DEF CommitUpdate, Keys, UInv, WInv
<1>3. /\ D \in SUBSET Nat /\ IsFiniteSet(D) /\ Cardinality(D) \in Nat
      /\ \A j \in D : j < n /\ j \in 1..lastUpdate
  <2>1. \A j \in D : j \in 1..lastUpdate /\ j # lastUpdate
    BY <1>2 DEF UInv, WInv
  <2>2. QED
    BY <1>2, <2>1, KeysFinite DEF UInv
<1> HIDE DEF n, D
<1>4. /\ Cardinality(Keys') = Cardinality(D) + 1
      /\ Rank(Keys', n) = Cardinality(D) + 1
      /\ \A k \in D : Rank(Keys', k) = Rank(D, k)
  BY <1>2, <1>3, RankAdded
<1>5. WInv'
  <2>1. n # 0 /\ \A v \in Writer \ {w} : writer[v].at \notin {"locked", "inserted"}
    BY DEF CommitUpdate, UInv, WInv, n
  <2>2. Keys' \subseteq 1..lastUpdate
    BY <1>2, <1>3, <2>1
  <2>3. QED
    BY <1>1, <1>2, <2>1, <2>2 DEF WInv
<1>6. Ranked(Keys)'
  <2>1. ASSUME NEW p \in 1..Cardinality(Keys') PROVE \E k \in Keys' : Rank(Keys', k) = p
    <3>1. CASE p = Cardinality(D) + 1
      BY <1>2, <1>4, <3>1
    <3>2. CASE p \in 1..Cardinality(D)
      BY <1>2, <1>4, <3>2 DEF UInv, Ranked, D
    <3>3. QED
      BY <1>3, <1>4, <3>1, <3>2
  <2>2. QED
    BY <2>1 DEF Ranked
<1>7. SeenStays'
  <2>1. /\ 1..Cardinality(D) \subseteq 1..Cardinality(Keys')
        /\ D \subseteq Keys'
    BY <1>2, <1>3, <1>4
  <2>2. QED
    BY <1>1, <1>4, <2>1 DEF UInv, SeenStays, EditHitsWhatWasSeen, D
<1>8. QED
  BY <1>5, <1>6, <1>7 DEF UInv

LEMMA WriterUInv ==
  ASSUME UInv, NEW w \in Writer, WriterStep(w)
  PROVE  UInv'
<1>1. CASE LoadEvent(w)
  <2>1. Writes(w, [at |-> "loaded", copy |-> update]) /\ UNCHANGED <<update, lastUpdate, editor>>
    BY <1>1 DEF LoadEvent
  <2>2. QED
    BY <2>1, WritesStep
<1>2. CASE LockEvent(w)
  <2> DEFINE s == [writer[w] EXCEPT !.at = "locked"]
  <2>1. Writes(w, s) /\ UNCHANGED <<update, lastUpdate, editor>>
    BY <1>2 DEF LockEvent
  <2>2. s.at # "inserted" /\ \A v \in Writer : writer[v].at \notin {"locked", "inserted"}
    BY <1>2 DEF LockEvent
  <2> HIDE DEF s
  <2>3. QED
    BY <2>1, <2>2, WritesStep
<1>3. CASE Rollback(w)
  <2>1. Writes(w, Out) /\ UNCHANGED <<update, lastUpdate, editor>> /\ Out.at = "out"
    BY <1>3 DEF Rollback, Out
  <2>2. QED
    BY <2>1, WritesStep
<1>4. QED
  BY <1>1, <1>2, <1>3, InsertUpdateUInv, CommitUpdateUInv DEF WriterStep

-----------------------------------------------------------------------------
(* The steps of the client *)

LEMMA EditorUInv ==
  ASSUME UInv, EditorStep
  PROVE  UInv'
<1>1. Keys' = Keys /\ UNCHANGED <<lastUpdate, writer>>
  BY DEF EditorStep, ViewEvent, ViewListed, AskEdit, FindUpdate, ModifyEventUpdate, Keys
<1>2. WInv' /\ Ranked(Keys)'
  BY <1>1 DEF UInv, WInv, Ranked
<1>3. CASE ViewEvent
  <2> DEFINE seen == ById
  <2>1. editor' = [at |-> "viewed", seen |-> seen, sorted |-> TRUE]
    BY <1>3 DEF ViewEvent
  <2>2. \A p \in DOMAIN seen :
          p \in 1..Cardinality(Keys) /\ seen[p] \in Keys /\ Rank(Keys, seen[p]) = p
    BY ByIdRanked DEF UInv
  <2> HIDE DEF seen
  <2>3. QED
    BY <1>1, <1>2, <2>1, <2>2 DEF UInv, SeenStays, EditHitsWhatWasSeen
<1>4. CASE ViewListed
  <2>1. editor'.at = "viewed" /\ editor'.sorted = FALSE
    BY <1>4 DEF ViewListed
  <2>2. QED
    BY <1>1, <1>2, <2>1 DEF UInv, SeenStays, EditHitsWhatWasSeen
<1>5. CASE AskEdit
  <2>1. CASE editor' = Out
    BY <1>1, <1>2, <2>1 DEF UInv, SeenStays, EditHitsWhatWasSeen, Out
  <2>2. ASSUME NEW p \in DOMAIN editor.seen,
               editor' = [at |-> "asked", position |-> p, want |-> editor.seen[p],
                          sorted |-> editor.sorted]
        PROVE  UInv'
    <3>1. editor.at = "viewed"
      BY <1>5 DEF AskEdit
    <3>2. QED
      BY <1>1, <1>2, <2>2, <3>1 DEF UInv, SeenStays, EditHitsWhatWasSeen
  <2>3. QED
    BY <1>5, <2>1, <2>2 DEF AskEdit
<1>6. CASE FindUpdate
  <2>1. CASE editor' = Out
    BY <1>1, <1>2, <2>1 DEF UInv, SeenStays, EditHitsWhatWasSeen, Out
  <2>2. CASE editor' = [at |-> "found", target |-> ById[editor.position],
                        want |-> editor.want, sorted |-> editor.sorted]
    <3>1. editor.at = "asked"
      BY <1>6 DEF FindUpdate
    <3>2. editor.sorted => ById[editor.position] = editor.want
      <4>1. ASSUME editor.sorted
            PROVE  /\ editor.want \in Keys /\ ById[editor.position] \in Keys
                   /\ Rank(Keys, editor.want) = Rank(Keys, ById[editor.position])
        BY <3>1, <4>1, ByIdRanked DEF UInv, SeenStays
      <4>2. QED
        BY <4>1, KeysFinite, RankInjective DEF UInv
    <3>3. QED
      BY <1>1, <1>2, <2>2, <3>2 DEF UInv, SeenStays, EditHitsWhatWasSeen
  <2>3. QED
    BY <1>6, <2>1, <2>2 DEF FindUpdate
<1>7. CASE ModifyEventUpdate
  BY <1>1, <1>2, <1>7 DEF ModifyEventUpdate, UInv, SeenStays, EditHitsWhatWasSeen, Out
<1>8. QED
  BY <1>3, <1>4, <1>5, <1>6, <1>7 DEF EditorStep

-----------------------------------------------------------------------------
(* The theorems *)

LEMMA NextUInv == UInv /\ [Next]_vars => UInv'
<1> SUFFICES ASSUME UInv, [Next]_vars PROVE UInv'
  OBVIOUS
<1>1. CASE UNCHANGED updates
  BY <1>1 DEF updates, UInv, WInv, Keys, Ranked, SeenStays, EditHitsWhatWasSeen
<1>2. QED
  BY <1>1, WriterUInv, EditorUInv DEF Next, Read, Edit, vars

\* The update an edit hits is the one its client saw at that position of the
\* event, however many have been added meanwhile: the UPDATE of the event's
\* row makes keys commit in their order (PatchEventUpdateTextHandler).
THEOREM EditsHitWhatWasSeen == Spec => []EditHitsWhatWasSeen
<1>1. UInv => EditHitsWhatWasSeen
  BY DEF UInv, SeenStays
<1>2. QED
  BY InitUInv, NextUInv, <1>1, PTL DEF Spec

LEMMA StepKeepsTexts ==
  ASSUME UInv, [Next]_vars
  PROVE  [\A k \in DOMAIN update :
             k \in DOMAIN update' /\
             (update'[k] # update[k] => editor.at = "found" /\ editor.target = k)]_updates
<1>1. ASSUME NEW w \in Writer, CommitUpdate(w), NEW k \in DOMAIN update
      PROVE  k \in DOMAIN update' /\ update'[k] = update[k]
  BY <1>1 DEF CommitUpdate, UInv, WInv, Keys
<1>2. CASE update' = update
  BY <1>2
<1>3. CASE ModifyEventUpdate
  BY <1>3 DEF ModifyEventUpdate
<1>4. QED
  BY <1>1, <1>2, <1>3 DEF Next, Read, Edit, EditorStep, ViewEvent, ViewListed, AskEdit,
     FindUpdate, WriterStep, LoadEvent, LockEvent, InsertUpdate, Rollback, vars, updates

\* Saving an event takes no edit of its updates back, whenever it has been
\* loaded (ModifyIncident, ModifyEventUpdate).
THEOREM EditedTextsStay == Spec => EditedTextStays
<1>1. UInv /\ [Next]_vars =>
        [\A k \in DOMAIN update :
             k \in DOMAIN update' /\
             (update'[k] # update[k] => editor.at = "found" /\ editor.target = k)]_updates
  BY StepKeepsTexts
<1>2. QED
  BY InitUInv, NextUInv, <1>1, PTL DEF Spec, EditedTextStays

-----------------------------------------------------------------------------
(* Reading page by page *)

\* The events listed before event e.
Newer(e) == {f \in Matching : event[f].start > event[e].start}

\* What the client has been shown so far is newer than an event it is owed.
Ahead ==
    /\ reader.at \in {"count", "fetch"} =>
          \A e \in reader.owed :
             /\ e \in Matching
             /\ (reader.page - 1) * Limit <= Cardinality(Newer(e))
    /\ reader.at = "fetch" /\ reader.owed # {} => reader.total = Cardinality(Matching)
    /\ NoneMissed

LEMMA PagesBounds ==
  ASSUME NEW t \in Nat
  PROVE  /\ TotalPages(t) \in Nat /\ TotalPages(t) <= t
         /\ \A p \in Nat : TotalPages(t) <= p => t <= p * Limit
<1> DEFINE q == TotalPages(t)
<1>1. Limit \in Nat \ {0} /\ t + Limit - 1 \in Nat
  BY LimitAssumption
<1>2. q \in Nat /\ Limit * q <= t + Limit - 1 /\ t + Limit - 1 < Limit * q + Limit
  BY <1>1, DivisionBounds DEF TotalPages
<1> HIDE DEF q
<1>3. t <= q * Limit /\ q * Limit <= t + Limit - 1
  BY <1>1, <1>2
<1>4. q <= t
  <2>1. ASSUME t + 1 <= q PROVE FALSE
    <3>1. (t + 1) * Limit <= q * Limit /\ (t + 1) * Limit = t * Limit + Limit /\ t * 1 <= t * Limit
      BY <1>1, <1>2, <2>1, ProductGrows
    <3>2. t * 1 = t /\ t * Limit \in Nat /\ q * Limit \in Nat
      BY <1>1, <1>2
    <3>3. QED
      BY <1>1, <1>3, <3>1, <3>2
  <2>2. QED
    BY <1>2, <2>1
<1>5. ASSUME NEW p \in Nat, q <= p PROVE t <= p * Limit
  <2>1. q * Limit <= p * Limit /\ p * Limit \in Nat /\ q * Limit \in Nat
    BY <1>1, <1>2, <1>5, ProductGrows
  <2>2. QED
    BY <1>3, <2>1
<1>6. QED
  BY <1>2, <1>4, <1>5 DEF q

LEMMA MatchingFinite ==
  ASSUME PagesTypeOK
  PROVE  /\ IsFiniteSet(Matching) /\ Matching \subseteq Stored /\ Matching \in SUBSET Event
         /\ Cardinality(Matching) \in 0..Cardinality(Event) /\ Cardinality(Event) \in Nat
         /\ \A e \in Stored : event[e].start \in Nat
<1>1. Matching \in SUBSET Event /\ Matching \subseteq Stored
  BY DEF Matching, PagesTypeOK
<1>2. IsFiniteSet(Event)
  BY EventAssumption
<1>3. /\ IsFiniteSet(Matching) /\ Cardinality(Matching) <= Cardinality(Event)
      /\ Cardinality(Matching) \in Nat /\ Cardinality(Event) \in Nat
  <2> DEFINE M == Matching
  <2>1. M \in SUBSET Event
    BY <1>1
  <2> HIDE DEF M
  <2>2. IsFiniteSet(M) /\ Cardinality(M) <= Cardinality(Event)
    BY <1>2, <2>1, FS_Subset
  <2>3. Cardinality(M) \in Nat /\ Cardinality(Event) \in Nat
    BY <1>2, <2>2, FS_CardinalityType
  <2>4. QED
    BY <2>2, <2>3 DEF M
<1>4. \A e \in Stored : event[e].start \in Nat
  BY EventAssumption DEF PagesTypeOK
<1>5. QED
  BY <1>1, <1>3, <1>4

\* In a list without ties an event comes after the newer ones.
LEMMA PlaceInOrder ==
  ASSUME PagesTypeOK, NEW s \in Orders, NEW e \in Matching,
         \A f, g \in Matching : f # g => event[f].start # event[g].start
  PROVE  /\ Cardinality(Newer(e)) + 1 \in 1..Cardinality(Matching)
         /\ Cardinality(Newer(e)) + 1 \in DOMAIN s
         /\ s[Cardinality(Newer(e)) + 1] = e
<1> DEFINE n == Cardinality(Matching)
           D == 1..n
<1>1. /\ s \in [D -> Matching] /\ DOMAIN s = D
      /\ \A i, j \in D : s[i] = s[j] => i = j
      /\ \A i, j \in D : i < j => event[s[i]].start >= event[s[j]].start
  BY DEF Orders, SetToSeqs
<1>2. n \in Nat /\ \A f \in Matching : event[f].start \in Nat
  BY MatchingFinite
<1>3. \A f \in Matching : \E i \in D : s[i] = f
  <2>1. IsFiniteSet(Matching)
    BY MatchingFinite
  <2>2. Lists(s, Cardinality(Matching), Matching)
    BY <1>1 DEF Lists
  <2>3. QED
    BY <2>1, <2>2, ListingIsOnto DEF ListsAll
<1>4. PICK i \in D : s[i] = e
  BY <1>3
<1>5. i \in Nat \ {0} /\ i <= n /\ D \subseteq Nat
  BY <1>2
<1> HIDE DEF D, n
<1>6. ASSUME NEW j \in 1..(i - 1) PROVE s[j] \in Newer(e)
  <2>1. j \in D /\ j # i /\ j < i
    BY <1>2, <1>5 DEF D
  <2>2. s[j] # e /\ s[j] \in Matching /\ event[s[j]].start >= event[e].start
    BY <1>1, <1>4, <2>1
  <2>3. event[s[j]].start > event[e].start
    BY <1>2, <2>2
  <2>4. QED
    BY <2>2, <2>3 DEF Newer
<1>7. ASSUME NEW f \in Newer(e) PROVE \E j \in 1..(i - 1) : s[j] = f
  <2>1. f \in Matching /\ event[f].start > event[e].start
    BY DEF Newer
  <2>2. PICK j \in D : s[j] = f
    BY <1>3, <2>1
  <2>3. ~(i < j) /\ j # i
    BY <1>1, <1>2, <1>4, <2>1, <2>2
  <2>4. QED
    BY <1>5, <2>2, <2>3 DEF D
<1>8. Cardinality(Newer(e)) = i - 1
  <2>1. i - 1 \in Nat /\ 1..(i - 1) \subseteq D
    BY <1>2, <1>5 DEF D
  <2>2. ListsAll(s, i - 1, Newer(e))
    BY <1>1, <1>6, <1>7, <2>1 DEF ListsAll, Lists
  <2>3. QED
    BY <2>1, <2>2, ListingCounts
<1>9. QED
  BY <1>1, <1>4, <1>5, <1>8 DEF D, n

PInv == PagesTypeOK /\ Ahead

LEMMA InitPInv == Init => PInv
  BY DEF Init, PagesInit, PInv, PagesTypeOK, Ahead, NoneMissed, Stored, Resting, Reading

LEMMA NewerFinite ==
  ASSUME PagesTypeOK, NEW e
  PROVE  IsFiniteSet(Newer(e)) /\ Cardinality(Newer(e)) \in Nat
<1>1. Newer(e) \subseteq Matching /\ IsFiniteSet(Matching)
  BY MatchingFinite DEF Newer
<1> HIDE DEF Newer
<1>2. QED
  BY <1>1, FS_Subset, FS_CardinalityType

\* A reader to whom nothing is owed any longer.
LEMMA DisturbedIsReading ==
  ASSUME reader \in Reading, NEW by, reader' = Disturbed(by)
  PROVE  /\ reader' \in Reading /\ reader'.at = reader.at
         /\ reader' = reader \/ reader'.owed = {}
         /\ by => reader' = Resting \/ reader'.owed = {}
<1>1. CASE by /\ reader # Resting
  <2>1. reader' = [reader EXCEPT !.owed = {}]
    BY <1>1 DEF Disturbed
  <2>2. QED
    BY <1>1, <2>1 DEF Reading
<1>2. CASE ~(by /\ reader # Resting)
  BY <1>2 DEF Disturbed
<1>3. QED
  BY <1>1, <1>2

\* An event that comes in is at most one more newer one.
LEMMA AddEventPInv ==
  ASSUME PInv, NEW e \in Event, NEW d \in StartDates, AddEvent(e, d)
  PROVE  PInv'
<1>1. /\ e \notin Stored /\ reader \in Reading
      /\ event' = [f \in Stored \cup {e} |->
                     IF f = e THEN [start |-> d, matches |-> TRUE] ELSE event[f]]
      /\ reader' = Disturbed(reader.at = "fetch")
  BY DEF PInv, PagesTypeOK, AddEvent
<1>2. /\ reader' \in Reading /\ reader'.at = reader.at
      /\ reader' = reader \/ reader'.owed = {}
      /\ reader.at = "fetch" => reader' = Resting \/ reader'.owed = {}
  BY <1>1, DisturbedIsReading
<1>3. PagesTypeOK'
  <2>1. /\ Stored' = Stored \cup {e}
        /\ [start |-> d, matches |-> TRUE] \in [start : StartDates, matches : BOOLEAN]
    BY <1>1 DEF Stored
  <2>2. event' \in [Stored \cup {e} -> [start : StartDates, matches : BOOLEAN]]
    BY <1>1, <2>1 DEF PInv, PagesTypeOK
  <2>3. QED
    BY <1>2, <2>1, <2>2 DEF PInv, PagesTypeOK
<1>4. /\ Matching \subseteq Matching'
      /\ \A f \in Matching : event'[f] = event[f]
  BY <1>1 DEF Matching, Stored
<1>5. \A f \in Matching : Newer(f) \subseteq Newer(f)'
  BY <1>4 DEF Newer
<1>6. \A f \in Matching :
        /\ Cardinality(Newer(f)) <= Cardinality(Newer(f)')
        /\ Cardinality(Newer(f)) \in Nat /\ Cardinality(Newer(f)') \in Nat
  <2>1. ASSUME NEW f \in Matching
        PROVE  /\ Cardinality(Newer(f)) <= Cardinality(Newer(f)')
               /\ Cardinality(Newer(f)) \in Nat /\ Cardinality(Newer(f)') \in Nat
    <3> DEFINE A == Newer(f)
               B == Newer(f)'
    <3>1. B \in SUBSET Event /\ A \in SUBSET B
      BY <1>3, <1>5 DEF PagesTypeOK, Newer, Matching
    <3> HIDE DEF A, B
    <3>2. IsFiniteSet(B)
      BY <3>1, EventAssumption, FS_Subset
    <3>3. Cardinality(A) <= Cardinality(B) /\ Cardinality(A) \in Nat /\ Cardinality(B) \in Nat
      BY <3>1, <3>2, FS_Subset, FS_CardinalityType
    <3>4. QED
      BY <3>3 DEF A, B
  <2>2. QED
    BY <2>1
<1>7. Ahead'
  <2>1. CASE reader.at = "fetch"
    BY <1>2, <2>1 DEF Ahead, NoneMissed, Resting
  <2>2. CASE reader.at # "fetch" /\ reader' = reader
    <3>1. ASSUME reader.at = "count", NEW f \in reader.owed
          PROVE  /\ f \in Matching'
                 /\ (reader.page - 1) * Limit <= Cardinality(Newer(f)')
      <4>1. /\ f \in Matching
            /\ (reader.page - 1) * Limit <= Cardinality(Newer(f))
        BY <3>1 DEF PInv, Ahead
      <4>2. (reader.page - 1) * Limit \in Int
        BY <1>1, <3>1, LimitAssumption DEF Reading, Resting
      <4>3. QED
        BY <1>4, <1>6, <2>2, <4>1, <4>2
    <3>2. QED
      BY <2>2, <3>1 DEF PInv, Ahead, NoneMissed, Newer
  <2>3. CASE reader.at # "fetch" /\ reader'.owed = {}
    BY <1>2, <2>3 DEF Ahead, NoneMissed
  <2>4. QED
    BY <1>2, <2>1, <2>2, <2>3
<1>8. QED
  BY <1>3, <1>7 DEF PInv

LEMMA ChangeEventPInv ==
  ASSUME PInv, NEW e \in Event, ChangeEvent(e)
  PROVE  PInv'
<1>1. /\ e \in Stored /\ reader \in Reading
      /\ event' = [event EXCEPT ![e].matches = ~@]
      /\ reader' = Disturbed(TRUE)
  BY DEF PInv, PagesTypeOK, ChangeEvent
<1>2. reader' \in Reading /\ (reader' = Resting \/ reader'.owed = {})
  BY <1>1, DisturbedIsReading
<1>3. Stored' = Stored /\ event' \in [Stored -> [start : StartDates, matches : BOOLEAN]]
  BY <1>1 DEF Stored, PInv, PagesTypeOK
<1>4. QED
  BY <1>2, <1>3 DEF PInv, PagesTypeOK, Ahead, NoneMissed, Resting

LEMMA BeginReadingPInv ==
  ASSUME PInv, BeginReading
  PROVE  PInv'
<1>1. /\ reader' = [at |-> "count", page |-> 1, total |-> 0, owed |-> Matching]
      /\ event' = event
  BY DEF BeginReading
<1>2. Matching \in SUBSET Event /\ Cardinality(Event) \in Nat
  BY MatchingFinite DEF PInv
<1>3. reader' \in Reading
  BY <1>1, <1>2 DEF Reading
<1>4. \A e \in Matching : (1 - 1) * Limit <= Cardinality(Newer(e))
  <2>1. \A e \in Matching : Cardinality(Newer(e)) \in Nat
    BY NewerFinite DEF PInv
  <2>2. QED
    BY <2>1, LimitAssumption
<1>5. Matching' = Matching /\ \A e : Newer(e)' = Newer(e)
  BY <1>1 DEF Matching, Newer, Stored
<1>6. QED
  BY <1>1, <1>3, <1>4, <1>5 DEF PInv, PagesTypeOK, Ahead, NoneMissed, Stored

LEMMA CountEventsPInv ==
  ASSUME PInv, CountEvents
  PROVE  PInv'
<1>1. /\ reader.at = "count" /\ event' = event
      /\ reader' = [reader EXCEPT !.at = "fetch", !.total = Cardinality(Matching)]
  BY DEF CountEvents
<1>2. reader \in Reading /\ Cardinality(Matching) \in 0..Cardinality(Event)
  BY MatchingFinite DEF PInv, PagesTypeOK
<1>3. /\ reader' \in Reading /\ reader'.at = "fetch" /\ reader'.total = Cardinality(Matching)
      /\ reader'.page = reader.page /\ reader'.owed = reader.owed
  <2>1. reader \in [at : {"count", "fetch"}, page : 1..Cardinality(Event) + 1,
           total : 0..Cardinality(Event), owed : SUBSET Event]
    BY <1>1, <1>2 DEF Reading, Resting
  <2>2. QED
    BY <1>1, <1>2, <2>1 DEF Reading
<1>4. Matching' = Matching /\ \A e : Newer(e)' = Newer(e)
  BY <1>1 DEF Matching, Newer, Stored
<1>5. QED
  BY <1>1, <1>3, <1>4 DEF PInv, PagesTypeOK, Ahead, NoneMissed, Stored, Newer, Matching

\* An event that is owed and not on this page comes after it, and there is a
\* next one.
LEMMA FetchPagePInv ==
  ASSUME PInv, FetchPage
  PROVE  PInv'
<1>1. reader.at = "fetch" /\ event' = event /\ PagesTypeOK /\ Ahead
  BY DEF FetchPage, PInv
<1> DEFINE p == reader.page
           t == reader.total
<1>2. /\ reader \in [at : {"count", "fetch"}, page : 1..Cardinality(Event) + 1,
           total : 0..Cardinality(Event), owed : SUBSET Event]
      /\ p \in 1..Cardinality(Event) + 1 /\ t \in 0..Cardinality(Event)
      /\ Cardinality(Event) \in Nat /\ reader.owed \in SUBSET Event
  BY <1>1, MatchingFinite DEF PagesTypeOK, Reading, Resting
<1>3. TotalPages(t) \in Nat /\ TotalPages(t) <= t /\ (TotalPages(t) <= p => t <= p * Limit)
  BY <1>2, PagesBounds
<1>4. PICK s \in Orders :
        LET owed == IF Ties THEN {} ELSE reader.owed \ Page(s, p)
        IN  reader' = IF p < TotalPages(t)
                      THEN [reader EXCEPT !.at = "count", !.page = @ + 1, !.owed = owed]
                      ELSE [at |-> "done", owed |-> owed]
  BY DEF FetchPage
<1> DEFINE owed == IF Ties THEN {} ELSE reader.owed \ Page(s, p)
<1>5. owed \in SUBSET reader.owed /\ owed \in SUBSET Event
  BY <1>2
<1>6. \A e \in owed : ~Ties /\ e \in reader.owed /\ e \notin Page(s, p)
  OBVIOUS
<1>7. reader' = IF p < TotalPages(t)
                THEN [reader EXCEPT !.at = "count", !.page = p + 1, !.owed = owed]
                ELSE [at |-> "done", owed |-> owed]
  BY <1>4
<1> HIDE DEF owed
<1>8. /\ reader' \in Reading
       /\ \/ p < TotalPages(t) /\ reader'.at = "count" /\ reader'.page = p + 1
          \/ ~(p < TotalPages(t)) /\ reader'.at = "done"
       /\ reader'.owed = owed
  <2>1. CASE p < TotalPages(t)
    <3>1. p + 1 \in 1..Cardinality(Event) + 1
      BY <1>2, <1>3, <2>1
    <3>2. /\ reader' \in Reading /\ reader'.at = "count" /\ reader'.page = p + 1
          /\ reader'.owed = owed
      <4> HIDE DEF p, t
      <4> QED
        BY <1>2, <1>5, <1>7, <2>1, <3>1 DEF Reading
    <3>3. QED
      BY <2>1, <3>2
  <2>2. CASE ~(p < TotalPages(t))
    BY <1>5, <1>7, <2>2 DEF Reading
  <2>3. QED
    BY <2>1, <2>2
<1> HIDE DEF p, t
<1>9. ASSUME NEW e \in owed
       PROVE  /\ e \in Matching /\ p < TotalPages(t)
              /\ p * Limit <= Cardinality(Newer(e))
  <2>1. /\ ~Ties /\ e \notin Page(s, p) /\ e \in Matching
        /\ (p - 1) * Limit <= Cardinality(Newer(e)) /\ t = Cardinality(Matching)
    BY <1>1, <1>6, <1>9 DEF Ahead, p, t
  <2> DEFINE k == Cardinality(Newer(e)) + 1
  <2>2. k \in 1..t /\ k \in DOMAIN s /\ s[k] = e
    BY <1>1, <2>1, PlaceInOrder DEF Ties
  <2>3. Cardinality(Newer(e)) \in Nat
    BY <1>1, NewerFinite
  <2> DEFINE offset == IF p > 1 THEN (p - 1) * Limit ELSE 0
  <2>4. ~(offset < k /\ k <= offset + Limit)
    BY <2>1, <2>2 DEF Page
  <2>5. offset = (p - 1) * Limit /\ offset \in Nat /\ p * Limit = offset + Limit
    BY <1>2, LimitAssumption DEF p
  <2>6. k > p * Limit
    BY <2>1, <2>3, <2>4, <2>5, LimitAssumption
  <2>7. p < TotalPages(t)
    BY <1>2, <1>3, <2>2, <2>5, <2>6, LimitAssumption DEF p, t
  <2>8. QED
    BY <2>1, <2>3, <2>5, <2>6, <2>7, LimitAssumption
<1>10. Matching' = Matching /\ \A e : Newer(e)' = Newer(e)
  BY <1>1 DEF Matching, Newer, Stored
<1>11. Ahead'
  <2>1. CASE reader'.at = "count"
    <3>1. reader'.page - 1 = p
      BY <1>2, <1>8, <2>1 DEF p
    <3>2. QED
      BY <1>8, <1>9, <1>10, <2>1, <3>1 DEF Ahead, NoneMissed
  <2>2. CASE reader'.at = "done"
    BY <1>8, <1>9, <2>2 DEF Ahead, NoneMissed
  <2>3. QED
    BY <1>8, <2>1, <2>2
<1>12. QED
  BY <1>1, <1>8, <1>11 DEF PInv, PagesTypeOK, Stored

LEMMA NextPInv == PInv /\ [Next]_vars => PInv'
<1> SUFFICES ASSUME PInv, [Next]_vars PROVE PInv'
  OBVIOUS
<1>1. CASE UNCHANGED pages
  BY <1>1 DEF pages, PInv, PagesTypeOK, Ahead, NoneMissed, Stored, Newer, Matching
<1>2. CASE EndReading
  BY <1>2 DEF EndReading, PInv, PagesTypeOK, Ahead, NoneMissed, Stored, Resting, Reading
<1>3. CASE Read
  BY <1>2, <1>3, BeginReadingPInv, CountEventsPInv, FetchPagePInv DEF Read, ReaderStep
<1>4. QED
  BY <1>1, <1>3, AddEventPInv, ChangeEventPInv DEF Next, Edit, vars

\* A client that reads page after page misses no event that was there when it
\* began: those that come in go before it, and push it to a later page
\* (GetEventsWithCount, fetchPaginatedEvents).
THEOREM NothingIsMissed == Spec => []NoneMissed
<1>1. PInv => NoneMissed
  BY DEF PInv, Ahead
<1>2. QED
  BY InitPInv, NextPInv, <1>1, PTL DEF Spec

-----------------------------------------------------------------------------
(* The values of the variables *)

LEMMA InitTypeOK == Init => UpdatesTypeOK
<1> SUFFICES ASSUME Init PROVE UpdatesTypeOK
  OBVIOUS
<1>1. 0 \in 0..MaxUpdates /\ Out \in Writing /\ Out \in Editing
  BY UpdatesAssumption DEF Writing, Editing
<1>2. QED
  BY <1>1 DEF Init, UpdatesInit, UpdatesTypeOK

LEMMA WriterTypeOK ==
  ASSUME UpdatesTypeOK, NEW w \in Writer, WriterStep(w)
  PROVE  UpdatesTypeOK'
<1>1. ASSUME NEW s \in Writing, Writes(w, s), UNCHANGED <<update, lastUpdate, editor>>
      PROVE  UpdatesTypeOK'
  BY <1>1 DEF UpdatesTypeOK, Writes
<1>2. update \in Copies
  BY DEF UpdatesTypeOK, Copies
<1>3. CASE LoadEvent(w)
  <2>1. [at |-> "loaded", copy |-> update] \in Writing
    BY <1>2 DEF Writing
  <2>2. QED
    BY <1>1, <1>3, <2>1 DEF LoadEvent
<1>4. CASE LockEvent(w)
  <2>1. writer[w].at = "loaded" /\ writer[w] \in Writing
    BY <1>4 DEF LockEvent, UpdatesTypeOK
  <2>2. [writer[w] EXCEPT !.at = "locked"] \in Writing
    BY <2>1 DEF Writing, Out
  <2>3. QED
    BY <1>1, <1>4, <2>2 DEF LockEvent
<1>5. CASE InsertUpdate(w)
  <2> DEFINE s == [at |-> "inserted", copy |-> writer[w].copy, key |-> lastUpdate + 1]
  <2>1. writer[w].at = "locked" /\ writer[w] \in Writing
    BY <1>5 DEF InsertUpdate, UpdatesTypeOK
  <2>2. writer[w].copy \in Copies
    BY <2>1 DEF Writing, Out
  <2>3. lastUpdate + 1 \in Key /\ lastUpdate + 1 \in 0..MaxUpdates
    BY <1>5, UpdatesAssumption DEF InsertUpdate, UpdatesTypeOK, Key
  <2>4. s \in Writing
    BY <2>2, <2>3 DEF Writing
  <2>5. Writes(w, s) /\ lastUpdate' = lastUpdate + 1 /\ UNCHANGED <<update, editor>>
    BY <1>5 DEF InsertUpdate
  <2> HIDE DEF s
  <2>6. QED
    BY <2>3, <2>4, <2>5 DEF UpdatesTypeOK, Writes
<1>6. CASE CommitUpdate(w)
  <2>1. writer[w].at = "inserted" /\ writer[w] \in Writing
    BY <1>6 DEF CommitUpdate, UpdatesTypeOK
  <2>2. writer[w].key \in Key
    BY <2>1 DEF Writing, Out
  <2>3. /\ DOMAIN update' = DOMAIN update \cup {writer[w].key}
        /\ update' \in [DOMAIN update \cup {writer[w].key} -> Text]
    BY <1>6, UpdatesAssumption DEF CommitUpdate, UpdatesTypeOK
  <2>4. writer' \in [Writer -> Writing] /\ lastUpdate' = lastUpdate /\ editor' = editor
    BY <1>6 DEF CommitUpdate, UpdatesTypeOK, Writes, Writing
  <2>5. QED
    BY <2>2, <2>3, <2>4 DEF UpdatesTypeOK
<1>7. CASE Rollback(w)
  BY <1>1, <1>7 DEF Rollback, Writing
<1>8. QED
  BY <1>3, <1>4, <1>5, <1>6, <1>7 DEF WriterStep

LEMMA EditorTypeOK ==
  ASSUME UpdatesTypeOK, UInv, EditorStep
  PROVE  UpdatesTypeOK'
<1>1. ASSUME editor' \in Editing, UNCHANGED <<update, lastUpdate, writer>>
      PROVE  UpdatesTypeOK'
  BY <1>1 DEF UpdatesTypeOK
<1>2. Keys \subseteq Key /\ Cardinality(Keys) \in Nat
  BY KeysFinite DEF UpdatesTypeOK, UInv, Keys
<1>3. /\ DOMAIN ById = 1..Cardinality(Keys) /\ Len(ById) = Cardinality(Keys)
      /\ \A p \in 1..Cardinality(Keys) : ById[p] \in Keys
  BY ByIdRanked DEF UInv
<1>4. ById \in Seq(Key)
  BY <1>2, ByIdRanked DEF UInv
<1>5. CASE ViewEvent
  <2> DEFINE s == ById
  <2>1. editor' = [at |-> "viewed", seen |-> s, sorted |-> TRUE] /\ s \in Seq(Key)
    BY <1>4, <1>5 DEF ViewEvent
  <2> HIDE DEF s
  <2>2. QED
    BY <1>1, <1>5, <2>1 DEF ViewEvent, Editing
<1>6. CASE ViewListed
  <2>1. PICK s \in [1..Cardinality(Keys) -> Keys] :
          editor' = [at |-> "viewed", seen |-> s, sorted |-> FALSE]
    BY <1>6 DEF ViewListed, Keys
  <2>2. s \in Seq(Key)
    BY <1>2
  <2>3. QED
    BY <1>1, <1>6, <2>1, <2>2 DEF ViewListed, Editing
<1>7. CASE AskEdit
  <2>1. editor.at = "viewed" /\ editor \in Editing
    BY <1>7 DEF AskEdit, UpdatesTypeOK
  <2>2. editor.seen \in Seq(Key) /\ editor.sorted \in BOOLEAN
    BY <2>1 DEF Editing, Out
  <2>3. CASE editor' = Out
    BY <1>1, <1>7, <2>3 DEF AskEdit, Editing
  <2>4. ASSUME NEW p \in DOMAIN editor.seen,
               editor' = [at |-> "asked", position |-> p, want |-> editor.seen[p],
                          sorted |-> editor.sorted]
        PROVE  UpdatesTypeOK'
    <3>1. p \in Nat \ {0} /\ editor.seen[p] \in Key
      BY <2>2
    <3>2. editor' \in Editing
      BY <2>2, <2>4, <3>1 DEF Editing
    <3>3. QED
      BY <1>1, <1>7, <3>2 DEF AskEdit
  <2>5. QED
    BY <1>7, <2>3, <2>4 DEF AskEdit
<1>8. CASE FindUpdate
  <2>1. editor.at = "asked" /\ editor \in Editing
    BY <1>8 DEF FindUpdate, UpdatesTypeOK
  <2>2. editor.position \in Nat \ {0} /\ editor.want \in Key /\ editor.sorted \in BOOLEAN
    BY <2>1 DEF Editing, Out
  <2>3. CASE editor' = Out
    BY <1>1, <1>8, <2>3 DEF FindUpdate, Editing
  <2>4. CASE /\ ~(editor.position > Len(ById))
             /\ editor' = [at |-> "found", target |-> ById[editor.position],
                           want |-> editor.want, sorted |-> editor.sorted]
    <3>1. ById[editor.position] \in Key
      BY <1>2, <1>3, <2>2, <2>4
    <3>2. editor' \in Editing
      BY <2>2, <2>4, <3>1 DEF Editing
    <3>3. QED
      BY <1>1, <1>8, <3>2 DEF FindUpdate
  <2>5. QED
    BY <1>8, <2>3, <2>4 DEF FindUpdate
<1>9. CASE ModifyEventUpdate
  <2>1. DOMAIN update' = DOMAIN update /\ update' \in [DOMAIN update -> Text]
    BY <1>9 DEF ModifyEventUpdate, UpdatesTypeOK
  <2>2. QED
    BY <1>9, <2>1 DEF ModifyEventUpdate, UpdatesTypeOK, Editing
<1>10. QED
  BY <1>5, <1>6, <1>7, <1>8, <1>9 DEF EditorStep

LEMMA NextTypeOK == UpdatesTypeOK /\ UInv /\ [Next]_vars => UpdatesTypeOK'
<1> SUFFICES ASSUME UpdatesTypeOK, UInv, [Next]_vars PROVE UpdatesTypeOK'
  OBVIOUS
<1>1. CASE UNCHANGED updates
  BY <1>1 DEF updates, UpdatesTypeOK
<1>2. QED
  BY <1>1, WriterTypeOK, EditorTypeOK DEF Next, Read, Edit, vars

\* Every variable of the listings keeps its values.
THEOREM ListingsTyping == Spec => []TypeOK
<1>1. PInv /\ UpdatesTypeOK => TypeOK
  BY DEF PInv, TypeOK
<1>2. QED
  BY InitUInv, NextUInv, InitPInv, NextPInv, InitTypeOK, NextTypeOK, <1>1, PTL DEF Spec
===============================================================================
