----------------------------- MODULE CheckerProofs ----------------------------
(***************************************************************************)
(* What TLAPS proves of Checker, for any number of events, requests, dates *)
(* and faults: the types; that histories are in order, and the checker     *)
(* with the handlers implements LifeCycle, as long as PATCHes leave it to  *)
(* the checker to say that an event runs or is completed; and under which  *)
(* further assumptions each status is recorded once, and the checker skips *)
(* no event; and that the status of an event is always one its history     *)
(* tells.                                                                  *)
(***************************************************************************)
EXTENDS Checker, SequenceTheorems, FiniteLemmas

\* The statuses that claim something happened before them.
Claims == {MaintenanceInProgress, "active", "completed"}

LEMMA InProgressDistinct ==
  MaintenanceInProgress \notin {"planned", "active", "completed", "cancelled"}
  BY DEF MaintenanceInProgress

-----------------------------------------------------------------------------
(* Histories *)

LEMMA Appended ==
  ASSUME NEW h \in Seq(Status), NEW s \in Status
  PROVE  /\ h \o <<s>> \in Seq(Status) /\ Len(h) \in Nat
         /\ \A n \in 1..Len(h) : (h \o <<s>>)[n] = h[n]
         /\ (h \o <<s>>)[Len(h) + 1] = s
         /\ DOMAIN (h \o <<s>>) = 1..(Len(h) + 1) /\ DOMAIN h = 1..Len(h)
  OBVIOUS

LEMMA InAppended ==
  ASSUME NEW h \in Seq(Status), NEW s \in Status
  PROVE  /\ h \o <<s>> \in Seq(Status)
         /\ \A x : In(x, h \o <<s>>) <=> In(x, h) \/ x = s
<1> DEFINE g == h \o <<s>>
<1>1. /\ g \in Seq(Status) /\ Len(h) \in Nat
      /\ \A n \in 1..Len(h) : g[n] = h[n]
      /\ g[Len(h) + 1] = s
      /\ DOMAIN g = 1..(Len(h) + 1) /\ DOMAIN h = 1..Len(h)
  BY Appended
<1> HIDE DEF g
<1>3. \A x : In(x, g) <=> In(x, h) \/ x = s
  BY <1>1 DEF In
<1>4. QED
  BY <1>1, <1>3 DEF g

LEMMA OrderedAppended ==
  ASSUME NEW h \in Seq(Status), NEW s \in Status, Ordered(h),
         s \in {MaintenanceInProgress, "active"} => In("planned", h),
         s = "completed" => In(MaintenanceInProgress, h) \/ In("active", h)
  PROVE  Ordered(h \o <<s>>)
<1> DEFINE g == h \o <<s>>
<1>1. /\ g \in Seq(Status) /\ Len(h) \in Nat
      /\ \A n \in 1..Len(h) : g[n] = h[n]
      /\ g[Len(h) + 1] = s
      /\ DOMAIN g = 1..(Len(h) + 1) /\ DOMAIN h = 1..Len(h)
  BY Appended
<1> HIDE DEF g
<1>3. ASSUME NEW n \in 1..Len(h)
      PROVE  /\ g[n] \in {MaintenanceInProgress, "active"} => Earlier(g, "planned", n)
             /\ g[n] = "completed" => Earlier(g, MaintenanceInProgress, n) \/ Earlier(g, "active", n)
  BY <1>1, <1>3 DEF Ordered, Earlier
<1>4. /\ s \in {MaintenanceInProgress, "active"} => Earlier(g, "planned", Len(h) + 1)
      /\ s = "completed" => \/ Earlier(g, MaintenanceInProgress, Len(h) + 1)
                            \/ Earlier(g, "active", Len(h) + 1)
  BY <1>1 DEF In, Earlier
<1>5. Ordered(g)
  BY <1>1, <1>3, <1>4 DEF Ordered
<1>6. QED
  BY <1>5 DEF g

\* Sequences appended one after the other, or all at once.
LEMMA AppendedInTurn ==
  ASSUME NEW h \in Seq(Status), NEW p \in Seq(Status), NEW r \in Seq(Status),
         NEW c \in Seq(Status)
  PROVE  /\ (p \o r) \o c \in Seq(Status)
         /\ ((h \o p) \o r) \o c = h \o ((p \o r) \o c)
<1> DEFINE pr == p \o r
<1>1. pr \in Seq(Status)
  BY ConcatProperties
<1>2. (h \o p) \o r = h \o pr
  BY ConcatAssociative
<1> HIDE DEF pr
<1>3. pr \o c \in Seq(Status)
  BY <1>1, ConcatProperties
<1>4. (h \o pr) \o c = h \o (pr \o c)
  BY <1>1, ConcatAssociative
<1>5. QED
  BY <1>1, <1>2, <1>3, <1>4 DEF pr

\* One clause of MissedStatuses at the end of a history.
LEMMA UnlessAppended ==
  ASSUME NEW h \in Seq(Status), NEW s \in Status, Ordered(h), NEW had \in BOOLEAN,
         s \in {MaintenanceInProgress, "active"} => In("planned", h),
         ~had /\ s = "completed" => In(MaintenanceInProgress, h) \/ In("active", h)
  PROVE  /\ Unless(had, s) \in Seq(Status)
         /\ h \o Unless(had, s) \in Seq(Status)
         /\ Ordered(h \o Unless(had, s))
         /\ \A x : In(x, h) => In(x, h \o Unless(had, s))
         /\ ~had => In(s, h \o Unless(had, s))
<1>1. CASE had
  <2>1. Unless(had, s) = << >> /\ << >> \in Seq(Status)
    BY <1>1 DEF Unless
  <2>2. h \o Unless(had, s) = h
    BY <2>1, ConcatEmptySeq
  <2>3. QED
    BY <1>1, <2>1, <2>2
<1>2. CASE ~had
  <2>1. Unless(had, s) = <<s>>
    BY <1>2 DEF Unless
  <2>2. QED
    BY <1>2, <2>1, InAppended, OrderedAppended
<1>3. QED
  BY <1>1, <1>2

\* What a turn of the checker makes of a history h when it has looked at an
\* older version of it.
LEMMA MissedOrdered ==
  ASSUME NEW k \in {"maintenance", "info"}, NEW s \in Status,
         NEW h \in Seq(Status), NEW old \in Seq(Status),
         Ordered(h), \A x \in Status : In(x, old) => In(x, h)
  PROVE  /\ MissedStatuses(k, s, old) \in Seq(Status)
         /\ Ordered(h \o MissedStatuses(k, s, old))
         /\ \A x \in Status : In(x, h) => In(x, h \o MissedStatuses(k, s, old))
<1> DEFINE hadP == In("planned", old)
           hadR == s \notin {Running(k), "completed"} \/ In(Running(k), old)
           hadC == s # "completed" \/ In("completed", old)
           P == Unless(hadP, "planned")
           R == Unless(hadR, Running(k))
           C == Unless(hadC, "completed")
           h1 == h \o P
           h2 == h1 \o R
<1>1. /\ Running(k) \in Status /\ "planned" \in Status /\ "completed" \in Status
      /\ Running(k) \in {MaintenanceInProgress, "active"}
  BY DEF Running, Status, MaintenanceStatus, InformationStatus
<1>2. hadP \in BOOLEAN /\ hadR \in BOOLEAN /\ hadC \in BOOLEAN
  BY DEF In
<1>3. /\ P \in Seq(Status) /\ h1 \in Seq(Status) /\ Ordered(h1)
      /\ \A x : In(x, h) => In(x, h1)
      /\ In("planned", h1)
  <2>1. /\ P \in Seq(Status) /\ h1 \in Seq(Status) /\ Ordered(h1)
        /\ \A x : In(x, h) => In(x, h1)
        /\ ~hadP => In("planned", h1)
    <3> HIDE DEF hadP
    <3> QED
      BY <1>1, <1>2, InProgressDistinct, UnlessAppended
  <2>2. QED
    BY <1>1, <2>1
<1>4. /\ R \in Seq(Status) /\ h2 \in Seq(Status) /\ Ordered(h2)
      /\ \A x : In(x, h1) => In(x, h2)
      /\ ~hadC => In(MaintenanceInProgress, h2) \/ In("active", h2)
  <2>1. /\ R \in Seq(Status) /\ h2 \in Seq(Status) /\ Ordered(h2)
        /\ \A x : In(x, h1) => In(x, h2)
        /\ ~hadR => In(Running(k), h2)
    <3> HIDE DEF hadR, h1
    <3> QED
      BY <1>1, <1>2, <1>3, InProgressDistinct, UnlessAppended
  <2>2. ~hadC /\ hadR => In(Running(k), h1)
    BY <1>1, <1>3
  <2>3. ~hadC => In(Running(k), h2)
    BY <2>1, <2>2
  <2>4. QED
    BY <1>1, <2>1, <2>3
<1>5. /\ C \in Seq(Status) /\ Ordered(h2 \o C)
      /\ \A x : In(x, h2) => In(x, h2 \o C)
  <2> HIDE DEF hadC, h2
  <2> QED
    BY <1>1, <1>2, <1>4, UnlessAppended
<1>6. MissedStatuses(k, s, old) = (P \o R) \o C
  BY DEF MissedStatuses
<1>7. /\ (P \o R) \o C \in Seq(Status)
      /\ h \o ((P \o R) \o C) = h2 \o C
  <2>1. P \in Seq(Status) /\ R \in Seq(Status) /\ C \in Seq(Status)
    BY <1>3, <1>4, <1>5
  <2> HIDE DEF P, R, C
  <2> DEFINE Grouped(p, r, q) ==
               /\ (p \o r) \o q \in Seq(Status)
               /\ ((h \o p) \o r) \o q = h \o ((p \o r) \o q)
  <2>2. \A p, r, q \in Seq(Status) : Grouped(p, r, q)
    BY AppendedInTurn
  <2> HIDE DEF Grouped
  <2>3. Grouped(P, R, C)
    BY <2>1, <2>2
  <2>4. QED
    BY <2>3 DEF Grouped
<1>8. QED
  BY <1>3, <1>4, <1>5, <1>6, <1>7

-----------------------------------------------------------------------------
(* The inductive invariant *)

Types ==
    /\ nextId \in Nat
    /\ Ids \subseteq Id /\ row \in [Ids -> Row]
    /\ \A i \in Ids : i < nextId
    /\ req \in [Request -> [pc : {"idle", "commit", "firstStatus", "patch"}, copy : SUBSET Copy]]
    /\ watcher \in [Watched -> [pc : {"idle", "read", "work"}, list : SUBSET Copy,
                                seen : SUBSET Id, active : SUBSET Id]]

\* A row that waits for its commit is new, and empty; a status that waits to
\* be added claims nothing about the past.
Prepared(r) ==
    \A copy \in req[r].copy :
        /\ req[r].pc = "commit" =>
              copy.id \notin Ids /\ copy.id < nextId /\ copy.row.history = << >>
        /\ req[r].pc \in {"firstStatus", "patch"} =>
              copy.id \in Ids /\ copy.row.status \notin Claims

\* No two requests wait for the commit of the same id.
Apart ==
    \A r, q \in Request : r # q /\ req[r].pc = "commit" /\ req[q].pc = "commit" =>
        \A c \in req[r].copy, d \in req[q].copy : c.id # d.id

\* What a watcher has read of a history is still there.
StillThere(k) ==
    \A copy \in watcher[k].list :
        /\ copy.id \in Ids
        /\ \A s \in Status : In(s, copy.row.history) => In(s, row[copy.id].history)

CInv ==
    /\ Types
    /\ HistoryInOrder
    /\ \A r \in Request : Prepared(r)
    /\ Apart
    /\ \A k \in Watched : StillThere(k)

\* Histories only grow.
Grows ==
    \A i \in Ids : i \in Ids' /\ \A s \in Status : In(s, row[i].history) => In(s, row'[i].history)

\* Only event j is written, or added.
OnlyRow(j) == \A i \in Ids' \ {j} : i \in Ids /\ row'[i] = row[i]

-----------------------------------------------------------------------------
(* One lemma per action *)

LEMMA IdleTyped ==
  /\ IdleRequest \in [pc : {"idle", "commit", "firstStatus", "patch"}, copy : SUBSET Copy]
  /\ IdleWatcher \in [pc : {"idle", "read", "work"}, list : SUBSET Copy,
                      seen : SUBSET Id, active : SUBSET Id]
  BY DEF IdleRequest, IdleWatcher

\* ModifyIncident, when the statuses it adds fit.
LEMMA ModifyStep ==
  ASSUME CInv, NEW copy \in Copy, copy.id \in Ids, NEW added \in Seq(Status),
         Ordered(row[copy.id].history \o added),
         \A s \in Status : In(s, row[copy.id].history) => In(s, row[copy.id].history \o added),
         ModifyIncident(copy, added)
  PROVE  Ids' = Ids /\ row' \in [Ids -> Row] /\ HistoryInOrder' /\ Grows /\ OnlyRow(copy.id)
<1> DEFINE h == row[copy.id].history \o added
           e == IF copy.row.end = NoEnd THEN row[copy.id].end ELSE copy.row.end
           s == IF copy.row.status = NoStatus THEN row[copy.id].status ELSE copy.row.status
           new == [copy.row EXCEPT !.end = e, !.status = s, !.history = h]
<1>1. row \in [Ids -> Row] /\ row[copy.id] \in Row /\ copy.row \in Row
  BY DEF CInv, Types, Copy
<1>2. h \in Seq(Status)
  BY <1>1, ConcatProperties DEF Row
<1>3. row' = [row EXCEPT ![copy.id] = new]
  BY DEF ModifyIncident
<1>4. new \in Row /\ new.history = h
  <2>1. e \in EndDates /\ s \in Status
    BY <1>1 DEF Row
  <2> HIDE DEF e, s, h
  <2>2. QED
    BY <1>1, <1>2, <2>1 DEF Row
<1> HIDE DEF new
<1>5. row' \in [Ids -> Row] /\ Ids' = Ids
  BY <1>1, <1>3, <1>4 DEF Ids
<1>6. row'[copy.id].history = h /\ \A i \in Ids \ {copy.id} : row'[i] = row[i]
  BY <1>1, <1>3, <1>4
<1>7. HistoryInOrder'
  BY <1>5, <1>6 DEF CInv, HistoryInOrder
<1>8. Grows
  BY <1>5, <1>6 DEF Grows
<1>9. OnlyRow(copy.id)
  BY <1>5, <1>6 DEF OnlyRow
<1>10. QED
  BY <1>5, <1>7, <1>8, <1>9

\* Steps that leave ids alone and let histories grow keep what waits and what
\* has been read.
LEMMA GrowingStep ==
  ASSUME CInv, Ids' = Ids, row' \in [Ids -> Row], HistoryInOrder', Grows, nextId' = nextId,
         req' \in [Request -> [pc : {"idle", "commit", "firstStatus", "patch"}, copy : SUBSET Copy]],
         watcher' \in [Watched -> [pc : {"idle", "read", "work"}, list : SUBSET Copy,
                                   seen : SUBSET Id, active : SUBSET Id]],
         \A r \in Request : req'[r] = req[r] \/ req'[r] = IdleRequest,
         \A k \in Watched : watcher'[k].list \subseteq watcher[k].list
  PROVE  CInv'
<1>1. Types'
  BY DEF CInv, Types
<1>2. ASSUME NEW r \in Request PROVE Prepared(r)'
  BY DEF CInv, Prepared, IdleRequest
<1>3. Apart'
  BY DEF CInv, Apart, IdleRequest
<1>4. ASSUME NEW k \in Watched PROVE StillThere(k)'
  BY DEF CInv, StillThere, Grows
<1>5. QED
  BY <1>1, <1>2, <1>3, <1>4 DEF CInv

LEMMA InsertStep ==
  ASSUME CInv, NEW r \in Request, Insert(r)
  PROVE  CInv'
<1>1. PICK t \in NewTypes, s \in StartDates, e \in EndDates :
        Working(r, "commit", nextId, [type |-> t, start |-> s, end |-> e,
                                      status |-> NoStatus, history |-> << >>])
  BY DEF Insert
<1> DEFINE new == [type |-> t, start |-> s, end |-> e,
                   status |-> NoStatus, history |-> << >>]
           l == [pc |-> "commit", copy |-> {[id |-> nextId, row |-> new]}]
<1>2. new \in Row /\ new.history = << >>
  <2>1. t \in {"maintenance", "info"} /\ NoStatus \in Status /\ << >> \in Seq(Status)
    BY TypesAssumption DEF Status
  <2>2. QED
    BY <2>1 DEF Row
<1>3. req' = [req EXCEPT ![r] = l]
  BY <1>1 DEF Working
<1> HIDE DEF new
<1>4. /\ nextId \in Id /\ nextId' = nextId + 1 /\ nextId \in Nat
      /\ row' = row /\ Ids' = Ids /\ watcher' = watcher
  BY DEF Insert, CInv, Types, Ids
<1>5. \A i \in Ids : i < nextId
  BY DEF CInv, Types
<1>6. l.copy = {[id |-> nextId, row |-> new]} /\ l.pc = "commit" /\ l.copy \subseteq Copy
  BY <1>2, <1>4 DEF Copy
<1> HIDE DEF l
<1>7. \A q \in Request : req'[q] = IF q = r THEN l ELSE req[q]
  BY <1>3 DEF CInv, Types
<1>8. Types'
  <2>1. req' \in [Request -> [pc : {"idle", "commit", "firstStatus", "patch"}, copy : SUBSET Copy]]
    BY <1>3, <1>6, l \in [pc : {"commit"}, copy : SUBSET Copy] DEF CInv, Types, l
  <2>2. QED
    BY <1>4, <1>5, <2>1, BoundsAssumption DEF CInv, Types, Id
<1>9. ASSUME NEW q \in Request PROVE Prepared(q)'
  <2>1. CASE q = r
    BY <1>2, <1>4, <1>5, <1>6, <1>7, <2>1, BoundsAssumption DEF Prepared, Id
  <2>2. CASE q # r
    <3>1. \A copy \in req[q].copy : copy.id \in Nat
      BY BoundsAssumption DEF CInv, Types, Copy, Id
    <3>2. QED
      BY <1>4, <1>7, <2>2, <3>1 DEF CInv, Prepared
  <2>3. QED
    BY <2>1, <2>2
<1>10. ASSUME NEW q \in Request, q # r, req[q].pc = "commit", NEW d \in req[q].copy
       PROVE  d.id # nextId
  <2>1. d.id < nextId /\ d.id \in Nat
    BY <1>10, BoundsAssumption DEF CInv, Prepared, Types, Copy, Id
  <2>2. QED
    BY <1>4, <2>1
<1>11. Apart'
  BY <1>6, <1>7, <1>10 DEF CInv, Apart
<1>12. HistoryInOrder' /\ \A k \in Watched : StillThere(k)'
  BY <1>4 DEF CInv, HistoryInOrder, StillThere
<1>13. QED
  BY <1>8, <1>9, <1>11, <1>12 DEF CInv

LEMMA CommitStep ==
  ASSUME CInv, NEW r \in Request, Commit(r)
  PROVE  CInv'
<1>1. PICK copy \in req[r].copy :
        /\ row' = [i \in Ids \cup {copy.id} |-> IF i = copy.id THEN copy.row ELSE row[i]]
        /\ Working(r, "firstStatus", copy.id,
                   [copy.row EXCEPT !.status = InitialStatus(copy.row.type)])
  BY DEF Commit
<1> DEFINE new == [copy.row EXCEPT !.status = InitialStatus(copy.row.type)]
           l == [pc |-> "firstStatus", copy |-> {[id |-> copy.id, row |-> new]}]
<1>2. /\ req[r].pc = "commit" /\ nextId' = nextId /\ watcher' = watcher
      /\ copy \in Copy /\ copy.id \in Id /\ copy.row \in Row
      /\ copy.id \notin Ids /\ copy.id < nextId /\ copy.row.history = << >>
  BY DEF Commit, CInv, Types, Prepared, Copy
<1>3. new \in Row /\ new.status \notin Claims
  <2>1. InitialStatus(copy.row.type) = "planned" /\ "planned" \in Status
    BY <1>2 DEF Row, InitialStatus, Status, InformationStatus
  <2>2. "planned" \notin Claims
    BY InProgressDistinct DEF Claims
  <2>3. QED
    BY <1>2, <2>1, <2>2 DEF Row
<1>4. req' = [req EXCEPT ![r] = l]
  BY <1>1 DEF Working
<1> HIDE DEF new
<1>5. /\ l.copy = {[id |-> copy.id, row |-> new]} /\ l.pc = "firstStatus"
      /\ l \in [pc : {"firstStatus"}, copy : SUBSET Copy]
  BY <1>2, <1>3 DEF Copy
<1> HIDE DEF l
<1>6. \A q \in Request : req'[q] = IF q = r THEN l ELSE req[q]
  BY <1>4 DEF CInv, Types
<1>7. /\ Ids' = Ids \cup {copy.id}
      /\ \A i \in Ids : row'[i] = row[i]
      /\ row'[copy.id] = copy.row
      /\ row' \in [Ids' -> Row]
  BY <1>1, <1>2 DEF Ids, CInv, Types
<1>8. Types'
  <2>1. req' \in [Request -> [pc : {"idle", "commit", "firstStatus", "patch"}, copy : SUBSET Copy]]
    BY <1>4, <1>5 DEF CInv, Types
  <2>2. QED
    BY <1>2, <1>7, <2>1 DEF CInv, Types
<1>9. HistoryInOrder'
  <2>1. Ordered(<< >>)
    BY DEF Ordered
  <2>2. QED
    BY <1>2, <1>7, <2>1 DEF CInv, HistoryInOrder
<1>10. ASSUME NEW q \in Request PROVE Prepared(q)'
  <2>1. CASE q = r
    BY <1>3, <1>5, <1>6, <1>7, <2>1 DEF Prepared
  <2>2. CASE q # r
    BY <1>2, <1>6, <1>7, <2>2 DEF CInv, Prepared, Apart
  <2>3. QED
    BY <2>1, <2>2
<1>11. Apart'
  BY <1>5, <1>6 DEF CInv, Apart
<1>12. \A k \in Watched : StillThere(k)'
  BY <1>2, <1>7 DEF CInv, StillThere
<1>13. QED
  BY <1>8, <1>9, <1>10, <1>11, <1>12 DEF CInv

\* A handler adds a status that claims nothing about the past.
LEMMA StatusWrites ==
  ASSUME CInv, NEW r \in Request, req[r].pc \in {"firstStatus", "patch"},
         NEW copy \in req[r].copy, ModifyIncident(copy, <<copy.row.status>>)
  PROVE  Ids' = Ids /\ row' \in [Ids -> Row] /\ HistoryInOrder' /\ Grows /\ OnlyRow(copy.id)
<1> DEFINE h == row[copy.id].history
           s == copy.row.status
<1>1. /\ copy \in Copy /\ copy.id \in Ids /\ s \notin Claims
      /\ s \in Status /\ h \in Seq(Status)
  BY DEF CInv, Types, Prepared, Copy, Row
<1>2. Ordered(h)
  BY <1>1 DEF CInv, HistoryInOrder
<1>3. /\ <<s>> \in Seq(Status)
      /\ Ordered(h \o <<s>>)
      /\ \A x \in Status : In(x, h) => In(x, h \o <<s>>)
  <2> HIDE DEF h, s
  <2>1. <<s>> \in Seq(Status)
    BY <1>1
  <2>2. s \notin {MaintenanceInProgress, "active"} /\ s # "completed"
    BY <1>1 DEF Claims
  <2>3. QED
    BY <1>1, <1>2, <2>1, <2>2, InAppended, OrderedAppended
<1>4. QED
  BY <1>1, <1>3, ModifyStep

LEMMA StatusStep ==
  ASSUME CInv, NEW r \in Request, req[r].pc \in {"firstStatus", "patch"},
         NEW copy \in req[r].copy, ModifyIncident(copy, <<copy.row.status>>),
         Done(r), UNCHANGED <<nextId, watcher>>
  PROVE  CInv'
<1>1. /\ req' \in [Request -> [pc : {"idle", "commit", "firstStatus", "patch"}, copy : SUBSET Copy]]
      /\ \A q \in Request : req'[q] = req[q] \/ req'[q] = IdleRequest
  BY IdleTyped DEF Done, CInv, Types
<1>2. QED
  BY <1>1, StatusWrites, GrowingStep DEF CInv, Types

LEMMA PatchRequestStep ==
  ASSUME CInv, NEW r \in Request, PatchRequest(r), PatchStatus \cap Claims = {}
  PROVE  CInv'
<1>0. PICK i \in Ids, s \in PatchStatus :
        \E t \in PatchTypes \cup {row[i].type} :
        \E d \in {row[i].start} \cup (IF PatchDates THEN StartDates ELSE {}) :
        \E e \in {row[i].end} \cup (IF PatchDates THEN EndDates \ {NoEnd} ELSE {}) :
          Working(r, "patch", i, [row[i] EXCEPT !.type = t, !.start = d, !.end = e, !.status = s])
  BY DEF PatchRequest
<1>1. PICK t \in PatchTypes \cup {row[i].type} :
        \E d \in {row[i].start} \cup (IF PatchDates THEN StartDates ELSE {}),
           e \in {row[i].end} \cup (IF PatchDates THEN EndDates \ {NoEnd} ELSE {}) :
          Working(r, "patch", i, [row[i] EXCEPT !.type = t, !.start = d, !.end = e, !.status = s])
  BY <1>0
<1>2. PICK d \in {row[i].start} \cup (IF PatchDates THEN StartDates ELSE {}),
           e \in {row[i].end} \cup (IF PatchDates THEN EndDates \ {NoEnd} ELSE {}) :
          Working(r, "patch", i, [row[i] EXCEPT !.type = t, !.start = d, !.end = e, !.status = s])
  BY <1>1
<1> DEFINE new == [row[i] EXCEPT !.type = t, !.start = d, !.end = e, !.status = s]
           l == [pc |-> "patch", copy |-> {[id |-> i, row |-> new]}]
<1>3. row[i] \in Row /\ i \in Id
  BY DEF CInv, Types
<1>4. new \in Row /\ new.status = s
  <2>1. t \in {"maintenance", "info"} /\ d \in StartDates /\ e \in EndDates /\ s \in Status
    BY <1>3, TypesAssumption, PatchStatusAssumption, BoundsAssumption DEF Row, Status
  <2>2. QED
    BY <1>3, <2>1 DEF Row
<1>5. req' = [req EXCEPT ![r] = l]
  BY <1>2 DEF Working
<1> HIDE DEF new
<1>6. /\ l.copy = {[id |-> i, row |-> new]} /\ l.pc = "patch"
      /\ l \in [pc : {"patch"}, copy : SUBSET Copy]
  BY <1>3, <1>4 DEF Copy
<1> HIDE DEF l
<1>7. \A q \in Request : req'[q] = IF q = r THEN l ELSE req[q]
  BY <1>5 DEF CInv, Types
<1>8. nextId' = nextId /\ row' = row /\ Ids' = Ids /\ watcher' = watcher
  BY DEF PatchRequest, Ids
<1>9. req' \in [Request -> [pc : {"idle", "commit", "firstStatus", "patch"}, copy : SUBSET Copy]]
  BY <1>5, <1>6 DEF CInv, Types
<1>10. Types' /\ HistoryInOrder' /\ \A k \in Watched : StillThere(k)'
  BY <1>8, <1>9 DEF CInv, Types, HistoryInOrder, StillThere
<1>11. ASSUME NEW q \in Request PROVE Prepared(q)'
  <2>1. s \notin Claims
    OBVIOUS
  <2>2. QED
    BY <1>4, <1>6, <1>7, <1>8, <2>1 DEF CInv, Prepared
<1>12. Apart'
  BY <1>6, <1>7 DEF CInv, Apart
<1>13. QED
  BY <1>10, <1>11, <1>12 DEF CInv

LEMMA ReadStep ==
  ASSUME CInv, NEW k \in Watched, Read(k)
  PROVE  CInv'
<1> DEFINE ids == Listed(k)
           l == [pc |-> "work", list |-> {[id |-> i, row |-> row[i]] : i \in ids},
                 seen |-> ids, active |-> {}]
<1>1. watcher' = [watcher EXCEPT ![k] = IF ids = {} THEN IdleWatcher ELSE l]
  BY DEF Read
<1>2. ids \subseteq Ids /\ ids \subseteq Id /\ \A i \in ids : row[i] \in Row
  BY DEF Listed, CInv, Types
<1> HIDE DEF ids
<1>3. l.list \subseteq Copy
  BY <1>2 DEF Copy
<1>4. watcher' \in [Watched -> [pc : {"idle", "read", "work"}, list : SUBSET Copy,
                                seen : SUBSET Id, active : SUBSET Id]]
  BY <1>1, <1>2, <1>3, IdleTyped DEF CInv, Types
<1>5. nextId' = nextId /\ row' = row /\ Ids' = Ids /\ req' = req
  BY DEF Read, Ids
<1>6. \A copy \in watcher'[k].list : copy.id \in Ids /\ copy.row = row[copy.id]
  BY <1>1, <1>2 DEF CInv, Types, IdleWatcher
<1>7. \A j \in Watched \ {k} : watcher'[j] = watcher[j]
  BY <1>1 DEF CInv, Types
<1>8. ASSUME NEW j \in Watched PROVE StillThere(j)'
  BY <1>5, <1>6, <1>7 DEF CInv, StillThere
<1>9. Types' /\ HistoryInOrder' /\ Apart' /\ \A r \in Request : Prepared(r)'
  BY <1>4, <1>5 DEF CInv, Types, HistoryInOrder, Apart, Prepared
<1>10. QED
  BY <1>8, <1>9 DEF CInv

LEMMA StatusTypedNow ==
  ASSUME NEW k \in {"maintenance", "info"}, NEW e \in Row
  PROVE  CurrentStatus(k, e) \in Status
<1>1. {"cancelled", "planned", MaintenanceInProgress, "active", "completed"} \subseteq Status
  BY DEF Status, MaintenanceStatus, InformationStatus
<1>2. CurrentMntStatus(e) \in {"cancelled", "planned", MaintenanceInProgress, "completed"}
  BY DEF CurrentMntStatus
<1>3. CurrentInfoStatus(e) \in {"cancelled", "planned", "active", "completed"}
  BY DEF CurrentInfoStatus
<1>4. QED
  BY <1>1, <1>2, <1>3 DEF CurrentStatus

\* What CheckNext does to the rows is a ModifyIncident that fits.
LEMMA CheckNextWrites ==
  ASSUME CInv, NEW k \in Watched, CheckNext(k)
  PROVE  /\ Ids' = Ids /\ row' \in [Ids -> Row] /\ HistoryInOrder' /\ Grows
         /\ \E j \in Ids : OnlyRow(j)
<1>1. PICK copy \in Highest(k) :
        ModifyIncident([copy EXCEPT !.row.status =
                          IF k = "maintenance" THEN CurrentStatus(k, copy.row) ELSE @],
                       MissedStatuses(k, CurrentStatus(k, copy.row), copy.row.history))
  BY DEF CheckNext
<1> DEFINE s == CurrentStatus(k, copy.row)
           copy2 == [copy EXCEPT !.row.status = IF k = "maintenance" THEN s ELSE @]
           old == copy.row.history
           h == row[copy.id].history
           added == MissedStatuses(k, s, old)
<1>2. copy \in watcher[k].list
  BY DEF Highest
<1>3. /\ copy \in Copy /\ copy.row \in Row /\ copy.id \in Ids
      /\ \A x \in Status : In(x, old) => In(x, h)
  BY <1>2 DEF CInv, Types, StillThere, Copy
<1>4. k \in {"maintenance", "info"}
  BY WatchedAssumption
<1>5. s \in Status
  BY <1>3, <1>4, StatusTypedNow
<1>6. old \in Seq(Status) /\ h \in Seq(Status) /\ Ordered(h)
  BY <1>3 DEF CInv, Types, HistoryInOrder, Row
<1> HIDE DEF s
<1>7. copy2 \in Copy /\ copy2.id = copy.id
  <2> DEFINE st == IF k = "maintenance" THEN s ELSE copy.row.status
             e == [copy.row EXCEPT !.status = st]
  <2>1. st \in Status
    BY <1>3, <1>5 DEF Row
  <2>2. copy2 = [copy EXCEPT !.row = e]
    BY <1>3 DEF Copy
  <2> HIDE DEF st
  <2>3. e \in Row
    BY <1>3, <2>1 DEF Row
  <2> HIDE DEF e
  <2>4. QED
    BY <1>3, <2>2, <2>3 DEF Copy
<1>8. ModifyIncident(copy2, added)
  BY <1>1 DEF s
<1> HIDE DEF copy2, old, h
<1>9. /\ added \in Seq(Status) /\ Ordered(h \o added)
      /\ \A x \in Status : In(x, h) => In(x, h \o added)
  BY <1>3, <1>4, <1>5, <1>6, MissedOrdered
<1> HIDE DEF added
<1>10. QED
  BY <1>3, <1>7, <1>8, <1>9, ModifyStep DEF h

LEMMA CheckNextStep ==
  ASSUME CInv, NEW k \in Watched, CheckNext(k)
  PROVE  CInv'
<1>1. PICK copy \in Highest(k) :
        \E active \in {watcher[k].active, watcher[k].active \cup {copy.id}} :
        watcher' = [watcher EXCEPT ![k] =
                      IF watcher[k].list \ {copy} = {} THEN IdleWatcher
                      ELSE [@ EXCEPT !.list = watcher[k].list \ {copy}, !.active = active]]
  <2>1. PICK copy \in Highest(k) :
          LET w      == watcher[k]
              status == CurrentStatus(k, copy.row)
              active == w.active \cup (IF status \in {"planned", Running(k)} THEN {copy.id} ELSE {})
              rest   == w.list \ {copy}
          IN  IF rest = {}
              THEN watcher' = [watcher EXCEPT ![k] = IdleWatcher]
              ELSE watcher' = [watcher EXCEPT ![k].list = rest, ![k].active = active]
    BY DEF CheckNext
  <2> DEFINE active == watcher[k].active \cup
                (IF CurrentStatus(k, copy.row) \in {"planned", Running(k)} THEN {copy.id} ELSE {})
  <2>2. active \in {watcher[k].active, watcher[k].active \cup {copy.id}}
    OBVIOUS
  <2>3. watcher' = [watcher EXCEPT ![k] =
                      IF watcher[k].list \ {copy} = {} THEN IdleWatcher
                      ELSE [@ EXCEPT !.list = watcher[k].list \ {copy}, !.active = active]]
    BY <2>1 DEF CInv, Types
  <2> HIDE DEF active
  <2>4. QED
    BY <2>2, <2>3
<1>2. copy \in Copy /\ copy.id \in Id
  BY DEF Highest, CInv, Types, Copy
<1>3. watcher' \in [Watched -> [pc : {"idle", "read", "work"}, list : SUBSET Copy,
                                seen : SUBSET Id, active : SUBSET Id]]
  <2>1. PICK active \in {watcher[k].active, watcher[k].active \cup {copy.id}} :
          watcher' = [watcher EXCEPT ![k] =
                        IF watcher[k].list \ {copy} = {} THEN IdleWatcher
                        ELSE [@ EXCEPT !.list = watcher[k].list \ {copy}, !.active = active]]
    BY <1>1
  <2> DEFINE w == [watcher[k] EXCEPT !.list = watcher[k].list \ {copy}, !.active = active]
  <2>2. w \in [pc : {"idle", "read", "work"}, list : SUBSET Copy,
               seen : SUBSET Id, active : SUBSET Id]
    <3>1. active \subseteq Id /\ watcher[k].list \ {copy} \subseteq Copy
      BY <1>2 DEF CInv, Types
    <3>2. watcher[k] \in [pc : {"idle", "read", "work"}, list : SUBSET Copy,
                          seen : SUBSET Id, active : SUBSET Id]
      BY DEF CInv, Types
    <3>3. QED
      BY <3>1, <3>2
  <2>3. watcher' = [watcher EXCEPT ![k] = IF watcher[k].list \ {copy} = {} THEN IdleWatcher ELSE w]
    BY <2>1 DEF CInv, Types
  <2> HIDE DEF w
  <2>4. QED
    BY <2>2, <2>3, IdleTyped DEF CInv, Types
<1>4. \A j \in Watched : watcher'[j].list \subseteq watcher[j].list
  BY <1>1 DEF CInv, Types, IdleWatcher
<1>5. nextId' = nextId /\ req' = req
  BY DEF CheckNext
<1>6. QED
  BY <1>3, <1>4, <1>5, CheckNextWrites, GrowingStep DEF CInv, Types

\* Steps of the checker, the clock and the process that write no row.
LEMMA QuietStep ==
  ASSUME CInv, UNCHANGED <<nextId, row>>,
         \A r \in Request : req'[r] = req[r] \/ req'[r] = IdleRequest,
         req' = [r \in Request |-> req'[r]],
         \A k \in Watched : \/ watcher'[k] = watcher[k]
                            \/ watcher'[k] \in {IdleWatcher, [IdleWatcher EXCEPT !.pc = "read"]},
         watcher' = [k \in Watched |-> watcher'[k]]
  PROVE  CInv'
<1>1. Ids' = Ids /\ row' \in [Ids -> Row] /\ nextId' = nextId /\ HistoryInOrder' /\ Grows
  BY DEF Ids, CInv, Types, HistoryInOrder, Grows
<1>2. \A r \in Request :
        req'[r] \in [pc : {"idle", "commit", "firstStatus", "patch"}, copy : SUBSET Copy]
  BY IdleTyped DEF CInv, Types
<1>3. \A k \in Watched :
        /\ watcher'[k] \in [pc : {"idle", "read", "work"}, list : SUBSET Copy,
                            seen : SUBSET Id, active : SUBSET Id]
        /\ watcher'[k].list \subseteq watcher[k].list
  BY DEF CInv, Types, IdleWatcher
<1>4. /\ req' \in [Request -> [pc : {"idle", "commit", "firstStatus", "patch"}, copy : SUBSET Copy]]
      /\ watcher' \in [Watched -> [pc : {"idle", "read", "work"}, list : SUBSET Copy,
                                   seen : SUBSET Id, active : SUBSET Id]]
  BY <1>2, <1>3
<1>5. QED
  BY <1>1, <1>3, <1>4, GrowingStep

LEMMA InitCInv == Init => CInv
<1> SUFFICES ASSUME Init PROVE CInv
  OBVIOUS
<1>1. Ids = {} /\ row \in [Ids -> Row] /\ nextId = 1
  <2>1. row = << >> /\ DOMAIN row = {}
    BY DEF Init
  <2>2. QED
    BY <2>1 DEF Init, Ids
<1>2. \A r \in Request : req[r] = IdleRequest /\ req[r].copy = {}
  BY DEF Init, IdleRequest
<1>3. \A k \in Watched : watcher[k] = IdleWatcher /\ watcher[k].list = {}
  BY DEF Init, IdleWatcher
<1>4. Types
  <2>1. /\ req \in [Request -> [pc : {"idle", "commit", "firstStatus", "patch"}, copy : SUBSET Copy]]
        /\ watcher \in [Watched -> [pc : {"idle", "read", "work"}, list : SUBSET Copy,
                                    seen : SUBSET Id, active : SUBSET Id]]
    BY IdleTyped DEF Init
  <2>2. QED
    BY <1>1, <2>1 DEF Types
<1>5. QED
  BY <1>1, <1>2, <1>3, <1>4 DEF CInv, HistoryInOrder, Prepared, Apart, StillThere

\* As long as operators leave it to the checker to say that an event runs or
\* is completed, every step keeps the invariant.
LEMMA NextCInv ==
  ASSUME CInv, [Next]_vars, PatchStatus \cap Claims = {}
  PROVE  CInv'
<1>1. ASSUME NEW r \in Request, Insert(r) PROVE CInv'
  BY <1>1, InsertStep
<1>2. ASSUME NEW r \in Request, Commit(r) PROVE CInv'
  BY <1>2, CommitStep
<1>3. ASSUME NEW r \in Request, FirstStatus(r) PROVE CInv'
  BY <1>3, StatusStep DEF FirstStatus
<1>4. ASSUME NEW r \in Request, PatchRequest(r) PROVE CInv'
  BY <1>4, PatchRequestStep
<1>5. ASSUME NEW r \in Request, Patch(r) PROVE CInv'
  BY <1>5, StatusStep DEF Patch
<1>6. ASSUME NEW k \in Watched, Read(k) PROVE CInv'
  BY <1>6, ReadStep
<1>7. ASSUME NEW k \in Watched, CheckNext(k) PROVE CInv'
  BY <1>7, CheckNextStep
<1>8. ASSUME NEW k \in Watched, CheckFails(k) PROVE CInv'
  BY <1>8, QuietStep DEF CheckFails, CInv, Types
<1>9. ASSUME ProcessLost PROVE CInv'
  BY <1>9, QuietStep DEF ProcessLost
<1>10. CASE Tick
  BY <1>10, QuietStep DEF Tick, CInv, Types
<1>11. CASE ClockTicks
  BY <1>11, QuietStep DEF ClockTicks, CInv, Types
<1>12. CASE UNCHANGED vars
  BY <1>12, QuietStep DEF vars, CInv, Types
<1>13. QED
  BY <1>1, <1>2, <1>3, <1>4, <1>5, <1>6, <1>7, <1>8, <1>9, <1>10, <1>11, <1>12
  DEF Next, Restart, Panic

\* Histories are in order, however the checks, the requests, the failures and
\* the restarts interleave (fixMntMissedStatuses, fixInfoMissedStatuses), as
\* long as no PATCH claims that an event runs or is completed.
THEOREM HistoriesInOrder ==
  ASSUME PatchStatus \cap Claims = {}
  PROVE  Spec => []HistoryInOrder
<1>1. CInv /\ [Next]_vars => CInv'
  BY NextCInv
<1>2. CInv => HistoryInOrder
  BY DEF CInv
<1>3. QED
  BY <1>1, <1>2, InitCInv, PTL DEF Spec

-----------------------------------------------------------------------------
(* The refinement *)

\* Every step leaves what is told, and writes one event at most.
LEMMA WritesOneRow ==
  ASSUME CInv, Next, PatchStatus \cap Claims = {}
  PROVE  row' = row \/ (Grows /\ \E j \in Id : OnlyRow(j))
<1>1. ASSUME NEW r \in Request, Commit(r) PROVE Grows /\ \E j \in Id : OnlyRow(j)
  <2>1. PICK copy \in req[r].copy :
          row' = [i \in Ids \cup {copy.id} |-> IF i = copy.id THEN copy.row ELSE row[i]]
    BY <1>1 DEF Commit
  <2>2. copy.id \in Id /\ copy.id \notin Ids
    BY <1>1 DEF Commit, CInv, Types, Prepared, Copy
  <2>3. Ids' = Ids \cup {copy.id} /\ \A i \in Ids : row'[i] = row[i]
    BY <2>1, <2>2 DEF Ids
  <2>4. Grows /\ OnlyRow(copy.id)
    BY <2>3 DEF Grows, OnlyRow
  <2>5. QED
    BY <2>2, <2>4
<1>2. ASSUME NEW r \in Request, FirstStatus(r) \/ Patch(r)
      PROVE  Grows /\ \E j \in Id : OnlyRow(j)
  <2>1. PICK copy \in req[r].copy : ModifyIncident(copy, <<copy.row.status>>)
    BY <1>2 DEF FirstStatus, Patch
  <2>2. copy.id \in Id /\ req[r].pc \in {"firstStatus", "patch"}
    BY <1>2 DEF FirstStatus, Patch, CInv, Types, Copy
  <2>3. QED
    BY <2>1, <2>2, StatusWrites
<1>3. ASSUME NEW k \in Watched, CheckNext(k) PROVE Grows /\ \E j \in Id : OnlyRow(j)
  BY <1>3, CheckNextWrites DEF CInv, Types
<1>4. ASSUME NEW r \in Request, Insert(r) \/ PatchRequest(r) PROVE row' = row
  BY <1>4 DEF Insert, PatchRequest
<1>5. ASSUME NEW k \in Watched, Read(k) \/ CheckFails(k) \/ Panic(k) PROVE row' = row
  BY <1>5 DEF Read, CheckFails, Panic, ProcessLost
<1>6. CASE Tick \/ Restart \/ ClockTicks
  BY <1>6 DEF Tick, Restart, ClockTicks, ProcessLost
<1>7. QED
  BY <1>1, <1>2, <1>3, <1>4, <1>5, <1>6 DEF Next

\* A history in order tells a life in order.
LEMMA OrderedTells ==
  ASSUME NEW h \in Seq(Status), Ordered(h)
  PROVE  /\ In("completed", h) => In(MaintenanceInProgress, h) \/ In("active", h)
         /\ In(MaintenanceInProgress, h) \/ In("active", h) => In("planned", h)
<1>1. DOMAIN h = 1..Len(h) /\ Len(h) \in Nat
  OBVIOUS
<1>2. \A n \in DOMAIN h, s \in Status : Earlier(h, s, n) => In(s, h)
  BY <1>1 DEF Earlier, In
<1>3. {"planned", MaintenanceInProgress, "active"} \subseteq Status
  BY DEF Status, MaintenanceStatus, InformationStatus
<1>4. QED
  BY <1>2, <1>3 DEF Ordered, In

LEMMA StepTells ==
  ASSUME CInv, CInv', [Next]_vars, PatchStatus \cap Claims = {}
  PROVE  Page!Next \/ UNCHANGED [i \in Id |-> Told(i)]
<1> DEFINE told == [i \in Id |-> Told(i)]
<1>1. CASE row' = row
  <2>1. \A i \in Id : Told(i)' = Told(i)
    BY <1>1 DEF Told, Ids, In
  <2>2. QED
    BY <2>1
<1>2. ASSUME Grows, NEW j \in Id, OnlyRow(j)
      PROVE  Page!Next
  <2>1. ASSUME NEW i \in Id, i # j PROVE Told(i)' = Told(i)
    <3>1. (i \in Ids' <=> i \in Ids) /\ (i \in Ids => row'[i] = row[i])
      BY <1>2, <2>1 DEF Grows, OnlyRow
    <3>2. QED
      BY <3>1 DEF Told, In
  <2>2. Told(j) \subseteq Told(j)'
    <3>1. {"planned", "completed", "cancelled", MaintenanceInProgress, "active"} \subseteq Status
      BY DEF Status, MaintenanceStatus, InformationStatus
    <3>2. \A s \in {"planned", "completed", "cancelled", MaintenanceInProgress, "active"} :
            j \in Ids /\ In(s, row[j].history) => j \in Ids' /\ In(s, row'[j].history)
      BY <1>2, <3>1 DEF Grows
    <3>3. \A s : In(s, row[j].history)' <=> In(s, row'[j].history)
      BY DEF In
    <3>4. QED
      BY <3>2, <3>3 DEF Told
  <2>3. Page!InOrder(Told(j)')
    <3> DEFINE h == row'[j].history
    <3>1. CASE j \notin Ids'
      BY <3>1 DEF Told, Page!InOrder, Page!Life
    <3>2. CASE j \in Ids'
      <4>1. h \in Seq(Status) /\ Ordered(h)
        BY <3>2 DEF CInv, Types, HistoryInOrder, Row
      <4>2. \A s : In(s, row[j].history)' <=> In(s, h)
        BY DEF In
      <4> HIDE DEF h
      <4>3. /\ In("completed", h) => In(MaintenanceInProgress, h) \/ In("active", h)
            /\ In(MaintenanceInProgress, h) \/ In("active", h) => In("planned", h)
        BY <4>1, OrderedTells
      <4>4. Told(j)' = {n \in {"planned", "completed", "cancelled"} : In(n, h)}
                        \cup (IF In(MaintenanceInProgress, h) \/ In("active", h)
                              THEN {"running"} ELSE {})
        BY <3>2, <4>2 DEF Told
      <4>5. QED
        BY <4>3, <4>4 DEF Page!InOrder, Page!Life
    <3>3. QED
      BY <3>1, <3>2
  <2> DEFINE news == Told(j)'
  <2>4. news \in SUBSET {"planned", "running", "completed", "cancelled"}
    BY DEF Told
  <2>5. Told(j) \cup news = news
    BY <2>2
  <2>6. told' = [told EXCEPT ![j] = @ \cup news]
    BY <2>1, <2>5
  <2>7. Page!Tell(j, news)
    BY <2>3, <2>5, <2>6 DEF Page!Tell
  <2>8. QED
    BY <2>4, <2>7 DEF Page!Next
<1>3. CASE Next
  BY <1>1, <1>2, <1>3, WritesOneRow
<1>4. CASE UNCHANGED vars
  BY <1>1, <1>4 DEF vars
<1>5. QED
  BY <1>3, <1>4

\* The checker with the handlers implements LifeCycle, under the same
\* condition: the life of an event is told in order, and nothing of it is
\* taken back, however stale the structs are that are written.
THEOREM CheckerTellsEachLife ==
  ASSUME PatchStatus \cap Claims = {}
  PROVE  Spec => TellsEachLife
<1>1. Init => Page!Init
  <2> SUFFICES ASSUME Init PROVE Page!Init
    OBVIOUS
  <2>1. \A i \in Id : Told(i) = {}
    BY DEF Init, Told, Ids
  <2>2. QED
    BY <2>1 DEF Page!Init
<1>2. CInv /\ [Next]_vars => CInv'
  BY NextCInv
<1>3. CInv /\ CInv' /\ [Next]_vars => [Page!Next]_([i \in Id |-> Told(i)])
  BY StepTells
<1>4. QED
  BY <1>1, <1>2, <1>3, InitCInv, PTL DEF Spec, TellsEachLife, Page!Spec

-----------------------------------------------------------------------------
(* What a step writes *)

\* The effect of ModifyIncident on the rows.
RowWritten(copy, added) ==
    /\ Ids' = Ids /\ row' \in [Ids -> Row]
    /\ \A i \in Ids \ {copy.id} : row'[i] = row[i]
    /\ row'[copy.id].type = copy.row.type
    /\ row'[copy.id].start = copy.row.start
    /\ row'[copy.id].end = IF copy.row.end = NoEnd THEN row[copy.id].end ELSE copy.row.end
    /\ row'[copy.id].status =
          IF copy.row.status = NoStatus THEN row[copy.id].status ELSE copy.row.status
    /\ row'[copy.id].history = row[copy.id].history \o added

LEMMA ModifyWrites ==
  ASSUME row \in [Ids -> Row], NEW copy \in Copy, copy.id \in Ids, NEW added \in Seq(Status),
         ModifyIncident(copy, added)
  PROVE  RowWritten(copy, added)
<1> DEFINE h == row[copy.id].history \o added
           e == IF copy.row.end = NoEnd THEN row[copy.id].end ELSE copy.row.end
           s == IF copy.row.status = NoStatus THEN row[copy.id].status ELSE copy.row.status
           new == [copy.row EXCEPT !.end = e, !.status = s, !.history = h]
<1>1. row[copy.id] \in Row /\ copy.row \in Row
  BY DEF Copy
<1>2. h \in Seq(Status) /\ e \in EndDates /\ s \in Status
  BY <1>1, ConcatProperties DEF Row
<1>3. row' = [row EXCEPT ![copy.id] = new]
  BY DEF ModifyIncident
<1>4. /\ new.type = copy.row.type /\ new.start = copy.row.start
      /\ new.end = e /\ new.status = s /\ new.history = h /\ new \in Row
  <2> HIDE DEF h, e, s
  <2> QED
    BY <1>1, <1>2 DEF Row
<1> HIDE DEF new
<1>5. /\ row' \in [Ids -> Row] /\ Ids' = Ids /\ row'[copy.id] = new
      /\ \A i \in Ids \ {copy.id} : row'[i] = row[i]
  BY <1>3, <1>4 DEF Ids
<1>6. QED
  BY <1>4, <1>5 DEF RowWritten

LEMMA MissedTyped ==
  ASSUME NEW k \in {"maintenance", "info"}, NEW s, NEW h
  PROVE  MissedStatuses(k, s, h) \in Seq(Status)
<1>1. /\ Running(k) \in Status /\ "planned" \in Status /\ "completed" \in Status
  BY DEF Running, Status, MaintenanceStatus, InformationStatus
<1>2. \A b, x : x \in Status => Unless(b, x) \in Seq(Status)
  BY DEF Unless
<1>3. QED
  BY <1>1, <1>2, ConcatProperties DEF MissedStatuses

\* One turn of the loop of watcher k, on the copy it has come to.
ActiveAfter(k, copy) ==
    watcher[k].active \cup (IF CurrentStatus(k, copy.row) \in {"planned", Running(k)}
                            THEN {copy.id} ELSE {})
Judged(k, copy) ==
    [copy EXCEPT !.row.status = IF k = "maintenance" THEN CurrentStatus(k, copy.row) ELSE @]
Missed(k, copy) == MissedStatuses(k, CurrentStatus(k, copy.row), copy.row.history)

Turn(k, copy) ==
    /\ watcher[k].pc = "work" /\ copy \in Highest(k)
    /\ ModifyIncident(Judged(k, copy), Missed(k, copy))
    /\ watcher' = [watcher EXCEPT ![k] =
          IF watcher[k].list = {copy} THEN IdleWatcher
          ELSE [@ EXCEPT !.list = watcher[k].list \ {copy}, !.active = ActiveAfter(k, copy)]]
    /\ last' = IF watcher[k].list = {copy}
               THEN [last EXCEPT ![k] = NextLast(k, ActiveAfter(k, copy), watcher[k].seen)]
               ELSE last
    /\ UNCHANGED <<nextId, now, req, patches, faults>>

LEMMA CheckNextTurns ==
  ASSUME Types, NEW k \in Watched, CheckNext(k)
  PROVE  \E copy \in watcher[k].list : Turn(k, copy)
<1>1. PICK copy \in Highest(k) :
          LET w      == watcher[k]
              status == CurrentStatus(k, copy.row)
              active == w.active \cup (IF status \in {"planned", Running(k)} THEN {copy.id} ELSE {})
              rest   == w.list \ {copy}
          IN  /\ ~NilDereference(k, copy.row)
              /\ ModifyIncident([copy EXCEPT !.row.status = IF k = "maintenance" THEN status ELSE @],
                                MissedStatuses(k, status, copy.row.history))
              /\ IF rest = {}
                 THEN /\ watcher' = [watcher EXCEPT ![k] = IdleWatcher]
                      /\ last' = [last EXCEPT ![k] = NextLast(k, active, w.seen)]
                 ELSE /\ watcher' = [watcher EXCEPT ![k].list = rest, ![k].active = active]
                      /\ UNCHANGED last
  BY DEF CheckNext
<1>2. copy \in watcher[k].list /\ (watcher[k].list \ {copy} = {} <=> watcher[k].list = {copy})
  BY DEF Highest
<1>3. ModifyIncident(Judged(k, copy), Missed(k, copy))
  BY <1>1 DEF Judged, Missed
<1>4. CASE watcher[k].list = {copy}
  BY <1>1, <1>2, <1>3, <1>4 DEF Turn, CheckNext, ActiveAfter
<1>5. CASE watcher[k].list # {copy}
  <2>1. /\ last' = last
        /\ watcher' = [watcher EXCEPT ![k].list = watcher[k].list \ {copy},
                                      ![k].active = ActiveAfter(k, copy)]
    BY <1>1, <1>2, <1>5 DEF ActiveAfter
  <2>2. watcher' = [watcher EXCEPT ![k] = [@ EXCEPT !.list = watcher[k].list \ {copy},
                                                    !.active = ActiveAfter(k, copy)]]
    BY <2>1 DEF Types
  <2>3. QED
    BY <1>2, <1>3, <1>5, <2>1, <2>2 DEF Turn, CheckNext
<1>6. QED
  BY <1>2, <1>4, <1>5

-----------------------------------------------------------------------------
(* Types, for every value of the constants *)

LocalRequest == [pc : {"idle", "commit", "firstStatus", "patch"}, copy : SUBSET Copy]
LocalWatcher == [pc : {"idle", "read", "work"}, list : SUBSET Copy,
                 seen : SUBSET Id, active : SUBSET Id]

\* What is held in memory refers to rows that exist, and stays in range.
TInv ==
    /\ Types
    /\ nextId \in 1..(MaxId + 1)
    /\ now \in Instants \cup {0}
    /\ last \in [Watched -> 0..MaxId]
    /\ patches \in 0..MaxPatches
    /\ faults \in 0..MaxFaults
    /\ \A r \in Request : \A copy \in req[r].copy :
          IF req[r].pc = "commit" THEN copy.id < nextId ELSE copy.id \in Ids
    /\ \A k \in Watched :
          /\ \A copy \in watcher[k].list : copy.id \in Ids /\ copy.id \in watcher[k].seen
          /\ watcher[k].active \subseteq watcher[k].seen
          /\ watcher[k].seen \subseteq Ids /\ last[k] \in Ids \cup {0}

LEMMA InitTInv == Init => TInv
<1> SUFFICES ASSUME Init PROVE TInv
  OBVIOUS
<1>1. CInv
  BY InitCInv
<1>2. /\ \A r \in Request : req[r].copy = {}
      /\ \A k \in Watched : /\ watcher[k].list = {} /\ watcher[k].active = {}
                             /\ watcher[k].seen = {} /\ last[k] = 0
  BY DEF Init, IdleRequest, IdleWatcher
<1>3. /\ nextId \in 1..(MaxId + 1) /\ now \in Instants \cup {0}
      /\ last \in [Watched -> 0..MaxId] /\ patches \in 0..MaxPatches /\ faults \in 0..MaxFaults
  BY BoundsAssumption DEF Init
<1>4. QED
  BY <1>1, <1>2, <1>3 DEF TInv, CInv

\* A request goes on with the copy of one row.
LEMMA RequestTInv ==
  ASSUME TInv, NEW r \in Request, NEW pc \in {"commit", "firstStatus", "patch"},
         NEW i \in Id, NEW e \in Row, Working(r, pc, i, e),
         Ids \subseteq Ids', Ids' \subseteq Id, row' \in [Ids' -> Row],
         nextId' \in 1..(MaxId + 1), nextId <= nextId', \A j \in Ids' : j < nextId',
         IF pc = "commit" THEN i < nextId' ELSE i \in Ids',
         patches' \in 0..MaxPatches,
         UNCHANGED <<now, watcher, last, faults>>
  PROVE  TInv'
<1> DEFINE l == [pc |-> pc, copy |-> {[id |-> i, row |-> e]}]
<1>1. req' = [req EXCEPT ![r] = l] /\ l \in LocalRequest
  BY DEF Working, LocalRequest, Copy
<1>2. l.pc = pc /\ l.copy = {[id |-> i, row |-> e]}
  OBVIOUS
<1> HIDE DEF l
<1>3. req' \in [Request -> LocalRequest] /\ \A q \in Request : req'[q] = IF q = r THEN l ELSE req[q]
  BY <1>1 DEF TInv, Types, LocalRequest
<1>4. \A q \in Request : \A copy \in req'[q].copy :
        IF req'[q].pc = "commit" THEN copy.id < nextId' ELSE copy.id \in Ids'
  <2> SUFFICES ASSUME NEW q \in Request, NEW copy \in req'[q].copy
               PROVE  IF req'[q].pc = "commit" THEN copy.id < nextId' ELSE copy.id \in Ids'
    OBVIOUS
  <2>1. CASE q = r
    BY <1>2, <1>3, <2>1
  <2>2. CASE q # r
    <3>1. copy \in Copy /\ copy.id \in Nat /\ nextId \in Nat /\ nextId' \in Nat
      BY <1>3, <2>2, BoundsAssumption DEF TInv, Types, Copy, Id
    <3>2. QED
      BY <1>3, <2>2, <3>1 DEF TInv
  <2>3. QED
    BY <2>1, <2>2
<1>5. Types'
  BY <1>3, BoundsAssumption DEF TInv, Types, Id, LocalRequest
<1>6. QED
  BY <1>4, <1>5 DEF TInv

\* Requests end, rows stay or are rewritten, watchers stay in range.
LEMMA RowsTInv ==
  ASSUME TInv, Ids' = Ids, row' \in [Ids -> Row], nextId' = nextId,
         now' \in Instants \cup {0}, last' \in [Watched -> 0..MaxId],
         patches' \in 0..MaxPatches, faults' \in 0..MaxFaults,
         req' \in [Request -> LocalRequest],
         \A r \in Request : req'[r] = req[r] \/ req'[r] = IdleRequest,
         watcher' \in [Watched -> LocalWatcher],
         \A k \in Watched : last'[k] \in Ids \cup {0},
         \A k \in Watched :
            \/ watcher'[k].list = {} /\ watcher'[k].active = {} /\ watcher'[k].seen = {}
            \/ /\ watcher'[k].list \subseteq watcher[k].list
               /\ watcher'[k].seen = watcher[k].seen
               /\ watcher'[k].active \subseteq watcher'[k].seen
  PROVE  TInv'
<1>1. Types'
  BY DEF TInv, Types, LocalRequest, LocalWatcher
<1>2. \A r \in Request : \A copy \in req'[r].copy :
        IF req'[r].pc = "commit" THEN copy.id < nextId' ELSE copy.id \in Ids'
  BY DEF TInv, IdleRequest
<1>3. \A k \in Watched :
        /\ \A copy \in watcher'[k].list : copy.id \in Ids' /\ copy.id \in watcher'[k].seen
        /\ watcher'[k].active \subseteq watcher'[k].seen
        /\ watcher'[k].seen \subseteq Ids'
  BY DEF TInv
<1>4. QED
  BY <1>1, <1>2, <1>3 DEF TInv

LEMMA DoneTyped ==
  ASSUME TInv, NEW r \in Request, Done(r)
  PROVE  /\ req' \in [Request -> LocalRequest]
         /\ \A q \in Request : req'[q] = req[q] \/ req'[q] = IdleRequest
  BY IdleTyped DEF Done, TInv, Types, LocalRequest

LEMMA StatusWritten ==
  ASSUME TInv, NEW r \in Request, FirstStatus(r) \/ Patch(r)
  PROVE  \E copy \in req[r].copy : /\ copy \in Copy /\ copy.id \in Ids
                                   /\ copy.row.status \in Status
                                   /\ RowWritten(copy, <<copy.row.status>>)
<1>1. PICK copy \in req[r].copy : ModifyIncident(copy, <<copy.row.status>>)
  BY DEF FirstStatus, Patch
<1>2. req[r].pc # "commit" /\ copy \in Copy /\ copy.row.status \in Status
  BY DEF FirstStatus, Patch, TInv, Types, Copy, Row
<1>3. copy.id \in Ids
  BY <1>2 DEF TInv
<1>4. RowWritten(copy, <<copy.row.status>>)
  <2>1. <<copy.row.status>> \in Seq(Status) /\ row \in [Ids -> Row]
    BY <1>2 DEF TInv, Types
  <2>2. QED
    BY <1>1, <1>2, <1>3, <2>1, ModifyWrites
<1>5. QED
  BY <1>2, <1>3, <1>4

LEMMA TurnWrites ==
  ASSUME TInv, NEW k \in Watched, NEW copy \in watcher[k].list, Turn(k, copy)
  PROVE  /\ copy \in Copy /\ copy.id \in Ids /\ copy.row \in Row
         /\ Judged(k, copy) \in Copy /\ Judged(k, copy).id = copy.id
         /\ Judged(k, copy).row =
              [copy.row EXCEPT !.status = IF k = "maintenance" THEN CurrentStatus(k, copy.row) ELSE @]
         /\ Missed(k, copy) \in Seq(Status)
         /\ RowWritten(Judged(k, copy), Missed(k, copy))
<1>1. copy \in Copy /\ copy.id \in Ids /\ copy.row \in Row
  BY DEF TInv, Types, Copy
<1>2. k \in {"maintenance", "info"} /\ CurrentStatus(k, copy.row) \in Status
  BY <1>1, WatchedAssumption, StatusTypedNow
<1>3. Missed(k, copy) \in Seq(Status)
  BY <1>2, MissedTyped DEF Missed
<1> DEFINE s == CurrentStatus(k, copy.row)
           st == IF k = "maintenance" THEN s ELSE copy.row.status
           e == [copy.row EXCEPT !.status = st]
<1>4. Judged(k, copy) = [copy EXCEPT !.row = e]
  BY <1>1 DEF Judged, Copy
<1>5. st \in Status
  BY <1>1, <1>2 DEF Row
<1>6. e = [copy.row EXCEPT !.status = IF k = "maintenance" THEN CurrentStatus(k, copy.row) ELSE @]
  BY <1>1 DEF Row
<1>7. e \in Row
  <2> HIDE DEF st
  <2> QED
    BY <1>1, <1>5 DEF Row
<1> HIDE DEF e
<1>8. Judged(k, copy) \in Copy /\ Judged(k, copy).id = copy.id /\ Judged(k, copy).row = e
  BY <1>1, <1>4, <1>7 DEF Copy
<1>9. RowWritten(Judged(k, copy), Missed(k, copy))
  BY <1>1, <1>3, <1>8, ModifyWrites DEF Turn, TInv, Types
<1>10. QED
  BY <1>1, <1>3, <1>6, <1>8, <1>9

\* The watchers after a turn of watcher k.
LEMMA TurnWatchers ==
  ASSUME TInv, NEW k \in Watched, NEW copy \in watcher[k].list, Turn(k, copy)
  PROVE  /\ watcher' \in [Watched -> LocalWatcher]
         /\ \A j \in Watched \ {k} : watcher'[j] = watcher[j] /\ last'[j] = last[j]
         /\ ActiveAfter(k, copy) \subseteq watcher[k].seen
         /\ \/ /\ watcher[k].list = {copy} /\ watcher'[k] = IdleWatcher
               /\ last' = [last EXCEPT ![k] = NextLast(k, ActiveAfter(k, copy), watcher[k].seen)]
            \/ /\ watcher[k].list # {copy} /\ last' = last
               /\ watcher'[k] = [watcher[k] EXCEPT !.list = watcher[k].list \ {copy},
                                                   !.active = ActiveAfter(k, copy)]
               /\ watcher'[k].list = watcher[k].list \ {copy}
               /\ watcher'[k].seen = watcher[k].seen
               /\ watcher'[k].active = ActiveAfter(k, copy)
               /\ watcher'[k].pc = "work"
<1>1. copy.id \in watcher[k].seen /\ watcher[k].active \subseteq watcher[k].seen
  BY DEF TInv
<1>2. ActiveAfter(k, copy) \subseteq watcher[k].seen
  BY <1>1 DEF ActiveAfter
<1>3. watcher[k] \in LocalWatcher /\ watcher[k].pc = "work"
  BY DEF TInv, Types, LocalWatcher, Turn
<1> DEFINE w == [watcher[k] EXCEPT !.list = watcher[k].list \ {copy},
                                   !.active = ActiveAfter(k, copy)]
<1>4. /\ w \in LocalWatcher /\ w.list = watcher[k].list \ {copy} /\ w.seen = watcher[k].seen
      /\ w.active = ActiveAfter(k, copy) /\ w.pc = "work"
  <2>1. ActiveAfter(k, copy) \subseteq Id /\ watcher[k].list \ {copy} \subseteq Copy
    BY <1>2, <1>3 DEF LocalWatcher
  <2>2. QED
    BY <1>3, <2>1 DEF LocalWatcher
<1> HIDE DEF w
<1>5. watcher' = [watcher EXCEPT ![k] = IF watcher[k].list = {copy} THEN IdleWatcher ELSE w]
  BY DEF Turn, w
<1>6. watcher \in [Watched -> LocalWatcher] /\ IdleWatcher \in LocalWatcher
  BY IdleTyped DEF TInv, Types, LocalWatcher
<1>7. /\ watcher' \in [Watched -> LocalWatcher]
      /\ \A j \in Watched \ {k} : watcher'[j] = watcher[j]
      /\ watcher'[k] = IF watcher[k].list = {copy} THEN IdleWatcher ELSE w
  BY <1>4, <1>5, <1>6
<1>8. /\ last' = IF watcher[k].list = {copy}
                 THEN [last EXCEPT ![k] = NextLast(k, ActiveAfter(k, copy), watcher[k].seen)]
                 ELSE last
      /\ \A j \in Watched \ {k} : last'[j] = last[j]
  BY DEF Turn, TInv
<1>9. QED
  BY <1>2, <1>4, <1>7, <1>8 DEF w

\* The id a watcher goes on from is one it has seen, or the one it had.
LEMMA NextLastSeen ==
  ASSUME NEW k \in Watched, NEW active \in SUBSET Id, NEW seen \in SUBSET Id,
         last[k] \in 0..MaxId, active \subseteq seen
  PROVE  /\ NextLast(k, active, seen) \in seen \cup {last[k]}
         /\ active = {} => \A i \in seen : i <= NextLast(k, active, seen)
         /\ active = {} => last[k] <= NextLast(k, active, seen)
         /\ active # {} => /\ NextLast(k, active, seen) \in active
                           /\ \A i \in active : NextLast(k, active, seen) <= i
<1> DEFINE T == seen \cup {last[k]}
<1>1. T \in SUBSET Nat /\ T # {} /\ active \in SUBSET Nat
  <2>1. last[k] \in Nat /\ Id \subseteq Nat
    BY BoundsAssumption DEF Id
  <2>2. QED
    BY <2>1
<1>2. IsFiniteSet(T)
  <2>1. \A i \in T : i <= MaxId /\ MaxId \in Nat
    BY BoundsAssumption DEF Id
  <2> HIDE DEF T
  <2>2. QED
    BY <1>1, <2>1, FS_BoundedSetOfNaturals, BoundsAssumption
<1>3. CASE active = {}
  <2>1. NextLast(k, active, seen) = Max(T)
    BY <1>3 DEF NextLast
  <2>2. Max(T) \in T /\ \A i \in T : i <= Max(T)
    <3> HIDE DEF T
    <3> QED
      BY <1>1, <1>2, MaxIsGreatest
  <2>3. QED
    BY <1>3, <2>1, <2>2
<1>4. CASE active # {}
  <2>1. NextLast(k, active, seen) = Min(active)
    BY <1>4 DEF NextLast
  <2>2. Min(active) \in active /\ \A i \in active : Min(active) <= i
    BY <1>1, <1>4, MinIsLeast
  <2>3. QED
    BY <1>4, <2>1, <2>2
<1>5. QED
  BY <1>3, <1>4

LEMMA InsertTInv ==
  ASSUME TInv, NEW r \in Request, Insert(r)
  PROVE  TInv'
<1>1. PICK t \in NewTypes, s \in StartDates, e \in EndDates :
        Working(r, "commit", nextId, [type |-> t, start |-> s, end |-> e,
                                      status |-> NoStatus, history |-> << >>])
  BY DEF Insert
<1> DEFINE new == [type |-> t, start |-> s, end |-> e, status |-> NoStatus, history |-> << >>]
<1>2. new \in Row
  <2>1. t \in {"maintenance", "info"} /\ NoStatus \in Status /\ << >> \in Seq(Status)
    BY TypesAssumption DEF Status
  <2>2. QED
    BY <2>1 DEF Row
<1>3. /\ nextId \in Id /\ nextId' = nextId + 1 /\ row' = row /\ Ids' = Ids
      /\ UNCHANGED <<now, watcher, last, patches, faults>>
  BY DEF Insert, Ids
<1>4. /\ nextId' \in 1..(MaxId + 1) /\ nextId <= nextId' /\ nextId < nextId'
      /\ \A j \in Ids' : j < nextId'
  BY <1>3, BoundsAssumption DEF TInv, Types, Id
<1>5. Ids \subseteq Id /\ row \in [Ids -> Row] /\ patches \in 0..MaxPatches
  BY DEF TInv, Types
<1> HIDE DEF new
<1>6. QED
  BY <1>1, <1>2, <1>3, <1>4, <1>5, RequestTInv DEF new

LEMMA CommitTInv ==
  ASSUME TInv, NEW r \in Request, Commit(r)
  PROVE  TInv'
<1>1. PICK copy \in req[r].copy :
        /\ row' = [i \in Ids \cup {copy.id} |-> IF i = copy.id THEN copy.row ELSE row[i]]
        /\ Working(r, "firstStatus", copy.id,
                   [copy.row EXCEPT !.status = InitialStatus(copy.row.type)])
  BY DEF Commit
<1>2. /\ copy \in Copy /\ copy.id \in Id /\ copy.row \in Row /\ copy.id < nextId
      /\ UNCHANGED <<nextId, now, watcher, last, patches, faults>>
  BY DEF Commit, TInv, Types, Copy
<1> DEFINE new == [copy.row EXCEPT !.status = InitialStatus(copy.row.type)]
<1>3. new \in Row
  <2>1. InitialStatus(copy.row.type) \in Status
    BY DEF InitialStatus, Status, InformationStatus, IncidentOpenStatus
  <2>2. QED
    BY <1>2, <2>1 DEF Row
<1>4. /\ Ids' = Ids \cup {copy.id} /\ row' \in [Ids' -> Row]
      /\ Ids \subseteq Id /\ patches \in 0..MaxPatches /\ nextId \in 1..(MaxId + 1)
      /\ \A j \in Ids : j < nextId
  BY <1>1, <1>2 DEF Ids, TInv, Types
<1>5. Ids' \subseteq Id /\ (\A j \in Ids' : j < nextId') /\ nextId <= nextId'
  BY <1>2, <1>4, BoundsAssumption
<1> HIDE DEF new
<1>6. QED
  BY <1>1, <1>2, <1>3, <1>4, <1>5, RequestTInv DEF new

\* The event, and the copy of it that a PATCH prepares.
LEMMA PatchRequestPrepares ==
  ASSUME Types, NEW r \in Request, PatchRequest(r)
  PROVE  \E i \in Ids, e \in Row :
            /\ Working(r, "patch", i, e)
            /\ e.status \in PatchStatus /\ e.type \in PatchTypes \cup {row[i].type}
            /\ ~PatchDates => e.start = row[i].start /\ e.end = row[i].end
<1>0. PICK i \in Ids, s \in PatchStatus :
        \E t \in PatchTypes \cup {row[i].type} :
        \E d \in {row[i].start} \cup (IF PatchDates THEN StartDates ELSE {}) :
        \E e \in {row[i].end} \cup (IF PatchDates THEN EndDates \ {NoEnd} ELSE {}) :
          Working(r, "patch", i, [row[i] EXCEPT !.type = t, !.start = d, !.end = e, !.status = s])
  BY DEF PatchRequest
<1>1. PICK t \in PatchTypes \cup {row[i].type} :
        \E d \in {row[i].start} \cup (IF PatchDates THEN StartDates ELSE {}),
           e \in {row[i].end} \cup (IF PatchDates THEN EndDates \ {NoEnd} ELSE {}) :
          Working(r, "patch", i, [row[i] EXCEPT !.type = t, !.start = d, !.end = e, !.status = s])
  BY <1>0
<1>2. PICK d \in {row[i].start} \cup (IF PatchDates THEN StartDates ELSE {}),
           e \in {row[i].end} \cup (IF PatchDates THEN EndDates \ {NoEnd} ELSE {}) :
          Working(r, "patch", i, [row[i] EXCEPT !.type = t, !.start = d, !.end = e, !.status = s])
  BY <1>1
<1> DEFINE new == [row[i] EXCEPT !.type = t, !.start = d, !.end = e, !.status = s]
<1>3. row[i] \in Row
  BY DEF Types
<1>4. t \in {"maintenance", "info"} /\ d \in StartDates /\ e \in EndDates /\ s \in Status
  BY <1>3, TypesAssumption, PatchStatusAssumption, BoundsAssumption DEF Row, Status
<1>5. new \in Row /\ new.status = s /\ new.type = t /\ new.start = d /\ new.end = e
  BY <1>3, <1>4 DEF Row
<1>6. Working(r, "patch", i, new)
  BY <1>2
<1> HIDE DEF new
<1>7. ~PatchDates => d = row[i].start /\ e = row[i].end
  OBVIOUS
<1>8. QED
  BY <1>5, <1>6, <1>7

LEMMA ReadTInv ==
  ASSUME TInv, NEW k \in Watched, Read(k)
  PROVE  TInv'
<1> DEFINE l == [pc |-> "work", list |-> {[id |-> i, row |-> row[i]] : i \in Listed(k)},
                 seen |-> Listed(k), active |-> {}]
           w == IF Listed(k) = {} THEN IdleWatcher ELSE l
<1>1. watcher' = [watcher EXCEPT ![k] = w]
  BY DEF Read
<1>2. Listed(k) \subseteq Ids /\ Ids \subseteq Id /\ \A i \in Ids : row[i] \in Row
  BY DEF Listed, TInv, Types
<1>3. /\ l \in LocalWatcher
      /\ \A copy \in l.list : copy.id \in Ids /\ copy.id \in l.seen
      /\ l.active \subseteq l.seen /\ l.seen \subseteq Ids
  BY <1>2 DEF LocalWatcher, Copy
<1> HIDE DEF l
<1>4. /\ w \in LocalWatcher
      /\ \A copy \in w.list : copy.id \in Ids /\ copy.id \in w.seen
      /\ w.active \subseteq w.seen /\ w.seen \subseteq Ids
  BY <1>3, IdleTyped DEF LocalWatcher, IdleWatcher
<1> HIDE DEF w
<1>5. /\ watcher' \in [Watched -> LocalWatcher]
      /\ \A j \in Watched : watcher'[j] = IF j = k THEN w ELSE watcher[j]
  BY <1>1, <1>4 DEF TInv, Types, LocalWatcher
<1>6. UNCHANGED <<nextId, row, now, req, last, patches, faults>> /\ Ids' = Ids
  BY DEF Read, Ids
<1>7. Types'
  BY <1>5, <1>6 DEF TInv, Types, LocalWatcher
<1>8. QED
  BY <1>4, <1>5, <1>6, <1>7 DEF TInv

LEMMA TurnTInv ==
  ASSUME TInv, NEW k \in Watched, NEW copy \in watcher[k].list, Turn(k, copy)
  PROVE  TInv'
<1>1. RowWritten(Judged(k, copy), Missed(k, copy))
  BY TurnWrites
<1>2. Ids' = Ids /\ row' \in [Ids -> Row]
  BY <1>1 DEF RowWritten
<1>3. last' \in [Watched -> 0..MaxId] /\ \A j \in Watched : last'[j] \in Ids \cup {0}
  <2>1. ActiveAfter(k, copy) \subseteq watcher[k].seen /\ watcher[k].seen \subseteq Id
    BY TurnWatchers DEF TInv, Types
  <2>2. /\ last \in [Watched -> 0..MaxId] /\ Ids \cup {0} \subseteq 0..MaxId
        /\ \A j \in Watched : last[j] \in Ids \cup {0} /\ watcher[j].seen \subseteq Ids
    BY BoundsAssumption DEF TInv, Types, Id
  <2>3. NextLast(k, ActiveAfter(k, copy), watcher[k].seen) \in Ids \cup {0}
    <3> DEFINE active == ActiveAfter(k, copy)
               seen   == watcher[k].seen
    <3>1. active \in SUBSET Id /\ seen \in SUBSET Id /\ active \subseteq seen /\ last[k] \in 0..MaxId
      BY <2>1, <2>2
    <3>2. seen \cup {last[k]} \subseteq Ids \cup {0}
      BY <2>2
    <3> HIDE DEF active, seen
    <3>3. NextLast(k, active, seen) \in seen \cup {last[k]}
      BY <3>1, NextLastSeen
    <3>4. NextLast(k, active, seen) \in Ids \cup {0}
      BY <3>2, <3>3
    <3>5. QED
      BY <3>4 DEF active, seen
  <2>4. CASE last' = last
    BY <2>2, <2>4
  <2>5. CASE last' = [last EXCEPT ![k] = NextLast(k, ActiveAfter(k, copy), watcher[k].seen)]
    BY <2>2, <2>3, <2>5
  <2>6. QED
    BY <2>4, <2>5, TurnWatchers
<1>4. /\ watcher' \in [Watched -> LocalWatcher]
      /\ \A j \in Watched :
            \/ watcher'[j].list = {} /\ watcher'[j].active = {} /\ watcher'[j].seen = {}
            \/ /\ watcher'[j].list \subseteq watcher[j].list
               /\ watcher'[j].seen = watcher[j].seen
               /\ watcher'[j].active \subseteq watcher'[j].seen
  <2> DEFINE Fits(j) == \/ watcher'[j].list = {} /\ watcher'[j].active = {} /\ watcher'[j].seen = {}
                        \/ /\ watcher'[j].list \subseteq watcher[j].list
                           /\ watcher'[j].seen = watcher[j].seen
                           /\ watcher'[j].active \subseteq watcher'[j].seen
  <2>1. \A j \in Watched : watcher[j].active \subseteq watcher[j].seen
    BY DEF TInv
  <2>2. \A j \in Watched \ {k} : watcher'[j] = watcher[j]
    BY TurnWatchers
  <2>3. \A j \in Watched \ {k} : Fits(j)
    BY <2>1, <2>2
  <2>4. CASE watcher'[k] = IdleWatcher
    <3>1. Fits(k)
      BY <2>4 DEF IdleWatcher
    <3>2. QED
      BY <2>3, <3>1, TurnWatchers
  <2>5. CASE /\ watcher'[k].list = watcher[k].list \ {copy} /\ watcher'[k].seen = watcher[k].seen
             /\ watcher'[k].active = ActiveAfter(k, copy)
    <3>1. ActiveAfter(k, copy) \subseteq watcher[k].seen
      BY TurnWatchers
    <3>2. Fits(k)
      BY <2>5, <3>1
    <3>3. QED
      BY <2>3, <3>2, TurnWatchers
  <2>6. QED
    BY <2>4, <2>5, TurnWatchers
<1>5. UNCHANGED <<nextId, now, req, patches, faults>>
  BY DEF Turn
<1>6. req' \in [Request -> LocalRequest]
  BY <1>5 DEF TInv, Types, LocalRequest
<1>7. QED
  BY <1>2, <1>3, <1>4, <1>5, <1>6, RowsTInv DEF TInv

LEMMA QuietTInv ==
  ASSUME TInv, UNCHANGED <<nextId, row>>,
         now' \in Instants \cup {0}, last' \in [Watched -> 0..MaxId],
         patches' \in 0..MaxPatches, faults' \in 0..MaxFaults,
         \A r \in Request : req'[r] = req[r] \/ req'[r] = IdleRequest,
         req' = [r \in Request |-> req'[r]],
         \A k \in Watched : last'[k] = last[k] \/ last'[k] = 0,
         \A k \in Watched : \/ watcher'[k] = watcher[k]
                            \/ watcher'[k] \in {IdleWatcher, [IdleWatcher EXCEPT !.pc = "read"]},
         watcher' = [k \in Watched |-> watcher'[k]]
  PROVE  TInv'
<1>1. Ids' = Ids /\ row' \in [Ids -> Row]
  BY DEF Ids, TInv, Types
<1>2. \A r \in Request : req'[r] \in LocalRequest
  BY IdleTyped DEF TInv, Types, LocalRequest
<1>3. \A k \in Watched : watcher'[k] \in LocalWatcher
  <2>1. /\ IdleWatcher \in LocalWatcher /\ [IdleWatcher EXCEPT !.pc = "read"] \in LocalWatcher
        /\ \A k \in Watched : watcher[k] \in LocalWatcher
    BY DEF LocalWatcher, IdleWatcher, TInv, Types
  <2>2. QED
    BY <2>1
<1>4. \A k \in Watched :
        \/ watcher'[k].list = {} /\ watcher'[k].active = {} /\ watcher'[k].seen = {}
        \/ /\ watcher'[k].list \subseteq watcher[k].list
           /\ watcher'[k].seen = watcher[k].seen
           /\ watcher'[k].active \subseteq watcher'[k].seen
  BY DEF TInv, IdleWatcher
<1>5. req' \in [Request -> LocalRequest] /\ watcher' \in [Watched -> LocalWatcher]
  BY <1>2, <1>3
<1>6. \A k \in Watched : last'[k] \in Ids \cup {0}
  BY DEF TInv
<1>7. QED
  BY <1>1, <1>4, <1>5, <1>6, RowsTInv

LEMMA NextTInv == TInv /\ [Next]_vars => TInv'
<1> SUFFICES ASSUME TInv, [Next]_vars PROVE TInv'
  OBVIOUS
<1>0. /\ last \in [Watched -> 0..MaxId] /\ now \in Instants \cup {0}
      /\ patches \in 0..MaxPatches /\ faults \in 0..MaxFaults
      /\ req = [r \in Request |-> req[r]] /\ watcher = [k \in Watched |-> watcher[k]]
  BY DEF TInv, Types
<1>1. ASSUME NEW r \in Request, Insert(r) PROVE TInv'
  BY <1>1, InsertTInv
<1>2. ASSUME NEW r \in Request, Commit(r) PROVE TInv'
  BY <1>2, CommitTInv
<1>3. ASSUME NEW r \in Request, FirstStatus(r) \/ Patch(r) PROVE TInv'
  <2>1. Ids' = Ids /\ row' \in [Ids -> Row]
    BY <1>3, StatusWritten DEF RowWritten
  <2>2. /\ req' \in [Request -> LocalRequest]
        /\ \A q \in Request : req'[q] = req[q] \/ req'[q] = IdleRequest
    BY <1>3, DoneTyped DEF FirstStatus, Patch
  <2>3. UNCHANGED <<nextId, now, watcher, last, patches, faults>>
    BY <1>3 DEF FirstStatus, Patch
  <2>4. watcher' \in [Watched -> LocalWatcher]
    BY <2>3 DEF TInv, Types, LocalWatcher
  <2>5. QED
    BY <1>0, <2>1, <2>2, <2>3, <2>4, RowsTInv DEF TInv
<1>4. ASSUME NEW r \in Request, PatchRequest(r) PROVE TInv'
  <2>1. PICK i \in Ids, e \in Row : Working(r, "patch", i, e)
    BY <1>4, PatchRequestPrepares DEF TInv
  <2>2. /\ UNCHANGED <<nextId, row, now, watcher, last, faults>> /\ Ids' = Ids
        /\ patches' \in 0..MaxPatches
    BY <1>4, <1>0, BoundsAssumption DEF PatchRequest, Ids
  <2>3. /\ Ids \subseteq Id /\ i \in Id /\ row \in [Ids -> Row]
        /\ nextId \in 1..(MaxId + 1) /\ nextId <= nextId /\ \A j \in Ids : j < nextId
    BY BoundsAssumption DEF TInv, Types
  <2>4. QED
    BY <2>1, <2>2, <2>3, RequestTInv
<1>5. ASSUME NEW k \in Watched, Read(k) PROVE TInv'
  BY <1>5, ReadTInv
<1>6. ASSUME NEW k \in Watched, CheckNext(k) PROVE TInv'
  BY <1>6, CheckNextTurns, TurnTInv DEF TInv
<1>7. ASSUME NEW k \in Watched, CheckFails(k) PROVE TInv'
  <2>1. faults' \in 0..MaxFaults
    BY <1>0, <1>7, BoundsAssumption DEF CheckFails
  <2>2. QED
    BY <1>0, <1>7, <2>1, QuietTInv DEF CheckFails
<1>8. ASSUME ProcessLost, faults' \in 0..MaxFaults PROVE TInv'
  <2>1. last' \in [Watched -> 0..MaxId] /\ \A k \in Watched : last'[k] = 0
    BY <1>8, BoundsAssumption DEF ProcessLost
  <2>2. QED
    BY <1>0, <1>8, <2>1, QuietTInv DEF ProcessLost
<1>9. CASE Restart
  BY <1>0, <1>8, <1>9, BoundsAssumption DEF Restart
<1>10. CASE Tick
  BY <1>0, <1>10, QuietTInv DEF Tick
<1>11. CASE ClockTicks
  BY <1>0, <1>11, QuietTInv DEF ClockTicks
<1>12. CASE UNCHANGED vars
  BY <1>0, <1>12, QuietTInv DEF vars
<1>13. QED
  BY <1>0, <1>1, <1>2, <1>3, <1>4, <1>5, <1>6, <1>7, <1>8, <1>9, <1>10, <1>11, <1>12
  DEF Next, Panic

\* Rows, copies and remembered ids stay well formed, whatever operators PATCH,
\* and whenever a check fails or the process is lost.
THEOREM CheckerTyping == Spec => []TypeOK
<1>1. TInv => TypeOK
  <2> SUFFICES ASSUME TInv PROVE TypeOK
    OBVIOUS
  <2>1. Ids \subseteq 1..(nextId - 1)
    BY BoundsAssumption DEF TInv, Types, Id
  <2>2. QED
    BY <2>1 DEF TInv, Types, TypeOK
<1>2. QED
  BY InitTInv, NextTInv, <1>1, PTL DEF Spec

-----------------------------------------------------------------------------
(* What PATCHes leave alone, when they keep the type of an event *)

\* What no handler changes: the type, and the dates unless PATCHes may.
Same(e, f) ==
    /\ e.type = f.type
    /\ ~PatchDates => e.start = f.start /\ e.end = f.end

Says(e, f) == \A s \in Status : In(s, e.history) => In(s, f.history)

\* A row that waits for its commit is new, and empty.
Fresh(r) ==
    req[r].pc = "commit" => \A copy \in req[r].copy :
        copy.id \notin Ids /\ copy.row.history = << >> /\ copy.row.status = NoStatus

\* Events keep what no handler changes, and what their histories say.
Keeps == \A i \in Ids : i \in Ids' /\ Same(row[i], row'[i]) /\ Says(row[i], row'[i])

\* A row that waits for its commit is new, every other copy agrees with its row.
Agrees(r) ==
    \A copy \in req[r].copy :
        IF req[r].pc = "commit"
        THEN copy.id \notin Ids /\ copy.row.history = << >> /\ copy.row.status = NoStatus
        ELSE Same(copy.row, row[copy.id])

\* The copies of a watcher agree with their rows, one for each of its events.
ListAgrees(k) ==
    \A copy \in watcher[k].list :
        /\ copy.row.type = k
        /\ Same(copy.row, row[copy.id]) /\ Says(copy.row, row[copy.id])
        /\ \A other \in watcher[k].list : other.id = copy.id => other = copy

FInv ==
    /\ \A r \in Request : Agrees(r)
    /\ Apart
    /\ \A k \in Watched : ListAgrees(k)

Once(s, h) == \A m, n \in DOMAIN h : h[m] = s /\ h[n] = s => m = n

\* No claim has been added to an event that a watcher still has to look at.
UpToDate(k) ==
    \A copy \in watcher[k].list : \A s \in Claims :
        In(s, row[copy.id].history) => In(s, copy.row.history)

OInv ==
    /\ \A k \in Watched : UpToDate(k)
    /\ \A i \in Ids : \A s \in Claims : Once(s, row[i].history)

Over(k, i) == CurrentStatus(k, row[i]) \in {"completed", "cancelled"}

\* Ids become visible in order.
InOrder ==
    \A r \in Request : req[r].pc = "commit" =>
        \A copy \in req[r].copy : \A i \in Ids : i < copy.id

\* The events of a watcher it has seen are active, over, or still on its list,
\* and it has seen every event in its range.
Covers(k) ==
    watcher[k].list # {} => \A i \in EventsOf(k) :
        i >= last[k] => IF i \in watcher[k].seen
                        THEN \/ i \in watcher[k].active \/ Over(k, i)
                             \/ \E copy \in watcher[k].list : copy.id = i
                        ELSE \A j \in watcher[k].seen : j < i

SInv ==
    /\ InOrder
    /\ \A k \in Watched : Covers(k)
    /\ NothingActiveIsSkipped

LEMMA InitFInv == Init => FInv
  BY DEF Init, FInv, Agrees, Apart, ListAgrees, IdleRequest, IdleWatcher

\* Requests end, watchers lose copies, rows keep what they should.
LEMMA KeepsFInv ==
  ASSUME TInv, FInv, Keeps, Ids' = Ids,
         \A r \in Request : req'[r] = req[r] \/ req'[r] = IdleRequest,
         \A k \in Watched : watcher'[k].list \subseteq watcher[k].list
  PROVE  FInv'
<1>1. ASSUME NEW r \in Request PROVE Agrees(r)'
  <2>1. CASE req'[r] = IdleRequest
    BY <2>1 DEF Agrees, IdleRequest
  <2>2. CASE req'[r] = req[r]
    <3>1. \A copy \in req[r].copy : req[r].pc # "commit" => copy.id \in Ids
      BY DEF TInv
    <3>2. \A copy \in req[r].copy : req[r].pc # "commit" => Same(copy.row, row'[copy.id])
      BY <3>1 DEF FInv, Agrees, Keeps, Same
    <3>3. QED
      BY <2>2, <3>2 DEF FInv, Agrees, Same
  <2>3. QED
    BY <2>1, <2>2
<1>2. Apart'
  BY DEF FInv, Apart, IdleRequest
<1>3. ASSUME NEW k \in Watched PROVE ListAgrees(k)'
  <2>1. \A copy \in watcher[k].list : copy.id \in Ids
    BY DEF TInv
  <2>2. \A copy \in watcher[k].list :
          /\ copy.row.type = k
          /\ Same(copy.row, row'[copy.id]) /\ Says(copy.row, row'[copy.id])
          /\ \A other \in watcher[k].list : other.id = copy.id => other = copy
    BY <2>1 DEF FInv, ListAgrees, Keeps, Same, Says
  <2>3. QED
    BY <2>2 DEF ListAgrees, Same, Says
<1>4. QED
  BY <1>1, <1>2, <1>3 DEF FInv

LEMMA InsertFInv ==
  ASSUME TInv, FInv, NEW r \in Request, Insert(r)
  PROVE  FInv'
<1>1. PICK t \in NewTypes, s \in StartDates, e \in EndDates :
        Working(r, "commit", nextId, [type |-> t, start |-> s, end |-> e,
                                      status |-> NoStatus, history |-> << >>])
  BY DEF Insert
<1> DEFINE new == [type |-> t, start |-> s, end |-> e, status |-> NoStatus, history |-> << >>]
           l == [pc |-> "commit", copy |-> {[id |-> nextId, row |-> new]}]
<1>2. new.history = << >> /\ new.status = NoStatus
  OBVIOUS
<1>3. req' = [req EXCEPT ![r] = l]
  BY <1>1 DEF Working
<1> HIDE DEF new
<1>4. l.pc = "commit" /\ l.copy = {[id |-> nextId, row |-> new]}
  OBVIOUS
<1> HIDE DEF l
<1>5. \A q \in Request : req'[q] = IF q = r THEN l ELSE req[q]
  BY <1>3 DEF TInv, Types
<1>6. row' = row /\ Ids' = Ids /\ watcher' = watcher
  BY DEF Insert, Ids
<1>7. /\ nextId \notin Ids
      /\ \A q \in Request : \A copy \in req[q].copy : req[q].pc = "commit" => copy.id # nextId
  <2>1. nextId \in Nat /\ \A i \in Ids : i < nextId /\ i \in Nat
    BY BoundsAssumption DEF TInv, Types, Id
  <2>2. \A q \in Request : \A copy \in req[q].copy :
          copy.id \in Nat /\ (req[q].pc = "commit" => copy.id < nextId)
    BY BoundsAssumption DEF TInv, Types, Copy, Id
  <2>3. QED
    BY <2>1, <2>2
<1>8. ASSUME NEW q \in Request PROVE Agrees(q)'
  BY <1>2, <1>4, <1>5, <1>6, <1>7 DEF FInv, Agrees, Same
<1>9. Apart'
  BY <1>4, <1>5, <1>7 DEF FInv, Apart
<1>10. \A k \in Watched : ListAgrees(k)'
  BY <1>6 DEF FInv, ListAgrees, Same, Says
<1>11. QED
  BY <1>8, <1>9, <1>10 DEF FInv

LEMMA AgreesFresh ==
  ASSUME FInv, NEW r \in Request
  PROVE  Fresh(r)
  BY DEF FInv, Agrees, Fresh

LEMMA CommitAdds ==
  ASSUME TInv, NEW r \in Request, Fresh(r), Commit(r)
  PROVE  \E copy \in req[r].copy :
            /\ copy \in Copy /\ copy.id \notin Ids /\ req[r].pc = "commit"
            /\ copy.row.history = << >> /\ copy.row.status = NoStatus
            /\ Ids' = Ids \cup {copy.id} /\ row' \in [Ids' -> Row]
            /\ row'[copy.id] = copy.row /\ \A i \in Ids : row'[i] = row[i]
            /\ \E new \in Row :
                  /\ Same(new, copy.row) /\ new.status = "planned"
                  /\ req' = [req EXCEPT ![r] = [pc   |-> "firstStatus",
                                                copy |-> {[id |-> copy.id, row |-> new]}]]
<1>1. PICK copy \in req[r].copy :
        /\ row' = [i \in Ids \cup {copy.id} |-> IF i = copy.id THEN copy.row ELSE row[i]]
        /\ Working(r, "firstStatus", copy.id,
                   [copy.row EXCEPT !.status = InitialStatus(copy.row.type)])
  BY DEF Commit
<1>2. copy \in Copy /\ copy.row \in Row /\ req[r].pc = "commit"
  BY DEF Commit, TInv, Types, Copy
<1>3. copy.id \notin Ids /\ copy.row.history = << >> /\ copy.row.status = NoStatus
  BY <1>2 DEF Fresh
<1> DEFINE new == [copy.row EXCEPT !.status = InitialStatus(copy.row.type)]
<1>4. new \in Row /\ Same(new, copy.row) /\ new.status = "planned"
  <2>1. InitialStatus(copy.row.type) = "planned" /\ "planned" \in Status
    BY <1>2 DEF Row, InitialStatus, Status, InformationStatus
  <2>2. QED
    BY <1>2, <2>1 DEF Row, Same
<1>5. /\ Ids' = Ids \cup {copy.id} /\ row' \in [Ids' -> Row]
      /\ row'[copy.id] = copy.row /\ \A i \in Ids : row'[i] = row[i]
  BY <1>1, <1>2, <1>3 DEF Ids, TInv, Types
<1>6. req' = [req EXCEPT ![r] = [pc |-> "firstStatus", copy |-> {[id |-> copy.id, row |-> new]}]]
  BY <1>1 DEF Working
<1> HIDE DEF new
<1>7. QED
  BY <1>2, <1>3, <1>4, <1>5, <1>6

LEMMA CommitFInv ==
  ASSUME TInv, FInv, NEW r \in Request, Commit(r)
  PROVE  FInv' /\ Keeps
<1>1. PICK copy \in req[r].copy, new \in Row :
        /\ copy.id \notin Ids /\ req[r].pc = "commit"
        /\ Ids' = Ids \cup {copy.id}
        /\ row'[copy.id] = copy.row /\ \A i \in Ids : row'[i] = row[i]
        /\ Same(new, copy.row)
        /\ req' = [req EXCEPT ![r] = [pc   |-> "firstStatus",
                                      copy |-> {[id |-> copy.id, row |-> new]}]]
  BY AgreesFresh, CommitAdds
<1> DEFINE l == [pc |-> "firstStatus", copy |-> {[id |-> copy.id, row |-> new]}]
<1>2. l.pc = "firstStatus" /\ l.copy = {[id |-> copy.id, row |-> new]} /\ req' = [req EXCEPT ![r] = l]
  BY <1>1
<1> HIDE DEF l
<1>3. \A q \in Request : req'[q] = IF q = r THEN l ELSE req[q]
  BY <1>2 DEF TInv, Types
<1>4. ASSUME NEW q \in Request PROVE Agrees(q)'
  <2>1. CASE q = r
    BY <1>1, <1>2, <1>3, <2>1 DEF Agrees, Same
  <2>2. CASE q # r
    <3>1. \A c \in req[q].copy : req[q].pc # "commit" => c.id \in Ids
      BY DEF TInv
    <3>2. \A c \in req[q].copy : req[q].pc = "commit" => c.id # copy.id
      BY <1>1, <2>2 DEF FInv, Apart
    <3>3. QED
      BY <1>1, <1>3, <2>2, <3>1, <3>2 DEF FInv, Agrees, Same
  <2>3. QED
    BY <2>1, <2>2
<1>5. Apart'
  BY <1>2, <1>3 DEF FInv, Apart
<1>6. \A k \in Watched : ListAgrees(k)'
  <2>1. watcher' = watcher /\ \A k \in Watched : \A c \in watcher[k].list : c.id \in Ids
    BY DEF Commit, TInv
  <2>2. QED
    BY <1>1, <2>1 DEF FInv, ListAgrees, Same, Says
<1>7. Keeps
  BY <1>1 DEF Keeps, Same, Says
<1>8. QED
  BY <1>4, <1>5, <1>6, <1>7 DEF FInv

\* A struct that agrees with its row is written, and statuses are added.
LEMMA WrittenKeeps ==
  ASSUME TInv, NEW copy \in Copy, copy.id \in Ids, NEW added \in Seq(Status),
         RowWritten(copy, added), Same(copy.row, row[copy.id])
  PROVE  Keeps /\ Ids' = Ids
<1>1. row[copy.id] \in Row /\ copy.row \in Row
  BY DEF TInv, Types, Copy
<1>2. \A s \in Status : In(s, row[copy.id].history) => In(s, row'[copy.id].history)
  <2> DEFINE h == row[copy.id].history
  <2>1. h \in Seq(Status)
    BY <1>1 DEF Row
  <2>2. row'[copy.id].history = h \o added
    BY DEF RowWritten
  <2> HIDE DEF h
  <2>3. \A s \in Status : In(s, h) => In(s, h \o added)
    BY <2>1 DEF In
  <2>4. QED
    BY <2>2, <2>3 DEF h
<1>3. Same(row[copy.id], row'[copy.id])
  BY <1>1 DEF RowWritten, Same
<1>4. QED
  BY <1>2, <1>3 DEF RowWritten, Keeps, Same, Says

LEMMA StatusFInv ==
  ASSUME TInv, FInv, NEW r \in Request, FirstStatus(r) \/ Patch(r)
  PROVE  FInv' /\ Keeps
<1>1. PICK copy \in req[r].copy : /\ copy \in Copy /\ copy.id \in Ids
                                  /\ copy.row.status \in Status
                                  /\ RowWritten(copy, <<copy.row.status>>)
  BY StatusWritten
<1>2. Same(copy.row, row[copy.id])
  BY DEF FirstStatus, Patch, FInv, Agrees
<1>3. <<copy.row.status>> \in Seq(Status)
  BY <1>1
<1>4. Keeps /\ Ids' = Ids
  BY <1>1, <1>2, <1>3, WrittenKeeps
<1>5. /\ \A q \in Request : req'[q] = req[q] \/ req'[q] = IdleRequest
      /\ watcher' = watcher
  BY DoneTyped DEF FirstStatus, Patch
<1>6. QED
  BY <1>4, <1>5, KeepsFInv

LEMMA PatchRequestFInv ==
  ASSUME TInv, FInv, NEW r \in Request, PatchRequest(r), PatchTypes = {}
  PROVE  FInv'
<1>1. PICK i \in Ids, e \in Row : Working(r, "patch", i, e) /\ Same(e, row[i])
  BY PatchRequestPrepares DEF Same, TInv
<1> DEFINE l == [pc |-> "patch", copy |-> {[id |-> i, row |-> e]}]
<1>2. req' = [req EXCEPT ![r] = l] /\ l.pc = "patch" /\ l.copy = {[id |-> i, row |-> e]}
  BY <1>1 DEF Working
<1> HIDE DEF l
<1>3. \A q \in Request : req'[q] = IF q = r THEN l ELSE req[q]
  BY <1>2 DEF TInv, Types
<1>4. row' = row /\ Ids' = Ids /\ watcher' = watcher
  BY DEF PatchRequest, Ids
<1>5. \A q \in Request : Agrees(q)'
  BY <1>1, <1>2, <1>3, <1>4 DEF FInv, Agrees, Same
<1>6. Apart'
  BY <1>2, <1>3 DEF FInv, Apart
<1>7. \A k \in Watched : ListAgrees(k)'
  BY <1>4 DEF FInv, ListAgrees, Same, Says
<1>8. QED
  BY <1>5, <1>6, <1>7 DEF FInv

\* What a watcher holds after its Read.
LEMMA ReadLists ==
  ASSUME TInv, NEW k \in Watched, Read(k)
  PROVE  /\ UNCHANGED <<nextId, row, now, req, last, patches, faults>> /\ Ids' = Ids
         /\ \A j \in Watched \ {k} : watcher'[j] = watcher[j]
         /\ watcher'[k].list = {[id |-> i, row |-> row[i]] : i \in Listed(k)}
         /\ watcher'[k].seen = Listed(k)
<1> DEFINE l == [pc |-> "work", list |-> {[id |-> i, row |-> row[i]] : i \in Listed(k)},
                 seen |-> Listed(k), active |-> {}]
           w == IF Listed(k) = {} THEN IdleWatcher ELSE l
<1>1. w.list = {[id |-> i, row |-> row[i]] : i \in Listed(k)} /\ w.seen = Listed(k)
  BY DEF IdleWatcher
<1>2. watcher' = [watcher EXCEPT ![k] = w]
  BY DEF Read
<1> HIDE DEF w
<1>3. watcher'[k] = w /\ \A j \in Watched \ {k} : watcher'[j] = watcher[j]
  BY <1>2 DEF TInv, Types
<1>4. QED
  BY <1>1, <1>3 DEF Read, Ids

LEMMA ReadFInv ==
  ASSUME TInv, FInv, NEW k \in Watched, Read(k)
  PROVE  FInv'
<1>1. /\ row' = row /\ req' = req /\ Ids' = Ids
      /\ \A j \in Watched \ {k} : watcher'[j] = watcher[j]
      /\ watcher'[k].list = {[id |-> i, row |-> row[i]] : i \in Listed(k)}
  BY ReadLists
<1>2. ListAgrees(k)'
  BY <1>1 DEF ListAgrees, Listed, Same, Says
<1>3. \A j \in Watched \ {k} : ListAgrees(j)'
  BY <1>1 DEF FInv, ListAgrees, Same, Says
<1>4. \A r \in Request : Agrees(r)'
  BY <1>1 DEF FInv, Agrees, Same
<1>5. Apart'
  BY <1>1 DEF FInv, Apart
<1>6. QED
  BY <1>2, <1>3, <1>4, <1>5 DEF FInv

LEMMA TurnFInv ==
  ASSUME TInv, FInv, NEW k \in Watched, NEW copy \in watcher[k].list, Turn(k, copy)
  PROVE  FInv' /\ Keeps
<1>1. /\ copy.id \in Ids /\ copy.row \in Row
      /\ Judged(k, copy) \in Copy /\ Judged(k, copy).id = copy.id
      /\ Judged(k, copy).row =
            [copy.row EXCEPT !.status = IF k = "maintenance" THEN CurrentStatus(k, copy.row) ELSE @]
      /\ Missed(k, copy) \in Seq(Status)
      /\ RowWritten(Judged(k, copy), Missed(k, copy))
  BY TurnWrites
<1>2. Same(Judged(k, copy).row, copy.row)
  BY <1>1 DEF Same, Row
<1>3. Same(Judged(k, copy).row, row[copy.id])
  BY <1>2 DEF FInv, ListAgrees, Same
<1>4. Keeps /\ Ids' = Ids
  BY <1>1, <1>3, WrittenKeeps
<1>5. /\ \A j \in Watched \ {k} : watcher'[j].list \subseteq watcher[j].list
      /\ watcher'[k].list \subseteq watcher[k].list
  <2>1. \A j \in Watched \ {k} : watcher'[j] = watcher[j]
    BY TurnWatchers
  <2>2. watcher'[k] = IdleWatcher \/ watcher'[k].list = watcher[k].list \ {copy}
    BY TurnWatchers
  <2>3. QED
    BY <2>1, <2>2 DEF IdleWatcher
<1>6. \A j \in Watched : watcher'[j].list \subseteq watcher[j].list
  BY <1>5
<1>7. QED
  BY <1>4, <1>6, KeepsFInv DEF Turn

LEMMA NextFInv ==
  ASSUME PatchTypes = {}
  PROVE  TInv /\ FInv /\ [Next]_vars => FInv' /\ Keeps
<1> SUFFICES ASSUME TInv, FInv, [Next]_vars PROVE FInv' /\ Keeps
  OBVIOUS
<1>0. row' = row => Keeps /\ Ids' = Ids
  BY DEF Keeps, Same, Says, Ids
<1>1. ASSUME NEW r \in Request, Insert(r) PROVE FInv' /\ Keeps
  BY <1>0, <1>1, InsertFInv DEF Insert
<1>2. ASSUME NEW r \in Request, Commit(r) PROVE FInv' /\ Keeps
  BY <1>2, CommitFInv
<1>3. ASSUME NEW r \in Request, FirstStatus(r) \/ Patch(r) PROVE FInv' /\ Keeps
  BY <1>3, StatusFInv
<1>4. ASSUME NEW r \in Request, PatchRequest(r) PROVE FInv' /\ Keeps
  BY <1>0, <1>4, PatchRequestFInv DEF PatchRequest
<1>5. ASSUME NEW k \in Watched, Read(k) PROVE FInv' /\ Keeps
  BY <1>0, <1>5, ReadFInv DEF Read
<1>6. ASSUME NEW k \in Watched, CheckNext(k) PROVE FInv' /\ Keeps
  BY <1>6, CheckNextTurns, TurnFInv DEF TInv
<1>7. ASSUME row' = row,
             \A r \in Request : req'[r] = req[r] \/ req'[r] = IdleRequest,
             \A k \in Watched : watcher'[k].list \subseteq watcher[k].list
      PROVE  FInv' /\ Keeps
  BY <1>0, <1>7, KeepsFInv
<1>8. ASSUME NEW k \in Watched, CheckFails(k) PROVE FInv' /\ Keeps
  BY <1>7, <1>8 DEF CheckFails, IdleWatcher, TInv, Types
<1>9. CASE ProcessLost
  BY <1>7, <1>9 DEF ProcessLost, IdleWatcher
<1>10. CASE Tick
  BY <1>7, <1>10 DEF Tick, IdleWatcher
<1>11. CASE ClockTicks
  BY <1>7, <1>11 DEF ClockTicks
<1>12. CASE UNCHANGED vars
  BY <1>7, <1>12 DEF vars
<1>13. QED
  BY <1>1, <1>2, <1>3, <1>4, <1>5, <1>6, <1>8, <1>9, <1>10, <1>11, <1>12
  DEF Next, Panic, Restart

-----------------------------------------------------------------------------
(* That an event runs, and that it is over, is recorded once *)

LEMMA OnceAppended ==
  ASSUME NEW h \in Seq(Status), NEW s \in Status, NEW c, Once(c, h), c = s => ~In(c, h)
  PROVE  Once(c, h \o <<s>>)
<1> DEFINE g == h \o <<s>>
<1>1. /\ Len(h) \in Nat
      /\ \A n \in 1..Len(h) : g[n] = h[n]
      /\ g[Len(h) + 1] = s
      /\ DOMAIN g = 1..(Len(h) + 1) /\ DOMAIN h = 1..Len(h)
  BY Appended
<1> HIDE DEF g
<1>2. ASSUME NEW m \in DOMAIN g, NEW n \in DOMAIN g, g[m] = c, g[n] = c PROVE m = n
  <2>1. CASE m \in 1..Len(h) /\ n \in 1..Len(h)
    BY <1>1, <1>2, <2>1 DEF Once
  <2>2. CASE c = s
    <3>1. \A x \in 1..Len(h) : h[x] # c
      BY <1>1, <2>2 DEF In
    <3>2. m = Len(h) + 1 /\ n = Len(h) + 1
      BY <1>1, <1>2, <3>1
    <3>3. QED
      BY <3>2
  <2>3. CASE c # s
    BY <1>1, <1>2, <2>1, <2>3
  <2>4. QED
    BY <2>2, <2>3
<1>3. QED
  BY <1>2 DEF Once, g

LEMMA UnlessOnce ==
  ASSUME NEW h \in Seq(Status), NEW s \in Status, NEW had \in BOOLEAN, NEW c, Once(c, h),
         ~had /\ c = s => ~In(c, h)
  PROVE  /\ Unless(had, s) \in Seq(Status)
         /\ h \o Unless(had, s) \in Seq(Status)
         /\ Once(c, h \o Unless(had, s))
         /\ In(c, h \o Unless(had, s)) <=> In(c, h) \/ (~had /\ c = s)
<1>1. CASE had
  <2>1. Unless(had, s) = << >> /\ << >> \in Seq(Status)
    BY <1>1 DEF Unless
  <2>2. h \o Unless(had, s) = h
    BY <2>1, ConcatEmptySeq
  <2>3. QED
    BY <1>1, <2>1, <2>2
<1>2. CASE ~had
  <2>1. Unless(had, s) = <<s>> /\ <<s>> \in Seq(Status)
    BY <1>2 DEF Unless
  <2>2. QED
    BY <1>2, <2>1, InAppended, OnceAppended
<1>3. QED
  BY <1>1, <1>2

\* A turn that looks at what a history claims adds no claim for a second time.
LEMMA MissedOnce ==
  ASSUME NEW k \in {"maintenance", "info"}, NEW s \in Status,
         NEW h \in Seq(Status), NEW old \in Seq(Status), NEW c \in Claims,
         Once(c, h), In(c, h) => In(c, old)
  PROVE  Once(c, h \o MissedStatuses(k, s, old))
<1> DEFINE hadP == In("planned", old)
           hadR == s \notin {Running(k), "completed"} \/ In(Running(k), old)
           hadC == s # "completed" \/ In("completed", old)
           P == Unless(hadP, "planned")
           R == Unless(hadR, Running(k))
           C == Unless(hadC, "completed")
           h1 == h \o P
           h2 == h1 \o R
<1>1. /\ Running(k) \in Status /\ "planned" \in Status /\ "completed" \in Status
      /\ Running(k) # "completed" /\ c # "planned"
  BY InProgressDistinct DEF Running, Status, MaintenanceStatus, InformationStatus, Claims
<1>2. hadP \in BOOLEAN /\ hadR \in BOOLEAN /\ hadC \in BOOLEAN
  BY DEF In
<1>3. /\ P \in Seq(Status) /\ h1 \in Seq(Status) /\ Once(c, h1)
      /\ In(c, h1) <=> In(c, h)
  <2> HIDE DEF hadP
  <2> QED
    BY <1>1, <1>2, UnlessOnce
<1>4. /\ R \in Seq(Status) /\ h2 \in Seq(Status) /\ Once(c, h2)
      /\ In(c, h2) <=> In(c, h) \/ (~hadR /\ c = Running(k))
  <2>1. ~hadR /\ c = Running(k) => ~In(c, h1)
    BY <1>3
  <2> HIDE DEF hadR, h1
  <2>2. /\ R \in Seq(Status) /\ h2 \in Seq(Status) /\ Once(c, h2)
        /\ In(c, h2) <=> In(c, h1) \/ (~hadR /\ c = Running(k))
    BY <1>1, <1>2, <1>3, <2>1, UnlessOnce
  <2>3. QED
    BY <1>3, <2>2
<1>5. C \in Seq(Status) /\ Once(c, h2 \o C)
  <2>1. ~hadC /\ c = "completed" => ~In(c, h2)
    BY <1>1, <1>4
  <2> HIDE DEF hadC, h2
  <2>2. QED
    BY <1>1, <1>2, <1>4, <2>1, UnlessOnce
<1>6. MissedStatuses(k, s, old) = (P \o R) \o C
  BY DEF MissedStatuses
<1>7. h \o ((P \o R) \o C) = h2 \o C
  <2>1. P \in Seq(Status) /\ R \in Seq(Status) /\ C \in Seq(Status)
    BY <1>3, <1>4, <1>5
  <2> HIDE DEF P, R, C
  <2> DEFINE Grouped(p, r, q) ==
               /\ (p \o r) \o q \in Seq(Status)
               /\ ((h \o p) \o r) \o q = h \o ((p \o r) \o q)
  <2>2. \A p, r, q \in Seq(Status) : Grouped(p, r, q)
    BY AppendedInTurn
  <2> HIDE DEF Grouped
  <2>3. Grouped(P, R, C)
    BY <2>1, <2>2
  <2>4. QED
    BY <2>3 DEF Grouped
<1>8. QED
  BY <1>5, <1>6, <1>7

\* A handler adds no claim.
LEMMA StatusClaimsNothing ==
  ASSUME TInv, CInv, NEW r \in Request, FirstStatus(r) \/ Patch(r)
  PROVE  /\ Ids' = Ids /\ watcher' = watcher
         /\ \A i \in Ids : \A c \in Claims :
               /\ In(c, row'[i].history) => In(c, row[i].history)
               /\ Once(c, row[i].history) => Once(c, row'[i].history)
<1>1. PICK copy \in req[r].copy : /\ copy.id \in Ids /\ copy.row.status \in Status
                                  /\ RowWritten(copy, <<copy.row.status>>)
  BY StatusWritten
<1>2. copy.row.status \notin Claims
  BY DEF FirstStatus, Patch, CInv, Prepared
<1> DEFINE h == row[copy.id].history
           s == copy.row.status
<1>3. h \in Seq(Status) /\ s \in Status /\ row'[copy.id].history = h \o <<s>>
  BY <1>1 DEF RowWritten, TInv, Types, Row
<1>4. \A c \in Claims : /\ In(c, h \o <<s>>) => In(c, h)
                        /\ Once(c, h) => Once(c, h \o <<s>>)
  <2> HIDE DEF h, s
  <2>1. \A c \in Claims : c # s
    BY <1>2 DEF s
  <2>2. \A c : In(c, h \o <<s>>) <=> In(c, h) \/ c = s
    BY <1>3, InAppended
  <2>3. \A c : Once(c, h) /\ c # s => Once(c, h \o <<s>>)
    BY <1>3, OnceAppended
  <2>4. QED
    BY <2>1, <2>2, <2>3
<1>5. \A i \in Ids \ {copy.id} : row'[i] = row[i]
  BY <1>1 DEF RowWritten
<1>6. Ids' = Ids /\ watcher' = watcher
  BY <1>1 DEF RowWritten, FirstStatus, Patch
<1>7. QED
  BY <1>3, <1>4, <1>5, <1>6

\* A turn of watcher k adds claims to the event it has come to, each once.
LEMMA TurnClaimsOnce ==
  ASSUME TInv, FInv, OInv, NEW k \in Watched, NEW copy \in watcher[k].list, Turn(k, copy)
  PROVE  /\ Ids' = Ids /\ \A i \in Ids \ {copy.id} : row'[i] = row[i]
         /\ \A i \in Ids : \A c \in Claims : Once(c, row'[i].history)
<1>1. /\ copy.id \in Ids /\ copy.row \in Row /\ Judged(k, copy).id = copy.id
      /\ RowWritten(Judged(k, copy), Missed(k, copy))
  BY TurnWrites
<1> DEFINE h == row[copy.id].history
           old == copy.row.history
           s == CurrentStatus(k, copy.row)
<1>2. /\ k \in {"maintenance", "info"} /\ s \in Status
      /\ h \in Seq(Status) /\ old \in Seq(Status)
  BY <1>1, WatchedAssumption, StatusTypedNow DEF TInv, Types, Row
<1>3. row'[copy.id].history = h \o MissedStatuses(k, s, old)
  BY <1>1 DEF RowWritten, Missed
<1>4. \A c \in Claims : Once(c, h) /\ (In(c, h) => In(c, old))
  BY <1>1 DEF OInv, UpToDate
<1>5. \A c \in Claims : Once(c, h \o MissedStatuses(k, s, old))
  <2> HIDE DEF h, s, old
  <2>1. QED
    BY <1>2, <1>4, MissedOnce
<1>6. Ids' = Ids /\ \A i \in Ids \ {copy.id} : row'[i] = row[i]
  BY <1>1 DEF RowWritten
<1>7. \A i \in Ids : \A c \in Claims : Once(c, row'[i].history)
  BY <1>3, <1>5, <1>6 DEF OInv
<1>8. QED
  BY <1>6, <1>7

LEMMA TurnOInv ==
  ASSUME TInv, FInv, OInv, NEW k \in Watched, NEW copy \in watcher[k].list, Turn(k, copy)
  PROVE  OInv'
<1>1. /\ Ids' = Ids /\ \A i \in Ids \ {copy.id} : row'[i] = row[i]
      /\ \A i \in Ids : \A c \in Claims : Once(c, row'[i].history)
  BY TurnClaimsOnce
<1>2. ASSUME NEW j \in Watched, NEW other \in watcher'[j].list
      PROVE  other \in watcher[j].list /\ other.id # copy.id
  <2>1. CASE j = k
    <3>1. other \in watcher[k].list /\ other # copy
      <4>1. watcher'[k] = IdleWatcher \/ watcher'[k].list = watcher[k].list \ {copy}
        BY TurnWatchers
      <4>2. QED
        BY <1>2, <2>1, <4>1 DEF IdleWatcher
    <3>2. QED
      BY <2>1, <3>1 DEF FInv, ListAgrees
  <2>2. CASE j # k
    <3>1. watcher'[j] = watcher[j]
      BY <2>2, TurnWatchers
    <3>2. other.row.type = j /\ copy.row.type = k /\ other \in watcher[j].list
      BY <1>2, <3>1 DEF FInv, ListAgrees
    <3>3. other.id # copy.id
      BY <2>2, <3>2 DEF FInv, ListAgrees, Same
    <3>4. QED
      BY <3>2, <3>3
  <2>3. QED
    BY <2>1, <2>2
<1>3. ASSUME NEW j \in Watched PROVE UpToDate(j)'
  <2>1. \A other \in watcher[j].list : other.id \in Ids
    BY DEF TInv
  <2>2. \A other \in watcher'[j].list : row'[other.id] = row[other.id]
    BY <1>1, <1>2, <2>1
  <2>3. QED
    BY <1>2, <2>2 DEF OInv, UpToDate, In
<1>4. QED
  BY <1>1, <1>3 DEF OInv

LEMMA NextOInv ==
  ASSUME PatchTypes = {}, PatchStatus \cap Claims = {}
  PROVE  TInv /\ CInv /\ FInv /\ OInv /\ [Next]_vars => OInv'
<1> SUFFICES ASSUME TInv, CInv, FInv, OInv, [Next]_vars PROVE OInv'
  OBVIOUS
<1>0. \A k \in Watched : \A copy \in watcher[k].list : copy.id \in Ids
  BY DEF TInv
<1>1. ASSUME row' = row, \A k \in Watched : watcher'[k].list \subseteq watcher[k].list PROVE OInv'
  BY <1>1 DEF OInv, UpToDate, In, Ids
<1>2. ASSUME NEW r \in Request, Commit(r) PROVE OInv'
  <2>1. PICK copy \in req[r].copy :
          /\ Ids' = Ids \cup {copy.id} /\ copy.row.history = << >>
          /\ row'[copy.id] = copy.row /\ \A i \in Ids : row'[i] = row[i]
    BY <1>2, AgreesFresh, CommitAdds
  <2>2. \A c : Once(c, << >>)
    BY DEF Once
  <2>3. watcher' = watcher
    BY <1>2 DEF Commit
  <2>4. \A i \in Ids' : \A c \in Claims : Once(c, row'[i].history)
    BY <2>1, <2>2 DEF OInv
  <2>5. \A k \in Watched : UpToDate(k)'
    BY <1>0, <2>1, <2>3 DEF OInv, UpToDate, In
  <2>6. QED
    BY <2>4, <2>5 DEF OInv
<1>3. ASSUME NEW r \in Request, FirstStatus(r) \/ Patch(r) PROVE OInv'
  <2>1. /\ Ids' = Ids /\ watcher' = watcher
        /\ \A i \in Ids : \A c \in Claims :
              /\ In(c, row'[i].history) => In(c, row[i].history)
              /\ Once(c, row[i].history) => Once(c, row'[i].history)
    BY <1>3, StatusClaimsNothing
  <2>2. \A k \in Watched : UpToDate(k)'
    <3>1. \A k \in Watched : \A copy \in watcher[k].list : \A c \in Claims :
            In(c, row'[copy.id].history) => In(c, copy.row.history)
      BY <1>0, <2>1 DEF OInv, UpToDate
    <3>2. QED
      BY <2>1, <3>1 DEF UpToDate, In
  <2>3. QED
    BY <2>1, <2>2 DEF OInv
<1>4. ASSUME NEW k \in Watched, Read(k) PROVE OInv'
  <2>1. /\ row' = row /\ Ids' = Ids
        /\ \A j \in Watched \ {k} : watcher'[j] = watcher[j]
        /\ watcher'[k].list = {[id |-> i, row |-> row[i]] : i \in Listed(k)}
    BY <1>4, ReadLists
  <2>2. UpToDate(k)'
    BY <2>1 DEF UpToDate, In
  <2>3. \A j \in Watched \ {k} : UpToDate(j)'
    BY <2>1 DEF OInv, UpToDate, In
  <2>4. QED
    BY <2>1, <2>2, <2>3 DEF OInv
<1>5. ASSUME NEW k \in Watched, CheckNext(k) PROVE OInv'
  BY <1>5, CheckNextTurns, TurnOInv DEF TInv
<1>6. ASSUME NEW r \in Request, Insert(r) \/ PatchRequest(r) PROVE OInv'
  BY <1>1, <1>6 DEF Insert, PatchRequest
<1>7. ASSUME NEW k \in Watched, CheckFails(k) PROVE OInv'
  BY <1>1, <1>7 DEF CheckFails, IdleWatcher, TInv, Types
<1>8. CASE ProcessLost
  BY <1>1, <1>8 DEF ProcessLost, IdleWatcher
<1>9. CASE Tick
  BY <1>1, <1>9 DEF Tick, IdleWatcher
<1>10. CASE ClockTicks
  BY <1>1, <1>10 DEF ClockTicks
<1>11. CASE UNCHANGED vars
  BY <1>1, <1>11 DEF vars
<1>12. QED
  BY <1>2, <1>3, <1>4, <1>5, <1>6, <1>7, <1>8, <1>9, <1>10, <1>11 DEF Next, Panic, Restart

LEMMA OnceCounted ==
  ASSUME NEW s, NEW h, Once(s, h)
  PROVE  Occurrences(s, h) <= 1
<1> DEFINE P == {n \in DOMAIN h : h[n] = s}
<1>1. CASE P = {}
  <2>1. Cardinality(P) = 0
    BY <1>1, FS_EmptySet
  <2>2. QED
    BY <2>1 DEF Occurrences
<1>2. CASE P # {}
  <2>1. PICK n \in P : TRUE
    BY <1>2
  <2>2. P = {n}
    BY <2>1 DEF Once
  <2>3. Cardinality(P) = 1
    BY <2>2, FS_Singleton
  <2>4. QED
    BY <2>3 DEF Occurrences
<1>3. QED
  BY <1>1, <1>2

\* However often the checker runs, fails or is restarted, it records that an
\* event is running and that it is over at most once.  Operators may cancel,
\* move and modify events meanwhile, but neither change their types nor make
\* these claims themselves.
THEOREM ClaimsRecordedOnce ==
  ASSUME PatchTypes = {}, PatchStatus \cap Claims = {}
  PROVE  Spec => []RecordedOnce
<1>1. Init => OInv
  BY DEF Init, OInv, UpToDate, IdleWatcher, Ids
<1>2. TInv /\ CInv /\ FInv /\ OInv /\ [Next]_vars => TInv' /\ CInv' /\ FInv' /\ OInv'
  BY NextTInv, NextCInv, NextFInv, NextOInv
<1>3. OInv => RecordedOnce
  BY OnceCounted DEF OInv, RecordedOnce, Claims
<1>4. QED
  BY <1>1, <1>2, <1>3, InitTInv, InitCInv, InitFInv, PTL DEF Spec

-----------------------------------------------------------------------------
(* The status of an event is one its history tells *)

\* The copies a watcher holds tell their status, and nothing their rows do not.
ListTells(k) ==
    \A copy \in watcher[k].list :
        /\ copy.row.status # NoStatus => In(copy.row.status, copy.row.history)
        /\ Says(copy.row, row[copy.id])

AInv ==
    /\ \A r \in Request : Fresh(r)
    /\ Apart
    /\ \A k \in Watched : ListTells(k)
    /\ StatusIsTold

LEMMA InConcat ==
  ASSUME NEW g \in Seq(Status), NEW h \in Seq(Status), NEW x
  PROVE  g \o h \in Seq(Status) /\ (In(x, g) \/ In(x, h) => In(x, g \o h))
<1>1. /\ g \o h \in Seq(Status) /\ Len(g) \in Nat /\ DOMAIN g = 1..Len(g)
      /\ DOMAIN h = 1..Len(h) /\ DOMAIN (g \o h) = 1..(Len(g) + Len(h)) /\ Len(h) \in Nat
      /\ \A n \in 1..Len(g) : (g \o h)[n] = g[n]
      /\ \A n \in 1..Len(h) : (g \o h)[Len(g) + n] = h[n]
  BY ConcatProperties
<1> DEFINE c == g \o h
<1>2. /\ DOMAIN c = 1..(Len(g) + Len(h)) /\ \A n \in 1..Len(g) : c[n] = g[n]
      /\ \A n \in 1..Len(h) : c[Len(g) + n] = h[n]
  BY <1>1
<1> HIDE DEF c
<1>3. ASSUME In(x, g) PROVE In(x, c)
  BY <1>1, <1>2, <1>3 DEF In
<1>4. ASSUME In(x, h) PROVE In(x, c)
  <2>1. PICK n \in 1..Len(h) : h[n] = x
    BY <1>1, <1>4 DEF In
  <2>2. Len(g) + n \in DOMAIN c /\ c[Len(g) + n] = x
    BY <1>1, <1>2, <2>1
  <2>3. QED
    BY <2>2 DEF In
<1>5. QED
  BY <1>1, <1>3, <1>4 DEF c

\* The status that the checker works out is among those it adds, if the
\* history it has looked at lacks it.
LEMMA MissedTells ==
  ASSUME NEW k \in {"maintenance", "info"}, NEW s \in {"planned", Running(k), "completed"},
         NEW old
  PROVE  In(s, old) \/ In(s, MissedStatuses(k, s, old))
<1> DEFINE P == Unless(In("planned", old), "planned")
           R == Unless(s \notin {Running(k), "completed"} \/ In(Running(k), old), Running(k))
           C == Unless(s # "completed" \/ In("completed", old), "completed")
<1>1. /\ Running(k) \in Status /\ "planned" \in Status /\ "completed" \in Status
  BY DEF Running, Status, MaintenanceStatus, InformationStatus
<1>2. P \in Seq(Status) /\ R \in Seq(Status) /\ C \in Seq(Status)
  BY <1>1 DEF Unless
<1>3. \A x : In(x, <<x>>)
  BY DEF In
<1>4. ASSUME ~In(s, old) PROVE In(s, P) \/ In(s, R) \/ In(s, C)
  <2>1. CASE s = "planned"
    BY <1>3, <1>4, <2>1 DEF Unless
  <2>2. CASE s = Running(k)
    BY <1>3, <1>4, <2>2 DEF Unless
  <2>3. CASE s = "completed"
    BY <1>3, <1>4, <2>3 DEF Unless
  <2>4. QED
    BY <2>1, <2>2, <2>3
<1>5. MissedStatuses(k, s, old) = (P \o R) \o C
  BY DEF MissedStatuses
<1> HIDE DEF P, R, C
<1>6. In(s, P) \/ In(s, R) \/ In(s, C) => In(s, (P \o R) \o C)
  BY <1>2, InConcat
<1>7. QED
  BY <1>4, <1>5, <1>6

\* A status is written that the history tells once the new ones are added.
LEMMA WrittenTells ==
  ASSUME TInv, StatusIsTold, NEW copy \in Copy, copy.id \in Ids, NEW added \in Seq(Status),
         RowWritten(copy, added),
         copy.row.status # NoStatus => In(copy.row.status, row[copy.id].history \o added)
  PROVE  Ids' = Ids /\ Grows /\ StatusIsTold'
<1> DEFINE h == row[copy.id].history
<1>1. h \in Seq(Status) /\ row[copy.id] \in Row /\ copy.row \in Row
  BY DEF TInv, Types, Row, Copy
<1>2. row'[copy.id].history = h \o added
  BY DEF RowWritten
<1> HIDE DEF h
<1>3. \A x : In(x, h) => In(x, row'[copy.id].history)
  BY <1>1, <1>2, InConcat
<1>4. Ids' = Ids /\ \A i \in Ids \ {copy.id} : row'[i] = row[i]
  BY DEF RowWritten
<1>5. Grows
  BY <1>3, <1>4 DEF Grows, h
<1>6. row'[copy.id].status # NoStatus => In(row'[copy.id].status, row'[copy.id].history)
  BY <1>2, <1>3 DEF RowWritten, StatusIsTold, h
<1>7. QED
  BY <1>4, <1>5, <1>6 DEF StatusIsTold

\* Requests end, watchers lose copies, histories grow.
LEMMA GrowsAInv ==
  ASSUME TInv, AInv, Grows, StatusIsTold', Ids' = Ids,
         \A r \in Request : req'[r] = req[r] \/ req'[r] = IdleRequest,
         \A k \in Watched : watcher'[k].list \subseteq watcher[k].list
  PROVE  AInv'
<1>1. \A r \in Request : Fresh(r)'
  BY DEF AInv, Fresh, IdleRequest
<1>2. Apart'
  BY DEF AInv, Apart, IdleRequest
<1>3. ASSUME NEW k \in Watched PROVE ListTells(k)'
  <2>1. \A copy \in watcher[k].list : copy.id \in Ids
    BY DEF TInv
  <2>2. \A copy \in watcher[k].list :
          /\ copy.row.status # NoStatus => In(copy.row.status, copy.row.history)
          /\ Says(copy.row, row'[copy.id])
    BY <2>1 DEF AInv, ListTells, Grows, Says
  <2>3. QED
    BY <2>2 DEF ListTells, Says
<1>4. QED
  BY <1>1, <1>2, <1>3 DEF AInv

LEMMA InsertAInv ==
  ASSUME TInv, AInv, NEW r \in Request, Insert(r)
  PROVE  AInv'
<1>1. PICK t \in NewTypes, s \in StartDates, e \in EndDates :
        Working(r, "commit", nextId, [type |-> t, start |-> s, end |-> e,
                                      status |-> NoStatus, history |-> << >>])
  BY DEF Insert
<1> DEFINE new == [type |-> t, start |-> s, end |-> e, status |-> NoStatus, history |-> << >>]
           l == [pc |-> "commit", copy |-> {[id |-> nextId, row |-> new]}]
<1>2. new.history = << >> /\ new.status = NoStatus
  OBVIOUS
<1>3. req' = [req EXCEPT ![r] = l]
  BY <1>1 DEF Working
<1> HIDE DEF new
<1>4. l.pc = "commit" /\ l.copy = {[id |-> nextId, row |-> new]}
  OBVIOUS
<1> HIDE DEF l
<1>5. \A q \in Request : req'[q] = IF q = r THEN l ELSE req[q]
  BY <1>3 DEF TInv, Types
<1>6. row' = row /\ Ids' = Ids /\ watcher' = watcher
  BY DEF Insert, Ids
<1>7. /\ nextId \notin Ids
      /\ \A q \in Request : \A copy \in req[q].copy : req[q].pc = "commit" => copy.id # nextId
  <2>1. nextId \in Nat /\ \A i \in Ids : i < nextId /\ i \in Nat
    BY BoundsAssumption DEF TInv, Types, Id
  <2>2. \A q \in Request : \A copy \in req[q].copy :
          copy.id \in Nat /\ (req[q].pc = "commit" => copy.id < nextId)
    BY BoundsAssumption DEF TInv, Types, Copy, Id
  <2>3. QED
    BY <2>1, <2>2
<1>8. ASSUME NEW q \in Request PROVE Fresh(q)'
  BY <1>2, <1>4, <1>5, <1>6, <1>7 DEF AInv, Fresh
<1>9. Apart'
  BY <1>4, <1>5, <1>7 DEF AInv, Apart
<1>10. StatusIsTold' /\ \A k \in Watched : ListTells(k)'
  BY <1>6 DEF AInv, StatusIsTold, ListTells, Says
<1>11. QED
  BY <1>8, <1>9, <1>10 DEF AInv

LEMMA CommitAInv ==
  ASSUME TInv, AInv, NEW r \in Request, Commit(r)
  PROVE  AInv'
<1>1. PICK copy \in req[r].copy, new \in Row :
        /\ copy.id \notin Ids /\ req[r].pc = "commit" /\ copy.row.status = NoStatus
        /\ Ids' = Ids \cup {copy.id}
        /\ row'[copy.id] = copy.row /\ \A i \in Ids : row'[i] = row[i]
        /\ req' = [req EXCEPT ![r] = [pc   |-> "firstStatus",
                                      copy |-> {[id |-> copy.id, row |-> new]}]]
  <2>1. Fresh(r)
    BY DEF AInv
  <2>2. QED
    BY <2>1, CommitAdds
<1> DEFINE l == [pc |-> "firstStatus", copy |-> {[id |-> copy.id, row |-> new]}]
<1>2. l.pc = "firstStatus" /\ req' = [req EXCEPT ![r] = l]
  BY <1>1
<1> HIDE DEF l
<1>3. \A q \in Request : req'[q] = IF q = r THEN l ELSE req[q]
  BY <1>2 DEF TInv, Types
<1>4. ASSUME NEW q \in Request PROVE Fresh(q)'
  <2>1. CASE q = r
    BY <1>2, <1>3, <2>1 DEF Fresh
  <2>2. CASE q # r
    <3>1. \A c \in req[q].copy : req[q].pc = "commit" => c.id # copy.id
      BY <1>1, <2>2 DEF AInv, Apart
    <3>2. QED
      BY <1>1, <1>3, <2>2, <3>1 DEF AInv, Fresh
  <2>3. QED
    BY <2>1, <2>2
<1>5. Apart'
  BY <1>2, <1>3 DEF AInv, Apart
<1>6. \A k \in Watched : ListTells(k)'
  <2>1. watcher' = watcher /\ \A k \in Watched : \A c \in watcher[k].list : c.id \in Ids
    BY DEF Commit, TInv
  <2>2. QED
    BY <1>1, <2>1 DEF AInv, ListTells, Says
<1>7. StatusIsTold'
  BY <1>1 DEF AInv, StatusIsTold
<1>8. QED
  BY <1>4, <1>5, <1>6, <1>7 DEF AInv

LEMMA StatusAInv ==
  ASSUME TInv, AInv, NEW r \in Request, FirstStatus(r) \/ Patch(r)
  PROVE  AInv'
<1>1. PICK copy \in req[r].copy : /\ copy \in Copy /\ copy.id \in Ids
                                  /\ copy.row.status \in Status
                                  /\ RowWritten(copy, <<copy.row.status>>)
  BY StatusWritten
<1> DEFINE s == copy.row.status
           h == row[copy.id].history
<1>2. h \in Seq(Status) /\ s \in Status /\ <<s>> \in Seq(Status)
  BY <1>1 DEF TInv, Types, Row
<1>3. In(s, h \o <<s>>)
  <2> HIDE DEF s, h
  <2> QED
    BY <1>2, InAppended
<1>4. Ids' = Ids /\ Grows /\ StatusIsTold'
  BY <1>1, <1>2, <1>3, WrittenTells DEF AInv
<1>5. /\ \A q \in Request : req'[q] = req[q] \/ req'[q] = IdleRequest
      /\ watcher' = watcher
  BY DoneTyped DEF FirstStatus, Patch
<1>6. QED
  BY <1>4, <1>5, GrowsAInv

LEMMA PatchRequestAInv ==
  ASSUME TInv, AInv, NEW r \in Request, PatchRequest(r)
  PROVE  AInv'
<1>1. PICK i \in Ids, e \in Row : Working(r, "patch", i, e)
  BY PatchRequestPrepares DEF TInv
<1> DEFINE l == [pc |-> "patch", copy |-> {[id |-> i, row |-> e]}]
<1>2. req' = [req EXCEPT ![r] = l] /\ l.pc = "patch"
  BY <1>1 DEF Working
<1> HIDE DEF l
<1>3. \A q \in Request : req'[q] = IF q = r THEN l ELSE req[q]
  BY <1>2 DEF TInv, Types
<1>4. row' = row /\ Ids' = Ids /\ watcher' = watcher
  BY DEF PatchRequest, Ids
<1>5. \A q \in Request : Fresh(q)'
  BY <1>2, <1>3, <1>4 DEF AInv, Fresh
<1>6. Apart'
  BY <1>2, <1>3 DEF AInv, Apart
<1>7. StatusIsTold' /\ \A k \in Watched : ListTells(k)'
  BY <1>4 DEF AInv, StatusIsTold, ListTells, Says
<1>8. QED
  BY <1>5, <1>6, <1>7 DEF AInv

LEMMA ReadAInv ==
  ASSUME TInv, AInv, NEW k \in Watched, Read(k)
  PROVE  AInv'
<1>1. /\ row' = row /\ req' = req /\ Ids' = Ids
      /\ \A j \in Watched \ {k} : watcher'[j] = watcher[j]
      /\ watcher'[k].list = {[id |-> i, row |-> row[i]] : i \in Listed(k)}
  BY ReadLists
<1>2. ListTells(k)'
  BY <1>1 DEF AInv, StatusIsTold, ListTells, Listed, Says
<1>3. \A j \in Watched \ {k} : ListTells(j)'
  BY <1>1 DEF AInv, ListTells, Says
<1>4. (\A r \in Request : Fresh(r)') /\ Apart' /\ StatusIsTold'
  BY <1>1 DEF AInv, Fresh, Apart, StatusIsTold
<1>5. QED
  BY <1>2, <1>3, <1>4 DEF AInv

\* What the checker writes, it has read, or added to the history.
LEMMA TurnTells ==
  ASSUME TInv, AInv, NEW k \in Watched, NEW copy \in watcher[k].list, Turn(k, copy)
  PROVE  Ids' = Ids /\ Grows /\ StatusIsTold'
<1>1. /\ copy.id \in Ids /\ copy.row \in Row
      /\ Judged(k, copy) \in Copy /\ Judged(k, copy).id = copy.id
      /\ Judged(k, copy).row =
            [copy.row EXCEPT !.status = IF k = "maintenance" THEN CurrentStatus(k, copy.row) ELSE @]
      /\ Missed(k, copy) \in Seq(Status)
      /\ RowWritten(Judged(k, copy), Missed(k, copy))
  BY TurnWrites
<1> DEFINE h   == row[copy.id].history
           old == copy.row.history
           s   == CurrentStatus(k, copy.row)
           new == Missed(k, copy)
           st  == Judged(k, copy).row.status
<1>2. /\ h \in Seq(Status) /\ new \in Seq(Status) /\ k \in {"maintenance", "info"}
      /\ \A x \in Status : In(x, old) => In(x, h)
      /\ copy.row.status \in Status /\ s \in Status
      /\ copy.row.status # NoStatus => In(copy.row.status, old)
  BY <1>1, WatchedAssumption, StatusTypedNow DEF TInv, Types, Row, AInv, ListTells, Says
<1>3. st = IF k = "maintenance" THEN s ELSE copy.row.status
  BY <1>1 DEF Row
<1>4. In(s, h) \/ In(s, new)
  <2>1. s \in {"planned", Running(k), "completed", "cancelled"}
    BY <1>2 DEF CurrentStatus, CurrentMntStatus, CurrentInfoStatus, Running
  <2>2. CASE s \in {"planned", Running(k), "completed"}
    <3>1. In(s, old) \/ In(s, MissedStatuses(k, s, old))
      <4> HIDE DEF s, old
      <4> QED
        BY <1>2, <2>2, MissedTells
    <3>2. QED
      BY <1>2, <3>1 DEF Missed
  <2>3. CASE s = "cancelled"
    <3>1. In("cancelled", old)
      BY <2>3, InProgressDistinct DEF CurrentStatus, CurrentMntStatus, CurrentInfoStatus
    <3>2. QED
      BY <1>2, <2>3, <3>1
  <2>4. QED
    BY <2>1, <2>2, <2>3
<1>5. st # NoStatus => In(st, h) \/ In(st, new)
  <2> HIDE DEF s, st, h, new, old
  <2> QED
    BY <1>2, <1>3, <1>4
<1>6. st # NoStatus => In(st, h \o new)
  <2> HIDE DEF st, h, new
  <2> QED
    BY <1>2, <1>5, InConcat
<1>7. QED
  BY <1>1, <1>6, WrittenTells DEF AInv

LEMMA TurnAInv ==
  ASSUME TInv, AInv, NEW k \in Watched, NEW copy \in watcher[k].list, Turn(k, copy)
  PROVE  AInv'
<1>1. \A j \in Watched \ {k} : watcher'[j] = watcher[j]
  BY TurnWatchers
<1>2. watcher'[k] = IdleWatcher \/ watcher'[k].list = watcher[k].list \ {copy}
  BY TurnWatchers
<1>3. \A j \in Watched : watcher'[j].list \subseteq watcher[j].list
  BY <1>1, <1>2 DEF IdleWatcher
<1>4. QED
  BY <1>3, TurnTells, GrowsAInv DEF Turn

LEMMA NextAInv == TInv /\ AInv /\ [Next]_vars => AInv'
<1> SUFFICES ASSUME TInv, AInv, [Next]_vars PROVE AInv'
  OBVIOUS
<1>1. ASSUME row' = row,
             \A r \in Request : req'[r] = req[r] \/ req'[r] = IdleRequest,
             \A k \in Watched : watcher'[k].list \subseteq watcher[k].list
      PROVE  AInv'
  <2>1. Ids' = Ids /\ Grows /\ StatusIsTold'
    BY <1>1 DEF Ids, Grows, AInv, StatusIsTold
  <2>2. QED
    BY <1>1, <2>1, GrowsAInv
<1>2. ASSUME NEW r \in Request, Insert(r) PROVE AInv'
  BY <1>2, InsertAInv
<1>3. ASSUME NEW r \in Request, Commit(r) PROVE AInv'
  BY <1>3, CommitAInv
<1>4. ASSUME NEW r \in Request, FirstStatus(r) \/ Patch(r) PROVE AInv'
  BY <1>4, StatusAInv
<1>5. ASSUME NEW r \in Request, PatchRequest(r) PROVE AInv'
  BY <1>5, PatchRequestAInv
<1>6. ASSUME NEW k \in Watched, Read(k) PROVE AInv'
  BY <1>6, ReadAInv
<1>7. ASSUME NEW k \in Watched, CheckNext(k) PROVE AInv'
  BY <1>7, CheckNextTurns, TurnAInv DEF TInv
<1>8. ASSUME NEW k \in Watched, CheckFails(k) PROVE AInv'
  BY <1>1, <1>8 DEF CheckFails, IdleWatcher, TInv, Types
<1>9. CASE ProcessLost
  BY <1>1, <1>9 DEF ProcessLost, IdleWatcher
<1>10. CASE Tick
  BY <1>1, <1>10 DEF Tick, IdleWatcher
<1>11. CASE ClockTicks \/ UNCHANGED vars
  BY <1>1, <1>11 DEF ClockTicks, vars
<1>12. QED
  BY <1>2, <1>3, <1>4, <1>5, <1>6, <1>7, <1>8, <1>9, <1>10, <1>11 DEF Next, Panic, Restart

\* An event never shows a status its history does not tell, whatever types,
\* dates and statuses operators PATCH, however late a first status is written,
\* and whichever of the stale structs of the checker and of the requests is
\* written last.
THEOREM StatusesAreTold == Spec => []StatusIsTold
<1>1. Init => AInv
  BY DEF Init, AInv, Fresh, Apart, ListTells, StatusIsTold, IdleRequest, IdleWatcher, Ids
<1>2. TInv /\ AInv /\ [Next]_vars => TInv' /\ AInv'
  BY NextTInv, NextAInv
<1>3. QED
  BY <1>1, <1>2, InitTInv, PTL DEF Spec, AInv

-----------------------------------------------------------------------------
(* What the remembered id leaves behind is over *)

\* The dates are left alone by every request, and none coincides with the clock.
DatesStay == ~PatchDates /\ Instants \cap StartDates = {}

LEMMA ApartFromClock ==
  ASSUME TInv, DatesStay, NEW e \in Row
  PROVE  e.start \in Nat /\ e.end \in Nat /\ now \in Nat /\ e.start # now
<1>1. e.start \in StartDates /\ e.end \in EndDates /\ now \in Instants \cup {0}
  BY DEF Row, TInv
<1>2. StartDates \subseteq Nat /\ 0 \notin StartDates /\ Instants \cap StartDates = {}
  BY DatesAssumption DEF NoEnd, DatesStay
<1>3. e.start # now
  BY <1>1, <1>2, Zenon
<1>4. EndDates \subseteq Nat /\ Instants \subseteq Nat
  BY DatesAssumption
<1>5. 0 \in Nat
  OBVIOUS
<1>6. e.start \in Nat /\ e.end \in Nat /\ now \in Nat
  BY <1>1, <1>2, <1>4, <1>5, Zenon
<1>7. QED
  BY <1>3, <1>6

\* A struct that agrees with its row is judged as its row is, once it is over.
LEMMA OverAgrees ==
  ASSUME TInv, DatesStay, NEW k \in {"maintenance", "info"},
         NEW e \in Row, NEW f \in Row, Same(e, f), Says(e, f),
         CurrentStatus(k, e) \in {"completed", "cancelled"}
  PROVE  CurrentStatus(k, f) \in {"completed", "cancelled"}
<1>1. e.start = f.start /\ e.end = f.end /\ (In("cancelled", e.history) => In("cancelled", f.history))
  BY DEF Same, Says, DatesStay, Status, MaintenanceStatus
<1>2. CASE k = "maintenance"
  BY <1>1, <1>2, InProgressDistinct DEF CurrentStatus, CurrentMntStatus
<1>3. CASE k = "info"
  BY <1>1, <1>3 DEF CurrentStatus, CurrentInfoStatus
<1>4. QED
  BY <1>2, <1>3

\* An event that is over stays so.
LEMMA OverStays ==
  ASSUME TInv, TInv', DatesStay, NEW k \in {"maintenance", "info"}, NEW i \in Ids,
         Keeps, now <= now', Over(k, i)
  PROVE  Over(k, i)'
<1> DEFINE e == row[i]
           f == row'[i]
<1>1. e \in Row /\ f \in Row /\ i \in Ids'
  BY DEF TInv, Types, Keeps
<1>2. e.start = f.start /\ e.end = f.end /\ (In("cancelled", e.history) => In("cancelled", f.history))
  BY DEF Keeps, Same, Says, DatesStay, Status, MaintenanceStatus
<1>3. /\ e.start \in Nat /\ e.end \in Nat /\ now \in Nat /\ now' \in Nat
      /\ e.start # now /\ e.start # now'
  <2>1. /\ e.start \in StartDates /\ e.end \in EndDates
        /\ now \in Instants \cup {0} /\ now' \in Instants \cup {0}
    BY <1>1 DEF Row, TInv
  <2>2. StartDates \subseteq Nat /\ 0 \notin StartDates /\ Instants \cap StartDates = {}
    BY DatesAssumption DEF NoEnd, DatesStay
  <2>3. e.start # now /\ e.start # now'
    BY <2>1, <2>2, Zenon
  <2>4. EndDates \subseteq Nat /\ Instants \subseteq Nat
    BY DatesAssumption
  <2>5. 0 \in Nat
    OBVIOUS
  <2>6. e.start \in Nat /\ e.end \in Nat /\ now \in Nat /\ now' \in Nat
    BY <2>1, <2>2, <2>4, <2>5, Zenon
  <2>7. QED
    BY <2>3, <2>6
<1>4. CurrentStatus(k, e) \in {"completed", "cancelled"}
  BY DEF Over
<1> DEFINE Now(t) == IF k = "maintenance"
                     THEN ~In("cancelled", e.history) => ~(e.start > t) /\ ~(e.start < t /\ e.end > t)
                     ELSE ~In("cancelled", e.history) =>
                            ~(e.start > t) /\ ~(e.start < t /\ (e.end = NoEnd \/ e.end > t))
<1>5. Now(now)
  BY <1>4, InProgressDistinct DEF CurrentStatus, CurrentMntStatus, CurrentInfoStatus
<1>6. Now(now')
  BY <1>3, <1>5
<1>7. QED
  BY <1>2, <1>6 DEF Over, CurrentStatus, CurrentMntStatus, CurrentInfoStatus, In

LEMMA NaturalIds ==
  ASSUME TInv
  PROVE  /\ \A i \in Ids : i \in Nat /\ i # 0
         /\ \A k \in Watched : last[k] \in Nat
  BY BoundsAssumption DEF TInv, Types, Id

\* Events are added above the ids there are, and keep what they should; a
\* watcher and its id stay as they are, or start again.
LEMMA KeepsSInv ==
  ASSUME TInv, TInv', SInv, DatesStay, Keeps, now <= now', InOrder',
         \A i \in Ids' \ Ids : \A j \in Ids : j < i,
         \A k \in Watched : last'[k] = last[k] \/ last'[k] = 0,
         \A k \in Watched : \/ watcher'[k] = watcher[k] /\ last'[k] = last[k]
                            \/ watcher'[k].list = {} /\ watcher'[k].seen = {}
  PROVE  SInv'
<1>1. Ids \subseteq Ids' /\ \A i \in Ids : row'[i].type = row[i].type
  BY DEF Keeps, Same
<1>2. /\ \A i \in Ids' : i \in Nat /\ i # 0
      /\ \A k \in Watched : last[k] \in Nat /\ last'[k] \in Nat
  BY NaturalIds DEF TInv, Types, Id
<1>3. ASSUME NEW k \in Watched, NEW i \in EventsOf(k)', i \in Ids
      PROVE  i \in EventsOf(k) /\ (Over(k, i) => Over(k, i)')
  <2>1. k \in {"maintenance", "info"}
    BY WatchedAssumption
  <2>2. QED
    BY <1>1, <1>3, <2>1, OverStays DEF EventsOf
<1>4. ASSUME NEW k \in Watched, NEW i \in EventsOf(k)', i \notin Ids
      PROVE  last[k] <= i /\ i \notin watcher[k].seen /\ \A j \in watcher[k].seen : j < i
  <2>1. i \in Ids' \ Ids /\ last[k] \in Ids \cup {0} /\ watcher[k].seen \subseteq Ids
    BY <1>4 DEF EventsOf, TInv
  <2>2. \A j \in Ids : j < i
    BY <2>1
  <2>3. QED
    BY <1>1, <1>2, <2>1, <2>2
<1>5. ASSUME NEW k \in Watched
      PROVE  Covers(k)'
  <2>1. CASE watcher'[k].list = {}
    BY <2>1 DEF Covers
  <2>2. CASE watcher'[k] = watcher[k] /\ last'[k] = last[k]
    <3>1. ASSUME NEW i \in EventsOf(k)', watcher[k].list # {}, i >= last[k]
          PROVE  IF i \in watcher[k].seen
                 THEN \/ i \in watcher[k].active \/ Over(k, i)'
                      \/ \E copy \in watcher[k].list : copy.id = i
                 ELSE \A j \in watcher[k].seen : j < i
      <4>1. CASE i \in Ids
        BY <1>3, <3>1, <4>1 DEF SInv, Covers
      <4>2. CASE i \notin Ids
        BY <1>4, <4>2
      <4>3. QED
        BY <4>1, <4>2
    <3>2. QED
      BY <2>2, <3>1 DEF Covers
  <2>3. QED
    BY <2>1, <2>2
<1>6. NothingActiveIsSkipped'
  <2> SUFFICES ASSUME NEW k \in Watched, NEW i \in EventsOf(k)', i < last'[k] PROVE Over(k, i)'
    BY DEF NothingActiveIsSkipped, Over
  <2>1. last'[k] = last[k]
    BY <1>2 DEF EventsOf
  <2>2. i \in Ids
    BY <1>2, <1>4, <2>1 DEF EventsOf
  <2>3. QED
    BY <1>3, <2>1, <2>2 DEF SInv, NothingActiveIsSkipped, Over
<1>7. QED
  BY <1>5, <1>6 DEF SInv

LEMMA ReadSInv ==
  ASSUME TInv, SInv, NEW k \in Watched, Read(k)
  PROVE  SInv'
<1>1. /\ UNCHANGED <<nextId, row, now, req, last, patches, faults>> /\ Ids' = Ids
      /\ \A j \in Watched \ {k} : watcher'[j] = watcher[j]
      /\ watcher'[k].list = {[id |-> i, row |-> row[i]] : i \in Listed(k)}
      /\ watcher'[k].seen = Listed(k)
  BY ReadLists
<1>2. Covers(k)'
  <2>1. ASSUME NEW i \in EventsOf(k)', i >= last'[k]
        PROVE  i \in watcher'[k].seen /\ \E copy \in watcher'[k].list : copy.id = i
    <3>1. i \in Listed(k)
      BY <1>1, <2>1 DEF EventsOf, Listed
    <3>2. [id |-> i, row |-> row[i]] \in watcher'[k].list
      BY <1>1, <3>1
    <3>3. QED
      BY <1>1, <3>1, <3>2
  <2>2. QED
    BY <2>1 DEF Covers
<1>3. ASSUME NEW j \in Watched \ {k} PROVE Covers(j)'
  <2>1. EventsOf(j)' = EventsOf(j) /\ \A i : Over(j, i)' <=> Over(j, i)
    BY <1>1 DEF EventsOf, Over, CurrentStatus, CurrentMntStatus, CurrentInfoStatus, In
  <2>2. QED
    BY <1>1, <2>1 DEF SInv, Covers
<1>4. NothingActiveIsSkipped'
  BY <1>1 DEF SInv, NothingActiveIsSkipped, EventsOf, CurrentStatus, CurrentMntStatus,
              CurrentInfoStatus, In
<1>5. InOrder'
  BY <1>1 DEF SInv, InOrder
<1>6. QED
  BY <1>2, <1>3, <1>4, <1>5 DEF SInv

\* After a turn each event of the watcher it has seen is active, over, or
\* still to come.
LEMMA TurnCovers ==
  ASSUME TInv, TInv', FInv, SInv, DatesStay, Keeps, NEW k \in Watched,
         NEW copy \in watcher[k].list, Turn(k, copy), NEW i \in EventsOf(k)
  PROVE  /\ Over(k, i) => Over(k, i)'
         /\ last[k] <= i => IF i \in watcher[k].seen
                            THEN \/ i \in ActiveAfter(k, copy) \/ Over(k, i)'
                                 \/ \E other \in watcher[k].list \ {copy} : other.id = i
                            ELSE \A j \in watcher[k].seen : j < i
<1>1. k \in {"maintenance", "info"} /\ i \in Ids /\ now <= now'
  BY WatchedAssumption, ApartFromClock DEF EventsOf, Turn, TInv, Types
<1>2. Over(k, i) => Over(k, i)'
  BY <1>1, OverStays
<1>3. copy.id = i => i \in ActiveAfter(k, copy) \/ Over(k, i)
  <2>1. CASE copy.id = i /\ CurrentStatus(k, copy.row) \in {"planned", Running(k)}
    BY <2>1 DEF ActiveAfter
  <2>2. CASE copy.id = i /\ CurrentStatus(k, copy.row) \in {"completed", "cancelled"}
    <3>1. Same(copy.row, row[i]) /\ Says(copy.row, row[i])
      BY <2>2 DEF FInv, ListAgrees
    <3>2. copy.row \in Row /\ row[i] \in Row
      BY <1>1 DEF TInv, Types, Copy
    <3>3. CurrentStatus(k, row[i]) \in {"completed", "cancelled"}
      BY <1>1, <2>2, <3>1, <3>2, OverAgrees
    <3>4. QED
      BY <3>3 DEF Over
  <2>3. CurrentStatus(k, copy.row) \in {"planned", Running(k), "completed", "cancelled"}
    BY <1>1 DEF CurrentStatus, CurrentMntStatus, CurrentInfoStatus, Running
  <2>4. QED
    BY <2>1, <2>2, <2>3
<1>4. watcher[k].active \subseteq ActiveAfter(k, copy)
  BY DEF ActiveAfter
<1>5. last[k] <= i => IF i \in watcher[k].seen
                      THEN \/ i \in watcher[k].active \/ Over(k, i)
                           \/ \E other \in watcher[k].list : other.id = i
                      ELSE \A j \in watcher[k].seen : j < i
  <2>1. i \in Nat /\ last[k] \in Nat
    BY <1>1, NaturalIds
  <2>2. QED
    BY <2>1 DEF SInv, Covers
<1>6. QED
  BY <1>2, <1>3, <1>4, <1>5

\* The id a watcher goes on from when it has come to the end of its list
\* leaves only events behind that are over.
LEMMA TurnSkips ==
  ASSUME TInv, TInv', FInv, SInv, DatesStay, Keeps, NEW k \in Watched,
         NEW copy \in watcher[k].list, Turn(k, copy), NEW i \in EventsOf(k), i < last'[k]
  PROVE  Over(k, i)'
<1>1. /\ i \in Ids /\ i \in Nat /\ last[k] \in Nat
      /\ i < last[k] => Over(k, i)
  BY NaturalIds DEF EventsOf, SInv, NothingActiveIsSkipped, Over
<1>2. CASE i < last[k]
  BY <1>1, <1>2, TurnCovers
<1>3. CASE last[k] <= i
  <2> DEFINE active == ActiveAfter(k, copy)
             seen   == watcher[k].seen
             next   == NextLast(k, active, seen)
  <2>1. watcher[k].list = {copy} /\ last'[k] = next
    <3>1. last' # last
      BY <1>1, <1>3
    <3>2. watcher[k].list = {copy} /\ last' = [last EXCEPT ![k] = next]
      BY <3>1, TurnWatchers
    <3> HIDE DEF next
    <3>3. QED
      BY <3>2 DEF TInv
  <2>2. /\ active \in SUBSET Id /\ seen \in SUBSET Id /\ active \subseteq seen
        /\ last[k] \in 0..MaxId /\ Id \subseteq Nat
    <3>1. active \subseteq seen
      BY TurnWatchers
    <3>2. seen \subseteq Id /\ last[k] \in 0..MaxId
      BY DEF TInv, Types
    <3>3. QED
      BY <3>1, <3>2, BoundsAssumption DEF Id
  <2>3. /\ i \in seen => i \in active \/ Over(k, i)'
        /\ i \notin seen => \A j \in seen : j < i
    BY <1>3, <2>1, TurnCovers
  <2> HIDE DEF active, seen
  <2>4. /\ next \in seen \cup {last[k]}
        /\ active # {} => \A j \in active : next <= j
    BY <2>2, NextLastSeen
  <2> HIDE DEF next
  <2>5. i < next /\ next \in Nat
    BY <1>1, <2>1, <2>2, <2>4
  <2>6. i \in seen
    BY <1>1, <1>3, <2>3, <2>4, <2>5
  <2>7. i \notin active
    BY <1>1, <2>4, <2>5
  <2>8. QED
    BY <2>3, <2>6, <2>7
<1>4. QED
  BY <1>1, <1>2, <1>3

LEMMA TurnSInv ==
  ASSUME TInv, TInv', FInv, SInv, DatesStay, Keeps, Ids' = Ids, NEW k \in Watched,
         NEW copy \in watcher[k].list, Turn(k, copy)
  PROVE  SInv'
<1>1. /\ UNCHANGED <<now, req>> /\ now <= now'
      /\ \A j \in Watched \ {k} : watcher'[j] = watcher[j] /\ last'[j] = last[j]
  <2>1. UNCHANGED <<now, req>> /\ now \in Nat
    BY DatesAssumption DEF Turn, TInv
  <2>2. \A j \in Watched \ {k} : watcher'[j] = watcher[j] /\ last'[j] = last[j]
    BY TurnWatchers
  <2>3. QED
    BY <2>1, <2>2
<1>2. /\ \A j \in Watched : EventsOf(j)' = EventsOf(j)
      /\ \A i \in Ids : i \in Nat
  BY NaturalIds DEF EventsOf, Keeps, Same
<1>3. InOrder'
  BY <1>1 DEF SInv, InOrder
<1>4. ASSUME NEW j \in Watched \ {k}
      PROVE  /\ Covers(j)'
             /\ \A i \in EventsOf(j)' : i < last'[j] => Over(j, i)'
  <2>1. \A i \in EventsOf(j) : Over(j, i) => Over(j, i)'
    BY <1>1, OverStays, WatchedAssumption DEF EventsOf
  <2>2. Covers(j)'
    BY <1>1, <1>2, <2>1 DEF SInv, Covers
  <2>3. \A i \in EventsOf(j)' : i < last'[j] => Over(j, i)'
    BY <1>1, <1>2, <2>1 DEF SInv, NothingActiveIsSkipped, Over
  <2>4. QED
    BY <1>1, <2>2, <2>3 DEF SInv
<1>5. Covers(k)'
  <2>1. CASE watcher'[k] = IdleWatcher
    BY <2>1 DEF Covers, IdleWatcher
  <2>2. CASE watcher'[k] # IdleWatcher
    <3>1. /\ last' = last /\ watcher'[k].list = watcher[k].list \ {copy}
          /\ watcher'[k].seen = watcher[k].seen /\ watcher'[k].active = ActiveAfter(k, copy)
      BY <2>2, TurnWatchers
    <3>2. \A i \in EventsOf(k) : i >= last[k] =>
            IF i \in watcher[k].seen
            THEN \/ i \in ActiveAfter(k, copy) \/ Over(k, i)'
                 \/ \E other \in watcher[k].list \ {copy} : other.id = i
            ELSE \A j \in watcher[k].seen : j < i
      <4>1. \A i \in EventsOf(k) : i \in Nat
        BY <1>2 DEF EventsOf
      <4>2. last[k] \in Nat
        BY NaturalIds
      <4>3. QED
        BY <4>1, <4>2, TurnCovers
    <3>3. QED
      BY <1>2, <3>1, <3>2 DEF Covers
  <2>3. QED
    BY <2>1, <2>2
<1>6. \A i \in EventsOf(k)' : i < last'[k] => Over(k, i)'
  BY <1>2, TurnSkips
<1>7. NothingActiveIsSkipped'
  BY <1>4, <1>6 DEF NothingActiveIsSkipped, Over
<1>8. QED
  BY <1>3, <1>4, <1>5, <1>7 DEF SInv

LEMMA NextSInv ==
  ASSUME PatchTypes = {}, DatesStay, \A r, q \in Request : r = q
  PROVE  TInv /\ TInv' /\ FInv /\ SInv /\ [Next]_vars => SInv'
<1> SUFFICES ASSUME TInv, TInv', FInv, SInv, [Next]_vars PROVE SInv'
  OBVIOUS
<1>0. Keeps /\ now \in Nat
  BY NextFInv, DatesAssumption DEF TInv
<1>1. ASSUME InOrder', Ids' = Ids, now <= now',
             \A k \in Watched : last'[k] = last[k] \/ last'[k] = 0,
             \A k \in Watched : \/ watcher'[k] = watcher[k] /\ last'[k] = last[k]
                                \/ watcher'[k].list = {} /\ watcher'[k].seen = {}
      PROVE  SInv'
  BY <1>0, <1>1, KeepsSInv
<1>2. ASSUME NEW r \in Request, Insert(r) PROVE SInv'
  <2>1. \E e : Working(r, "commit", nextId, e)
    BY <1>2 DEF Insert
  <2>2. Ids' = Ids /\ UNCHANGED <<now, watcher, last>>
    BY <1>2 DEF Insert, Ids
  <2>3. InOrder'
    <3>1. \A copy \in req'[r].copy : copy.id = nextId
      BY <2>1 DEF Working, TInv, Types
    <3>2. QED
      BY <2>2, <3>1 DEF InOrder, TInv, Types
  <2>4. QED
    BY <1>0, <1>1, <2>2, <2>3
<1>3. ASSUME NEW r \in Request, Commit(r) PROVE SInv'
  <2>1. PICK copy \in req[r].copy :
          /\ req[r].pc = "commit" /\ Ids' = Ids \cup {copy.id}
          /\ \E new \in Row : req' = [req EXCEPT ![r] = [pc   |-> "firstStatus",
                                                           copy |-> {[id |-> copy.id, row |-> new]}]]
    BY <1>3, AgreesFresh, CommitAdds
  <2>2. InOrder'
    BY <2>1 DEF InOrder, TInv, Types
  <2>3. \A i \in Ids' \ Ids : \A j \in Ids : j < i
    BY <2>1 DEF SInv, InOrder
  <2>4. UNCHANGED <<now, watcher, last>>
    BY <1>3 DEF Commit
  <2>5. QED
    BY <1>0, <2>2, <2>3, <2>4, KeepsSInv
<1>4. ASSUME NEW r \in Request, FirstStatus(r) \/ Patch(r) PROVE SInv'
  <2>1. Ids' = Ids
    BY <1>4, StatusWritten DEF RowWritten
  <2>2. UNCHANGED <<now, watcher, last>> /\ Done(r)
    BY <1>4 DEF FirstStatus, Patch
  <2>3. InOrder'
    BY <2>1, <2>2 DEF SInv, InOrder, Done, IdleRequest, TInv, Types
  <2>4. QED
    BY <1>0, <1>1, <2>1, <2>2, <2>3
<1>5. ASSUME NEW r \in Request, PatchRequest(r) PROVE SInv'
  <2>1. \E i \in Ids, e \in Row : Working(r, "patch", i, e)
    BY <1>5, PatchRequestPrepares DEF TInv
  <2>2. Ids' = Ids /\ UNCHANGED <<now, watcher, last>>
    BY <1>5 DEF PatchRequest, Ids
  <2>3. InOrder'
    BY <2>1, <2>2 DEF InOrder, Working, TInv, Types
  <2>4. QED
    BY <1>0, <1>1, <2>2, <2>3
<1>6. ASSUME NEW k \in Watched, Read(k) PROVE SInv'
  BY <1>6, ReadSInv
<1>7. ASSUME NEW k \in Watched, CheckNext(k) PROVE SInv'
  <2>1. PICK copy \in watcher[k].list : Turn(k, copy)
    BY <1>7, CheckNextTurns DEF TInv
  <2>2. Ids' = Ids
    BY <2>1, TurnWrites DEF RowWritten
  <2>3. QED
    BY <1>0, <2>1, <2>2, TurnSInv
<1>8. ASSUME NEW k \in Watched, CheckFails(k) PROVE SInv'
  <2>1. Ids' = Ids /\ UNCHANGED <<now, req, last>>
    BY <1>8 DEF CheckFails, Ids
  <2>2. InOrder'
    BY <2>1 DEF SInv, InOrder
  <2>3. \A j \in Watched : watcher'[j] = watcher[j] \/ watcher'[j] = IdleWatcher
    BY <1>8 DEF CheckFails, TInv, Types
  <2>4. QED
    BY <1>0, <1>1, <2>1, <2>2, <2>3 DEF IdleWatcher
<1>9. CASE ProcessLost
  <2>1. Ids' = Ids /\ now' = now
    BY <1>9 DEF ProcessLost, Ids
  <2>2. InOrder'
    BY <1>9 DEF ProcessLost, InOrder, IdleRequest
  <2>3. \A k \in Watched : last'[k] = 0 /\ watcher'[k].list = {} /\ watcher'[k].seen = {}
    BY <1>9 DEF ProcessLost, IdleWatcher
  <2>4. QED
    BY <1>0, <1>1, <2>1, <2>2, <2>3
<1>10. CASE Tick
  <2>1. Ids' = Ids /\ UNCHANGED <<now, req, last>>
    BY <1>10 DEF Tick, Ids
  <2>2. InOrder'
    BY <2>1 DEF SInv, InOrder
  <2>3. \A k \in Watched : watcher'[k].list = {} /\ watcher'[k].seen = {}
    BY <1>10 DEF Tick, IdleWatcher
  <2>4. QED
    BY <1>0, <1>1, <2>1, <2>2, <2>3
<1>11. CASE ClockTicks \/ UNCHANGED vars
  <2>1. Ids' = Ids /\ UNCHANGED <<req, last, watcher>>
    BY <1>11 DEF ClockTicks, vars, Ids
  <2>2. now <= now'
    BY <1>0, <1>11, DatesAssumption DEF ClockTicks, vars
  <2>3. InOrder'
    BY <2>1 DEF SInv, InOrder
  <2>4. QED
    BY <1>1, <2>1, <2>2, <2>3
<1>12. QED
  BY <1>2, <1>3, <1>4, <1>5, <1>6, <1>7, <1>8, <1>9, <1>10, <1>11 DEF Next, Panic, Restart

\* The id the checker goes on from leaves nothing behind that could still
\* change: every event with a lower id is completed or cancelled, after failed
\* checks and restarts too.  Handlers run one at a time, so that ids become
\* visible in order; they may complete and cancel events but move none; and
\* the clock never reads exactly the start of an event.
THEOREM NothingIsSkipped ==
  ASSUME PatchTypes = {}, ~PatchDates, Instants \cap StartDates = {},
         \A r, q \in Request : r = q
  PROVE  Spec => []NothingActiveIsSkipped
<1>1. Init => SInv
  BY DEF Init, SInv, InOrder, Covers, NothingActiveIsSkipped, EventsOf, IdleRequest, IdleWatcher, Ids
<1>2. TInv /\ FInv /\ SInv /\ [Next]_vars => TInv' /\ FInv' /\ SInv'
  BY NextTInv, NextFInv, NextSInv DEF DatesStay
<1>3. QED
  BY <1>1, <1>2, InitTInv, InitFInv, PTL DEF Spec, SInv
===============================================================================
