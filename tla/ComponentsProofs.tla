---------------------------- MODULE ComponentsProofs ---------------------------
(***************************************************************************)
(* What TLAPS proves of Components, for any number of components, requests *)
(* and incidents, and for any calendar: how rows get into the catalogue,   *)
(* the types, and that the availability reported is the exact one.         *)
(***************************************************************************)
EXTENDS Components, FiniteLemmas

\* A component stays where it is, so what a request has found stays true: the
\* components of its event exist, and so does the twin it must not create.
CatInv ==
    /\ DOMAIN post = Poster
    /\ NoComponentByReference
    /\ \A r \in Poster :
          /\ post[r].at \in {"check", "insert"} => post[r].row.name \in Name
          /\ post[r].at = "check" =>
                post[r].checked = TRUE /\ DOMAIN post[r] = {"at", "row", "late", "checked"}
          /\ post[r].at = "check" /\ post[r].late => Exists(post[r].row)
          /\ post[r].at = "insert" => ~post[r].late \/ ~post[r].checked
          /\ post[r].at = "create" => post[r].comps \subseteq DOMAIN component

\* Rows are added and never changed.
Kept ==
    \A i \in DOMAIN component : i \in DOMAIN component' /\ component'[i] = component[i]

\* What CatInv says of a request that is at p, in a given catalogue.
Posted(p) ==
    /\ p.at \in {"check", "insert"} => p.row.name \in Name
    /\ p.at = "check" => p.checked = TRUE /\ DOMAIN p = {"at", "row", "late", "checked"}
    /\ p.at = "check" /\ p.late => Exists(p.row)
    /\ p.at = "insert" => ~p.late \/ ~p.checked
    /\ p.at = "create" => p.comps \subseteq DOMAIN component

LEMMA InitCatInv == Init => CatInv
<1> SUFFICES ASSUME Init PROVE CatInv
  OBVIOUS
<1>1. DOMAIN component = {} /\ \A r \in Poster : post[r].at = "idle"
  BY DEF Init, CatalogueInit, Idle
<1>2. QED
  BY <1>1 DEF Init, CatalogueInit, CatInv, NoComponentByReference

\* A request goes on; the rows stay, and no nameless one is added.
LEMMA GoesOn ==
  ASSUME CatInv, NEW r \in Poster, NEW p, Goes(r, p), Posted(p), Kept, NoComponentByReference'
  PROVE  CatInv'
<1>1. DOMAIN post' = Poster /\ \A q \in Poster : post'[q] = IF q = r THEN p ELSE post[q]
  BY DEF CatInv, Goes
<1>2. DOMAIN component \subseteq DOMAIN component'
  BY DEF Kept
<1>3. \A c : Exists(c) => \E i \in DOMAIN component' : SamePlace(component'[i], c)
  BY DEF Exists, Kept
<1>4. QED
  BY <1>1, <1>2, <1>3 DEF CatInv, Posted, Exists, SamePlace

LEMMA SameRows ==
  ASSUME CatInv, component' = component
  PROVE  Kept /\ NoComponentByReference'
  BY DEF CatInv, Kept, NoComponentByReference

LEMMA CatalogueStepCatInv ==
  ASSUME CatInv, NEW r \in Poster, CatalogueStep(r)
  PROVE  CatInv'
<1>1. Posted(Idle)
  BY DEF Posted, Idle
<1>2. CASE PostComponent(r)
  <2>1. PICK n \in Name, g \in Region, k \in Kind :
          LET c == [name |-> n, region |-> g, kind |-> k]
          IN  Goes(r, [at |-> "check", row |-> c, late |-> Exists(c), checked |-> TRUE])
    BY <1>2 DEF PostComponent
  <2> DEFINE c == [name |-> n, region |-> g, kind |-> k]
             late == Exists(c)
             p == [at |-> "check", row |-> c, late |-> late, checked |-> TRUE]
  <2>2. c.name \in Name
    OBVIOUS
  <2> HIDE DEF c
  <2>3. Posted(p)
    <3>1. p.at = "check" /\ p.row = c /\ p.late = late /\ p.checked = TRUE
      OBVIOUS
    <3>2. (p.late => Exists(c)) /\ DOMAIN p = {"at", "row", "late", "checked"}
      BY <3>1
    <3> HIDE DEF p, late
    <3>3. QED
      BY <2>2, <3>1, <3>2 DEF Posted
  <2>4. QED
    BY <1>2, <2>1, <2>3, SameRows, GoesOn DEF PostComponent, c
<1>3. CASE CheckExists(r)
  <2>0. /\ post[r].at = "check" /\ post[r].row.name \in Name /\ post[r].checked = TRUE
        /\ post[r].late => Exists(post[r].row)
    BY <1>3 DEF CheckExists, CatInv
  <2>1. CASE Goes(r, Idle)
    BY <1>1, <1>3, <2>1, SameRows, GoesOn DEF CheckExists
  <2>2. CASE ~Exists(post[r].row) /\ Goes(r, [post[r] EXCEPT !.at = "insert"])
    <3> DEFINE p == [post[r] EXCEPT !.at = "insert"]
    <3>1. Posted(p)
      BY <2>0, <2>2 DEF Posted
    <3>2. QED
      BY <1>3, <2>2, <3>1, SameRows, GoesOn DEF CheckExists
  <2>3. CASE Goes(r, [post[r] EXCEPT !.at = "insert", !.checked = FALSE])
    <3> DEFINE p == [post[r] EXCEPT !.at = "insert", !.checked = FALSE]
    <3>1. DOMAIN post[r] = {"at", "row", "late", "checked"}
      BY <2>0 DEF CatInv
    <3>2. Posted(p)
      BY <2>0, <3>1 DEF Posted
    <3>3. QED
      BY <1>3, <2>3, <3>2, SameRows, GoesOn DEF CheckExists
  <2>4. QED
    BY <1>3, <2>1, <2>2, <2>3 DEF CheckExists
<1>4. CASE InsertComponent(r)
  <2>1. Goes(r, Idle)
    BY <1>4 DEF InsertComponent
  <2>2. CASE component' = component
    BY <1>1, <2>1, <2>2, SameRows, GoesOn
  <2>3. ASSUME NEW i, i \notin DOMAIN component,
               component' = [j \in DOMAIN component \cup {i} |->
                               IF j = i THEN post[r].row ELSE component[j]]
        PROVE  CatInv'
    <3>1. post[r].row.name \in Name
      BY <1>4 DEF InsertComponent, CatInv
    <3>2. Kept /\ NoComponentByReference'
      BY <2>3, <3>1, NameAssumption DEF CatInv, Kept, NoComponentByReference
    <3>3. QED
      BY <1>1, <2>1, <3>2, GoesOn
  <2>4. QED
    BY <1>4, <2>2, <2>3 DEF InsertComponent
<1>5. CASE PostEvent(r)
  <2>1. PICK cs : Goes(r, [at |-> "validate", comps |-> cs])
    BY <1>5 DEF PostEvent
  <2>2. Posted([at |-> "validate", comps |-> cs])
    BY DEF Posted
  <2>3. QED
    BY <1>5, <2>1, <2>2, SameRows, GoesOn DEF PostEvent
<1>6. CASE ValidateComponents(r)
  <2>1. CASE Goes(r, Idle)
    BY <1>1, <1>6, <2>1, SameRows, GoesOn DEF ValidateComponents
  <2>2. CASE post[r].comps \subseteq DOMAIN component /\ Goes(r, [post[r] EXCEPT !.at = "create"])
    <3> DEFINE p == [post[r] EXCEPT !.at = "create"]
    <3>1. Posted(p)
      BY <1>6, <2>2 DEF ValidateComponents, CatInv, Posted
    <3>2. QED
      BY <1>6, <2>2, <3>1, SameRows, GoesOn DEF ValidateComponents
  <2>3. QED
    BY <1>6, <2>1, <2>2 DEF ValidateComponents
<1>7. QED
  BY <1>2, <1>3, <1>4, <1>5, <1>6 DEF CatalogueStep

\* The upsert of a validated event finds all its components.
LEMMA CreateAddsNoRow ==
  ASSUME CatInv, NEW r \in Poster, CreateIncident(r)
  PROVE  Kept /\ DOMAIN component' = DOMAIN component
<1>1. post[r].comps \subseteq DOMAIN component
  BY DEF CreateIncident, CatInv
<1>2. QED
  BY <1>1 DEF CreateIncident, UpsertComponents, Kept

LEMMA NextCatInv == CatInv /\ [Next]_vars => CatInv'
<1> SUFFICES ASSUME CatInv, [Next]_vars PROVE CatInv'
  OBVIOUS
<1>1. ASSUME NEW r \in Poster, CreateIncident(r) PROVE CatInv'
  <2>1. Goes(r, Idle) /\ Posted(Idle)
    BY <1>1 DEF CreateIncident, Posted, Idle
  <2>2. Kept /\ NoComponentByReference'
    BY <1>1, CreateAddsNoRow DEF CatInv, NoComponentByReference, Kept
  <2>3. QED
    BY <2>1, <2>2, GoesOn
<1>2. CASE UNCHANGED catalogue
  BY <1>2 DEF catalogue, CatInv, NoComponentByReference, Exists, SamePlace
<1>3. QED
  BY <1>1, <1>2, CatalogueStepCatInv DEF Next, CloseIncident, Tick, vars

\* No event brings a component into the catalogue by referring to it: the
\* upsert GORM makes of its components never inserts, because
\* ValidateComponentsMW has seen them all and none is ever deleted.
THEOREM NoNamelessComponent == Spec => []NoComponentByReference
<1>1. CatInv => NoComponentByReference
  BY DEF CatInv
<1>2. QED
  BY InitCatInv, NextCatInv, <1>1, PTL DEF Spec

LEMMA StepTwins ==
  ASSUME CatInv, [Next]_vars
  PROVE  [\A i \in DOMAIN component' \ DOMAIN component :
             Exists(component'[i]) =>
             \E r \in Poster : /\ post[r].at = "insert" /\ post[r].row = component'[i]
                               /\ ~post[r].late \/ ~post[r].checked]_catalogue
<1>1. ASSUME NEW i \in DOMAIN component' \ DOMAIN component
      PROVE  \E r \in Poster : /\ post[r].at = "insert" /\ post[r].row = component'[i]
                               /\ ~post[r].late \/ ~post[r].checked
  <2>1. \A r \in Poster : ~CreateIncident(r)
    BY <1>1, CreateAddsNoRow
  <2>2. PICK r \in Poster : InsertComponent(r)
    BY <1>1, <2>1 DEF Next, CatalogueStep, PostComponent, CheckExists, PostEvent,
                      ValidateComponents, CloseIncident, Tick, vars, catalogue
  <2>3. post[r].at = "insert" /\ post[r].row = component'[i]
    BY <1>1, <2>2 DEF InsertComponent
  <2>4. QED
    BY <2>3 DEF CatInv
<1>2. QED
  BY <1>1

\* A second component of a name and region only comes from requests that
\* overlap, or from a check whose query failed (SaveComponent).
THEOREM TwinsComeFromRaces == Spec => TwinsOnlyFromRaces
<1>1. CatInv /\ [Next]_vars =>
        [\A i \in DOMAIN component' \ DOMAIN component :
             Exists(component'[i]) =>
             \E r \in Poster : /\ post[r].at = "insert" /\ post[r].row = component'[i]
                               /\ ~post[r].late \/ ~post[r].checked]_catalogue
  BY StepTwins
<1>2. QED
  BY InitCatInv, NextCatInv, <1>1, PTL DEF Spec, TwinsOnlyFromRaces

\* A report finds the component it names, whatever the catalogue: of the rows
\* of the join one alone matches (GetComponentFromNameAttrs).
THEOREM ReportFindsComponent == Spec => []CreatedIsFound
<1>1. CreatedIsFound
  <2>1. ASSUME NEW i \in DOMAIN component, component[i].kind # component[i].region,
               \A j \in DOMAIN component \ {i} :
                  component[j].name = component[i].name =>
                  component[i].region \notin {component[j].region, component[j].kind}
        PROVE  Lookup(component[i].name, component[i].region) = {i}
    <3> DEFINE found == Matching(component[i].name, component[i].region)
    <3>1. DOMAIN found = {i} /\ found[i] = 1
      BY <2>1 DEF Matching
    <3> HIDE DEF found
    <3>2. QED
      BY <3>1 DEF Lookup, found
  <2>2. QED
    BY <2>1 DEF CreatedIsFound
<1>2. QED
  BY <1>1, PTL

-----------------------------------------------------------------------------
(* The calendar: MonthStart is the function its recursive definition says. *)

\* g gives the starts of the months 1..n.
Starts(g, n) ==
    \A m \in 1..n : g[m] = IF m = 1 THEN 0 ELSE g[m - 1] + MonthLength[m - 1]

Last == Len(MonthLength)

LEMMA CalendarLengths ==
  Last \in Nat /\ MonthsInYear \in 1..Last - 1 /\ MonthLength \in [1..Last -> Nat \ {0}]
  BY CalendarAssumption DEF Last

LEMMA StartsExist == \E g \in [1..Last + 1 -> Nat] : Starts(g, Last + 1)
<1> DEFINE S == {k \in Nat : k <= Last => \E g \in [1..k + 1 -> Nat] : Starts(g, k + 1)}
<1>1. 0 \in S
  <2>1. [m \in 1..1 |-> 0] \in [1..1 -> Nat] /\ Starts([m \in 1..1 |-> 0], 1)
    BY DEF Starts
  <2>2. QED
    BY <2>1
<1>2. ASSUME NEW k \in Nat, k \in S PROVE k + 1 \in S
  <2> SUFFICES ASSUME k + 1 <= Last
               PROVE  \E g \in [1..k + 2 -> Nat] : Starts(g, k + 2)
    OBVIOUS
  <2>1. PICK g \in [1..k + 1 -> Nat] : Starts(g, k + 1)
    BY <1>2, CalendarLengths
  <2> DEFINE h == [m \in 1..k + 2 |-> IF m = k + 2 THEN g[k + 1] + MonthLength[k + 1] ELSE g[m]]
  <2>2. MonthLength[k + 1] \in Nat /\ g[k + 1] \in Nat
    BY <2>1, CalendarLengths
  <2>3. h \in [1..k + 2 -> Nat]
    BY <2>1, <2>2
  <2>4. Starts(h, k + 2)
    <3>1. ASSUME NEW m \in 1..k + 1 PROVE h[m] = IF m = 1 THEN 0 ELSE h[m - 1] + MonthLength[m - 1]
      BY <2>1 DEF Starts
    <3>2. h[k + 2] = h[k + 1] + MonthLength[k + 1]
      OBVIOUS
    <3> HIDE DEF h
    <3>3. QED
      BY <3>1, <3>2 DEF Starts
  <2>5. QED
    BY <2>3, <2>4
<1>3. Last \in S
  <2> HIDE DEF S
  <2>1. QED
    BY <1>1, <1>2, NaturalInduction, CalendarLengths
<1>4. QED
  BY <1>3, CalendarLengths

LEMMA MonthStarts ==
  /\ MonthStart[1] = 0
  /\ \A m \in 1..Last : MonthStart[m + 1] = MonthStart[m] + MonthLength[m]
<1>1. PICK g \in [1..Last + 1 -> Nat] : Starts(g, Last + 1)
  BY StartsExist
<1>2. g = [m \in 1..Len(MonthLength) + 1 |-> IF m = 1 THEN 0 ELSE g[m - 1] + MonthLength[m - 1]]
  BY <1>1 DEF Starts, Last
<1>3. MonthStart = [m \in 1..Len(MonthLength) + 1 |->
                      IF m = 1 THEN 0 ELSE MonthStart[m - 1] + MonthLength[m - 1]]
  BY <1>2 DEF MonthStart
<1>4. QED
  BY <1>3, CalendarLengths DEF Last

\* Every month starts at a natural number, and before those that follow.
LEMMA MonthsInOrder ==
  /\ \A m \in 1..Last + 1 : MonthStart[m] \in Nat
  /\ \A m, n \in 1..Last + 1 : m < n => MonthStart[m] < MonthStart[n]
<1> DEFINE S == {k \in Nat : k <= Last =>
                   /\ \A m \in 1..k + 1 : MonthStart[m] \in Nat
                   /\ \A m \in 1..k : MonthStart[m] < MonthStart[k + 1]}
<1>1. 0 \in S
  BY MonthStarts
<1>2. ASSUME NEW k \in Nat, k \in S PROVE k + 1 \in S
  <2> SUFFICES ASSUME k + 1 <= Last
               PROVE  /\ \A m \in 1..k + 2 : MonthStart[m] \in Nat
                      /\ \A m \in 1..k + 1 : MonthStart[m] < MonthStart[k + 2]
    OBVIOUS
  <2>1. MonthStart[k + 2] = MonthStart[k + 1] + MonthLength[k + 1] /\ MonthLength[k + 1] \in Nat \ {0}
    BY MonthStarts, CalendarLengths
  <2>2. /\ \A m \in 1..k + 1 : MonthStart[m] \in Nat
        /\ \A m \in 1..k : MonthStart[m] < MonthStart[k + 1]
    BY <1>2, CalendarLengths
  <2>3. QED
    BY <2>1, <2>2
<1>3. \A k \in Nat : k \in S
  <2> HIDE DEF S
  <2>1. QED
    BY <1>1, <1>2, NaturalInduction
<1>4. ASSUME NEW n \in 1..Last + 1
      PROVE  MonthStart[n] \in Nat /\ \A m \in 1..n - 1 : MonthStart[m] < MonthStart[n]
  <2>1. n - 1 \in Nat /\ n - 1 <= Last /\ n - 1 + 1 = n
    BY CalendarLengths
  <2>2. QED
    BY <1>3, <2>1
<1>5. QED
  BY <1>4, CalendarLengths

-----------------------------------------------------------------------------
(* The types *)

LEMMA MonthIsAnHour == MonthStart[MonthsInYear] \in Hours
<1>1. MonthsInYear \in 1..Last + 1 /\ Last + 1 \in 1..Last + 1 /\ MonthsInYear < Last + 1
  BY CalendarLengths
<1>2. /\ MonthStart[MonthsInYear] \in Nat /\ MonthStart[Last + 1] \in Nat
      /\ MonthStart[MonthsInYear] < MonthStart[Last + 1]
  BY <1>1, MonthsInOrder
<1>3. QED
  BY <1>2 DEF Hours, Last

LEMMA PostTyping ==
  ASSUME CatalogueTypeOK, NEW r \in Poster, NEW p \in Posting, Goes(r, p)
  PROVE  post' \in [Poster -> Posting]
  BY DEF CatalogueTypeOK, Goes

LEMMA CatalogueStepTyping ==
  ASSUME CatalogueTypeOK, NEW r \in Poster, CatalogueStep(r)
  PROVE  CatalogueTypeOK'
<1>1. Idle \in Posting /\ post[r] \in Posting
  BY DEF CatalogueTypeOK, Posting
<1>2. CASE PostComponent(r)
  <2>1. PICK n \in Name, g \in Region, k \in Kind :
          LET c == [name |-> n, region |-> g, kind |-> k]
          IN  Goes(r, [at |-> "check", row |-> c, late |-> Exists(c), checked |-> TRUE])
    BY <1>2 DEF PostComponent
  <2> DEFINE c == [name |-> n, region |-> g, kind |-> k]
             late == Exists(c)
  <2>2. c \in Row
    BY DEF Row
  <2>3. late \in BOOLEAN
    BY DEF Exists
  <2> HIDE DEF c, late
  <2>4. [at |-> "check", row |-> c, late |-> late, checked |-> TRUE] \in Posting
    BY <2>2, <2>3 DEF Posting
  <2>5. QED
    BY <1>2, <2>1, <2>4, PostTyping DEF PostComponent, CatalogueTypeOK, c, late
<1>3. CASE CheckExists(r)
  <2>1. /\ [post[r] EXCEPT !.at = "insert"] \in Posting
        /\ [post[r] EXCEPT !.at = "insert", !.checked = FALSE] \in Posting
    <3> DEFINE A == [at : {"check", "insert"}, row : Row, late : BOOLEAN, checked : BOOLEAN]
    <3>1. post[r] \in A
      BY <1>1, <1>3 DEF CheckExists, Posting, Idle
    <3>2. [post[r] EXCEPT !.at = "insert"] \in A
      BY <3>1
    <3>3. [[post[r] EXCEPT !.at = "insert"] EXCEPT !.checked = FALSE] \in A
      BY <3>2
    <3>4. [post[r] EXCEPT !.at = "insert", !.checked = FALSE]
            = [[post[r] EXCEPT !.at = "insert"] EXCEPT !.checked = FALSE]
      OBVIOUS
    <3>5. A \subseteq Posting
      BY DEF Posting
    <3> HIDE DEF A
    <3>6. QED
      BY <3>2, <3>3, <3>4, <3>5
  <2>2. QED
    BY <1>1, <1>3, <2>1, PostTyping DEF CheckExists, CatalogueTypeOK
<1>4. CASE InsertComponent(r)
  <2>1. post' \in [Poster -> Posting]
    BY <1>1, <1>4, PostTyping DEF InsertComponent
  <2>2. CASE UNCHANGED <<component, lastKey>>
    BY <2>1, <2>2 DEF CatalogueTypeOK
  <2>3. CASE ~UNCHANGED <<component, lastKey>>
    <3> DEFINE i == lastKey + 1
    <3>1. /\ i <= MaxComponents /\ lastKey' = i
          /\ component' = [j \in DOMAIN component \cup {i} |->
                             IF j = i THEN post[r].row ELSE component[j]]
      BY <1>4, <2>3 DEF InsertComponent
    <3>2. i \in 1..MaxComponents
      BY <3>1, MaxComponentsAssumption DEF CatalogueTypeOK
    <3>3. post[r].row \in Row
      BY <1>1, <1>4 DEF InsertComponent, Posting, Idle
    <3> HIDE DEF i
    <3>4. /\ DOMAIN component' \subseteq 1..MaxComponents
          /\ component' \in [DOMAIN component' -> Row]
      BY <3>1, <3>2, <3>3 DEF CatalogueTypeOK
    <3>5. lastKey' \in 0..MaxComponents
      BY <3>1, <3>2, MaxComponentsAssumption
    <3>6. QED
      BY <2>1, <3>4, <3>5 DEF CatalogueTypeOK
  <2>4. QED
    BY <2>2, <2>3
<1>5. CASE PostEvent(r)
  <2>1. PICK cs \in SUBSET (1..MaxComponents) : Goes(r, [at |-> "validate", comps |-> cs])
    BY <1>5 DEF PostEvent
  <2>2. [at |-> "validate", comps |-> cs] \in Posting
    BY DEF Posting
  <2>3. QED
    BY <1>5, <2>1, <2>2, PostTyping DEF PostEvent, CatalogueTypeOK
<1>6. CASE ValidateComponents(r)
  <2>1. [post[r] EXCEPT !.at = "create"] \in Posting
    BY <1>1, <1>6 DEF ValidateComponents, Posting, Idle
  <2>2. QED
    BY <1>1, <1>6, <2>1, PostTyping DEF ValidateComponents, CatalogueTypeOK
<1>7. QED
  BY <1>2, <1>3, <1>4, <1>5, <1>6 DEF CatalogueStep

\* A new event leaves the catalogue as it is.
LEMMA CreateTyping ==
  ASSUME TypeOK, CatInv, NEW r \in Poster, CreateIncident(r)
  PROVE  TypeOK'
<1>1. post[r].comps \in SUBSET (1..MaxComponents)
  <2>1. post[r] \in Posting /\ post[r].at = "create"
    BY DEF TypeOK, CatalogueTypeOK, CreateIncident
  <2>2. QED
    BY <2>1 DEF Posting, Idle
<1>2. component' = component
  <2>1. DOMAIN component' = DOMAIN component /\ Kept
    BY CreateAddsNoRow
  <2>2. component' = [j \in DOMAIN component' |-> component'[j]]
    BY DEF CreateIncident, UpsertComponents
  <2>3. component = [j \in DOMAIN component |-> component[j]]
    BY DEF TypeOK, CatalogueTypeOK
  <2>4. QED
    BY <2>1, <2>2, <2>3 DEF Kept
<1>3. CatalogueTypeOK'
  <2>1. Idle \in Posting
    BY DEF Posting
  <2>2. post' \in [Poster -> Posting]
    BY <2>1, PostTyping DEF TypeOK, CreateIncident
  <2>3. QED
    BY <1>2, <2>2 DEF TypeOK, CatalogueTypeOK, CreateIncident
<1>4. \A s \in StartDates : s \in Hours
  BY DateAssumption
<1>5. QED
  BY <1>1, <1>3, <1>4 DEF TypeOK, CreateIncident

\* The rows, the requests and the incidents keep their types, and the clock
\* stays within the calendar.
THEOREM ComponentsTyping == Spec => []TypeOK
<1>1. Init => TypeOK
  <2> SUFFICES ASSUME Init PROVE TypeOK
    OBVIOUS
  <2>1. CatalogueTypeOK
    BY MaxComponentsAssumption DEF Init, CatalogueInit, CatalogueTypeOK, Posting
  <2>2. QED
    BY <2>1, MonthIsAnHour DEF Init, TypeOK
<1>2. TypeOK /\ CatInv /\ [Next]_vars => TypeOK'
  <2> SUFFICES ASSUME TypeOK, CatInv, [Next]_vars PROVE TypeOK'
    OBVIOUS
  <2>1. ASSUME NEW r \in Poster, CatalogueStep(r), UNCHANGED <<incident, now>> PROVE TypeOK'
    BY <2>1, CatalogueStepTyping DEF TypeOK
  <2>2. ASSUME NEW o \in Incident, CloseIncident(o) PROVE TypeOK'
    <3>1. PICK e \in EndDates : incident' = [incident EXCEPT ![o].end = e]
      BY <2>2 DEF CloseIncident
    <3>2. e \in Hours
      BY DateAssumption
    <3>3. incident[o] \in [comps : SUBSET (1..MaxComponents), impact : Impact,
                           start : Hours, end : Hours \cup {Open}]
      BY <2>2 DEF CloseIncident, TypeOK
    <3>4. QED
      BY <2>2, <3>1, <3>2, <3>3 DEF CloseIncident, TypeOK, CatalogueTypeOK, catalogue
  <2>3. CASE Tick
    BY <2>3 DEF Tick, TypeOK, CatalogueTypeOK, catalogue
  <2>4. CASE UNCHANGED vars
    BY <2>4 DEF vars, TypeOK, CatalogueTypeOK, catalogue
  <2>5. QED
    BY <2>1, <2>2, <2>3, <2>4, CreateTyping DEF Next
<1>3. QED
  BY InitCatInv, NextCatInv, <1>1, <1>2, PTL DEF Spec

-----------------------------------------------------------------------------
(* The availability: the hours an outage contributes to a month are those  *)
(* it has in it, and what disjoint outages contribute adds up.             *)

\* An hour lies in one month.
LEMMA MonthAtIs ==
  ASSUME NEW t \in Hours
  PROVE  /\ MonthAt(t) \in 1..Last
         /\ \A m \in 1..Last : m = MonthAt(t) <=> MonthStart[m] <= t /\ t < MonthStart[m + 1]
<1>1. t \in Nat /\ t < MonthStart[Last + 1] /\ MonthStart[1] <= t
  BY MonthStarts, MonthsInOrder, CalendarLengths DEF Hours, Last
<1> DEFINE T == {m \in 1..Last : MonthStart[m] <= t}
<1>2. T \in SUBSET Nat /\ T # {} /\ IsFiniteSet(T)
  <2>1. 1 \in T /\ T \in SUBSET (1..Last)
    BY <1>1, CalendarLengths
  <2>2. IsFiniteSet(1..Last)
    BY CalendarLengths, FS_Interval
  <2> HIDE DEF T
  <2>3. IsFiniteSet(T)
    BY <2>1, <2>2, FS_Subset
  <2>4. QED
    BY <2>1, <2>3, CalendarLengths
<1>3. PICK n \in T : \A m \in T : m <= n
  BY <1>2, GreatestNatural
<1>4. t < MonthStart[n + 1]
  <2>1. n + 1 \in 1..Last + 1 /\ MonthStart[n + 1] \in Nat
    BY <1>3, MonthsInOrder, CalendarLengths
  <2>2. CASE n = Last
    BY <1>1, <2>2
  <2>3. CASE n # Last
    <3>1. n + 1 \in 1..Last /\ n + 1 \notin T
      BY <1>3, <2>3, CalendarLengths
    <3>2. QED
      BY <1>1, <2>1, <3>1
  <2>4. QED
    BY <2>2, <2>3
<1>5. ASSUME NEW m \in 1..Last, MonthStart[m] <= t, t < MonthStart[m + 1]
      PROVE  m = n
  <2>1. m <= n
    BY <1>3, <1>5
  <2>2. ASSUME m < n PROVE FALSE
    <3>1. m + 1 \in 1..Last + 1 /\ n \in 1..Last + 1 /\ (m + 1 = n \/ m + 1 < n)
      BY <1>3, <2>2, CalendarLengths
    <3>2. MonthStart[m + 1] \in Nat /\ MonthStart[n] \in Nat /\ MonthStart[m + 1] <= MonthStart[n]
      BY <3>1, MonthsInOrder
    <3>3. QED
      BY <1>1, <1>3, <1>5, <3>2
  <2>3. QED
    BY <1>3, <2>1, <2>2, CalendarLengths
<1>6. MonthAt(t) = n
  <2>1. n \in Months /\ MonthStart[n] <= t /\ t < MonthStart[n + 1]
    BY <1>3, <1>4 DEF Months, Last
  <2>2. \A m \in Months : MonthStart[m] <= t /\ t < MonthStart[m + 1] => m = n
    BY <1>5 DEF Months, Last
  <2>3. QED
    BY <2>1, <2>2 DEF MonthAt
<1>7. QED
  BY <1>3, <1>4, <1>5, <1>6

\* The years cancel out.
LEMMA MonthIndexIs ==
  ASSUME NEW m \in Nat \ {0}, NEW n \in Nat \ {0}
  PROVE  MonthIndex(m, n) = m - n
<1> DEFINE b == MonthsInYear
           x == (m - 1) \div b
           y == (n - 1) \div b
           p == (m - 1) % b
           q == (n - 1) % b
<1>2. b \in Nat \ {0} /\ m - 1 \in Nat /\ n - 1 \in Nat
  BY CalendarAssumption
<1>3. x \in Nat /\ y \in Nat /\ p = m - 1 - b * x /\ q = n - 1 - b * y
  <2> HIDE DEF b
  <2>1. QED
    BY <1>2, DivisionBounds, Remainder
<1>4. MonthIndex(m, n) = (x - y) * b + p - q
  BY DEF MonthIndex, Year, MonthOfYear
<1> HIDE DEF b, x, y, p, q
<1>5. (x - y) * b = b * x - b * y
  BY <1>2, <1>3
<1>6. b * x \in Int /\ b * y \in Int
  BY <1>2, <1>3
<1> DEFINE u == b * x
           v == b * y
<1>7. MonthIndex(m, n) = u - v + p - q /\ p = m - 1 - u /\ q = n - 1 - v /\ u \in Int /\ v \in Int
  BY <1>3, <1>4, <1>5, <1>6
<1> HIDE DEF u, v
<1>8. QED
  BY <1>7

\* The outages that are counted, cut to the period of the report, and the
\* months one of them is found in with the index i.
Counted(ids, inc, n) ==
    {o \in ids : /\ inc[o].end # Open /\ inc[o].impact = OutageImpact
                 /\ Valid(inc[o], MonthStart[PeriodStart(n)], n)}
Cut(inc, n, o) == Adjust(inc[o], MonthStart[PeriodStart(n)], n)
Visited(a, first, i) == {m \in MonthsOf(a) : MonthIndex(m, first) = i}
Share(a, first, i) == MapThenSumSet(LAMBDA m : DowntimeIn(a, m), Visited(a, first, i))

LEMMA MonthsAdd ==
  ASSUME NEW a, NEW S
  PROVE  MapThenSumSet(LAMBDA m : DowntimeIn(a, m), S) = Total([m \in S |-> DowntimeIn(a, m)], S)
  BY DEF Total, MapThenSumSet, MapThenFoldSet

LEMMA DowntimeIsTotal ==
  ASSUME NEW ids, NEW inc, NEW n, NEW i
  PROVE  Downtime(ids, inc, n, i)
           = Total([o \in Counted(ids, inc, n) |-> Share(Cut(inc, n, o), PeriodStart(n), i)],
                   Counted(ids, inc, n))
<1>1. Downtime(ids, inc, n, i)
        = MapThenSumSet(LAMBDA o : Share(Cut(inc, n, o), PeriodStart(n), i), Counted(ids, inc, n))
  BY DEF Downtime, Counted, Cut, Share, Visited
<1>2. MapThenSumSet(LAMBDA o : Share(Cut(inc, n, o), PeriodStart(n), i), Counted(ids, inc, n))
        = Total([o \in Counted(ids, inc, n) |-> Share(Cut(inc, n, o), PeriodStart(n), i)],
                Counted(ids, inc, n))
  BY DEF Total, MapThenSumSet, MapThenFoldSet
<1>3. QED
  BY <1>1, <1>2

LEMMA ShareIsTotal ==
  ASSUME NEW a, NEW first, NEW i, NEW M, M = Visited(a, first, i)
  PROVE  Share(a, first, i) = Total([m \in M |-> DowntimeIn(a, m)], M)
<1>1. Share(a, first, i) = MapThenSumSet(LAMBDA m : DowntimeIn(a, m), M)
  BY DEF Share
<1>2. QED
  BY <1>1, MonthsAdd

\* The hours of a month.
Month(m) == MonthStart[m]..MonthStart[m + 1] - 1

\* What a period contributes to a month is its hours in that month.
LEMMA ShareCounts ==
  ASSUME NEW a, a.start \in Nat, a.end \in Int, a.end <= MonthStart[Last + 1],
         NEW first \in 1..Last, NEW m \in 1..Last
  PROVE  Share(a, first, m - first) = Cardinality({t \in Month(m) : a.start <= t /\ t < a.end})
<1> DEFINE M == Visited(a, first, m - first)
           H == {t \in Month(m) : a.start <= t /\ t < a.end}
           f == [k \in M |-> DowntimeIn(a, k)]
           P == [k \in M |-> H]
<1>1. /\ MonthStart[m] \in Nat /\ MonthStart[m + 1] \in Nat /\ MonthStart[m] < MonthStart[m + 1]
      /\ MonthStart[Last + 1] \in Nat
      /\ MonthStart[m + 1] <= MonthStart[Last + 1]
  <2>1. m \in 1..Last + 1 /\ m + 1 \in 1..Last + 1 /\ Last + 1 \in 1..Last + 1
        /\ (m + 1 = Last + 1 \/ m + 1 < Last + 1) /\ m < m + 1
    BY CalendarLengths
  <2>2. QED
    BY <2>1, MonthsInOrder
<1>2. \A t \in a.start..a.end - 1 : t \in Hours
  <2>1. Hours = 0..MonthStart[Last + 1] - 1
    BY DEF Hours, Last
  <2> HIDE DEF M, H, f, P
  <2>2. QED
    BY <1>1, <2>1
<1>0. \A k \in 1..Last : MonthIndex(k, first) = k - first
  <2>1. \A k \in 1..Last : k \in Nat \ {0}
    BY CalendarLengths
  <2>2. QED
    BY <2>1, MonthIndexIs
<1>3. ASSUME NEW k \in M PROVE k = m
  <2>1. PICK t \in a.start..a.end - 1 : k = MonthAt(t)
    BY DEF Visited, MonthsOf
  <2>2. k \in 1..Last
    BY <1>2, <2>1, MonthAtIs
  <2>3. k - first = m - first
    BY <1>0, <2>2 DEF Visited
  <2>4. QED
    BY <2>2, <2>3, CalendarLengths
<1>4. m \in M <=> H # {}
  <2>1. MonthIndex(m, first) = m - first
    BY <1>0
  <2>2. m \in M <=> \E t \in a.start..a.end - 1 : m = MonthAt(t)
    BY <2>1 DEF Visited, MonthsOf
  <2>3. \A t \in a.start..a.end - 1 : m = MonthAt(t) <=> t \in Month(m)
    <3>1. ASSUME NEW t \in a.start..a.end - 1 PROVE m = MonthAt(t) <=> t \in Month(m)
      <4>1. m = MonthAt(t) <=> MonthStart[m] <= t /\ t < MonthStart[m + 1]
        BY <1>2, MonthAtIs
      <4>2. QED
        BY <1>1, <4>1 DEF Month
    <3>2. QED
      BY <3>1
  <2>4. \A t : t \in a.start..a.end - 1 /\ t \in Month(m) <=> t \in H
    BY <1>1 DEF Month
  <2>5. QED
    BY <2>2, <2>3, <2>4
<1>5. IsFiniteSet(H)
  <2>1. IsFiniteSet(Month(m))
    <3>1. MonthStart[m] \in Int /\ MonthStart[m + 1] - 1 \in Int
      BY <1>1
    <3>2. QED
      BY <3>1, FS_Interval DEF Month
  <2>2. QED
    BY <2>1, FS_Subset
<1>6. ASSUME m \in M PROVE DowntimeIn(a, m) = Cardinality(H)
  <2> DEFINE lo == maxTime(a.start, MonthStart[m])
             hi == minTime(a.end, MonthStart[m + 1])
  <2>1. lo \in Int /\ hi \in Int
    BY <1>1 DEF maxTime, minTime
  <2>2. H = lo..hi - 1
    BY <1>1 DEF Month, maxTime, minTime
  <2>3. lo < hi
    <3>1. lo..hi - 1 # {}
      BY <1>4, <1>6, <2>2
    <3> HIDE DEF lo, hi
    <3>2. QED
      BY <2>1, <3>1
  <2>4. DowntimeIn(a, m) = hi - lo
    BY DEF DowntimeIn
  <2> HIDE DEF lo, hi, H
  <2>5. hi - 1 \in Int /\ Cardinality(lo..hi - 1) = IF lo > hi - 1 THEN 0 ELSE hi - 1 - lo + 1
    BY <2>1, FS_Interval
  <2>6. QED
    BY <2>1, <2>2, <2>3, <2>4, <2>5
<1>7. IsFiniteSet(M)
  <2>1. M \subseteq {m}
    BY <1>3
  <2>2. IsFiniteSet({m})
    BY FS_Singleton
  <2> HIDE DEF M
  <2>3. QED
    BY <2>1, <2>2, FS_Subset
<1>8. UNION {P[k] : k \in M} = H
  <2> HIDE DEF H, M
  <2>1. QED
    BY <1>3, <1>4
<1>9. /\ \A k \in M : IsFiniteSet(P[k]) /\ f[k] = Cardinality(P[k])
      /\ \A j, k \in M : j # k => P[j] \cap P[k] = {}
  <2> HIDE DEF H, M
  <2>1. QED
    BY <1>3, <1>5, <1>6
<1>10. Share(a, first, m - first) = Total(f, M)
  BY ShareIsTotal
<1> HIDE DEF M, f, P, H
<1>11. Total(f, M) = Cardinality(UNION {P[k] : k \in M})
  BY <1>7, <1>9, TotalOfSizes
<1>12. QED
  BY <1>8, <1>10, <1>11 DEF H

\* The clock has passed a first year, and there are finitely many incidents.
Recorded == {o \in Incident : incident[o] # None}

Underway ==
    /\ MonthStart[MonthsInYear] <= now
    /\ IsFiniteSet(Recorded)

\* The months of the report are months of the calendar.
LEMMA ReportedMonths ==
  ASSUME TypeOK, Underway, NEW k \in 1..MonthsInYear
  PROVE  /\ PeriodStart(now) \in 1..Last /\ MonthAt(now) + 1 - k \in 1..Last
         /\ MonthAt(now) + 1 - k = PeriodStart(now) + (MonthsInYear - k)
         /\ MonthStart[PeriodStart(now)] \in Nat
         /\ MonthStart[PeriodStart(now)] <= MonthStart[MonthAt(now) + 1 - k]
<1> DEFINE n == MonthAt(now)
<1>1. n \in 1..Last /\ MonthStart[n] <= now /\ now < MonthStart[n + 1]
  BY MonthAtIs DEF TypeOK
<1>2. MonthsInYear \in 1..Last - 1 /\ Last \in Nat
  BY CalendarLengths
<1> HIDE DEF n
<1>3. ASSUME n < MonthsInYear PROVE FALSE
  <2>1. n + 1 \in 1..Last + 1 /\ MonthsInYear \in 1..Last + 1
        /\ (n + 1 = MonthsInYear \/ n + 1 < MonthsInYear)
    BY <1>1, <1>2, <1>3
  <2>2. /\ MonthStart[n + 1] \in Nat /\ MonthStart[MonthsInYear] \in Nat
        /\ MonthStart[n + 1] <= MonthStart[MonthsInYear]
    BY <2>1, MonthsInOrder
  <2>3. now \in Nat
    BY DEF TypeOK, Hours
  <2>4. QED
    BY <1>1, <2>2, <2>3 DEF Underway
<1> DEFINE first == n - (MonthsInYear - 1)
           m == n + 1 - k
<1>4. first \in 1..Last /\ m \in 1..Last /\ m = first + (MonthsInYear - k) /\ (first = m \/ first < m)
  BY <1>1, <1>2, <1>3
<1> HIDE DEF first, m
<1>5. first \in 1..Last + 1 /\ m \in 1..Last + 1
  BY <1>2, <1>4
<1>6. MonthStart[first] \in Nat /\ MonthStart[m] \in Nat /\ MonthStart[first] <= MonthStart[m]
  BY <1>4, <1>5, MonthsInOrder
<1>7. PeriodStart(now) = first /\ MonthAt(now) + 1 - k = m
  BY DEF PeriodStart, first, m, n
<1>8. QED
  BY <1>4, <1>6, <1>7

\* The downtime of a month is its hours in which the component was down.
LEMMA DowntimeCounts ==
  ASSUME TypeOK, Underway, NEW c, NEW k \in 1..MonthsInYear, NEW ids,
         ids = {o \in Incident : c \in incident[o].comps},
         \A o, p \in Outages(c) : o # p => ~Overlap(o, p)
  PROVE  Downtime(ids, incident, now, MonthsInYear - k)
           = Cardinality({t \in Month(MonthAt(now) + 1 - k) : Down(c, t)})
<1> DEFINE first == PeriodStart(now)
           m == MonthAt(now) + 1 - k
           C == Counted(ids, incident, now)
           f == [o \in C |-> Share(Cut(incident, now, o), first, MonthsInYear - k)]
           Lost(o) == {t \in Month(m) : incident[o].start <= t /\ t < incident[o].end /\ t < now}
           P == [o \in C |-> Lost(o)]
<1>1. /\ first \in 1..Last /\ m \in 1..Last /\ MonthsInYear - k = m - first
      /\ MonthStart[first] \in Nat /\ MonthStart[first] <= MonthStart[m]
  <2>1. first \in 1..Last /\ m \in 1..Last /\ m = first + (MonthsInYear - k)
        /\ MonthStart[first] \in Nat /\ MonthStart[first] <= MonthStart[m]
    BY ReportedMonths
  <2>2. MonthsInYear \in Nat /\ Last \in Nat
    BY CalendarLengths
  <2> HIDE DEF first, m
  <2>3. QED
    BY <2>1, <2>2
<1>2. /\ MonthStart[m] \in Nat /\ MonthStart[m + 1] \in Nat
      /\ MonthStart[Last + 1] \in Nat /\ now \in Nat /\ now < MonthStart[Last + 1]
  <2>1. m \in 1..Last + 1 /\ m + 1 \in 1..Last + 1 /\ Last + 1 \in 1..Last + 1
    BY <1>1, CalendarLengths
  <2>2. MonthStart[m] \in Nat /\ MonthStart[m + 1] \in Nat /\ MonthStart[Last + 1] \in Nat
    BY <2>1, MonthsInOrder
  <2>3. now \in 0..MonthStart[Last + 1] - 1
    BY DEF TypeOK, Hours, Last
  <2> HIDE DEF m
  <2>4. QED
    BY <2>2, <2>3
<1> HIDE DEF first, m
<1>3. ASSUME NEW o \in Incident, c \in incident[o].comps
      PROVE  /\ o \in Recorded /\ incident[o].start \in Nat
             /\ incident[o].end # Open => incident[o].end \in Nat
  <2>1. incident[o] # None
    BY <1>3 DEF None
  <2>2. incident[o].start \in Hours /\ incident[o].end \in Hours \cup {Open}
    BY <2>1 DEF TypeOK
  <2>3. QED
    BY <2>1, <2>2 DEF Recorded, Hours
<1>4. IsFiniteSet(C)
  <2>1. C \in SUBSET Recorded
    BY <1>3 DEF Counted
  <2> HIDE DEF C
  <2>2. QED
    BY <2>1, FS_Subset DEF Underway
<1>5. \A o \in C : o \in Outages(c) /\ incident[o].start \in Nat /\ incident[o].end \in Nat
  BY <1>3 DEF Counted, Outages
<1>6. ASSUME NEW o \in C
      PROVE  IsFiniteSet(P[o]) /\ f[o] = Cardinality(P[o])
  <2> DEFINE a == Cut(incident, now, o)
             H == {t \in Month(m) : a.start <= t /\ t < a.end}
  <2>1. /\ a.start = maxTime(incident[o].start, MonthStart[first])
        /\ a.end = minTime(incident[o].end, now)
    BY DEF Cut, Adjust, first
  <2> HIDE DEF a
  <2>2. a.start \in Nat /\ a.end \in Int /\ a.end <= MonthStart[Last + 1]
    BY <1>1, <1>2, <1>5, <2>1 DEF maxTime, minTime
  <2>3. Share(a, first, m - first) = Cardinality(H)
    <3> HIDE DEF H
    <3>1. QED
      BY <1>1, <2>2, ShareCounts DEF H
  <2>4. Lost(o) = H
    <3>1. ASSUME NEW t \in Month(m)
          PROVE  a.start <= t /\ t < a.end <=>
                 incident[o].start <= t /\ t < incident[o].end /\ t < now
      <4>1. t \in Nat /\ MonthStart[m] <= t
        BY <1>2 DEF Month
      <4>2. QED
        BY <1>1, <1>2, <1>5, <2>1, <4>1 DEF maxTime, minTime
    <3>2. QED
      BY <3>1
  <2>5. IsFiniteSet(H)
    <3>1. MonthStart[m] \in Int /\ MonthStart[m + 1] - 1 \in Int
      BY <1>2
    <3>2. IsFiniteSet(Month(m))
      BY <3>1, FS_Interval DEF Month
    <3>3. QED
      BY <3>2, FS_Subset
  <2>6. P[o] = Lost(o) /\ f[o] = Share(a, first, MonthsInYear - k)
    BY DEF a
  <2> HIDE DEF f, P, C, Lost, H
  <2>7. QED
    BY <1>1, <2>3, <2>4, <2>5, <2>6
<1>7. ASSUME NEW o \in C, NEW p \in C, o # p
      PROVE  P[o] \cap P[p] = {}
  <2>1. ~Overlap(o, p)
    BY <1>5, <1>7
  <2>2. ASSUME NEW t \in Lost(o), t \in Lost(p) PROVE FALSE
    <3>1. t \in Nat
      BY <1>2 DEF Month
    <3>2. QED
      BY <1>5, <2>1, <2>2, <3>1 DEF Overlap
  <2>3. QED
    BY <2>2
<1>8. UNION {P[o] : o \in C} = {t \in Month(m) : Down(c, t)}
  <2>1. ASSUME NEW o \in C, NEW t \in Lost(o)
        PROVE  t \in Month(m) /\ Down(c, t)
    BY <1>5 DEF Down
  <2>2. ASSUME NEW t \in Month(m), Down(c, t)
        PROVE  \E o \in C : t \in Lost(o)
    <3>1. PICK o \in Outages(c) : incident[o].start <= t /\ t < incident[o].end /\ t < now
      BY <2>2 DEF Down
    <3>2. /\ o \in Incident /\ c \in incident[o].comps
          /\ incident[o].impact = OutageImpact /\ incident[o].end # Open
      BY DEF Outages
    <3>3. incident[o].start \in Nat /\ incident[o].end \in Nat
      BY <1>3, <3>2
    <3>4. t \in Nat /\ MonthStart[m] <= t
      BY <1>2 DEF Month
    <3>5. Valid(incident[o], MonthStart[first], now)
      BY <1>1, <1>2, <3>1, <3>3, <3>4 DEF Valid
    <3>6. o \in C
      BY <3>2, <3>5 DEF Counted, first
    <3> HIDE DEF C
    <3>7. QED
      BY <2>2, <3>1, <3>6
  <2> HIDE DEF C, Lost
  <2>3. QED
    BY <2>1, <2>2
<1>9. Downtime(ids, incident, now, MonthsInYear - k) = Total(f, C)
  BY DowntimeIsTotal DEF first
<1> HIDE DEF C, f, P
<1>10. Total(f, C) = Cardinality(UNION {P[o] : o \in C})
  BY <1>4, <1>6, <1>7, TotalOfSizes
<1>11. QED
  BY <1>8, <1>9, <1>10 DEF m

LEMMA ExactReport ==
  ASSUME TypeOK, Underway
  PROVE  AvailabilityExact
<1> SUFFICES ASSUME NEW c \in DOMAIN component,
                    \E o \in Incident : c \in incident[o].comps,
                    \A o, p \in Outages(c) : o # p => ~Overlap(o, p),
                    NEW k \in 1..MonthsInYear
             PROVE  LET m == MonthAt(now) + 1 - k
                        up == {t \in MonthStart[m]..MonthStart[m + 1] - 1 : ~Down(c, t)}
                    IN  Reported(c)[k] = [year |-> Year(m), month |-> MonthOfYear(m),
                                          hours |-> Cardinality(up)]
  BY DEF AvailabilityExact
<1> DEFINE m == MonthAt(now) + 1 - k
           up == {t \in Month(m) : ~Down(c, t)}
           down == {t \in Month(m) : Down(c, t)}
           ids == {o \in Incident : c \in incident[o].comps}
<1>1. /\ m \in 1..Last /\ m = PeriodStart(now) + (MonthsInYear - k)
  BY ReportedMonths
<1>2. Downtime(ids, incident, now, MonthsInYear - k) = Cardinality(down)
  BY DowntimeCounts
<1>3. Reported(c)[k] = [year |-> Year(m), month |-> MonthOfYear(m),
                        hours |-> MonthLength[m] - Downtime(ids, incident, now, MonthsInYear - k)]
  <2>1. ids # {}
    OBVIOUS
  <2> HIDE DEF m, ids
  <2>2. QED
    BY <1>1, <2>1 DEF Reported, calculateAvailability, ids
<1> HIDE DEF m, ids
<1>4. /\ MonthStart[m] \in Nat /\ MonthStart[m + 1] \in Nat /\ MonthLength[m] \in Nat
      /\ MonthStart[m + 1] = MonthStart[m] + MonthLength[m]
  <2>1. m \in 1..Last + 1 /\ m + 1 \in 1..Last + 1
    BY <1>1, CalendarLengths
  <2>2. QED
    BY <1>1, <2>1, MonthStarts, MonthsInOrder, CalendarLengths
<1>5. IsFiniteSet(Month(m)) /\ Cardinality(Month(m)) = MonthLength[m]
  <2> DEFINE lo == MonthStart[m]
             hi == MonthStart[m + 1] - 1
  <2>1. lo \in Int /\ hi \in Int /\ hi - lo + 1 = MonthLength[m] /\ (lo > hi => MonthLength[m] = 0)
    BY <1>4
  <2> HIDE DEF lo, hi
  <2>2. IsFiniteSet(lo..hi) /\ Cardinality(lo..hi) = IF lo > hi THEN 0 ELSE hi - lo + 1
    BY <2>1, FS_Interval
  <2>3. QED
    BY <2>1, <2>2 DEF Month, lo, hi
<1>6. up = Month(m) \ down /\ Month(m) \cap down = down
  OBVIOUS
<1>7. Cardinality(up) = MonthLength[m] - Cardinality(down)
  <2> HIDE DEF up, down
  <2>1. Cardinality(Month(m) \ down) = Cardinality(Month(m)) - Cardinality(Month(m) \cap down)
    BY <1>5, FS_Difference
  <2>2. QED
    BY <1>5, <1>6, <2>1
<1>8. Reported(c)[k] = [year |-> Year(m), month |-> MonthOfYear(m), hours |-> Cardinality(up)]
  <2> HIDE DEF up, down
  <2>1. QED
    BY <1>2, <1>3, <1>7
<1>9. QED
  BY <1>8 DEF Month, m

LEMMA UnderwayInit == Init => Underway
<1> SUFFICES ASSUME Init PROVE Underway
  OBVIOUS
<1>1. MonthStart[MonthsInYear] <= now
  BY MonthIsAnHour DEF Init, Hours
<1>2. Recorded = {}
  BY DEF Init, Recorded
<1>3. QED
  BY <1>1, <1>2, FS_EmptySet DEF Underway

LEMMA UnderwayNext == TypeOK /\ Underway /\ [Next]_vars => Underway'
<1> SUFFICES ASSUME TypeOK, Underway, [Next]_vars PROVE Underway'
  OBVIOUS
<1>1. MonthStart[MonthsInYear] \in Nat /\ now \in Nat
  BY MonthIsAnHour DEF TypeOK, Hours
<1>2. now' = now \/ now' = now + 1
  BY DEF Next, CreateIncident, CloseIncident, Tick, vars
<1>3. \E o : Recorded' \subseteq Recorded \cup {o}
  <2>1. ASSUME NEW r \in Poster, CreateIncident(r) PROVE \E o : Recorded' \subseteq Recorded \cup {o}
    <3>1. PICK o \in Incident : \E x : incident' = [incident EXCEPT ![o] = x]
      BY <2>1 DEF CreateIncident
    <3>2. Recorded' \subseteq Recorded \cup {o}
      BY <3>1 DEF TypeOK, Recorded
    <3>3. QED
      BY <3>2
  <2>2. ASSUME NEW o \in Incident, CloseIncident(o) PROVE \E p : Recorded' \subseteq Recorded \cup {p}
    <3>1. PICK e : incident' = [incident EXCEPT ![o].end = e]
      BY <2>2 DEF CloseIncident
    <3>2. Recorded' \subseteq Recorded \cup {o}
      BY <3>1 DEF TypeOK, Recorded
    <3>3. QED
      BY <3>2
  <2>3. CASE UNCHANGED incident
    BY <2>3 DEF Recorded
  <2>4. QED
    BY <2>1, <2>2, <2>3 DEF Next, Tick, vars
<1>4. IsFiniteSet(Recorded')
  <2>1. PICK o : Recorded' \subseteq Recorded \cup {o}
    BY <1>3
  <2>2. IsFiniteSet(Recorded \cup {o})
    BY FS_AddElement DEF Underway
  <2>3. QED
    BY <2>1, <2>2, FS_Subset
<1>5. QED
  BY <1>1, <1>2, <1>4 DEF Underway

\* The hours reported of each month are those in which no closed outage had
\* the component down, for any calendar and any number of months, components
\* and incidents, as long as its outages do not overlap.
THEOREM AvailabilityIsExact == Spec => []AvailabilityExact
<1>1. TypeOK /\ Underway => AvailabilityExact
  BY ExactReport
<1>2. QED
  BY ComponentsTyping, UnderwayInit, UnderwayNext, <1>1, PTL DEF Spec
===============================================================================
