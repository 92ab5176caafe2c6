------------------------------ MODULE Catalogue -------------------------------
(***************************************************************************)
(* The component and component_attribute tables (internal/db/db.go), the   *)
(* handler that adds a component, and the check that the components of a   *)
(* new event exist (internal/api/middleware.go).                           *)
(*                                                                         *)
(* No component is ever changed or deleted.  Of the attributes of a        *)
(* component (category, region, type) two are kept: its region, and kind   *)
(* for either of the others.                                               *)
(***************************************************************************)
EXTENDS Naturals, FiniteSets

CONSTANTS
    Poster,         \* requests that can be in flight together
    Name,           \* names of components
    Region,         \* values of the attribute region
    Kind,           \* values of the other attributes
    MaxComponents   \* bound on the keys the component table hands out

ASSUME MaxComponentsAssumption == MaxComponents \in Nat

Unnamed == "unnamed"

ASSUME NameAssumption == Unnamed \notin Name

VARIABLES
    component,   \* the rows, by key, with their attributes
    lastKey,     \* the sequence of the primary key
    post         \* what the handler of each request is doing

catalogue == <<component, lastKey, post>>

Row == [name : Name \cup {Unnamed}, region : Region, kind : Kind]

Idle == [at |-> "idle"]

\* [history: late, there was a component of that name and region when the
\* request came in; checked, FALSE if the query for one failed]
Posting ==
    {Idle} \cup [at : {"check", "insert"}, row : Row, late : BOOLEAN, checked : BOOLEAN]
           \cup [at : {"validate", "create"}, comps : SUBSET (1..MaxComponents)]

CatalogueTypeOK ==
    /\ lastKey \in 0..MaxComponents
    /\ DOMAIN component \subseteq 1..MaxComponents
    /\ component \in [DOMAIN component -> Row]
    /\ post \in [Poster -> Posting]

CatalogueInit ==
    /\ component = [i \in {} |-> Idle]
    /\ lastKey = 0
    /\ post = [r \in Poster |-> Idle]

Goes(r, p) == post' = [post EXCEPT ![r] = p]

SamePlace(a, b) == a.name = b.name /\ a.region = b.region
Exists(c) == \E i \in DOMAIN component : SamePlace(component[i], c)

\* Mutant: the attributes are taken for each other.
PostSwapped(r) ==
    /\ post[r] = Idle
    /\ \E n \in Name, g \in Region, k \in Kind :
          LET c == [name |-> n, region |-> k, kind |-> g]
          IN  Goes(r, [at |-> "check", row |-> c, late |-> Exists(c), checked |-> TRUE])
    /\ UNCHANGED <<component, lastKey>>

\* PostComponentHandler has accepted a body: each attribute once.
PostComponent(r) ==
    /\ post[r] = Idle
    /\ \E n \in Name, g \in Region, k \in Kind :
          LET c == [name |-> n, region |-> g, kind |-> k]
          IN  Goes(r, [at |-> "check", row |-> c, late |-> Exists(c), checked |-> TRUE])
    /\ UNCHANGED <<component, lastKey>>

\* Mutant: the error of a component that exists is answered, not returned.
CheckAndGoOn(r) ==
    /\ post[r].at = "check"
    /\ Goes(r, [post[r] EXCEPT !.at = "insert"])
    /\ UNCHANGED <<component, lastKey>>

\* SaveComponent looks for a component of that name and region.  Any error
\* of the query, not only "no rows", counts as none.
CheckExists(r) ==
    /\ post[r].at = "check"
    /\ \/ Goes(r, IF Exists(post[r].row) THEN Idle ELSE [post[r] EXCEPT !.at = "insert"])
       \/ Goes(r, [post[r] EXCEPT !.at = "insert", !.checked = FALSE])
    /\ UNCHANGED <<component, lastKey>>

\* ... and inserts it with its attributes, in one transaction, or fails.
InsertComponent(r) ==
    /\ post[r].at = "insert"
    /\ Goes(r, Idle)
    /\ \/ UNCHANGED <<component, lastKey>>
       \/ LET i == lastKey + 1
          IN  /\ i <= MaxComponents /\ i \notin DOMAIN component
              /\ lastKey' = i
              /\ component' = [j \in DOMAIN component \cup {i} |->
                                 IF j = i THEN post[r].row ELSE component[j]]

\* A new event, on components the client names by key.
PostEvent(r) ==
    /\ post[r] = Idle
    /\ \E cs \in SUBSET (1..MaxComponents) :
          cs # {} /\ Goes(r, [at |-> "validate", comps |-> cs])
    /\ UNCHANGED <<component, lastKey>>

\* Mutant: the loop returns at the first component it finds.
ValidateFirst(r) ==
    /\ post[r].at = "validate"
    /\ Goes(r, IF post[r].comps \cap DOMAIN component # {}
               THEN [post[r] EXCEPT !.at = "create"] ELSE Idle)
    /\ UNCHANGED <<component, lastKey>>

\* ValidateComponentsMW: every one of them is in the table.
ValidateComponents(r) ==
    /\ post[r].at = "validate"
    /\ Goes(r, IF post[r].comps \subseteq DOMAIN component
               THEN [post[r] EXCEPT !.at = "create"] ELSE Idle)
    /\ UNCHANGED <<component, lastKey>>

\* What SaveIncident does to the table: the event refers to its components by
\* a struct with nothing but the key, and GORM inserts the ones that are not
\* there, without a name or an attribute.
UpsertComponents(cs) ==
    component' = [i \in DOMAIN component \cup cs |->
                    IF i \in DOMAIN component THEN component[i]
                    ELSE [name |-> Unnamed, region |-> CHOOSE g \in Region : TRUE,
                          kind |-> CHOOSE k \in Kind : TRUE]]

\* The rows of component JOIN component_attribute with a name and a value of
\* any attribute, by the key of the component.
Matching(n, v) ==
    [i \in {j \in DOMAIN component :
              component[j].name = n /\ v \in {component[j].region, component[j].kind}} |->
        IF component[i].region = v /\ component[i].kind = v THEN 2 ELSE 1]

\* Mutant: the subquery does not look at the value.
LookupByName(n, v) ==
    LET found == {i \in DOMAIN component : component[i].name = n}
    IN  IF Cardinality(found) = 1 THEN found ELSE {}

\* GetComponentFromNameAttrs: the component, or none.  "id = (subquery)" is
\* an error when the subquery returns two rows.
Lookup(n, v) ==
    LET found == Matching(n, v)
    IN  IF \E i \in DOMAIN found : DOMAIN found = {i} /\ found[i] = 1
        THEN DOMAIN found ELSE {}

-----------------------------------------------------------------------------
(* Properties *)

\* A second component of a name and a region gets in only if the request for
\* it was under way before the first was there, or its check failed
\* (SaveComponent, check and insert in two queries).
TwinsOnlyFromRaces ==
    [][\A i \in DOMAIN component' \ DOMAIN component :
          Exists(component'[i]) =>
          \E r \in Poster : /\ post[r].at = "insert" /\ post[r].row = component'[i]
                            /\ ~post[r].late \/ ~post[r].checked]_catalogue

\* A report of the API v1 finds the component it names, unless there is a
\* twin, or the region is also the value of another attribute.
CreatedIsFound ==
    \A i \in DOMAIN component :
        LET c == component[i]
        IN  /\ c.kind # c.region
            /\ \A j \in DOMAIN component \ {i} :
                  component[j].name = c.name => c.region \notin {component[j].region, component[j].kind}
            => Lookup(c.name, c.region) = {i}

\* Every component has been created as one: no event brings one in by
\* referring to it.
NoComponentByReference == \A i \in DOMAIN component : component[i].name # Unnamed
===============================================================================
