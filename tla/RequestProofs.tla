------------------------------ MODULE RequestProofs -----------------------------
(***************************************************************************)
(* What a request of Placement has in hand when it writes.  The first part *)
(* holds however requests interleave: it is about the structs a request    *)
(* has chosen.  The second is about one request at a time, between whose   *)
(* database calls only the clock moves: its structs are what the tables    *)
(* hold.  The theorems on where the components end up follow from both.    *)
(* They are about any number of events, components, dates and reports.     *)
(***************************************************************************)
EXTENDS Feed, BoardProofs, FiniteSetTheorems

-----------------------------------------------------------------------------
(* The structs a request has chosen *)

\* The two kinds of request that report a component.
Monitor == {"system", "v1"}

\* The labels a kind of request reaches.
KindFits(l) ==
    /\ l.pc = "idle" => l = Idle
    /\ l.pc \in {"findEvents", "matchTarget", "matchHigher", "markSystem"} => l.kind = "system"
    /\ l.pc \in {"link", "raise"} => l.kind \in Monitor
    /\ l.pc \in {"extract", "extractMove"} => l.kind \in Monitor \cup {"extract"}
    /\ l.pc \in {"create", "move"} => l.kind \in Monitor \cup {"regular"}
    /\ l.pc = "firstStatus" => l.kind \in {"system", "regular"}
    /\ l.pc = "nextComponent" => l.kind = "regular"
    /\ l.pc \in {"patch", "reopen"} => l.kind = "patch"

\* The components dealt with: those of v1 and of an extraction all at once.
CompsFit(l) ==
    /\ l.cur \subseteq l.todo
    /\ l.kind \in {"v1", "extract"} => l.todo \subseteq l.cur
    /\ l.pc = "matchHigher" => \E c \in Component : l.cur = {c}
    /\ l.kind = "regular" /\ l.pc \in {"create", "firstStatus"} => l.todo \subseteq l.cur
    /\ l.kind = "regular" /\ l.pc \in {"nextComponent", "move"} => l.todo \subseteq l.new.comps
    /\ l.pc \in {"link", "firstStatus", "extractMove", "markSystem"} => l.cur \subseteq l.new.comps

\* The event the components leave.  A move closes it exactly when it holds
\* nothing else; the monitoring API looks at the other event instead.
LeftFits(l) ==
    /\ l.pc \in LeaveLabel => l.cur \subseteq l.old.comps
    /\ l.pc = "move" /\ l.kind # "system" =>
          IF l.closeOld THEN l.old.comps = l.cur ELSE ~(l.old.comps \subseteq l.cur)
    /\ l.pc \in {"extract", "extractMove"} /\ (l.kind = "extract" => MaxEntries <= 1) =>
          ~(l.old.comps \subseteq l.cur)
    /\ l.pc \in LeaveLabel /\ l.kind \in Monitor =>
          l.old.row.type = "incident" /\ l.old.row.impact < l.impact
    /\ l.pc \in LeaveLabel /\ l.kind = "system" => l.old.row.system
    /\ l.pc = "move" /\ l.kind = "regular" =>
          l.old \in l.opened /\ l.old.row.type = "incident"

\* The event they join.
JoinedFits(l) ==
    /\ l.kind \in Monitor => l.type = "incident" /\ l.dates = "open"
    /\ l.pc = "create" => CASE l.type = "incident"    -> l.dates = "open"
                            [] l.type = "maintenance" -> l.dates # "open"
                            [] l.type = "info"        -> TRUE
    /\ l.pc \in {"link", "firstStatus", "move", "extractMove", "markSystem"} /\ l.kind \in Monitor =>
          l.new.row.type = "incident" /\ l.new.row.impact = l.impact
    /\ l.pc = "firstStatus" => l.new.row.type = l.type
    /\ l.pc \in {"link", "firstStatus", "move"} /\ l.kind = "system" => l.new.row.system
    /\ l.pc \in {"firstStatus", "nextComponent", "move"} /\ l.kind = "regular" => ~l.new.row.system
    /\ l.pc \in {"extractMove", "markSystem"} =>
          l.new.row.type = "incident" /\ ~l.new.row.system /\ l.new.row.dates = "open"
    /\ l.pc = "firstStatus" /\ l.kind = "system" => l.new.row.dates = "open"
    /\ l.kind # "regular" => l.opened = {}
    /\ l.pc \in {"patch", "reopen"} => l.new.row.status \in PatchStatus
    /\ l.pc = "reopen" => l.new.row.status = "reopened"

Chosen(l) == KindFits(l) /\ CompsFit(l) /\ LeftFits(l) /\ JoinedFits(l)

CInv == \A r \in Request : Chosen(req[r])

-----------------------------------------------------------------------------
(* One request at a time *)

\* An event as a struct would hold it, loaded from the tables R and L.
CompsIn(i, L) == {c \in Component : <<i, c>> \in L}

Current(copy, R, L) == copy.row = R[copy.id] /\ copy.comps = CompsIn(copy.id, L)

\* What the request has in hand is what the tables R and L hold, but for the
\* change it is about to write.
Synced(l, R, L) ==
    /\ l.pc \in LeaveLabel => Current(l.old, R, L)
    /\ l.pc \in {"firstStatus", "nextComponent", "move", "extractMove", "markSystem"} =>
          Current(l.new, R, L)
    /\ l.pc = "link" => /\ l.new.row = R[l.new.id]
                        /\ l.new.comps = CompsIn(l.new.id, L) \cup l.cur
    /\ l.pc \in {"move", "extractMove"} => l.old.id # l.new.id
    /\ l.pc = "patch" =>
          /\ l.new.comps = CompsIn(l.new.id, L)
          /\ \E t \in EventType, im \in Impact, s \in PatchStatus, d \in Dates :
                /\ PatchAccepted(R[l.new.id], t, im, s, d)
                /\ l.new.row = Patched(R[l.new.id], t, im, s, d)
    /\ \A o \in l.opened : Current(o, R, L) /\ (l.pc # "create" => o.id # l.new.id)

\* An id that is not in use has no relations.
NoStrays == \A i \in EventId \ events : CompsIn(i, link) = {}

SInv == NoStrays /\ \A r \in Request : Synced(req[r], row, link)

-----------------------------------------------------------------------------
(* Incidents without a schedule *)

\* The statuses an operator gives to an open incident as work goes on.
Progress == IncidentOpenStatus \ {IncidentImpactChanged}

\* No incident has an end date that is still ahead.
Unscheduled == \A i \in EventId : row[i].type = "incident" => row[i].dates \notin Window

\* The incidents a report has chosen are open.
ChosenOpen(l) ==
    l.kind \in Monitor =>
       /\ l.pc \in LeaveLabel => l.old.row.dates = "open"
       /\ l.pc \in {"link", "move"} => l.new.row.dates = "open"

UInv == Unscheduled /\ \A r \in Request : ChosenOpen(req[r])

OpenIncident(i) == i \in events /\ row[i].type = "incident" /\ row[i].dates = "open"

-----------------------------------------------------------------------------
(* One system incident per impact *)

SystemOpen(i, E, R) ==
    i \in E /\ R[i].type = "incident" /\ R[i].dates = "open" /\ R[i].system

OneSystem(E, R) ==
    \A i, j \in EventId :
       SystemOpen(i, E, R) /\ SystemOpen(j, E, R) /\ R[i].impact = R[j].impact => i = j

\* The request is about to make a system incident of its impact.
Making(l) ==
    \/ l.pc = "raise"
    \/ l.pc \in {"create", "extract", "extractMove", "markSystem"} /\ l.kind = "system"

\* There is no such incident yet.
NoneSuch(l, E, R) ==
    Making(l) => \A i \in EventId : SystemOpen(i, E, R) => R[i].impact # l.impact

OInv ==
    /\ OneSystem(events, row)
    /\ \A r \in Request : NoneSuch(req[r], events, row)

-----------------------------------------------------------------------------
(* One incident per component *)

\* The open incidents, and the components each event holds as one of them.
Open(E, R) == {i \in EventId : i \in E /\ R[i].type = "incident" /\ R[i].dates = "open"}

Places(E, R, L) == [i \in EventId |-> IF i \in Open(E, R) THEN CompsIn(i, L) ELSE {}]

\* The components the request has put in a second incident.
Moving(l) ==
    CASE l.kind = "regular" /\ l.pc \in {"firstStatus", "nextComponent", "move"} -> l.todo
      [] l.pc = "extractMove" -> l.cur
      [] OTHER -> {}

\* A component is in one open incident, but for the one it is moving to.
OnePlace(l, S) ==
    \A c \in Component, i, j \in EventId :
       c \in S[i] /\ c \in S[j] => i = j \/ (c \in Moving(l) /\ l.new.id \in {i, j})

\* A component that is about to be added to an incident is in no other.
Unplaced(l, S) ==
    l.pc \in {"matchTarget", "link"} \/ (l.pc = "create" /\ l.kind # "regular") =>
       \A c \in l.cur, i \in EventId : c \notin S[i]

\* A regular creation has loaded all the other open incidents, and those it
\* has closed since hold none of the components it has still to move.
AllLoaded(l, I) ==
    /\ l.kind = "regular" =>
          \A i \in I : (l.pc # "create" => i # l.new.id) => \E o \in l.opened : o.id = i
    /\ \A o \in l.opened : o.row.type = "incident" /\ o.row.dates # "open" =>
          o.comps \cap l.todo = {}

Alone(l, I, S) == OnePlace(l, S) /\ Unplaced(l, S) /\ AllLoaded(l, I)

PInv == \A r \in Request : Alone(req[r], Open(events, row), Places(events, row, link))

-----------------------------------------------------------------------------
(* What each action does to the request *)

\* What no step changes before the answer for the components dealt with.
Same(l, m) ==
    /\ l.kind = m.kind /\ l.type = m.type /\ l.impact = m.impact /\ l.dates = m.dates
    /\ l.todo = m.todo /\ l.opened = m.opened

\* The request m has dealt with the components cs and goes on as l.
GoesOn(l, m, cs) ==
    /\ ~(m.todo \subseteq cs)
    /\ l.kind = m.kind /\ l.type = m.type /\ l.impact = m.impact
    /\ l.dates = m.dates /\ l.opened = m.opened
    /\ l.todo = m.todo \ cs /\ l.cur = {} /\ l.old = NoCopy /\ l.closeOld = FALSE
    /\ \/ m.kind = "regular" /\ l.pc = "nextComponent" /\ l.new = m.new
       \/ m.kind # "regular" /\ l.pc = "findEvents" /\ l.new = NoCopy

LEMMA AnsweredDoes ==
  ASSUME IInv, NEW r \in Request, NEW cs
  PROVE  \/ Answered(r, cs) = Idle /\ req[r].todo \subseteq cs
         \/ GoesOn(Answered(r, cs), req[r], cs)
<1>1. CASE req[r].todo \ cs = {}
  <2>1. req[r].todo \subseteq cs
    BY <1>1
  <2>2. QED
    BY <1>1, <2>1 DEF Answered
<1>2. CASE req[r].todo \ cs # {}
  <2>1. ~(req[r].todo \subseteq cs)
    BY <1>2
  <2>2. QED
    BY <1>2, <2>1, LocalTyped DEF Answered, Local, GoesOn
<1>3. QED
  BY <1>1, <1>2

LEMMA SystemReportDoes ==
  ASSUME IInv, NEW r \in Request, SystemReport(r)
  PROVE  /\ UNCHANGED store
         /\ \E l \in Local :
              /\ req' = [req EXCEPT ![r] = l]
              /\ l.pc = "findEvents" /\ l.kind = "system" /\ l.type = "incident"
              /\ l.impact # 0 /\ l.dates = "open" /\ l.cur = {} /\ l.opened = {}
<1>1. PICK cs \in SUBSET Component, im \in Impact \ {0} :
         req' = [req EXCEPT ![r] = [Idle EXCEPT !.pc = "findEvents", !.kind = "system",
                                        !.impact = im, !.todo = cs]]
  BY DEF SystemReport, NonEmptySubsets
<1> DEFINE l == [Idle EXCEPT !.pc = "findEvents", !.kind = "system", !.impact = im, !.todo = cs]
<1>2. l \in Local
  BY IdleTyped DEF SystemReport, Local, Label, Idle
<1>3. /\ l.pc = "findEvents" /\ l.kind = "system" /\ l.type = "incident"
      /\ l.impact # 0 /\ l.dates = "open" /\ l.cur = {} /\ l.opened = {}
  BY DEF Idle
<1>4. req' = [req EXCEPT ![r] = l] /\ UNCHANGED store
  BY <1>1 DEF SystemReport
<1> HIDE DEF l
<1>5. QED
  BY <1>2, <1>3, <1>4

LEMMA FindEventsDoes ==
  ASSUME IInv, NEW r \in Request, FindEvents(r)
  PROVE  /\ req[r].pc = "findEvents" /\ UNCHANGED store
         /\ \E c \in req[r].todo :
              \/ /\ \A i \in Holding(c) : row[i].type = "info"
                 /\ \E l \in Local :
                      /\ req' = [req EXCEPT ![r] = l] /\ Same(l, req[r])
                      /\ l.pc = "matchTarget" /\ l.cur = {c} /\ l.new = req[r].new
              \/ /\ \E i \in Holding(c) :
                      \/ row[i].type = "maintenance"
                      \/ row[i].type = "incident" /\ ~row[i].system
                      \/ row[i].type = "incident" /\ BadEnough(i, req[r].impact)
                 /\ req' = [req EXCEPT ![r] = Answered(r, {c})]
              \/ \E i \in Holding(c) :
                   /\ row[i].type = "incident" /\ row[i].system
                   /\ ~BadEnough(i, req[r].impact)
                   /\ \E l \in Local :
                        /\ req' = [req EXCEPT ![r] = l] /\ Same(l, req[r])
                        /\ l.pc = "matchHigher" /\ l.cur = {c} /\ l.old = Load(i)
                        /\ l.closeOld = req[r].closeOld
<1>0. req[r].pc = "findEvents" /\ UNCHANGED store /\ req[r] \in Local
  BY LocalTyped DEF FindEvents, At
<1>1. PICK c \in req[r].todo :
        LET found == {i \in Holding(c) : row[i].type \in {"incident", "maintenance"}}
            others == {i \in found : row[i].type = "maintenance" \/ ~row[i].system}
        IN  \/ /\ found = {}
               /\ req' = [req EXCEPT ![r].pc = "matchTarget", ![r].cur = {c}]
            \/ /\ others # {} \/ \E i \in found : BadEnough(i, req[r].impact)
               /\ req' = [req EXCEPT ![r] = Answered(r, {c})]
            \/ /\ others = {}
               /\ \E i \in found :
                     /\ ~BadEnough(i, req[r].impact)
                     /\ req' = [req EXCEPT ![r].pc = "matchHigher", ![r].cur = {c},
                                           ![r].old = Load(i)]
  BY DEF FindEvents
<1>2. /\ c \in Component
      /\ \A i \in Holding(c) : Load(i) \in Copy /\ row[i].type \in EventType
  BY <1>0, LocalTyped, LoadTyped DEF Local, Holding, StoreTypeOK, Row
<1> DEFINE found == {i \in Holding(c) : row[i].type \in {"incident", "maintenance"}}
           others == {i \in found : row[i].type = "maintenance" \/ ~row[i].system}
<1>3. CASE /\ found = {}
           /\ req' = [req EXCEPT ![r].pc = "matchTarget", ![r].cur = {c}]
  <2> DEFINE l == [req[r] EXCEPT !.pc = "matchTarget", !.cur = {c}]
  <2>1. \A i \in Holding(c) : row[i].type = "info"
    BY <1>2, <1>3 DEF EventType
  <2>2. /\ l \in Local /\ Same(l, req[r]) /\ l.pc = "matchTarget" /\ l.cur = {c}
        /\ l.new = req[r].new
    BY <1>0, <1>2 DEF Local, Label, Same
  <2>3. req' = [req EXCEPT ![r] = l]
    BY <1>3
  <2> HIDE DEF l, found, others
  <2>4. QED
    BY <1>0, <2>1, <2>2, <2>3
<1>4. CASE /\ others # {} \/ \E i \in found : BadEnough(i, req[r].impact)
           /\ req' = [req EXCEPT ![r] = Answered(r, {c})]
  <2>1. \E i \in Holding(c) :
           \/ row[i].type = "maintenance"
           \/ row[i].type = "incident" /\ ~row[i].system
           \/ row[i].type = "incident" /\ BadEnough(i, req[r].impact)
    BY <1>4
  <2> HIDE DEF found, others
  <2>2. QED
    BY <1>0, <1>4, <2>1
<1>5. ASSUME NEW i \in found, others = {}, ~BadEnough(i, req[r].impact),
             req' = [req EXCEPT ![r].pc = "matchHigher", ![r].cur = {c}, ![r].old = Load(i)]
      PROVE  \E j \in Holding(c) :
               /\ row[j].type = "incident" /\ row[j].system
               /\ ~BadEnough(j, req[r].impact)
               /\ \E l \in Local :
                    /\ req' = [req EXCEPT ![r] = l] /\ Same(l, req[r])
                    /\ l.pc = "matchHigher" /\ l.cur = {c} /\ l.old = Load(j)
                    /\ l.closeOld = req[r].closeOld
  <2> DEFINE copy == Load(i)
             l == [req[r] EXCEPT !.pc = "matchHigher", !.cur = {c}, !.old = copy]
  <2>1. i \in Holding(c) /\ row[i].type = "incident" /\ row[i].system /\ copy \in Copy
    BY <1>2, <1>5
  <2>3. req' = [req EXCEPT ![r] = l]
    BY <1>5
  <2> HIDE DEF copy
  <2>2. /\ l \in Local /\ Same(l, req[r]) /\ l.pc = "matchHigher" /\ l.cur = {c}
        /\ l.old = copy /\ l.closeOld = req[r].closeOld
    BY <1>0, <1>2, <2>1 DEF Local, Label, Same
  <2> HIDE DEF l, found, others
  <2>4. QED
    BY <1>5, <2>1, <2>2, <2>3 DEF copy
<1>6. QED
  <2> HIDE DEF found, others
  <2> QED
    BY <1>0, <1>1, <1>3, <1>4, <1>5 DEF found, others

LEMMA MatchTargetDoes ==
  ASSUME IInv, NEW r \in Request, MatchTarget(r)
  PROVE  /\ req[r].pc = "matchTarget" /\ UNCHANGED store
         /\ \E l \in Local :
              /\ req' = [req EXCEPT ![r] = l] /\ Same(l, req[r]) /\ l.cur = req[r].cur
              /\ \/ /\ l.pc = "create" /\ SameImpact(r) = {}
                 \/ /\ l.pc = "link" /\ \E i \in SameImpact(r) : l.new = Joined(Load(i), l.cur)
<1>0. req[r].pc = "matchTarget" /\ UNCHANGED store /\ req[r] \in Local
  BY LocalTyped DEF MatchTarget, At
<1>1. CASE SameImpact(r) = {} /\ req' = [req EXCEPT ![r].pc = "create"]
  <2> DEFINE l == [req[r] EXCEPT !.pc = "create"]
  <2>1. l \in Local /\ Same(l, req[r]) /\ l.pc = "create" /\ l.cur = req[r].cur
    BY <1>0 DEF Local, Label, Same
  <2>2. req' = [req EXCEPT ![r] = l]
    BY <1>1
  <2> HIDE DEF l
  <2>3. QED
    BY <1>0, <1>1, <2>1, <2>2
<1>2. ASSUME NEW i \in SameImpact(r),
             req' = [req EXCEPT ![r].pc = "link", ![r].new = Joined(Load(i), req[r].cur)]
      PROVE  \E l \in Local :
               /\ req' = [req EXCEPT ![r] = l] /\ Same(l, req[r]) /\ l.cur = req[r].cur
               /\ l.pc = "link" /\ \E j \in SameImpact(r) : l.new = Joined(Load(j), l.cur)
  <2> DEFINE new == Joined(Load(i), req[r].cur)
             l == [req[r] EXCEPT !.pc = "link", !.new = new]
  <2>1. new \in Copy
    BY LocalTyped, LoadTyped DEF Joined, Copy, SameImpact
  <2>2. req' = [req EXCEPT ![r] = l]
    BY <1>2
  <2> HIDE DEF new
  <2>3. l \in Local /\ Same(l, req[r]) /\ l.pc = "link" /\ l.cur = req[r].cur /\ l.new = new
    BY <1>0, <2>1 DEF Local, Label, Same
  <2> HIDE DEF l
  <2>4. QED
    BY <2>2, <2>3 DEF new
<1>3. QED
  BY <1>0, <1>1, <1>2 DEF MatchTarget

LEMMA MatchHigherDoes ==
  ASSUME IInv, NEW r \in Request, MatchHigher(r)
  PROVE  /\ req[r].pc = "matchHigher" /\ UNCHANGED store
         /\ \E l \in Local :
              /\ req' = [req EXCEPT ![r] = l] /\ Same(l, req[r])
              /\ l.cur = req[r].cur /\ l.old = req[r].old
              /\ \/ /\ l.pc = "move" /\ \E i \in SameImpact(r) : l.new = Load(i)
                 \/ /\ SameImpact(r) = {}
                    /\ l.pc = IF OneComponent(l.old) THEN "raise" ELSE "extract"
<1>0. req[r].pc = "matchHigher" /\ UNCHANGED store /\ req[r] \in Local
  BY LocalTyped DEF MatchHigher, At
<1>1. CASE /\ SameImpact(r) = {}
           /\ req' = [req EXCEPT ![r].pc = IF OneComponent(req[r].old)
                                           THEN "raise" ELSE "extract"]
  <2> DEFINE pc == IF OneComponent(req[r].old) THEN "raise" ELSE "extract"
             l == [req[r] EXCEPT !.pc = pc]
  <2>1. req' = [req EXCEPT ![r] = l] /\ pc \in {"raise", "extract"}
    BY <1>1
  <2> HIDE DEF pc
  <2>2. l \in Local /\ Same(l, req[r]) /\ l.pc = pc /\ l.cur = req[r].cur /\ l.old = req[r].old
    BY <1>0, <2>1 DEF Local, Label, Same
  <2> HIDE DEF l
  <2>3. QED
    BY <1>0, <1>1, <2>1, <2>2 DEF pc
<1>2. ASSUME NEW i \in SameImpact(r),
             req' = [req EXCEPT ![r].pc = "move", ![r].new = Load(i),
                                ![r].closeOld = OneComponent(Load(i))]
      PROVE  \E l \in Local :
               /\ req' = [req EXCEPT ![r] = l] /\ Same(l, req[r])
               /\ l.cur = req[r].cur /\ l.old = req[r].old
               /\ l.pc = "move" /\ \E j \in SameImpact(r) : l.new = Load(j)
  <2> DEFINE new == Load(i)
             one == OneComponent(new)
             l == [req[r] EXCEPT !.pc = "move", !.new = new, !.closeOld = one]
  <2>1. new \in Copy /\ one \in BOOLEAN
    BY LocalTyped, LoadTyped DEF OneComponent, SameImpact
  <2>2. req' = [req EXCEPT ![r] = l]
    BY <1>2
  <2> HIDE DEF new, one
  <2>3. /\ l \in Local /\ Same(l, req[r]) /\ l.pc = "move" /\ l.cur = req[r].cur
        /\ l.old = req[r].old /\ l.new = new
    BY <1>0, <2>1 DEF Local, Label, Same
  <2> HIDE DEF l
  <2>4. QED
    BY <2>2, <2>3 DEF new
<1>3. QED
  BY <1>0, <1>1, <1>2 DEF MatchHigher

LEMMA RegularCreationDoes ==
  ASSUME IInv, NEW r \in Request, RegularCreation(r)
  PROVE  /\ UNCHANGED store
         /\ \E l \in Local :
              /\ req' = [req EXCEPT ![r] = l]
              /\ l.pc = "create" /\ l.kind = "regular" /\ l.cur = l.todo
              /\ (l.type = "incident") <=> (l.impact # 0)
              /\ l.type = "incident" => l.dates = "open"
              /\ l.type = "maintenance" => l.dates # "open"
              /\ l.opened = {Load(i) : i \in {j \in EventId : Active(j)}}
<1> DEFINE loaded == {Load(i) : i \in {j \in EventId : Active(j)}}
<1>1. loaded \in SUBSET Copy
  BY LocalTyped, LoadTyped
<1>2. "regular" \in Kinds /\ UNCHANGED store
  BY DEF RegularCreation
<1>3. PICK cs \in SUBSET Component, t \in NewTypes, im \in Impact, d \in Dates :
         /\ (t = "incident") <=> (im # 0)
         /\ t = "incident" => d = "open"
         /\ t = "maintenance" => d # "open"
         /\ req' = [req EXCEPT ![r] = [Idle EXCEPT
                    !.pc = "create", !.kind = "regular", !.type = t, !.impact = im,
                    !.dates = d, !.todo = cs, !.cur = cs, !.opened = loaded]]
  BY ZenonT(30) DEF RegularCreation, NonEmptySubsets
<1>4. t \in EventType
  BY NewTypesAssumption
<1> HIDE DEF loaded
<1> DEFINE l == [Idle EXCEPT
                    !.pc = "create", !.kind = "regular", !.type = t, !.impact = im,
                    !.dates = d, !.todo = cs, !.cur = cs, !.opened = loaded]
<1>5. l \in Local
  BY <1>1, <1>2, <1>4, IdleTyped DEF Local, Label, Idle
<1>6. /\ l.pc = "create" /\ l.kind = "regular" /\ l.type = t /\ l.impact = im /\ l.dates = d
      /\ l.todo = cs /\ l.cur = cs /\ l.opened = loaded
  BY DEF Idle
<1>7. req' = [req EXCEPT ![r] = l]
  BY <1>3
<1> HIDE DEF l
<1>8. /\ (l.type = "incident") <=> (l.impact # 0)
      /\ l.type = "incident" => l.dates = "open"
      /\ l.type = "maintenance" => l.dates # "open"
  BY <1>3, <1>6
<1>9. l.opened = {Load(i) : i \in {j \in EventId : Active(j)}}
  BY <1>6 DEF loaded
<1>10. QED
  BY <1>2, <1>5, <1>6, <1>7, <1>8, <1>9

LEMMA CreateDoes ==
  ASSUME IInv, NEW r \in Request, Create(r)
  PROVE  /\ req[r].pc = "create"
         /\ \E i \in EventId, e \in Row, l \in Local :
              /\ SaveIncident(i, e, req[r].cur)
              /\ e.type = req[r].type /\ e.system = (req[r].kind = "system")
              /\ e.impact = req[r].impact /\ e.dates = req[r].dates
              /\ req' = [req EXCEPT ![r] = l]
              /\ \/ req[r].kind = "v1" /\ l = Idle
                 \/ /\ req[r].kind # "v1" /\ Same(l, req[r]) /\ l.pc = "firstStatus"
                    /\ l.cur = req[r].cur
                    /\ l.new \in Copy /\ l.new.id = i /\ l.new.row = e /\ l.new.comps = l.cur
<1> DEFINE e == [type |-> req[r].type, system |-> req[r].kind = "system",
                 impact |-> req[r].impact, status |-> NoStatus, dates |-> req[r].dates]
<1>0. req[r].pc = "create" /\ req[r] \in Local
  BY LocalTyped DEF Create, At
<1>1. e \in Row
  BY LocalTyped, StatusTyped DEF Local, Row
<1>2. /\ e.type = req[r].type /\ e.system = (req[r].kind = "system")
      /\ e.impact = req[r].impact /\ e.dates = req[r].dates
  OBVIOUS
<1>3. PICK i \in EventId :
         /\ SaveIncident(i, e, req[r].cur)
         /\ req' = [req EXCEPT ![r] =
                      IF req[r].kind = "v1" THEN Idle
                      ELSE [@ EXCEPT !.pc = "firstStatus",
                                     !.new = [id |-> i, row |-> e, comps |-> req[r].cur]]]
  BY DEF Create
<1> HIDE DEF e
<1>4. CASE req[r].kind = "v1"
  <2>1. req' = [req EXCEPT ![r] = Idle]
    BY <1>3, <1>4
  <2>2. QED
    BY <1>0, <1>1, <1>2, <1>3, <1>4, <2>1, IdleTyped
<1>5. CASE req[r].kind # "v1"
  <2> DEFINE copy == [id |-> i, row |-> e, comps |-> req[r].cur]
             l == [req[r] EXCEPT !.pc = "firstStatus", !.new = copy]
  <2>1. copy \in Copy /\ copy.id = i /\ copy.row = e /\ copy.comps = req[r].cur
    BY <1>1, LocalTyped DEF Copy
  <2>2. req' = [req EXCEPT ![r] = l]
    BY <1>3, <1>5
  <2> HIDE DEF copy
  <2>3. /\ l \in Local /\ Same(l, req[r]) /\ l.pc = "firstStatus" /\ l.cur = req[r].cur
        /\ l.new = copy
    BY <1>0, <2>1 DEF Local, Label, Same
  <2> HIDE DEF l
  <2>4. /\ req[r].kind # "v1" /\ Same(l, req[r]) /\ l.pc = "firstStatus"
        /\ l.cur = req[r].cur
        /\ l.new \in Copy /\ l.new.id = i /\ l.new.row = e /\ l.new.comps = l.cur
    BY <1>5, <2>1, <2>3
  <2> HIDE DEF copy
  <2>5. SaveIncident(i, e, req[r].cur)
    BY <1>3
  <2>6. QED
    BY <1>0, <1>1, <1>2, <2>2, <2>3, <2>4, <2>5
<1>6. QED
  BY <1>4, <1>5

LEMMA FirstStatusDoes ==
  ASSUME IInv, NEW r \in Request, FirstStatus(r)
  PROVE  /\ req[r].pc = "firstStatus"
         /\ \E new \in Copy :
              /\ ModifyIncident(new)
              /\ new.id = req[r].new.id /\ new.comps = req[r].new.comps
              /\ new.row = [req[r].new.row EXCEPT !.status = InitialStatus(req[r].type)]
              /\ \/ /\ req[r].kind # "regular" \/ req[r].opened = {} \/ req[r].impact = 0
                    /\ req' = [req EXCEPT ![r] = Answered(r, req[r].cur)]
                 \/ /\ req[r].kind = "regular" /\ req[r].opened # {} /\ req[r].impact # 0
                    /\ \E l \in Local :
                         /\ req' = [req EXCEPT ![r] = l] /\ Same(l, req[r])
                         /\ l.pc = "nextComponent" /\ l.cur = {} /\ l.new = new
<1> DEFINE new == [req[r].new EXCEPT !.row.status = InitialStatus(req[r].type)]
<1>0. req[r].pc = "firstStatus" /\ req[r] \in Local /\ req[r].new \in Copy
  BY LocalTyped DEF FirstStatus, At, JoinLabel
<1>1. InitialStatus(req[r].type) \in Status
  BY LocalTyped, StatusTyped DEF Local
<1>2. /\ new \in Copy /\ new.id = req[r].new.id /\ new.comps = req[r].new.comps
      /\ new.row = [req[r].new.row EXCEPT !.status = InitialStatus(req[r].type)]
  BY <1>0, <1>1 DEF Copy, Row
<1>3. /\ ModifyIncident(new)
      /\ \/ /\ req[r].kind # "regular" \/ req[r].opened = {} \/ req[r].impact = 0
            /\ req' = [req EXCEPT ![r] = Answered(r, req[r].cur)]
         \/ /\ req[r].kind = "regular" /\ req[r].opened # {} /\ req[r].impact # 0
            /\ req' = [req EXCEPT ![r].pc = "nextComponent", ![r].cur = {}, ![r].new = new]
  BY DEF FirstStatus, Answer
<1> HIDE DEF new
<1>4. CASE /\ req[r].kind = "regular" /\ req[r].opened # {} /\ req[r].impact # 0
           /\ req' = [req EXCEPT ![r].pc = "nextComponent", ![r].cur = {}, ![r].new = new]
  <2> DEFINE l == [req[r] EXCEPT !.pc = "nextComponent", !.cur = {}, !.new = new]
  <2>1. l \in Local /\ Same(l, req[r]) /\ l.pc = "nextComponent" /\ l.cur = {} /\ l.new = new
    BY <1>0, <1>2 DEF Local, Label, Same
  <2>2. req' = [req EXCEPT ![r] = l]
    BY <1>4
  <2> HIDE DEF l
  <2>3. QED
    BY <1>0, <1>2, <1>3, <1>4, <2>1, <2>2
<1>5. QED
  BY <1>0, <1>2, <1>3, <1>4

LEMMA NextComponentDoes ==
  ASSUME IInv, NEW r \in Request, NextComponent(r)
  PROVE  /\ req[r].pc = "nextComponent" /\ UNCHANGED store
         /\ \E c \in req[r].todo :
              \/ /\ \A o \in req[r].opened : o.row.type = "incident" => c \notin o.comps
                 /\ req' = [req EXCEPT ![r] = Answered(r, {c})]
              \/ \E o \in req[r].opened, l \in Local :
                   /\ o.row.type = "incident" /\ c \in o.comps
                   /\ req' = [req EXCEPT ![r] = l] /\ Same(l, req[r])
                   /\ l.pc = "move" /\ l.cur = {c} /\ l.old = o /\ l.new = req[r].new
                   /\ l.closeOld = OneComponent(o)
<1>0. req[r].pc = "nextComponent" /\ UNCHANGED store /\ req[r] \in Local
  BY LocalTyped DEF NextComponent, At
<1>1. PICK c \in req[r].todo :
         LET holding == {o \in req[r].opened : o.row.type = "incident" /\ c \in o.comps}
         IN  \/ /\ holding = {}
                /\ req' = [req EXCEPT ![r] = Answered(r, {c})]
             \/ \E o \in holding :
                   req' = [req EXCEPT ![r].pc = "move", ![r].cur = {c}, ![r].old = o,
                                      ![r].closeOld = OneComponent(o)]
  BY DEF NextComponent
<1>2. ASSUME NEW o \in req[r].opened, o.row.type = "incident", c \in o.comps,
             req' = [req EXCEPT ![r].pc = "move", ![r].cur = {c}, ![r].old = o,
                                ![r].closeOld = OneComponent(o)]
      PROVE  \E l \in Local :
                   /\ req' = [req EXCEPT ![r] = l] /\ Same(l, req[r])
                   /\ l.pc = "move" /\ l.cur = {c} /\ l.old = o /\ l.new = req[r].new
                   /\ l.closeOld = OneComponent(o)
  <2> DEFINE one == OneComponent(o)
             l == [req[r] EXCEPT !.pc = "move", !.cur = {c}, !.old = o, !.closeOld = one]
  <2>1. o \in Copy /\ one \in BOOLEAN /\ c \in Component
    BY <1>0 DEF Local, OneComponent
  <2>2. req' = [req EXCEPT ![r] = l]
    BY <1>2
  <2> HIDE DEF one
  <2>3. /\ l \in Local /\ Same(l, req[r]) /\ l.pc = "move" /\ l.cur = {c} /\ l.old = o
        /\ l.new = req[r].new /\ l.closeOld = one
    BY <1>0, <2>1 DEF Local, Label, Same
  <2> HIDE DEF l
  <2>4. QED
    BY <2>2, <2>3 DEF one
<1> DEFINE holding == {o \in req[r].opened : o.row.type = "incident" /\ c \in o.comps}
<1>3. CASE holding = {} /\ req' = [req EXCEPT ![r] = Answered(r, {c})]
  <2>1. \A o \in req[r].opened : o.row.type = "incident" => c \notin o.comps
    BY <1>3
  <2>2. QED
    BY <1>0, <1>3, <2>1
<1>4. ASSUME NEW o \in holding,
             req' = [req EXCEPT ![r].pc = "move", ![r].cur = {c}, ![r].old = o,
                                ![r].closeOld = OneComponent(o)]
      PROVE  \E p \in req[r].opened, l \in Local :
                   /\ p.row.type = "incident" /\ c \in p.comps
                   /\ req' = [req EXCEPT ![r] = l] /\ Same(l, req[r])
                   /\ l.pc = "move" /\ l.cur = {c} /\ l.old = p /\ l.new = req[r].new
                   /\ l.closeOld = OneComponent(p)
  <2>1. o \in req[r].opened /\ o.row.type = "incident" /\ c \in o.comps
    BY <1>4
  <2>2. QED
    BY <1>2, <1>4, <2>1
<1>5. QED
  <2> HIDE DEF holding
  <2> QED
    BY <1>0, <1>1, <1>3, <1>4 DEF holding

LEMMA MoveDoes ==
  ASSUME IInv, CInv, NEW r \in Request, Move(r)
  PROVE  /\ req[r].pc = "move"
         /\ MoveComponents(req[r].cur, req[r].old, req[r].new, req[r].closeOld)
         /\ \/ /\ req[r].kind = "regular" => req[r].todo \subseteq req[r].cur
               /\ req' = [req EXCEPT ![r] = Answered(r, req[r].cur)]
            \/ /\ req[r].kind = "regular"
               /\ \E l \in Local :
                    /\ req' = [req EXCEPT ![r] = l]
                    /\ l.kind = req[r].kind /\ l.type = req[r].type /\ l.impact = req[r].impact
                    /\ l.dates = req[r].dates /\ l.pc = "nextComponent" /\ l.cur = {}
                    /\ l.todo = req[r].todo \ req[r].cur /\ l.new = req[r].new
                    /\ l.opened = (req[r].opened \ {req[r].old})
                                     \cup {Left(req[r].cur, req[r].old, req[r].closeOld)}
<1> DEFINE m == req[r]
           left == Left(m.cur, m.old, m.closeOld)
<1>0. /\ m.pc = "move" /\ MoveComponents(m.cur, m.old, m.new, m.closeOld)
      /\ m \in Local /\ m.old \in Copy /\ m.closeOld \in BOOLEAN
  BY LocalTyped DEF Move, At, LeaveLabel, Local
<1>1. left \in Copy
  BY <1>0, LocalTyped, LeftTyped
<1>2. \/ /\ ~(m.kind = "regular" /\ m.todo # m.cur)
         /\ req' = [req EXCEPT ![r] = Answered(r, m.cur)]
      \/ /\ m.kind = "regular" /\ m.todo # m.cur
         /\ req' = [req EXCEPT ![r] = [Answered(r, m.cur) EXCEPT
                                          !.opened = (@ \ {m.old}) \cup {left}]]
  BY DEF Move
<1>3. CASE /\ m.kind = "regular" /\ m.todo # m.cur
           /\ req' = [req EXCEPT ![r] = [Answered(r, m.cur) EXCEPT
                                          !.opened = (@ \ {m.old}) \cup {left}]]
  <2> DEFINE a == Answered(r, m.cur)
             opened == (m.opened \ {m.old}) \cup {left}
             l == [a EXCEPT !.opened = opened]
  <2>1. m.cur \subseteq m.todo
    BY DEF CInv, Chosen, CompsFit
  <2>2. ~(m.todo \subseteq m.cur)
    BY <1>3, <2>1
  <2>3. /\ a \in Local /\ a.kind = m.kind /\ a.type = m.type /\ a.impact = m.impact
        /\ a.dates = m.dates /\ a.pc = "nextComponent" /\ a.cur = {} /\ a.opened = m.opened
        /\ a.todo = m.todo \ m.cur /\ a.new = m.new
    <3>1. a \in Local
      BY <1>0, AnsweredTyped, LocalTyped DEF JoinLabel
    <3>2. (a = Idle /\ m.todo \subseteq m.cur) \/ GoesOn(a, m, m.cur)
      BY AnsweredDoes
    <3> HIDE DEF a
    <3>3. QED
      BY <1>3, <2>2, <3>1, <3>2 DEF GoesOn
  <2>4. opened \in SUBSET Copy
    BY <1>0, <1>1 DEF Local
  <2>5. req' = [req EXCEPT ![r] = l]
    <3>1. req' = [req EXCEPT ![r] = [a EXCEPT !.opened = (a.opened \ {m.old}) \cup {left}]]
      BY <1>3
    <3> HIDE DEF a, left
    <3>2. QED
      BY <2>3, <3>1
  <2> HIDE DEF opened, a
  <2>6. /\ l \in Local /\ l.kind = m.kind /\ l.type = m.type /\ l.impact = m.impact
        /\ l.dates = m.dates /\ l.pc = "nextComponent" /\ l.cur = {}
        /\ l.todo = m.todo \ m.cur /\ l.new = m.new /\ l.opened = opened
    BY <2>3, <2>4 DEF Local, Label
  <2> HIDE DEF l
  <2>7. QED
    BY <1>0, <1>3, <2>5, <2>6 DEF opened
<1>4. CASE /\ ~(m.kind = "regular" /\ m.todo # m.cur)
           /\ req' = [req EXCEPT ![r] = Answered(r, m.cur)]
  BY <1>0, <1>4
<1>5. QED
  BY <1>2, <1>3, <1>4

LEMMA ExtractDoes ==
  ASSUME IInv, NEW r \in Request, Extract(r)
  PROVE  /\ req[r].pc = "extract"
         /\ \E i \in EventId, e \in Row, l \in Local :
              /\ SaveIncident(i, e, req[r].cur)
              /\ e.type = "incident" /\ ~e.system /\ e.impact = req[r].impact
              /\ e.dates = "open"
              /\ req' = [req EXCEPT ![r] = l] /\ Same(l, req[r]) /\ l.pc = "extractMove"
              /\ l.cur = req[r].cur /\ l.old = req[r].old
              /\ l.new \in Copy /\ l.new.id = i /\ l.new.row = e /\ l.new.comps = l.cur
<1> DEFINE e == [type |-> "incident", system |-> FALSE, impact |-> req[r].impact,
                 status |-> NoStatus, dates |-> "open"]
<1>0. req[r].pc = "extract" /\ req[r] \in Local
  BY LocalTyped DEF Extract, At
<1>1. e \in Row
  BY LocalTyped, StatusTyped DEF Local, Row, EventType, Dates
<1>2. /\ e.type = "incident" /\ ~e.system /\ e.impact = req[r].impact
      /\ e.dates = "open"
  OBVIOUS
<1>3. PICK i \in EventId :
         /\ SaveIncident(i, e, req[r].cur)
         /\ req' = [req EXCEPT ![r].pc = "extractMove",
                            ![r].new = [id |-> i, row |-> e, comps |-> req[r].cur]]
  BY DEF Extract
<1> HIDE DEF e
<1> DEFINE copy == [id |-> i, row |-> e, comps |-> req[r].cur]
           l == [req[r] EXCEPT !.pc = "extractMove", !.new = copy]
<1>4. copy \in Copy /\ copy.id = i /\ copy.row = e /\ copy.comps = req[r].cur
  BY <1>1, LocalTyped DEF Copy
<1>5. req' = [req EXCEPT ![r] = l]
  BY <1>3
<1> HIDE DEF copy
<1>6. /\ l \in Local /\ Same(l, req[r]) /\ l.pc = "extractMove" /\ l.cur = req[r].cur
      /\ l.old = req[r].old /\ l.new = copy
  BY <1>0, <1>4 DEF Local, Label, Same
<1> HIDE DEF l
<1>7. l.new \in Copy /\ l.new.id = i /\ l.new.row = e /\ l.new.comps = l.cur
  BY <1>4, <1>6
<1>8. SaveIncident(i, e, req[r].cur)
  BY <1>3
<1>9. QED
  BY <1>0, <1>1, <1>2, <1>5, <1>6, <1>7, <1>8

LEMMA ExtractMoveDoes ==
  ASSUME IInv, NEW r \in Request, ExtractMove(r)
  PROVE  /\ req[r].pc = "extractMove"
         /\ MoveComponents(req[r].cur, req[r].old, req[r].new, FALSE)
         /\ \/ /\ req[r].kind # "system" /\ req' = [req EXCEPT ![r] = Answered(r, req[r].cur)]
            \/ /\ req[r].kind = "system"
               /\ \E l \in Local :
                    /\ req' = [req EXCEPT ![r] = l] /\ Same(l, req[r]) /\ l.pc = "markSystem"
                    /\ l.cur = req[r].cur /\ l.new = req[r].new
<1>0. /\ req[r].pc = "extractMove" /\ req[r] \in Local
      /\ MoveComponents(req[r].cur, req[r].old, req[r].new, FALSE)
  BY LocalTyped DEF ExtractMove, At
<1> DEFINE l == [req[r] EXCEPT !.pc = "markSystem"]
<1>1. /\ l \in Local /\ Same(l, req[r]) /\ l.pc = "markSystem"
      /\ l.cur = req[r].cur /\ l.new = req[r].new
  BY <1>0 DEF Local, Label, Same
<1>2. \/ req[r].kind # "system" /\ req' = [req EXCEPT ![r] = Answered(r, req[r].cur)]
      \/ req[r].kind = "system" /\ req' = [req EXCEPT ![r] = l]
  BY DEF ExtractMove, Answer
<1> HIDE DEF l
<1>3. QED
  BY <1>0, <1>1, <1>2

\* The active events with impact im, whatever their origin.
Alike(im) == {i \in EventId : Active(i) /\ row[i].impact = im}

LEMMA V1ReportDoes ==
  ASSUME IInv, NEW r \in Request, V1Report(r)
  PROVE  /\ UNCHANGED store
         /\ \E c \in Component, l \in Local :
              /\ req' = [req EXCEPT ![r] = l]
              /\ l.kind = "v1" /\ l.type = "incident" /\ l.impact # 0 /\ l.dates = "open"
              /\ l.todo = {c} /\ l.cur = {c} /\ l.opened = {}
              /\ \/ /\ Holding(c) = {} /\ l.pc = "link"
                    /\ \E i \in Alike(l.impact) : l.new = Joined(Load(i), l.cur)
                 \/ Holding(c) = {} /\ Alike(l.impact) = {} /\ l.pc = "create"
                 \/ \E o \in Holding(c) :
                      /\ row[o].impact # 0 /\ ~BadEnough(o, l.impact) /\ l.old = Load(o)
                      /\ \/ /\ l.pc = "move" /\ l.closeOld = OneComponent(l.old)
                            /\ \E i \in Alike(l.impact) : l.new = Load(i)
                         \/ /\ Alike(l.impact) = {}
                            /\ l.pc = IF OneComponent(l.old) THEN "raise" ELSE "extract"
<1>0. "v1" \in Kinds /\ UNCHANGED store
  BY DEF V1Report
<1>1. PICK c \in Component, im \in Impact \ {0} :
        LET same == Alike(im)
            goto(pc, old, new) == req' = [req EXCEPT ![r] = V1Local(c, im, pc, old, new)]
        IN  \/ /\ Holding(c) = {}
               /\ \/ \E i \in same : goto("link", NoCopy, Joined(Load(i), {c}))
                  \/ same = {} /\ goto("create", NoCopy, NoCopy)
            \/ \E o \in Holding(c) :
                  /\ row[o].impact # 0 /\ ~BadEnough(o, im)
                  /\ \/ \E i \in same : goto("move", Load(o), Load(i))
                     \/ same = {} /\ goto(IF OneComponent(Load(o))
                                          THEN "raise" ELSE "extract", Load(o), NoCopy)
  BY ZenonT(60) DEF V1Report, Alike
<1> DEFINE same == Alike(im)
<1>2. ASSUME NEW pc \in {"link", "create", "move", "raise", "extract"},
             NEW old \in Copy \cup {NoCopy}, NEW new \in Copy \cup {NoCopy}
      PROVE  LET l == V1Local(c, im, pc, old, new)
             IN  /\ l \in Local /\ l.pc = pc /\ l.kind = "v1" /\ l.type = "incident"
                 /\ l.impact = im /\ l.dates = "open" /\ l.todo = {c} /\ l.cur = {c}
                 /\ l.opened = {} /\ l.old = old /\ l.new = new
                 /\ pc = "move" => l.closeOld = OneComponent(old)
  <2>1. OneComponent(old) \in BOOLEAN
    BY DEF OneComponent
  <2> DEFINE one == pc = "move" /\ OneComponent(old)
             l == [Idle EXCEPT !.pc = pc, !.kind = "v1", !.impact = im, !.todo = {c},
                               !.cur = {c}, !.old = old, !.new = new, !.closeOld = one]
  <2>2. one \in BOOLEAN /\ (pc = "move" => one = OneComponent(old))
    BY <2>1
  <2>3. V1Local(c, im, pc, old, new) = l
    BY DEF V1Local
  <2> HIDE DEF one
  <2>4. /\ l \in Local /\ l.pc = pc /\ l.kind = "v1" /\ l.type = "incident"
        /\ l.impact = im /\ l.dates = "open" /\ l.todo = {c} /\ l.cur = {c}
        /\ l.opened = {} /\ l.old = old /\ l.new = new /\ l.closeOld = one
    BY <1>0, <2>2, IdleTyped DEF Local, Label, Idle
  <2>5. QED
    BY <2>2, <2>3, <2>4
<1>3. \A i \in EventId : Load(i) \in Copy /\ Joined(Load(i), {c}) \in Copy
  BY LocalTyped, LoadTyped DEF Joined, Copy
<1>4. Holding(c) \subseteq EventId /\ same \subseteq EventId
  BY DEF Holding, Alike
<1> HIDE DEF same
<1> DEFINE Goal(l) ==
          /\ req' = [req EXCEPT ![r] = l]
          /\ l.kind = "v1" /\ l.type = "incident" /\ l.impact # 0 /\ l.dates = "open"
          /\ l.todo = {c} /\ l.cur = {c} /\ l.opened = {}
          /\ \/ /\ Holding(c) = {} /\ l.pc = "link"
                /\ \E i \in Alike(l.impact) : l.new = Joined(Load(i), l.cur)
             \/ Holding(c) = {} /\ Alike(l.impact) = {} /\ l.pc = "create"
             \/ \E o \in Holding(c) :
                  /\ row[o].impact # 0 /\ ~BadEnough(o, l.impact) /\ l.old = Load(o)
                  /\ \/ /\ l.pc = "move" /\ l.closeOld = OneComponent(l.old)
                        /\ \E i \in Alike(l.impact) : l.new = Load(i)
                     \/ /\ Alike(l.impact) = {}
                        /\ l.pc = IF OneComponent(l.old) THEN "raise" ELSE "extract"
<1>5. ASSUME NEW i \in same, Holding(c) = {},
             req' = [req EXCEPT ![r] = V1Local(c, im, "link", NoCopy, Joined(Load(i), {c}))]
      PROVE  \E l \in Local : Goal(l)
  <2> DEFINE new == Joined(Load(i), {c})
             l == V1Local(c, im, "link", NoCopy, new)
  <2>0. new \in Copy
    BY <1>3, <1>4
  <2> HIDE DEF new
  <2>1. /\ l \in Local /\ l.pc = "link" /\ l.kind = "v1" /\ l.type = "incident"
        /\ l.impact = im /\ l.dates = "open" /\ l.todo = {c} /\ l.cur = {c}
        /\ l.opened = {} /\ l.new = new
    BY <1>2, <2>0
  <2>2. req' = [req EXCEPT ![r] = l]
    BY <1>5 DEF new
  <2> HIDE DEF l
  <2>3. Goal(l)
    BY <1>5, <2>1, <2>2 DEF same, new
  <2> HIDE DEF Goal
  <2>4. QED
    BY <2>1, <2>3
<1>6. ASSUME Holding(c) = {}, same = {},
             req' = [req EXCEPT ![r] = V1Local(c, im, "create", NoCopy, NoCopy)]
      PROVE  \E l \in Local : Goal(l)
  <2> DEFINE l == V1Local(c, im, "create", NoCopy, NoCopy)
  <2>1. /\ l \in Local /\ l.pc = "create" /\ l.kind = "v1" /\ l.type = "incident"
        /\ l.impact = im /\ l.dates = "open" /\ l.todo = {c} /\ l.cur = {c}
        /\ l.opened = {}
    BY <1>2
  <2>2. req' = [req EXCEPT ![r] = l]
    BY <1>6
  <2> HIDE DEF l
  <2>3. Goal(l)
    BY <1>6, <2>1, <2>2 DEF same
  <2> HIDE DEF Goal
  <2>4. QED
    BY <2>1, <2>3
<1>7. ASSUME NEW o \in Holding(c), NEW i \in same, row[o].impact # 0, ~BadEnough(o, im),
             req' = [req EXCEPT ![r] = V1Local(c, im, "move", Load(o), Load(i))]
      PROVE  \E l \in Local : Goal(l)
  <2> DEFINE l == V1Local(c, im, "move", Load(o), Load(i))
  <2>1. /\ l \in Local /\ l.pc = "move" /\ l.kind = "v1" /\ l.type = "incident"
        /\ l.impact = im /\ l.dates = "open" /\ l.todo = {c} /\ l.cur = {c}
        /\ l.opened = {} /\ l.old = Load(o) /\ l.new = Load(i)
        /\ l.closeOld = OneComponent(Load(o))
    BY <1>2, <1>3, <1>4
  <2>2. req' = [req EXCEPT ![r] = l]
    BY <1>7
  <2> HIDE DEF l
  <2>3. Goal(l)
    BY <1>7, <2>1, <2>2 DEF same
  <2> HIDE DEF Goal
  <2>4. QED
    BY <2>1, <2>3
<1>8. ASSUME NEW o \in Holding(c), same = {}, row[o].impact # 0, ~BadEnough(o, im),
             NEW pc \in {"raise", "extract"},
             pc = IF OneComponent(Load(o)) THEN "raise" ELSE "extract",
             req' = [req EXCEPT ![r] = V1Local(c, im, pc, Load(o), NoCopy)]
      PROVE  \E l \in Local : Goal(l)
  <2> DEFINE l == V1Local(c, im, pc, Load(o), NoCopy)
  <2>1. /\ l \in Local /\ l.pc = pc /\ l.kind = "v1" /\ l.type = "incident"
        /\ l.impact = im /\ l.dates = "open" /\ l.todo = {c} /\ l.cur = {c}
        /\ l.opened = {} /\ l.old = Load(o)
    BY <1>2, <1>3, <1>4
  <2>2. req' = [req EXCEPT ![r] = l]
    BY <1>8
  <2> HIDE DEF l
  <2>3. Goal(l)
    BY <1>8, <2>1, <2>2 DEF same
  <2> HIDE DEF Goal
  <2>4. QED
    BY <2>1, <2>3
<1>9. \E l \in Local : Goal(l)
  <2> HIDE DEF Goal
  <2> QED
    BY <1>1, <1>5, <1>6, <1>7, <1>8 DEF same
<1>10. QED
  BY <1>0, <1>9

\* An extraction that lists one component leaves one behind.
LEMMA ExtractRequestDoes ==
  ASSUME IInv, NEW r \in Request, ExtractRequest(r)
  PROVE  /\ UNCHANGED store
         /\ \E i \in events, l \in Local :
              /\ req' = [req EXCEPT ![r] = l]
              /\ l.pc = "extract" /\ l.kind = "extract" /\ l.todo = l.cur
              /\ l.cur \subseteq ComponentsOf(i) /\ l.old = Load(i) /\ l.opened = {}
              /\ MaxEntries <= 1 => l.cur # ComponentsOf(i)
<1>1. "extract" \in Kinds /\ UNCHANGED store
  BY DEF ExtractRequest
<1> DEFINE asked(i, cs) == [Idle EXCEPT
                    !.pc = "extract", !.kind = "extract", !.impact = row[i].impact,
                    !.todo = cs, !.cur = cs, !.old = Load(i)]
<1>2. \E i \in events : \E cs \in NonEmptySubsets(ComponentsOf(i)) : \E n \in 1..MaxEntries :
         /\ n >= Cardinality(cs)
         /\ n # Cardinality(ComponentsOf(i))
         /\ req' = [req EXCEPT ![r] = asked(i, cs)]
  BY DEF ExtractRequest
<1> HIDE DEF asked
<1>3. PICK i \in events : \E cs \in NonEmptySubsets(ComponentsOf(i)) : \E n \in 1..MaxEntries :
         /\ n >= Cardinality(cs)
         /\ n # Cardinality(ComponentsOf(i))
         /\ req' = [req EXCEPT ![r] = asked(i, cs)]
  BY <1>2
<1>4. PICK cs \in NonEmptySubsets(ComponentsOf(i)) : \E n \in 1..MaxEntries :
         /\ n >= Cardinality(cs)
         /\ n # Cardinality(ComponentsOf(i))
         /\ req' = [req EXCEPT ![r] = asked(i, cs)]
  BY <1>3
<1>5. PICK n \in 1..MaxEntries :
         /\ n >= Cardinality(cs)
         /\ n # Cardinality(ComponentsOf(i))
         /\ req' = [req EXCEPT ![r] = asked(i, cs)]
  BY <1>4
<1>6. cs \subseteq ComponentsOf(i) /\ cs # {} /\ ComponentsOf(i) \subseteq Component
  BY DEF NonEmptySubsets, ComponentsOf
<1>7. ASSUME MaxEntries <= 1, cs = ComponentsOf(i) PROVE FALSE
  <2>1. IsFiniteSet(cs)
    BY <1>6, ComponentAssumption, FS_Subset
  <2>2. Cardinality(cs) \in Nat /\ Cardinality(cs) # 0
    BY <1>6, <2>1, FS_CardinalityType, FS_EmptySet
  <2>3. n = 1
    BY <1>7, MaxEntriesAssumption
  <2>4. QED
    BY <1>5, <1>7, <2>2, <2>3
<1>8. i \in EventId /\ row[i].impact \in Impact /\ Load(i) \in Copy
  BY LocalTyped, LoadTyped DEF StoreTypeOK, Row
<1> DEFINE l == asked(i, cs)
<1>9. /\ l \in Local /\ l.pc = "extract" /\ l.kind = "extract" /\ l.todo = cs /\ l.cur = cs
      /\ l.old = Load(i) /\ l.opened = {}
  BY <1>1, <1>6, <1>8, IdleTyped DEF asked, Local, Label, Idle
<1> HIDE DEF l
<1>10. req' = [req EXCEPT ![r] = l]
  BY <1>5 DEF l
<1>11. MaxEntries <= 1 => l.cur # ComponentsOf(i)
  BY <1>7, <1>9
<1>12. QED
  BY <1>1, <1>6, <1>9, <1>10, <1>11

\* The request has loaded event i and holds it patched.
Asks(l, i, t, im, s, d) ==
    /\ PatchAccepted(row[i], t, im, s, d)
    /\ l.pc = "patch" /\ l.kind = "patch" /\ l.todo = {} /\ l.cur = {} /\ l.opened = {}
    /\ l.new \in Copy /\ l.new.id = i /\ l.new.comps = ComponentsOf(i)
    /\ l.new.row = Patched(row[i], t, im, s, d)

LEMMA PatchRequestDoes ==
  ASSUME IInv, NEW r \in Request, PatchRequest(r)
  PROVE  /\ UNCHANGED store
         /\ \E i \in events, t \in EventType, im \in Impact, s \in PatchStatus, d \in Dates,
               l \in Local : Asks(l, i, t, im, s, d) /\ req' = [req EXCEPT ![r] = l]
<1>1. "patch" \in Kinds /\ UNCHANGED store
  BY DEF PatchRequest
<1>2. PICK i \in events, im \in Impact, s \in PatchStatus, d \in Dates :
        \E t \in NewTypes \cup {row[i].type} :
          /\ PatchAccepted(row[i], t, im, s, d)
          /\ req' = [req EXCEPT ![r] = [Idle EXCEPT
                        !.pc = "patch", !.kind = "patch",
                        !.new = [Load(i) EXCEPT !.row = Patched(row[i], t, im, s, d)]]]
  BY ZenonT(30) DEF PatchRequest
<1>3. PICK t \in NewTypes \cup {row[i].type} :
        /\ PatchAccepted(row[i], t, im, s, d)
        /\ req' = [req EXCEPT ![r] = [Idle EXCEPT
                   !.pc = "patch", !.kind = "patch",
                   !.new = [Load(i) EXCEPT !.row = Patched(row[i], t, im, s, d)]]]
  BY <1>2
<1>4. i \in EventId /\ row[i] \in Row /\ s \in Status
  BY LocalTyped, PatchStatusAssumption DEF StoreTypeOK
<1>5. t \in EventType
  BY <1>4, NewTypesAssumption DEF Row
<1> DEFINE e == Patched(row[i], t, im, s, d)
           new == [Load(i) EXCEPT !.row = e]
           l == [Idle EXCEPT !.pc = "patch", !.kind = "patch", !.new = new]
<1>6. e \in Row
  BY <1>4, <1>5, PatchedTyped
<1>7. req' = [req EXCEPT ![r] = l]
  BY <1>3
<1> HIDE DEF e
<1>8. new \in Copy /\ new.id = i /\ new.comps = ComponentsOf(i) /\ new.row = e
  BY <1>4, <1>6, LocalTyped, LoadTyped DEF Copy, Load
<1> HIDE DEF new
<1>9. /\ l \in Local /\ l.pc = "patch" /\ l.kind = "patch" /\ l.todo = {} /\ l.cur = {}
      /\ l.opened = {} /\ l.new = new
  BY <1>1, <1>8, IdleTyped DEF Local, Label, Idle
<1> HIDE DEF l
<1>10. l.new.row = Patched(row[i], t, im, s, d) /\ PatchAccepted(row[i], t, im, s, d)
  BY <1>3, <1>8, <1>9 DEF e
<1>11. Asks(l, i, t, im, s, d)
  BY <1>8, <1>9, <1>10 DEF Asks
<1>12. QED
  BY <1>1, <1>5, <1>7, <1>9, <1>11

LEMMA PatchDoes ==
  ASSUME IInv, NEW r \in Request, Patch(r)
  PROVE  /\ req[r].pc = "patch" /\ req[r].new \in Copy /\ ModifyIncident(req[r].new)
         /\ \/ req' = [req EXCEPT ![r] = Idle]
            \/ /\ req[r].new.row.status = "reopened"
               /\ \E l \in Local :
                    /\ req' = [req EXCEPT ![r] = l] /\ Same(l, req[r]) /\ l.pc = "reopen"
                    /\ l.cur = req[r].cur /\ l.new = req[r].new
<1>0. req[r].pc = "patch" /\ req[r] \in Local /\ req[r].new \in Copy /\ ModifyIncident(req[r].new)
  BY LocalTyped DEF Patch, At, JoinLabel
<1> DEFINE l == [req[r] EXCEPT !.pc = "reopen"]
<1>1. /\ l \in Local /\ Same(l, req[r]) /\ l.pc = "reopen"
      /\ l.cur = req[r].cur /\ l.new = req[r].new
  BY <1>0 DEF Local, Label, Same
<1>2. \/ req' = [req EXCEPT ![r] = Idle]
      \/ req[r].new.row.status = "reopened" /\ req' = [req EXCEPT ![r] = l]
  BY DEF Patch
<1> HIDE DEF l
<1>3. QED
  BY <1>0, <1>1, <1>2

-----------------------------------------------------------------------------
(* The choices of each action *)

LEMMA IdleChosen == Chosen(Idle)
  BY NoCopyAssumption
  DEF Chosen, KindFits, CompsFit, LeftFits, JoinedFits, Idle, LeaveLabel, Monitor

\* The invariant is kept by a step of r to a local state with such choices.
LEMMA ChosenStep ==
  ASSUME IInv, CInv, NEW r \in Request, NEW l, Chosen(l), req' = [req EXCEPT ![r] = l]
  PROVE  CInv'
<1>1. ASSUME NEW q \in Request PROVE Chosen(req'[q])
  <2>1. req'[q] = IF q = r THEN l ELSE req[q]
    BY DEF IInv, TypeOK
  <2>2. QED
    BY <2>1 DEF CInv
<1>2. QED
  BY <1>1 DEF CInv

\* The facts about the choices of request r, with those of LocalTyped.
LEMMA ReqChosen ==
  ASSUME CInv, NEW r \in Request
  PROVE  KindFits(req[r]) /\ CompsFit(req[r]) /\ LeftFits(req[r]) /\ JoinedFits(req[r])
  BY DEF CInv, Chosen

LEMMA AnsweredChosen ==
  ASSUME IInv, CInv, NEW r \in Request, NEW cs,
         req[r].pc \notin {"idle", "patch", "reopen", "create"},
         req[r].pc \notin {"findEvents", "nextComponent"} => cs = req[r].cur
  PROVE  Chosen(Answered(r, cs))
<1> DEFINE m == req[r]
           l == Answered(r, cs)
<1>1. m \in Local /\ KindFits(m) /\ CompsFit(m) /\ LeftFits(m) /\ JoinedFits(m)
  BY LocalTyped, ReqChosen
<1>2. l = Idle \/ GoesOn(l, m, cs)
  BY AnsweredDoes
<1>3. CASE GoesOn(l, m, cs)
  <2>0. m.pc \notin {"idle", "patch", "reopen", "create"}
        /\ (m.pc \notin {"findEvents", "nextComponent"} => cs = m.cur)
    OBVIOUS
  <2>1. m.pc \in Label
    BY <1>1 DEF Local
  <2> HIDE DEF l, m
  <2>2. m.kind \in {"system", "regular"}
        /\ (m.kind = "regular" => m.pc \in {"nextComponent", "move"})
    BY <1>1, <1>3, <2>0, <2>1 DEF KindFits, CompsFit, GoesOn, Monitor, Label
  <2>3. KindFits(l)
    BY <1>3, <2>2 DEF KindFits, GoesOn
  <2>4. CompsFit(l)
    BY <1>1, <1>3, <2>2 DEF CompsFit, GoesOn
  <2>5. LeftFits(l)
    BY <1>3 DEF LeftFits, GoesOn, LeaveLabel
  <2>6. JoinedFits(l)
    BY <1>1, <1>3, <2>2 DEF JoinedFits, GoesOn, Monitor
  <2>7. QED
    BY <2>3, <2>4, <2>5, <2>6 DEF Chosen, l
<1>4. QED
  BY <1>2, <1>3, IdleChosen

LEMMA SystemReportChosen ==
  ASSUME IInv, CInv, NEW r \in Request, SystemReport(r)
  PROVE  CInv'
<1>1. PICK l \in Local :
        /\ req' = [req EXCEPT ![r] = l]
        /\ l.pc = "findEvents" /\ l.kind = "system" /\ l.type = "incident"
        /\ l.impact # 0 /\ l.dates = "open" /\ l.cur = {} /\ l.opened = {}
  BY SystemReportDoes
<1>2. KindFits(l) /\ CompsFit(l) /\ LeftFits(l) /\ JoinedFits(l)
  BY <1>1 DEF KindFits, CompsFit, LeftFits, JoinedFits, LeaveLabel, Monitor
<1>3. QED
  BY <1>1, <1>2, ChosenStep DEF Chosen

LEMMA FindEventsChosen ==
  ASSUME IInv, CInv, NEW r \in Request, FindEvents(r)
  PROVE  CInv'
<1> DEFINE m == req[r]
<1>0. /\ m.pc = "findEvents" /\ m.kind = "system"
      /\ KindFits(m) /\ CompsFit(m) /\ LeftFits(m) /\ JoinedFits(m)
  BY FindEventsDoes, ReqChosen DEF KindFits
<1>1. PICK c \in m.todo :
              \/ /\ \A i \in Holding(c) : row[i].type = "info"
                 /\ \E l \in Local :
                      /\ req' = [req EXCEPT ![r] = l] /\ Same(l, req[r])
                      /\ l.pc = "matchTarget" /\ l.cur = {c} /\ l.new = req[r].new
              \/ /\ \E i \in Holding(c) :
                      \/ row[i].type = "maintenance"
                      \/ row[i].type = "incident" /\ ~row[i].system
                      \/ row[i].type = "incident" /\ BadEnough(i, req[r].impact)
                 /\ req' = [req EXCEPT ![r] = Answered(r, {c})]
              \/ \E i \in Holding(c) :
                   /\ row[i].type = "incident" /\ row[i].system
                   /\ ~BadEnough(i, req[r].impact)
                   /\ \E l \in Local :
                        /\ req' = [req EXCEPT ![r] = l] /\ Same(l, req[r])
                        /\ l.pc = "matchHigher" /\ l.cur = {c} /\ l.old = Load(i)
                        /\ l.closeOld = req[r].closeOld
  BY FindEventsDoes
<1>2. ASSUME NEW l \in Local, req' = [req EXCEPT ![r] = l], Same(l, m),
             l.pc = "matchTarget", l.cur = {c}
      PROVE  CInv'
  <2> HIDE DEF m
  <2>1. KindFits(l) /\ CompsFit(l) /\ LeftFits(l) /\ JoinedFits(l)
    BY <1>0, <1>2 DEF KindFits, CompsFit, LeftFits, JoinedFits, LeaveLabel, Monitor, Same
  <2>2. QED
    BY <1>2, <2>1, ChosenStep DEF Chosen
<1>3. CASE req' = [req EXCEPT ![r] = Answered(r, {c})]
  BY <1>0, <1>3, AnsweredChosen, ChosenStep
<1>4. ASSUME NEW i \in Holding(c), row[i].type = "incident", row[i].system,
             ~BadEnough(i, m.impact),
             NEW l \in Local, req' = [req EXCEPT ![r] = l], Same(l, m),
             l.pc = "matchHigher", l.cur = {c}, l.old = Load(i)
      PROVE  CInv'
  <2>1. c \in Component /\ m.impact \in Impact
    BY LocalTyped DEF Local
  <2>2. row[i] \in Row /\ <<i, c>> \in link
    BY LocalTyped DEF StoreTypeOK, Holding
  <2>3. l.old.row.type = "incident" /\ l.old.row.system /\ l.old.row.impact < l.impact
    BY <1>4, <2>1, <2>2, MaxImpactAssumption DEF Load, BadEnough, Same, Row, Impact
  <2>4. l.cur \subseteq l.old.comps
    BY <1>4, <2>1, <2>2 DEF Load, ComponentsOf
  <2> HIDE DEF m
  <2>5. KindFits(l) /\ CompsFit(l) /\ LeftFits(l) /\ JoinedFits(l)
    BY <1>0, <1>4, <2>1, <2>3, <2>4
    DEF KindFits, CompsFit, LeftFits, JoinedFits, LeaveLabel, Monitor, Same
  <2>6. QED
    BY <1>4, <2>5, ChosenStep DEF Chosen
<1>5. QED
  BY <1>1, <1>2, <1>3, <1>4

LEMMA MatchTargetChosen ==
  ASSUME IInv, CInv, NEW r \in Request, MatchTarget(r)
  PROVE  CInv'
<1> DEFINE m == req[r]
<1>0. /\ m.pc = "matchTarget" /\ m.kind = "system" /\ m.cur \in SUBSET Component
      /\ KindFits(m) /\ CompsFit(m) /\ LeftFits(m) /\ JoinedFits(m)
  BY MatchTargetDoes, ReqChosen, LocalTyped DEF KindFits
<1>1. PICK l \in Local :
        /\ req' = [req EXCEPT ![r] = l] /\ Same(l, m) /\ l.cur = m.cur
        /\ \/ l.pc = "create"
           \/ /\ l.pc = "link" /\ \E i \in SameImpact(r) : l.new = Joined(Load(i), l.cur)
  BY MatchTargetDoes
<1>2. CASE l.pc = "create"
  <2> HIDE DEF m
  <2>1. KindFits(l) /\ CompsFit(l) /\ LeftFits(l) /\ JoinedFits(l)
    BY <1>0, <1>1, <1>2 DEF KindFits, CompsFit, LeftFits, JoinedFits, LeaveLabel, Monitor, Same
  <2>2. QED
    BY <1>1, <2>1, ChosenStep DEF Chosen
<1>3. ASSUME NEW i \in SameImpact(r), l.pc = "link", l.new = Joined(Load(i), l.cur)
      PROVE  CInv'
  <2>1. row[i].type = "incident" /\ row[i].system /\ row[i].impact = m.impact
    BY DEF SameImpact
  <2>2. /\ l.new.row.type = "incident" /\ l.new.row.system /\ l.new.row.impact = m.impact
        /\ l.cur \subseteq l.new.comps
    BY <1>3, <2>1 DEF Joined, Load
  <2> HIDE DEF m
  <2>3. KindFits(l) /\ CompsFit(l) /\ LeftFits(l) /\ JoinedFits(l)
    BY <1>0, <1>1, <1>3, <2>2
    DEF KindFits, CompsFit, LeftFits, JoinedFits, LeaveLabel, Monitor, Same
  <2>4. QED
    BY <1>1, <2>3, ChosenStep DEF Chosen
<1>4. QED
  BY <1>1, <1>2, <1>3

LEMMA MatchHigherChosen ==
  ASSUME IInv, CInv, NEW r \in Request, MatchHigher(r)
  PROVE  CInv'
<1> DEFINE m == req[r]
<1>0. /\ m.pc = "matchHigher" /\ m.kind = "system"
      /\ KindFits(m) /\ CompsFit(m) /\ LeftFits(m) /\ JoinedFits(m)
  BY MatchHigherDoes, ReqChosen DEF KindFits
<1>1. PICK l \in Local :
        /\ req' = [req EXCEPT ![r] = l] /\ Same(l, m) /\ l.cur = m.cur /\ l.old = m.old
        /\ \/ l.pc = "move" /\ \E i \in SameImpact(r) : l.new = Load(i)
           \/ l.pc = IF OneComponent(l.old) THEN "raise" ELSE "extract"
  BY MatchHigherDoes
<1>2. m.cur \subseteq m.old.comps /\ m.old.row.type = "incident" /\ m.old.row.system
      /\ m.old.row.impact < m.impact
  BY <1>0 DEF LeftFits, LeaveLabel, Monitor
<1>3. ASSUME NEW i \in SameImpact(r), l.pc = "move", l.new = Load(i)
      PROVE  CInv'
  <2>1. row[i].type = "incident" /\ row[i].system /\ row[i].impact = m.impact
    BY DEF SameImpact
  <2>2. l.new.row.type = "incident" /\ l.new.row.system /\ l.new.row.impact = m.impact
    BY <1>3, <2>1 DEF Load
  <2> HIDE DEF m
  <2>3. KindFits(l) /\ CompsFit(l) /\ LeftFits(l) /\ JoinedFits(l)
    BY <1>0, <1>1, <1>2, <1>3, <2>2
    DEF KindFits, CompsFit, LeftFits, JoinedFits, LeaveLabel, Monitor, Same
  <2>4. QED
    BY <1>1, <2>3, ChosenStep DEF Chosen
<1>4. CASE l.pc = "raise"
  <2> HIDE DEF m
  <2>3. KindFits(l) /\ CompsFit(l) /\ LeftFits(l) /\ JoinedFits(l)
    BY <1>0, <1>1, <1>2, <1>4
    DEF KindFits, CompsFit, LeftFits, JoinedFits, LeaveLabel, Monitor, Same
  <2>4. QED
    BY <1>1, <2>3, ChosenStep DEF Chosen
<1>5. CASE l.pc = "extract" /\ ~OneComponent(l.old)
  <2>1. PICK c \in Component : m.cur = {c}
    BY <1>0 DEF CompsFit
  <2>2. ~(l.old.comps \subseteq l.cur)
    BY <1>1, <1>2, <1>5, <2>1 DEF OneComponent
  <2> HIDE DEF m
  <2>3. KindFits(l) /\ CompsFit(l) /\ LeftFits(l) /\ JoinedFits(l)
    BY <1>0, <1>1, <1>2, <1>5, <2>2
    DEF KindFits, CompsFit, LeftFits, JoinedFits, LeaveLabel, Monitor, Same
  <2>4. QED
    BY <1>1, <2>3, ChosenStep DEF Chosen
<1>6. QED
  BY <1>1, <1>3, <1>4, <1>5

\* The writes after which the request goes on with its other components.
LEMMA AnswerChosen ==
  ASSUME IInv, CInv, NEW r \in Request, Link(r) \/ MarkSystem(r) \/ Raise(r)
  PROVE  CInv'
<1>1. req[r].pc \in {"link", "markSystem", "raise"}
      /\ req' = [req EXCEPT ![r] = Answered(r, req[r].cur)]
  BY DEF Link, MarkSystem, Raise, At, Answer
<1>2. QED
  BY <1>1, AnsweredChosen, ChosenStep

LEMMA RegularCreationChosen ==
  ASSUME IInv, CInv, NEW r \in Request, RegularCreation(r)
  PROVE  CInv'
<1>1. PICK l \in Local :
        /\ req' = [req EXCEPT ![r] = l]
        /\ l.pc = "create" /\ l.kind = "regular" /\ l.cur = l.todo
        /\ (l.type = "incident") <=> (l.impact # 0)
        /\ l.type = "incident" => l.dates = "open"
        /\ l.type = "maintenance" => l.dates # "open"
        /\ l.opened = {Load(i) : i \in {j \in EventId : Active(j)}}
  BY RegularCreationDoes
<1>2. l.type \in EventType
  BY DEF Local
<1>3. KindFits(l) /\ CompsFit(l) /\ LeftFits(l)
  BY <1>1 DEF KindFits, CompsFit, LeftFits, LeaveLabel, Monitor
<1>4. JoinedFits(l)
  BY <1>1, <1>2 DEF JoinedFits, Monitor, EventType
<1>5. QED
  BY <1>1, <1>3, <1>4, ChosenStep DEF Chosen

LEMMA CreateChosen ==
  ASSUME IInv, CInv, NEW r \in Request, Create(r)
  PROVE  CInv'
<1> DEFINE m == req[r]
<1>0. /\ m.pc = "create" /\ m.kind \in Monitor \cup {"regular"} /\ m.type \in EventType
      /\ KindFits(m) /\ CompsFit(m) /\ LeftFits(m) /\ JoinedFits(m)
  BY CreateDoes, ReqChosen, LocalTyped DEF KindFits, Local
<1>1. PICK i \in EventId, e \in Row, l \in Local :
              /\ SaveIncident(i, e, req[r].cur)
              /\ e.type = req[r].type /\ e.system = (req[r].kind = "system")
              /\ e.impact = req[r].impact /\ e.dates = req[r].dates
              /\ req' = [req EXCEPT ![r] = l]
              /\ \/ req[r].kind = "v1" /\ l = Idle
                 \/ /\ req[r].kind # "v1" /\ Same(l, req[r]) /\ l.pc = "firstStatus"
                    /\ l.cur = req[r].cur
                    /\ l.new \in Copy /\ l.new.id = i /\ l.new.row = e /\ l.new.comps = l.cur
  BY CreateDoes
<1>2. CASE l = Idle
  BY <1>1, <1>2, IdleChosen, ChosenStep
<1>3. CASE /\ m.kind # "v1" /\ Same(l, m) /\ l.pc = "firstStatus" /\ l.cur = m.cur
           /\ l.new \in Copy /\ l.new.id = i /\ l.new.row = e /\ l.new.comps = l.cur
  <2>1. /\ l.new.row.type = m.type /\ l.new.row.system = (m.kind = "system")
        /\ l.new.row.impact = m.impact /\ l.new.row.dates = m.dates
    BY <1>1, <1>3
  <2> HIDE DEF m
  <2>2. KindFits(l) /\ CompsFit(l) /\ LeftFits(l)
    BY <1>0, <1>3 DEF KindFits, CompsFit, LeftFits, LeaveLabel, Monitor, Same
  <2>3. JoinedFits(l)
    BY <1>0, <1>3, <2>1 DEF JoinedFits, Monitor, Same
  <2>4. QED
    BY <1>1, <2>2, <2>3, ChosenStep DEF Chosen
<1>4. QED
  BY <1>1, <1>2, <1>3

LEMMA FirstStatusChosen ==
  ASSUME IInv, CInv, NEW r \in Request, FirstStatus(r)
  PROVE  CInv'
<1> DEFINE m == req[r]
<1>0. /\ m.pc = "firstStatus" /\ m.new \in Copy
      /\ KindFits(m) /\ CompsFit(m) /\ LeftFits(m) /\ JoinedFits(m)
  BY FirstStatusDoes, ReqChosen, LocalTyped DEF JoinLabel
<1>1. PICK new \in Copy :
              /\ ModifyIncident(new)
              /\ new.id = req[r].new.id /\ new.comps = req[r].new.comps
              /\ new.row = [req[r].new.row EXCEPT !.status = InitialStatus(req[r].type)]
              /\ \/ /\ req[r].kind # "regular" \/ req[r].opened = {} \/ req[r].impact = 0
                    /\ req' = [req EXCEPT ![r] = Answered(r, req[r].cur)]
                 \/ /\ req[r].kind = "regular" /\ req[r].opened # {} /\ req[r].impact # 0
                    /\ \E l \in Local :
                         /\ req' = [req EXCEPT ![r] = l] /\ Same(l, req[r])
                         /\ l.pc = "nextComponent" /\ l.cur = {} /\ l.new = new
  BY FirstStatusDoes
<1>2. CASE req' = [req EXCEPT ![r] = Answered(r, m.cur)]
  BY <1>0, <1>2, AnsweredChosen, ChosenStep
<1>3. ASSUME NEW l \in Local, req' = [req EXCEPT ![r] = l], Same(l, m), m.kind = "regular",
             l.pc = "nextComponent", l.cur = {}, l.new = new
      PROVE  CInv'
  <2>1. m.new.row \in Row /\ new.row = [m.new.row EXCEPT !.status = InitialStatus(m.type)]
    BY <1>0, <1>1 DEF Copy
  <2>2. l.new.row.system = m.new.row.system /\ l.new.comps = m.new.comps
    BY <1>1, <1>3, <2>1 DEF Row
  <2> HIDE DEF m
  <2>3. KindFits(l) /\ CompsFit(l) /\ LeftFits(l)
    BY <1>0, <1>3, <2>2 DEF KindFits, CompsFit, LeftFits, LeaveLabel, Monitor, Same
  <2>4. JoinedFits(l)
    BY <1>0, <1>3, <2>2 DEF JoinedFits, Monitor, Same
  <2>5. QED
    BY <1>3, <2>3, <2>4, ChosenStep DEF Chosen
<1>4. QED
  BY <1>1, <1>2, <1>3

LEMMA NextComponentChosen ==
  ASSUME IInv, CInv, NEW r \in Request, NextComponent(r)
  PROVE  CInv'
<1> DEFINE m == req[r]
<1>0. /\ m.pc = "nextComponent" /\ m.kind = "regular"
      /\ KindFits(m) /\ CompsFit(m) /\ LeftFits(m) /\ JoinedFits(m)
  BY NextComponentDoes, ReqChosen DEF KindFits
<1>1. PICK c \in req[r].todo :
              \/ /\ \A o \in req[r].opened : o.row.type = "incident" => c \notin o.comps
                 /\ req' = [req EXCEPT ![r] = Answered(r, {c})]
              \/ \E o \in req[r].opened, l \in Local :
                   /\ o.row.type = "incident" /\ c \in o.comps
                   /\ req' = [req EXCEPT ![r] = l] /\ Same(l, req[r])
                   /\ l.pc = "move" /\ l.cur = {c} /\ l.old = o /\ l.new = req[r].new
                   /\ l.closeOld = OneComponent(o)
  BY NextComponentDoes
<1>2. CASE req' = [req EXCEPT ![r] = Answered(r, {c})]
  BY <1>0, <1>2, AnsweredChosen, ChosenStep
<1>3. ASSUME NEW o \in req[r].opened, NEW l \in Local,
             o.row.type = "incident", c \in o.comps,
             req' = [req EXCEPT ![r] = l], Same(l, req[r]),
             l.pc = "move", l.cur = {c}, l.old = o, l.new = req[r].new,
             l.closeOld = OneComponent(o)
      PROVE  CInv'
  <2>1. IF l.closeOld THEN l.old.comps = l.cur ELSE ~(l.old.comps \subseteq l.cur)
    BY <1>3 DEF OneComponent
  <2>2. c \in m.todo /\ o \in m.opened
    BY <1>3
  <2> HIDE DEF m
  <2>3. KindFits(l) /\ CompsFit(l)
    BY <1>0, <1>3, <2>2 DEF KindFits, CompsFit, Monitor, Same, m
  <2>4. LeftFits(l)
    BY <1>0, <1>3, <2>1 DEF LeftFits, LeaveLabel, Monitor, Same, m
  <2>5. JoinedFits(l)
    BY <1>0, <1>3 DEF JoinedFits, Monitor, Same, m
  <2>6. QED
    BY <1>3, <2>3, <2>4, <2>5, ChosenStep DEF Chosen
<1>4. QED
  BY <1>1, <1>2, <1>3

LEMMA MoveChosen ==
  ASSUME IInv, CInv, NEW r \in Request, Move(r)
  PROVE  CInv'
<1> DEFINE m == req[r]
<1>0. /\ m.pc = "move" /\ KindFits(m) /\ CompsFit(m) /\ LeftFits(m) /\ JoinedFits(m)
  BY MoveDoes, ReqChosen
<1>1. \/ req' = [req EXCEPT ![r] = Answered(r, req[r].cur)]
      \/ /\ req[r].kind = "regular"
         /\ \E l \in Local :
              /\ req' = [req EXCEPT ![r] = l]
              /\ l.kind = req[r].kind /\ l.type = req[r].type /\ l.impact = req[r].impact
              /\ l.dates = req[r].dates /\ l.pc = "nextComponent" /\ l.cur = {}
              /\ l.todo = req[r].todo \ req[r].cur /\ l.new = req[r].new
              /\ l.opened = (req[r].opened \ {req[r].old})
                               \cup {Left(req[r].cur, req[r].old, req[r].closeOld)}
  BY MoveDoes
<1>2. CASE req' = [req EXCEPT ![r] = Answered(r, m.cur)]
  BY <1>0, <1>2, AnsweredChosen, ChosenStep
<1>3. ASSUME m.kind = "regular", NEW l \in Local, req' = [req EXCEPT ![r] = l],
             l.kind = m.kind, l.pc = "nextComponent", l.cur = {},
             l.todo = m.todo \ m.cur, l.new = m.new
      PROVE  CInv'
  <2> HIDE DEF m
  <2>1. KindFits(l) /\ CompsFit(l) /\ LeftFits(l)
    BY <1>0, <1>3 DEF KindFits, CompsFit, LeftFits, LeaveLabel, Monitor
  <2>2. JoinedFits(l)
    BY <1>0, <1>3 DEF JoinedFits, Monitor
  <2>3. QED
    BY <1>3, <2>1, <2>2, ChosenStep DEF Chosen
<1>4. QED
  BY <1>1, <1>2, <1>3

LEMMA ExtractChosen ==
  ASSUME IInv, CInv, NEW r \in Request, Extract(r)
  PROVE  CInv'
<1> DEFINE m == req[r]
<1>0. /\ m.pc = "extract" /\ KindFits(m) /\ CompsFit(m) /\ LeftFits(m) /\ JoinedFits(m)
  BY ExtractDoes, ReqChosen
<1>1. PICK i \in EventId, e \in Row, l \in Local :
              /\ SaveIncident(i, e, req[r].cur)
              /\ e.type = "incident" /\ ~e.system /\ e.impact = req[r].impact
              /\ e.dates = "open"
              /\ req' = [req EXCEPT ![r] = l] /\ Same(l, req[r]) /\ l.pc = "extractMove"
              /\ l.cur = req[r].cur /\ l.old = req[r].old
              /\ l.new \in Copy /\ l.new.id = i /\ l.new.row = e /\ l.new.comps = l.cur
  BY ExtractDoes
<1>2. /\ l.new.row.type = "incident" /\ ~l.new.row.system /\ l.new.row.impact = m.impact
      /\ l.new.row.dates = "open" /\ l.cur = m.cur /\ l.old = m.old /\ Same(l, m)
      /\ l.new.comps = l.cur
  BY <1>1
<1>3. m.pc \in Label /\ l.pc = "extractMove"
  BY <1>0, <1>1 DEF Label
<1> HIDE DEF m
<1>4. KindFits(l) /\ CompsFit(l)
  BY <1>0, <1>2, <1>3 DEF KindFits, CompsFit, Monitor, Same
<1>5. LeftFits(l)
  BY <1>0, <1>2, <1>3 DEF LeftFits, LeaveLabel, Monitor, Same
<1>6. JoinedFits(l)
  BY <1>0, <1>2, <1>3 DEF JoinedFits, Monitor, Same
<1>7. QED
  BY <1>1, <1>4, <1>5, <1>6, ChosenStep DEF Chosen

LEMMA ExtractMoveChosen ==
  ASSUME IInv, CInv, NEW r \in Request, ExtractMove(r)
  PROVE  CInv'
<1> DEFINE m == req[r]
<1>0. /\ m.pc = "extractMove" /\ KindFits(m) /\ CompsFit(m) /\ LeftFits(m) /\ JoinedFits(m)
  BY ExtractMoveDoes, ReqChosen
<1>1. \/ req' = [req EXCEPT ![r] = Answered(r, req[r].cur)]
      \/ /\ req[r].kind = "system"
         /\ \E l \in Local :
              /\ req' = [req EXCEPT ![r] = l] /\ Same(l, req[r]) /\ l.pc = "markSystem"
              /\ l.cur = req[r].cur /\ l.new = req[r].new
  BY ExtractMoveDoes
<1>2. CASE req' = [req EXCEPT ![r] = Answered(r, m.cur)]
  BY <1>0, <1>2, AnsweredChosen, ChosenStep
<1>3. ASSUME m.kind = "system", NEW l \in Local, req' = [req EXCEPT ![r] = l], Same(l, m),
             l.pc = "markSystem", l.cur = m.cur, l.new = m.new
      PROVE  CInv'
  <2> HIDE DEF m
  <2>1. KindFits(l) /\ CompsFit(l) /\ LeftFits(l)
    BY <1>0, <1>3 DEF KindFits, CompsFit, LeftFits, LeaveLabel, Monitor, Same
  <2>2. JoinedFits(l)
    BY <1>0, <1>3 DEF JoinedFits, Monitor, Same
  <2>3. QED
    BY <1>3, <2>1, <2>2, ChosenStep DEF Chosen
<1>4. QED
  BY <1>1, <1>2, <1>3

LEMMA V1ReportChosen ==
  ASSUME IInv, AInv, CInv, NEW r \in Request, V1Report(r)
  PROVE  CInv'
<1>1. PICK c \in Component, l \in Local :
              /\ req' = [req EXCEPT ![r] = l]
              /\ l.kind = "v1" /\ l.type = "incident" /\ l.impact # 0 /\ l.dates = "open"
              /\ l.todo = {c} /\ l.cur = {c} /\ l.opened = {}
              /\ \/ /\ Holding(c) = {} /\ l.pc = "link"
                    /\ \E i \in Alike(l.impact) : l.new = Joined(Load(i), l.cur)
                 \/ Holding(c) = {} /\ Alike(l.impact) = {} /\ l.pc = "create"
                 \/ \E o \in Holding(c) :
                      /\ row[o].impact # 0 /\ ~BadEnough(o, l.impact) /\ l.old = Load(o)
                      /\ \/ /\ l.pc = "move" /\ l.closeOld = OneComponent(l.old)
                            /\ \E i \in Alike(l.impact) : l.new = Load(i)
                         \/ /\ Alike(l.impact) = {}
                            /\ l.pc = IF OneComponent(l.old) THEN "raise" ELSE "extract"
  BY V1ReportDoes
<1>2. /\ l.kind = "v1" /\ l.type = "incident" /\ l.impact # 0 /\ l.dates = "open"
      /\ l.todo = {c} /\ l.cur = {c} /\ l.opened = {} /\ l.impact \in Impact
  BY <1>1 DEF Local
<1>3. ASSUME NEW i \in Alike(l.impact)
      PROVE  i \in EventId /\ row[i].type = "incident" /\ row[i].impact = l.impact
  BY <1>2, LocalSound DEF Alike, RowsAgree, Agrees
<1>4. ASSUME NEW o \in Holding(c), row[o].impact # 0, ~BadEnough(o, l.impact), l.old = Load(o)
      PROVE  /\ l.old.row.type = "incident" /\ l.old.row.impact < l.impact
             /\ l.cur \subseteq l.old.comps
  <2>1. o \in EventId /\ row[o] \in Row /\ <<o, c>> \in link /\ row[o].type = "incident"
    BY <1>4, LocalTyped, LocalSound DEF StoreTypeOK, Holding, RowsAgree, Agrees
  <2>2. row[o].impact < l.impact
    BY <1>2, <1>4, <2>1, MaxImpactAssumption DEF BadEnough, Row, Impact
  <2>3. QED
    BY <1>2, <1>4, <2>1, <2>2 DEF Load, ComponentsOf
<1>5. ASSUME NEW i \in Alike(l.impact), l.pc = "link", l.new = Joined(Load(i), l.cur)
      PROVE  CInv'
  <2>1. /\ l.new.row.type = "incident" /\ l.new.row.impact = l.impact
        /\ l.cur \subseteq l.new.comps
    BY <1>3, <1>5 DEF Joined, Load
  <2>2. KindFits(l) /\ CompsFit(l) /\ LeftFits(l) /\ JoinedFits(l)
    BY <1>2, <1>5, <2>1 DEF KindFits, CompsFit, LeftFits, JoinedFits, LeaveLabel, Monitor
  <2>3. QED
    BY <1>1, <2>2, ChosenStep DEF Chosen
<1>6. CASE l.pc = "create"
  <2>1. KindFits(l) /\ CompsFit(l) /\ LeftFits(l) /\ JoinedFits(l)
    BY <1>2, <1>6 DEF KindFits, CompsFit, LeftFits, JoinedFits, LeaveLabel, Monitor
  <2>2. QED
    BY <1>1, <2>1, ChosenStep DEF Chosen
<1>7. ASSUME NEW o \in Holding(c), row[o].impact # 0, ~BadEnough(o, l.impact), l.old = Load(o),
             NEW i \in Alike(l.impact), l.pc = "move", l.closeOld = OneComponent(l.old),
             l.new = Load(i)
      PROVE  CInv'
  <2>1. /\ l.old.row.type = "incident" /\ l.old.row.impact < l.impact
        /\ l.cur \subseteq l.old.comps
    BY <1>4, <1>7
  <2>2. l.new.row.type = "incident" /\ l.new.row.impact = l.impact
    BY <1>3, <1>7 DEF Load
  <2>3. IF l.closeOld THEN l.old.comps = l.cur ELSE ~(l.old.comps \subseteq l.cur)
    BY <1>2, <1>7, <2>1 DEF OneComponent
  <2>4. KindFits(l) /\ CompsFit(l) /\ LeftFits(l) /\ JoinedFits(l)
    BY <1>2, <1>7, <2>1, <2>2, <2>3
    DEF KindFits, CompsFit, LeftFits, JoinedFits, LeaveLabel, Monitor
  <2>5. QED
    BY <1>1, <2>4, ChosenStep DEF Chosen
<1>8. ASSUME NEW o \in Holding(c), row[o].impact # 0, ~BadEnough(o, l.impact), l.old = Load(o),
             l.pc = IF OneComponent(l.old) THEN "raise" ELSE "extract"
      PROVE  CInv'
  <2>1. /\ l.old.row.type = "incident" /\ l.old.row.impact < l.impact
        /\ l.cur \subseteq l.old.comps
    BY <1>4, <1>8
  <2>2. l.pc = "extract" => ~(l.old.comps \subseteq l.cur)
    BY <1>2, <1>8, <2>1 DEF OneComponent
  <2>3. l.pc \in {"raise", "extract"}
    BY <1>8
  <2>4. KindFits(l) /\ CompsFit(l) /\ LeftFits(l) /\ JoinedFits(l)
    BY <1>2, <2>1, <2>2, <2>3
    DEF KindFits, CompsFit, LeftFits, JoinedFits, LeaveLabel, Monitor
  <2>5. QED
    BY <1>1, <2>4, ChosenStep DEF Chosen
<1>9. QED
  BY <1>1, <1>5, <1>6, <1>7, <1>8

LEMMA ExtractRequestChosen ==
  ASSUME IInv, CInv, NEW r \in Request, ExtractRequest(r)
  PROVE  CInv'
<1>1. PICK i \in events, l \in Local :
              /\ req' = [req EXCEPT ![r] = l]
              /\ l.pc = "extract" /\ l.kind = "extract" /\ l.todo = l.cur
              /\ l.cur \subseteq ComponentsOf(i) /\ l.old = Load(i) /\ l.opened = {}
              /\ MaxEntries <= 1 => l.cur # ComponentsOf(i)
  BY ExtractRequestDoes
<1>2. l.old.comps = ComponentsOf(i)
  BY <1>1 DEF Load
<1>3. KindFits(l) /\ CompsFit(l) /\ LeftFits(l) /\ JoinedFits(l)
  BY <1>1, <1>2 DEF KindFits, CompsFit, LeftFits, JoinedFits, LeaveLabel, Monitor
<1>4. QED
  BY <1>1, <1>3, ChosenStep DEF Chosen

LEMMA PatchRequestChosen ==
  ASSUME IInv, CInv, NEW r \in Request, PatchRequest(r)
  PROVE  CInv'
<1>1. PICK i \in events, t \in EventType, im \in Impact, s \in PatchStatus, d \in Dates,
           l \in Local : Asks(l, i, t, im, s, d) /\ req' = [req EXCEPT ![r] = l]
  BY PatchRequestDoes
<1>2. row[i] \in Row
  BY LocalTyped DEF StoreTypeOK
<1>3. l.new.row.status = s
  BY <1>1, <1>2 DEF Asks, Patched, Row
<1>4. KindFits(l) /\ CompsFit(l) /\ LeftFits(l) /\ JoinedFits(l)
  BY <1>1, <1>3 DEF Asks, KindFits, CompsFit, LeftFits, JoinedFits, LeaveLabel, Monitor
<1>5. QED
  BY <1>1, <1>4, ChosenStep DEF Chosen

LEMMA PatchChosen ==
  ASSUME IInv, CInv, NEW r \in Request, Patch(r)
  PROVE  CInv'
<1> DEFINE m == req[r]
<1>0. /\ m.pc = "patch" /\ KindFits(m) /\ CompsFit(m) /\ LeftFits(m) /\ JoinedFits(m)
  BY PatchDoes, ReqChosen
<1>1. \/ req' = [req EXCEPT ![r] = Idle]
      \/ /\ req[r].new.row.status = "reopened"
         /\ \E l \in Local :
              /\ req' = [req EXCEPT ![r] = l] /\ Same(l, req[r]) /\ l.pc = "reopen"
              /\ l.cur = req[r].cur /\ l.new = req[r].new
  BY PatchDoes
<1>2. ASSUME m.new.row.status = "reopened", NEW l \in Local,
             req' = [req EXCEPT ![r] = l], Same(l, m), l.pc = "reopen",
             l.cur = m.cur, l.new = m.new
      PROVE  CInv'
  <2> HIDE DEF m
  <2>1. KindFits(l) /\ CompsFit(l) /\ LeftFits(l) /\ JoinedFits(l)
    BY <1>0, <1>2 DEF KindFits, CompsFit, LeftFits, JoinedFits, LeaveLabel, Monitor, Same
  <2>2. QED
    BY <1>2, <2>1, ChosenStep DEF Chosen
<1>3. QED
  BY <1>1, <1>2, IdleChosen, ChosenStep

LEMMA InitCInv == Init => CInv
  BY IdleChosen DEF Init, CInv

LEMMA NextCInv == IInv /\ AInv /\ CInv /\ [Next]_vars => CInv'
<1> SUFFICES ASSUME IInv, AInv, CInv, [Next]_vars PROVE CInv'
  OBVIOUS
<1>1. ASSUME NEW r \in Request, Arrive(r) PROVE CInv'
  BY <1>1, SystemReportChosen, RegularCreationChosen, V1ReportChosen, ExtractRequestChosen,
     PatchRequestChosen DEF Arrive
<1>2. ASSUME NEW r \in Request, Reopen(r) \/ Fail(r) PROVE CInv'
  BY <1>2, IdleChosen, ChosenStep DEF Reopen, Fail
<1>3. ASSUME NEW r \in Request, Handle(r) PROVE CInv'
  BY <1>2, <1>3, FindEventsChosen, MatchTargetChosen, AnswerChosen, MatchHigherChosen,
     CreateChosen, FirstStatusChosen, NextComponentChosen, MoveChosen, ExtractChosen,
     ExtractMoveChosen, PatchChosen DEF Handle
<1>4. CASE req' = req
  BY <1>4 DEF CInv
<1>5. QED
  BY <1>1, <1>2, <1>3, <1>4 DEF Next, vars

-----------------------------------------------------------------------------
(* Events keep a component *)

AllHaveComponents == \A i \in events : ComponentsOf(i) # {}

LEMMA GrowingKeepsComponents ==
  ASSUME AllHaveComponents, events' = events, link \subseteq link'
  PROVE  AllHaveComponents'
  BY DEF AllHaveComponents, ComponentsOf

\* A move or an extraction leaves something in the source, or closes it with
\* what it has.
LEMMA MoveKeepsComponents ==
  ASSUME IInv, AllHaveComponents, NEW cs \in SUBSET Component, NEW old \in Copy, NEW new \in Copy,
         NEW closeOld \in BOOLEAN, closeOld \/ ~(old.comps \subseteq cs),
         MoveComponents(cs, old, new, closeOld)
  PROVE  AllHaveComponents'
<1>0. events' = events /\ events \subseteq EventId
  BY DEF MoveComponents, IInv, TypeOK, StoreTypeOK
<1>1. CASE closeOld
  <2>1. link \subseteq link'
    BY <1>1 DEF MoveComponents
  <2>2. QED
    BY <1>0, <2>1, GrowingKeepsComponents
<1>2. CASE ~closeOld
  <2>1. Left(cs, old, closeOld).comps = old.comps \ cs
    BY <1>2 DEF Left, Copy
  <2>2. link' = (link \ ({old.id} \X cs)) \cup ({new.id} \X (new.comps \cup cs))
                                          \cup ({old.id} \X (old.comps \ cs))
    BY <1>2, <2>1 DEF MoveComponents
  <2>3. PICK c \in Component : c \in old.comps \ cs
    BY <1>2 DEF Copy
  <2>4. ASSUME NEW i \in events PROVE ComponentsOf(i)' # {}
    <3>1. CASE i = old.id
      <4>1. <<i, c>> \in link'
        BY <2>2, <2>3, <3>1
      <4>2. QED
        BY <4>1 DEF ComponentsOf
    <3>2. CASE i # old.id
      <4>1. PICK d \in Component : <<i, d>> \in link
        BY DEF AllHaveComponents, ComponentsOf
      <4>2. <<i, d>> \in link'
        BY <2>2, <3>2, <4>1
      <4>3. QED
        BY <4>2 DEF ComponentsOf
    <3>3. QED
      BY <3>1, <3>2
  <2>5. QED
    BY <1>0, <2>4 DEF AllHaveComponents
<1>3. QED
  BY <1>1, <1>2

LEMMA StepKeepsComponents ==
  ASSUME IInv, HInv, CInv, AllHaveComponents, [Next]_vars,
         "system" \notin Kinds, MaxEntries <= 1
  PROVE  AllHaveComponents'
<1>1. ASSUME NEW r \in Request, Move(r) \/ ExtractMove(r) PROVE AllHaveComponents'
  <2>0. /\ req[r].pc \in {"move", "extractMove"}
        /\ req[r].old \in Copy /\ req[r].new \in Copy /\ req[r].cur \in SUBSET Component
        /\ req[r].kind # "system" /\ req[r].closeOld \in BOOLEAN
    BY <1>1, LocalTyped DEF Move, ExtractMove, At, JoinLabel, LeaveLabel, Local
  <2>1. LeftFits(req[r])
    BY ReqChosen
  <2>2. CASE Move(r)
    BY <2>0, <2>1, <2>2, MoveKeepsComponents DEF Move, At, LeftFits
  <2>3. CASE ExtractMove(r)
    BY <2>0, <2>1, <2>3, MoveKeepsComponents DEF ExtractMove, At, LeftFits
  <2>4. QED
    BY <1>1, <2>2, <2>3
<1>2. ASSUME NEW r \in Request, Create(r) \/ Extract(r) PROVE AllHaveComponents'
  <2>1. req[r].cur # {} /\ req[r].cur \subseteq Component
    BY <1>2, LocalTyped DEF Create, Extract, At, HInv, InHand, CurLabel
  <2>2. PICK i \in EventId : \E e : SaveIncident(i, e, req[r].cur)
    BY <1>2 DEF Create, Extract
  <2>3. events' = events \cup {i} /\ link' = link \cup ({i} \X req[r].cur)
    BY <2>2 DEF SaveIncident
  <2>4. QED
    BY <2>1, <2>3 DEF AllHaveComponents, ComponentsOf
<1>3. ASSUME NEW r \in Request, Handle(r) PROVE AllHaveComponents'
  <2>1. CASE Link(r) \/ MarkSystem(r) \/ FirstStatus(r) \/ Raise(r) \/ Patch(r)
    <3>1. events' = events /\ link \subseteq link'
      BY <2>1 DEF Link, MarkSystem, FirstStatus, Raise, Patch, ModifyIncident
    <3>2. QED
      BY <3>1, GrowingKeepsComponents
  <2>2. CASE FindEvents(r) \/ MatchTarget(r) \/ MatchHigher(r) \/ NextComponent(r) \/ Reopen(r)
    <3>1. events' = events /\ link' = link
      BY <2>2 DEF FindEvents, MatchTarget, MatchHigher, NextComponent, Reopen,
                  ReOpenIncident, store
    <3>2. QED
      BY <3>1, GrowingKeepsComponents
  <2>3. QED
    BY <1>1, <1>2, <1>3, <2>1, <2>2 DEF Handle
<1>4. CASE \/ \E r \in Request : Arrive(r) \/ Fail(r)
           \/ \E w \in Window : ClockMoves(w)
           \/ UNCHANGED vars
  <2>1. events' = events /\ link' = link
    BY <1>4 DEF Arrive, SystemReport, RegularCreation, V1Report, ExtractRequest,
                PatchRequest, Fail, ClockMoves, store, vars
  <2>2. QED
    BY <2>1, GrowingKeepsComponents
<1>5. QED
  BY <1>3, <1>4 DEF Next

\* Without the monitoring API, whose moves look at the wrong event when they
\* decide to close one, and with extractions of one component at a time (a
\* longer list may name a component twice, and then all may go), every event
\* keeps a component, however requests interleave and wherever they fail.
THEOREM EventsKeepComponents ==
  ASSUME "system" \notin Kinds, MaxEntries <= 1
  PROVE  Spec => []OpenEventsHaveComponents
<1>1. Init => AllHaveComponents
  BY DEF Init, StoreInit, AllHaveComponents
<1>2. IInv /\ HInv /\ CInv /\ AllHaveComponents /\ [Next]_vars => AllHaveComponents'
  BY StepKeepsComponents
<1>3. AllHaveComponents => OpenEventsHaveComponents
  BY DEF AllHaveComponents, OpenEventsHaveComponents
<1>4. QED
  BY InitIInv, NextIInv, InitAInv, NextAInv, InitHInv, NextHInv, InitCInv, NextCInv,
     <1>1, <1>2, <1>3, PTL DEF Spec

-----------------------------------------------------------------------------
(* What the writes do to the tables *)

LEMMA ModifyEffect ==
  ASSUME StoreTypeOK, NEW copy \in Copy, ModifyIncident(copy)
  PROVE  /\ events' = events
         /\ \A i \in EventId :
              /\ row'[i] = IF i = copy.id THEN NonZeroFields(row[i], copy.row) ELSE row[i]
              /\ CompsIn(i, link') = IF i = copy.id THEN CompsIn(i, link) \cup copy.comps
                                     ELSE CompsIn(i, link)
<1>1. copy.id \in EventId /\ copy.comps \subseteq Component /\ events' = events
  BY DEF Copy, ModifyIncident
<1>2. ASSUME NEW i \in EventId
      PROVE  row'[i] = IF i = copy.id THEN NonZeroFields(row[i], copy.row) ELSE row[i]
  BY <1>1 DEF ModifyIncident, StoreTypeOK
<1>3. link' = link \cup ({copy.id} \X copy.comps)
  BY DEF ModifyIncident
<1>4. ASSUME NEW i \in EventId
      PROVE  CompsIn(i, link') = IF i = copy.id THEN CompsIn(i, link) \cup copy.comps
                                 ELSE CompsIn(i, link)
  <2>1. \A c : <<i, c>> \in link' <=> <<i, c>> \in link \/ (i = copy.id /\ c \in copy.comps)
    BY <1>3
  <2>2. QED
    BY <1>1, <2>1 DEF CompsIn
<1>5. QED
  BY <1>1, <1>2, <1>4

LEMMA SaveEffect ==
  ASSUME StoreTypeOK, NEW i \in EventId, NEW e \in Row, NEW cs \in SUBSET Component,
         SaveIncident(i, e, cs)
  PROVE  /\ i \notin events /\ events' = events \cup {i}
         /\ \A j \in EventId :
              /\ row'[j] = IF j = i THEN e ELSE row[j]
              /\ CompsIn(j, link') = IF j = i THEN CompsIn(j, link) \cup cs ELSE CompsIn(j, link)
<1>1. i \notin events /\ events' = events \cup {i} /\ link' = link \cup ({i} \X cs)
  BY DEF SaveIncident
<1>2. ASSUME NEW j \in EventId PROVE row'[j] = IF j = i THEN e ELSE row[j]
  BY DEF SaveIncident, StoreTypeOK
<1>3. ASSUME NEW j \in EventId
      PROVE  CompsIn(j, link') = IF j = i THEN CompsIn(j, link) \cup cs ELSE CompsIn(j, link)
  <2>1. \A c : <<j, c>> \in link' <=> <<j, c>> \in link \/ (j = i /\ c \in cs)
    BY <1>1
  <2>2. QED
    BY <2>1 DEF CompsIn
<1>4. QED
  BY <1>1, <1>2, <1>3

\* The components cs are in the event of new, left is what the other one is.
MoveDone(cs, left, new) ==
    /\ events' = events
    /\ \A i \in EventId : i # left.id => row'[i] = row[i]
    /\ row'[left.id] = left.row
    /\ CompsIn(left.id, link') = left.comps
    /\ CompsIn(new.id, link') = new.comps \cup cs
    /\ \A i \in EventId : i # left.id /\ i # new.id => CompsIn(i, link') = CompsIn(i, link)

\* The transaction of a move, when the structs are what the tables hold.
LEMMA MoveEffect ==
  ASSUME StoreTypeOK, NEW cs \in SUBSET Component, NEW old \in Copy, NEW new \in Copy,
         NEW closeOld \in BOOLEAN, old.id # new.id, cs \subseteq old.comps,
         Current(old, row, link), Current(new, row, link),
         MoveComponents(cs, old, new, closeOld)
  PROVE  MoveDone(cs, Left(cs, old, closeOld), new)
<1> DEFINE left == Left(cs, old, closeOld)
<1>1. /\ old.id \in EventId /\ new.id \in EventId /\ events' = events
      /\ old.comps \subseteq Component /\ new.comps \subseteq Component
  BY DEF Copy, MoveComponents
<1>2. /\ left.comps = IF closeOld THEN old.comps ELSE old.comps \ cs
      /\ left.id = old.id
  BY DEF Left, Copy
<1>3. row' = [row EXCEPT ![new.id] = new.row, ![old.id] = left.row]
  BY DEF MoveComponents
<1>4. link' = (IF closeOld THEN link ELSE link \ ({old.id} \X cs))
                 \cup ({new.id} \X (new.comps \cup cs)) \cup ({old.id} \X left.comps)
  BY DEF MoveComponents
<1> HIDE DEF left
<1>5. /\ \A i \in EventId : i # old.id => row'[i] = row[i]
      /\ row'[old.id] = left.row
  BY <1>1, <1>3 DEF StoreTypeOK, Current
<1>6. ASSUME NEW i \in EventId, NEW c \in Component
      PROVE  <<i, c>> \in link' <=>
                \/ i = old.id /\ c \in left.comps
                \/ i = new.id /\ c \in new.comps \cup cs
                \/ i # old.id /\ i # new.id /\ <<i, c>> \in link
  <2>1. /\ <<old.id, c>> \in link <=> c \in old.comps
        /\ <<new.id, c>> \in link <=> c \in new.comps
    BY DEF Current, CompsIn
  <2>2. CASE closeOld
    BY <1>2, <1>4, <2>1, <2>2
  <2>3. CASE ~closeOld
    BY <1>2, <1>4, <2>1, <2>3
  <2>4. QED
    BY <2>2, <2>3
<1>7. CompsIn(old.id, link') = left.comps
  BY <1>1, <1>2, <1>6 DEF CompsIn
<1>8. CompsIn(new.id, link') = new.comps \cup cs
  BY <1>1, <1>6 DEF CompsIn
<1>9. \A i \in EventId : i # old.id /\ i # new.id => CompsIn(i, link') = CompsIn(i, link)
  BY <1>6 DEF CompsIn
<1>10. MoveDone(cs, left, new)
  BY <1>1, <1>2, <1>5, <1>7, <1>8, <1>9 DEF MoveDone
<1>11. QED
  BY <1>10 DEF left

LEMMA LoadCurrent == \A i \in EventId : Current(Load(i), row, link)
  BY DEF Current, Load, CompsIn, ComponentsOf

\* Updates writes a struct as it is when no field of it has become zero.
LEMMA WrittenBack ==
  ASSUME NEW e \in Row, NEW f \in Row, e.system => f.system,
         f.status # NoStatus \/ f.status = e.status, f.dates # "open" \/ f.dates = e.dates
  PROVE  NonZeroFields(e, f) = f
<1>1. /\ (e.system \/ f.system) = f.system
      /\ (IF f.status = NoStatus THEN e.status ELSE f.status) = f.status
      /\ (IF f.dates = "open" THEN e.dates ELSE f.dates) = f.dates
  BY DEF Row
<1>2. NonZeroFields(e, f) = [f EXCEPT !.system = f.system, !.status = f.status,
                                      !.dates = f.dates]
  BY <1>1 DEF NonZeroFields
<1>3. QED
  BY <1>2 DEF Row

-----------------------------------------------------------------------------
(* One request at a time has in hand what the tables hold *)

LEMMA NoStraysKept ==
  ASSUME NoStrays, events \subseteq events', NEW S, S \subseteq events',
         link' \subseteq link \cup (S \X Component)
  PROVE  NoStrays'
<1>1. ASSUME NEW i \in EventId \ events', NEW c \in Component, <<i, c>> \in link'
      PROVE  FALSE
  <2>1. <<i, c>> \in link
    BY <1>1
  <2>2. QED
    BY <2>1 DEF NoStrays, CompsIn
<1>2. QED
  BY <1>1 DEF NoStrays, CompsIn

LEMMA IdleSynced == \A R, L : Synced(Idle, R, L)
  BY DEF Synced, Idle, LeaveLabel

LEMMA SyncedStep ==
  ASSUME IInv, NEW r, Request = {r}, NEW l, req' = [req EXCEPT ![r] = l],
         NoStrays', Synced(l, row', link')
  PROVE  SInv'
<1>1. req'[r] = l
  BY DEF IInv, TypeOK
<1>2. \A q \in Request : Synced(req'[q], row', link')
  BY <1>1
<1>3. QED
  BY <1>2 DEF SInv

\* A request that creates events for an operator goes on only from the label
\* at which it looks for the next component.
LEMMA AnsweredSynced ==
  ASSUME IInv, CInv, NEW r \in Request, NEW cs,
         req[r].kind = "regular" => req[r].todo \subseteq cs
  PROVE  \A R, L : Synced(Answered(r, cs), R, L)
<1> DEFINE l == Answered(r, cs)
<1>1. CASE l = Idle
  BY <1>1, IdleSynced
<1>2. CASE GoesOn(l, req[r], cs)
  <2>0. JoinedFits(req[r])
    BY ReqChosen
  <2> HIDE DEF l
  <2>1. l.pc = "findEvents" /\ l.opened = {}
    BY <1>2, <2>0 DEF GoesOn, JoinedFits
  <2>2. \A R, L : Synced(l, R, L)
    BY <2>1 DEF Synced, LeaveLabel
  <2>3. QED
    BY <2>2 DEF l
<1>3. QED
  BY <1>1, <1>2, AnsweredDoes

\* The facts about request r, with those of LocalTyped and ReqChosen.
LEMMA ReqSynced ==
  ASSUME SInv, HInv, NEW r \in Request
  PROVE  NoStrays /\ Synced(req[r], row, link) /\ InHand(req[r], events)
  BY DEF SInv, HInv

LEMMA ReadsSynced ==
  ASSUME SInv, UNCHANGED store
  PROVE  NoStrays' /\ \A l : Synced(l, row', link') <=> Synced(l, row, link)
<1>1. events' = events /\ row' = row /\ link' = link
  BY DEF store
<1>2. NoStrays'
  BY <1>1 DEF SInv, NoStrays, CompsIn
<1>3. \A l : Synced(l, row', link') <=> Synced(l, row, link)
  BY <1>1
<1>4. QED
  BY <1>2, <1>3

LEMMA ArriveSynced ==
  ASSUME IInv, HInv, CInv, SInv, NEW r, Request = {r}, Arrive(r)
  PROVE  SInv'
<1>0. r \in Request /\ StoreTypeOK
  BY LocalTyped
<1>1. CASE SystemReport(r)
  <2>1. UNCHANGED store
    BY <1>0, <1>1, SystemReportDoes
  <2>2. PICK l \in Local :
           /\ req' = [req EXCEPT ![r] = l]
           /\ l.pc = "findEvents" /\ l.kind = "system" /\ l.type = "incident"
           /\ l.impact # 0 /\ l.dates = "open" /\ l.cur = {} /\ l.opened = {}
    BY <1>0, <1>1, SystemReportDoes
  <2>3. Synced(l, row, link)
    BY <2>2 DEF Synced, LeaveLabel
  <2>4. QED
    BY <2>1, <2>2, <2>3, ReadsSynced, SyncedStep
<1>2. CASE RegularCreation(r)
  <2>1. UNCHANGED store
    BY <1>0, <1>2, RegularCreationDoes
  <2>2. PICK l \in Local :
              /\ req' = [req EXCEPT ![r] = l]
              /\ l.pc = "create" /\ l.kind = "regular" /\ l.cur = l.todo
              /\ (l.type = "incident") <=> (l.impact # 0)
              /\ l.type = "incident" => l.dates = "open"
              /\ l.type = "maintenance" => l.dates # "open"
              /\ l.opened = {Load(i) : i \in {j \in EventId : Active(j)}}
    BY <1>0, <1>2, RegularCreationDoes
  <2>3. Synced(l, row, link)
    BY <2>2, LoadCurrent DEF Synced, LeaveLabel
  <2>4. QED
    BY <2>1, <2>2, <2>3, ReadsSynced, SyncedStep
<1>3. CASE V1Report(r)
  <2>1. UNCHANGED store
    BY <1>0, <1>3, V1ReportDoes
  <2>2. PICK c \in Component, l \in Local :
              /\ req' = [req EXCEPT ![r] = l]
              /\ l.kind = "v1" /\ l.type = "incident" /\ l.impact # 0 /\ l.dates = "open"
              /\ l.todo = {c} /\ l.cur = {c} /\ l.opened = {}
              /\ \/ /\ Holding(c) = {} /\ l.pc = "link"
                    /\ \E i \in Alike(l.impact) : l.new = Joined(Load(i), l.cur)
                 \/ Holding(c) = {} /\ Alike(l.impact) = {} /\ l.pc = "create"
                 \/ \E o \in Holding(c) :
                      /\ row[o].impact # 0 /\ ~BadEnough(o, l.impact) /\ l.old = Load(o)
                      /\ \/ /\ l.pc = "move" /\ l.closeOld = OneComponent(l.old)
                            /\ \E i \in Alike(l.impact) : l.new = Load(i)
                         \/ /\ Alike(l.impact) = {}
                            /\ l.pc = IF OneComponent(l.old) THEN "raise" ELSE "extract"
    BY <1>0, <1>3, V1ReportDoes
  <2>3. CASE l.pc = "link" /\ \E i \in Alike(l.impact) : l.new = Joined(Load(i), l.cur)
    <3>1. PICK i \in EventId : l.new = Joined(Load(i), l.cur)
      BY <2>3 DEF Alike
    <3>2. /\ l.new.id = i /\ l.new.row = row[i]
          /\ l.new.comps = CompsIn(i, link) \cup l.cur
      BY <3>1 DEF Joined, Load, CompsIn, ComponentsOf
    <3>3. Synced(l, row, link)
      BY <2>2, <2>3, <3>2 DEF Synced, LeaveLabel
    <3>4. QED
      BY <2>1, <2>2, <3>3, ReadsSynced, SyncedStep
  <2>4. CASE l.pc = "create"
    <3>1. Synced(l, row, link)
      BY <2>2, <2>4 DEF Synced, LeaveLabel
    <3>2. QED
      BY <2>1, <2>2, <3>1, ReadsSynced, SyncedStep
  <2>5. ASSUME NEW o \in Holding(c), ~BadEnough(o, l.impact), l.old = Load(o), l.pc = "move",
               NEW i \in Alike(l.impact), l.new = Load(i)
        PROVE  SInv'
    <3>1. o \in EventId /\ i \in EventId /\ row[i].impact = l.impact /\ l.impact \in Impact
      BY DEF Holding, Alike, Local
    <3>2. i # o
      BY <2>5, <3>1, MaxImpactAssumption DEF BadEnough, Impact
    <3>3. Current(l.old, row, link) /\ Current(l.new, row, link) /\ l.old.id # l.new.id
      BY <2>5, <3>1, <3>2, LoadCurrent, LoadId
    <3>4. Synced(l, row, link)
      BY <2>2, <2>5, <3>3 DEF Synced
    <3>5. QED
      BY <2>1, <2>2, <3>4, ReadsSynced, SyncedStep
  <2>6. ASSUME NEW o \in Holding(c), l.old = Load(o), l.pc \in {"raise", "extract"}
        PROVE  SInv'
    <3>1. Current(l.old, row, link)
      BY <2>6, LoadCurrent DEF Holding
    <3>2. Synced(l, row, link)
      BY <2>2, <2>6, <3>1 DEF Synced
    <3>3. QED
      BY <2>1, <2>2, <3>2, ReadsSynced, SyncedStep
  <2>7. QED
    BY <2>2, <2>3, <2>4, <2>5, <2>6
<1>4. CASE ExtractRequest(r)
  <2>1. UNCHANGED store
    BY <1>0, <1>4, ExtractRequestDoes
  <2>2. PICK i \in events, l \in Local :
              /\ req' = [req EXCEPT ![r] = l]
              /\ l.pc = "extract" /\ l.kind = "extract" /\ l.todo = l.cur
              /\ l.cur \subseteq ComponentsOf(i) /\ l.old = Load(i) /\ l.opened = {}
              /\ MaxEntries <= 1 => l.cur # ComponentsOf(i)
    BY <1>0, <1>4, ExtractRequestDoes
  <2>3. Current(l.old, row, link)
    BY <1>0, <2>2, LoadCurrent DEF StoreTypeOK
  <2>4. Synced(l, row, link)
    BY <2>2, <2>3 DEF Synced
  <2>5. QED
    BY <2>1, <2>2, <2>4, ReadsSynced, SyncedStep
<1>5. CASE PatchRequest(r)
  <2>1. UNCHANGED store
    BY <1>0, <1>5, PatchRequestDoes
  <2>2. PICK i \in events, t \in EventType, im \in Impact, s \in PatchStatus, d \in Dates,
             l \in Local : Asks(l, i, t, im, s, d) /\ req' = [req EXCEPT ![r] = l]
    BY <1>0, <1>5, PatchRequestDoes
  <2>3. /\ l.pc = "patch" /\ l.opened = {} /\ l.new.comps = CompsIn(l.new.id, link)
        /\ PatchAccepted(row[l.new.id], t, im, s, d)
        /\ l.new.row = Patched(row[l.new.id], t, im, s, d)
    BY <2>2 DEF Asks, CompsIn, ComponentsOf
  <2>4. Synced(l, row, link)
    BY <2>3 DEF Synced, LeaveLabel
  <2>5. QED
    BY <2>1, <2>2, <2>4, ReadsSynced, SyncedStep
<1>6. QED
  BY <1>1, <1>2, <1>3, <1>4, <1>5 DEF Arrive

LEMMA ReadsOnSynced ==
  ASSUME IInv, HInv, CInv, SInv, NEW r, Request = {r},
         FindEvents(r) \/ MatchTarget(r) \/ MatchHigher(r) \/ NextComponent(r)
  PROVE  SInv'
<1> DEFINE m == req[r]
<1>0. /\ r \in Request /\ StoreTypeOK /\ m \in Local
      /\ KindFits(m) /\ CompsFit(m) /\ LeftFits(m) /\ JoinedFits(m)
      /\ Synced(m, row, link)
  BY LocalTyped, ReqChosen, ReqSynced
<1>1. CASE FindEvents(r)
  <2>1. UNCHANGED store /\ m.pc = "findEvents" /\ m.kind = "system" /\ m.opened = {}
    BY <1>0, <1>1, FindEventsDoes DEF KindFits, JoinedFits
  <2>2. PICK c \in m.todo :
              \/ /\ \A i \in Holding(c) : row[i].type = "info"
                 /\ \E l \in Local :
                      /\ req' = [req EXCEPT ![r] = l] /\ Same(l, req[r])
                      /\ l.pc = "matchTarget" /\ l.cur = {c} /\ l.new = req[r].new
              \/ /\ \E i \in Holding(c) :
                      \/ row[i].type = "maintenance"
                      \/ row[i].type = "incident" /\ ~row[i].system
                      \/ row[i].type = "incident" /\ BadEnough(i, req[r].impact)
                 /\ req' = [req EXCEPT ![r] = Answered(r, {c})]
              \/ \E i \in Holding(c) :
                   /\ row[i].type = "incident" /\ row[i].system
                   /\ ~BadEnough(i, req[r].impact)
                   /\ \E l \in Local :
                        /\ req' = [req EXCEPT ![r] = l] /\ Same(l, req[r])
                        /\ l.pc = "matchHigher" /\ l.cur = {c} /\ l.old = Load(i)
                        /\ l.closeOld = req[r].closeOld
    BY <1>0, <1>1, FindEventsDoes
  <2>3. ASSUME NEW l \in Local, req' = [req EXCEPT ![r] = l], Same(l, m), l.pc = "matchTarget"
        PROVE  SInv'
    <3>1. Synced(l, row, link)
      BY <2>1, <2>3 DEF Synced, LeaveLabel, Same
    <3>2. QED
      BY <2>1, <2>3, <3>1, ReadsSynced, SyncedStep
  <2>4. CASE req' = [req EXCEPT ![r] = Answered(r, {c})]
    BY <1>0, <2>1, <2>4, AnsweredSynced, ReadsSynced, SyncedStep
  <2>5. ASSUME NEW i \in Holding(c), NEW l \in Local, req' = [req EXCEPT ![r] = l],
               Same(l, m), l.pc = "matchHigher", l.old = Load(i)
        PROVE  SInv'
    <3>1. Current(l.old, row, link)
      BY <2>5, LoadCurrent DEF Holding
    <3>2. Synced(l, row, link)
      BY <2>1, <2>5, <3>1 DEF Synced, Same
    <3>3. QED
      BY <2>1, <2>5, <3>2, ReadsSynced, SyncedStep
  <2>6. QED
    BY <2>2, <2>3, <2>4, <2>5
<1>2. CASE MatchTarget(r)
  <2>1. UNCHANGED store /\ m.pc = "matchTarget" /\ m.kind = "system" /\ m.opened = {}
    BY <1>0, <1>2, MatchTargetDoes DEF KindFits, JoinedFits
  <2>2. PICK l \in Local :
              /\ req' = [req EXCEPT ![r] = l] /\ Same(l, req[r]) /\ l.cur = req[r].cur
              /\ \/ /\ l.pc = "create" /\ SameImpact(r) = {}
                 \/ /\ l.pc = "link" /\ \E i \in SameImpact(r) : l.new = Joined(Load(i), l.cur)
    BY <1>0, <1>2, MatchTargetDoes
  <2>3. CASE l.pc = "create"
    <3>1. Synced(l, row, link)
      BY <2>1, <2>2, <2>3 DEF Synced, LeaveLabel, Same
    <3>2. QED
      BY <2>1, <2>2, <3>1, ReadsSynced, SyncedStep
  <2>4. CASE l.pc = "link" /\ \E i \in SameImpact(r) : l.new = Joined(Load(i), l.cur)
    <3>1. PICK i \in EventId : l.new = Joined(Load(i), l.cur)
      BY <2>4 DEF SameImpact
    <3>2. /\ l.new.id = i /\ l.new.row = row[i]
          /\ l.new.comps = CompsIn(i, link) \cup l.cur
      BY <3>1 DEF Joined, Load, CompsIn, ComponentsOf
    <3>3. Synced(l, row, link)
      BY <2>1, <2>2, <2>4, <3>2 DEF Synced, LeaveLabel, Same
    <3>4. QED
      BY <2>1, <2>2, <3>3, ReadsSynced, SyncedStep
  <2>5. QED
    BY <2>2, <2>3, <2>4
<1>3. CASE MatchHigher(r)
  <2>1. UNCHANGED store /\ m.pc = "matchHigher" /\ m.kind = "system" /\ m.opened = {}
    BY <1>0, <1>3, MatchHigherDoes DEF KindFits, JoinedFits
  <2>2. /\ Current(m.old, row, link) /\ m.old.row.impact < m.impact /\ m.old \in Copy
        /\ m.impact \in Impact
    BY <1>0, <2>1, LocalTyped DEF Synced, LeftFits, LeaveLabel, Monitor, Local
  <2>3. PICK l \in Local :
              /\ req' = [req EXCEPT ![r] = l] /\ Same(l, req[r])
              /\ l.cur = req[r].cur /\ l.old = req[r].old
              /\ \/ /\ l.pc = "move" /\ \E i \in SameImpact(r) : l.new = Load(i)
                 \/ /\ SameImpact(r) = {}
                    /\ l.pc = IF OneComponent(l.old) THEN "raise" ELSE "extract"
    BY <1>0, <1>3, MatchHigherDoes
  <2>4. ASSUME NEW i \in SameImpact(r), l.pc = "move", l.new = Load(i)
        PROVE  SInv'
    <3>1. i \in EventId /\ row[i].impact = m.impact
      BY DEF SameImpact
    <3>2. i # m.old.id
      BY <2>2, <3>1, MaxImpactAssumption DEF Current, Impact
    <3>3. Current(l.old, row, link) /\ Current(l.new, row, link) /\ l.old.id # l.new.id
      BY <2>2, <2>3, <2>4, <3>1, <3>2, LoadCurrent, LoadId
    <3>4. Synced(l, row, link)
      BY <2>1, <2>3, <2>4, <3>3 DEF Synced, Same
    <3>5. QED
      BY <2>1, <2>3, <3>4, ReadsSynced, SyncedStep
  <2>5. CASE l.pc \in {"raise", "extract"}
    <3>1. Synced(l, row, link)
      BY <2>1, <2>2, <2>3, <2>5 DEF Synced, Same
    <3>2. QED
      BY <2>1, <2>3, <3>1, ReadsSynced, SyncedStep
  <2>6. QED
    BY <2>3, <2>4, <2>5
<1>4. CASE NextComponent(r)
  <2>1. /\ UNCHANGED store /\ m.pc = "nextComponent"
        /\ Current(m.new, row, link)
        /\ \A o \in m.opened : Current(o, row, link) /\ o.id # m.new.id
    BY <1>0, <1>4, NextComponentDoes DEF Synced
  <2>2. PICK c \in m.todo :
              \/ /\ \A o \in req[r].opened : o.row.type = "incident" => c \notin o.comps
                 /\ req' = [req EXCEPT ![r] = Answered(r, {c})]
              \/ \E o \in req[r].opened, l \in Local :
                   /\ o.row.type = "incident" /\ c \in o.comps
                   /\ req' = [req EXCEPT ![r] = l] /\ Same(l, req[r])
                   /\ l.pc = "move" /\ l.cur = {c} /\ l.old = o /\ l.new = req[r].new
                   /\ l.closeOld = OneComponent(o)
    BY <1>0, <1>4, NextComponentDoes
  <2>3. CASE req' = [req EXCEPT ![r] = Answered(r, {c})]
    <3> DEFINE l == Answered(r, {c})
    <3>1. m.kind = "regular"
      BY <1>0, <2>1 DEF KindFits
    <3>2. l = Idle \/ GoesOn(l, m, {c})
      BY <1>0, AnsweredDoes
    <3>3. CASE GoesOn(l, m, {c})
      <4>1. l.pc = "nextComponent" /\ l.new = m.new /\ l.opened = m.opened
        BY <3>1, <3>3 DEF GoesOn
      <4> HIDE DEF l, m
      <4>2. Synced(l, row, link)
        BY <2>1, <4>1 DEF Synced, LeaveLabel
      <4>3. QED
        BY <2>1, <2>3, <4>2, ReadsSynced, SyncedStep DEF l
    <3>4. QED
      BY <2>1, <2>3, <3>2, <3>3, IdleSynced, ReadsSynced, SyncedStep
  <2>4. ASSUME NEW o \in m.opened, NEW l \in Local, req' = [req EXCEPT ![r] = l], Same(l, m),
               l.pc = "move", l.old = o, l.new = m.new
        PROVE  SInv'
    <3>1. Synced(l, row, link)
      BY <2>1, <2>4 DEF Synced, Same
    <3>2. QED
      BY <2>1, <2>4, <3>1, ReadsSynced, SyncedStep
  <2>5. QED
    BY <2>2, <2>3, <2>4
<1>5. QED
  BY <1>1, <1>2, <1>3, <1>4

\* The writes after which nothing, or only an id, is left in hand.
LEMMA LastWritesSynced ==
  ASSUME IInv, HInv, CInv, SInv, NEW r, Request = {r},
         Link(r) \/ MarkSystem(r) \/ Raise(r) \/ Patch(r) \/ Reopen(r) \/ Fail(r)
  PROVE  SInv'
<1>0. r \in Request /\ StoreTypeOK /\ NoStrays /\ InHand(req[r], events)
  BY LocalTyped, ReqSynced
<1>1. CASE Link(r) \/ MarkSystem(r) \/ Raise(r)
  <2>1. req[r].pc \in {"link", "markSystem", "raise"}
        /\ req' = [req EXCEPT ![r] = Answered(r, req[r].cur)]
    BY <1>1 DEF Link, MarkSystem, Raise, At, Answer
  <2>2. req[r].kind # "regular"
    BY <1>0, <2>1, LocalTyped DEF ReportLabel
  <2>3. \A R, L : Synced(Answered(r, req[r].cur), R, L)
    BY <1>0, <2>2, AnsweredSynced
  <2>4. PICK copy \in Copy : ModifyIncident(copy) /\ copy.id \in {req[r].old.id, req[r].new.id}
                                                  /\ copy.id \in events
    <3>1. CASE Link(r)
      BY <1>0, <3>1, LocalTyped DEF Link, At, JoinLabel, InHand
    <3>2. CASE MarkSystem(r)
      <4> DEFINE copy == [req[r].new EXCEPT !.row.system = TRUE]
      <4>1. req[r].new \in Copy /\ req[r].new.id \in events /\ ModifyIncident(copy)
        BY <1>0, <3>2, LocalTyped DEF MarkSystem, At, JoinLabel, InHand
      <4>2. copy \in Copy /\ copy.id = req[r].new.id
        BY <4>1 DEF Copy, Row
      <4> HIDE DEF copy
      <4>3. QED
        BY <4>1, <4>2
    <3>3. CASE Raise(r)
      <4> DEFINE copy == [req[r].old EXCEPT !.row.impact = req[r].impact]
      <4>1. /\ req[r].old \in Copy /\ req[r].old.id \in events /\ ModifyIncident(copy)
            /\ req[r].impact \in Impact
        BY <1>0, <3>3, LocalTyped DEF Raise, At, LeaveLabel, InHand, Local
      <4>2. copy \in Copy /\ copy.id = req[r].old.id
        BY <4>1 DEF Copy, Row
      <4> HIDE DEF copy
      <4>3. QED
        BY <4>1, <4>2
    <3>4. QED
      BY <1>1, <3>1, <3>2, <3>3
  <2>5. NoStrays'
    <3>1. events' = events /\ link' \subseteq link \cup ({copy.id} \X Component)
      BY <2>4 DEF ModifyIncident, Copy
    <3>2. {copy.id} \subseteq events'
      BY <2>4, <3>1
    <3>3. QED
      BY <1>0, <3>1, <3>2, NoStraysKept
  <2>6. QED
    BY <2>1, <2>3, <2>5, SyncedStep
<1>2. CASE Patch(r)
  <2>1. /\ req[r].pc = "patch" /\ req[r].new \in Copy /\ ModifyIncident(req[r].new)
        /\ req[r].kind = "patch" /\ req[r].opened = {}
    BY <1>0, <1>2, PatchDoes, ReqChosen DEF KindFits, JoinedFits
  <2>2. NoStrays'
    <3>1. /\ events' = events /\ link' \subseteq link \cup ({req[r].new.id} \X Component)
          /\ req[r].new.id \in events
      BY <1>0, <2>1 DEF ModifyIncident, Copy, InHand, JoinLabel
    <3>2. {req[r].new.id} \subseteq events'
      BY <3>1
    <3>3. QED
      BY <1>0, <3>1, <3>2, NoStraysKept
  <2>3. \/ req' = [req EXCEPT ![r] = Idle]
        \/ \E l \in Local : req' = [req EXCEPT ![r] = l] /\ Same(l, req[r]) /\ l.pc = "reopen"
    BY <1>0, <1>2, PatchDoes
  <2>4. ASSUME NEW l \in Local, req' = [req EXCEPT ![r] = l], Same(l, req[r]), l.pc = "reopen"
        PROVE  SInv'
    <3>1. \A R, L : Synced(l, R, L)
      BY <2>1, <2>4 DEF Synced, LeaveLabel, Same
    <3>2. QED
      BY <2>2, <2>4, <3>1, SyncedStep
  <2>5. QED
    BY <2>2, <2>3, <2>4, IdleSynced, SyncedStep
<1>3. CASE Reopen(r) \/ Fail(r)
  <2>1. req' = [req EXCEPT ![r] = Idle] /\ events' = events /\ link' = link
    BY <1>3 DEF Reopen, Fail, ReOpenIncident, store
  <2>2. NoStrays'
    BY <1>0, <2>1 DEF NoStrays, CompsIn
  <2>3. QED
    BY <2>1, <2>2, IdleSynced, SyncedStep
<1>4. QED
  BY <1>1, <1>2, <1>3

LEMMA SavesSynced ==
  ASSUME IInv, HInv, CInv, SInv, NEW r, Request = {r}, Create(r) \/ Extract(r)
  PROVE  SInv'
<1> DEFINE m == req[r]
<1>0. /\ r \in Request /\ StoreTypeOK /\ m \in Local /\ m.cur \in SUBSET Component
      /\ KindFits(m) /\ CompsFit(m) /\ LeftFits(m) /\ JoinedFits(m)
      /\ NoStrays /\ Synced(m, row, link) /\ InHand(m, events)
  BY LocalTyped, ReqChosen, ReqSynced
<1>1. ASSUME NEW i \in EventId, NEW e \in Row, SaveIncident(i, e, m.cur)
      PROVE  /\ i \notin events /\ NoStrays'
             /\ row'[i] = e /\ CompsIn(i, link') = m.cur
             /\ \A copy : copy.id \in events /\ Current(copy, row, link)
                             => copy.id # i /\ Current(copy, row', link')
  <2>1. /\ i \notin events /\ events' = events \cup {i}
        /\ \A j \in EventId :
              /\ row'[j] = IF j = i THEN e ELSE row[j]
              /\ CompsIn(j, link') = IF j = i THEN CompsIn(j, link) \cup m.cur
                                     ELSE CompsIn(j, link)
    BY <1>0, <1>1, SaveEffect
  <2>2. NoStrays'
    <3>1. {i} \subseteq events' /\ link' \subseteq link \cup ({i} \X Component)
      BY <1>0, <1>1, <2>1 DEF SaveIncident
    <3>2. QED
      BY <1>0, <2>1, <3>1, NoStraysKept
  <2>3. CompsIn(i, link) = {} /\ events \subseteq EventId
    BY <1>0, <2>1 DEF NoStrays, StoreTypeOK
  <2> HIDE DEF m
  <2>4. QED
    BY <2>1, <2>2, <2>3 DEF Current
<1>2. CASE Create(r)
  <2>1. m.pc = "create"
    BY <1>0, <1>2, CreateDoes
  <2>2. PICK i \in EventId, e \in Row, l \in Local :
              /\ SaveIncident(i, e, req[r].cur)
              /\ e.type = req[r].type /\ e.system = (req[r].kind = "system")
              /\ e.impact = req[r].impact /\ e.dates = req[r].dates
              /\ req' = [req EXCEPT ![r] = l]
              /\ \/ req[r].kind = "v1" /\ l = Idle
                 \/ /\ req[r].kind # "v1" /\ Same(l, req[r]) /\ l.pc = "firstStatus"
                    /\ l.cur = req[r].cur
                    /\ l.new \in Copy /\ l.new.id = i /\ l.new.row = e /\ l.new.comps = l.cur
    BY <1>0, <1>2, CreateDoes
  <2>3. /\ i \notin events /\ NoStrays'
        /\ row'[i] = e /\ CompsIn(i, link') = m.cur
        /\ \A copy : copy.id \in events /\ Current(copy, row, link)
                        => copy.id # i /\ Current(copy, row', link')
    BY <1>1, <2>2
  <2>4. CASE l = Idle
    BY <2>2, <2>3, <2>4, IdleSynced, SyncedStep
  <2>5. CASE /\ Same(l, m) /\ l.pc = "firstStatus" /\ l.cur = m.cur
             /\ l.new.id = i /\ l.new.row = e /\ l.new.comps = l.cur
    <3>1. Current(l.new, row', link')
      BY <2>3, <2>5 DEF Current
    <3>2. \A o \in l.opened : Current(o, row', link') /\ o.id # i
      BY <1>0, <2>3, <2>5 DEF Same, Synced, InHand
    <3>3. Synced(l, row', link')
      BY <2>5, <3>1, <3>2 DEF Synced, LeaveLabel
    <3>4. QED
      BY <2>2, <2>3, <3>3, SyncedStep
  <2>6. QED
    BY <2>2, <2>4, <2>5
<1>3. CASE Extract(r)
  <2>1. m.pc = "extract"
    BY <1>0, <1>3, ExtractDoes
  <2>2. PICK i \in EventId, e \in Row, l \in Local :
              /\ SaveIncident(i, e, req[r].cur)
              /\ e.type = "incident" /\ ~e.system /\ e.impact = req[r].impact
              /\ e.dates = "open"
              /\ req' = [req EXCEPT ![r] = l] /\ Same(l, req[r]) /\ l.pc = "extractMove"
              /\ l.cur = req[r].cur /\ l.old = req[r].old
              /\ l.new \in Copy /\ l.new.id = i /\ l.new.row = e /\ l.new.comps = l.cur
    BY <1>0, <1>3, ExtractDoes
  <2>3. /\ i \notin events /\ NoStrays'
        /\ row'[i] = e /\ CompsIn(i, link') = m.cur
        /\ \A copy : copy.id \in events /\ Current(copy, row, link)
                        => copy.id # i /\ Current(copy, row', link')
    BY <1>1, <2>2
  <2>4. m.kind # "regular" /\ m.opened = {} /\ m.old.id \in events /\ Current(m.old, row, link)
    BY <1>0, <2>1 DEF KindFits, Monitor, JoinedFits, InHand, LeaveLabel, Synced
  <2>5. Current(l.new, row', link') /\ Current(l.old, row', link') /\ l.old.id # l.new.id
    BY <2>2, <2>3, <2>4 DEF Current
  <2>6. l.opened = {}
    BY <2>2, <2>4 DEF Same
  <2>7. Synced(l, row', link')
    BY <2>2, <2>5, <2>6 DEF Synced
  <2>8. QED
    BY <2>2, <2>3, <2>7, SyncedStep
<1>4. QED
  BY <1>2, <1>3

LEMMA FirstStatusSynced ==
  ASSUME IInv, HInv, CInv, SInv, NEW r, Request = {r}, FirstStatus(r)
  PROVE  SInv'
<1> DEFINE m == req[r]
<1>0. /\ r \in Request /\ StoreTypeOK /\ m \in Local
      /\ KindFits(m) /\ CompsFit(m) /\ LeftFits(m) /\ JoinedFits(m)
      /\ NoStrays /\ Synced(m, row, link) /\ InHand(m, events)
  BY LocalTyped, ReqChosen, ReqSynced
<1>1. m.pc = "firstStatus" /\ m.new \in Copy /\ m.new.id \in events
  BY <1>0, FirstStatusDoes, LocalTyped DEF JoinLabel, InHand
<1>2. PICK new \in Copy :
              /\ ModifyIncident(new)
              /\ new.id = req[r].new.id /\ new.comps = req[r].new.comps
              /\ new.row = [req[r].new.row EXCEPT !.status = InitialStatus(req[r].type)]
              /\ \/ /\ req[r].kind # "regular" \/ req[r].opened = {} \/ req[r].impact = 0
                    /\ req' = [req EXCEPT ![r] = Answered(r, req[r].cur)]
                 \/ /\ req[r].kind = "regular" /\ req[r].opened # {} /\ req[r].impact # 0
                    /\ \E l \in Local :
                         /\ req' = [req EXCEPT ![r] = l] /\ Same(l, req[r])
                         /\ l.pc = "nextComponent" /\ l.cur = {} /\ l.new = new
  BY <1>0, FirstStatusDoes
<1>3. NoStrays'
  <2>1. events' = events /\ link' \subseteq link \cup ({m.new.id} \X Component)
    BY <1>2 DEF ModifyIncident, Copy
  <2>2. {m.new.id} \subseteq events'
    BY <1>1, <2>1
  <2>3. QED
    BY <1>0, <2>1, <2>2, NoStraysKept
<1>4. CASE req' = [req EXCEPT ![r] = Answered(r, m.cur)]
  <2>1. m.kind = "regular" => m.todo \subseteq m.cur
    BY <1>0, <1>1 DEF CompsFit
  <2>2. \A R, L : Synced(Answered(r, m.cur), R, L)
    BY <1>0, <2>1, AnsweredSynced
  <2>3. QED
    BY <1>3, <1>4, <2>2, SyncedStep
<1>5. ASSUME NEW l \in Local, req' = [req EXCEPT ![r] = l], Same(l, m),
             l.pc = "nextComponent", l.new = new
      PROVE  SInv'
  <2>1. /\ Current(m.new, row, link)
        /\ \A o \in m.opened : Current(o, row, link) /\ o.id # m.new.id
        /\ \A o \in m.opened : o.id \in EventId
    BY <1>0, <1>1 DEF Synced, InHand, StoreTypeOK
  <2>2. \A i \in EventId :
              /\ row'[i] = IF i = new.id THEN NonZeroFields(row[i], new.row) ELSE row[i]
              /\ CompsIn(i, link') = IF i = new.id THEN CompsIn(i, link) \cup new.comps
                                     ELSE CompsIn(i, link)
    BY <1>0, <1>2, ModifyEffect
  <2>3. NonZeroFields(m.new.row, new.row) = new.row
    <3>1. m.new.row \in Row /\ InitialStatus(m.type) \in Status \ {NoStatus}
      BY <1>1 DEF Copy, InitialStatus, Status, IncidentOpenStatus, MaintenanceStatus, NoStatus
    <3>2. QED
      <4>1. /\ new.row \in Row /\ new.row.status # NoStatus
            /\ new.row.system = m.new.row.system /\ new.row.dates = m.new.row.dates
        BY <1>2, <3>1 DEF Copy, Row
      <4>2. QED
        BY <3>1, <4>1, WrittenBack
  <2>4. Current(new, row', link')
    <3>1. /\ row[new.id] = m.new.row /\ CompsIn(new.id, link) = new.comps
          /\ new.id \in EventId
      BY <1>2, <2>1 DEF Current, Copy
    <3>2. QED
      BY <2>2, <2>3, <3>1 DEF Current
  <2>5. \A o \in m.opened : Current(o, row', link') /\ o.id # new.id
    BY <1>2, <2>1, <2>2 DEF Current
  <2> HIDE DEF m
  <2>6. Synced(l, row', link')
    BY <1>5, <2>4, <2>5 DEF Synced, LeaveLabel, Same
  <2>7. QED
    BY <1>3, <1>5, <2>6, SyncedStep
<1>6. QED
  BY <1>2, <1>4, <1>5

\* What a move finds, and what it does to the tables.
LEMMA MoveFacts ==
  ASSUME IInv, HInv, CInv, SInv, NEW r \in Request, Move(r) \/ ExtractMove(r)
  PROVE  /\ StoreTypeOK /\ req[r] \in Local
         /\ req[r].pc = IF Move(r) THEN "move" ELSE "extractMove"
         /\ req[r].old \in Copy /\ req[r].new \in Copy /\ req[r].cur \in SUBSET Component
         /\ req[r].old.id \in events /\ req[r].new.id \in events
         /\ req[r].old.id # req[r].new.id /\ req[r].cur \subseteq req[r].old.comps
         /\ Current(req[r].old, row, link) /\ Current(req[r].new, row, link)
         /\ events' = events /\ NoStrays'
         /\ Left(req[r].cur, req[r].old, Move(r) /\ req[r].closeOld) \in Copy
         /\ Left(req[r].cur, req[r].old, Move(r) /\ req[r].closeOld).id = req[r].old.id
         /\ MoveDone(req[r].cur, Left(req[r].cur, req[r].old, Move(r) /\ req[r].closeOld),
                     req[r].new)
<1> DEFINE m == req[r]
<1>1. /\ m.pc \in {"move", "extractMove"} /\ m.pc = IF Move(r) THEN "move" ELSE "extractMove"
      /\ m \in Local /\ m.old \in Copy /\ m.new \in Copy /\ m.cur \in SUBSET Component
      /\ StoreTypeOK
  BY LocalTyped DEF Move, ExtractMove, At, JoinLabel, LeaveLabel, Local
<1>2. LeftFits(m) /\ NoStrays /\ Synced(m, row, link) /\ InHand(m, events)
  BY ReqChosen, ReqSynced
<1>3. /\ m.old.id \in events /\ m.new.id \in events
      /\ m.old.id # m.new.id /\ m.cur \subseteq m.old.comps
      /\ Current(m.old, row, link) /\ Current(m.new, row, link)
  BY <1>1, <1>2 DEF LeftFits, Synced, InHand, LeaveLabel, JoinLabel
<1> DEFINE closeOld == Move(r) /\ m.closeOld
           left == Left(m.cur, m.old, closeOld)
<1>4. closeOld \in BOOLEAN
  BY <1>1 DEF Local
<1>5. MoveComponents(m.cur, m.old, m.new, closeOld)
  <2>1. CASE Move(r)
    <3>1. closeOld = m.closeOld
      BY <1>1, <2>1 DEF Local
    <3>2. QED
      BY <2>1, <3>1 DEF Move
  <2>2. CASE ~Move(r)
    <3>1. closeOld = FALSE
      BY <2>2
    <3>2. QED
      BY <2>2, <3>1 DEF ExtractMove
  <2>3. QED
    BY <2>1, <2>2
<1> HIDE DEF closeOld
<1>6. left \in Copy /\ left.id = m.old.id
  <2>1. left \in Copy
    BY <1>1, <1>4, LeftTyped
  <2>2. left.id = m.old.id
    BY <1>1 DEF Left, Copy
  <2>3. QED
    BY <2>1, <2>2
<1>7. MoveDone(m.cur, left, m.new)
  BY <1>1, <1>3, <1>4, <1>5, MoveEffect
<1>8. events' = events /\ NoStrays'
  <2>1. events' = events /\ link' \subseteq link \cup ({m.old.id, m.new.id} \X Component)
    <3>1. m.cur \cup m.new.comps \subseteq Component /\ left.comps \subseteq Component
      BY <1>1, <1>6 DEF Copy
    <3>2. link' = (IF closeOld THEN link ELSE link \ ({m.old.id} \X m.cur))
                     \cup ({m.new.id} \X (m.new.comps \cup m.cur))
                     \cup ({m.old.id} \X left.comps)
          /\ events' = events
      BY <1>5 DEF MoveComponents
    <3> HIDE DEF m, left
    <3>3. QED
      BY <3>1, <3>2
  <2>2. {m.old.id, m.new.id} \subseteq events'
    BY <1>3, <2>1
  <2>3. QED
    BY <1>2, <2>1, <2>2, NoStraysKept
<1>9. QED
  BY <1>1, <1>3, <1>6, <1>7, <1>8 DEF closeOld

LEMMA MoveSynced ==
  ASSUME IInv, HInv, CInv, SInv, NEW r, Request = {r}, Move(r) \/ ExtractMove(r)
  PROVE  SInv'
<1> DEFINE m == req[r]
<1>0. /\ r \in Request /\ m \in Local
      /\ KindFits(m) /\ CompsFit(m) /\ JoinedFits(m) /\ Synced(m, row, link)
  BY LocalTyped, ReqChosen, ReqSynced
<1>1. /\ m.pc = IF Move(r) THEN "move" ELSE "extractMove"
      /\ m.old \in Copy /\ m.new \in Copy /\ m.cur \in SUBSET Component
      /\ m.old.id # m.new.id /\ m.cur \subseteq m.old.comps
      /\ Current(m.old, row, link) /\ Current(m.new, row, link)
      /\ NoStrays'
  BY <1>0, MoveFacts
<1> DEFINE left == Left(m.cur, m.old, Move(r) /\ m.closeOld)
<1>2. left \in Copy /\ left.id = m.old.id /\ MoveDone(m.cur, left, m.new)
  BY <1>0, MoveFacts
<1>3. /\ \A i \in EventId : i # m.old.id => row'[i] = row[i]
      /\ row'[left.id] = left.row /\ CompsIn(left.id, link') = left.comps
      /\ CompsIn(m.new.id, link') = m.new.comps \cup m.cur
      /\ \A i \in EventId : i # m.old.id /\ i # m.new.id => CompsIn(i, link') = CompsIn(i, link)
  <2> HIDE DEF left, m
  <2> QED
    BY <1>2 DEF MoveDone
<1>4. ASSUME m.cur \subseteq m.new.comps PROVE Current(m.new, row', link')
  <2>1. m.new.comps \cup m.cur = m.new.comps /\ m.new.id \in EventId
    BY <1>1, <1>4 DEF Copy
  <2> HIDE DEF m
  <2>2. QED
    BY <1>1, <1>3, <2>1 DEF Current
<1>5. CASE Move(r)
  <2>1. m.pc = "move" /\ left = Left(m.cur, m.old, m.closeOld)
    <3>1. (Move(r) /\ m.closeOld) = m.closeOld
      BY <1>0, <1>5 DEF Local
    <3>2. QED
      BY <1>1, <1>5, <3>1
  <2>2. \/ /\ m.kind = "regular" => m.todo \subseteq m.cur
           /\ req' = [req EXCEPT ![r] = Answered(r, m.cur)]
        \/ /\ m.kind = "regular"
           /\ \E l \in Local :
                /\ req' = [req EXCEPT ![r] = l]
                /\ l.kind = m.kind /\ l.type = m.type /\ l.impact = m.impact
                /\ l.dates = m.dates /\ l.pc = "nextComponent" /\ l.cur = {}
                /\ l.todo = m.todo \ m.cur /\ l.new = m.new
                /\ l.opened = (m.opened \ {m.old}) \cup {Left(m.cur, m.old, m.closeOld)}
    BY <1>0, <1>5, MoveDoes
  <2>3. CASE /\ m.kind = "regular" => m.todo \subseteq m.cur
             /\ req' = [req EXCEPT ![r] = Answered(r, m.cur)]
    BY <1>0, <1>1, <2>3, AnsweredSynced, SyncedStep
  <2>4. ASSUME m.kind = "regular", NEW l \in Local, req' = [req EXCEPT ![r] = l],
               l.pc = "nextComponent", l.new = m.new,
               l.opened = (m.opened \ {m.old}) \cup {left}
        PROVE  SInv'
    <3>1. m.cur \subseteq m.new.comps
      BY <1>0, <2>1, <2>4 DEF CompsFit
    <3>2. Current(l.new, row', link')
      BY <1>4, <2>4, <3>1
    <3>3. Current(left, row', link')
      BY <1>3 DEF Current
    <3>4. ASSUME NEW o \in m.opened \ {m.old}
          PROVE  Current(o, row', link') /\ o.id # m.new.id
      <4>1. o \in Copy /\ Current(o, row, link) /\ o.id # m.new.id
        BY <1>0, <2>1 DEF Synced, Local
      <4>2. o.id # m.old.id
        <5>1. ASSUME o.id = m.old.id PROVE o = m.old
          BY <1>1, <4>1, <5>1 DEF Current, Copy
        <5>2. QED
          BY <5>1
      <4> HIDE DEF m
      <4>3. QED
        BY <1>3, <4>1, <4>2 DEF Current, Copy
    <3>5. \A o \in l.opened : Current(o, row', link') /\ o.id # l.new.id
      <4> HIDE DEF m, left
      <4> QED
        BY <1>1, <1>2, <2>4, <3>3, <3>4
    <3>6. Synced(l, row', link')
      BY <2>4, <3>2, <3>5 DEF Synced, LeaveLabel
    <3>7. QED
      BY <1>1, <2>4, <3>6, SyncedStep
  <2>5. QED
    BY <2>1, <2>2, <2>3, <2>4
<1>6. CASE ExtractMove(r) /\ ~Move(r)
  <2>1. m.pc = "extractMove" /\ m.kind # "regular" /\ m.opened = {}
    BY <1>0, <1>1, <1>6 DEF KindFits, Monitor, JoinedFits
  <2>2. \/ /\ m.kind # "system" /\ req' = [req EXCEPT ![r] = Answered(r, m.cur)]
        \/ /\ m.kind = "system"
           /\ \E l \in Local :
                /\ req' = [req EXCEPT ![r] = l] /\ Same(l, m) /\ l.pc = "markSystem"
                /\ l.cur = m.cur /\ l.new = m.new
    BY <1>0, <1>6, ExtractMoveDoes
  <2>3. CASE req' = [req EXCEPT ![r] = Answered(r, m.cur)]
    BY <1>0, <1>1, <2>1, <2>3, AnsweredSynced, SyncedStep
  <2>4. ASSUME NEW l \in Local, req' = [req EXCEPT ![r] = l], Same(l, m), l.pc = "markSystem",
               l.new = m.new
        PROVE  SInv'
    <3>1. m.cur \subseteq m.new.comps
      BY <1>0, <2>1 DEF CompsFit
    <3>2. Current(l.new, row', link') /\ l.opened = {}
      BY <1>4, <2>1, <2>4, <3>1 DEF Same
    <3>3. Synced(l, row', link')
      BY <2>4, <3>2 DEF Synced, LeaveLabel
    <3>4. QED
      BY <1>1, <2>4, <3>3, SyncedStep
  <2>5. QED
    BY <2>2, <2>3, <2>4
<1>7. QED
  BY <1>5, <1>6

LEMMA InitSInv == Init => SInv
  BY IdleSynced DEF Init, StoreInit, SInv, NoStrays, CompsIn

LEMMA NextSInv ==
  ASSUME NEW r, Request = {r}
  PROVE  IInv /\ HInv /\ CInv /\ SInv /\ [Next]_vars => SInv'
<1> SUFFICES ASSUME IInv, HInv, CInv, SInv, [Next]_vars PROVE SInv'
  OBVIOUS
<1>1. ASSUME Handle(r) PROVE SInv'
  BY <1>1, ReadsOnSynced, LastWritesSynced, SavesSynced, FirstStatusSynced, MoveSynced DEF Handle
<1>2. CASE (\E w \in Window : ClockMoves(w)) /\ UNCHANGED req
  BY <1>2 DEF ClockMoves, SInv, NoStrays
<1>3. CASE UNCHANGED vars
  BY <1>3 DEF vars, SInv, NoStrays
<1>4. QED
  BY <1>1, <1>2, <1>3, ArriveSynced, LastWritesSynced DEF Next

\* All there is to know of one request at a time.
Serial == IInv /\ AInv /\ HInv /\ CInv /\ SInv

OneAtATime == \E r : Request = {r}

LEMMA InitSerial == Init => Serial
  BY InitIInv, InitAInv, InitHInv, InitCInv, InitSInv DEF Serial

LEMMA NextSerial ==
  ASSUME OneAtATime
  PROVE  Serial /\ [Next]_vars => Serial'
  BY NextIInv, NextAInv, NextHInv, NextCInv, NextSInv DEF Serial, OneAtATime

-----------------------------------------------------------------------------
(* What the steps of one request at a time do to the tables *)

LEMMA LinkEffect ==
  ASSUME IInv, HInv, SInv, NEW r \in Request, Link(r)
  PROVE  /\ req[r].pc = "link" /\ req[r].new.id \in events /\ events' = events
         /\ req' = [req EXCEPT ![r] = Answered(r, req[r].cur)]
         /\ \A i \in EventId :
              /\ row'[i] = row[i]
              /\ CompsIn(i, link') = IF i = req[r].new.id THEN CompsIn(i, link) \cup req[r].cur
                                     ELSE CompsIn(i, link)
<1> DEFINE m == req[r]
           new == m.new
<1>1. /\ m.pc = "link" /\ new \in Copy /\ new.id \in events /\ new.id \in EventId
      /\ ModifyIncident(new) /\ req' = [req EXCEPT ![r] = Answered(r, m.cur)]
      /\ StoreTypeOK /\ row[new.id] \in Row
      /\ new.row = row[new.id] /\ new.comps = CompsIn(new.id, link) \cup m.cur
  BY LocalTyped, ReqSynced DEF Link, At, Answer, JoinLabel, InHand, Synced, StoreTypeOK
<1> HIDE DEF new, m
<1>2. /\ events' = events
      /\ \A i \in EventId :
            /\ row'[i] = IF i = new.id THEN NonZeroFields(row[i], new.row) ELSE row[i]
            /\ CompsIn(i, link') = IF i = new.id THEN CompsIn(i, link) \cup new.comps
                                   ELSE CompsIn(i, link)
  BY <1>1, ModifyEffect
<1>3. NonZeroFields(row[new.id], new.row) = row[new.id]
  BY <1>1, WrittenBack
<1>4. QED
  BY <1>1, <1>2, <1>3 DEF new, m

\* The writes of one field of an event that the request holds as it is.
LEMMA FieldEffect ==
  ASSUME StoreTypeOK, NEW copy \in Copy, Current(copy, row, link), NEW f \in Row,
         copy.row.system => f.system, f.dates = copy.row.dates,
         f.status # NoStatus \/ f.status = copy.row.status,
         ModifyIncident([copy EXCEPT !.row = f])
  PROVE  /\ events' = events
         /\ \A i \in EventId : /\ row'[i] = IF i = copy.id THEN f ELSE row[i]
                               /\ CompsIn(i, link') = CompsIn(i, link)
<1> DEFINE new == [copy EXCEPT !.row = f]
<1>1. new \in Copy /\ new.id = copy.id /\ new.comps = copy.comps /\ new.row = f
  BY DEF Copy
<1>2. ModifyIncident(new)
  OBVIOUS
<1> HIDE DEF new
<1>3. /\ events' = events
      /\ \A i \in EventId :
            /\ row'[i] = IF i = new.id THEN NonZeroFields(row[i], new.row) ELSE row[i]
            /\ CompsIn(i, link') = IF i = new.id THEN CompsIn(i, link) \cup new.comps
                                   ELSE CompsIn(i, link)
  BY <1>1, <1>2, ModifyEffect
<1>4. copy.row \in Row /\ row[copy.id] = copy.row /\ CompsIn(copy.id, link) = copy.comps
  BY DEF Current, Copy
<1>5. NonZeroFields(copy.row, f) = f
  BY <1>4, WrittenBack
<1>6. ASSUME NEW i \in EventId
      PROVE  /\ row'[i] = IF i = copy.id THEN f ELSE row[i]
             /\ CompsIn(i, link') = CompsIn(i, link)
  <2>1. CASE i = copy.id
    <3>1. row'[i] = f
      BY <1>1, <1>3, <1>4, <1>5, <2>1
    <3>2. CompsIn(i, link') = CompsIn(i, link) \cup CompsIn(i, link)
      BY <1>1, <1>3, <1>4, <2>1
    <3>3. QED
      BY <2>1, <3>1, <3>2
  <2>2. CASE i # copy.id
    BY <1>1, <1>3, <2>2
  <2>3. QED
    BY <2>1, <2>2
<1>7. QED
  BY <1>3, <1>6

LEMMA FirstStatusEffect ==
  ASSUME IInv, HInv, SInv, NEW r \in Request, FirstStatus(r)
  PROVE  /\ req[r].pc = "firstStatus" /\ req[r].new.id \in events /\ events' = events
         /\ \A i \in EventId :
              /\ row'[i] = IF i = req[r].new.id
                           THEN [row[i] EXCEPT !.status = InitialStatus(req[r].type)]
                           ELSE row[i]
              /\ CompsIn(i, link') = CompsIn(i, link)
<1> DEFINE m == req[r]
           s == InitialStatus(m.type)
           f == [m.new.row EXCEPT !.status = s]
<1>1. /\ m.pc = "firstStatus" /\ m.new \in Copy /\ m.new.id \in events
      /\ StoreTypeOK /\ Current(m.new, row, link)
      /\ ModifyIncident([m.new EXCEPT !.row.status = s])
  BY LocalTyped, ReqSynced DEF FirstStatus, At, JoinLabel, InHand, Synced
<1>2. m.new.row \in Row /\ s \in Status \ {NoStatus} /\ row[m.new.id] = m.new.row
  BY <1>1 DEF Copy, Current, InitialStatus, Status, IncidentOpenStatus, MaintenanceStatus, NoStatus
<1> HIDE DEF s
<1>3. /\ f \in Row /\ f.system = m.new.row.system /\ f.dates = m.new.row.dates
      /\ f.status # NoStatus
  BY <1>2 DEF Row
<1>4. ModifyIncident([m.new EXCEPT !.row = f])
  BY <1>1
<1> HIDE DEF f
<1>5. /\ events' = events
      /\ \A i \in EventId : /\ row'[i] = IF i = m.new.id THEN f ELSE row[i]
                            /\ CompsIn(i, link') = CompsIn(i, link)
  BY <1>1, <1>3, <1>4, FieldEffect
<1>6. QED
  BY <1>1, <1>2, <1>5 DEF f, s

LEMMA MarkSystemEffect ==
  ASSUME IInv, HInv, SInv, NEW r \in Request, MarkSystem(r)
  PROVE  /\ req[r].pc = "markSystem" /\ req[r].new.id \in events /\ events' = events
         /\ req' = [req EXCEPT ![r] = Answered(r, req[r].cur)]
         /\ \A i \in EventId :
              /\ row'[i] = IF i = req[r].new.id THEN [row[i] EXCEPT !.system = TRUE]
                           ELSE row[i]
              /\ CompsIn(i, link') = CompsIn(i, link)
<1> DEFINE m == req[r]
           f == [m.new.row EXCEPT !.system = TRUE]
<1>1. /\ m.pc = "markSystem" /\ m.new \in Copy /\ m.new.id \in events
      /\ StoreTypeOK /\ Current(m.new, row, link)
      /\ ModifyIncident([m.new EXCEPT !.row.system = TRUE])
      /\ req' = [req EXCEPT ![r] = Answered(r, m.cur)]
  BY LocalTyped, ReqSynced DEF MarkSystem, Answer, At, JoinLabel, InHand, Synced
<1>2. m.new.row \in Row /\ row[m.new.id] = m.new.row
  BY <1>1 DEF Copy, Current
<1>3. f \in Row /\ f.system /\ f.dates = m.new.row.dates /\ f.status = m.new.row.status
  BY <1>2 DEF Row
<1>4. ModifyIncident([m.new EXCEPT !.row = f])
  BY <1>1
<1> HIDE DEF f
<1>5. /\ events' = events
      /\ \A i \in EventId : /\ row'[i] = IF i = m.new.id THEN f ELSE row[i]
                            /\ CompsIn(i, link') = CompsIn(i, link)
  BY <1>1, <1>3, <1>4, FieldEffect
<1>6. QED
  BY <1>1, <1>2, <1>5 DEF f

LEMMA RaiseEffect ==
  ASSUME IInv, HInv, SInv, NEW r \in Request, Raise(r)
  PROVE  /\ req[r].pc = "raise" /\ req[r].old.id \in events /\ events' = events
         /\ req' = [req EXCEPT ![r] = Answered(r, req[r].cur)]
         /\ \A i \in EventId :
              /\ row'[i] = IF i = req[r].old.id THEN [row[i] EXCEPT !.impact = req[r].impact]
                           ELSE row[i]
              /\ CompsIn(i, link') = CompsIn(i, link)
<1> DEFINE m == req[r]
           im == m.impact
           f == [m.old.row EXCEPT !.impact = im]
<1>1. /\ m.pc = "raise" /\ m.old \in Copy /\ m.old.id \in events /\ im \in Impact
      /\ StoreTypeOK /\ Current(m.old, row, link)
      /\ ModifyIncident([m.old EXCEPT !.row.impact = im])
      /\ req' = [req EXCEPT ![r] = Answered(r, m.cur)]
  BY LocalTyped, ReqSynced DEF Raise, Answer, At, LeaveLabel, InHand, Synced, Local
<1>2. m.old.row \in Row /\ row[m.old.id] = m.old.row
  BY <1>1 DEF Copy, Current
<1> HIDE DEF im
<1>3. /\ f \in Row /\ f.system = m.old.row.system /\ f.dates = m.old.row.dates
      /\ f.status = m.old.row.status
  BY <1>1, <1>2 DEF Row
<1>4. ModifyIncident([m.old EXCEPT !.row = f])
  BY <1>1
<1> HIDE DEF f
<1>5. /\ events' = events
      /\ \A i \in EventId : /\ row'[i] = IF i = m.old.id THEN f ELSE row[i]
                            /\ CompsIn(i, link') = CompsIn(i, link)
  BY <1>1, <1>3, <1>4, FieldEffect
<1>6. QED
  BY <1>1, <1>2, <1>5 DEF f, im

LEMMA PatchEffect ==
  ASSUME IInv, HInv, SInv, NEW r \in Request, Patch(r)
  PROVE  /\ req[r].pc = "patch" /\ req[r].new.id \in events /\ events' = events
         /\ \E t \in EventType, im \in Impact, s \in PatchStatus, d \in Dates :
              /\ PatchAccepted(row[req[r].new.id], t, im, s, d)
              /\ row'[req[r].new.id] = NonZeroFields(row[req[r].new.id],
                                          Patched(row[req[r].new.id], t, im, s, d))
         /\ \A i \in EventId : /\ i # req[r].new.id => row'[i] = row[i]
                               /\ CompsIn(i, link') = CompsIn(i, link)
<1> DEFINE m == req[r]
           new == m.new
<1>1. /\ m.pc = "patch" /\ new \in Copy /\ new.id \in events /\ new.id \in EventId
      /\ ModifyIncident(new) /\ StoreTypeOK /\ Synced(m, row, link)
  BY LocalTyped, PatchDoes, ReqSynced DEF JoinLabel, InHand, StoreTypeOK
<1>2. PICK t \in EventType, im \in Impact, s \in PatchStatus, d \in Dates :
         /\ PatchAccepted(row[new.id], t, im, s, d)
         /\ new.row = Patched(row[new.id], t, im, s, d)
  BY <1>1 DEF Synced
<1>3. new.comps = CompsIn(new.id, link)
  BY <1>1 DEF Synced
<1> HIDE DEF new, m
<1>4. /\ events' = events
      /\ \A i \in EventId :
            /\ row'[i] = IF i = new.id THEN NonZeroFields(row[i], new.row) ELSE row[i]
            /\ CompsIn(i, link') = IF i = new.id THEN CompsIn(i, link) \cup new.comps
                                   ELSE CompsIn(i, link)
  BY <1>1, ModifyEffect
<1>5. row'[new.id] = NonZeroFields(row[new.id], Patched(row[new.id], t, im, s, d))
  BY <1>1, <1>2, <1>4
<1>6. QED
  BY <1>1, <1>2, <1>3, <1>4, <1>5 DEF new, m

LEMMA ReopenEffect ==
  ASSUME IInv, HInv, SInv, NEW r \in Request, Reopen(r)
  PROVE  /\ req[r].pc = "reopen" /\ req[r].new.id \in events /\ events' = events
         /\ req' = [req EXCEPT ![r] = Idle]
         /\ \A i \in EventId :
              /\ row'[i] = IF i = req[r].new.id THEN [row[i] EXCEPT !.dates = "open"]
                           ELSE row[i]
              /\ CompsIn(i, link') = CompsIn(i, link)
<1>1. /\ req[r].pc = "reopen" /\ req[r].new.id \in events /\ StoreTypeOK
      /\ ReOpenIncident(req[r].new.id) /\ req' = [req EXCEPT ![r] = Idle]
  BY LocalTyped, ReqSynced DEF Reopen, At, JoinLabel, InHand
<1>2. QED
  BY <1>1 DEF ReOpenIncident, StoreTypeOK

LEMMA ReadsWriteNothing ==
  ASSUME IInv, NEW r \in Request,
         Arrive(r) \/ FindEvents(r) \/ MatchTarget(r) \/ MatchHigher(r) \/ NextComponent(r) \/ Fail(r)
  PROVE  UNCHANGED store
<1>1. Arrive(r) => UNCHANGED store
  <2>1. SystemReport(r) => UNCHANGED store
    BY DEF SystemReport
  <2>2. RegularCreation(r) => UNCHANGED store
    BY DEF RegularCreation
  <2>3. V1Report(r) => UNCHANGED store
    BY DEF V1Report
  <2>4. ExtractRequest(r) => UNCHANGED store
    BY DEF ExtractRequest
  <2>5. PatchRequest(r) => UNCHANGED store
    BY DEF PatchRequest
  <2>6. QED
    BY <2>1, <2>2, <2>3, <2>4, <2>5 DEF Arrive
<1>2. FindEvents(r) => UNCHANGED store
  BY FindEventsDoes
<1>3. MatchTarget(r) => UNCHANGED store
  BY MatchTargetDoes
<1>4. MatchHigher(r) => UNCHANGED store
  BY MatchHigherDoes
<1>5. NextComponent(r) => UNCHANGED store
  BY NextComponentDoes
<1>6. Fail(r) => UNCHANGED store
  BY DEF Fail
<1>7. QED
  BY <1>1, <1>2, <1>3, <1>4, <1>5, <1>6

LEMMA ComponentsAreIn ==
  \A i \in EventId : ComponentsOf(i) = CompsIn(i, link) /\ ComponentsOf(i)' = CompsIn(i, link')
  BY DEF ComponentsOf, CompsIn

-----------------------------------------------------------------------------
(* Moves close what they empty *)

LEMMA StepEmpties ==
  ASSUME IInv, HInv, CInv, SInv, NEW r, Request = {r}, "system" \notin Kinds, [Next]_vars,
         At(r, "move"), req'[r] # req[r], NEW i \in EventId,
         row[i].dates = "open", row'[i].dates # "open"
  PROVE  ComponentsOf(i) = req[r].cur
<1>1. r \in Request /\ row' # row
  OBVIOUS
<1>2. Move(r)
  <2>1. Arrive(r) \/ Handle(r) \/ Fail(r)
    BY <1>1 DEF Next, vars
  <2>2. ~(\/ Arrive(r) \/ FindEvents(r) \/ MatchTarget(r) \/ MatchHigher(r)
          \/ NextComponent(r) \/ Fail(r))
    BY <1>1, ReadsWriteNothing DEF store
  <2>3. ~(\/ Link(r) \/ MarkSystem(r) \/ Create(r) \/ FirstStatus(r) \/ Raise(r) \/ Extract(r)
          \/ ExtractMove(r) \/ Patch(r) \/ Reopen(r))
    BY DEF Link, MarkSystem, Create, FirstStatus, Raise, Extract, ExtractMove, Patch, Reopen, At
  <2>4. QED
    BY <2>1, <2>2, <2>3 DEF Handle
<1> DEFINE m == req[r]
           left == Left(m.cur, m.old, Move(r) /\ m.closeOld)
<1>3. /\ m \in Local /\ m.pc = "move" /\ m.old \in Copy /\ Current(m.old, row, link)
      /\ left.id = m.old.id /\ MoveDone(m.cur, left, m.new)
  BY <1>1, <1>2, MoveFacts
<1>4. m.kind # "system" /\ LeftFits(m)
  BY <1>1, <1>3, ReqChosen DEF Local, At
<1>5. i = m.old.id
  <2> HIDE DEF left, m
  <2> QED
    BY <1>3 DEF MoveDone
<1>6. Move(r) /\ m.closeOld
  <2>1. ASSUME ~(Move(r) /\ m.closeOld) PROVE FALSE
    <3>1. left.row = m.old.row
      BY <1>3, <2>1 DEF Left, Copy
    <3>2. row'[i] = m.old.row /\ row[i] = m.old.row
      <4> HIDE DEF left, m
      <4> QED
        BY <1>3, <1>5, <3>1 DEF MoveDone, Current
    <3>3. QED
      BY <3>2
  <2>2. QED
    BY <2>1
<1>7. m.old.comps = m.cur
  BY <1>3, <1>4, <1>6 DEF LeftFits
<1>8. QED
  BY <1>3, <1>5, <1>7, ComponentsAreIn DEF Current

\* With one request at a time, and without the monitoring API, a move closes
\* the event it has emptied and no other.
THEOREM MovesEmptyWhatTheyClose ==
  ASSUME OneAtATime, "system" \notin Kinds
  PROVE  Spec => ClosedOnlyWhenEmptied
<1>1. Serial /\ [Next]_vars =>
        [\A r \in Request, i \in EventId :
            /\ At(r, "move") /\ req'[r] # req[r]
            /\ row[i].dates = "open" /\ row'[i].dates # "open"
            => ComponentsOf(i) = req[r].cur]_vars
  BY StepEmpties DEF Serial, OneAtATime
<1>2. QED
  BY InitSerial, NextSerial, <1>1, PTL DEF Spec, ClosedOnlyWhenEmptied

-----------------------------------------------------------------------------
(* Reports and the events of operators *)

LEMMA StepLeavesOperators ==
  ASSUME IInv, HInv, CInv, SInv, NEW r, Request = {r}, [Next]_vars,
         req[r].kind = "system", req'[r] # req[r], NEW i \in events, ~row[i].system,
         ~(At(r, "extractMove") /\ i = req[r].new.id),
         ~(At(r, "markSystem") /\ i = req[r].new.id)
  PROVE  Untouched(i)
<1> DEFINE m == req[r]
<1>0. /\ r \in Request /\ StoreTypeOK /\ m \in Local /\ i \in EventId /\ m.cur \in SUBSET Component
      /\ KindFits(m) /\ LeftFits(m) /\ JoinedFits(m) /\ Synced(m, row, link)
  BY LocalTyped, ReqChosen, ReqSynced DEF StoreTypeOK
<1>1. ASSUME row'[i] = row[i], CompsIn(i, link') = CompsIn(i, link)
      PROVE  Untouched(i)
  BY <1>0, <1>1, ComponentsAreIn DEF Untouched
<1>2. CASE \/ Arrive(r) \/ FindEvents(r) \/ MatchTarget(r) \/ MatchHigher(r)
           \/ NextComponent(r) \/ Fail(r)
  BY <1>0, <1>1, <1>2, ReadsWriteNothing DEF store
<1>3. CASE Link(r)
  <2>1. m.new.row.system /\ m.new.row = row[m.new.id]
    BY <1>0, <1>3, LinkEffect DEF JoinedFits, Synced
  <2>2. QED
    BY <1>0, <1>1, <1>3, <2>1, LinkEffect
<1>4. CASE MarkSystem(r)
  BY <1>0, <1>1, <1>4, MarkSystemEffect DEF At
<1>5. CASE FirstStatus(r)
  <2>1. m.new.row.system /\ m.new.row = row[m.new.id]
    BY <1>0, <1>5, FirstStatusEffect DEF JoinedFits, Synced, Current
  <2>2. QED
    BY <1>0, <1>1, <1>5, <2>1, FirstStatusEffect
<1>6. CASE Raise(r)
  <2>1. m.old.row.system /\ m.old.row = row[m.old.id]
    BY <1>0, <1>6, RaiseEffect DEF LeftFits, LeaveLabel, Synced, Current
  <2>2. QED
    BY <1>0, <1>1, <1>6, <2>1, RaiseEffect
<1>7. CASE Create(r) \/ Extract(r)
  <2>1. PICK j \in EventId, e \in Row : SaveIncident(j, e, m.cur)
    BY <1>0, <1>7, CreateDoes, ExtractDoes
  <2>2. QED
    BY <1>0, <1>1, <2>1, SaveEffect
<1>8. CASE Move(r) \/ ExtractMove(r)
  <2> DEFINE left == Left(m.cur, m.old, Move(r) /\ m.closeOld)
  <2>1. /\ m.pc = IF Move(r) THEN "move" ELSE "extractMove"
        /\ Current(m.old, row, link) /\ Current(m.new, row, link)
        /\ left.id = m.old.id /\ MoveDone(m.cur, left, m.new)
    BY <1>0, <1>8, MoveFacts
  <2>2. i # m.old.id
    BY <1>0, <2>1 DEF LeftFits, LeaveLabel, Current
  <2>3. i # m.new.id
    BY <1>0, <2>1 DEF JoinedFits, Current, At
  <2>4. row'[i] = row[i] /\ CompsIn(i, link') = CompsIn(i, link)
    <3> HIDE DEF left, m
    <3> QED
      BY <1>0, <2>1, <2>2, <2>3 DEF MoveDone
  <2>5. QED
    BY <1>1, <2>4
<1>9. CASE Patch(r) \/ Reopen(r)
  BY <1>0, <1>9, PatchEffect, ReopenEffect DEF KindFits
<1>10. CASE (\E w \in Window : ClockMoves(w) /\ UNCHANGED req) \/ UNCHANGED vars
  BY <1>10 DEF vars
<1>11. QED
  BY <1>2, <1>3, <1>4, <1>5, <1>6, <1>7, <1>8, <1>9, <1>10 DEF Next, Handle

\* With one request at a time a monitoring report leaves the events of
\* operators alone, wherever it fails.
THEOREM ReportsLeaveOperatorEvents ==
  ASSUME OneAtATime
  PROVE  Spec => OperatorEventsUntouched
<1>1. Serial /\ [Next]_vars =>
        [\A r \in Request : req[r].kind = "system" /\ req'[r] # req[r] =>
            \A i \in events :
               \/ row[i].system
               \/ At(r, "extractMove") /\ i = req[r].new.id
               \/ At(r, "markSystem")  /\ i = req[r].new.id
               \/ Untouched(i)]_vars
  BY StepLeavesOperators DEF Serial, OneAtATime
<1>2. QED
  BY InitSerial, NextSerial, <1>1, PTL DEF Spec, OperatorEventsUntouched

-----------------------------------------------------------------------------
(* Incidents in the feed *)

\* What checkPatchData asks of the type, the impact and the status.
LEMMA AcceptedDoes ==
  ASSUME NEW e \in Row, NEW t \in EventType, NEW im \in Impact, NEW s \in Status,
         NEW d \in Dates, PatchAccepted(e, t, im, s, d)
  PROVE  /\ (t = "incident") <=> (im # 0)
         /\ s \in PatchableStatus(e.type)
         /\ e.type = "incident" /\ e.dates # "open" => s \in IncidentClosedStatus
         /\ e.type = "incident" /\ e.dates = "open" /\ im # e.impact =>
               s = IncidentImpactChanged /\ im # 0
  BY DEF PatchAccepted

\* A PATCH leaves an event that fits the feed so, unless it turns an
\* information into a maintenance.
LEMMA PatchKeepsReadable ==
  ASSUME NEW e \in Row, NEW t \in EventType, NEW im \in Impact, NEW s \in Status, NEW d \in Dates,
         PatchAccepted(e, t, im, s, d), e.type # "info",
         e.type = "maintenance" => e.dates # "open",
         e.type = "incident" => e.impact # 0,
         NonZeroFields(e, Patched(e, t, im, s, d)).type = "maintenance"
  PROVE  NonZeroFields(e, Patched(e, t, im, s, d)).dates # "open"
<1> DEFINE f == Patched(e, t, im, s, d)
<1>1. f \in Row
  BY PatchedTyped
<1>2. f.type = t
  BY DEF Patched, Row
<1>3. NonZeroFields(e, f).type = "maintenance"
  OBVIOUS
<1>4. im # 0 => t = "incident"
  BY AcceptedDoes
<1>5. e.type = "incident" /\ e.dates = "open" /\ im # e.impact => im # 0
  BY AcceptedDoes
<1> HIDE DEF f
<1>6. /\ NonZeroFields(e, f).type = f.type
      /\ NonZeroFields(e, f).dates = IF f.dates = "open" THEN e.dates ELSE f.dates
  BY <1>1 DEF NonZeroFields, Row
<1>7. e.dates # "open"
  BY <1>2, <1>3, <1>4, <1>5, <1>6 DEF Row, EventType
<1>8. QED
  BY <1>6, <1>7 DEF f
LEMMA StepKeepsReadable ==
  ASSUME IInv, HInv, CInv, SInv, AllHaveComponents', NEW r, Request = {r}, [Next]_vars,
         "system" \notin Kinds, NEW i \in events',
         i \in events => createFeedItems(i) /\ Consistent(i), ~createFeedItems(i)'
  PROVE  /\ req[r].new.id = i
         /\ \/ At(r, "reopen")
            \/ At(r, "patch") /\ row[i].type = "info"
<1> DEFINE m == req[r]
<1>0. /\ r \in Request /\ StoreTypeOK /\ StoreTypeOK' /\ m \in Local /\ m.cur \in SUBSET Component
      /\ m.kind # "system" /\ i \in EventId /\ row[i] \in Row /\ row'[i] \in Row
      /\ KindFits(m) /\ LeftFits(m) /\ JoinedFits(m) /\ Synced(m, row, link)
  <2>1. IInv'
    BY NextIInv
  <2>2. r \in Request /\ StoreTypeOK /\ StoreTypeOK' /\ m \in Local
    BY <2>1, LocalTyped DEF IInv, TypeOK
  <2>3. QED
    BY <2>2, ReqChosen, ReqSynced DEF StoreTypeOK, Local
<1>1. row'[i].type = "maintenance" /\ row'[i].dates = "open"
  BY <1>0 DEF AllHaveComponents, createFeedItems, createMaintenanceFeedItems,
              createIncidentFeedItems, Row, EventType
<1>2. ASSUME i \in events, row'[i].type = row[i].type, row'[i].dates = row[i].dates PROVE FALSE
  BY <1>1, <1>2 DEF createFeedItems, createMaintenanceFeedItems
<1>3. CASE \/ Arrive(r) \/ FindEvents(r) \/ MatchTarget(r) \/ MatchHigher(r)
           \/ NextComponent(r) \/ Fail(r)
  BY <1>0, <1>2, <1>3, ReadsWriteNothing DEF store
<1>4. CASE Link(r)
  BY <1>0, <1>2, <1>4, LinkEffect
<1>5. CASE FirstStatus(r)
  <2>1. row'[i].type = row[i].type /\ row'[i].dates = row[i].dates
    BY <1>0, <1>5, FirstStatusEffect DEF Row
  <2>2. QED
    BY <1>0, <1>2, <1>5, <2>1, FirstStatusEffect
<1>6. CASE MarkSystem(r)
  BY <1>0, <1>6, MarkSystemEffect DEF KindFits
<1>7. CASE Raise(r)
  <2>1. row'[i].type = row[i].type /\ row'[i].dates = row[i].dates
    BY <1>0, <1>7, RaiseEffect DEF Row
  <2>2. QED
    BY <1>0, <1>2, <1>7, <2>1, RaiseEffect
<1>8. CASE Create(r) \/ Extract(r)
  <2>1. PICK j \in EventId, e \in Row :
           /\ SaveIncident(j, e, m.cur)
           /\ e.type = "maintenance" => e.dates # "open"
    <3>1. CASE Create(r)
      <4>1. PICK j \in EventId, e \in Row :
               SaveIncident(j, e, m.cur) /\ e.type = m.type /\ e.dates = m.dates
        BY <1>0, <3>1, CreateDoes
      <4>2. m.pc = "create"
        BY <1>0, <3>1, CreateDoes
      <4>3. e.type = "maintenance" => e.dates # "open"
        BY <1>0, <4>1, <4>2 DEF JoinedFits
      <4>4. QED
        BY <4>1, <4>3
    <3>2. CASE Extract(r)
      BY <1>0, <3>2, ExtractDoes
    <3>3. QED
      BY <1>8, <3>1, <3>2
  <2>2. /\ events' = events \cup {j}
        /\ row'[i] = IF i = j THEN e ELSE row[i]
    BY <1>0, <2>1, SaveEffect
  <2>3. QED
    BY <1>1, <1>2, <2>1, <2>2
<1>9. CASE Move(r) \/ ExtractMove(r)
  <2> DEFINE left == Left(m.cur, m.old, Move(r) /\ m.closeOld)
  <2>1. /\ m.old \in Copy /\ Current(m.old, row, link) /\ left.id = m.old.id
        /\ MoveDone(m.cur, left, m.new) /\ events' = events
    BY <1>0, <1>9, MoveFacts
  <2>2. /\ left.row.type = m.old.row.type
        /\ left.row.dates # "open" \/ left.row.dates = m.old.row.dates
    BY <2>1 DEF Left, Copy, Row
  <2>3. /\ row'[i] = IF i = m.old.id THEN left.row ELSE row[i]
        /\ m.old.row = row[m.old.id]
    <3> HIDE DEF left, m
    <3> QED
      BY <1>0, <2>1 DEF MoveDone, Current
  <2>4. QED
    <3> HIDE DEF left
    <3> QED
      BY <1>1, <1>2, <2>1, <2>2, <2>3
<1>10. CASE Patch(r)
  <2>1. /\ m.pc = "patch" /\ events' = events /\ m.new.id \in events
        /\ i # m.new.id => row'[i] = row[i]
    BY <1>0, <1>10, PatchEffect
  <2>2. i = m.new.id
    BY <1>2, <2>1
  <2>3. PICK t \in EventType, im \in Impact, s \in PatchStatus, d \in Dates :
           /\ PatchAccepted(row[i], t, im, s, d)
           /\ row'[i] = NonZeroFields(row[i], Patched(row[i], t, im, s, d))
    BY <1>0, <1>10, <2>2, PatchEffect
  <2>4. /\ row[i].type = "maintenance" => row[i].dates # "open"
        /\ row[i].type = "incident" => row[i].impact # 0
    BY <2>1, <2>2 DEF createFeedItems, createMaintenanceFeedItems, Consistent
  <2>5. s \in Status
    BY PatchStatusAssumption
  <2>6. row[i].type = "info"
    BY <1>0, <1>1, <2>3, <2>4, <2>5, PatchKeepsReadable
  <2>7. QED
    BY <2>1, <2>2, <2>6 DEF At
<1>11. CASE Reopen(r)
  BY <1>0, <1>2, <1>11, ReopenEffect DEF At
<1>12. CASE (\E w \in Window : ClockMoves(w) /\ UNCHANGED req) \/ UNCHANGED vars
  BY <1>2, <1>12 DEF vars, ClockMoves
<1>13. QED
  BY <1>3, <1>4, <1>5, <1>6, <1>7, <1>8, <1>9, <1>10, <1>11, <1>12 DEF Next, Handle

\* With one request at a time, without the monitoring API and with extractions
\* of one component at a time, only the three exceptions the property names
\* make an event unfit for the RSS feed.
THEOREM FeedKeepsReadable ==
  ASSUME OneAtATime, "system" \notin Kinds, MaxEntries <= 1
  PROVE  Spec => FeedStaysReadable
<1>1. Init => AllHaveComponents
  BY DEF Init, StoreInit, AllHaveComponents
<1>2. Serial /\ AllHaveComponents /\ [Next]_vars => AllHaveComponents'
  BY StepKeepsComponents DEF Serial
<1>3. Serial /\ AllHaveComponents' /\ [Next]_vars =>
        [\A i \in events' :
            /\ i \in events => createFeedItems(i) /\ Consistent(i)
            /\ ~createFeedItems(i)'
            => \E r \in Request :
                  /\ req[r].new.id = i
                  /\ \/ At(r, "reopen")
                     \/ At(r, "patch") /\ row[i].type = "info"]_vars
  BY StepKeepsReadable DEF Serial, OneAtATime
<1>4. QED
  BY InitSerial, NextSerial, <1>1, <1>2, <1>3, PTL DEF Spec, FeedStaysReadable

-----------------------------------------------------------------------------
(* Incidents without a schedule *)

LEMMA UnscheduledOpen ==
  ASSUME StoreTypeOK, Unscheduled, NEW i \in EventId, Active(i), row[i].type = "incident"
  PROVE  OpenIncident(i)
  BY DEF Unscheduled, Active, OpenIncident

\* What a PATCH in progress does to an incident.
LEMMA ProgressPatch ==
  ASSUME NEW e \in Row, NEW t \in EventType, NEW im \in Impact, NEW s \in Progress,
         NEW d \in Dates, PatchAccepted(e, t, im, s, d),
         NonZeroFields(e, Patched(e, t, im, s, d)).type = "incident"
  PROVE  /\ e.type = "incident" /\ e.dates = "open"
         /\ NonZeroFields(e, Patched(e, t, im, s, d)).dates \in {"open", "past"}
         /\ NonZeroFields(e, Patched(e, t, im, s, d)).impact = e.impact
         /\ NonZeroFields(e, Patched(e, t, im, s, d)).system = e.system
<1> DEFINE f == Patched(e, t, im, s, d)
           g == NonZeroFields(e, f)
<1>1. s \in Status /\ s # IncidentImpactChanged
      /\ s \in {"detected", "analysing", "fixing", "observing", "resolved"}
  BY DEF Progress, Status, IncidentOpenStatus
<1>2. f \in Row
  BY <1>1, PatchedTyped
<1>3. f.type = t /\ f.impact = im /\ f.system = e.system
  BY DEF Patched, Row
<1>4. e.type = "incident" /\ e.dates = "open" /\ im = e.impact /\ (t = "incident" <=> im # 0)
  <2>1. s \notin IncidentClosedStatus /\ s \notin MaintenanceStatus /\ s \notin InformationStatus
    <3>1. MaintenanceInProgress \notin {"detected", "analysing", "fixing", "observing", "resolved"}
      BY Zenon DEF MaintenanceInProgress
    <3>2. QED
      BY <1>1, <3>1 DEF IncidentClosedStatus, MaintenanceStatus, InformationStatus
  <2>2. e.type = "incident"
    BY <1>1, <2>1, AcceptedDoes DEF PatchableStatus, Row, EventType
  <2>3. e.dates = "open"
    BY <1>1, <2>1, <2>2, AcceptedDoes
  <2>4. QED
    BY <1>1, <2>2, <2>3, AcceptedDoes
<1>5. g.type = "incident"
  OBVIOUS
<1>6. s # "reopened"
  BY <1>1
<1>7. e.impact # 0 => f.dates \in {"open", "past"}
  BY <1>4, <1>6 DEF Patched, Row
<1> HIDE DEF f
<1>8. /\ g.type = f.type /\ g.impact = f.impact /\ g.system = (e.system \/ f.system)
      /\ g.dates = IF f.dates = "open" THEN e.dates ELSE f.dates
  BY <1>2 DEF NonZeroFields, Row
<1> HIDE DEF g
<1>9. g.dates \in {"open", "past"} /\ g.impact = e.impact /\ g.system = e.system
  BY <1>3, <1>4, <1>5, <1>7, <1>8 DEF Row
<1>10. QED
  BY <1>4, <1>9 DEF f, g

LEMMA UInvStep ==
  ASSUME IInv, NEW r, Request = {r}, NEW l, req' = [req EXCEPT ![r] = l],
         Unscheduled', ChosenOpen(l)
  PROVE  UInv'
<1>1. req'[r] = l
  BY DEF IInv, TypeOK
<1>2. \A q \in Request : ChosenOpen(req'[q])
  BY <1>1
<1>3. QED
  BY <1>2 DEF UInv

LEMMA IdleOpen == ChosenOpen(Idle)
  BY DEF ChosenOpen, Idle, Monitor

LEMMA AnsweredOpen ==
  ASSUME IInv, NEW r \in Request, NEW cs
  PROVE  ChosenOpen(Answered(r, cs))
<1> DEFINE l == Answered(r, cs)
<1>1. CASE GoesOn(l, req[r], cs)
  <2> HIDE DEF l
  <2>1. ChosenOpen(l)
    BY <1>1 DEF GoesOn, ChosenOpen, LeaveLabel
  <2>2. QED
    BY <2>1 DEF l
<1>2. QED
  BY <1>1, AnsweredDoes, IdleOpen

\* The schedules of incidents after the writes.
LEMMA StaysUnscheduled ==
  ASSUME IInv, HInv, CInv, SInv, UInv, NEW r, Request = {r}, Arrive(r) \/ Handle(r) \/ Fail(r),
         Window = {} \/ PatchStatus \subseteq Progress
  PROVE  Unscheduled'
<1> DEFINE m == req[r]
<1>0. /\ r \in Request /\ StoreTypeOK /\ m \in Local /\ m.cur \in SUBSET Component
      /\ KindFits(m) /\ LeftFits(m) /\ JoinedFits(m) /\ Synced(m, row, link)
      /\ Unscheduled /\ "open" \notin Window /\ "past" \notin Window
      /\ \A i \in EventId : row[i] \in Row
  BY LocalTyped, ReqChosen, ReqSynced, WindowAssumption DEF UInv, StoreTypeOK
<1>1. ASSUME \A i \in EventId :
               \/ row'[i].dates \in {"open", "past"}
               \/ row'[i].dates = row[i].dates /\ row'[i].type = row[i].type
               \/ row'[i].type # "incident"
      PROVE  Unscheduled'
  BY <1>0, <1>1 DEF Unscheduled
<1>2. CASE \/ Arrive(r) \/ FindEvents(r) \/ MatchTarget(r) \/ MatchHigher(r)
           \/ NextComponent(r) \/ Fail(r)
  BY <1>0, <1>1, <1>2, ReadsWriteNothing DEF store
<1>3. CASE Link(r)
  BY <1>0, <1>1, <1>3, LinkEffect
<1>4. CASE FirstStatus(r)
  <2>1. \A i \in EventId : row'[i].dates = row[i].dates /\ row'[i].type = row[i].type
    BY <1>0, <1>4, FirstStatusEffect DEF Row
  <2>2. QED
    BY <1>1, <2>1
<1>5. CASE MarkSystem(r)
  <2>1. \A i \in EventId : row'[i].dates = row[i].dates /\ row'[i].type = row[i].type
    BY <1>0, <1>5, MarkSystemEffect DEF Row
  <2>2. QED
    BY <1>1, <2>1
<1>6. CASE Raise(r)
  <2>1. \A i \in EventId : row'[i].dates = row[i].dates /\ row'[i].type = row[i].type
    BY <1>0, <1>6, RaiseEffect DEF Row
  <2>2. QED
    BY <1>1, <2>1
<1>7. CASE Create(r)
  <2>1. PICK j \in EventId, e \in Row :
           SaveIncident(j, e, m.cur) /\ e.type = m.type /\ e.dates = m.dates
    BY <1>0, <1>7, CreateDoes
  <2>2. e.type = "incident" => e.dates = "open"
    BY <1>0, <1>7, <2>1, CreateDoes DEF JoinedFits
  <2>3. \A i \in EventId : row'[i] = IF i = j THEN e ELSE row[i]
    BY <1>0, <2>1, SaveEffect
  <2>4. QED
    BY <1>1, <2>2, <2>3
<1>8. CASE Extract(r)
  <2>1. PICK j \in EventId, e \in Row : SaveIncident(j, e, m.cur) /\ e.dates = "open"
    BY <1>0, <1>8, ExtractDoes
  <2>2. \A i \in EventId : row'[i] = IF i = j THEN e ELSE row[i]
    BY <1>0, <2>1, SaveEffect
  <2>3. QED
    BY <1>1, <2>1, <2>2
<1>9. CASE Move(r) \/ ExtractMove(r)
  <2> DEFINE left == Left(m.cur, m.old, Move(r) /\ m.closeOld)
  <2>1. /\ m.old \in Copy /\ Current(m.old, row, link) /\ left.id = m.old.id
        /\ MoveDone(m.cur, left, m.new)
    BY <1>0, <1>9, MoveFacts
  <2>2. left.row.dates = "past" \/ left.row = m.old.row
    BY <2>1 DEF Left, Copy, Row
  <2>3. \A i \in EventId : row'[i] = row[i] \/ row'[i].dates = "past"
    <3> HIDE DEF left, m
    <3> QED
      BY <2>1, <2>2 DEF MoveDone, Current
  <2>4. QED
    BY <1>1, <2>3
<1>10. CASE Patch(r) /\ Window = {}
  BY <1>10 DEF Unscheduled
<1>11. CASE Patch(r) /\ PatchStatus \subseteq Progress
  <2>1. /\ m.new.id \in EventId
        /\ \A i \in EventId : i # m.new.id => row'[i] = row[i]
    BY <1>0, <1>11, PatchEffect DEF StoreTypeOK
  <2>2. PICK t \in EventType, im \in Impact, s \in PatchStatus, d \in Dates :
           /\ PatchAccepted(row[m.new.id], t, im, s, d)
           /\ row'[m.new.id] = NonZeroFields(row[m.new.id], Patched(row[m.new.id], t, im, s, d))
    BY <1>0, <1>11, PatchEffect
  <2>3. s \in Progress
    BY <1>11
  <2>4. row'[m.new.id].type = "incident" => row'[m.new.id].dates \in {"open", "past"}
    BY <1>0, <2>1, <2>2, <2>3, ProgressPatch
  <2>5. QED
    BY <1>1, <2>1, <2>4
<1>12. CASE Reopen(r)
  <2>1. \A i \in EventId : row'[i] = row[i] \/ row'[i].dates = "open"
    BY <1>0, <1>12, ReopenEffect DEF Row
  <2>2. QED
    BY <1>1, <2>1
<1>13. QED
  BY <1>2, <1>3, <1>4, <1>5, <1>6, <1>7, <1>8, <1>9, <1>10, <1>11, <1>12 DEF Handle

\* The structs a report chooses are those of open incidents: those it loads
\* are active, and an active incident without a schedule is open.
LEMMA ArriveOpen ==
  ASSUME IInv, CInv', UInv, NEW r, Request = {r}, Arrive(r)
  PROVE  UInv'
<1>0. r \in Request /\ StoreTypeOK /\ Unscheduled
  BY LocalTyped DEF UInv
<1>1. Unscheduled'
  BY <1>0, ReadsWriteNothing DEF store, Unscheduled
<1>2. ASSUME NEW l \in Local, req' = [req EXCEPT ![r] = l], l.kind \notin Monitor
      PROVE  UInv'
  BY <1>1, <1>2, UInvStep DEF ChosenOpen
<1>3. CASE RegularCreation(r)
  BY <1>0, <1>2, <1>3, RegularCreationDoes DEF Monitor
<1>4. CASE ExtractRequest(r)
  BY <1>0, <1>2, <1>4, ExtractRequestDoes DEF Monitor
<1>5. CASE PatchRequest(r)
  BY <1>0, <1>2, <1>5, PatchRequestDoes DEF Monitor, Asks
<1>6. CASE SystemReport(r)
  <2>1. PICK l \in Local : req' = [req EXCEPT ![r] = l] /\ l.pc = "findEvents"
    BY <1>0, <1>6, SystemReportDoes
  <2>2. ChosenOpen(l)
    BY <2>1 DEF ChosenOpen, LeaveLabel
  <2>3. QED
    BY <1>1, <2>1, <2>2, UInvStep
<1>7. CASE V1Report(r)
  <2>1. PICK c \in Component, l \in Local :
          /\ req' = [req EXCEPT ![r] = l]
          /\ l.kind = "v1"
          /\ \/ l.pc = "link" /\ \E i \in Alike(l.impact) : l.new = Joined(Load(i), l.cur)
             \/ l.pc = "create"
             \/ \E o \in Holding(c) :
                  /\ l.old = Load(o)
                  /\ \/ l.pc = "move" /\ \E i \in Alike(l.impact) : l.new = Load(i)
                     \/ l.pc \in {"raise", "extract"}
    BY <1>0, <1>7, V1ReportDoes
  <2>2. LeftFits(l) /\ JoinedFits(l)
    <3>1. req'[r] = l
      BY <1>0, <2>1 DEF IInv, TypeOK
    <3>2. QED
      BY <1>0, <3>1 DEF CInv, Chosen
  <2>3. ASSUME l.pc \in LeaveLabel PROVE l.old.row.dates = "open"
    <3>1. PICK o \in Holding(c) : l.old = Load(o)
      BY <2>1, <2>3 DEF LeaveLabel
    <3>2. o \in EventId /\ Active(o) /\ l.old.row = row[o] /\ l.old.row.type = "incident"
      BY <2>1, <2>2, <2>3, <3>1 DEF Holding, Load, LeftFits, Monitor
    <3>3. QED
      BY <1>0, <3>2, UnscheduledOpen DEF OpenIncident
  <2>4. ASSUME l.pc \in {"link", "move"} PROVE l.new.row.dates = "open"
    <3>1. PICK i \in Alike(l.impact) : l.new = Joined(Load(i), l.cur) \/ l.new = Load(i)
      BY <2>1, <2>4
    <3>2. i \in EventId /\ Active(i) /\ l.new.row = row[i] /\ l.new.row.type = "incident"
      BY <2>1, <2>2, <2>4, <3>1 DEF Alike, Load, Joined, JoinedFits, Monitor
    <3>3. QED
      BY <1>0, <3>2, UnscheduledOpen DEF OpenIncident
  <2>5. ChosenOpen(l)
    BY <2>3, <2>4 DEF ChosenOpen
  <2>6. QED
    BY <1>1, <2>1, <2>5, UInvStep
<1>8. QED
  BY <1>3, <1>4, <1>5, <1>6, <1>7 DEF Arrive

LEMMA HandleOpen ==
  ASSUME IInv, CInv, UInv, Unscheduled', NEW r, Request = {r}, Handle(r)
  PROVE  UInv'
<1> DEFINE m == req[r]
<1>0. /\ r \in Request /\ StoreTypeOK /\ Unscheduled /\ KindFits(m) /\ JoinedFits(m)
      /\ ChosenOpen(m)
  BY LocalTyped, ReqChosen DEF UInv
<1>1. CASE \E cs : req' = [req EXCEPT ![r] = Answered(r, cs)]
  BY <1>0, <1>1, AnsweredOpen, UInvStep
<1>2. CASE req' = [req EXCEPT ![r] = Idle]
  BY <1>2, IdleOpen, UInvStep
<1>3. ASSUME NEW l \in Local, req' = [req EXCEPT ![r] = l],
             \/ l.kind \notin Monitor
             \/ l.pc \notin LeaveLabel \cup {"link"}
             \/ l.pc \in {"raise", "extract", "extractMove"} /\ l.kind = m.kind
                /\ l.old = m.old /\ m.pc \in LeaveLabel
      PROVE  UInv'
  <2>1. ChosenOpen(l)
    BY <1>0, <1>3 DEF ChosenOpen, LeaveLabel
  <2>2. QED
    BY <1>3, <2>1, UInvStep
<1>4. CASE FindEvents(r)
  <2>1. ASSUME NEW i \in EventId, Active(i), row[i].type = "incident", NEW l \in Local,
               req' = [req EXCEPT ![r] = l], l.pc = "matchHigher", l.old = Load(i)
        PROVE  UInv'
    <3>1. l.old.row.dates = "open"
      BY <1>0, <2>1, UnscheduledOpen DEF OpenIncident, Load
    <3>2. ChosenOpen(l)
      BY <2>1, <3>1 DEF ChosenOpen
    <3>3. QED
      BY <2>1, <3>2, UInvStep
  <2>2. QED
    BY <1>0, <1>1, <1>3, <1>4, <2>1, FindEventsDoes DEF Holding, LeaveLabel
<1>5. CASE MatchTarget(r)
  <2>1. PICK l \in Local :
          /\ req' = [req EXCEPT ![r] = l]
          /\ \/ l.pc = "create"
             \/ l.pc = "link" /\ \E i \in SameImpact(r) : l.new = Joined(Load(i), l.cur)
    BY <1>0, <1>5, MatchTargetDoes
  <2>2. CASE l.pc = "create"
    BY <1>3, <2>1, <2>2 DEF LeaveLabel
  <2>3. CASE l.pc = "link"
    <3>1. PICK i \in SameImpact(r) : l.new = Joined(Load(i), l.cur)
      BY <2>1, <2>3
    <3>2. i \in EventId /\ OpenIncident(i) /\ l.new.row = row[i]
      BY <1>0, <3>1, UnscheduledOpen DEF SameImpact, Joined, Load
    <3>3. ChosenOpen(l)
      BY <2>3, <3>2 DEF ChosenOpen, LeaveLabel, OpenIncident
    <3>4. QED
      BY <2>1, <3>3, UInvStep
  <2>4. QED
    BY <2>1, <2>2, <2>3
<1>6. CASE MatchHigher(r)
  <2>1. PICK l \in Local :
          /\ req' = [req EXCEPT ![r] = l] /\ l.kind = m.kind /\ l.old = m.old
          /\ \/ l.pc = "move" /\ \E i \in SameImpact(r) : l.new = Load(i)
             \/ l.pc \in {"raise", "extract"}
    BY <1>0, <1>6, MatchHigherDoes DEF Same
  <2>2. m.pc = "matchHigher"
    BY <1>0, <1>6, MatchHigherDoes
  <2>3. CASE l.pc \in {"raise", "extract"}
    BY <1>3, <2>1, <2>2, <2>3 DEF LeaveLabel
  <2>4. CASE l.pc = "move"
    <3>1. PICK i \in SameImpact(r) : l.new = Load(i)
      BY <2>1, <2>4
    <3>2. i \in EventId /\ OpenIncident(i) /\ l.new.row = row[i]
      BY <1>0, <3>1, UnscheduledOpen DEF SameImpact, Load
    <3>3. ChosenOpen(l)
      BY <1>0, <2>1, <2>2, <2>4, <3>2 DEF ChosenOpen, LeaveLabel, OpenIncident
    <3>4. QED
      BY <2>1, <3>3, UInvStep
  <2>5. QED
    BY <2>1, <2>3, <2>4
<1>7. CASE Link(r) \/ MarkSystem(r) \/ Raise(r)
  BY <1>1, <1>7 DEF Link, MarkSystem, Raise, Answer
<1>8. CASE Create(r)
  BY <1>0, <1>2, <1>3, <1>8, CreateDoes DEF LeaveLabel
<1>9. CASE FirstStatus(r)
  BY <1>0, <1>1, <1>3, <1>9, FirstStatusDoes DEF LeaveLabel
<1>10. CASE NextComponent(r)
  <2>1. m.kind = "regular"
    BY <1>0, <1>10, NextComponentDoes DEF KindFits
  <2>2. QED
    BY <1>0, <1>1, <1>3, <1>10, <2>1, NextComponentDoes DEF Same, Monitor
<1>11. CASE Move(r)
  BY <1>0, <1>1, <1>3, <1>11, MoveDoes DEF LeaveLabel
<1>12. CASE Extract(r)
  BY <1>0, <1>3, <1>12, ExtractDoes DEF Same, LeaveLabel
<1>13. CASE ExtractMove(r)
  BY <1>0, <1>1, <1>3, <1>13, ExtractMoveDoes DEF LeaveLabel
<1>14. CASE Patch(r)
  BY <1>0, <1>2, <1>3, <1>14, PatchDoes DEF LeaveLabel
<1>15. CASE Reopen(r)
  BY <1>2, <1>15 DEF Reopen
<1>16. QED
  BY <1>4, <1>5, <1>6, <1>7, <1>8, <1>9, <1>10, <1>11, <1>12, <1>13, <1>14, <1>15 DEF Handle

LEMMA InitUInv == Init => UInv
<1> SUFFICES ASSUME Init PROVE UInv
  OBVIOUS
<1>1. Unscheduled
  BY DEF Init, StoreInit, Unscheduled
<1>2. QED
  BY <1>1, IdleOpen DEF Init, UInv

LEMMA NextUInv ==
  ASSUME OneAtATime, Window = {} \/ PatchStatus \subseteq Progress
  PROVE  Serial /\ Serial' /\ UInv /\ [Next]_vars => UInv'
<1> SUFFICES ASSUME Serial, Serial', UInv, [Next]_vars PROVE UInv'
  OBVIOUS
<1>0. PICK r : Request = {r}
  BY DEF OneAtATime
<1>1. CASE Arrive(r)
  BY <1>0, <1>1, ArriveOpen DEF Serial
<1>2. CASE Handle(r)
  BY <1>0, <1>2, StaysUnscheduled, HandleOpen DEF Serial
<1>3. CASE Fail(r)
  <2>1. Unscheduled'
    BY <1>0, <1>3, StaysUnscheduled DEF Serial
  <2>2. req' = [req EXCEPT ![r] = Idle]
    BY <1>3 DEF Fail
  <2>3. QED
    BY <1>0, <2>1, <2>2, IdleOpen, UInvStep DEF Serial
<1>4. CASE (\E w \in Window : ClockMoves(w)) /\ UNCHANGED req
  BY <1>4 DEF ClockMoves, UInv, Unscheduled
<1>5. CASE UNCHANGED vars
  BY <1>5 DEF vars, UInv, Unscheduled
<1>6. QED
  BY <1>0, <1>1, <1>2, <1>3, <1>4, <1>5 DEF Next

-----------------------------------------------------------------------------
(* A report never makes a component better off *)

\* Component c is in an open incident with impact im or more.
Affected(c, im, E, R, L) ==
    \E i \in EventId : /\ i \in E /\ R[i].type = "incident" /\ R[i].dates = "open"
                       /\ c \in CompsIn(i, L) /\ R[i].impact >= im

\* Without schedules, affected and in an active incident are the same.
LEMMA AffectedOpen ==
  ASSUME StoreTypeOK, Unscheduled, NEW c \in Component, NEW im \in Impact
  PROVE  (\E i \in IncidentsOf(c) : row[i].impact >= im) => Affected(c, im, events, row, link)
<1>1. ASSUME NEW i \in IncidentsOf(c), row[i].impact >= im
      PROVE  Affected(c, im, events, row, link)
  <2>1. i \in EventId /\ OpenIncident(i) /\ c \in CompsIn(i, link)
    BY UnscheduledOpen DEF IncidentsOf, Holding, CompsIn
  <2>2. QED
    BY <1>1, <2>1 DEF Affected, OpenIncident
<1>2. QED
  BY <1>1

LEMMA StepNeverDowngrades ==
  ASSUME IInv, HInv, CInv, SInv, UInv, NEW r, Request = {r}, [Next]_vars,
         req[r].kind \in Monitor, req'[r] # req[r],
         NEW c \in req[r].cur, NEW im \in Impact, Affected(c, im, events, row, link)
  PROVE  Affected(c, im, events', row', link')
<1> DEFINE m == req[r]
<1>0. /\ r \in Request /\ StoreTypeOK /\ m \in Local /\ m.cur \in SUBSET Component
      /\ KindFits(m) /\ LeftFits(m) /\ JoinedFits(m) /\ Synced(m, row, link) /\ ChosenOpen(m)
      /\ m.kind \in Monitor /\ c \in m.cur
  BY LocalTyped, ReqChosen, ReqSynced DEF UInv
<1>1. PICK i \in EventId :
        /\ i \in events /\ row[i].type = "incident" /\ row[i].dates = "open"
        /\ c \in CompsIn(i, link) /\ row[i].impact >= im
  BY DEF Affected
<1>2. im \in Nat /\ m.impact \in Nat /\ \A j \in EventId : row[j] \in Row /\ row[j].impact \in Nat
  BY <1>0, MaxImpactAssumption DEF Impact, Local, StoreTypeOK, Row
<1>3. ASSUME events \subseteq events', row'[i].type = row[i].type, row'[i].dates = row[i].dates,
             row'[i].impact >= row[i].impact, row'[i].impact \in Nat,
             c \in CompsIn(i, link')
      PROVE  Affected(c, im, events', row', link')
  BY <1>1, <1>2, <1>3 DEF Affected
<1>4. CASE \/ Arrive(r) \/ FindEvents(r) \/ MatchTarget(r) \/ MatchHigher(r)
           \/ NextComponent(r) \/ Fail(r)
  BY <1>0, <1>1, <1>4, ReadsWriteNothing DEF store, Affected
<1>5. CASE Link(r)
  BY <1>0, <1>1, <1>2, <1>3, <1>5, LinkEffect
<1>6. CASE FirstStatus(r)
  <2>1. /\ events' = events /\ CompsIn(i, link') = CompsIn(i, link)
        /\ row'[i].type = row[i].type /\ row'[i].dates = row[i].dates
        /\ row'[i].impact = row[i].impact
    BY <1>0, <1>1, <1>2, <1>6, FirstStatusEffect DEF Row
  <2>2. QED
    BY <1>1, <1>2, <1>3, <2>1
<1>7. CASE MarkSystem(r)
  <2>1. /\ events' = events /\ CompsIn(i, link') = CompsIn(i, link)
        /\ row'[i].type = row[i].type /\ row'[i].dates = row[i].dates
        /\ row'[i].impact = row[i].impact
    BY <1>0, <1>1, <1>2, <1>7, MarkSystemEffect DEF Row
  <2>2. QED
    BY <1>1, <1>2, <1>3, <2>1
<1>8. CASE Raise(r)
  <2>1. m.pc = "raise" /\ m.old.row = row[m.old.id] /\ m.old.row.impact < m.impact
    BY <1>0, <1>8, RaiseEffect DEF Synced, Current, LeftFits, LeaveLabel
  <2>2. /\ events' = events /\ CompsIn(i, link') = CompsIn(i, link)
        /\ row'[i].type = row[i].type /\ row'[i].dates = row[i].dates
        /\ row'[i].impact = IF i = m.old.id THEN m.impact ELSE row[i].impact
    BY <1>0, <1>1, <1>2, <1>8, RaiseEffect DEF Row
  <2>3. QED
    BY <1>1, <1>2, <1>3, <2>1, <2>2
<1>9. CASE Create(r)
  <2>1. PICK j \in EventId, e \in Row : SaveIncident(j, e, m.cur)
    BY <1>0, <1>9, CreateDoes
  <2>2. /\ events \subseteq events' /\ row'[i] = row[i] /\ CompsIn(i, link') = CompsIn(i, link)
    BY <1>0, <1>1, <2>1, SaveEffect
  <2>3. QED
    BY <1>1, <1>2, <1>3, <2>2
<1>10. CASE Extract(r)
  <2>1. PICK j \in EventId, e \in Row : SaveIncident(j, e, m.cur)
    BY <1>0, <1>10, ExtractDoes
  <2>2. /\ events \subseteq events' /\ row'[i] = row[i] /\ CompsIn(i, link') = CompsIn(i, link)
    BY <1>0, <1>1, <2>1, SaveEffect
  <2>3. QED
    BY <1>1, <1>2, <1>3, <2>2
<1>11. CASE Move(r) \/ ExtractMove(r)
  <2> DEFINE left == Left(m.cur, m.old, Move(r) /\ m.closeOld)
  <2>1. /\ m.pc \in {"move", "extractMove"}
        /\ m.old \in Copy /\ m.new \in Copy /\ m.old.id # m.new.id /\ m.new.id \in events
        /\ Current(m.old, row, link) /\ Current(m.new, row, link)
        /\ left.id = m.old.id /\ MoveDone(m.cur, left, m.new)
    BY <1>0, <1>11, MoveFacts
  <2>2. /\ m.new.row.type = "incident" /\ m.new.row.impact = m.impact
        /\ m.new.row.dates = "open" /\ m.old.row.impact < m.impact
    BY <1>0, <2>1 DEF JoinedFits, LeftFits, ChosenOpen, LeaveLabel
  <2>3. /\ m.new.row = row[m.new.id] /\ m.old.row = row[m.old.id] /\ m.new.id \in EventId
    BY <2>1 DEF Current, Copy
  <2>4. /\ events' = events /\ row'[m.new.id] = row[m.new.id]
        /\ c \in CompsIn(m.new.id, link')
        /\ i # m.old.id /\ i # m.new.id => row'[i] = row[i] /\ CompsIn(i, link') = CompsIn(i, link)
    <3> HIDE DEF left
    <3> QED
      BY <1>0, <1>1, <2>1, <2>3 DEF MoveDone
  <2>5. CASE i # m.old.id /\ i # m.new.id
    BY <1>1, <1>2, <1>3, <2>4, <2>5
  <2>6. CASE i = m.new.id
    BY <1>1, <1>2, <1>3, <2>4, <2>6
  <2>7. CASE i = m.old.id
    <3>1. row'[m.new.id].impact >= im
      BY <1>1, <1>2, <2>2, <2>3, <2>4, <2>7
    <3>2. QED
      BY <2>1, <2>2, <2>3, <2>4, <3>1 DEF Affected
  <2>8. QED
    BY <2>5, <2>6, <2>7
<1>12. CASE Patch(r) \/ Reopen(r)
  BY <1>0, <1>12, PatchEffect, ReopenEffect DEF KindFits, Monitor
<1>13. CASE (\E w \in Window : ClockMoves(w) /\ UNCHANGED req) \/ UNCHANGED vars
  BY <1>13 DEF vars
<1>14. QED
  BY <1>0, <1>4, <1>5, <1>6, <1>7, <1>8, <1>9, <1>10, <1>11, <1>12, <1>13 DEF Next, Handle

\* With one request at a time, and as long as no incident is given an end date
\* ahead, monitoring never makes the component it reports better off.
THEOREM ReportsNeverDowngrade ==
  ASSUME OneAtATime, Window = {} \/ PatchStatus \subseteq Progress
  PROVE  Spec => ReportNeverDowngrades
<1>1. Serial /\ UInv /\ Serial' /\ UInv' /\ [Next]_vars =>
        [\A r \in Request, c \in Component, im \in Impact :
            /\ req[r].kind \in {"system", "v1"} /\ req'[r] # req[r]
            /\ c \in req[r].cur
            /\ \E i \in IncidentsOf(c) : row[i].impact >= im
            => (\E i \in IncidentsOf(c) : row[i].impact >= im)']_vars
  <2> SUFFICES ASSUME Serial, UInv, Serial', [Next]_vars,
                      NEW r \in Request, NEW c \in Component, NEW im \in Impact,
                      req[r].kind \in {"system", "v1"}, req'[r] # req[r], c \in req[r].cur,
                      \E i \in IncidentsOf(c) : row[i].impact >= im
               PROVE  (\E i \in IncidentsOf(c) : row[i].impact >= im)'
    OBVIOUS
  <2>1. Affected(c, im, events, row, link)
    BY AffectedOpen DEF Serial, UInv, IInv, TypeOK
  <2>2. Request = {r}
    BY DEF OneAtATime
  <2>3. Affected(c, im, events', row', link')
    BY <2>1, <2>2, StepNeverDowngrades DEF Serial, Monitor
  <2>4. QED
    BY <2>3 DEF Affected, IncidentsOf, Holding, Active, CompsIn
<1>2. QED
  BY InitSerial, NextSerial, InitUInv, NextUInv, <1>1, PTL DEF Spec, ReportNeverDowngrades

-----------------------------------------------------------------------------
(* A report covers its components *)

Covered(c, im) ==
    \E i \in EventId : /\ Active(i) /\ c \in CompsIn(i, link)
                       /\ row[i].type = "maintenance" \/ ~row[i].system \/ row[i].impact >= im

\* An answer for the components cs takes no other component off the list.
LEMMA AnsweredTodo ==
  ASSUME IInv, NEW r \in Request, NEW cs, req' = [req EXCEPT ![r] = Answered(r, cs)],
         NEW c \in req[r].todo, c \notin req'[r].todo
  PROVE  c \in cs
<1> DEFINE l == Answered(r, cs)
<1>1. req'[r] = l
  BY DEF IInv, TypeOK
<1>2. \/ req[r].todo \subseteq cs
      \/ GoesOn(l, req[r], cs)
  BY AnsweredDoes
<1> HIDE DEF l
<1>3. QED
  BY <1>1, <1>2 DEF GoesOn

LEMMA StepCovers ==
  ASSUME IInv, AInv, HInv, CInv, SInv, UInv, ~Faults, NEW r, Request = {r}, [Next]_vars,
         req[r].kind = "system", NEW c \in req[r].todo, c \notin req'[r].todo,
         NEW im, req[r].impact = im
  PROVE  Covered(c, im)'
<1> DEFINE m == req[r]
<1>0. /\ r \in Request /\ StoreTypeOK /\ m \in Local /\ m.cur \in SUBSET Component
      /\ KindFits(m) /\ LeftFits(m) /\ JoinedFits(m) /\ CompsFit(m)
      /\ Synced(m, row, link) /\ ChosenOpen(m)
      /\ m.kind = "system" /\ m.impact = im /\ c \in m.todo /\ c \in Component
      /\ req \in [Request -> Local]
  BY LocalTyped, ReqChosen, ReqSynced DEF UInv, Local, IInv, TypeOK
<1>1. /\ m.impact \in Nat /\ \A j \in EventId : row[j] \in Row
  BY <1>0, MaxImpactAssumption DEF Impact, Local, StoreTypeOK
<1>2. ASSUME NEW l, req' = [req EXCEPT ![r] = l], l.todo = m.todo PROVE FALSE
  BY <1>0, <1>2
<1>3. ASSUME NEW i \in EventId, i \in events', row'[i].dates = "open",
             c \in CompsIn(i, link'), row'[i].impact = m.impact
      PROVE  Covered(c, im)'
  <2>1. Active(i)'
    BY <1>3 DEF Active
  <2>2. row'[i].impact >= m.impact
    BY <1>0, <1>1, <1>3
  <2>3. /\ Active(i)' /\ c \in CompsIn(i, link')
        /\ (row'[i].type = "maintenance" \/ ~row'[i].system \/ row'[i].impact >= im)
    BY <1>0, <1>3, <2>1, <2>2
  <2>4. QED
    BY <2>3 DEF Covered
<1>4. CASE Arrive(r)
  <2>1. At(r, "idle")
    BY <1>4, Zenon DEF Arrive, SystemReport, RegularCreation, V1Report, ExtractRequest,
                       PatchRequest
  <2>2. QED
    BY <1>0, <2>1 DEF At, KindFits, Idle
<1>5. CASE FindEvents(r)
  <2>1. ASSUME NEW d \in m.todo, NEW i \in Holding(d),
               \/ row[i].type = "maintenance"
               \/ row[i].type = "incident" /\ ~row[i].system
               \/ row[i].type = "incident" /\ BadEnough(i, m.impact),
               req' = [req EXCEPT ![r] = Answered(r, {d})]
        PROVE  Covered(c, im)'
    <3>1. c \in {d}
      BY <1>0, <2>1, AnsweredTodo
    <3>2. /\ i \in EventId /\ Active(i) /\ c \in CompsIn(i, link)
          /\ (row[i].type = "maintenance" \/ ~row[i].system \/ row[i].impact >= im)
      BY <1>0, <2>1, <3>1 DEF Holding, CompsIn, BadEnough
    <3>3. UNCHANGED store
      BY <1>5 DEF FindEvents
    <3>4. Active(i)'
      BY <3>2, <3>3 DEF Active, store
    <3>5. QED
      BY <3>2, <3>3, <3>4 DEF Covered, store
  <2>2. CASE \E l \in Local : req' = [req EXCEPT ![r] = l] /\ Same(l, m)
    BY <1>2, <2>2 DEF Same
  <2>3. QED
    BY <1>0, <1>5, <2>1, <2>2, FindEventsDoes
<1>6. CASE MatchTarget(r)
  BY <1>0, <1>2, <1>6, MatchTargetDoes DEF Same
<1>7. CASE MatchHigher(r)
  BY <1>0, <1>2, <1>7, MatchHigherDoes DEF Same
<1>8. CASE Link(r)
  <2>1. /\ m.pc = "link" /\ m.new.id \in events /\ events' = events
        /\ row'[m.new.id] = row[m.new.id] /\ m.new.id \in EventId
        /\ CompsIn(m.new.id, link') = CompsIn(m.new.id, link) \cup m.cur
        /\ req' = [req EXCEPT ![r] = Answered(r, m.cur)]
    BY <1>0, <1>8, LinkEffect DEF StoreTypeOK
  <2>2. c \in m.cur
    BY <1>0, <2>1, AnsweredTodo
  <2>3. m.new.row = row[m.new.id] /\ m.new.row.impact = m.impact /\ m.new.row.dates = "open"
    BY <1>0, <2>1 DEF Synced, JoinedFits, ChosenOpen, Monitor
  <2>4. QED
    BY <1>3, <2>1, <2>2, <2>3
<1>9. CASE MarkSystem(r)
  <2>1. /\ m.pc = "markSystem" /\ m.new.id \in events /\ events' = events
        /\ m.new.id \in EventId
        /\ row'[m.new.id] = [row[m.new.id] EXCEPT !.system = TRUE]
        /\ CompsIn(m.new.id, link') = CompsIn(m.new.id, link)
        /\ req' = [req EXCEPT ![r] = Answered(r, m.cur)]
    BY <1>0, <1>9, MarkSystemEffect DEF StoreTypeOK
  <2>2. c \in m.cur
    BY <1>0, <2>1, AnsweredTodo
  <2>3. /\ m.new.row = row[m.new.id] /\ m.new.row.impact = m.impact /\ m.new.row.dates = "open"
        /\ c \in CompsIn(m.new.id, link)
    BY <1>0, <2>1, <2>2 DEF Synced, Current, JoinedFits, CompsFit, Monitor
  <2>4. row'[m.new.id].dates = "open" /\ row'[m.new.id].impact = m.impact
    BY <1>1, <2>1, <2>3 DEF Row
  <2>5. QED
    BY <1>3, <2>1, <2>3, <2>4
<1>10. CASE Create(r)
  BY <1>0, <1>2, <1>10, CreateDoes DEF Same
<1>11. CASE FirstStatus(r)
  <2>1. /\ m.pc = "firstStatus" /\ m.new.id \in events /\ events' = events
        /\ m.new.id \in EventId
        /\ row'[m.new.id] = [row[m.new.id] EXCEPT !.status = InitialStatus(m.type)]
        /\ CompsIn(m.new.id, link') = CompsIn(m.new.id, link)
    BY <1>0, <1>11, FirstStatusEffect DEF StoreTypeOK
  <2>2. req' = [req EXCEPT ![r] = Answered(r, m.cur)]
    BY <1>0, <1>11, FirstStatusDoes
  <2>3. c \in m.cur
    BY <1>0, <2>2, AnsweredTodo
  <2>4. /\ m.new.row = row[m.new.id] /\ m.new.row.impact = m.impact /\ m.new.row.dates = "open"
        /\ c \in CompsIn(m.new.id, link)
    BY <1>0, <2>1, <2>3 DEF Synced, Current, JoinedFits, CompsFit, Monitor
  <2>5. row'[m.new.id].dates = "open" /\ row'[m.new.id].impact = m.impact
    BY <1>1, <2>1, <2>4 DEF Row
  <2>6. QED
    BY <1>3, <2>1, <2>4, <2>5
<1>12. CASE Raise(r)
  <2>1. /\ m.pc = "raise" /\ m.old.id \in events /\ events' = events
        /\ m.old.id \in EventId
        /\ row'[m.old.id] = [row[m.old.id] EXCEPT !.impact = m.impact]
        /\ CompsIn(m.old.id, link') = CompsIn(m.old.id, link)
        /\ req' = [req EXCEPT ![r] = Answered(r, m.cur)]
    BY <1>0, <1>12, RaiseEffect DEF StoreTypeOK
  <2>2. c \in m.cur
    BY <1>0, <2>1, AnsweredTodo
  <2>3. /\ m.old.row = row[m.old.id] /\ m.old.row.dates = "open"
        /\ c \in CompsIn(m.old.id, link)
    BY <1>0, <2>1, <2>2 DEF Synced, Current, LeftFits, ChosenOpen, LeaveLabel, Monitor
  <2>4. row'[m.old.id].dates = "open" /\ row'[m.old.id].impact = m.impact
    BY <1>1, <2>1, <2>3 DEF Row
  <2>5. QED
    BY <1>3, <2>1, <2>3, <2>4
<1>13. CASE Extract(r)
  BY <1>0, <1>2, <1>13, ExtractDoes DEF Same
<1>14. CASE ExtractMove(r)
  BY <1>0, <1>2, <1>14, ExtractMoveDoes DEF Same
<1>15. CASE Move(r)
  <2> DEFINE left == Left(m.cur, m.old, Move(r) /\ m.closeOld)
  <2>1. /\ m.pc = "move" /\ m.new \in Copy /\ m.old.id # m.new.id /\ m.new.id \in events
        /\ Current(m.new, row, link)
        /\ left.id = m.old.id /\ MoveDone(m.cur, left, m.new)
    BY <1>0, <1>15, MoveFacts
  <2>2. req' = [req EXCEPT ![r] = Answered(r, m.cur)]
    BY <1>0, <1>15, MoveDoes
  <2>3. c \in m.cur
    BY <1>0, <2>2, AnsweredTodo
  <2>4. m.new.row.impact = m.impact /\ m.new.row.dates = "open"
    BY <1>0, <2>1 DEF JoinedFits, ChosenOpen, Monitor
  <2>5. m.new.id \in EventId /\ m.new.row = row[m.new.id]
    BY <2>1 DEF Current, Copy
  <2>6. /\ events' = events /\ row'[m.new.id] = row[m.new.id]
        /\ c \in CompsIn(m.new.id, link')
    <3> HIDE DEF left
    <3> QED
      BY <2>1, <2>3, <2>5 DEF MoveDone
  <2>7. QED
    BY <1>3, <2>1, <2>4, <2>5, <2>6
<1>16. CASE NextComponent(r)
  BY <1>0, <1>16, NextComponentDoes DEF KindFits
<1>17. CASE Patch(r) \/ Reopen(r)
  BY <1>0, <1>17, PatchEffect, ReopenEffect DEF KindFits
<1>18. CASE Fail(r) \/ (\E w \in Window : ClockMoves(w) /\ UNCHANGED req) \/ UNCHANGED vars
  BY <1>0, <1>18 DEF Fail, vars
<1>19. QED
  BY <1>0, <1>4, <1>5, <1>6, <1>7, <1>8, <1>9, <1>10, <1>11, <1>12, <1>13, <1>14, <1>15, <1>16,
     <1>17, <1>18 DEF Next, Handle

\* With one request at a time that does not fail, and as long as no incident
\* is given an end date ahead, a monitoring report leaves each of its
\* components in an active event that accounts for it.
THEOREM ReportsCover ==
  ASSUME OneAtATime, ~Faults, Window = {} \/ PatchStatus \subseteq Progress
  PROVE  Spec => ReportCovered
<1>1. Serial /\ UInv /\ [Next]_vars =>
        [\A r \in Request, c \in Component, im \in Impact :
            /\ req[r].kind = "system" /\ req[r].impact = im
            /\ c \in req[r].todo /\ c \notin req'[r].todo
            => \E i \in EventId :
                  (/\ Active(i)
                   /\ c \in ComponentsOf(i)
                   /\ row[i].type = "maintenance" \/ ~row[i].system \/ row[i].impact >= im)']_vars
  <2> SUFFICES ASSUME Serial, UInv, [Next]_vars,
                      NEW r \in Request, NEW c \in Component, NEW im \in Impact,
                      req[r].kind = "system", req[r].impact = im,
                      c \in req[r].todo, c \notin req'[r].todo
               PROVE  \E i \in EventId :
                        (/\ Active(i)
                         /\ c \in ComponentsOf(i)
                         /\ row[i].type = "maintenance" \/ ~row[i].system \/ row[i].impact >= im)'
    OBVIOUS
  <2>1. Request = {r}
    BY DEF OneAtATime
  <2>2. Covered(c, im)'
    BY <2>1, StepCovers DEF Serial
  <2>3. QED
    BY <2>2 DEF Covered, ComponentsOf, CompsIn
<1>2. QED
  BY InitSerial, NextSerial, InitUInv, NextUInv, <1>1, PTL DEF Spec, ReportCovered

-----------------------------------------------------------------------------
(* One system incident per impact *)

\* Event i is a system incident after a step only if it was the same before.
Inherited(i) ==
    SystemOpen(i, events', row') => SystemOpen(i, events, row) /\ row'[i].impact = row[i].impact

\* A step makes no system incident, or the one the request has in mind.
SystemsKept(m) ==
    \/ \A i \in EventId : Inherited(i)
    \/ /\ Making(m) /\ m.pc \in {"create", "markSystem", "raise"}
       /\ \E j \in EventId :
             row'[j].impact = m.impact /\ \A i \in EventId : i # j => Inherited(i)

LEMMA SystemsStay ==
  ASSUME IInv, HInv, CInv, SInv, PatchStatus \subseteq Progress,
         NEW r, Request = {r}, Arrive(r) \/ Handle(r) \/ Fail(r)
  PROVE  SystemsKept(req[r])
<1> DEFINE m == req[r]
<1>0. /\ r \in Request /\ StoreTypeOK /\ m \in Local /\ m.cur \in SUBSET Component
      /\ KindFits(m) /\ LeftFits(m) /\ JoinedFits(m) /\ Synced(m, row, link)
      /\ \A i \in EventId : row[i] \in Row
  BY LocalTyped, ReqChosen, ReqSynced DEF StoreTypeOK
<1>1. ASSUME events' = events,
             \A i \in EventId : /\ row'[i].type = row[i].type /\ row'[i].dates = row[i].dates
                                /\ row'[i].system = row[i].system
                                /\ row'[i].impact = row[i].impact
      PROVE  SystemsKept(m)
  BY <1>1 DEF SystemsKept, Inherited, SystemOpen
<1>2. CASE \/ Arrive(r) \/ FindEvents(r) \/ MatchTarget(r) \/ MatchHigher(r)
           \/ NextComponent(r) \/ Fail(r)
  BY <1>0, <1>1, <1>2, ReadsWriteNothing DEF store
<1>3. CASE Link(r)
  BY <1>0, <1>1, <1>3, LinkEffect
<1>4. CASE FirstStatus(r)
  <2>1. /\ events' = events
        /\ \A i \in EventId : /\ row'[i].type = row[i].type /\ row'[i].dates = row[i].dates
                              /\ row'[i].system = row[i].system
                              /\ row'[i].impact = row[i].impact
    BY <1>0, <1>4, FirstStatusEffect DEF Row
  <2>2. QED
    BY <1>1, <2>1
<1>5. CASE MarkSystem(r)
  <2>1. /\ m.pc = "markSystem" /\ m.new.id \in EventId /\ events' = events
        /\ row'[m.new.id] = [row[m.new.id] EXCEPT !.system = TRUE]
        /\ \A i \in EventId : i # m.new.id => row'[i] = row[i]
    BY <1>0, <1>5, MarkSystemEffect DEF StoreTypeOK
  <2>2. Making(m) /\ m.new.row = row[m.new.id] /\ m.new.row.impact = m.impact
    BY <1>0, <2>1 DEF Synced, Current, JoinedFits, KindFits, Monitor, Making
  <2>3. row'[m.new.id].impact = m.impact
    BY <1>0, <2>1, <2>2 DEF Row
  <2>4. \A i \in EventId : i # m.new.id => Inherited(i)
    BY <2>1 DEF Inherited, SystemOpen
  <2>5. QED
    BY <2>1, <2>2, <2>3, <2>4 DEF SystemsKept
<1>6. CASE Raise(r)
  <2>1. /\ m.pc = "raise" /\ m.old.id \in EventId /\ events' = events
        /\ row'[m.old.id] = [row[m.old.id] EXCEPT !.impact = m.impact]
        /\ \A i \in EventId : i # m.old.id => row'[i] = row[i]
    BY <1>0, <1>6, RaiseEffect DEF StoreTypeOK
  <2>2. row'[m.old.id].impact = m.impact
    BY <1>0, <2>1 DEF Row
  <2>3. \A i \in EventId : i # m.old.id => Inherited(i)
    BY <2>1 DEF Inherited, SystemOpen
  <2>4. QED
    BY <2>1, <2>2, <2>3 DEF SystemsKept, Making
<1>7. CASE Create(r)
  <2>1. PICK j \in EventId, e \in Row :
           /\ m.pc = "create" /\ SaveIncident(j, e, m.cur)
           /\ e.impact = m.impact /\ e.system = (m.kind = "system")
    BY <1>0, <1>7, CreateDoes
  <2>2. /\ events' = events \cup {j}
        /\ \A i \in EventId : row'[i] = IF i = j THEN e ELSE row[i]
    BY <1>0, <2>1, SaveEffect
  <2>3. \A i \in EventId : i # j => Inherited(i)
    BY <2>2 DEF Inherited, SystemOpen
  <2>4. CASE m.kind = "system"
    BY <2>1, <2>2, <2>3, <2>4 DEF SystemsKept, Making
  <2>5. CASE m.kind # "system"
    <3>1. ~e.system
      BY <2>1, <2>5
    <3>2. Inherited(j)
      BY <2>2, <3>1 DEF Inherited, SystemOpen
    <3>3. QED
      BY <2>3, <3>2 DEF SystemsKept
  <2>6. QED
    BY <2>4, <2>5
<1>8. CASE Extract(r)
  <2>1. PICK j \in EventId, e \in Row : SaveIncident(j, e, m.cur) /\ ~e.system
    BY <1>0, <1>8, ExtractDoes
  <2>2. /\ events' = events \cup {j}
        /\ \A i \in EventId : row'[i] = IF i = j THEN e ELSE row[i]
    BY <1>0, <2>1, SaveEffect
  <2>3. QED
    BY <2>1, <2>2 DEF SystemsKept, Inherited, SystemOpen
<1>9. CASE Move(r) \/ ExtractMove(r)
  <2> DEFINE left == Left(m.cur, m.old, Move(r) /\ m.closeOld)
  <2>1. /\ m.old \in Copy /\ Current(m.old, row, link) /\ left.id = m.old.id
        /\ MoveDone(m.cur, left, m.new) /\ events' = events
    BY <1>0, <1>9, MoveFacts
  <2>2. left.row.dates = "past" \/ left.row = m.old.row
    BY <2>1 DEF Left, Copy, Row
  <2>3. \A i \in EventId : row'[i] = row[i] \/ row'[i].dates = "past"
    <3> HIDE DEF left, m
    <3> QED
      BY <2>1, <2>2 DEF MoveDone, Current
  <2>4. QED
    BY <2>1, <2>3 DEF SystemsKept, Inherited, SystemOpen
<1>10. CASE Patch(r)
  <2>1. /\ events' = events /\ m.new.id \in events /\ m.new.id \in EventId
        /\ \A i \in EventId : i # m.new.id => row'[i] = row[i]
    BY <1>0, <1>10, PatchEffect DEF StoreTypeOK
  <2>2. PICK t \in EventType, im \in Impact, s \in PatchStatus, d \in Dates :
           /\ PatchAccepted(row[m.new.id], t, im, s, d)
           /\ row'[m.new.id] = NonZeroFields(row[m.new.id], Patched(row[m.new.id], t, im, s, d))
    BY <1>0, <1>10, PatchEffect
  <2>3. s \in Progress
    OBVIOUS
  <2>4. row'[m.new.id].type = "incident" =>
           /\ row[m.new.id].type = "incident" /\ row[m.new.id].dates = "open"
           /\ row'[m.new.id].impact = row[m.new.id].impact
           /\ row'[m.new.id].system = row[m.new.id].system
    BY <1>0, <2>1, <2>2, <2>3, ProgressPatch
  <2>5. QED
    BY <2>1, <2>4 DEF SystemsKept, Inherited, SystemOpen
<1>11. CASE Reopen(r)
  <2>1. "reopened" \in PatchStatus
    BY <1>0, <1>11, ReopenEffect DEF JoinedFits
  <2>2. "reopened" \notin Progress
    BY Zenon DEF Progress, IncidentOpenStatus, IncidentImpactChanged
  <2>3. QED
    BY <2>1, <2>2
<1>12. QED
  BY <1>2, <1>3, <1>4, <1>5, <1>6, <1>7, <1>8, <1>9, <1>10, <1>11 DEF Handle

LEMMA OneSystemKept ==
  ASSUME OInv, NEW r \in Request, SystemsKept(req[r])
  PROVE  OneSystem(events', row')
<1>1. OneSystem(events, row) /\ NoneSuch(req[r], events, row)
  BY DEF OInv
<1>2. CASE \A i \in EventId : Inherited(i)
  BY <1>1, <1>2 DEF OneSystem, Inherited
<1>3. ASSUME Making(req[r]), NEW j \in EventId, row'[j].impact = req[r].impact,
             \A i \in EventId : i # j => Inherited(i)
      PROVE  OneSystem(events', row')
  <2>1. \A i \in EventId : i # j /\ SystemOpen(i, events', row') => row'[i].impact # row'[j].impact
    BY <1>1, <1>3 DEF NoneSuch, Inherited
  <2>2. QED
    BY <1>1, <1>3, <2>1 DEF OneSystem, Inherited
<1>4. QED
  BY <1>2, <1>3 DEF SystemsKept

\* A request that has found no system incident of its impact still finds none.
LEMMA NoneSuchKept ==
  ASSUME NEW m, NEW l, SystemsKept(m), NoneSuch(m, events, row),
         m.pc \in {"extract", "extractMove"}, l.kind = m.kind, l.impact = m.impact,
         l.pc \in {"extractMove", "markSystem"}
  PROVE  NoneSuch(l, events', row')
<1>1. \A i \in EventId : Inherited(i)
  BY DEF SystemsKept
<1>2. Making(l) => Making(m)
  BY DEF Making
<1>3. QED
  BY <1>1, <1>2 DEF NoneSuch, Inherited

LEMMA NoneSuchStep ==
  ASSUME IInv, CInv, OInv, NEW r, Request = {r}, Arrive(r) \/ Handle(r) \/ Fail(r),
         SystemsKept(req[r])
  PROVE  NoneSuch(req'[r], events', row')
<1> DEFINE m == req[r]
<1>0. /\ r \in Request /\ StoreTypeOK /\ KindFits(m) /\ JoinedFits(m)
      /\ NoneSuch(m, events, row) /\ req \in [Request -> Local]
  BY LocalTyped, ReqChosen DEF OInv, IInv, TypeOK
<1>1. ASSUME NEW l, req' = [req EXCEPT ![r] = l], ~Making(l)
      PROVE  NoneSuch(req'[r], events', row')
  BY <1>0, <1>1 DEF NoneSuch
<1>2. CASE \E cs : req' = [req EXCEPT ![r] = Answered(r, cs)]
  <2>1. PICK cs : req' = [req EXCEPT ![r] = Answered(r, cs)]
    BY <1>2
  <2> DEFINE l == Answered(r, cs)
  <2>2. l = Idle \/ l.pc \in {"findEvents", "nextComponent"}
    BY <1>0, AnsweredDoes DEF GoesOn
  <2>3. ~Making(l)
    <3> HIDE DEF l
    <3> QED
      BY <2>2 DEF Making, Idle
  <2>4. QED
    BY <1>1, <2>1, <2>3
<1>3. CASE req' = [req EXCEPT ![r] = Idle]
  <2>1. ~Making(Idle)
    BY DEF Making, Idle
  <2>2. QED
    BY <1>1, <1>3, <2>1
<1>4. ASSUME NEW l \in Local, req' = [req EXCEPT ![r] = l],
             \/ l.pc \in {"findEvents", "matchTarget", "link", "firstStatus", "matchHigher",
                          "move", "nextComponent", "patch", "reopen"}
             \/ l.kind # "system" /\ l.pc # "raise"
      PROVE  NoneSuch(req'[r], events', row')
  BY <1>1, <1>4 DEF Making
<1>5. ASSUME NEW l \in Local, req' = [req EXCEPT ![r] = l], l.impact = m.impact,
             SameImpact(r) = {}, UNCHANGED store
      PROVE  NoneSuch(req'[r], events', row')
  <2>1. req'[r] = l
    BY <1>0, <1>5
  <2>2. \A i \in EventId : SystemOpen(i, events, row) => row[i].impact # m.impact
    BY <1>5 DEF SameImpact, SystemOpen, Active
  <2>3. QED
    BY <1>5, <2>1, <2>2 DEF NoneSuch, store
<1>6. CASE SystemReport(r)
  BY <1>0, <1>4, <1>6, SystemReportDoes
<1>7. CASE RegularCreation(r)
  BY <1>0, <1>4, <1>7, RegularCreationDoes
<1>8. CASE ExtractRequest(r)
  BY <1>0, <1>4, <1>8, ExtractRequestDoes
<1>9. CASE PatchRequest(r)
  BY <1>0, <1>4, <1>9, PatchRequestDoes DEF Asks
<1>10. CASE V1Report(r)
  <2>1. PICK c \in Component, l \in Local :
          /\ UNCHANGED store /\ req' = [req EXCEPT ![r] = l]
          /\ l.kind = "v1"
          /\ \/ l.pc \in {"link", "create", "move"}
             \/ l.pc \in {"raise", "extract"} /\ Alike(l.impact) = {}
    BY <1>0, <1>10, V1ReportDoes
  <2>2. CASE l.pc # "raise"
    BY <1>4, <2>1, <2>2
  <2>3. CASE l.pc = "raise"
    <3>1. \A i \in EventId : SystemOpen(i, events, row) => row[i].impact # l.impact
      BY <2>1, <2>3 DEF Alike, SystemOpen, Active
    <3>2. QED
      BY <1>0, <2>1, <3>1 DEF NoneSuch, store
  <2>4. QED
    BY <2>2, <2>3
<1>11. CASE FindEvents(r)
  BY <1>0, <1>2, <1>4, <1>11, FindEventsDoes
<1>12. CASE MatchTarget(r)
  BY <1>0, <1>4, <1>5, <1>12, MatchTargetDoes DEF Same
<1>13. CASE MatchHigher(r)
  BY <1>0, <1>4, <1>5, <1>13, MatchHigherDoes DEF Same
<1>14. CASE Link(r) \/ MarkSystem(r) \/ Raise(r)
  BY <1>2, <1>14 DEF Link, MarkSystem, Raise, Answer
<1>15. CASE Create(r)
  BY <1>0, <1>3, <1>4, <1>15, CreateDoes
<1>16. CASE FirstStatus(r)
  BY <1>0, <1>2, <1>4, <1>16, FirstStatusDoes
<1>17. CASE NextComponent(r)
  BY <1>0, <1>2, <1>4, <1>17, NextComponentDoes
<1>18. CASE Move(r)
  BY <1>0, <1>2, <1>4, <1>18, MoveDoes
<1>19. CASE Extract(r)
  <2>1. PICK l \in Local : /\ req' = [req EXCEPT ![r] = l] /\ l.kind = m.kind
                           /\ l.impact = m.impact /\ l.pc = "extractMove" /\ m.pc = "extract"
    BY <1>0, <1>19, ExtractDoes DEF Same
  <2>2. QED
    BY <1>0, <2>1, NoneSuchKept
<1>20. CASE ExtractMove(r)
  <2>1. ASSUME NEW l \in Local, req' = [req EXCEPT ![r] = l], Same(l, m), l.pc = "markSystem",
               m.pc = "extractMove"
        PROVE  NoneSuch(req'[r], events', row')
    <3>1. l.kind = m.kind /\ l.impact = m.impact /\ req'[r] = l
      BY <1>0, <2>1 DEF Same
    <3>2. QED
      BY <1>0, <2>1, <3>1, NoneSuchKept
  <2>2. QED
    BY <1>0, <1>2, <1>20, <2>1, ExtractMoveDoes
<1>21. CASE Patch(r)
  BY <1>0, <1>3, <1>4, <1>21, PatchDoes
<1>22. CASE Reopen(r) \/ Fail(r)
  BY <1>3, <1>22 DEF Reopen, Fail
<1>23. QED
  BY <1>6, <1>7, <1>8, <1>9, <1>10, <1>11, <1>12, <1>13, <1>14, <1>15, <1>16, <1>17, <1>18,
     <1>19, <1>20, <1>21, <1>22 DEF Arrive, Handle

LEMMA InitOInv == Init => OInv
<1> SUFFICES ASSUME Init PROVE OInv
  OBVIOUS
<1>1. events = {} /\ \A r \in Request : req[r] = Idle
  BY DEF Init, StoreInit
<1>2. \A r \in Request : NoneSuch(req[r], events, row)
  BY <1>1 DEF NoneSuch, SystemOpen
<1>3. QED
  BY <1>1, <1>2 DEF OInv, OneSystem, SystemOpen

LEMMA NextOInv ==
  ASSUME OneAtATime, PatchStatus \subseteq Progress
  PROVE  Serial /\ OInv /\ [Next]_vars => OInv'
<1> SUFFICES ASSUME Serial, OInv, [Next]_vars PROVE OInv'
  OBVIOUS
<1>0. PICK r : Request = {r}
  BY DEF OneAtATime
<1>1. CASE Arrive(r) \/ Handle(r) \/ Fail(r)
  <2>1. SystemsKept(req[r])
    BY <1>0, <1>1, SystemsStay DEF Serial
  <2>2. OneSystem(events', row')
    BY <1>0, <2>1, OneSystemKept
  <2>3. NoneSuch(req'[r], events', row')
    BY <1>0, <1>1, <2>1, NoneSuchStep DEF Serial
  <2>4. QED
    BY <1>0, <2>2, <2>3 DEF OInv
<1>2. CASE events' = events /\ row' = row /\ req' = req
  BY <1>2 DEF OInv
<1>3. QED
  BY <1>0, <1>1, <1>2 DEF Next, ClockMoves, vars

\* With one request at a time, and operators that only give open incidents a
\* status of their work in progress, the monitoring API keeps at most one
\* active system incident per impact.
THEOREM OneSystemIncident ==
  ASSUME OneAtATime, PatchStatus \subseteq Progress
  PROVE  Spec => []OneSystemIncidentPerImpact
<1>1. StoreTypeOK /\ UInv /\ OInv => OneSystemIncidentPerImpact
  <2> SUFFICES ASSUME StoreTypeOK, UInv, OInv PROVE OneSystemIncidentPerImpact
    OBVIOUS
  <2> DEFINE systemIncidents == {i \in EventId : /\ Active(i) /\ row[i].type = "incident"
                                                 /\ row[i].system}
  <2>1. \A i \in systemIncidents : i \in EventId /\ SystemOpen(i, events, row)
    BY UnscheduledOpen DEF UInv, OpenIncident, SystemOpen
  <2>2. \A i, j \in systemIncidents : row[i].impact = row[j].impact => i = j
    BY <2>1 DEF OInv, OneSystem
  <2>3. QED
    BY <2>2 DEF OneSystemIncidentPerImpact
<1>2. Serial => StoreTypeOK
  BY DEF Serial, IInv, TypeOK
<1>3. QED
  BY InitSerial, NextSerial, InitUInv, NextUInv, InitOInv, NextOInv, <1>1, <1>2, PTL DEF Spec

-----------------------------------------------------------------------------
(* One incident per component *)

\* A step that opens no incident and puts no component into one.
Shrinks(I, J, S, T) == J \subseteq I /\ \A i \in EventId : T[i] \subseteq S[i]

OpenNow == Open(events, row)
PlacesNow == Places(events, row, link)
OpenNext == Open(events', row')
PlacesNext == Places(events', row', link')

LEMMA PlacesAre ==
  \A i \in EventId : /\ PlacesNow[i] = IF i \in OpenNow THEN CompsIn(i, link) ELSE {}
                     /\ PlacesNext[i] = IF i \in OpenNext THEN CompsIn(i, link') ELSE {}
  BY DEF PlacesNow, PlacesNext, OpenNow, OpenNext, Places

LEMMA ShrinkEffect ==
  ASSUME events' = events, \A i \in EventId : CompsIn(i, link') = CompsIn(i, link),
         \A i \in EventId : row'[i].type = "incident" /\ row'[i].dates = "open" =>
                               row[i].type = "incident" /\ row[i].dates = "open"
  PROVE  Shrinks(OpenNow, OpenNext, PlacesNow, PlacesNext)
<1>1. OpenNext \subseteq OpenNow
  BY DEF OpenNow, OpenNext, Open
<1>2. QED
  BY <1>1, PlacesAre DEF Shrinks

\* The steps that neither create nor link nor move.
LEMMA StepShrinks ==
  ASSUME IInv, HInv, CInv, SInv, PatchStatus \subseteq Progress, NEW r, Request = {r},
         \/ Arrive(r) \/ FindEvents(r) \/ MatchTarget(r) \/ MatchHigher(r) \/ NextComponent(r)
         \/ Fail(r) \/ FirstStatus(r) \/ MarkSystem(r) \/ Raise(r) \/ Patch(r)
  PROVE  Shrinks(OpenNow, OpenNext, PlacesNow, PlacesNext)
<1> DEFINE m == req[r]
<1>0. r \in Request /\ StoreTypeOK /\ \A i \in EventId : row[i] \in Row
  BY LocalTyped DEF StoreTypeOK
<1>1. CASE \/ Arrive(r) \/ FindEvents(r) \/ MatchTarget(r) \/ MatchHigher(r)
           \/ NextComponent(r) \/ Fail(r)
  BY <1>0, <1>1, ReadsWriteNothing, ShrinkEffect DEF store
<1>2. ASSUME events' = events,
             \A i \in EventId : /\ row'[i].type = row[i].type /\ row'[i].dates = row[i].dates
                                /\ CompsIn(i, link') = CompsIn(i, link)
      PROVE  Shrinks(OpenNow, OpenNext, PlacesNow, PlacesNext)
  BY <1>2, ShrinkEffect
<1>3. CASE FirstStatus(r)
  <2>1. /\ events' = events
        /\ \A i \in EventId : /\ row'[i].type = row[i].type /\ row'[i].dates = row[i].dates
                              /\ CompsIn(i, link') = CompsIn(i, link)
    BY <1>0, <1>3, FirstStatusEffect DEF Row
  <2>2. QED
    BY <1>2, <2>1
<1>4. CASE MarkSystem(r)
  <2>1. /\ events' = events
        /\ \A i \in EventId : /\ row'[i].type = row[i].type /\ row'[i].dates = row[i].dates
                              /\ CompsIn(i, link') = CompsIn(i, link)
    BY <1>0, <1>4, MarkSystemEffect DEF Row
  <2>2. QED
    BY <1>2, <2>1
<1>5. CASE Raise(r)
  <2>1. /\ events' = events
        /\ \A i \in EventId : /\ row'[i].type = row[i].type /\ row'[i].dates = row[i].dates
                              /\ CompsIn(i, link') = CompsIn(i, link)
    BY <1>0, <1>5, RaiseEffect DEF Row
  <2>2. QED
    BY <1>2, <2>1
<1>6. CASE Patch(r)
  <2>1. /\ events' = events /\ m.new.id \in EventId
        /\ \A i \in EventId : /\ i # m.new.id => row'[i] = row[i]
                              /\ CompsIn(i, link') = CompsIn(i, link)
    BY <1>0, <1>6, PatchEffect DEF StoreTypeOK
  <2>2. PICK t \in EventType, im \in Impact, s \in PatchStatus, d \in Dates :
           /\ PatchAccepted(row[m.new.id], t, im, s, d)
           /\ row'[m.new.id] = NonZeroFields(row[m.new.id], Patched(row[m.new.id], t, im, s, d))
    BY <1>0, <1>6, PatchEffect
  <2>3. s \in Progress
    OBVIOUS
  <2>4. row'[m.new.id].type = "incident" =>
           row[m.new.id].type = "incident" /\ row[m.new.id].dates = "open"
    BY <1>0, <2>1, <2>2, <2>3, ProgressPatch
  <2>5. QED
    BY <2>1, <2>4, ShrinkEffect
<1>7. QED
  BY <1>1, <1>3, <1>4, <1>5, <1>6

LEMMA PInvStep ==
  ASSUME IInv, NEW r, Request = {r}, NEW l, req' = [req EXCEPT ![r] = l],
         Alone(l, OpenNext, PlacesNext)
  PROVE  PInv'
<1>1. \A q \in Request : Alone(req'[q], OpenNext, PlacesNext)
  BY DEF IInv, TypeOK
<1>2. QED
  BY <1>1 DEF PInv, OpenNext, PlacesNext

\* A request begins.
LEMMA StartAlone ==
  ASSUME NEW l, NEW I, NEW J, NEW S, NEW T, OnePlace(Idle, S), Shrinks(I, J, S, T),
         l.kind # "regular", l.opened = {}, l.pc # "extractMove", Unplaced(l, T)
  PROVE  Alone(l, J, T)
<1>1. OnePlace(l, T)
  BY DEF OnePlace, Shrinks, Moving, Idle
<1>2. QED
  BY <1>1 DEF Alone, AllLoaded

\* A request goes on with the same components.
LEMMA GoOnAlone ==
  ASSUME NEW m, NEW l, NEW I, NEW J, NEW S, NEW T, Alone(m, I, S), Shrinks(I, J, S, T),
         l.kind = m.kind, l.todo = m.todo, l.opened = m.opened,
         l.kind = "regular" => /\ m.pc \in {"firstStatus", "nextComponent"} /\ l.new.id = m.new.id
                               /\ l.pc \in {"nextComponent", "move"},
         m.pc # "extractMove", Unplaced(l, T)
  PROVE  Alone(l, J, T)
<1>1. l.kind = "regular" => Moving(l) = l.todo /\ Moving(m) = l.todo
  BY DEF Moving
<1>2. l.kind # "regular" => Moving(m) = {}
  BY DEF Moving
<1>3. OnePlace(l, T)
  BY <1>1, <1>2 DEF OnePlace, Shrinks, Alone
<1>4. AllLoaded(l, J)
  BY DEF AllLoaded, Shrinks, Alone
<1>5. QED
  BY <1>3, <1>4 DEF Alone

\* A request has dealt with the components cs.
LEMMA AnsweredAlone ==
  ASSUME IInv, NEW r \in Request, NEW cs, NEW I, NEW J, NEW T,
         AllLoaded(req[r], I), J \subseteq I, req[r].pc # "create",
         \A c \in Component, i, j \in EventId :
            c \in T[i] /\ c \in T[j] =>
               i = j \/ (req[r].kind = "regular" /\ c \in req[r].todo \ cs /\ req[r].new.id \in {i, j})
  PROVE  Alone(Answered(r, cs), J, T)
<1> DEFINE m == req[r]
           l == Answered(r, cs)
<1>1. \/ l = Idle /\ m.todo \subseteq cs
      \/ GoesOn(l, m, cs)
  BY AnsweredDoes
<1> HIDE DEF l
<1>2. CASE l = Idle /\ m.todo \subseteq cs
  <2>1. OnePlace(Idle, T)
    BY <1>2 DEF OnePlace
  <2>2. Unplaced(Idle, T) /\ AllLoaded(Idle, J)
    BY DEF Unplaced, AllLoaded, Idle
  <2>3. QED
    BY <1>2, <2>1, <2>2 DEF Alone, l
<1>3. CASE GoesOn(l, m, cs)
  <2>1. m.kind = "regular" => Moving(l) = m.todo \ cs /\ l.new = m.new
    BY <1>3 DEF GoesOn, Moving
  <2>2. OnePlace(l, T)
    BY <2>1 DEF OnePlace
  <2>3. Unplaced(l, T)
    BY <1>3 DEF GoesOn, Unplaced
  <2>4. AllLoaded(l, J)
    BY <1>3 DEF GoesOn, AllLoaded
  <2>5. QED
    BY <2>2, <2>3, <2>4 DEF Alone, l
<1>4. QED
  BY <1>1, <1>2, <1>3

\* An open incident with a component in it is an active event that holds it.
LEMMA PlacedHeld ==
  ASSUME NEW i \in EventId, NEW c \in Component
  PROVE  c \in PlacesNow[i] => i \in Holding(c) /\ row[i].type = "incident"
  BY PlacesAre DEF OpenNow, Open, Holding, Active, CompsIn

LEMMA ArriveAlone ==
  ASSUME IInv, HInv, CInv, SInv, UInv, PInv, PatchStatus \subseteq Progress,
         NEW r, Request = {r}, "extract" \notin Kinds, Arrive(r)
  PROVE  PInv'
<1> DEFINE m == req[r]
           I == OpenNow
           J == OpenNext
           S == PlacesNow
           T == PlacesNext
<1>0. /\ r \in Request /\ StoreTypeOK /\ KindFits(m) /\ Shrinks(I, J, S, T)
      /\ Alone(m, I, S) /\ Unscheduled
  BY LocalTyped, ReqChosen, StepShrinks DEF PInv, OpenNow, PlacesNow, UInv
<1>1. OnePlace(Idle, S)
  <2>1. At(r, "idle")
    BY Zenon DEF Arrive, SystemReport, RegularCreation, V1Report, ExtractRequest, PatchRequest
  <2>2. QED
    BY <1>0, <2>1 DEF At, KindFits, Alone
<1> HIDE DEF I, J, S, T
<1>2. ASSUME NEW l, req' = [req EXCEPT ![r] = l], l.kind # "regular", l.opened = {},
             l.pc # "extractMove", Unplaced(l, T)
      PROVE  PInv'
  <2>1. Alone(l, J, T)
    BY <1>0, <1>1, <1>2, StartAlone
  <2>2. QED
    BY <1>2, <2>1, PInvStep DEF J, T
<1>3. CASE SystemReport(r)
  <2>1. PICK l \in Local : /\ req' = [req EXCEPT ![r] = l] /\ l.pc = "findEvents"
                           /\ l.kind = "system" /\ l.opened = {}
    BY <1>0, <1>3, SystemReportDoes
  <2>2. QED
    BY <1>2, <2>1 DEF Unplaced
<1>4. CASE ExtractRequest(r)
  BY <1>4 DEF ExtractRequest
<1>5. CASE PatchRequest(r)
  <2>1. PICK l \in Local : /\ req' = [req EXCEPT ![r] = l] /\ l.pc = "patch"
                           /\ l.kind = "patch" /\ l.opened = {}
    BY <1>0, <1>5, PatchRequestDoes DEF Asks
  <2>2. QED
    BY <1>2, <2>1 DEF Unplaced
<1>6. CASE V1Report(r)
  <2>1. PICK c \in Component, l \in Local :
          /\ req' = [req EXCEPT ![r] = l]
          /\ l.kind = "v1" /\ l.opened = {} /\ l.cur = {c}
          /\ \/ Holding(c) = {}
             \/ l.pc \in {"move", "raise", "extract"}
          /\ l.pc # "extractMove"
    BY <1>0, <1>6, V1ReportDoes
  <2>2. Unplaced(l, T)
    <3>1. CASE Holding(c) = {}
      <4>1. \A i \in EventId : c \notin S[i]
        BY <3>1, PlacedHeld DEF S
      <4>2. QED
        BY <1>0, <2>1, <4>1 DEF Unplaced, Shrinks
    <3>2. CASE l.pc \in {"move", "raise", "extract"}
      BY <3>2 DEF Unplaced
    <3>3. QED
      BY <2>1, <3>1, <3>2
  <2>3. QED
    BY <1>2, <2>1, <2>2
<1>7. CASE RegularCreation(r)
  <2>1. PICK l \in Local :
          /\ req' = [req EXCEPT ![r] = l]
          /\ l.pc = "create" /\ l.kind = "regular"
          /\ l.opened = {Load(i) : i \in {j \in EventId : Active(j)}}
    BY <1>0, <1>7, RegularCreationDoes
  <2>2. OnePlace(l, T)
    BY <1>0, <1>1 DEF OnePlace, Shrinks, Moving, Idle
  <2>3. Unplaced(l, T)
    BY <2>1 DEF Unplaced
  <2>4. ASSUME NEW i \in J PROVE \E o \in l.opened : o.id = i
    <3>1. i \in EventId /\ Active(i)
      BY <1>0 DEF Shrinks, I, OpenNow, Open, Active
    <3>2. Load(i) \in l.opened /\ Load(i).id = i
      BY <2>1, <3>1 DEF Load
    <3>3. QED
      BY <3>2
  <2>5. ASSUME NEW o \in l.opened, o.row.type = "incident" PROVE o.row.dates = "open"
    <3>1. PICK i \in EventId : Active(i) /\ o = Load(i)
      BY <2>1
    <3>2. o.row = row[i]
      BY <3>1 DEF Load
    <3>3. QED
      BY <1>0, <2>5, <3>1, <3>2, UnscheduledOpen DEF OpenIncident
  <2>6. AllLoaded(l, J)
    BY <2>4, <2>5 DEF AllLoaded
  <2>7. QED
    BY <2>1, <2>2, <2>3, <2>6, PInvStep DEF Alone, J, T
<1>8. QED
  BY <1>3, <1>4, <1>5, <1>6, <1>7 DEF Arrive

LEMMA ReadsOnAlone ==
  ASSUME IInv, HInv, CInv, SInv, PInv, PatchStatus \subseteq Progress, NEW r, Request = {r},
         FindEvents(r) \/ MatchTarget(r) \/ MatchHigher(r) \/ NextComponent(r)
  PROVE  PInv'
<1> DEFINE m == req[r]
           I == OpenNow
           J == OpenNext
           S == PlacesNow
           T == PlacesNext
<1>0. /\ r \in Request /\ KindFits(m) /\ LeftFits(m) /\ Synced(m, row, link)
      /\ Shrinks(I, J, S, T) /\ Alone(m, I, S) /\ m \in Local /\ StoreTypeOK
      /\ \A o \in m.opened : o \in Copy
  BY LocalTyped, ReqChosen, ReqSynced, StepShrinks DEF PInv, OpenNow, PlacesNow, Local
<1> HIDE DEF I, J, S, T
<1>1. ASSUME NEW l, req' = [req EXCEPT ![r] = l], Same(l, m),
             m.kind = "regular" => /\ m.pc = "nextComponent" /\ l.new = m.new
                                   /\ l.pc \in {"nextComponent", "move"},
             m.pc # "extractMove", Unplaced(l, T)
      PROVE  PInv'
  <2>1. Alone(l, J, T)
    BY <1>0, <1>1, GoOnAlone DEF Same
  <2>2. QED
    BY <1>1, <2>1, PInvStep DEF J, T
<1>2. ASSUME NEW cs, req' = [req EXCEPT ![r] = Answered(r, cs)], m.pc # "create",
             \A c \in Component, i, j \in EventId :
                c \in T[i] /\ c \in T[j] =>
                   i = j \/ (m.kind = "regular" /\ c \in m.todo \ cs /\ m.new.id \in {i, j})
      PROVE  PInv'
  <2>1. AllLoaded(m, I) /\ J \subseteq I
    BY <1>0 DEF Alone, Shrinks
  <2>2. Alone(Answered(r, cs), J, T)
    BY <1>0, <1>2, <2>1, AnsweredAlone
  <2>3. QED
    BY <1>2, <2>2, PInvStep DEF J, T
<1>3. CASE FindEvents(r)
  <2>1. m.pc = "findEvents" /\ m.kind = "system" /\ Moving(m) = {}
    <3>1. m.pc = "findEvents"
      BY <1>0, <1>3, FindEventsDoes
    <3>2. QED
      BY <1>0, <3>1 DEF KindFits, Moving
  <2>2. \A c \in Component, i, j \in EventId : c \in T[i] /\ c \in T[j] => i = j
    BY <1>0, <2>1 DEF Alone, OnePlace, Shrinks
  <2>3. ASSUME NEW c \in m.todo, \A i \in Holding(c) : row[i].type = "info",
               NEW l \in Local, req' = [req EXCEPT ![r] = l], Same(l, m), l.cur = {c}
        PROVE  PInv'
    <3>1. c \in Component
      BY <1>0 DEF Local
    <3>2. \A i \in EventId : c \notin S[i]
      BY <2>3, <3>1, PlacedHeld DEF S
    <3>3. Unplaced(l, T)
      BY <1>0, <2>3, <3>2 DEF Unplaced, Shrinks
    <3>4. QED
      BY <1>1, <2>1, <2>3, <3>3
  <2>4. ASSUME NEW l \in Local, req' = [req EXCEPT ![r] = l], Same(l, m), l.pc = "matchHigher"
        PROVE  PInv'
    BY <1>1, <2>1, <2>4 DEF Unplaced
  <2>5. QED
    BY <1>0, <1>2, <1>3, <2>1, <2>2, <2>3, <2>4, FindEventsDoes
<1>4. CASE MatchTarget(r)
  <2>1. m.pc = "matchTarget" /\ m.kind = "system"
    <3>1. m.pc = "matchTarget"
      BY <1>0, <1>4, MatchTargetDoes
    <3>2. QED
      BY <1>0, <3>1 DEF KindFits
  <2>2. PICK l \in Local : req' = [req EXCEPT ![r] = l] /\ Same(l, m) /\ l.cur = m.cur
    BY <1>0, <1>4, MatchTargetDoes
  <2>3. Unplaced(l, T)
    BY <1>0, <2>1, <2>2 DEF Alone, Unplaced, Shrinks
  <2>4. QED
    BY <1>1, <2>1, <2>2, <2>3
<1>5. CASE MatchHigher(r)
  <2>1. m.pc = "matchHigher" /\ m.kind = "system"
    <3>1. m.pc = "matchHigher"
      BY <1>0, <1>5, MatchHigherDoes
    <3>2. QED
      BY <1>0, <3>1 DEF KindFits
  <2>2. PICK l \in Local : /\ req' = [req EXCEPT ![r] = l] /\ Same(l, m)
                           /\ l.pc \in {"move", "raise", "extract"}
    BY <1>0, <1>5, MatchHigherDoes
  <2>3. Unplaced(l, T)
    BY <2>2 DEF Unplaced
  <2>4. QED
    BY <1>1, <2>1, <2>2, <2>3
<1>6. CASE NextComponent(r)
  <2>1. m.pc = "nextComponent" /\ m.kind = "regular" /\ Moving(m) = m.todo
    <3>1. m.pc = "nextComponent"
      BY <1>0, <1>6, NextComponentDoes
    <3>2. QED
      BY <1>0, <3>1 DEF KindFits, Moving
  <2>2. ASSUME NEW c \in m.todo,
               \A o \in m.opened : o.row.type = "incident" => c \notin o.comps,
               req' = [req EXCEPT ![r] = Answered(r, {c})]
        PROVE  PInv'
    <3>1. ASSUME NEW i \in EventId, c \in S[i], i # m.new.id PROVE FALSE
      <4>1. i \in I /\ c \in CompsIn(i, link)
        BY <3>1, PlacesAre DEF S, I
      <4>2. PICK o \in m.opened : o.id = i
        BY <1>0, <2>1, <3>1, <4>1 DEF Alone, AllLoaded
      <4>3. o.row = row[i] /\ o.comps = CompsIn(i, link)
        BY <1>0, <4>2 DEF Synced, Current
      <4>4. row[i].type = "incident"
        BY <4>1 DEF I, OpenNow, Open
      <4>5. QED
        BY <2>2, <4>1, <4>2, <4>3, <4>4
    <3>2. ASSUME NEW d \in Component, NEW i \in EventId, NEW j \in EventId,
                 d \in T[i], d \in T[j], i # j
          PROVE  d \in m.todo \ {c} /\ m.new.id \in {i, j}
      <4>1. d \in S[i] /\ d \in S[j]
        BY <1>0, <3>2 DEF Shrinks
      <4>2. d \in m.todo /\ m.new.id \in {i, j}
        BY <1>0, <2>1, <3>2, <4>1 DEF Alone, OnePlace
      <4>3. d # c
        BY <3>1, <3>2, <4>1
      <4>4. QED
        BY <4>2, <4>3
    <3>3. QED
      BY <1>2, <2>1, <2>2, <3>2
  <2>3. ASSUME NEW l \in Local, req' = [req EXCEPT ![r] = l], Same(l, m), l.pc = "move",
               l.new = m.new
        PROVE  PInv'
    BY <1>1, <2>1, <2>3 DEF Unplaced
  <2>4. QED
    BY <1>0, <1>6, <2>2, <2>3, NextComponentDoes
<1>7. QED
  BY <1>3, <1>4, <1>5, <1>6

\* Components are added to the event j, or it is created with them.
LEMMA GrowEffect ==
  ASSUME NEW j \in EventId, NEW cs,
         \A i \in EventId : i # j => row'[i] = row[i] /\ CompsIn(i, link') = CompsIn(i, link),
         events' \subseteq events \cup {j},
         CompsIn(j, link') = CompsIn(j, link) \cup cs
  PROVE  /\ OpenNext \subseteq OpenNow \cup {j}
         /\ \A i \in EventId : i # j => PlacesNext[i] \subseteq PlacesNow[i]
         /\ PlacesNext[j] \subseteq CompsIn(j, link) \cup cs
<1>1. \A i \in EventId : i # j /\ i \in OpenNext => i \in OpenNow
  BY DEF OpenNow, OpenNext, Open
<1>2. OpenNext \subseteq EventId
  BY DEF OpenNext, Open
<1>3. QED
  BY <1>1, <1>2, PlacesAre

LEMMA LinkAlone ==
  ASSUME IInv, HInv, CInv, SInv, UInv, PInv, NEW r, Request = {r}, Link(r)
  PROVE  PInv'
<1> DEFINE m == req[r]
           S == PlacesNow
           T == PlacesNext
           j == m.new.id
<1>0. /\ r \in Request /\ StoreTypeOK /\ KindFits(m) /\ JoinedFits(m)
      /\ Synced(m, row, link) /\ ChosenOpen(m) /\ Alone(m, OpenNow, S)
  BY LocalTyped, ReqChosen, ReqSynced DEF PInv, OpenNow, PlacesNow, UInv
<1>1. /\ m.pc = "link" /\ j \in events /\ j \in EventId /\ events' = events
      /\ req' = [req EXCEPT ![r] = Answered(r, m.cur)]
      /\ \A i \in EventId :
            /\ row'[i] = row[i]
            /\ CompsIn(i, link') = IF i = j THEN CompsIn(i, link) \cup m.cur ELSE CompsIn(i, link)
  BY <1>0, LinkEffect DEF StoreTypeOK
<1>2. m.kind \in Monitor /\ Moving(m) = {}
  BY <1>0, <1>1 DEF KindFits, Moving, Monitor
<1>3. OpenNext = OpenNow /\ j \in OpenNow
  BY <1>0, <1>1, <1>2 DEF OpenNext, OpenNow, Open, Synced, ChosenOpen, JoinedFits
<1>4. \A i \in EventId : T[i] \subseteq S[i] \cup m.cur /\ (i # j => T[i] \subseteq S[i])
  BY <1>1, <1>3, PlacesAre
<1> HIDE DEF S, T
<1>5. ASSUME NEW c \in Component, NEW i \in EventId, NEW k \in EventId, c \in T[i], c \in T[k]
      PROVE  i = k
  <2>1. c \in m.cur => \A q \in EventId : c \notin S[q]
    BY <1>0, <1>1 DEF Alone, Unplaced
  <2>2. CASE c \in m.cur
    BY <1>4, <1>5, <2>1, <2>2
  <2>3. CASE c \notin m.cur
    BY <1>0, <1>2, <1>4, <1>5, <2>3 DEF Alone, OnePlace
  <2>4. QED
    BY <2>2, <2>3
<1>6. AllLoaded(m, OpenNow) /\ m.pc # "create"
  BY <1>0, <1>1 DEF Alone
<1>7. Alone(Answered(r, m.cur), OpenNext, T)
  BY <1>0, <1>3, <1>5, <1>6, AnsweredAlone
<1>8. QED
  BY <1>1, <1>7, PInvStep DEF T

LEMMA CreateAlone ==
  ASSUME IInv, HInv, CInv, SInv, PInv, NEW r, Request = {r}, Create(r) \/ Extract(r)
  PROVE  PInv'
<1> DEFINE m == req[r]
           S == PlacesNow
           T == PlacesNext
<1>0. /\ r \in Request /\ StoreTypeOK /\ KindFits(m) /\ CompsFit(m) /\ JoinedFits(m)
      /\ Alone(m, OpenNow, S) /\ NoStrays /\ m \in Local /\ m.cur \in SUBSET Component
  BY LocalTyped, ReqChosen DEF PInv, OpenNow, PlacesNow, SInv
<1>1. ASSUME NEW j \in EventId, NEW e \in Row, SaveIncident(j, e, m.cur)
      PROVE  /\ j \notin OpenNow /\ OpenNext \subseteq OpenNow \cup {j}
             /\ \A i \in EventId : i # j => T[i] \subseteq S[i]
             /\ T[j] \subseteq m.cur
  <2>1. /\ j \notin events /\ events' = events \cup {j}
        /\ \A i \in EventId :
             /\ row'[i] = IF i = j THEN e ELSE row[i]
             /\ CompsIn(i, link') = IF i = j THEN CompsIn(i, link) \cup m.cur ELSE CompsIn(i, link)
    BY <1>0, <1>1, SaveEffect
  <2>2. CompsIn(j, link) = {}
    BY <1>0, <2>1 DEF NoStrays
  <2>3. j \notin OpenNow
    BY <2>1 DEF OpenNow, Open
  <2>4. QED
    BY <2>1, <2>2, <2>3, GrowEffect
<1> HIDE DEF S, T
<1>2. CASE Extract(r)
  <2>1. PICK j \in EventId, e \in Row, l \in Local :
           /\ m.pc = "extract" /\ SaveIncident(j, e, m.cur)
           /\ req' = [req EXCEPT ![r] = l] /\ Same(l, m) /\ l.pc = "extractMove"
           /\ l.cur = m.cur /\ l.new.id = j
    BY <1>0, <1>2, ExtractDoes
  <2>2. /\ OpenNext \subseteq OpenNow \cup {j} /\ T[j] \subseteq m.cur
        /\ \A i \in EventId : i # j => T[i] \subseteq S[i]
    BY <1>1, <2>1
  <2>3. Moving(m) = {} /\ Moving(l) = m.cur /\ m.kind # "regular" /\ l.kind # "regular"
    BY <1>0, <2>1 DEF Moving, KindFits, Monitor, Same
  <2>4. OnePlace(l, T)
    BY <1>0, <2>1, <2>2, <2>3 DEF Alone, OnePlace
  <2>5. Unplaced(l, T)
    BY <2>1 DEF Unplaced
  <2>6. AllLoaded(l, OpenNext)
    BY <1>0, <2>1, <2>3 DEF Alone, AllLoaded, Same
  <2>7. QED
    BY <2>1, <2>4, <2>5, <2>6, PInvStep DEF Alone, T
<1>3. CASE Create(r)
  <2>1. PICK j \in EventId, e \in Row, l \in Local :
           /\ m.pc = "create" /\ SaveIncident(j, e, m.cur)
           /\ req' = [req EXCEPT ![r] = l]
           /\ \/ m.kind = "v1" /\ l = Idle
              \/ /\ m.kind # "v1" /\ Same(l, m) /\ l.pc = "firstStatus"
                 /\ l.cur = m.cur /\ l.new.id = j
    BY <1>0, <1>3, CreateDoes
  <2>2. /\ OpenNext \subseteq OpenNow \cup {j} /\ T[j] \subseteq m.cur
        /\ \A i \in EventId : i # j => T[i] \subseteq S[i]
    BY <1>1, <2>1
  <2>3. Moving(m) = {}
    BY <2>1 DEF Moving
  <2>4. ASSUME m.kind # "regular" PROVE OnePlace(l, T)
    <3>1. \A c \in m.cur, i \in EventId : c \notin S[i]
      BY <1>0, <2>1, <2>4 DEF Alone, Unplaced
    <3>2. ASSUME NEW c \in Component, NEW i \in EventId, NEW k \in EventId, c \in T[i], c \in T[k]
          PROVE  i = k
      BY <1>0, <2>2, <2>3, <3>1, <3>2 DEF Alone, OnePlace
    <3>3. QED
      BY <3>2 DEF OnePlace
  <2>5. CASE m.kind = "v1" /\ l = Idle
    <3>1. OnePlace(l, T)
      BY <2>4, <2>5
    <3>2. Unplaced(Idle, T) /\ AllLoaded(Idle, OpenNext)
      BY DEF Unplaced, AllLoaded, Idle
    <3>3. QED
      BY <2>1, <2>5, <3>1, <3>2, PInvStep DEF Alone, T
  <2>6. CASE Same(l, m) /\ l.pc = "firstStatus" /\ l.cur = m.cur /\ l.new.id = j
    <3>1. m.kind = "regular" => Moving(l) = m.todo /\ m.cur \subseteq m.todo
      BY <1>0, <2>6 DEF Moving, Same, CompsFit
    <3>2. m.kind = "regular" => OnePlace(l, T)
      BY <1>0, <2>2, <2>3, <2>6, <3>1 DEF Alone, OnePlace
    <3>3. Unplaced(l, T)
      BY <2>6 DEF Unplaced
    <3>4. AllLoaded(l, OpenNext)
      BY <1>0, <2>1, <2>2, <2>6 DEF Alone, AllLoaded, Same
    <3>5. QED
      BY <2>1, <2>4, <3>2, <3>3, <3>4, PInvStep DEF Alone, T
  <2>7. QED
    BY <2>1, <2>5, <2>6
<1>4. QED
  BY <1>2, <1>3

LEMMA WritesAlone ==
  ASSUME IInv, AInv, HInv, CInv, SInv, PInv, PatchStatus \subseteq Progress,
         "extract" \notin Kinds, NEW r, Request = {r},
         FirstStatus(r) \/ MarkSystem(r) \/ Raise(r) \/ Patch(r)
  PROVE  PInv'
<1> DEFINE m == req[r]
           I == OpenNow
           J == OpenNext
           S == PlacesNow
           T == PlacesNext
<1>0. /\ r \in Request /\ KindFits(m) /\ CompsFit(m) /\ JoinedFits(m) /\ Sound(m)
      /\ Synced(m, row, link) /\ Shrinks(I, J, S, T) /\ Alone(m, I, S) /\ m \in Local
  BY LocalTyped, ReqChosen, ReqSynced, StepShrinks DEF PInv, OpenNow, PlacesNow, AInv
<1> HIDE DEF I, J, S, T
<1>1. ASSUME NEW cs, req' = [req EXCEPT ![r] = Answered(r, cs)], m.pc # "create",
             \A c \in Component, i, j \in EventId :
                c \in T[i] /\ c \in T[j] =>
                   i = j \/ (m.kind = "regular" /\ c \in m.todo \ cs /\ m.new.id \in {i, j})
      PROVE  PInv'
  <2>1. AllLoaded(m, I) /\ J \subseteq I
    BY <1>0 DEF Alone, Shrinks
  <2>2. Alone(Answered(r, cs), J, T)
    BY <1>0, <1>1, <2>1, AnsweredAlone
  <2>3. QED
    BY <1>1, <2>2, PInvStep DEF J, T
<1>2. ASSUME m.kind # "regular", m.pc \notin {"create", "extractMove"},
             req' = [req EXCEPT ![r] = Answered(r, m.cur)]
      PROVE  PInv'
  <2>1. Moving(m) = {}
    BY <1>2 DEF Moving
  <2>2. \A c \in Component, i, j \in EventId : c \in T[i] /\ c \in T[j] => i = j
    BY <1>0, <2>1 DEF Alone, OnePlace, Shrinks
  <2>3. QED
    BY <1>1, <1>2, <2>2
<1>3. CASE MarkSystem(r) \/ Raise(r)
  <2>1. m.pc \in {"markSystem", "raise"} /\ req' = [req EXCEPT ![r] = Answered(r, m.cur)]
    BY <1>3 DEF MarkSystem, Raise, Answer, At
  <2>2. QED
    BY <1>0, <1>2, <2>1 DEF KindFits, Monitor
<1>4. CASE Patch(r)
  <2>1. /\ m.pc = "patch"
        /\ \/ req' = [req EXCEPT ![r] = Idle]
           \/ \E l \in Local : req' = [req EXCEPT ![r] = l] /\ Same(l, m) /\ l.pc = "reopen"
    BY <1>0, <1>4, PatchDoes
  <2>2. m.kind = "patch" /\ m.opened = {} /\ Moving(m) = {}
    BY <1>0, <2>1 DEF KindFits, JoinedFits, Moving
  <2>3. OnePlace(Idle, S)
    BY <1>0, <2>2 DEF Alone, OnePlace
  <2>4. ASSUME NEW l, req' = [req EXCEPT ![r] = l], l = Idle \/ (Same(l, m) /\ l.pc = "reopen")
        PROVE  PInv'
    <3>1. l.kind # "regular" /\ l.opened = {} /\ l.pc \in {"idle", "reopen"}
      BY <2>2, <2>4 DEF Same, Idle
    <3>2. Alone(l, J, T)
      BY <1>0, <2>3, <3>1, StartAlone DEF Unplaced
    <3>3. QED
      BY <2>4, <3>2, PInvStep DEF J, T
  <2>5. QED
    BY <2>1, <2>4
<1>5. CASE FirstStatus(r)
  <2>1. /\ m.pc = "firstStatus"
        /\ \/ /\ m.kind # "regular" \/ m.opened = {} \/ m.impact = 0
              /\ req' = [req EXCEPT ![r] = Answered(r, m.cur)]
           \/ \E l \in Local :
                /\ m.kind = "regular"
                /\ req' = [req EXCEPT ![r] = l] /\ Same(l, m)
                /\ l.pc = "nextComponent" /\ l.new.id = m.new.id
    BY <1>0, <1>5, FirstStatusDoes
  <2>2. ASSUME NEW l \in Local, m.kind = "regular", req' = [req EXCEPT ![r] = l], Same(l, m),
               l.pc = "nextComponent", l.new.id = m.new.id
        PROVE  PInv'
    <3>1. Alone(l, J, T)
      BY <1>0, <2>1, <2>2, GoOnAlone DEF Same, Unplaced
    <3>2. QED
      BY <2>2, <3>1, PInvStep DEF J, T
  <2>3. CASE m.kind # "regular" /\ req' = [req EXCEPT ![r] = Answered(r, m.cur)]
    BY <1>2, <2>1, <2>3
  <2>4. CASE /\ m.kind = "regular" /\ (m.opened = {} \/ m.impact = 0)
             /\ req' = [req EXCEPT ![r] = Answered(r, m.cur)]
    \* No other incident is open, or the new event is not an incident.
    <3>1. ASSUME NEW c \in Component, NEW i \in EventId, NEW k \in EventId,
                 c \in S[i], c \in S[k], i # k
          PROVE  FALSE
      <4>1. i \in I /\ k \in I
        BY <3>1, PlacesAre DEF I, S
      <4>2. m.new.id \in {i, k}
        BY <1>0, <3>1 DEF Alone, OnePlace
      <4>3. CASE m.opened = {}
        BY <1>0, <2>1, <2>4, <3>1, <4>1, <4>2, <4>3 DEF Alone, AllLoaded
      <4>4. CASE m.impact = 0
        <5>1. m.type # "incident"
          BY <1>0, <2>4, <4>4 DEF Sound, Placing
        <5>2. m.new.row = row[m.new.id] /\ m.new.row.type = m.type
          BY <1>0, <2>1 DEF Synced, Current, JoinedFits
        <5>3. QED
          BY <4>1, <4>2, <5>1, <5>2 DEF I, OpenNow, Open
      <4>5. QED
        BY <2>4, <4>3, <4>4
    <3>2. \A c \in Component, i, j \in EventId : c \in T[i] /\ c \in T[j] => i = j
      BY <1>0, <3>1 DEF Shrinks
    <3>3. QED
      BY <1>1, <2>1, <2>4, <3>2
  <2>5. QED
    BY <2>1, <2>2, <2>3, <2>4
<1>6. QED
  BY <1>3, <1>4, <1>5

\* A move takes the components out of the incident they leave, or closes it,
\* and adds them to the one they join.
LEMMA MoveEffectOnPlaces ==
  ASSUME IInv, HInv, CInv, SInv, UInv, PInv, "extract" \notin Kinds, NEW r, Request = {r},
         Move(r) \/ ExtractMove(r)
  PROVE  /\ OpenNext \subseteq OpenNow
         /\ \A c \in Component, i, j \in EventId :
               c \in PlacesNext[i] /\ c \in PlacesNext[j] =>
                  i = j \/ (/\ c \in Moving(req[r]) \ req[r].cur
                            /\ req[r].new.id \in {i, j})
<1> DEFINE m == req[r]
           S == PlacesNow
           T == PlacesNext
           left == Left(m.cur, m.old, Move(r) /\ m.closeOld)
<1>0. /\ r \in Request /\ StoreTypeOK /\ KindFits(m) /\ CompsFit(m) /\ LeftFits(m)
      /\ Synced(m, row, link) /\ ChosenOpen(m) /\ Alone(m, OpenNow, S) /\ m \in Local
  BY LocalTyped, ReqChosen, ReqSynced DEF PInv, OpenNow, PlacesNow, UInv
<1>1. /\ m.pc \in {"move", "extractMove"}
      /\ m.old \in Copy /\ m.new \in Copy /\ m.cur \in SUBSET Component
      /\ m.old.id \in events /\ m.old.id # m.new.id /\ m.cur \subseteq m.old.comps
      /\ Current(m.old, row, link) /\ Current(m.new, row, link)
      /\ events' = events /\ left.id = m.old.id /\ MoveDone(m.cur, left, m.new)
  BY <1>0, MoveFacts
<1>2. m.old.id \in EventId /\ m.new.id \in EventId
  BY <1>1 DEF Copy
<1>3. \/ left.row.dates = "past"
      \/ left.row = m.old.row /\ left.comps = m.old.comps \ m.cur
  BY <1>1 DEF Left, Copy, Row
<1> HIDE DEF left, m
<1>4. /\ \A i \in EventId : i # m.old.id => row'[i] = row[i]
      /\ row'[m.old.id] = row[m.old.id] \/ row'[m.old.id].dates = "past"
      /\ row'[m.old.id].dates = "past" \/ CompsIn(m.old.id, link') \cap m.cur = {}
      /\ CompsIn(m.old.id, link') \subseteq CompsIn(m.old.id, link)
         \/ row'[m.old.id].dates = "past"
      /\ CompsIn(m.new.id, link') = CompsIn(m.new.id, link) \cup m.cur
      /\ \A i \in EventId : i # m.old.id /\ i # m.new.id =>
            CompsIn(i, link') = CompsIn(i, link)
      /\ m.cur \subseteq CompsIn(m.old.id, link)
  BY <1>1, <1>3 DEF MoveDone, Current
<1>5. OpenNext \subseteq OpenNow
  BY <1>1, <1>2, <1>4 DEF OpenNow, OpenNext, Open
<1>6. row'[m.old.id].dates = "past" => m.old.id \notin OpenNext
  BY DEF OpenNext, Open
<1>7. /\ \A i \in EventId : i # m.new.id => T[i] \subseteq S[i]
      /\ T[m.new.id] \subseteq S[m.new.id] \cup m.cur
      /\ T[m.old.id] \cap m.cur = {}
  <2>1. \A i \in EventId : i # m.new.id => T[i] \subseteq S[i]
    BY <1>1, <1>2, <1>4, <1>5, <1>6, PlacesAre
  <2>2. T[m.new.id] \subseteq S[m.new.id] \cup m.cur
    BY <1>2, <1>4, <1>5, PlacesAre
  <2>3. T[m.old.id] \cap m.cur = {}
    BY <1>2, <1>4, <1>6, PlacesAre
  <2>4. QED
    BY <2>1, <2>2, <2>3
<1>8. ASSUME NEW c \in m.cur PROVE c \in S[m.old.id]
  <2>1. m.old.row.type = "incident" /\ m.old.row.dates = "open"
    <3>1. CASE m.kind \in Monitor
      BY <1>0, <1>1, <3>1 DEF LeftFits, ChosenOpen, LeaveLabel
    <3>2. CASE m.kind = "regular"
      <4>1. m.pc = "move"
        BY <1>0, <1>1, <3>2 DEF KindFits, Monitor
      <4>2. m.old \in m.opened /\ m.old.row.type = "incident" /\ c \in m.todo
        BY <1>0, <1>8, <3>2, <4>1 DEF LeftFits, CompsFit
      <4>3. c \in m.old.comps
        BY <1>1, <1>8
      <4>4. QED
        BY <1>0, <4>2, <4>3 DEF Alone, AllLoaded
    <3>3. m.kind \in Monitor \cup {"regular"}
      BY <1>0, <1>1 DEF KindFits, Local
    <3>4. QED
      BY <3>1, <3>2, <3>3
  <2>2. m.old.id \in OpenNow
    BY <1>1, <1>2, <2>1 DEF OpenNow, Open, Current
  <2>3. QED
    BY <1>2, <1>4, <1>8, <2>2, PlacesAre
<1> HIDE DEF S, T
<1>9. ASSUME NEW c \in Component, NEW i \in EventId, NEW j \in EventId,
             c \in T[i], c \in T[j], i # j
      PROVE  c \in Moving(m) \ m.cur /\ m.new.id \in {i, j}
  <2>1. \A p, q \in EventId : c \in S[p] /\ c \in S[q] =>
           p = q \/ (c \in Moving(m) /\ m.new.id \in {p, q})
    BY <1>0 DEF Alone, OnePlace
  <2>2. CASE c \in m.cur
    <3>1. i # m.old.id /\ j # m.old.id
      BY <1>7, <1>9, <2>2
    <3>2. i = m.new.id
      BY <1>1, <1>2, <1>7, <1>8, <1>9, <2>1, <2>2, <3>1
    <3>3. j = m.new.id
      BY <1>1, <1>2, <1>7, <1>8, <1>9, <2>1, <2>2, <3>1
    <3>4. QED
      BY <1>9, <3>2, <3>3
  <2>3. CASE c \notin m.cur
    BY <1>7, <1>9, <2>1, <2>3
  <2>4. QED
    BY <2>2, <2>3
<1>10. QED
  BY <1>5, <1>9 DEF S, T, m

LEMMA MoveAlone ==
  ASSUME IInv, HInv, CInv, SInv, UInv, PInv, "extract" \notin Kinds, NEW r, Request = {r},
         Move(r) \/ ExtractMove(r)
  PROVE  PInv'
<1> DEFINE m == req[r]
           J == OpenNext
           T == PlacesNext
<1>0. /\ r \in Request /\ KindFits(m) /\ CompsFit(m) /\ LeftFits(m) /\ JoinedFits(m)
      /\ Alone(m, OpenNow, PlacesNow) /\ m \in Local
      /\ m.pc \in {"move", "extractMove"} /\ m.old \in Copy
  BY LocalTyped, ReqChosen, MoveFacts DEF PInv, OpenNow, PlacesNow
<1>1. /\ J \subseteq OpenNow
      /\ \A c \in Component, i, j \in EventId :
            c \in T[i] /\ c \in T[j] =>
               i = j \/ (c \in Moving(m) \ m.cur /\ m.new.id \in {i, j})
  BY MoveEffectOnPlaces
<1> HIDE DEF J, T
<1>2. /\ m.kind = "regular" => m.pc = "move" /\ Moving(m) = m.todo
      /\ m.kind # "regular" => Moving(m) \subseteq m.cur
  BY <1>0 DEF KindFits, Moving, Monitor
<1>3. CASE req' = [req EXCEPT ![r] = Answered(r, m.cur)]
  <2>1. Alone(Answered(r, m.cur), J, T)
    BY <1>0, <1>1, <1>2, AnsweredAlone DEF Alone
  <2>2. QED
    BY <1>3, <2>1, PInvStep DEF J, T
<1>4. ASSUME NEW l \in Local, req' = [req EXCEPT ![r] = l], Same(l, m), m.kind = "system",
             l.pc = "markSystem"
      PROVE  PInv'
  <2>1. OnePlace(l, T)
    BY <1>1, <1>2, <1>4 DEF OnePlace
  <2>2. Unplaced(l, T)
    BY <1>4 DEF Unplaced
  <2>3. AllLoaded(l, J)
    BY <1>0, <1>4 DEF Same, AllLoaded, Alone
  <2>4. QED
    BY <1>4, <2>1, <2>2, <2>3, PInvStep DEF Alone, J, T
<1>5. ASSUME NEW l \in Local, req' = [req EXCEPT ![r] = l], m.kind = "regular", Move(r),
             l.kind = m.kind, l.pc = "nextComponent", l.todo = m.todo \ m.cur, l.new = m.new,
             l.opened = (m.opened \ {m.old}) \cup {Left(m.cur, m.old, m.closeOld)}
      PROVE  PInv'
  <2>1. Moving(l) = m.todo \ m.cur /\ Moving(m) = m.todo
    BY <1>2, <1>5 DEF Moving
  <2>2. OnePlace(l, T)
    BY <1>1, <1>5, <2>1 DEF OnePlace
  <2>3. Unplaced(l, T)
    BY <1>5 DEF Unplaced
  <2> DEFINE left == Left(m.cur, m.old, m.closeOld)
  <2>4. /\ left.id = m.old.id
        /\ left.comps \cap (m.todo \ m.cur) = {} \/ (left.row = m.old.row
                                                      /\ left.comps \subseteq m.old.comps)
    <3>1. m.closeOld => m.old.comps = m.cur
      BY <1>0, <1>2, <1>5 DEF LeftFits
    <3>2. /\ left.id = m.old.id
          /\ m.closeOld => left.comps = m.old.comps
          /\ ~m.closeOld => left.row = m.old.row /\ left.comps = m.old.comps \ m.cur
      BY <1>0 DEF Left, Copy
    <3> HIDE DEF left
    <3>3. QED
      BY <3>1, <3>2
  <2> HIDE DEF left
  <2>5. l.opened = (m.opened \ {m.old}) \cup {left}
    BY <1>5 DEF left
  <2>6. m.old \in m.opened
    BY <1>0, <1>2, <1>5 DEF LeftFits
  <2>7. ASSUME NEW i \in J, i # l.new.id PROVE \E o \in l.opened : o.id = i
    <3>1. PICK o \in m.opened : o.id = i
      BY <1>0, <1>1, <1>2, <1>5, <2>7 DEF Alone, AllLoaded
    <3>2. CASE o = m.old
      BY <2>4, <2>5, <3>1, <3>2
    <3>3. CASE o # m.old
      BY <2>5, <3>1, <3>3
    <3>4. QED
      BY <3>2, <3>3
  <2>8. ASSUME NEW o \in l.opened, o.row.type = "incident", o.row.dates # "open"
        PROVE  o.comps \cap l.todo = {}
    <3>1. \A p \in m.opened : p.row.type = "incident" /\ p.row.dates # "open" =>
             p.comps \cap m.todo = {}
      BY <1>0 DEF Alone, AllLoaded
    <3>2. QED
      BY <1>5, <2>4, <2>5, <2>6, <2>8, <3>1
  <2>9. AllLoaded(l, J)
    BY <1>5, <2>7, <2>8 DEF AllLoaded
  <2>10. QED
    BY <1>5, <2>2, <2>3, <2>9, PInvStep DEF Alone, J, T
<1>6. CASE Move(r)
  BY <1>0, <1>3, <1>5, <1>6, MoveDoes
<1>7. CASE ExtractMove(r)
  BY <1>0, <1>3, <1>4, <1>7, ExtractMoveDoes
<1>8. QED
  BY <1>6, <1>7

LEMMA InitPInv == Init => PInv
<1> SUFFICES ASSUME Init PROVE PInv
  OBVIOUS
<1>1. \A i \in EventId : Places(events, row, link)[i] = {}
  BY DEF Init, StoreInit, Places, Open
<1>2. Alone(Idle, Open(events, row), Places(events, row, link))
  BY <1>1 DEF Alone, OnePlace, Unplaced, AllLoaded, Idle
<1>3. QED
  BY <1>2 DEF Init, PInv

LEMMA NextPInv ==
  ASSUME OneAtATime, ~Faults, "extract" \notin Kinds, PatchStatus \subseteq Progress
  PROVE  Serial /\ UInv /\ PInv /\ [Next]_vars => PInv'
<1> SUFFICES ASSUME Serial, UInv, PInv, [Next]_vars PROVE PInv'
  OBVIOUS
<1>0. PICK r : Request = {r}
  BY DEF OneAtATime
<1>1. CASE Arrive(r)
  BY <1>0, <1>1, ArriveAlone DEF Serial
<1>2. CASE Handle(r) /\ ~Reopen(r)
  BY <1>0, <1>2, ReadsOnAlone, LinkAlone, CreateAlone, WritesAlone, MoveAlone DEF Serial, Handle
<1>3. CASE Reopen(r)
  <2>1. "reopened" \in PatchStatus
    BY <1>0, <1>3, ReqChosen DEF Serial, JoinedFits, Reopen, At
  <2>2. "reopened" \notin Progress
    BY Zenon DEF Progress, IncidentOpenStatus, IncidentImpactChanged
  <2>3. QED
    BY <2>1, <2>2
<1>4. CASE events' = events /\ row' = row /\ link' = link /\ req' = req
  BY <1>4 DEF PInv
<1>5. QED
  BY <1>0, <1>1, <1>2, <1>3, <1>4 DEF Next, ClockMoves, Fail, vars

\* With one request at a time that does not fail, no extractions, and
\* operators that only give open incidents a status of their work in progress,
\* a component is in at most one active incident between requests.
THEOREM OneIncidentEach ==
  ASSUME OneAtATime, ~Faults, "extract" \notin Kinds, PatchStatus \subseteq Progress
  PROVE  Spec => []OneActiveIncident
<1>1. IInv /\ CInv /\ UInv /\ PInv => OneActiveIncident
  <2> SUFFICES ASSUME IInv, CInv, UInv, PInv, Quiet, NEW c \in Component,
                      NEW i \in IncidentsOf(c), NEW j \in IncidentsOf(c)
               PROVE  i = j
    BY DEF OneActiveIncident
  <2>0. PICK r : Request = {r}
    BY DEF OneAtATime
  <2>1. req[r] = Idle
    BY <2>0, ReqChosen DEF Quiet, At, KindFits
  <2>2. Alone(Idle, OpenNow, PlacesNow)
    BY <2>0, <2>1 DEF PInv, OpenNow, PlacesNow
  <2>3. ASSUME NEW k \in IncidentsOf(c) PROVE k \in EventId /\ c \in PlacesNow[k]
    <3>1. k \in EventId /\ OpenIncident(k) /\ c \in CompsIn(k, link)
      BY UnscheduledOpen DEF UInv, IInv, TypeOK, IncidentsOf, Holding, CompsIn
    <3>2. k \in OpenNow
      BY <3>1 DEF OpenNow, Open, OpenIncident
    <3>3. QED
      BY <3>1, <3>2, PlacesAre
  <2>4. Moving(Idle) = {}
    BY DEF Moving, Idle
  <2>5. QED
    BY <2>2, <2>3, <2>4 DEF Alone, OnePlace
<1>2. Serial => IInv /\ CInv
  BY DEF Serial
<1>3. QED
  BY InitSerial, NextSerial, InitUInv, NextUInv, InitPInv, NextPInv, <1>1, <1>2, PTL DEF Spec
===============================================================================
