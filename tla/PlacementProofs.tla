--------------------------- MODULE PlacementProofs ---------------------------
(***************************************************************************)
(* What TLAPS proves of Placement, for any number of events, components,   *)
(* schedules and concurrent requests: the types, that no component is      *)
(* lost, that type and impact agree, and that end dates stay.              *)
(***************************************************************************)
EXTENDS Placement, TLAPS

\* The labels at which a request works on the event it joins, and on the one
\* the component leaves: the struct has been loaded by then.
JoinLabel == {"link", "firstStatus", "nextComponent", "move", "extractMove",
              "markSystem", "patch", "reopen"}
LeaveLabel == {"matchHigher", "move", "raise", "extract", "extractMove"}

\* The labels a regular creation never reaches.
ReportLabel == {"findEvents", "matchTarget", "link", "matchHigher", "raise",
                "extract", "extractMove", "markSystem"}

Loaded(l) ==
    /\ l.pc \in JoinLabel => l.new \in Copy
    /\ l.pc \in LeaveLabel => l.old \in Copy
    /\ l.pc \in ReportLabel => l.kind # "regular"

\* The inductive invariant: the types, and no request works on a nil struct.
IInv == TypeOK /\ \A r \in Request : Loaded(req[r])

-----------------------------------------------------------------------------
(* Typing of the pieces the actions are built from *)

LEMMA IdleTyped == Idle \in Local
  BY MaxImpactAssumption DEF Idle, Local, Label, EventType, Impact, Dates

LEMMA LoadTyped ==
  ASSUME StoreTypeOK, NEW i \in EventId
  PROVE  Load(i) \in Copy
  BY DEF StoreTypeOK, Load, Copy, ComponentsOf

LEMMA StatusTyped ==
  /\ "resolved" \in Status
  /\ NoStatus \in Status
  /\ \A t \in EventType : InitialStatus(t) \in Status
  BY DEF Status, NoStatus, IncidentOpenStatus, MaintenanceStatus, InitialStatus

LEMMA LeftTyped ==
  ASSUME NEW old \in Copy, NEW cs \in SUBSET Component, NEW closeOld \in BOOLEAN
  PROVE  Left(cs, old, closeOld) \in Copy
  BY StatusTyped DEF Left, Copy, Row, Dates

LEMMA ModifyTyped ==
  ASSUME StoreTypeOK, NEW copy \in Copy, ModifyIncident(copy)
  PROVE  StoreTypeOK'
<1>1. NonZeroFields(row[copy.id], copy.row) \in Row
  BY DEF StoreTypeOK, NonZeroFields, Copy, Row
<1>2. row' \in [EventId -> Row]
  BY <1>1 DEF ModifyIncident, StoreTypeOK, Copy
<1>3. link' \subseteq EventId \X Component
  BY DEF ModifyIncident, StoreTypeOK, Copy
<1>4. QED
  BY <1>2, <1>3 DEF ModifyIncident, StoreTypeOK

LEMMA SaveTyped ==
  ASSUME StoreTypeOK, NEW i \in EventId, NEW r \in Row, NEW cs \in SUBSET Component,
         SaveIncident(i, r, cs)
  PROVE  StoreTypeOK'
  BY DEF SaveIncident, StoreTypeOK

LEMMA MoveTyped ==
  ASSUME StoreTypeOK, NEW cs \in SUBSET Component, NEW old \in Copy, NEW new \in Copy,
         NEW closeOld \in BOOLEAN, MoveComponents(cs, old, new, closeOld)
  PROVE  StoreTypeOK'
<1>1. Left(cs, old, closeOld) \in Copy
  BY LeftTyped
<1>2. row' \in [EventId -> Row]
  BY <1>1 DEF MoveComponents, StoreTypeOK, Copy
<1>3. link' \subseteq EventId \X Component
  BY <1>1 DEF MoveComponents, StoreTypeOK, Copy
<1>4. QED
  BY <1>2, <1>3 DEF MoveComponents, StoreTypeOK

LEMMA IdleLoaded == Loaded(Idle)
  BY DEF Loaded, Idle, JoinLabel, LeaveLabel, ReportLabel

LEMMA AnsweredTyped ==
  ASSUME IInv, NEW r \in Request, NEW cs \in SUBSET Component,
         req[r].kind = "regular" => req[r].pc \in JoinLabel
  PROVE  Answered(r, cs) \in Local /\ Loaded(Answered(r, cs))
<1>1. req[r] \in Local /\ Loaded(req[r])
  BY DEF IInv, TypeOK
<1>2. CASE req[r].todo \ cs = {}
  BY <1>2, IdleTyped, IdleLoaded DEF Answered
<1>3. CASE req[r].todo \ cs # {}
  <2>1. Answered(r, cs) \in Local
    BY <1>1, <1>3 DEF Answered, Local, Label
  <2>2. Answered(r, cs).pc = IF req[r].kind = "regular" THEN "nextComponent" ELSE "findEvents"
    BY <1>1, <1>3 DEF Answered, Local
  <2>3. Answered(r, cs).new = IF req[r].kind = "regular" THEN req[r].new ELSE NoCopy
    BY <1>1, <1>3 DEF Answered, Local
  <2>4. Answered(r, cs).kind = req[r].kind
    BY <1>1, <1>3 DEF Answered, Local
  <2>5. QED
    BY <1>1, <2>1, <2>2, <2>3, <2>4 DEF Loaded, JoinLabel, LeaveLabel, ReportLabel
<1>4. QED
  BY <1>2, <1>3

\* A step of request r preserves the invariant when it leaves a typed store
\* and a typed local state that has loaded what its label works on.
LEMMA LocalStep ==
  ASSUME IInv, StoreTypeOK', NEW r \in Request, NEW l \in Local, Loaded(l),
         req' = [req EXCEPT ![r] = l]
  PROVE  IInv'
<1>1. req' \in [Request -> Local]
  BY DEF IInv, TypeOK
<1>2. \A q \in Request : Loaded(req'[q])
  <2> TAKE q \in Request
  <2>1. req'[q] = IF q = r THEN l ELSE req[q]
    BY DEF IInv, TypeOK
  <2>2. QED
    BY <2>1 DEF IInv
<1>3. QED
  BY <1>1, <1>2 DEF IInv, TypeOK, Loaded

LEMMA StoreUnchanged ==
  ASSUME IInv, UNCHANGED store
  PROVE  StoreTypeOK'
  BY DEF IInv, TypeOK, StoreTypeOK, store

-----------------------------------------------------------------------------
(* One lemma per action *)

LEMMA SystemReportStep ==
  ASSUME IInv, NEW r \in Request, SystemReport(r)
  PROVE  IInv'
<1>1. PICK cs \in SUBSET Component, im \in Impact :
         req' = [req EXCEPT ![r] = [Idle EXCEPT !.pc = "findEvents", !.kind = "system",
                                        !.impact = im, !.todo = cs]]
  BY DEF SystemReport, NonEmptySubsets
<1> DEFINE l == [Idle EXCEPT !.pc = "findEvents", !.kind = "system", !.impact = im, !.todo = cs]
<1>2. l \in Local
  BY IdleTyped DEF SystemReport, Local, Label, Idle
<1>3. Loaded(l)
  BY DEF Loaded, Idle, JoinLabel, LeaveLabel, ReportLabel
<1>4. QED
  BY <1>1, <1>2, <1>3, LocalStep, StoreUnchanged DEF SystemReport

LEMMA FindEventsStep ==
  ASSUME IInv, NEW r \in Request, FindEvents(r)
  PROVE  IInv'
<1>0. req[r] \in Local /\ Loaded(req[r]) /\ req[r].pc = "findEvents"
  BY DEF IInv, TypeOK, FindEvents, At
<1>1. PICK c \in req[r].todo :
        \/ req' = [req EXCEPT ![r].pc = "matchTarget", ![r].cur = {c}]
        \/ req' = [req EXCEPT ![r] = Answered(r, {c})]
        \/ \E i \in EventId : req' = [req EXCEPT ![r].pc = "matchHigher", ![r].cur = {c},
                                               ![r].old = Load(i)]
  BY DEF FindEvents, Holding
<1>2. c \in Component /\ req[r].kind # "regular" /\ StoreTypeOK
  BY <1>0 DEF Local, Loaded, ReportLabel, IInv, TypeOK
<1>3. CASE req' = [req EXCEPT ![r].pc = "matchTarget", ![r].cur = {c}]
  <2> DEFINE l == [req[r] EXCEPT !.pc = "matchTarget", !.cur = {c}]
  <2>1. l \in Local
    BY <1>0, <1>2 DEF Local, Label
  <2>2. Loaded(l)
    BY <1>0, <1>2 DEF Local, Loaded, JoinLabel, LeaveLabel, ReportLabel
  <2>3. req' = [req EXCEPT ![r] = l]
    BY <1>3
  <2>4. QED
    BY <2>1, <2>2, <2>3, LocalStep, StoreUnchanged DEF FindEvents
<1>4. CASE req' = [req EXCEPT ![r] = Answered(r, {c})]
  BY <1>2, <1>4, AnsweredTyped, LocalStep, StoreUnchanged DEF FindEvents
<1>5. ASSUME NEW i \in EventId,
             req' = [req EXCEPT ![r].pc = "matchHigher", ![r].cur = {c}, ![r].old = Load(i)]
      PROVE  IInv'
  <2> DEFINE l == [req[r] EXCEPT !.pc = "matchHigher", !.cur = {c}, !.old = Load(i)]
  <2>0. Load(i) \in Copy
    BY <1>2, LoadTyped
  <2>1. l \in Local
    BY <1>0, <1>2, <2>0 DEF Local, Label
  <2>2. Loaded(l)
    BY <1>0, <1>2, <2>0 DEF Local, Loaded, JoinLabel, LeaveLabel, ReportLabel
  <2>3. req' = [req EXCEPT ![r] = l]
    BY <1>5
  <2>4. QED
    BY <2>1, <2>2, <2>3, LocalStep, StoreUnchanged DEF FindEvents
<1>6. QED
  BY <1>1, <1>3, <1>4, <1>5

\* The facts about the local state of request r that most steps need.
LEMMA LocalTyped ==
  ASSUME IInv, NEW r \in Request
  PROVE  /\ req[r] \in Local /\ Loaded(req[r]) /\ StoreTypeOK
         /\ req[r].cur \in SUBSET Component
         /\ req[r].pc \in JoinLabel => req[r].new \in Copy
         /\ req[r].pc \in LeaveLabel => req[r].old \in Copy
         /\ req[r].pc \in ReportLabel => req[r].kind # "regular"
  BY DEF IInv, TypeOK, Local, Loaded

LEMMA AnswerStep ==
  ASSUME IInv, StoreTypeOK', NEW r \in Request, Answer(r),
         req[r].kind = "regular" => req[r].pc \in JoinLabel
  PROVE  IInv'
  BY LocalTyped, AnsweredTyped, LocalStep DEF Answer

LEMMA MatchTargetStep ==
  ASSUME IInv, NEW r \in Request, MatchTarget(r)
  PROVE  IInv'
<1>0. req[r].pc = "matchTarget"
  BY DEF MatchTarget, At
<1>1. CASE req' = [req EXCEPT ![r].pc = "create"]
  <2> DEFINE l == [req[r] EXCEPT !.pc = "create"]
  <2>1. l \in Local
    BY LocalTyped DEF Local, Label
  <2>2. Loaded(l)
    BY LocalTyped DEF Local, Loaded, JoinLabel, LeaveLabel, ReportLabel
  <2>3. req' = [req EXCEPT ![r] = l]
    BY <1>1
  <2>4. QED
    BY <2>1, <2>2, <2>3, LocalStep, StoreUnchanged DEF MatchTarget
<1>2. ASSUME NEW i \in EventId,
             req' = [req EXCEPT ![r].pc = "link", ![r].new = Joined(Load(i), req[r].cur)]
      PROVE  IInv'
  <2> DEFINE new == Joined(Load(i), req[r].cur)
             l == [req[r] EXCEPT !.pc = "link", !.new = new]
  <2>0. new \in Copy
    BY LocalTyped, LoadTyped DEF Joined, Copy
  <2> HIDE DEF new
  <2>1. l \in Local
    BY <2>0, LocalTyped DEF Local, Label
  <2>2. Loaded(l)
    BY <1>0, <2>0, LocalTyped DEF Local, Loaded, JoinLabel, LeaveLabel, ReportLabel
  <2>3. req' = [req EXCEPT ![r] = l]
    BY <1>2 DEF new
  <2>4. QED
    BY <2>1, <2>2, <2>3, LocalStep, StoreUnchanged DEF MatchTarget
<1>3. QED
  BY <1>1, <1>2 DEF MatchTarget, SameImpact

LEMMA LinkStep ==
  ASSUME IInv, NEW r \in Request, Link(r)
  PROVE  IInv'
<1>1. req[r].pc = "link" /\ req[r].new \in Copy /\ req[r].kind # "regular"
  BY LocalTyped DEF Link, At, JoinLabel, ReportLabel
<1>2. StoreTypeOK'
  BY <1>1, LocalTyped, ModifyTyped DEF Link
<1>3. QED
  BY <1>1, <1>2, AnswerStep DEF Link

LEMMA MatchHigherStep ==
  ASSUME IInv, NEW r \in Request, MatchHigher(r)
  PROVE  IInv'
<1>0. req[r].pc = "matchHigher" /\ req[r].old \in Copy /\ req[r].kind # "regular"
  BY LocalTyped DEF MatchHigher, At, LeaveLabel, ReportLabel
<1>1. ASSUME NEW pc \in {"raise", "extract"}, req' = [req EXCEPT ![r].pc = pc]
      PROVE  IInv'
  <2> DEFINE l == [req[r] EXCEPT !.pc = pc]
  <2>1. l \in Local
    BY LocalTyped DEF Local, Label
  <2>2. Loaded(l)
    BY <1>0, LocalTyped DEF Local, Loaded, JoinLabel, LeaveLabel, ReportLabel
  <2>3. req' = [req EXCEPT ![r] = l]
    BY <1>1
  <2>4. QED
    BY <2>1, <2>2, <2>3, LocalStep, StoreUnchanged DEF MatchHigher
<1>2. ASSUME NEW i \in EventId,
             req' = [req EXCEPT ![r].pc = "move", ![r].new = Load(i),
                                ![r].closeOld = OneComponent(Load(i))]
      PROVE  IInv'
  <2> DEFINE l == [req[r] EXCEPT !.pc = "move", !.new = Load(i),
                                 !.closeOld = OneComponent(Load(i))]
  <2>0. Load(i) \in Copy /\ OneComponent(Load(i)) \in BOOLEAN
    BY LocalTyped, LoadTyped DEF OneComponent
  <2>1. l \in Local
    BY <2>0, LocalTyped DEF Local, Label
  <2>2. Loaded(l)
    BY <1>0, <2>0, LocalTyped DEF Local, Loaded, JoinLabel, LeaveLabel, ReportLabel
  <2>3. req' = [req EXCEPT ![r] = l]
    BY <1>2
  <2>4. QED
    BY <2>1, <2>2, <2>3, LocalStep, StoreUnchanged DEF MatchHigher
<1>3. QED
  BY <1>1, <1>2 DEF MatchHigher, SameImpact

LEMMA MarkSystemStep ==
  ASSUME IInv, NEW r \in Request, MarkSystem(r)
  PROVE  IInv'
<1>1. req[r].pc = "markSystem" /\ req[r].new \in Copy /\ req[r].kind # "regular"
  BY LocalTyped DEF MarkSystem, At, JoinLabel, ReportLabel
<1>2. [req[r].new EXCEPT !.row.system = TRUE] \in Copy
  BY <1>1 DEF Copy, Row
<1>3. StoreTypeOK'
  BY <1>2, LocalTyped, ModifyTyped DEF MarkSystem
<1>4. QED
  BY <1>1, <1>3, AnswerStep DEF MarkSystem

LEMMA RegularCreationStep ==
  ASSUME IInv, NEW r \in Request, RegularCreation(r)
  PROVE  IInv'
<1> DEFINE loaded == {Load(i) : i \in {j \in EventId : Active(j)}}
<1>1. loaded \in SUBSET Copy
  BY LocalTyped, LoadTyped
<1>2. "regular" \in Kinds
  BY DEF RegularCreation
<1>3. PICK cs \in SUBSET Component, t \in NewTypes, im \in Impact, d \in Dates :
         req' = [req EXCEPT ![r] = [Idle EXCEPT
                    !.pc = "create", !.kind = "regular", !.type = t, !.impact = im,
                    !.dates = d, !.todo = cs, !.cur = cs, !.opened = loaded]]
  BY ZenonT(30) DEF RegularCreation, NonEmptySubsets
<1>4. t \in EventType
  BY NewTypesAssumption
<1> HIDE DEF loaded
<1> DEFINE l == [Idle EXCEPT
                    !.pc = "create", !.kind = "regular", !.type = t, !.impact = im,
                    !.dates = d, !.todo = cs, !.cur = cs, !.opened = loaded]
<1>5. l \in Local
  BY <1>1, <1>2, <1>4, IdleTyped DEF Local, Label, Idle
<1>6. Loaded(l)
  BY DEF Loaded, Idle, JoinLabel, LeaveLabel, ReportLabel
<1>7. QED
  BY <1>3, <1>5, <1>6, LocalStep, StoreUnchanged DEF RegularCreation

LEMMA CreateStep ==
  ASSUME IInv, NEW r \in Request, Create(r)
  PROVE  IInv'
<1> DEFINE new == [type |-> req[r].type, system |-> req[r].kind = "system",
                   impact |-> req[r].impact, status |-> NoStatus, dates |-> req[r].dates]
<1>1. new \in Row
  BY LocalTyped, StatusTyped DEF Local, Row
<1>2. PICK i \in EventId :
         /\ SaveIncident(i, new, req[r].cur)
         /\ req' = [req EXCEPT ![r] =
                      IF req[r].kind = "v1" THEN Idle
                      ELSE [@ EXCEPT !.pc = "firstStatus",
                                     !.new = [id |-> i, row |-> new, comps |-> req[r].cur]]]
  BY DEF Create
<1> HIDE DEF new
<1>3. StoreTypeOK'
  BY <1>1, <1>2, LocalTyped, SaveTyped
<1>4. CASE req[r].kind = "v1"
  BY <1>2, <1>3, <1>4, IdleTyped, IdleLoaded, LocalStep
<1>5. CASE req[r].kind # "v1"
  <2> DEFINE copy == [id |-> i, row |-> new, comps |-> req[r].cur]
             l == [req[r] EXCEPT !.pc = "firstStatus", !.new = copy]
  <2>1. copy \in Copy
    BY <1>1, LocalTyped DEF Copy
  <2>2. req' = [req EXCEPT ![r] = l]
    BY <1>2, <1>5
  <2> HIDE DEF copy
  <2>3. l \in Local
    BY <2>1, LocalTyped DEF Local, Label
  <2>4. Loaded(l)
    BY <2>1, LocalTyped DEF Local, Loaded, JoinLabel, LeaveLabel, ReportLabel
  <2>5. QED
    BY <1>3, <2>2, <2>3, <2>4, LocalStep
<1>6. QED
  BY <1>4, <1>5

LEMMA FirstStatusStep ==
  ASSUME IInv, NEW r \in Request, FirstStatus(r)
  PROVE  IInv'
<1> DEFINE new == [req[r].new EXCEPT !.row.status = InitialStatus(req[r].type)]
<1>1. req[r].pc = "firstStatus" /\ req[r].new \in Copy /\ req[r].pc \in JoinLabel
  BY LocalTyped DEF FirstStatus, At, JoinLabel
<1>2. new \in Copy
  <2>1. InitialStatus(req[r].type) \in Status
    BY LocalTyped, StatusTyped DEF Local
  <2>2. QED
    BY <1>1, <2>1 DEF Copy, Row
<1>3. ModifyIncident(new)
  BY DEF FirstStatus
<1>4. \/ Answer(r)
      \/ req' = [req EXCEPT ![r].pc = "nextComponent", ![r].cur = {}, ![r].new = new]
  BY DEF FirstStatus
<1> HIDE DEF new
<1>5. StoreTypeOK'
  BY <1>2, <1>3, LocalTyped, ModifyTyped
<1>6. CASE Answer(r)
  BY <1>1, <1>5, <1>6, AnswerStep
<1>7. CASE req' = [req EXCEPT ![r].pc = "nextComponent", ![r].cur = {}, ![r].new = new]
  <2> DEFINE l == [req[r] EXCEPT !.pc = "nextComponent", !.cur = {}, !.new = new]
  <2>1. l \in Local
    BY <1>2, LocalTyped DEF Local, Label
  <2>2. Loaded(l)
    BY <1>2, LocalTyped DEF Local, Loaded, JoinLabel, LeaveLabel, ReportLabel
  <2>3. req' = [req EXCEPT ![r] = l]
    BY <1>7
  <2>4. QED
    BY <1>5, <2>1, <2>2, <2>3, LocalStep
<1>8. QED
  BY <1>4, <1>6, <1>7

LEMMA NextComponentStep ==
  ASSUME IInv, NEW r \in Request, NextComponent(r)
  PROVE  IInv'
<1>0. /\ req[r].pc = "nextComponent" /\ req[r].pc \in JoinLabel
      /\ req[r].new \in Copy /\ req[r].opened \subseteq Copy /\ req[r].todo \subseteq Component
  BY LocalTyped DEF NextComponent, At, JoinLabel, Local
<1>1. PICK c \in req[r].todo :
        \/ req' = [req EXCEPT ![r] = Answered(r, {c})]
        \/ \E o \in req[r].opened :
              req' = [req EXCEPT ![r].pc = "move", ![r].cur = {c}, ![r].old = o,
                                 ![r].closeOld = OneComponent(o)]
  BY DEF NextComponent
<1>2. CASE req' = [req EXCEPT ![r] = Answered(r, {c})]
  BY <1>0, <1>2, AnsweredTyped, LocalStep, StoreUnchanged DEF NextComponent
<1>3. ASSUME NEW o \in req[r].opened,
             req' = [req EXCEPT ![r].pc = "move", ![r].cur = {c}, ![r].old = o,
                                ![r].closeOld = OneComponent(o)]
      PROVE  IInv'
  <2> DEFINE one == OneComponent(o)
             l == [req[r] EXCEPT !.pc = "move", !.cur = {c}, !.old = o, !.closeOld = one]
  <2>0. /\ one \in BOOLEAN /\ o \in Copy /\ {c} \in SUBSET Component
        /\ req[r] \in Local
    BY <1>0, LocalTyped DEF OneComponent
  <2> HIDE DEF one
  <2>1. l \in Local
    BY <2>0 DEF Local, Label
  <2>2. Loaded(l)
    BY <1>0, <2>0, LocalTyped DEF Local, Loaded, JoinLabel, LeaveLabel, ReportLabel
  <2>3. req' = [req EXCEPT ![r] = l]
    BY <1>3 DEF one
  <2>4. QED
    BY <2>1, <2>2, <2>3, LocalStep, StoreUnchanged DEF NextComponent
<1>4. QED
  BY <1>1, <1>2, <1>3

LEMMA MoveStep ==
  ASSUME IInv, NEW r \in Request, Move(r)
  PROVE  IInv'
<1> DEFINE l == req[r]
           left == Left(l.cur, l.old, l.closeOld)
           next == [Answered(r, l.cur) EXCEPT !.opened = (@ \ {l.old}) \cup {left}]
<1>1. /\ l.pc = "move" /\ l.pc \in JoinLabel /\ l.old \in Copy /\ l.new \in Copy
      /\ l.cur \in SUBSET Component /\ l.closeOld \in BOOLEAN
  BY LocalTyped DEF Move, At, JoinLabel, LeaveLabel, Local
<1>2. left \in Copy
  BY <1>1, LeftTyped
<1>3. StoreTypeOK'
  BY <1>1, LocalTyped, MoveTyped DEF Move
<1>4. Answered(r, l.cur) \in Local /\ Loaded(Answered(r, l.cur))
  BY <1>1, AnsweredTyped
<1>5. next \in Local
  BY <1>2, <1>4 DEF Local
<1>6. Loaded(next)
  BY <1>4, <1>5 DEF Loaded, Local
<1>7. \/ req' = [req EXCEPT ![r] = next]
      \/ req' = [req EXCEPT ![r] = Answered(r, l.cur)]
  BY DEF Move
<1> HIDE DEF next
<1>8. QED
  BY <1>3, <1>4, <1>5, <1>6, <1>7, LocalStep

LEMMA RaiseStep ==
  ASSUME IInv, NEW r \in Request, Raise(r)
  PROVE  IInv'
<1>1. req[r].pc = "raise" /\ req[r].old \in Copy /\ req[r].kind # "regular"
  BY LocalTyped DEF Raise, At, LeaveLabel, ReportLabel
<1>2. [req[r].old EXCEPT !.row.impact = req[r].impact] \in Copy
  BY <1>1, LocalTyped DEF Copy, Row, Local
<1>3. StoreTypeOK'
  BY <1>2, LocalTyped, ModifyTyped DEF Raise
<1>4. QED
  BY <1>1, <1>3, AnswerStep DEF Raise

LEMMA ExtractStep ==
  ASSUME IInv, NEW r \in Request, Extract(r)
  PROVE  IInv'
<1> DEFINE new == [type |-> "incident", system |-> FALSE, impact |-> req[r].impact,
                   status |-> NoStatus, dates |-> "open"]
<1>1. new \in Row
  BY LocalTyped, StatusTyped DEF Local, Row, EventType, Dates
<1>2. req[r].pc = "extract" /\ req[r].old \in Copy /\ req[r].kind # "regular"
  BY LocalTyped DEF Extract, At, LeaveLabel, ReportLabel
<1>3. PICK i \in EventId :
         /\ SaveIncident(i, new, req[r].cur)
         /\ req' = [req EXCEPT ![r].pc = "extractMove",
                       ![r].new = [id |-> i, row |-> new, comps |-> req[r].cur]]
  BY DEF Extract
<1> HIDE DEF new
<1>4. StoreTypeOK'
  BY <1>1, <1>3, LocalTyped, SaveTyped
<1> DEFINE copy == [id |-> i, row |-> new, comps |-> req[r].cur]
           l == [req[r] EXCEPT !.pc = "extractMove", !.new = copy]
<1>5. copy \in Copy
  BY <1>1, LocalTyped DEF Copy
<1>6. req' = [req EXCEPT ![r] = l]
  BY <1>3
<1> HIDE DEF copy
<1>7. l \in Local
  BY <1>5, LocalTyped DEF Local, Label
<1>8. Loaded(l)
  BY <1>2, <1>5, LocalTyped DEF Local, Loaded, JoinLabel, LeaveLabel, ReportLabel
<1>9. QED
  BY <1>4, <1>6, <1>7, <1>8, LocalStep

LEMMA ExtractMoveStep ==
  ASSUME IInv, NEW r \in Request, ExtractMove(r)
  PROVE  IInv'
<1>1. /\ req[r].pc = "extractMove" /\ req[r].old \in Copy /\ req[r].new \in Copy
      /\ req[r].kind # "regular"
  BY LocalTyped DEF ExtractMove, At, JoinLabel, LeaveLabel, ReportLabel
<1>2. StoreTypeOK'
  BY <1>1, LocalTyped, MoveTyped DEF ExtractMove
<1>3. CASE Answer(r)
  BY <1>1, <1>2, <1>3, AnswerStep
<1>4. CASE req' = [req EXCEPT ![r].pc = "markSystem"]
  <2> DEFINE l == [req[r] EXCEPT !.pc = "markSystem"]
  <2>1. l \in Local
    BY LocalTyped DEF Local, Label
  <2>2. Loaded(l)
    BY <1>1, LocalTyped DEF Local, Loaded, JoinLabel, LeaveLabel, ReportLabel
  <2>3. req' = [req EXCEPT ![r] = l]
    BY <1>4
  <2>4. QED
    BY <1>2, <2>1, <2>2, <2>3, LocalStep
<1>5. QED
  BY <1>3, <1>4 DEF ExtractMove

LEMMA V1ReportStep ==
  ASSUME IInv, NEW r \in Request, V1Report(r)
  PROVE  IInv'
<1>1. "v1" \in Kinds
  BY DEF V1Report
<1>2. PICK c \in Component, im \in Impact :
        \/ \E i \in EventId :
              req' = [req EXCEPT ![r] = V1Local(c, im, "link", NoCopy, Joined(Load(i), {c}))]
        \/ req' = [req EXCEPT ![r] = V1Local(c, im, "create", NoCopy, NoCopy)]
        \/ \E o \in EventId, i \in EventId :
              req' = [req EXCEPT ![r] = V1Local(c, im, "move", Load(o), Load(i))]
        \/ \E o \in EventId, pc \in {"raise", "extract"} :
              req' = [req EXCEPT ![r] = V1Local(c, im, pc, Load(o), NoCopy)]
  BY DEF V1Report, Holding
<1>3. ASSUME NEW pc \in {"link", "create", "move", "raise", "extract"},
             NEW old \in Copy \cup {NoCopy}, NEW new \in Copy \cup {NoCopy},
             pc \in JoinLabel => new \in Copy,
             pc \in LeaveLabel => old \in Copy,
             req' = [req EXCEPT ![r] = V1Local(c, im, pc, old, new)]
      PROVE  IInv'
  <2>1. (pc = "move" /\ OneComponent(old)) \in BOOLEAN
    BY DEF OneComponent
  <2>2. V1Local(c, im, pc, old, new) \in Local
    BY <1>1, <2>1, IdleTyped DEF V1Local, Local, Label, Idle
  <2>3. Loaded(V1Local(c, im, pc, old, new))
    BY <1>3 DEF V1Local, Loaded, Idle, JoinLabel, LeaveLabel, ReportLabel
  <2>4. QED
    BY <1>3, <2>2, <2>3, LocalStep, StoreUnchanged DEF V1Report
<1>4. \A i \in EventId : Load(i) \in Copy /\ Joined(Load(i), {c}) \in Copy
  BY LocalTyped, LoadTyped DEF Joined, Copy
<1>5. QED
  BY <1>2, <1>3, <1>4 DEF JoinLabel, LeaveLabel

LEMMA ExtractRequestStep ==
  ASSUME IInv, NEW r \in Request, ExtractRequest(r)
  PROVE  IInv'
<1>1. "extract" \in Kinds
  BY DEF ExtractRequest
<1>2. PICK i \in events : \E cs \in SUBSET ComponentsOf(i) :
         req' = [req EXCEPT ![r] = [Idle EXCEPT
                    !.pc = "extract", !.kind = "extract", !.impact = row[i].impact,
                    !.todo = cs, !.cur = cs, !.old = Load(i)]]
  BY ZenonT(30) DEF ExtractRequest, NonEmptySubsets
<1>3. PICK cs \in SUBSET ComponentsOf(i) :
         req' = [req EXCEPT ![r] = [Idle EXCEPT
                    !.pc = "extract", !.kind = "extract", !.impact = row[i].impact,
                    !.todo = cs, !.cur = cs, !.old = Load(i)]]
  BY <1>2
<1>4. i \in EventId /\ row[i].impact \in Impact /\ cs \subseteq Component
  BY LocalTyped DEF StoreTypeOK, Row, ComponentsOf
<1>5. Load(i) \in Copy
  BY <1>4, LocalTyped, LoadTyped
<1> DEFINE l == [Idle EXCEPT !.pc = "extract", !.kind = "extract", !.impact = row[i].impact,
                             !.todo = cs, !.cur = cs, !.old = Load(i)]
<1>6. l \in Local
  BY <1>1, <1>4, <1>5, IdleTyped DEF Local, Label, Idle
<1>7. Loaded(l)
  BY <1>5 DEF Loaded, Idle, JoinLabel, LeaveLabel, ReportLabel
<1>8. QED
  BY <1>3, <1>6, <1>7, LocalStep, StoreUnchanged DEF ExtractRequest

LEMMA PatchedTyped ==
  ASSUME NEW e \in Row, NEW t \in EventType, NEW im \in Impact, NEW s \in Status,
         NEW d \in Dates
  PROVE  Patched(e, t, im, s, d) \in Row
<1>1. CASE s = "reopened"
  BY <1>1 DEF Patched, Row, Dates
<1>2. CASE s = "resolved"
  BY <1>2 DEF Patched, Row, Dates
<1>3. CASE s \notin {"reopened", "resolved"}
  BY <1>3 DEF Patched, Row, Dates
<1>4. QED
  BY <1>1, <1>2, <1>3

LEMMA PatchRequestStep ==
  ASSUME IInv, NEW r \in Request, PatchRequest(r)
  PROVE  IInv'
<1>1. "patch" \in Kinds
  BY DEF PatchRequest
<1>2. PICK i \in events, im \in Impact, s \in PatchStatus, d \in Dates :
        \E t \in NewTypes \cup {row[i].type} :
          /\ PatchAccepted(row[i], t, im, s, d)
          /\ req' = [req EXCEPT ![r] = [Idle EXCEPT
                        !.pc = "patch", !.kind = "patch",
                        !.new = [Load(i) EXCEPT !.row = Patched(row[i], t, im, s, d)]]]
  BY ZenonT(30) DEF PatchRequest
<1>3. PICK t \in NewTypes \cup {row[i].type} :
        req' = [req EXCEPT ![r] = [Idle EXCEPT
                   !.pc = "patch", !.kind = "patch",
                   !.new = [Load(i) EXCEPT !.row = Patched(row[i], t, im, s, d)]]]
  BY <1>2
<1>4. i \in EventId /\ row[i] \in Row /\ s \in Status
  BY LocalTyped, PatchStatusAssumption DEF StoreTypeOK
<1>5. t \in EventType
  BY <1>4, NewTypesAssumption DEF Row
<1> DEFINE new == [Load(i) EXCEPT !.row = Patched(row[i], t, im, s, d)]
           l == [Idle EXCEPT !.pc = "patch", !.kind = "patch", !.new = new]
<1>6. new \in Copy
  <2>1. Patched(row[i], t, im, s, d) \in Row
    BY <1>4, <1>5, PatchedTyped
  <2>2. QED
    BY <1>4, <2>1, LocalTyped, LoadTyped DEF Copy
<1>7. req' = [req EXCEPT ![r] = l]
  BY <1>3
<1> HIDE DEF new
<1>8. l \in Local
  BY <1>1, <1>6, IdleTyped DEF Local, Label, Idle
<1>9. Loaded(l)
  BY <1>6 DEF Loaded, Idle, JoinLabel, LeaveLabel, ReportLabel
<1>10. QED
  BY <1>7, <1>8, <1>9, LocalStep, StoreUnchanged DEF PatchRequest

LEMMA PatchStep ==
  ASSUME IInv, NEW r \in Request, Patch(r)
  PROVE  IInv'
<1>1. req[r].pc = "patch" /\ req[r].new \in Copy
  BY LocalTyped DEF Patch, At, JoinLabel
<1>2. StoreTypeOK'
  BY <1>1, LocalTyped, ModifyTyped DEF Patch
<1> DEFINE l == [req[r] EXCEPT !.pc = "reopen"]
<1>3. l \in Local
  BY LocalTyped DEF Local, Label
<1>4. Loaded(l)
  BY <1>1, LocalTyped DEF Local, Loaded, JoinLabel, LeaveLabel, ReportLabel
<1>5. req' = [req EXCEPT ![r] = l] \/ req' = [req EXCEPT ![r] = Idle]
  BY DEF Patch
<1>6. QED
  BY <1>2, <1>3, <1>4, <1>5, IdleTyped, IdleLoaded, LocalStep

LEMMA ReopenStep ==
  ASSUME IInv, NEW r \in Request, Reopen(r)
  PROVE  IInv'
<1>1. req[r].new \in Copy
  BY LocalTyped DEF Reopen, At, JoinLabel
<1>2. StoreTypeOK'
  BY <1>1, LocalTyped DEF Reopen, ReOpenIncident, StoreTypeOK, Copy, Row, Dates
<1>3. QED
  BY <1>2, IdleTyped, IdleLoaded, LocalStep DEF Reopen

LEMMA FailStep ==
  ASSUME IInv, NEW r \in Request, Fail(r)
  PROVE  IInv'
  BY IdleTyped, IdleLoaded, LocalStep, StoreUnchanged DEF Fail

LEMMA ClockStep ==
  ASSUME IInv, NEW w \in Window, ClockMoves(w), UNCHANGED req
  PROVE  IInv'
<1>1. StoreTypeOK'
  BY DEF IInv, TypeOK, StoreTypeOK, ClockMoves, Phase
<1>2. QED
  BY <1>1 DEF IInv, TypeOK, Loaded

-----------------------------------------------------------------------------
(* The theorems *)

LEMMA InitIInv == Init => IInv
<1> SUFFICES ASSUME Init PROVE IInv
  OBVIOUS
<1>1. StoreTypeOK
  BY MaxImpactAssumption, StatusTyped
     DEF Init, StoreInit, StoreTypeOK, Row, EventType, Impact, Dates, Phase
<1>2. req \in [Request -> Local] /\ \A r \in Request : Loaded(req[r])
  BY IdleTyped, IdleLoaded DEF Init
<1>3. QED
  BY <1>1, <1>2 DEF IInv, TypeOK

LEMMA NextIInv == IInv /\ [Next]_vars => IInv'
<1> SUFFICES ASSUME IInv, [Next]_vars PROVE IInv'
  OBVIOUS
<1>1. ASSUME NEW r \in Request, Arrive(r)
      PROVE  IInv'
  BY <1>1, SystemReportStep, RegularCreationStep, V1ReportStep, ExtractRequestStep,
     PatchRequestStep DEF Arrive
<1>2. ASSUME NEW r \in Request, Handle(r)
      PROVE  IInv'
  BY <1>2, FindEventsStep, MatchTargetStep, LinkStep, MatchHigherStep, MarkSystemStep,
     CreateStep, FirstStatusStep, NextComponentStep, MoveStep, RaiseStep, ExtractStep,
     ExtractMoveStep, PatchStep, ReopenStep DEF Handle
<1>3. ASSUME NEW r \in Request, Fail(r)
      PROVE  IInv'
  BY <1>3, FailStep
<1>4. ASSUME NEW w \in Window, ClockMoves(w), UNCHANGED req
      PROVE  IInv'
  BY <1>4, ClockStep
<1>5. CASE UNCHANGED vars
  BY <1>5 DEF vars, IInv, TypeOK, StoreTypeOK, Loaded
<1>6. QED
  BY <1>1, <1>2, <1>3, <1>4, <1>5 DEF Next

\* Every struct a handler hands to the database is one it has loaded or built:
\* no path of the five handlers reaches db.go with a nil event, and the tables
\* keep their types, whatever the interleaving and wherever requests fail.
THEOREM Typing == Spec => []TypeOK
<1>1. IInv => TypeOK
  BY DEF IInv
<1>2. QED
  BY InitIInv, NextIInv, <1>1, PTL DEF Spec

\* A relation is deleted in two places only, and both add one for the same
\* component in the same transaction.
LEMMA StepLosesNoComponent ==
  ASSUME IInv, [Next]_vars, NEW c \in Component, NEW i \in EventId, <<i, c>> \in link
  PROVE  \E j \in EventId : <<j, c>> \in link'
<1>1. CASE link \subseteq link'
  BY <1>1
<1>2. ASSUME NEW cs \in SUBSET Component, NEW old \in Copy, NEW new \in Copy,
             NEW closeOld \in BOOLEAN, MoveComponents(cs, old, new, closeOld)
      PROVE  \E j \in EventId : <<j, c>> \in link'
  <2>1. new.id \in EventId /\ old.id \in EventId
    BY DEF Copy
  <2>2. CASE c \in cs
    <3>1. <<new.id, c>> \in link'
      BY <1>2, <2>2 DEF MoveComponents
    <3>2. QED
      BY <2>1, <3>1
  <2>3. CASE c \notin cs
    <3>1. <<i, c>> \in link'
      BY <1>2, <2>3 DEF MoveComponents
    <3>2. QED
      BY <3>1
  <2>4. QED
    BY <2>2, <2>3
<1>3. ASSUME NEW r \in Request, Handle(r)
      PROVE  \E j \in EventId : <<j, c>> \in link'
  <2>1. CASE Move(r)
    BY <1>2, <2>1, LocalTyped DEF Move, At, JoinLabel, LeaveLabel, Local
  <2>2. CASE ExtractMove(r)
    BY <1>2, <2>2, LocalTyped DEF ExtractMove, At, JoinLabel, LeaveLabel
  <2>3. CASE Link(r) \/ MarkSystem(r) \/ FirstStatus(r) \/ Raise(r) \/ Patch(r)
    <3>1. link \subseteq link'
      BY <2>3 DEF Link, MarkSystem, FirstStatus, Raise, Patch, ModifyIncident
    <3>2. QED
      BY <1>1, <3>1
  <2>4. CASE Create(r) \/ Extract(r)
    <3>1. link \subseteq link'
      BY <2>4 DEF Create, Extract, SaveIncident
    <3>2. QED
      BY <1>1, <3>1
  <2>5. CASE FindEvents(r) \/ MatchTarget(r) \/ MatchHigher(r) \/ NextComponent(r) \/ Reopen(r)
    <3>1. link' = link
      BY <2>5 DEF FindEvents, MatchTarget, MatchHigher, NextComponent, Reopen,
                  ReOpenIncident, store
    <3>2. QED
      BY <1>1, <3>1
  <2>6. QED
    BY <1>3, <2>1, <2>2, <2>3, <2>4, <2>5 DEF Handle
<1>4. CASE \/ \E r \in Request : Arrive(r) \/ Fail(r)
           \/ \E w \in Window : ClockMoves(w)
           \/ UNCHANGED vars
  <2>1. link' = link
    BY <1>4 DEF Arrive, SystemReport, RegularCreation, V1Report, ExtractRequest,
                PatchRequest, Fail, ClockMoves, store, vars
  <2>2. QED
    BY <1>1, <2>1
<1>5. QED
  BY <1>3, <1>4 DEF Next

\* No interleaving of the handlers, and no failure between two of their
\* database calls, takes a component that is in some event out of all events.
THEOREM NoComponentIsLost == Spec => NoComponentLost
<1>1. IInv /\ [Next]_vars =>
        [\A c \in Component :
            (\E i \in EventId : <<i, c>> \in link) => (\E i \in EventId : <<i, c>> \in link')]_vars
  BY StepLosesNoComponent
<1>2. QED
  BY InitIInv, NextIInv, <1>1, PTL DEF Spec, NoComponentLost

-----------------------------------------------------------------------------
(* Type and impact of an event *)

\* Only an extraction, from a maintenance, makes an incident of impact 0.
Agrees(e) ==
    /\ e.impact # 0 => e.type = "incident"
    /\ "extract" \notin Kinds /\ e.type = "incident" => e.impact # 0

RowsAgree == \A i \in EventId : Agrees(row[i])

\* The requests that create or place events.
Placing == {"system", "v1", "regular", "extract"}

\* What a request may write agrees as well: the structs it holds, the event it
\* creates, and the struct whose impact it raises.
Sound(l) ==
    /\ l.pc \in {"idle", "patch", "reopen"} \/ l.kind \in Placing
    /\ l.kind \in Placing /\ l.impact # 0 => l.type = "incident"
    /\ l.kind \in Placing /\ l.type = "incident" /\ "extract" \notin Kinds => l.impact # 0
    /\ l.kind \in {"system", "v1"} => l.impact # 0
    /\ l.old \in Copy => Agrees(l.old.row)
    /\ l.new \in Copy => Agrees(l.new.row)
    /\ \A o \in l.opened : Agrees(o.row)
    /\ l.pc \in {"matchHigher", "raise"} => l.old.row.type = "incident"

AInv == RowsAgree /\ \A r \in Request : Sound(req[r])

-----------------------------------------------------------------------------
(* Agreement of the pieces of the actions *)

LEMMA IdleSound == Sound(Idle)
  BY NoCopyAssumption DEF Sound, Idle, Placing

LEMMA LoadAgrees ==
  ASSUME RowsAgree, NEW i \in EventId
  PROVE  Agrees(Load(i).row)
  BY DEF RowsAgree, Load

LEMMA ModifyAgrees ==
  ASSUME StoreTypeOK, RowsAgree, NEW copy \in Copy, Agrees(copy.row), ModifyIncident(copy)
  PROVE  RowsAgree'
<1>1. Agrees(NonZeroFields(row[copy.id], copy.row))
  BY DEF Agrees, NonZeroFields, Copy, Row
<1>2. \A i \in EventId :
        row'[i] = IF i = copy.id THEN NonZeroFields(row[copy.id], copy.row) ELSE row[i]
  BY DEF ModifyIncident, StoreTypeOK, Copy
<1>3. QED
  BY <1>1, <1>2 DEF RowsAgree, Agrees

LEMMA SaveAgrees ==
  ASSUME StoreTypeOK, RowsAgree, NEW i \in EventId, NEW e \in Row, Agrees(e),
         NEW cs \in SUBSET Component, SaveIncident(i, e, cs)
  PROVE  RowsAgree'
  BY DEF SaveIncident, StoreTypeOK, RowsAgree, Agrees

LEMMA LeftAgrees ==
  ASSUME NEW cs \in SUBSET Component, NEW old \in Copy, Agrees(old.row),
         NEW closeOld \in BOOLEAN
  PROVE  Agrees(Left(cs, old, closeOld).row)
  BY DEF Left, Agrees, Copy, Row

LEMMA MoveAgrees ==
  ASSUME StoreTypeOK, RowsAgree, NEW cs \in SUBSET Component, NEW old \in Copy,
         NEW new \in Copy, NEW closeOld \in BOOLEAN, Agrees(old.row), Agrees(new.row),
         MoveComponents(cs, old, new, closeOld)
  PROVE  RowsAgree'
<1> DEFINE left == Left(cs, old, closeOld)
<1>1. Agrees(left.row)
  BY LeftAgrees
<1>2. row' = [row EXCEPT ![new.id] = new.row, ![old.id] = left.row]
  BY DEF MoveComponents
<1> HIDE DEF left
<1>3. \A i \in EventId : row'[i] \in {new.row, left.row, row[i]}
  BY <1>2 DEF StoreTypeOK, Copy
<1>4. QED
  BY <1>1, <1>3 DEF RowsAgree, Agrees

LEMMA StoreKeepsAgreement ==
  ASSUME RowsAgree, UNCHANGED store
  PROVE  RowsAgree'
  BY DEF RowsAgree, Agrees, store

\* The facts about request r that most steps need, with those of LocalTyped.
LEMMA LocalSound ==
  ASSUME IInv, AInv, NEW r \in Request
  PROVE  /\ RowsAgree /\ Sound(req[r])
         /\ req[r].pc \notin {"idle", "patch", "reopen"} => req[r].kind \in Placing
         /\ req[r].pc \in ReportLabel =>
               req[r].kind # "regular" /\ ("extract" \notin Kinds => req[r].impact # 0)
         /\ req[r].pc \in JoinLabel => Agrees(req[r].new.row)
         /\ req[r].pc \in LeaveLabel => Agrees(req[r].old.row)
<1>1. RowsAgree /\ Sound(req[r])
  BY DEF AInv
<1>2. req[r].pc \in ReportLabel =>
        req[r].kind # "regular" /\ ("extract" \notin Kinds => req[r].impact # 0)
  BY <1>1, LocalTyped DEF Sound, Placing, ReportLabel, Local
<1>3. QED
  BY <1>1, <1>2, LocalTyped DEF Sound

\* The invariant is kept by a step of r to a sound local state.
LEMMA SoundStep ==
  ASSUME IInv, AInv, RowsAgree', NEW r \in Request, NEW l, Sound(l),
         req' = [req EXCEPT ![r] = l]
  PROVE  AInv'
<1>1. \A q \in Request : Sound(req'[q])
  <2> TAKE q \in Request
  <2>1. req'[q] = IF q = r THEN l ELSE req[q]
    BY DEF IInv, TypeOK
  <2>2. QED
    BY <2>1 DEF AInv
<1>2. QED
  BY <1>1 DEF AInv, Sound, Agrees

LEMMA AnsweredSound ==
  ASSUME IInv, AInv, NEW r \in Request, NEW cs, req[r].kind \in Placing
  PROVE  Sound(Answered(r, cs))
<1>1. CASE req[r].todo \ cs = {}
  BY <1>1, IdleSound DEF Answered
<1>2. CASE req[r].todo \ cs # {}
  <2> DEFINE l == Answered(r, cs)
  <2>1. /\ l.pc \in {"nextComponent", "findEvents"} /\ l.kind = req[r].kind
        /\ l.type = req[r].type /\ l.impact = req[r].impact /\ l.opened = req[r].opened
        /\ l.old = NoCopy /\ l.new \in {req[r].new, NoCopy}
    BY <1>2, LocalTyped DEF Answered, Local
  <2> HIDE DEF l
  <2>2. Sound(l)
    BY <2>1, LocalSound, NoCopyAssumption DEF Sound
  <2>3. QED
    BY <2>2 DEF l
<1>3. QED
  BY <1>1, <1>2

LEMMA AnswerSound ==
  ASSUME IInv, AInv, RowsAgree', NEW r \in Request, Answer(r), req[r].kind \in Placing
  PROVE  AInv'
  BY AnsweredSound, SoundStep DEF Answer

\* A step that only changes the label.
LEMMA LabelSound ==
  ASSUME IInv, AInv, RowsAgree', NEW r \in Request, NEW pc, req[r].kind \in Placing,
         pc \in {"matchHigher", "raise"} => req[r].old.row.type = "incident",
         req' = [req EXCEPT ![r].pc = pc]
  PROVE  AInv'
<1> DEFINE l == [req[r] EXCEPT !.pc = pc]
<1>1. Sound(l)
  BY LocalTyped, LocalSound DEF Sound, Local
<1>2. QED
  BY <1>1, SoundStep

-----------------------------------------------------------------------------
(* Agreement of type and impact after each action *)

LEMMA SystemReportSound ==
  ASSUME IInv, AInv, NEW r \in Request, SystemReport(r)
  PROVE  AInv'
<1>1. PICK cs \in SUBSET Component, im \in Impact \ {0} :
         req' = [req EXCEPT ![r] = [Idle EXCEPT !.pc = "findEvents", !.kind = "system",
                                        !.impact = im, !.todo = cs]]
  BY DEF SystemReport, NonEmptySubsets
<1>2. Sound([Idle EXCEPT !.pc = "findEvents", !.kind = "system", !.impact = im, !.todo = cs])
  BY NoCopyAssumption DEF Sound, Idle, Placing
<1>3. QED
  BY <1>1, <1>2, LocalSound, StoreKeepsAgreement, SoundStep DEF SystemReport

LEMMA FindEventsSound ==
  ASSUME IInv, AInv, NEW r \in Request, FindEvents(r)
  PROVE  AInv'
<1>0. req[r].pc = "findEvents" /\ req[r].kind \in Placing
  BY LocalSound DEF FindEvents, At
<1>1. RowsAgree'
  BY LocalSound, StoreKeepsAgreement DEF FindEvents
<1>2. PICK c \in req[r].todo :
        \/ req' = [req EXCEPT ![r].pc = "matchTarget", ![r].cur = {c}]
        \/ req' = [req EXCEPT ![r] = Answered(r, {c})]
        \/ \E i \in EventId :
             /\ row[i].type = "incident"
             /\ req' = [req EXCEPT ![r].pc = "matchHigher", ![r].cur = {c}, ![r].old = Load(i)]
  BY DEF FindEvents, Holding
<1>3. CASE req' = [req EXCEPT ![r].pc = "matchTarget", ![r].cur = {c}]
  <2> DEFINE l == [req[r] EXCEPT !.pc = "matchTarget", !.cur = {c}]
  <2>1. Sound(l)
    BY <1>0, LocalTyped, LocalSound DEF Sound, Local
  <2>2. QED
    BY <1>1, <1>3, <2>1, SoundStep
<1>4. CASE req' = [req EXCEPT ![r] = Answered(r, {c})]
  BY <1>0, <1>1, <1>4, AnsweredSound, SoundStep
<1>5. ASSUME NEW i \in EventId, row[i].type = "incident",
             req' = [req EXCEPT ![r].pc = "matchHigher", ![r].cur = {c}, ![r].old = Load(i)]
      PROVE  AInv'
  <2> DEFINE l == [req[r] EXCEPT !.pc = "matchHigher", !.cur = {c}, !.old = Load(i)]
  <2>1. Agrees(Load(i).row) /\ Load(i).row.type = "incident"
    BY <1>5, LocalSound, LoadAgrees DEF Load
  <2>2. Sound(l)
    BY <1>0, <2>1, LocalTyped, LocalSound DEF Sound, Local
  <2>3. QED
    BY <1>1, <1>5, <2>2, SoundStep
<1>6. QED
  BY <1>2, <1>3, <1>4, <1>5

LEMMA MatchTargetSound ==
  ASSUME IInv, AInv, NEW r \in Request, MatchTarget(r)
  PROVE  AInv'
<1>0. req[r].pc = "matchTarget" /\ req[r].kind \in Placing /\ RowsAgree'
  BY LocalSound, StoreKeepsAgreement DEF MatchTarget, At
<1>1. CASE req' = [req EXCEPT ![r].pc = "create"]
  BY <1>0, <1>1, LabelSound
<1>2. ASSUME NEW i \in EventId,
             req' = [req EXCEPT ![r].pc = "link", ![r].new = Joined(Load(i), req[r].cur)]
      PROVE  AInv'
  <2> DEFINE new == Joined(Load(i), req[r].cur)
             l == [req[r] EXCEPT !.pc = "link", !.new = new]
  <2>1. Agrees(new.row)
    BY LocalSound, LoadAgrees DEF Joined, Load
  <2> HIDE DEF new
  <2>2. Sound(l)
    BY <1>0, <2>1, LocalTyped, LocalSound DEF Sound, Local
  <2>3. req' = [req EXCEPT ![r] = l]
    BY <1>2 DEF new
  <2>4. QED
    BY <1>0, <2>2, <2>3, SoundStep
<1>3. QED
  BY <1>1, <1>2 DEF MatchTarget, SameImpact

LEMMA LinkSound ==
  ASSUME IInv, AInv, NEW r \in Request, Link(r)
  PROVE  AInv'
<1>1. req[r].new \in Copy /\ Agrees(req[r].new.row) /\ req[r].kind \in Placing
  BY LocalTyped, LocalSound DEF Link, At, JoinLabel
<1>2. RowsAgree'
  BY <1>1, LocalTyped, LocalSound, ModifyAgrees DEF Link
<1>3. QED
  BY <1>1, <1>2, AnswerSound DEF Link

LEMMA MatchHigherSound ==
  ASSUME IInv, AInv, NEW r \in Request, MatchHigher(r)
  PROVE  AInv'
<1>0. /\ req[r].pc = "matchHigher" /\ req[r].kind \in Placing /\ RowsAgree'
      /\ req[r].old.row.type = "incident"
  BY LocalSound, StoreKeepsAgreement DEF MatchHigher, At, Sound
<1>1. ASSUME NEW pc \in {"raise", "extract"}, req' = [req EXCEPT ![r].pc = pc]
      PROVE  AInv'
  BY <1>0, <1>1, LabelSound
<1>2. ASSUME NEW i \in EventId,
             req' = [req EXCEPT ![r].pc = "move", ![r].new = Load(i),
                                ![r].closeOld = OneComponent(Load(i))]
      PROVE  AInv'
  <2> DEFINE l == [req[r] EXCEPT !.pc = "move", !.new = Load(i),
                                 !.closeOld = OneComponent(Load(i))]
  <2>1. Agrees(Load(i).row)
    BY LocalSound, LoadAgrees
  <2>2. Sound(l)
    BY <1>0, <2>1, LocalTyped, LocalSound DEF Sound, Local
  <2>3. QED
    BY <1>0, <1>2, <2>2, SoundStep
<1>3. QED
  BY <1>1, <1>2 DEF MatchHigher, SameImpact

LEMMA MarkSystemSound ==
  ASSUME IInv, AInv, NEW r \in Request, MarkSystem(r)
  PROVE  AInv'
<1>1. req[r].new \in Copy /\ Agrees(req[r].new.row) /\ req[r].kind \in Placing
  BY LocalTyped, LocalSound DEF MarkSystem, At, JoinLabel
<1> DEFINE new == [req[r].new EXCEPT !.row.system = TRUE]
<1>2. new \in Copy /\ Agrees(new.row)
  BY <1>1 DEF Copy, Row, Agrees
<1>3. ModifyIncident(new)
  BY DEF MarkSystem
<1> HIDE DEF new
<1>4. RowsAgree'
  BY <1>2, <1>3, LocalTyped, LocalSound, ModifyAgrees
<1>5. QED
  BY <1>1, <1>4, AnswerSound DEF MarkSystem

LEMMA RegularCreationSound ==
  ASSUME IInv, AInv, NEW r \in Request, RegularCreation(r)
  PROVE  AInv'
<1> DEFINE loaded == {Load(i) : i \in {j \in EventId : Active(j)}}
<1>1. \A o \in loaded : Agrees(o.row)
  BY LocalSound, LoadAgrees
<1>2. PICK cs \in SUBSET Component, t \in NewTypes, im \in Impact, d \in Dates :
         /\ (t = "incident") <=> (im # 0)
         /\ req' = [req EXCEPT ![r] = [Idle EXCEPT
                      !.pc = "create", !.kind = "regular", !.type = t, !.impact = im,
                      !.dates = d, !.todo = cs, !.cur = cs, !.opened = loaded]]
  BY ZenonT(30) DEF RegularCreation, NonEmptySubsets
<1> HIDE DEF loaded
<1> DEFINE l == [Idle EXCEPT
                    !.pc = "create", !.kind = "regular", !.type = t, !.impact = im,
                    !.dates = d, !.todo = cs, !.cur = cs, !.opened = loaded]
<1>3. Sound(l)
  BY <1>1, <1>2, NoCopyAssumption DEF Sound, Idle, Placing
<1>4. RowsAgree'
  BY LocalSound, StoreKeepsAgreement DEF RegularCreation
<1>5. QED
  BY <1>2, <1>3, <1>4, SoundStep

LEMMA CreateSound ==
  ASSUME IInv, AInv, NEW r \in Request, Create(r)
  PROVE  AInv'
<1> DEFINE new == [type |-> req[r].type, system |-> req[r].kind = "system",
                   impact |-> req[r].impact, status |-> NoStatus, dates |-> req[r].dates]
<1>0. req[r].kind \in Placing
  BY LocalSound DEF Create, At
<1>1. new \in Row /\ Agrees(new)
  <2>1. new \in Row
    BY LocalTyped, StatusTyped DEF Local, Row
  <2>2. Agrees(new)
    BY <1>0, LocalSound DEF Sound, Agrees
  <2>3. QED
    BY <2>1, <2>2
<1>2. PICK i \in EventId :
         /\ SaveIncident(i, new, req[r].cur)
         /\ req' = [req EXCEPT ![r] =
                      IF req[r].kind = "v1" THEN Idle
                      ELSE [@ EXCEPT !.pc = "firstStatus",
                                     !.new = [id |-> i, row |-> new, comps |-> req[r].cur]]]
  BY DEF Create
<1> HIDE DEF new
<1>3. RowsAgree'
  BY <1>1, <1>2, LocalTyped, LocalSound, SaveAgrees
<1>4. CASE req[r].kind = "v1"
  BY <1>2, <1>3, <1>4, IdleSound, SoundStep
<1>5. CASE req[r].kind # "v1"
  <2> DEFINE copy == [id |-> i, row |-> new, comps |-> req[r].cur]
             l == [req[r] EXCEPT !.pc = "firstStatus", !.new = copy]
  <2>1. Agrees(copy.row)
    BY <1>1
  <2>2. req' = [req EXCEPT ![r] = l]
    BY <1>2, <1>5
  <2> HIDE DEF copy
  <2>3. Sound(l)
    BY <1>0, <2>1, LocalTyped, LocalSound DEF Sound, Local
  <2>4. QED
    BY <1>3, <2>2, <2>3, SoundStep
<1>6. QED
  BY <1>4, <1>5

LEMMA FirstStatusSound ==
  ASSUME IInv, AInv, NEW r \in Request, FirstStatus(r)
  PROVE  AInv'
<1> DEFINE new == [req[r].new EXCEPT !.row.status = InitialStatus(req[r].type)]
<1>1. /\ req[r].pc = "firstStatus" /\ req[r].new \in Copy /\ Agrees(req[r].new.row)
      /\ req[r].kind \in Placing
  BY LocalTyped, LocalSound DEF FirstStatus, At, JoinLabel
<1>2. new \in Copy /\ Agrees(new.row)
  <2>1. InitialStatus(req[r].type) \in Status
    BY LocalTyped, StatusTyped DEF Local
  <2>2. QED
    BY <1>1, <2>1 DEF Copy, Row, Agrees
<1>3. /\ ModifyIncident(new)
      /\ \/ req' = [req EXCEPT ![r].pc = "nextComponent", ![r].cur = {}, ![r].new = new]
         \/ Answer(r)
  BY DEF FirstStatus
<1> HIDE DEF new
<1>4. RowsAgree'
  BY <1>2, <1>3, LocalTyped, LocalSound, ModifyAgrees
<1>5. CASE Answer(r)
  BY <1>1, <1>4, <1>5, AnswerSound
<1>6. CASE req' = [req EXCEPT ![r].pc = "nextComponent", ![r].cur = {}, ![r].new = new]
  <2> DEFINE l == [req[r] EXCEPT !.pc = "nextComponent", !.cur = {}, !.new = new]
  <2>1. Sound(l)
    BY <1>1, <1>2, LocalTyped, LocalSound DEF Sound, Local
  <2>2. QED
    BY <1>4, <1>6, <2>1, SoundStep
<1>7. QED
  BY <1>3, <1>5, <1>6

LEMMA NextComponentSound ==
  ASSUME IInv, AInv, NEW r \in Request, NextComponent(r)
  PROVE  AInv'
<1>0. req[r].pc = "nextComponent" /\ req[r].kind \in Placing /\ RowsAgree'
  BY LocalSound, StoreKeepsAgreement DEF NextComponent, At
<1>1. PICK c \in req[r].todo :
        \/ req' = [req EXCEPT ![r] = Answered(r, {c})]
        \/ \E o \in req[r].opened :
              req' = [req EXCEPT ![r].pc = "move", ![r].cur = {c}, ![r].old = o,
                                 ![r].closeOld = OneComponent(o)]
  BY DEF NextComponent
<1>2. CASE req' = [req EXCEPT ![r] = Answered(r, {c})]
  BY <1>0, <1>2, AnsweredSound, SoundStep
<1>3. ASSUME NEW o \in req[r].opened,
             req' = [req EXCEPT ![r].pc = "move", ![r].cur = {c}, ![r].old = o,
                                ![r].closeOld = OneComponent(o)]
      PROVE  AInv'
  <2> DEFINE l == [req[r] EXCEPT !.pc = "move", !.cur = {c}, !.old = o,
                                 !.closeOld = OneComponent(o)]
  <2>1. Sound(l)
    BY <1>0, LocalTyped, LocalSound DEF Sound, Local
  <2>2. QED
    BY <1>0, <1>3, <2>1, SoundStep
<1>4. QED
  BY <1>1, <1>2, <1>3

LEMMA MoveSound ==
  ASSUME IInv, AInv, NEW r \in Request, Move(r)
  PROVE  AInv'
<1> DEFINE l == req[r]
           left == Left(l.cur, l.old, l.closeOld)
           next == [Answered(r, l.cur) EXCEPT !.opened = (@ \ {l.old}) \cup {left}]
<1>1. /\ l.pc = "move" /\ l.old \in Copy /\ l.new \in Copy /\ l.kind \in Placing
      /\ Agrees(l.old.row) /\ Agrees(l.new.row)
      /\ l.cur \in SUBSET Component /\ l.closeOld \in BOOLEAN
  BY LocalTyped, LocalSound DEF Move, At, JoinLabel, LeaveLabel, Local
<1>2. Agrees(left.row)
  BY <1>1, LeftAgrees
<1>3. RowsAgree'
  BY <1>1, LocalTyped, LocalSound, MoveAgrees DEF Move
<1>4. Answered(r, l.cur) \in Local /\ Sound(Answered(r, l.cur))
  BY <1>1, AnsweredTyped, AnsweredSound, LocalTyped DEF JoinLabel
<1>5. Sound(next)
  BY <1>2, <1>4 DEF Sound, Local
<1>6. \/ req' = [req EXCEPT ![r] = next]
      \/ req' = [req EXCEPT ![r] = Answered(r, l.cur)]
  BY DEF Move
<1> HIDE DEF next
<1>7. QED
  BY <1>3, <1>4, <1>5, <1>6, SoundStep

LEMMA RaiseSound ==
  ASSUME IInv, AInv, NEW r \in Request, Raise(r)
  PROVE  AInv'
<1>1. /\ req[r].old \in Copy /\ req[r].old.row.type = "incident"
      /\ "extract" \notin Kinds => req[r].impact # 0
      /\ req[r].impact \in Impact /\ req[r].kind \in Placing
  BY LocalTyped, LocalSound DEF Raise, At, LeaveLabel, ReportLabel, Sound, Local
<1> DEFINE new == [req[r].old EXCEPT !.row.impact = req[r].impact]
<1>2. new \in Copy /\ Agrees(new.row)
  BY <1>1 DEF Copy, Row, Agrees
<1>3. ModifyIncident(new)
  BY DEF Raise
<1> HIDE DEF new
<1>4. RowsAgree'
  BY <1>2, <1>3, LocalTyped, LocalSound, ModifyAgrees
<1>5. QED
  BY <1>1, <1>4, AnswerSound DEF Raise

LEMMA ExtractSound ==
  ASSUME IInv, AInv, NEW r \in Request, Extract(r)
  PROVE  AInv'
<1> DEFINE new == [type |-> "incident", system |-> FALSE, impact |-> req[r].impact,
                   status |-> NoStatus, dates |-> "open"]
<1>1. ("extract" \notin Kinds => req[r].impact # 0) /\ req[r].kind \in Placing
  BY LocalSound DEF Extract, At, ReportLabel
<1>2. new \in Row /\ Agrees(new)
  BY <1>1, LocalTyped, StatusTyped DEF Local, Row, EventType, Dates, Agrees
<1>3. PICK i \in EventId :
         /\ SaveIncident(i, new, req[r].cur)
         /\ req' = [req EXCEPT ![r].pc = "extractMove",
                       ![r].new = [id |-> i, row |-> new, comps |-> req[r].cur]]
  BY DEF Extract
<1> HIDE DEF new
<1>4. RowsAgree'
  BY <1>2, <1>3, LocalTyped, LocalSound, SaveAgrees
<1> DEFINE copy == [id |-> i, row |-> new, comps |-> req[r].cur]
           l == [req[r] EXCEPT !.pc = "extractMove", !.new = copy]
<1>5. Agrees(copy.row)
  BY <1>2
<1>6. req' = [req EXCEPT ![r] = l]
  BY <1>3
<1> HIDE DEF copy
<1>7. Sound(l)
  BY <1>1, <1>5, LocalTyped, LocalSound DEF Sound, Local
<1>8. QED
  BY <1>4, <1>6, <1>7, SoundStep

LEMMA ExtractMoveSound ==
  ASSUME IInv, AInv, NEW r \in Request, ExtractMove(r)
  PROVE  AInv'
<1>1. /\ req[r].old \in Copy /\ req[r].new \in Copy /\ req[r].kind \in Placing
      /\ Agrees(req[r].old.row) /\ Agrees(req[r].new.row)
  BY LocalTyped, LocalSound DEF ExtractMove, At, JoinLabel, LeaveLabel
<1>2. RowsAgree'
  BY <1>1, LocalTyped, LocalSound, MoveAgrees DEF ExtractMove
<1>3. CASE Answer(r)
  BY <1>1, <1>2, <1>3, AnswerSound
<1>4. CASE req' = [req EXCEPT ![r].pc = "markSystem"]
  BY <1>1, <1>2, <1>4, LabelSound
<1>5. QED
  BY <1>3, <1>4 DEF ExtractMove

LEMMA V1ReportSound ==
  ASSUME IInv, AInv, NEW r \in Request, V1Report(r)
  PROVE  AInv'
<1>1. PICK c \in Component, im \in Impact \ {0} :
        \/ \E i \in EventId :
              req' = [req EXCEPT ![r] = V1Local(c, im, "link", NoCopy, Joined(Load(i), {c}))]
        \/ req' = [req EXCEPT ![r] = V1Local(c, im, "create", NoCopy, NoCopy)]
        \/ \E o \in EventId, i \in EventId :
              req' = [req EXCEPT ![r] = V1Local(c, im, "move", Load(o), Load(i))]
        \/ \E o \in EventId, pc \in {"raise", "extract"} :
              /\ row[o].impact # 0
              /\ req' = [req EXCEPT ![r] = V1Local(c, im, pc, Load(o), NoCopy)]
  BY DEF V1Report, Holding
<1>2. RowsAgree'
  BY LocalSound, StoreKeepsAgreement DEF V1Report
<1>3. ASSUME NEW pc \in {"link", "create", "move", "raise", "extract"}, NEW old, NEW new,
             old \in Copy => Agrees(old.row), new \in Copy => Agrees(new.row),
             pc = "raise" => old.row.type = "incident",
             req' = [req EXCEPT ![r] = V1Local(c, im, pc, old, new)]
      PROVE  AInv'
  <2>1. Sound(V1Local(c, im, pc, old, new))
    BY <1>3 DEF V1Local, Idle, Sound, Placing
  <2>2. QED
    BY <1>2, <1>3, <2>1, SoundStep
<1>4. \A i \in EventId :
        /\ Agrees(Load(i).row) /\ Agrees(Joined(Load(i), {c}).row)
        /\ row[i].impact # 0 => Load(i).row.type = "incident"
  BY LocalSound, LoadAgrees DEF Joined, Load, Agrees
<1>5. QED
  BY <1>1, <1>3, <1>4, NoCopyAssumption

LEMMA ExtractRequestSound ==
  ASSUME IInv, AInv, NEW r \in Request, ExtractRequest(r)
  PROVE  AInv'
<1>1. PICK i \in events : \E cs \in SUBSET ComponentsOf(i) :
         req' = [req EXCEPT ![r] = [Idle EXCEPT
                    !.pc = "extract", !.kind = "extract", !.impact = row[i].impact,
                    !.todo = cs, !.cur = cs, !.old = Load(i)]]
  BY ZenonT(30) DEF ExtractRequest, NonEmptySubsets
<1>2. PICK cs \in SUBSET ComponentsOf(i) :
         req' = [req EXCEPT ![r] = [Idle EXCEPT
                    !.pc = "extract", !.kind = "extract", !.impact = row[i].impact,
                    !.todo = cs, !.cur = cs, !.old = Load(i)]]
  BY <1>1
<1> DEFINE l == [Idle EXCEPT !.pc = "extract", !.kind = "extract", !.impact = row[i].impact,
                             !.todo = cs, !.cur = cs, !.old = Load(i)]
<1>3. "extract" \in Kinds /\ Agrees(Load(i).row) /\ RowsAgree'
  BY LocalTyped, LocalSound, LoadAgrees, StoreKeepsAgreement DEF ExtractRequest, StoreTypeOK
<1>4. Sound(l)
  BY <1>3, NoCopyAssumption DEF Sound, Idle, Placing, Agrees
<1>5. QED
  BY <1>2, <1>3, <1>4, SoundStep

\* checkPatchData accepts what agrees; PATCH may change the type as well.
LEMMA PatchRequestSound ==
  ASSUME IInv, AInv, NEW r \in Request, PatchRequest(r)
  PROVE  AInv'
<1>1. PICK i \in events, im \in Impact, s \in PatchStatus, d \in Dates :
        \E t \in NewTypes \cup {row[i].type} :
          /\ PatchAccepted(row[i], t, im, s, d)
          /\ req' = [req EXCEPT ![r] = [Idle EXCEPT
                        !.pc = "patch", !.kind = "patch",
                        !.new = [Load(i) EXCEPT !.row = Patched(row[i], t, im, s, d)]]]
  BY ZenonT(30) DEF PatchRequest
<1>2. PICK t \in NewTypes \cup {row[i].type} :
        /\ PatchAccepted(row[i], t, im, s, d)
        /\ req' = [req EXCEPT ![r] = [Idle EXCEPT
                      !.pc = "patch", !.kind = "patch",
                      !.new = [Load(i) EXCEPT !.row = Patched(row[i], t, im, s, d)]]]
  BY <1>1
<1> DEFINE e == Patched(row[i], t, im, s, d)
           new == [Load(i) EXCEPT !.row = e]
           l == [Idle EXCEPT !.pc = "patch", !.kind = "patch", !.new = new]
<1>3. Agrees(e)
  <2>1. row[i] \in Row
    BY LocalTyped DEF StoreTypeOK
  <2>2. e.type = t /\ e.impact = im
    BY <2>1 DEF Patched, Row
  <2>3. QED
    BY <1>2, <2>2 DEF PatchAccepted, Agrees
<1>4. req' = [req EXCEPT ![r] = l]
  BY <1>2
<1> HIDE DEF e
<1>5. Agrees(new.row)
  BY <1>3 DEF Load
<1> HIDE DEF new
<1>6. Sound(l)
  BY <1>5, NoCopyAssumption DEF Sound, Idle, Placing
<1>7. RowsAgree'
  BY LocalSound, StoreKeepsAgreement DEF PatchRequest
<1>8. QED
  BY <1>4, <1>6, <1>7, SoundStep

LEMMA PatchSound ==
  ASSUME IInv, AInv, NEW r \in Request, Patch(r)
  PROVE  AInv'
<1>1. req[r].new \in Copy /\ Agrees(req[r].new.row)
  BY LocalTyped, LocalSound DEF Patch, At, JoinLabel
<1>2. RowsAgree'
  BY <1>1, LocalTyped, LocalSound, ModifyAgrees DEF Patch
<1> DEFINE l == [req[r] EXCEPT !.pc = "reopen"]
<1>3. Sound(l)
  BY LocalTyped, LocalSound DEF Sound, Local
<1>4. req' = [req EXCEPT ![r] = l] \/ req' = [req EXCEPT ![r] = Idle]
  BY DEF Patch
<1>5. QED
  BY <1>2, <1>3, <1>4, IdleSound, SoundStep

LEMMA ReopenSound ==
  ASSUME IInv, AInv, NEW r \in Request, Reopen(r)
  PROVE  AInv'
<1>1. RowsAgree'
  BY LocalTyped, LocalSound
     DEF Reopen, ReOpenIncident, At, JoinLabel, StoreTypeOK, Row, RowsAgree, Agrees
<1>2. QED
  BY <1>1, IdleSound, SoundStep DEF Reopen

LEMMA FailSound ==
  ASSUME IInv, AInv, NEW r \in Request, Fail(r)
  PROVE  AInv'
  BY LocalSound, StoreKeepsAgreement, IdleSound, SoundStep DEF Fail

-----------------------------------------------------------------------------
(* Type and impact *)

LEMMA InitAInv == Init => AInv
<1> SUFFICES ASSUME Init PROVE AInv
  OBVIOUS
<1>1. RowsAgree
  BY DEF Init, StoreInit, RowsAgree, Agrees
<1>2. QED
  BY <1>1, IdleSound DEF Init, AInv

LEMMA NextAInv == IInv /\ AInv /\ [Next]_vars => AInv'
<1> SUFFICES ASSUME IInv, AInv, [Next]_vars PROVE AInv'
  OBVIOUS
<1>1. ASSUME NEW r \in Request, Arrive(r)
      PROVE  AInv'
  BY <1>1, SystemReportSound, RegularCreationSound, V1ReportSound, ExtractRequestSound,
     PatchRequestSound DEF Arrive
<1>2. ASSUME NEW r \in Request, Handle(r)
      PROVE  AInv'
  BY <1>2, FindEventsSound, MatchTargetSound, LinkSound, MatchHigherSound, MarkSystemSound,
     CreateSound, FirstStatusSound, NextComponentSound, MoveSound, RaiseSound, ExtractSound,
     ExtractMoveSound, PatchSound, ReopenSound DEF Handle
<1>3. ASSUME NEW r \in Request, Fail(r)
      PROVE  AInv'
  BY <1>3, FailSound
<1>4. CASE row' = row /\ req' = req
  BY <1>4 DEF AInv, RowsAgree, Agrees, Sound
<1>5. QED
  BY <1>1, <1>2, <1>3, <1>4 DEF Next, vars, ClockMoves

\* Without extractions, no interleaving of reports, creations, moves and
\* PATCHes, and no failure between two writes, makes an incident without
\* impact or a maintenance or information with one (ErrIncidentTypeImpactMismatch).
THEOREM TypeAndImpactAgree ==
  ASSUME "extract" \notin Kinds
  PROVE  Spec => []TypeImpactAgree
<1>1. IInv /\ AInv => TypeImpactAgree
  BY DEF IInv, TypeOK, StoreTypeOK, AInv, RowsAgree, Agrees, TypeImpactAgree
<1>2. QED
  BY InitIInv, NextIInv, InitAInv, NextAInv, <1>1, PTL DEF Spec

-----------------------------------------------------------------------------
(* End dates *)

LEMMA ModifyKeepsEndDate ==
  ASSUME StoreTypeOK, NEW copy \in Copy, ModifyIncident(copy), NEW i \in EventId,
         row[i].dates # "open"
  PROVE  row'[i].dates # "open"
<1>1. row'[i] = IF i = copy.id THEN NonZeroFields(row[i], copy.row) ELSE row[i]
  BY DEF ModifyIncident, StoreTypeOK
<1>2. NonZeroFields(row[i], copy.row).dates # "open"
  BY DEF NonZeroFields, Copy, Row
<1>3. QED
  BY <1>1, <1>2

\* Who may clear the end date of event i.
Clears(r, i) ==
    \/ At(r, "reopen") /\ req[r].new.id = i
    \/ /\ At(r, "move") \/ At(r, "extractMove")
       /\ \E copy \in {req[r].old, req[r].new} : copy.id = i /\ copy.row.dates = "open"

\* The two structs of a move are written, the one it leaves perhaps closed.
LEMMA MoveClears ==
  ASSUME StoreTypeOK, NEW old \in Copy, NEW new \in Copy, NEW cs, NEW close \in BOOLEAN,
         MoveComponents(cs, old, new, close), NEW i \in EventId,
         row[i].dates # "open", row'[i].dates = "open"
  PROVE  \E copy \in {old, new} : copy.id = i /\ copy.row.dates = "open"
<1> DEFINE left == Left(cs, old, close).row
<1>1. left.dates = "open" => old.row.dates = "open"
  BY DEF Left, Copy, Row
<1>2. row' = [row EXCEPT ![new.id] = new.row, ![old.id] = left]
  BY DEF MoveComponents
<1> HIDE DEF left
<1>3. row'[i] = IF i = old.id THEN left ELSE IF i = new.id THEN new.row ELSE row[i]
  BY <1>2 DEF StoreTypeOK
<1>4. QED
  BY <1>1, <1>3

LEMMA StepKeepsEndDate ==
  ASSUME IInv, [Next]_vars, NEW i \in events, row[i].dates # "open", row'[i].dates = "open"
  PROVE  \E r \in Request : Clears(r, i)
<1>0. i \in EventId /\ StoreTypeOK
  BY DEF IInv, TypeOK, StoreTypeOK
<1>1. ASSUME NEW r \in Request, Handle(r)
      PROVE  Clears(r, i)
  <2>1. ASSUME NEW copy \in Copy, ModifyIncident(copy)
        PROVE  FALSE
    BY <1>0, <2>1, ModifyKeepsEndDate
  <2>2. CASE Link(r) \/ Patch(r)
    BY <2>1, <2>2, LocalTyped DEF Link, Patch, At, JoinLabel
  <2>3. CASE MarkSystem(r)
    <3>1. [req[r].new EXCEPT !.row.system = TRUE] \in Copy
      BY <2>3, LocalTyped DEF MarkSystem, At, JoinLabel, Copy, Row
    <3>2. QED
      BY <2>1, <2>3, <3>1 DEF MarkSystem
  <2>4. CASE FirstStatus(r)
    <3>1. req[r].new \in Copy /\ InitialStatus(req[r].type) \in Status
      BY <2>4, LocalTyped, StatusTyped DEF FirstStatus, At, JoinLabel, Local
    <3>2. [req[r].new EXCEPT !.row.status = InitialStatus(req[r].type)] \in Copy
      BY <3>1 DEF Copy, Row
    <3>3. QED
      BY <2>1, <2>4, <3>2 DEF FirstStatus
  <2>5. CASE Raise(r)
    <3>1. [req[r].old EXCEPT !.row.impact = req[r].impact] \in Copy
      BY <2>5, LocalTyped DEF Raise, At, LeaveLabel, Copy, Row, Local
    <3>2. QED
      BY <2>1, <2>5, <3>1 DEF Raise
  <2>6. CASE Create(r) \/ Extract(r)
    <3>1. PICK j \in EventId : \E e, cs : SaveIncident(j, e, cs)
      BY <2>6 DEF Create, Extract
    <3>2. row'[i] = row[i]
      BY <1>0, <3>1 DEF SaveIncident, StoreTypeOK
    <3>3. QED
      BY <3>2
  <2>7. CASE Reopen(r)
    BY <1>0, <2>7 DEF Reopen, ReOpenIncident, StoreTypeOK, Clears
  <2>8. CASE FindEvents(r) \/ MatchTarget(r) \/ MatchHigher(r) \/ NextComponent(r)
    BY <2>8 DEF FindEvents, MatchTarget, MatchHigher, NextComponent, store
  <2>9. CASE Move(r) \/ ExtractMove(r)
    <3>1. At(r, "move") \/ At(r, "extractMove")
      BY <2>9 DEF Move, ExtractMove
    <3>2. /\ req[r].old \in Copy /\ req[r].new \in Copy /\ req[r].closeOld \in BOOLEAN
      BY <3>1, LocalTyped DEF At, JoinLabel, LeaveLabel, Local
    <3>3. PICK close \in {req[r].closeOld, FALSE} :
             MoveComponents(req[r].cur, req[r].old, req[r].new, close)
      BY <2>9 DEF Move, ExtractMove
    <3>4. close \in BOOLEAN
      BY <3>2, <3>3
    <3>5. \E copy \in {req[r].old, req[r].new} : copy.id = i /\ copy.row.dates = "open"
      BY <1>0, <3>2, <3>3, <3>4, MoveClears
    <3>6. QED
      BY <3>1, <3>5 DEF Clears
  <2>10. QED
    BY <1>1, <2>2, <2>3, <2>4, <2>5, <2>6, <2>7, <2>8, <2>9 DEF Handle
<1>2. CASE \/ \E r \in Request : Arrive(r) \/ Fail(r)
           \/ \E w \in Window : ClockMoves(w)
           \/ UNCHANGED vars
  BY <1>2 DEF Arrive, SystemReport, RegularCreation, V1Report, ExtractRequest,
              PatchRequest, Fail, ClockMoves, store, vars
<1>3. QED
  BY <1>1, <1>2 DEF Next

\* An end date once set is cleared by ReOpenIncident, or by the Save of a move
\* or an extraction that holds a struct of the event without one: gorm's
\* Updates, which all other handlers use, never clears one (internal/db/db.go).
THEOREM EndDatesStay == Spec => EndDateClearedOnlyByReopen
<1>1. IInv /\ [Next]_vars =>
        [\A i \in events :
            row[i].dates # "open" /\ row'[i].dates = "open" =>
               \E r \in Request : Clears(r, i)]_vars
  BY StepKeepsEndDate
<1>2. QED
  BY InitIInv, NextIInv, <1>1, PTL DEF Spec, EndDateClearedOnlyByReopen, Clears
=============================================================================
