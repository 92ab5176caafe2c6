------------------------------ MODULE BoardProofs ------------------------------
(***************************************************************************)
(* Placement implements Board, for any number of events, components,       *)
(* schedules and concurrent requests: each step of a request is an         *)
(* operation of Board or changes nothing a reader of the page sees.        *)
(***************************************************************************)
EXTENDS PlacementProofs

\* The labels at which a request deals with components.
CurLabel == {"matchTarget", "matchHigher", "create", "move", "extract", "extractMove"}

\* What a request has in hand exists: the events whose structs it will write
\* (E stands for the events of the table), and some components to place.
InHand(l, E) ==
    /\ l.pc \in JoinLabel => l.new.id \in E
    /\ l.pc \in LeaveLabel => l.old.id \in E
    /\ \A o \in l.opened : o.id \in E
    /\ l.pc \in CurLabel => l.cur # {}

\* Events are never deleted, so what is in hand stays valid.
HInv == \A r \in Request : InHand(req[r], events)

-----------------------------------------------------------------------------
(* The pieces of the actions *)

LEMMA IdleInHand == \A E : InHand(Idle, E)
  BY DEF InHand, Idle, JoinLabel, LeaveLabel, CurLabel

\* The invariant is kept by a step of r to a local state with valid structs.
LEMMA InHandStep ==
  ASSUME IInv, HInv, events \subseteq events', NEW r \in Request, NEW l, InHand(l, events'),
         req' = [req EXCEPT ![r] = l]
  PROVE  HInv'
<1>1. ASSUME NEW q \in Request PROVE InHand(req'[q], events')
  <2>1. req'[q] = IF q = r THEN l ELSE req[q]
    BY DEF IInv, TypeOK
  <2>2. InHand(req[q], events')
    BY DEF HInv, InHand
  <2>3. QED
    BY <2>1, <2>2
<1>2. QED
  BY <1>1 DEF HInv

LEMMA AnsweredInHand ==
  ASSUME IInv, HInv, NEW r \in Request, NEW cs,
         req[r].kind = "regular" => req[r].pc \in JoinLabel
  PROVE  InHand(Answered(r, cs), events)
<1>1. req[r] \in Local /\ InHand(req[r], events)
  BY LocalTyped DEF HInv
<1>2. CASE req[r].todo \ cs = {}
  BY <1>2, IdleInHand DEF Answered
<1>3. CASE req[r].todo \ cs # {} /\ req[r].kind = "regular"
  <2> DEFINE l == [req[r] EXCEPT !.todo = req[r].todo \ cs, !.cur = {}, !.old = NoCopy,
                                 !.closeOld = FALSE, !.pc = "nextComponent", !.new = req[r].new]
  <2>1. Answered(r, cs) = l
    BY <1>1, <1>3 DEF Answered, Local
  <2>2. l.pc = "nextComponent" /\ l.new = req[r].new /\ l.opened = req[r].opened
    BY <1>1 DEF Local
  <2> HIDE DEF l
  <2>3. InHand(l, events)
    BY <1>1, <1>3, <2>2 DEF InHand, LeaveLabel, CurLabel
  <2>4. QED
    BY <2>1, <2>3
<1>4. CASE req[r].todo \ cs # {} /\ req[r].kind # "regular"
  <2> DEFINE l == [req[r] EXCEPT !.todo = req[r].todo \ cs, !.cur = {}, !.old = NoCopy,
                                 !.closeOld = FALSE, !.pc = "findEvents", !.new = NoCopy]
  <2>1. Answered(r, cs) = l
    BY <1>1, <1>4 DEF Answered, Local
  <2>2. l.pc = "findEvents" /\ l.opened = req[r].opened
    BY <1>1 DEF Local
  <2> HIDE DEF l
  <2>3. InHand(l, events)
    BY <1>1, <2>2 DEF InHand, JoinLabel, LeaveLabel, CurLabel
  <2>4. QED
    BY <2>1, <2>3
<1>5. QED
  BY <1>2, <1>3, <1>4

LEMMA AnswerInHand ==
  ASSUME IInv, HInv, events' = events, NEW r \in Request, Answer(r),
         req[r].kind = "regular" => req[r].pc \in JoinLabel
  PROVE  HInv'
  BY AnsweredInHand, InHandStep DEF Answer

LEMMA LoadId == \A i : Load(i).id = i
  BY DEF Load

-----------------------------------------------------------------------------
(* The actions keep the invariant *)

\* A request arrives: it has loaded nothing, or events that exist.
LEMMA ArriveInHand ==
  ASSUME IInv, HInv, NEW r \in Request, Arrive(r)
  PROVE  HInv'
<1>0. events' = events
  BY DEF Arrive, SystemReport, RegularCreation, V1Report, ExtractRequest, PatchRequest, store
<1>1. CASE SystemReport(r)
  <2>1. PICK cs \in NonEmptySubsets(Component), im \in Impact \ {0} :
          req' = [req EXCEPT ![r] = [Idle EXCEPT !.pc = "findEvents", !.kind = "system",
                                        !.impact = im, !.todo = cs]]
    BY <1>1 DEF SystemReport
  <2> DEFINE l == [Idle EXCEPT !.pc = "findEvents", !.kind = "system", !.impact = im, !.todo = cs]
  <2>2. InHand(l, events)
    BY DEF InHand, Idle, JoinLabel, LeaveLabel, CurLabel
  <2>3. QED
    BY <1>0, <2>1, <2>2, InHandStep
<1>2. CASE RegularCreation(r)
  <2> DEFINE loaded == {Load(i) : i \in {j \in EventId : Active(j)}}
  <2>1. PICK cs \in (SUBSET Component) \ {{}}, t \in NewTypes, im \in Impact, d \in Dates :
          req' = [req EXCEPT ![r] = [Idle EXCEPT
                        !.pc = "create", !.kind = "regular", !.type = t, !.impact = im,
                        !.dates = d, !.todo = cs, !.cur = cs, !.opened = loaded]]
    BY <1>2, ZenonT(60) DEF RegularCreation, NonEmptySubsets
  <2> DEFINE l == [Idle EXCEPT !.pc = "create", !.kind = "regular", !.type = t, !.impact = im,
                               !.dates = d, !.todo = cs, !.cur = cs, !.opened = loaded]
  <2>2. \A o \in loaded : o.id \in events
    BY LoadId DEF Active
  <2> HIDE DEF loaded
  <2>3. l.pc = "create" /\ l.cur # {} /\ l.opened = loaded
    BY DEF Idle
  <2> HIDE DEF l
  <2>4. InHand(l, events)
    BY <2>2, <2>3 DEF InHand, JoinLabel, LeaveLabel
  <2>5. QED
    BY <1>0, <2>1, <2>4, InHandStep DEF l
<1>3. CASE V1Report(r)
  <2>1. PICK c \in Component, im \in Impact \ {0} :
          LET same == {i \in EventId : Active(i) /\ row[i].impact = im}
              goto(pc, old, new) == req' = [req EXCEPT ![r] = V1Local(c, im, pc, old, new)]
          IN  \/ \E i \in same : goto("link", NoCopy, Joined(Load(i), {c}))
              \/ goto("create", NoCopy, NoCopy)
              \/ \E o \in Holding(c) :
                    \/ \E i \in same : goto("move", Load(o), Load(i))
                    \/ \E pc \in {"raise", "extract"} : goto(pc, Load(o), NoCopy)
    BY <1>3, ZenonT(60) DEF V1Report
  <2>2. ASSUME NEW pc \in {"link", "create", "move", "raise", "extract"}, NEW old, NEW new,
               pc \in {"link", "move"} => new.id \in events,
               pc \in {"move", "raise", "extract"} => old.id \in events,
               req' = [req EXCEPT ![r] = V1Local(c, im, pc, old, new)]
        PROVE  HInv'
    <3> DEFINE l == V1Local(c, im, pc, old, new)
    <3>1. /\ l.pc = pc /\ l.old = old /\ l.new = new /\ l.cur = {c} /\ l.opened = {}
      BY DEF V1Local, Idle
    <3> HIDE DEF l
    <3>2. InHand(l, events)
      BY <2>2, <3>1 DEF InHand, JoinLabel, LeaveLabel
    <3>3. QED
      BY <1>0, <2>2, <3>2, InHandStep DEF l
  <2>3. \A i : Joined(Load(i), {c}).id = i
    BY DEF Joined, Load
  <2>4. /\ \A i \in {j \in EventId : Active(j) /\ row[j].impact = im} : i \in events
        /\ \A o \in Holding(c) : o \in events
    BY DEF Active, Holding
  <2>5. QED
    BY <2>1, <2>2, <2>3, <2>4, LoadId
<1>4. CASE ExtractRequest(r)
  <2>1. PICK i \in events : \E cs \in NonEmptySubsets(ComponentsOf(i)) :
          req' = [req EXCEPT ![r] = [Idle EXCEPT
                        !.pc = "extract", !.kind = "extract", !.impact = row[i].impact,
                        !.todo = cs, !.cur = cs, !.old = Load(i)]]
    BY <1>4, ZenonT(30) DEF ExtractRequest
  <2>2. PICK cs \in NonEmptySubsets(ComponentsOf(i)) :
          req' = [req EXCEPT ![r] = [Idle EXCEPT
                        !.pc = "extract", !.kind = "extract", !.impact = row[i].impact,
                        !.todo = cs, !.cur = cs, !.old = Load(i)]]
    BY <2>1
  <2> DEFINE l == [Idle EXCEPT !.pc = "extract", !.kind = "extract", !.impact = row[i].impact,
                               !.todo = cs, !.cur = cs, !.old = Load(i)]
  <2>3. l.pc = "extract" /\ l.cur # {} /\ l.old.id \in events /\ l.opened = {}
    BY LoadId DEF Idle, NonEmptySubsets
  <2>4. req' = [req EXCEPT ![r] = l]
    BY <2>2
  <2> HIDE DEF l
  <2>5. InHand(l, events)
    BY <2>3 DEF InHand, JoinLabel
  <2>6. QED
    BY <1>0, <2>4, <2>5, InHandStep
<1>5. CASE PatchRequest(r)
  <2>1. PICK new : /\ req' = [req EXCEPT ![r] = [Idle EXCEPT !.pc = "patch", !.kind = "patch",
                                                           !.new = new]]
                   /\ new.id \in events
    <3>1. PICK i \in events, im \in Impact, s \in PatchStatus, d \in Dates :
          \E t \in NewTypes \cup {row[i].type} :
            /\ PatchAccepted(row[i], t, im, s, d)
            /\ req' = [req EXCEPT ![r] = [Idle EXCEPT
                          !.pc = "patch", !.kind = "patch",
                          !.new = [Load(i) EXCEPT !.row = Patched(row[i], t, im, s, d)]]]
      BY <1>5, ZenonT(30) DEF PatchRequest
    <3>2. \A e : [Load(i) EXCEPT !.row = e].id \in events
      BY DEF Load
    <3>3. QED
      BY <3>1, <3>2, ZenonT(30)
  <2> DEFINE l == [Idle EXCEPT !.pc = "patch", !.kind = "patch", !.new = new]
  <2>2. l.pc = "patch" /\ l.new = new /\ l.opened = {}
    BY DEF Idle
  <2>3. req' = [req EXCEPT ![r] = l]
    BY <2>1
  <2> HIDE DEF l
  <2>4. InHand(l, events)
    BY <2>1, <2>2 DEF InHand, LeaveLabel, CurLabel
  <2>5. QED
    BY <1>0, <2>3, <2>4, InHandStep
<1>6. QED
  BY <1>1, <1>2, <1>3, <1>4, <1>5 DEF Arrive

\* A request reads, computes, and goes on.
LEMMA ReadInHand ==
  ASSUME IInv, HInv, NEW r \in Request,
         FindEvents(r) \/ MatchTarget(r) \/ MatchHigher(r) \/ NextComponent(r)
  PROVE  HInv'
<1>0. /\ events' = events
      /\ req[r] \in Local /\ InHand(req[r], events)
      /\ req[r].pc \in ReportLabel => req[r].kind # "regular"
  BY LocalTyped DEF FindEvents, MatchTarget, MatchHigher, NextComponent, store, HInv
<1>1. CASE FindEvents(r)
  <2>1. PICK c \in req[r].todo :
          \/ req' = [req EXCEPT ![r].pc = "matchTarget", ![r].cur = {c}]
          \/ req' = [req EXCEPT ![r] = Answered(r, {c})]
          \/ \E i \in Holding(c) :
                req' = [req EXCEPT ![r].pc = "matchHigher", ![r].cur = {c}, ![r].old = Load(i)]
    BY <1>1 DEF FindEvents
  <2>2. CASE req' = [req EXCEPT ![r].pc = "matchTarget", ![r].cur = {c}]
    <3> DEFINE l == [req[r] EXCEPT !.pc = "matchTarget", !.cur = {c}]
    <3>1. InHand(l, events)
      BY <1>0 DEF InHand, Local, JoinLabel, LeaveLabel, CurLabel
    <3>2. QED
      BY <1>0, <2>2, <3>1, InHandStep
  <2>3. CASE req' = [req EXCEPT ![r] = Answered(r, {c})]
    <3>1. req[r].kind # "regular"
      BY <1>0, <1>1 DEF FindEvents, At, ReportLabel
    <3>2. QED
      BY <1>0, <2>3, <3>1, AnsweredInHand, InHandStep
  <2>4. ASSUME NEW i \in Holding(c),
               req' = [req EXCEPT ![r].pc = "matchHigher", ![r].cur = {c}, ![r].old = Load(i)]
        PROVE  HInv'
    <3> DEFINE copy == Load(i)
               l == [req[r] EXCEPT !.pc = "matchHigher", !.cur = {c}, !.old = copy]
    <3>1. copy.id \in events
      BY LoadId DEF Holding, Active
    <3> HIDE DEF copy
    <3>2. InHand(l, events)
      BY <1>0, <3>1 DEF InHand, Local, JoinLabel
    <3>3. QED
      BY <1>0, <2>4, <3>2, InHandStep DEF copy
  <2>5. QED
    BY <2>1, <2>2, <2>3, <2>4
<1>2. ASSUME NEW pc \in {"create", "raise", "extract"}, MatchTarget(r) \/ MatchHigher(r),
             pc = "create" => At(r, "matchTarget"),
             pc # "create" => At(r, "matchHigher"),
             req' = [req EXCEPT ![r].pc = pc]
      PROVE  HInv'
  <2> DEFINE l == [req[r] EXCEPT !.pc = pc]
  <2>1. InHand(l, events)
    BY <1>0, <1>2 DEF InHand, Local, JoinLabel, LeaveLabel, CurLabel, At
  <2>2. QED
    BY <1>0, <1>2, <2>1, InHandStep
<1>3. ASSUME NEW i \in SameImpact(r), At(r, "matchTarget"),
             req' = [req EXCEPT ![r].pc = "link", ![r].new = Joined(Load(i), req[r].cur)]
      PROVE  HInv'
  <2> DEFINE copy == Joined(Load(i), req[r].cur)
             l == [req[r] EXCEPT !.pc = "link", !.new = copy]
  <2>1. copy.id \in events
    BY DEF SameImpact, Active, Joined, Load
  <2> HIDE DEF copy
  <2>2. InHand(l, events)
    BY <1>0, <2>1 DEF InHand, Local, LeaveLabel, CurLabel
  <2>3. QED
    BY <1>0, <1>3, <2>2, InHandStep DEF copy
<1>4. ASSUME NEW i \in SameImpact(r), At(r, "matchHigher"),
             req' = [req EXCEPT ![r].pc = "move", ![r].new = Load(i),
                                ![r].closeOld = OneComponent(Load(i))]
      PROVE  HInv'
  <2> DEFINE copy == Load(i)
             one == OneComponent(copy)
             l == [req[r] EXCEPT !.pc = "move", !.new = copy, !.closeOld = one]
  <2>1. copy.id \in events
    BY LoadId DEF SameImpact, Active
  <2>2. req' = [req EXCEPT ![r] = l]
    BY <1>4
  <2> HIDE DEF copy, one
  <2>3. InHand(l, events)
    BY <1>0, <1>4, <2>1 DEF InHand, Local, LeaveLabel, CurLabel, At
  <2>4. QED
    BY <1>0, <2>2, <2>3, InHandStep
<1>5. CASE NextComponent(r)
  <2>0. req[r].pc = "nextComponent"
    BY <1>5 DEF NextComponent, At
  <2>1. PICK c \in req[r].todo :
          \/ req' = [req EXCEPT ![r] = Answered(r, {c})]
          \/ \E o \in req[r].opened :
                req' = [req EXCEPT ![r].pc = "move", ![r].cur = {c}, ![r].old = o,
                                   ![r].closeOld = OneComponent(o)]
    BY <1>5 DEF NextComponent
  <2>2. CASE req' = [req EXCEPT ![r] = Answered(r, {c})]
    BY <1>0, <2>0, <2>2, AnsweredInHand, InHandStep DEF JoinLabel
  <2>3. ASSUME NEW o \in req[r].opened,
               req' = [req EXCEPT ![r].pc = "move", ![r].cur = {c}, ![r].old = o,
                                  ![r].closeOld = OneComponent(o)]
        PROVE  HInv'
    <3> DEFINE one == OneComponent(o)
               l == [req[r] EXCEPT !.pc = "move", !.cur = {c}, !.old = o, !.closeOld = one]
    <3>1. req' = [req EXCEPT ![r] = l]
      BY <2>3
    <3> HIDE DEF one
    <3>2. InHand(l, events)
      BY <1>0, <2>0 DEF InHand, Local, JoinLabel
    <3>3. QED
      BY <1>0, <3>1, <3>2, InHandStep
  <2>4. QED
    BY <2>1, <2>2, <2>3
<1>6. CASE MatchTarget(r)
  BY <1>2, <1>3, <1>6 DEF MatchTarget
<1>7. CASE MatchHigher(r)
  BY <1>2, <1>4, <1>7 DEF MatchHigher
<1>8. QED
  BY <1>1, <1>5, <1>6, <1>7

\* A request writes a struct it holds.
LEMMA ModifyInHand ==
  ASSUME IInv, HInv, NEW r \in Request,
         \/ Link(r) \/ MarkSystem(r) \/ FirstStatus(r) \/ Raise(r) \/ Patch(r) \/ Reopen(r)
  PROVE  HInv'
<1>0. /\ events' = events
      /\ req[r] \in Local /\ InHand(req[r], events)
      /\ req[r].pc \in ReportLabel => req[r].kind # "regular"
  BY LocalTyped DEF Link, MarkSystem, FirstStatus, Raise, Patch, Reopen,
                    ModifyIncident, ReOpenIncident, HInv
<1>1. CASE Link(r) \/ MarkSystem(r) \/ Raise(r)
  <2>1. Answer(r) /\ req[r].kind # "regular"
    BY <1>0, <1>1 DEF Link, MarkSystem, Raise, At, ReportLabel
  <2>2. QED
    BY <1>0, <2>1, AnswerInHand
<1>2. CASE FirstStatus(r)
  <2> DEFINE new == [req[r].new EXCEPT !.row.status = InitialStatus(req[r].type)]
             l == [req[r] EXCEPT !.pc = "nextComponent", !.cur = {}, !.new = new]
  <2>0. req[r].pc = "firstStatus" /\ req[r].pc \in JoinLabel
    BY <1>2 DEF FirstStatus, At, JoinLabel
  <2>1. CASE Answer(r)
    BY <1>0, <2>0, <2>1, AnswerInHand
  <2>2. CASE req' = [req EXCEPT ![r].pc = "nextComponent", ![r].cur = {}, ![r].new = new]
    <3>1. new.id = req[r].new.id
      BY <2>0, LocalTyped DEF Copy
    <3>2. req' = [req EXCEPT ![r] = l]
      BY <2>2
    <3> HIDE DEF new
    <3>3. InHand(l, events)
      BY <1>0, <2>0, <3>1 DEF InHand, Local, LeaveLabel, CurLabel
    <3>4. QED
      BY <1>0, <3>2, <3>3, InHandStep
  <2>3. QED
    BY <1>2, <2>1, <2>2 DEF FirstStatus
<1>3. CASE Patch(r)
  <2> DEFINE l == [req[r] EXCEPT !.pc = "reopen"]
  <2>1. CASE req' = [req EXCEPT ![r] = Idle]
    BY <1>0, <2>1, IdleInHand, InHandStep
  <2>2. CASE req' = [req EXCEPT ![r] = l]
    <3>1. req[r].pc = "patch"
      BY <1>3 DEF Patch, At
    <3>2. InHand(l, events)
      BY <1>0, <3>1 DEF InHand, Local, JoinLabel, LeaveLabel, CurLabel
    <3>3. QED
      BY <1>0, <2>2, <3>2, InHandStep
  <2>3. QED
    BY <1>3, <2>1, <2>2 DEF Patch
<1>4. CASE Reopen(r)
  BY <1>0, <1>4, IdleInHand, InHandStep DEF Reopen
<1>5. QED
  BY <1>1, <1>2, <1>3, <1>4

\* A new event: it has components, and it is in the table from now on.
LEMMA OpenStep ==
  ASSUME IInv, HInv, NEW r \in Request, Create(r) \/ Extract(r)
  PROVE  HInv' /\ \E i \in EventId : Page!Open(i, req[r].cur)
<1>0. /\ req[r] \in Local /\ InHand(req[r], events)
      /\ req[r].pc \in {"create", "extract"} /\ req[r].cur # {}
  BY LocalTyped DEF Create, Extract, At, HInv, InHand, CurLabel
<1>1. PICK i \in EventId : \E e : SaveIncident(i, e, req[r].cur)
  BY DEF Create, Extract
<1>2. \A copy : copy.id = i => copy.id \in events'
  BY <1>1 DEF SaveIncident
<1>3. Page!Open(i, req[r].cur)
  BY <1>0, <1>1 DEF SaveIncident, Page!Open
<1>4. ASSUME NEW new, NEW pc \in {"firstStatus", "extractMove"},
             new.id \in events', events \subseteq events',
             pc = "extractMove" => req[r].pc = "extract",
             \/ req' = [req EXCEPT ![r] = Idle]
             \/ req' = [req EXCEPT ![r] = [req[r] EXCEPT !.pc = pc, !.new = new]]
      PROVE  HInv'
  <2> DEFINE l == [req[r] EXCEPT !.pc = pc, !.new = new]
  <2>1. InHand(l, events')
    BY <1>0, <1>4 DEF InHand, Local, JoinLabel, LeaveLabel, CurLabel
  <2> HIDE DEF l
  <2>2. QED
    BY <1>4, <2>1, IdleInHand, InHandStep DEF l
<1>5. HInv'
  <2>1. CASE Create(r)
    <3> DEFINE e == [type |-> req[r].type, system |-> req[r].kind = "system",
                     impact |-> req[r].impact, status |-> NoStatus, dates |-> req[r].dates]
    <3>1. PICK j \in EventId :
            /\ SaveIncident(j, e, req[r].cur)
            /\ req' = [req EXCEPT ![r] =
                         IF req[r].kind = "v1" THEN Idle
                         ELSE [@ EXCEPT !.pc = "firstStatus",
                                        !.new = [id |-> j, row |-> e, comps |-> req[r].cur]]]
      BY <2>1 DEF Create
    <3> HIDE DEF e
    <3> DEFINE new == [id |-> j, row |-> e, comps |-> req[r].cur]
    <3>2. new.id \in events' /\ events \subseteq events'
      BY <3>1 DEF SaveIncident
    <3>3. \/ req' = [req EXCEPT ![r] = Idle]
          \/ req' = [req EXCEPT ![r] = [req[r] EXCEPT !.pc = "firstStatus", !.new = new]]
      BY <3>1 DEF IInv, TypeOK
    <3> HIDE DEF new
    <3>4. QED
      BY <1>4, <3>2, <3>3
  <2>2. CASE Extract(r)
    <3> DEFINE e == [type |-> "incident", system |-> FALSE, impact |-> req[r].impact,
                     status |-> NoStatus, dates |-> "open"]
    <3>1. PICK j \in EventId :
            /\ SaveIncident(j, e, req[r].cur)
            /\ req' = [req EXCEPT ![r].pc = "extractMove",
                            ![r].new = [id |-> j, row |-> e, comps |-> req[r].cur]]
      BY <2>2 DEF Extract
    <3> HIDE DEF e
    <3> DEFINE new == [id |-> j, row |-> e, comps |-> req[r].cur]
    <3>2. new.id \in events' /\ events \subseteq events'
      BY <3>1 DEF SaveIncident
    <3>3. req' = [req EXCEPT ![r] = [req[r] EXCEPT !.pc = "extractMove", !.new = new]]
      BY <3>1 DEF IInv, TypeOK
    <3>4. req[r].pc = "extract"
      BY <2>2 DEF Extract, At
    <3> HIDE DEF new
    <3>5. QED
      BY <1>4, <3>2, <3>3, <3>4
  <2>3. QED
    BY <2>1, <2>2
<1>6. QED
  BY <1>3, <1>5

\* Components go from one event to another in one transaction.
LEMMA TransferStep ==
  ASSUME IInv, HInv, NEW r \in Request, Move(r) \/ ExtractMove(r)
  PROVE  /\ HInv'
         /\ \E e, f \in EventId, cs, backTo, backFrom \in SUBSET Component :
               Page!Transfer(e, f, cs, backTo, backFrom)
<1>0. /\ req[r] \in Local /\ InHand(req[r], events)
      /\ req[r].pc \in {"move", "extractMove"} /\ req[r].cur # {}
      /\ req[r].cur \in SUBSET Component /\ req[r].closeOld \in BOOLEAN
      /\ req[r].old \in Copy /\ req[r].new \in Copy
      /\ req[r].old.id \in events /\ req[r].new.id \in events
  BY LocalTyped DEF Move, ExtractMove, At, HInv, InHand, CurLabel, JoinLabel, LeaveLabel, Local
<1>1. PICK closeOld \in BOOLEAN : MoveComponents(req[r].cur, req[r].old, req[r].new, closeOld)
  BY <1>0 DEF Move, ExtractMove
<1>2. events' = events
  BY <1>1 DEF MoveComponents
<1> DEFINE cs == req[r].cur
           old == req[r].old
           new == req[r].new
           back == IF closeOld THEN old.comps \cup {c \in cs : <<old.id, c>> \in link}
                   ELSE old.comps \ cs
<1>3. Page!Transfer(old.id, new.id, cs, new.comps, back)
  <2>1. /\ old.id \in events /\ new.id \in events /\ cs # {}
        /\ old \in Copy /\ new \in Copy /\ MoveComponents(cs, old, new, closeOld)
    BY <1>0, <1>1
  <2> HIDE DEF cs, old, new
  <2>2. link' = (link \ ({old.id} \X cs)) \cup ({new.id} \X (cs \cup new.comps))
                                          \cup ({old.id} \X back)
    <3>1. CASE closeOld
      <4>1. Left(cs, old, closeOld).comps = old.comps
        BY <2>1, <3>1 DEF Left, Copy
      <4>2. link' = link \cup ({new.id} \X (new.comps \cup cs)) \cup ({old.id} \X old.comps)
        BY <2>1, <3>1, <4>1 DEF MoveComponents
      <4>3. back = old.comps \cup {c \in cs : <<old.id, c>> \in link}
        BY <3>1
      <4> HIDE DEF back
      <4>4. QED
        BY <4>2, <4>3
    <3>2. CASE ~closeOld
      <4>1. Left(cs, old, closeOld).comps = old.comps \ cs
        BY <2>1, <3>2 DEF Left, Copy
      <4>2. link' = (link \ ({old.id} \X cs)) \cup ({new.id} \X (new.comps \cup cs))
                                              \cup ({old.id} \X (old.comps \ cs))
        BY <2>1, <3>2, <4>1 DEF MoveComponents
      <4>3. back = old.comps \ cs
        BY <3>2
      <4> HIDE DEF back
      <4>4. QED
        BY <4>2, <4>3
    <3>3. QED
      BY <3>1, <3>2
  <2>3. QED
    BY <1>2, <2>1, <2>2 DEF Page!Transfer
<1>4. /\ old.id \in EventId /\ new.id \in EventId /\ new.comps \in SUBSET Component
      /\ cs \in SUBSET Component /\ back \in SUBSET Component
  BY <1>0 DEF Copy
<1>5. HInv'
  <2>1. InHand(Answered(r, cs), events)
    BY <1>0, AnsweredInHand DEF JoinLabel
  <2>2. CASE req' = [req EXCEPT ![r] = Answered(r, cs)]
    BY <1>2, <2>1, <2>2, InHandStep
  <2>3. ASSUME NEW left \in Copy, left.id = old.id,
               req' = [req EXCEPT ![r] = [Answered(r, cs) EXCEPT !.opened = (@ \ {old}) \cup {left}]]
        PROVE  HInv'
    <3> DEFINE a == Answered(r, cs)
               l == [a EXCEPT !.opened = (a.opened \ {old}) \cup {left}]
    <3>1. a \in Local
      BY <1>0, AnsweredTyped DEF JoinLabel
    <3>2. InHand(a, events) /\ left.id \in events
      BY <1>0, <2>1, <2>3
    <3>3. req' = [req EXCEPT ![r] = l]
      BY <2>3
    <3> HIDE DEF a
    <3>4. InHand(l, events)
      BY <3>1, <3>2 DEF InHand, Local
    <3>5. QED
      BY <1>2, <3>3, <3>4, InHandStep
  <2>4. CASE ExtractMove(r)
    <3> DEFINE l == [req[r] EXCEPT !.pc = "markSystem"]
    <3>1. InHand(l, events)
      BY <1>0, <2>4 DEF InHand, Local, JoinLabel, LeaveLabel, CurLabel, ExtractMove, At
    <3>2. req' = [req EXCEPT ![r] = l] \/ req' = [req EXCEPT ![r] = Answered(r, cs)]
      BY <2>4 DEF ExtractMove, Answer
    <3>3. QED
      BY <1>2, <2>2, <3>1, <3>2, InHandStep
  <2>5. CASE Move(r)
    <3> DEFINE left == Left(cs, old, req[r].closeOld)
    <3>1. left \in Copy /\ left.id = old.id
      BY <1>0, LeftTyped DEF Left, Copy
    <3>2. \/ req' = [req EXCEPT ![r] = Answered(r, cs)]
          \/ req' = [req EXCEPT ![r] = [Answered(r, cs) EXCEPT !.opened = (@ \ {old}) \cup {left}]]
      BY <2>5 DEF Move
    <3> HIDE DEF left, cs, old
    <3>3. QED
      BY <2>2, <2>3, <3>1, <3>2
  <2>6. QED
    BY <2>4, <2>5
<1> HIDE DEF back, cs, old, new
<1>6. QED
  BY <1>3, <1>4, <1>5

-----------------------------------------------------------------------------
(* The theorem *)

LEMMA InitHInv == Init => HInv
  BY IdleInHand DEF Init, HInv

LEMMA NextHInv == IInv /\ HInv /\ [Next]_vars => HInv'
<1> SUFFICES ASSUME IInv, HInv, [Next]_vars PROVE HInv'
  OBVIOUS
<1>1. ASSUME NEW r \in Request, Handle(r) PROVE HInv'
  BY <1>1, ReadInHand, ModifyInHand, OpenStep, TransferStep DEF Handle
<1>2. ASSUME NEW r \in Request, Fail(r) PROVE HInv'
  BY <1>2, IdleInHand, InHandStep DEF Fail, store
<1>3. CASE events' = events /\ req' = req
  BY <1>3 DEF HInv
<1>4. QED
  BY <1>1, <1>2, <1>3, ArriveInHand DEF Next, vars, ClockMoves

\* A write of a struct in hand can only include components in its event.
LEMMA IncludeStep ==
  ASSUME IInv, HInv, NEW r \in Request,
         Link(r) \/ MarkSystem(r) \/ FirstStatus(r) \/ Raise(r) \/ Patch(r)
  PROVE  \E e \in EventId, cs \in SUBSET Component : Page!Include(e, cs)
<1>1. PICK copy : /\ ModifyIncident(copy)
                  /\ copy.id \in events /\ copy.id \in EventId /\ copy.comps \in SUBSET Component
  <2>0. /\ req[r].pc \in JoinLabel => req[r].new \in Copy /\ req[r].new.id \in events
        /\ req[r].pc \in LeaveLabel => req[r].old \in Copy /\ req[r].old.id \in events
    BY LocalTyped DEF HInv, InHand
  <2>1. ASSUME NEW copy \in Copy, NEW e, ModifyIncident([copy EXCEPT !.row = e]),
               copy.id \in events
        PROVE  \E c : /\ ModifyIncident(c)
                      /\ c.id \in events /\ c.id \in EventId /\ c.comps \in SUBSET Component
    <3> DEFINE c == [copy EXCEPT !.row = e]
    <3>1. c.id = copy.id /\ c.comps = copy.comps
      BY DEF Copy
    <3>2. copy.id \in EventId /\ copy.comps \in SUBSET Component
      BY DEF Copy
    <3> HIDE DEF c
    <3>3. QED
      BY <2>1, <3>1, <3>2 DEF c
  <2>2. CASE Link(r) \/ Patch(r)
    BY <2>0, <2>2 DEF Link, Patch, At, JoinLabel, Copy
  <2>3. CASE MarkSystem(r)
    <3>1. ModifyIncident([req[r].new EXCEPT !.row = [req[r].new.row EXCEPT !.system = TRUE]])
      BY <2>0, <2>3 DEF MarkSystem, At, JoinLabel, Copy
    <3>2. QED
      BY <2>0, <2>1, <2>3, <3>1 DEF MarkSystem, At, JoinLabel
  <2>4. CASE FirstStatus(r)
    <3>1. ModifyIncident([req[r].new EXCEPT !.row =
                            [req[r].new.row EXCEPT !.status = InitialStatus(req[r].type)]])
      BY <2>0, <2>4 DEF FirstStatus, At, JoinLabel, Copy
    <3>2. QED
      BY <2>0, <2>1, <2>4, <3>1 DEF FirstStatus, At, JoinLabel
  <2>5. CASE Raise(r)
    <3>1. ModifyIncident([req[r].old EXCEPT !.row =
                            [req[r].old.row EXCEPT !.impact = req[r].impact]])
      BY <2>0, <2>5 DEF Raise, At, LeaveLabel, Copy
    <3>2. QED
      BY <2>0, <2>1, <2>5, <3>1 DEF Raise, At, LeaveLabel
  <2>6. QED
    BY <2>2, <2>3, <2>4, <2>5
<1>2. Page!Include(copy.id, copy.comps)
  BY <1>1 DEF ModifyIncident, Page!Include
<1>3. QED
  BY <1>1, <1>2

\* Each step is an operation of Board, or a stutter.
LEMMA StepKeepsBoard ==
  ASSUME IInv, HInv, [Next]_vars
  PROVE  [Page!Next]_<<events, link>>
<1>1. ASSUME NEW r \in Request, Create(r) \/ Extract(r) PROVE Page!Next
  BY <1>1, OpenStep, LocalTyped DEF Page!Next
<1>2. ASSUME NEW r \in Request, Move(r) \/ ExtractMove(r) PROVE Page!Next
  BY <1>2, TransferStep DEF Page!Next
<1>3. ASSUME NEW r \in Request,
             Link(r) \/ MarkSystem(r) \/ FirstStatus(r) \/ Raise(r) \/ Patch(r)
      PROVE  Page!Next
  BY <1>3, IncludeStep DEF Page!Next
<1>4. ASSUME NEW r \in Request,
             \/ FindEvents(r) \/ MatchTarget(r) \/ MatchHigher(r) \/ NextComponent(r)
             \/ Reopen(r) \/ Arrive(r) \/ Fail(r)
      PROVE  UNCHANGED <<events, link>>
  BY <1>4 DEF FindEvents, MatchTarget, MatchHigher, NextComponent, Reopen, ReOpenIncident,
              Arrive, SystemReport, RegularCreation, V1Report, ExtractRequest, PatchRequest,
              Fail, store
<1>5. ASSUME NEW w \in Window, ClockMoves(w) PROVE UNCHANGED <<events, link>>
  BY <1>5 DEF ClockMoves
<1>6. CASE UNCHANGED vars
  BY <1>6 DEF vars
<1>7. QED
  BY <1>1, <1>2, <1>3, <1>4, <1>5, <1>6 DEF Next, Handle

\* The handlers of both APIs implement Board, however they interleave and
\* wherever they fail (SaveIncident, ModifyIncident,
\* MoveComponentFromOldToAnotherIncident, ExtractComponentsToNewIncident).
THEOREM HandlersKeepBoard == Spec => KeepsBoard
<1>1. Init => Page!Init
  BY DEF Init, StoreInit, Page!Init
<1>2. IInv /\ HInv /\ [Next]_vars => [Page!Next]_<<events, link>>
  BY StepKeepsBoard
<1>3. QED
  BY InitIInv, NextIInv, InitHInv, NextHInv, <1>1, <1>2, PTL
  DEF Spec, KeepsBoard, Page!Spec, Page!board
===============================================================================
