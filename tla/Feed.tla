---------------------------------- MODULE Feed --------------------------------
(***************************************************************************)
(* The RSS feed of API v2 (internal/rss/rss.go): for every event of the    *)
(* list HandleRSS writes the items of the feed.  A panic on one of them is *)
(* an error 500 for the whole feed, until the event leaves the last ten.   *)
(***************************************************************************)
EXTENDS Placement

\* createIncidentFeedItems takes the first of the components without looking
\* whether there is one.
createIncidentFeedItems(i) == ComponentsOf(i) # {}

\* createMaintenanceFeedItems formats the end date in the item of the status
\* planned, which the checker adds wherever it is missing.
createMaintenanceFeedItems(i) == row[i].dates # "open"

\* createFeedItems goes through without a panic.
createFeedItems(i) ==
    CASE row[i].type = "maintenance" -> createMaintenanceFeedItems(i)
      [] row[i].type = "info"        -> TRUE
      [] row[i].type = "incident"    -> createIncidentFeedItems(i)

\* What validateEventCreation and checkPatchData ask of type and impact.
Consistent(i) == (row[i].type = "incident") <=> (row[i].impact # 0)

\* No request makes an event unfit for the feed: incidents keep a component,
\* maintenances their end date.  Three exceptions end in a maintenance without
\* an end date: a PATCH turns a closed incident into a maintenance and reopens
\* it, or turns an information, which needs no end date, into one, or it has to
\* do with an incident of impact 0, which only an extraction from a maintenance
\* makes.
FeedStaysReadable ==
    [][\A i \in events' :
          /\ i \in events => createFeedItems(i) /\ Consistent(i)
          /\ ~createFeedItems(i)'
          => \E r \in Request :
                /\ req[r].new.id = i
                /\ \/ At(r, "reopen")
                   \/ At(r, "patch") /\ row[i].type = "info"]_vars
===============================================================================
