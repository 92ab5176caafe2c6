------------------------------- MODULE Updates --------------------------------
(***************************************************************************)
(* The updates of an event (the table incident_status): handlers and the   *)
(* checker add them by saving the event they have loaded, and a client     *)
(* edits the text of one that it names by its position                     *)
(* (PatchEventUpdateTextHandler of internal/api/v2/v2.go).                 *)
(*                                                                         *)
(* An event is saved in one transaction: the UPDATE of its row, which      *)
(* locks it, then the INSERT of its statuses, new ones under fresh keys,   *)
(* and of the loaded ones ON CONFLICT DO UPDATE of incident_id alone.      *)
(* Of an update nothing but its key and its text is kept.                  *)
(***************************************************************************)
EXTENDS Naturals, Sequences, FiniteSets

CONSTANTS
    Writer,      \* requests that save the event, and the checker
    Text,        \* texts of updates
    FirstText,   \* the one they are added with
    MaxUpdates   \* bound on the updates of the event

ASSUME UpdatesAssumption == MaxUpdates \in Nat /\ FirstText \in Text

VARIABLES
    update,      \* the committed rows: the texts, by key
    lastUpdate,  \* the sequence of the primary key
    writer,      \* what each writer holds
    editor       \* the client that edits, and its request

updates == <<update, lastUpdate, writer, editor>>

Key == 1..MaxUpdates
Out == [at |-> "out"]
Copies == UNION {[K -> Text] : K \in SUBSET Key}

Writing ==
    {Out} \cup [at : {"loaded", "locked"}, copy : Copies]
          \cup [at : {"inserted"}, copy : Copies, key : Key]

\* [seen: the keys of the updates, in the order the client was shown]
Editing ==
    {Out} \cup [at : {"viewed"}, seen : Seq(Key), sorted : BOOLEAN]
          \cup [at : {"asked"}, position : Nat \ {0}, want : Key, sorted : BOOLEAN]
          \cup [at : {"found"}, target : Key, want : Key, sorted : BOOLEAN]

UpdatesTypeOK ==
    /\ DOMAIN update \subseteq Key
    /\ update \in [DOMAIN update -> Text]
    /\ lastUpdate \in 0..MaxUpdates
    /\ writer \in [Writer -> Writing]
    /\ editor \in Editing

UpdatesInit ==
    /\ update = [k \in {} |-> Out]
    /\ lastUpdate = 0
    /\ writer = [w \in Writer |-> Out]
    /\ editor = Out

Writes(w, s) == writer' = [writer EXCEPT ![w] = s]

\* The event is loaded with its updates.
LoadEvent(w) ==
    /\ writer[w] = Out
    /\ Writes(w, [at |-> "loaded", copy |-> update])
    /\ UNCHANGED <<update, lastUpdate, editor>>

\* Mutant: the status is saved by itself, without the event.
LockNothing(w) ==
    /\ writer[w].at = "loaded"
    /\ Writes(w, [writer[w] EXCEPT !.at = "locked"])
    /\ UNCHANGED <<update, lastUpdate, editor>>

\* ModifyIncident: the UPDATE of the event waits for the transactions that
\* have it.
LockEvent(w) ==
    /\ writer[w].at = "loaded"
    /\ \A v \in Writer : writer[v].at \notin {"locked", "inserted"}
    /\ Writes(w, [writer[w] EXCEPT !.at = "locked"])
    /\ UNCHANGED <<update, lastUpdate, editor>>

\* The new status gets its key.
InsertUpdate(w) ==
    /\ writer[w].at = "locked"
    /\ lastUpdate < MaxUpdates
    /\ lastUpdate' = lastUpdate + 1
    /\ Writes(w, [at |-> "inserted", copy |-> writer[w].copy, key |-> lastUpdate + 1])
    /\ UNCHANGED <<update, editor>>

\* Mutant: the session saves associations in full.
CommitAll(w) ==
    /\ writer[w].at = "inserted"
    /\ update' = [k \in DOMAIN update \cup {writer[w].key} |->
                    IF k = writer[w].key THEN FirstText
                    ELSE IF k \in DOMAIN writer[w].copy THEN writer[w].copy[k]
                    ELSE update[k]]
    /\ Writes(w, Out)
    /\ UNCHANGED <<lastUpdate, editor>>

\* COMMIT: the new row is there, and the others keep their texts.
CommitUpdate(w) ==
    /\ writer[w].at = "inserted"
    /\ update' = [k \in DOMAIN update \cup {writer[w].key} |->
                    IF k = writer[w].key THEN FirstText ELSE update[k]]
    /\ Writes(w, Out)
    /\ UNCHANGED <<lastUpdate, editor>>

\* The transaction fails, or nothing is to be saved.
Rollback(w) ==
    /\ writer[w].at # "out"
    /\ Writes(w, Out)
    /\ UNCHANGED <<update, lastUpdate, editor>>

\* The rows in the order of their keys.
ById ==
    [p \in 1..Cardinality(DOMAIN update) |->
        CHOOSE k \in DOMAIN update : Cardinality({j \in DOMAIN update : j <= k}) = p]

\* GET of the event: its updates ORDER BY id, numbered from 0.
ViewEvent ==
    /\ editor = Out
    /\ editor' = [at |-> "viewed", seen |-> ById, sorted |-> TRUE]
    /\ UNCHANGED <<update, lastUpdate, writer>>

\* A list of events: the updates of each in any order, numbered all the same.
ViewListed ==
    /\ editor = Out
    /\ \E s \in [1..Cardinality(DOMAIN update) -> DOMAIN update] :
          /\ \A p, q \in DOMAIN s : s[p] = s[q] => p = q
          /\ editor' = [at |-> "viewed", seen |-> s, sorted |-> FALSE]
    /\ UNCHANGED <<update, lastUpdate, writer>>

\* The client asks for the edit of one of those it has seen.
AskEdit ==
    /\ editor.at = "viewed"
    /\ editor' \in {Out} \cup
          {[at |-> "asked", position |-> p, want |-> editor.seen[p], sorted |-> editor.sorted] :
             p \in DOMAIN editor.seen}
    /\ UNCHANGED <<update, lastUpdate, writer>>

\* PatchEventUpdateTextHandler: GetEventUpdates, and the one at the position.
FindUpdate ==
    /\ editor.at = "asked"
    /\ editor' = IF editor.position > Len(ById) THEN Out
                 ELSE [at |-> "found", target |-> ById[editor.position],
                       want |-> editor.want, sorted |-> editor.sorted]
    /\ UNCHANGED <<update, lastUpdate, writer>>

\* ModifyEventUpdate, by its key, of its text alone.
ModifyEventUpdate ==
    /\ editor.at = "found"
    /\ \E t \in Text : update' = [update EXCEPT ![editor.target] = t]
    /\ editor' = Out
    /\ UNCHANGED <<lastUpdate, writer>>

WriterStep(w) ==
    \/ LoadEvent(w) \/ LockEvent(w) \/ InsertUpdate(w) \/ CommitUpdate(w) \/ Rollback(w)

EditorStep ==
    ViewEvent \/ ViewListed \/ AskEdit \/ FindUpdate \/ ModifyEventUpdate

-----------------------------------------------------------------------------
(* Properties *)

\* The update that an edit is about to change is the one the client saw at
\* that position of the event, whatever has been added meanwhile
\* (mapEventUpdates numbers them, GetEventUpdates counts).
EditHitsWhatWasSeen ==
    editor.at = "found" /\ editor.sorted => editor.target = editor.want

\* The text of an update changes by an edit of it only: a handler that has
\* loaded the event before the edit and saves it afterwards does not take the
\* edit back.
EditedTextStays ==
    [][\A k \in DOMAIN update :
          k \in DOMAIN update' /\
          (update'[k] # update[k] =>
              editor.at = "found" /\ editor.target = k)]_updates
===============================================================================
