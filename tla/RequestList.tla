------------------------------ MODULE RequestList ------------------------------
(***************************************************************************)
(* The request list of internal/web/static/app.js: one browser page that   *)
(* loads the list once, connects to the event stream, applies its events,  *)
(* and clears the history at the press of a button.                        *)
(*                                                                         *)
(* The page is single-threaded, so an event handler or the continuation of *)
(* an await is one action.  The store is reduced to what its API shows: an *)
(* entry is absent, pending or done, a change and its event are one step,  *)
(* and the stream of one connection delivers in order without a gap        *)
(* (EventFeed).  The page lists fewer entries than its limit of 200.       *)
(***************************************************************************)
EXTENDS Naturals, SequencesExt

CONSTANTS
    Ids,
    Busy,           \* subset of Phases: when the proxy may see traffic
    MaxInbox,       \* bound: events in flight beyond which nothing happens
    MaxDrops,       \* bound: connections lost
    MaxClears       \* bound: presses of the clear button

Phases == {"loading", "down", "clearing"}

ASSUME IdsAssumption == IsFiniteSet(Ids)
ASSUME ListAssumption ==
    Busy \subseteq Phases /\ MaxInbox \in Nat /\ MaxDrops \in Nat /\ MaxClears \in Nat

VARIABLES
    truth,      \* what the store holds
    used,       \* ids that exist or existed
    conn,       \* the EventSource: "down" or "open"
    inbox,      \* events sent on the connection, not handled yet
    drops,
    load,       \* load(): "sent", "served" or "done"
    answer,     \* the list in the answer under way
    clear,      \* the clear handler: "no", "sent" or "served"
    clears,
    shown       \* state.rows: status of each listed row

server == <<truth, used>>
stream == <<conn, inbox, drops>>
vars   == <<server, stream, load, answer, clear, clears, shown>>

Nothing == [i \in Ids |-> "absent"]
Cells   == {"absent", "pending", "done"}

Init ==
    /\ truth \in [Ids -> Cells] /\ used = {i \in Ids : truth[i] # "absent"}
    /\ conn = "down" /\ inbox = <<>> /\ drops = 0
    /\ load = "sent" /\ answer = Nothing
    /\ clear = "no" /\ clears = 0
    /\ shown = Nothing

-------------------------------------------------------------------------------
(***************************************************************************)
(* The store.  Whether it changes while the page starts (it loads the list *)
(* and opens its first connection), is disconnected or clears is what Busy *)
(* says.                                                                   *)
(***************************************************************************)
Started == load = "done" /\ (conn = "open" \/ drops > 0)

Traffic ==
    /\ Len(inbox) < MaxInbox
    /\ Started \/ "loading" \in Busy
    /\ conn = "open" \/ drops = 0 \/ "down" \in Busy
    /\ clear = "no"  \/ "clearing" \in Busy

\* The events reach the page only over an open connection.
Publish(events) == inbox' = IF conn = "open" THEN inbox \o events ELSE inbox

Event(type, id, st) == [type |-> type, id |-> id, status |-> st]

Change(id, type, st) ==
    /\ Traffic
    /\ truth' = [truth EXCEPT ![id] = st]
    /\ used' = used \cup {id}
    /\ Publish(<<Event(type, id, st)>>)
    /\ UNCHANGED <<conn, drops, load, answer, clear, clears, shown>>

Create(id) == id \notin used /\ Change(id, "created", "pending")
Finish(id) == truth[id] = "pending" /\ Change(id, "updated", "done")
Purge(id)  == truth[id] = "done" /\ Change(id, "deleted", "absent")

-------------------------------------------------------------------------------
(***************************************************************************)
(* connect: the browser opens the stream, and opens it again when it is    *)
(* lost, without telling the page to load the list again.                  *)
(***************************************************************************)
Connect ==
    /\ conn = "down"
    /\ conn' = "open"
    /\ UNCHANGED <<server, inbox, drops, load, answer, clear, clears, shown>>

\* Events in flight are lost with the connection.
Disconnect ==
    /\ conn = "open" /\ drops < MaxDrops
    /\ inbox = <<>> \/ "down" \in Busy
    /\ conn' = "down"
    /\ inbox' = <<>>
    /\ drops' = drops + 1
    /\ UNCHANGED <<server, load, answer, clear, clears, shown>>

\* Mutant: an update is dropped when the row is listed as pending.
UpsertKnown(id, st) == IF shown[id] = "pending" THEN shown ELSE [shown EXCEPT ![id] = st]

\* upsertRow: the row is added or its fields are overwritten.
UpsertRow(id, st) == [shown EXCEPT ![id] = st]

\* Mutant: the row of a deleted entry stays.
RemoveNothing(id) == shown

\* removeRow.
RemoveRow(id) == [shown EXCEPT ![id] = "absent"]

\* The listeners of "created", "updated" and "deleted".
OnEvent ==
    /\ inbox # <<>>
    /\ LET e == Head(inbox) IN
       shown' = CASE e.type = "created" -> UpsertRow(e.id, e.status)
                  [] e.type = "updated" /\ shown[e.id] # "absent" -> UpsertRow(e.id, e.status)
                  [] e.type = "deleted" -> RemoveRow(e.id)
                  [] OTHER -> shown
    /\ inbox' = Tail(inbox)
    /\ UNCHANGED <<server, conn, drops, load, answer, clear, clears>>

-------------------------------------------------------------------------------
\* load: GET /api/requests is answered by the server ...
LoadServe ==
    /\ load = "sent"
    /\ answer' = truth
    /\ load' = "served"
    /\ UNCHANGED <<server, stream, clear, clears, shown>>

\* ... and its continuation replaces the whole list.
LoadApply ==
    /\ load = "served"
    /\ shown' = answer
    /\ answer' = Nothing
    /\ load' = "done"
    /\ UNCHANGED <<server, stream, clear, clears>>

\* The clear button: DELETE /api/requests is sent ...
ClearSend ==
    /\ clear = "no" /\ clears < MaxClears /\ load = "done"
    /\ clear' = "sent"
    /\ clears' = clears + 1
    /\ UNCHANGED <<server, stream, load, answer, shown>>

\* ... Store.Clear drops the finished entries and publishes their events ...
ClearServe ==
    /\ clear = "sent"
    /\ clear' = "served"
    /\ LET done == {i \in Ids : truth[i] = "done"} IN
       /\ truth' = [i \in Ids |-> IF i \in done THEN "absent" ELSE truth[i]]
       /\ \E ids \in SetToSeqs(done) :
             Publish([k \in 1 .. Len(ids) |-> Event("deleted", ids[k], "absent")])
    /\ UNCHANGED <<used, conn, drops, load, answer, clears, shown>>

\* ... and the handler empties the list.
ClearApply ==
    /\ clear = "served"
    /\ shown' = Nothing
    /\ clear' = "no"
    /\ UNCHANGED <<server, stream, load, answer, clears>>

Next ==
    \/ \E id \in Ids : Create(id) \/ Finish(id) \/ Purge(id)
    \/ Connect \/ Disconnect \/ OnEvent
    \/ LoadServe \/ LoadApply
    \/ ClearSend \/ ClearServe \/ ClearApply

Spec == Init /\ [][Next]_vars

-------------------------------------------------------------------------------
\* The page is connected and has nothing left to handle.
AtRest == load = "done" /\ conn = "open" /\ inbox = <<>> /\ clear = "no"

(***************************************************************************)
(* The list follows the store: at rest the page shows every entry, in its  *)
(* present state, and no other.                                            *)
(***************************************************************************)
ListFollows == AtRest => shown = truth

(***************************************************************************)
(* ListFollows while the history was not cleared, a lost connection that   *)
(* missed no event included.                                               *)
(***************************************************************************)
ListWhole == clears = 0 => ListFollows

(***************************************************************************)
(* What is left of it when the history is cleared while events arrive: at  *)
(* rest a row that is listed is there, in its present state.               *)
(***************************************************************************)
ListSound == AtRest => \A id \in Ids : shown[id] \in {"absent", truth[id]}
===============================================================================
