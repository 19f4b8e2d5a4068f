---------------------------------- MODULE Page ---------------------------------
(***************************************************************************)
(* The whole page of internal/web/static/app.js: the request list, and the *)
(* detail pane that opens an entry, follows its response while it streams  *)
(* and fetches it again when it finishes, from clicks, from the address    *)
(* bar and from the composer.                                              *)
(*                                                                         *)
(* A streamed body is the sequence of its fragments 1, 2, ...; a fragment  *)
(* is stored and its delta published in one step, since events reach the   *)
(* page late anyhow.  A fetch reads what is stored when the server handles *)
(* it.  A pending entry that outgrew the inline threshold is answered with *)
(* a preview, a finished one without its body.                             *)
(***************************************************************************)
EXTENDS RequestList

CONSTANTS
    None,           \* no entry
    Inline,         \* the inline threshold, in fragments
    MaxFrags,       \* bound: fragments of a body
    MaxSelects,     \* bound: entries opened, composed ones included
    InOrder         \* do HTTP answers arrive in the order of their requests?

ASSUME PageAssumption ==
    /\ None \notin Ids
    /\ Inline \in Nat /\ MaxFrags \in Nat /\ MaxSelects \in Nat /\ InOrder \in BOOLEAN

VARIABLES
    stored,     \* fragments the store holds of each entry
    fetches,    \* requests of the pane under way, oldest first
    selects,
    selected,   \* state.selected
    detail,     \* state.detail
    live,       \* state.live
    problem     \* the entry whose error the pane shows

pane  == <<selected, detail, live, problem>>
extra == <<stored, fetches, selects, pane>>

NoDetail  == [id |-> None, done |-> FALSE, upto |-> 0, size |-> 0]
Unserved  == [id |-> None, done |-> FALSE, upto |-> 0, size |-> -1]

PageInit ==
    /\ Init
    /\ stored = [i \in Ids |-> 0]
    /\ fetches = <<>> /\ selects = 0
    /\ selected = None /\ detail = NoDetail /\ problem = None
    /\ live = [id |-> None, chunks |-> <<>>]

-------------------------------------------------------------------------------
\* AppendResponse of one fragment.
Fragment(id) ==
    /\ Traffic /\ truth[id] = "pending" /\ stored[id] < MaxFrags
    /\ stored' = [stored EXCEPT ![id] = stored[id] + 1]
    /\ Publish(<<Event("delta", id, stored[id] + 1)>>)
    /\ UNCHANGED <<server, conn, drops, load, answer, clear, clears, shown,
                   fetches, selects, pane>>

\* newDetail of the stored entry: the body, its preview, or none of it.
NewDetail(id) ==
    LET size == stored[id]
        done == truth[id] = "done"
    IN [id |-> id, done |-> done, size |-> size,
        upto |-> IF size <= Inline THEN size ELSE IF done THEN 0 ELSE Inline]

\* GET /api/requests/{id} on the server; NoDetail is the answer 404.
Serve ==
    \E k \in 1 .. Len(fetches) :
        /\ fetches[k].kind # "post" /\ fetches[k].got = Unserved
        /\ fetches' = [fetches EXCEPT ![k].got =
                          IF truth[fetches[k].id] = "absent" THEN NoDetail ELSE NewDetail(fetches[k].id)]
        /\ UNCHANGED <<vars, stored, selects, pane>>

\* POST /api/requests on the server: Replay puts a new entry.
ServePost ==
    \E k \in 1 .. Len(fetches), id \in Ids :
        /\ fetches[k].kind = "post" /\ fetches[k].id = None
        /\ Create(id)
        /\ fetches' = [fetches EXCEPT ![k].id = id, ![k].got = NoDetail]
        /\ UNCHANGED <<stored, selects, pane>>

-------------------------------------------------------------------------------
Fetch(id, kind) == [id |-> id, kind |-> kind, got |-> Unserved]

\* select: the live fragments start afresh and the entry is fetched.
Open(id, others) ==
    /\ selected' = id
    /\ live' = [id |-> id, chunks |-> <<>>]
    /\ fetches' = Append(others, Fetch(id, "open"))
    /\ UNCHANGED <<detail, problem>>

\* closeDetailSilently.
Shut == selected' = None /\ detail' = NoDetail

\* A row of the list is clicked.
Select(id) ==
    /\ shown[id] # "absent" /\ selects < MaxSelects
    /\ selects' = selects + 1
    /\ Open(id, fetches)
    /\ UNCHANGED <<vars, stored>>

\* closeDetail.
CloseDetail ==
    /\ selected # None
    /\ Shut
    /\ UNCHANGED <<vars, stored, fetches, selects, live, problem>>

(***************************************************************************)
(* routeFromLocation.  The history of the browser, which outlives a reload *)
(* of the page, may name any entry that exists or existed.                 *)
(***************************************************************************)
Route(ids) ==
    \/ \E id \in ids : Open(id, fetches)
    \/ Shut /\ UNCHANGED <<fetches, live, problem>>

\* Back or forward.
PopState ==
    /\ selects < MaxSelects
    /\ selects' = selects + 1
    /\ Route(used)
    /\ UNCHANGED <<vars, stored>>

\* The form is sent, that of openComposer or that of the open entry.
Compose ==
    /\ selects < MaxSelects
    /\ selects' = selects + 1
    /\ Shut \/ UNCHANGED <<selected, detail>>
    /\ fetches' = Append(fetches, Fetch(None, "post"))
    /\ UNCHANGED <<vars, stored, live, problem>>

\* Mutant: the refreshed body is shown in front of the fragments it contains.
RefreshedLive(f) == live

\* What an answer does to the live fragments: only a refresh resets them.
AnsweredLive(f) ==
    IF f.kind = "refresh" THEN [id |-> f.id, chunks |-> <<>>] ELSE live

(***************************************************************************)
(* The continuation of a request, whatever is selected by now.  An error   *)
(* leaves the detail as it was; that of a refresh is not shown either.     *)
(***************************************************************************)
Answer ==
    \E k \in 1 .. Len(fetches) :
        LET f == fetches[k]
            others == RemoveAt(fetches, k)
        IN /\ f.got # Unserved
           /\ InOrder => k = 1
           /\ \/ /\ f.kind = "post" /\ Open(f.id, others)
              \/ /\ f.kind # "post" /\ f.got # NoDetail
                 /\ detail' = f.got /\ live' = AnsweredLive(f) /\ problem' = None
                 /\ fetches' = others
                 /\ UNCHANGED selected
              \/ /\ f.kind # "post" /\ f.got = NoDetail
                 /\ problem' = IF f.kind = "open" THEN f.id ELSE problem
                 /\ fetches' = others
                 /\ UNCHANGED <<selected, detail, live>>
           /\ UNCHANGED <<vars, stored, selects>>

-------------------------------------------------------------------------------
\* The listener of "delta".
OnDelta(e) ==
    /\ live' = CASE selected # e.id -> live
                 [] selected = e.id /\ live.id # e.id -> [id |-> e.id, chunks |-> <<e.status>>]
                 [] OTHER -> [live EXCEPT !.chunks = Append(live.chunks, e.status)]
    /\ UNCHANGED <<fetches, selected, detail>>

\* The listener of "updated": a listed entry that is open is fetched again.
OnUpdated(e) ==
    /\ fetches' = IF shown[e.id] # "absent" /\ selected = e.id
                  THEN Append(fetches, Fetch(e.id, "refresh")) ELSE fetches
    /\ UNCHANGED <<selected, detail, live>>

\* The listener of "deleted": removeRow closes the pane of its entry.
OnDeleted(e) ==
    /\ IF selected = e.id THEN Shut ELSE UNCHANGED <<selected, detail>>
    /\ UNCHANGED <<fetches, live>>

PageOnEvent ==
    /\ OnEvent
    /\ LET e == Head(inbox) IN
       \/ e.type = "delta" /\ OnDelta(e)
       \/ e.type = "updated" /\ OnUpdated(e)
       \/ e.type = "deleted" /\ OnDeleted(e)
       \/ e.type = "created" /\ UNCHANGED <<fetches, selected, detail, live>>
    /\ UNCHANGED <<stored, selects, problem>>

\* load().then(routeFromLocation), where an entry opened meanwhile is the location.
PageLoadApply ==
    /\ LoadApply
    /\ IF selected = None THEN Route(used) ELSE Open(selected, fetches)
    /\ UNCHANGED <<stored, selects>>

\* The clear handler closes the pane with the list.
PageClearApply ==
    /\ ClearApply
    /\ Shut
    /\ UNCHANGED <<stored, fetches, selects, live, problem>>

\* What concerns the list alone.
ListStep ==
    /\ \/ \E id \in Ids : Create(id) \/ Finish(id) \/ Purge(id)
       \/ Connect \/ Disconnect \/ LoadServe \/ ClearSend \/ ClearServe
    /\ UNCHANGED extra

PageNext ==
    \/ ListStep
    \/ PageOnEvent \/ PageLoadApply \/ PageClearApply
    \/ \E id \in Ids : Fragment(id) \/ Select(id)
    \/ CloseDetail \/ PopState \/ Compose
    \/ Serve \/ ServePost \/ Answer

PageSpec == PageInit /\ [][PageNext]_<<vars, extra>>

-------------------------------------------------------------------------------
\* liveBody: the fragments on screen, in order.
OnScreen ==
    LET body == [n \in 1 .. detail.upto |-> n] IN
    IF live.id = detail.id THEN body \o live.chunks ELSE body

\* Everything the page asked for and everything sent to it has arrived.
Settled == AtRest /\ fetches = <<>> /\ selected # None

(***************************************************************************)
(* Once everything has arrived, the pane shows the entry that is selected, *)
(* which exists, or says that it does not.  A finished entry of the list   *)
(* is shown as finished, with exactly its body (each fragment once and in  *)
(* order) or, past the inline threshold, the offer to load it: although    *)
(* fetches, refreshes, deltas, clicks, a purge or a clear overlapped.      *)
(***************************************************************************)
PaneSettles ==
    Settled =>
        IF truth[selected] = "absent" THEN problem = selected
        ELSE /\ detail.id = selected /\ problem = None
             /\ truth[selected] = "done" /\ shown[selected] # "absent" =>
                   /\ detail.done /\ detail.size = stored[selected]
                   /\ OnScreen = IF detail.size <= Inline
                                 THEN [n \in 1 .. detail.size |-> n] ELSE <<>>

(***************************************************************************)
(* While the response streams the pane shows its first fragments, each     *)
(* once and in order.                                                      *)
(***************************************************************************)
PanePrefix ==
    selected # None /\ fetches = <<>> => OnScreen = [n \in 1 .. Len(OnScreen) |-> n]
===============================================================================
