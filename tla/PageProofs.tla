------------------------------ MODULE PageProofs ------------------------------
(***************************************************************************)
(* Proofs about Page: the request list follows the store and the detail    *)
(* pane the selected entry, for any number of entries, events in flight,   *)
(* lost connections, clears, selections and fetches.  The proofs assume    *)
(* what the run assumes of the environment: the proxy may see traffic      *)
(* while the history is cleared, and none while the page starts or is      *)
(* disconnected; for the pane, answers arrive in order.                    *)
(***************************************************************************)
EXTENDS Page, FiniteSetTheorems, SequenceTheorems, TLAPS

\* Traffic meets a page that is loaded and connected.
Calm == Busy \subseteq {"clearing"}

-------------------------------------------------------------------------------
(***************************************************************************)
(* Types, and the steps the page adds to those of the list.                *)
(***************************************************************************)
Kinds == {"created", "updated", "deleted", "delta"}

\* What an event of a type can state: a status, or the number of a fragment.
Stated(type) ==
    CASE type = "created" -> {"pending"}
      [] type = "updated" -> {"done"}
      [] type = "deleted" -> {"absent"}
      [] OTHER -> Nat

Events ==
    {e \in [type : Kinds, id : Ids, status : Cells \cup Nat] : e.status \in Stated(e.type)}

Typed ==
    /\ truth \in [Ids -> Cells] /\ shown \in [Ids -> Cells] /\ answer \in [Ids -> Cells]
    /\ used \subseteq Ids
    /\ conn \in {"down", "open"} /\ inbox \in Seq(Events) /\ drops \in Nat
    /\ load \in {"sent", "served", "done"}
    /\ clear \in {"no", "sent", "served"} /\ clears \in Nat
    /\ stored \in [Ids -> Nat]

\* A fragment changes nothing of the list but the events in flight.
Delta ==
    /\ Traffic
    /\ \E id \in Ids, n \in Nat : Publish(<<Event("delta", id, n)>>)
    /\ UNCHANGED <<server, conn, drops, load, answer, clear, clears, shown>>

\* What a step of the page is for the list.
LEMMA PageStep ==
    ASSUME Typed, [PageNext]_<<vars, extra>>
    PROVE  Next \/ Delta \/ UNCHANGED vars
<1>1. ASSUME NEW id \in Ids, Fragment(id) PROVE Delta
  <2>1. stored[id] + 1 \in Nat
    BY DEF Typed
  <2> QED
    BY <1>1, <2>1 DEF Fragment, Delta
<1>2. ListStep => Next
  BY DEF ListStep, Next
<1>3. PageOnEvent \/ PageLoadApply \/ PageClearApply \/ ServePost => Next
  BY DEF PageOnEvent, PageLoadApply, PageClearApply, ServePost, Next
<1>4. (\E id \in Ids : Select(id)) \/ CloseDetail \/ PopState \/ Compose \/ Serve \/ Answer
      => UNCHANGED vars
  BY DEF Select, CloseDetail, PopState, Compose, Serve, Answer
<1>5. UNCHANGED <<vars, extra>> => UNCHANGED vars
  BY DEF vars
<1> QED
  BY <1>1, <1>2, <1>3, <1>4, <1>5 DEF PageNext

\* The fragments of an entry are counted.
LEMMA StoredTyped ==
    ASSUME Typed, [PageNext]_<<vars, extra>> PROVE stored' \in [Ids -> Nat]
<1>1. ASSUME NEW id \in Ids, Fragment(id) PROVE stored' \in [Ids -> Nat]
  BY <1>1 DEF Typed, Fragment
<1>2. ListStep \/ UNCHANGED <<vars, extra>> => stored' = stored
  BY DEF ListStep, extra
<1>3. PageOnEvent \/ PageLoadApply \/ PageClearApply \/ ServePost => stored' = stored
  BY DEF PageOnEvent, PageLoadApply, PageClearApply, ServePost
<1>4. (\E id \in Ids : Select(id)) \/ CloseDetail \/ PopState \/ Compose \/ Serve \/ Answer
      => stored' = stored
  BY DEF Select, CloseDetail, PopState, Compose, Serve, Answer
<1> QED
  BY <1>1, <1>2, <1>3, <1>4 DEF PageNext, Typed

\* What is known of an event.
LEMMA EventType ==
    ASSUME NEW e \in Events
    PROVE  /\ e.type \in Kinds /\ e.id \in Ids
           /\ e.type = "created" => e.status = "pending"
           /\ e.type = "updated" => e.status = "done"
           /\ e.type = "deleted" => e.status = "absent"
BY DEF Events, Stated

\* What Event makes.
LEMMA EventMade ==
    ASSUME NEW type \in Kinds, NEW id \in Ids, NEW st \in Cells \cup Nat, st \in Stated(type)
    PROVE  /\ Event(type, id, st) \in Events
           /\ Event(type, id, st).type = type
           /\ Event(type, id, st).id = id
           /\ Event(type, id, st).status = st
BY DEF Event, Events

\* One event is sent.
LEMMA AppendOne ==
    ASSUME NEW s \in Seq(Events), NEW e \in Events
    PROVE  /\ s \o <<e>> \in Seq(Events)
           /\ Len(s) \in Nat /\ Len(s \o <<e>>) = Len(s) + 1
           /\ \A k \in 1 .. Len(s) : (s \o <<e>>)[k] = s[k]
           /\ (s \o <<e>>)[Len(s) + 1] = e
<1>1. <<e>> \in Seq(Events) /\ Len(<<e>>) = 1 /\ <<e>>[1] = e
  OBVIOUS
<1>2. Len(s) \in Nat
  BY LenProperties
<1> QED
  BY <1>1, <1>2, ConcatProperties

\* The oldest event is handled.
LEMMA TailOne ==
    ASSUME NEW s \in Seq(Events), s # <<>>
    PROVE  /\ Head(s) = s[1] /\ s[1] \in Events
           /\ Tail(s) \in Seq(Events)
           /\ Len(s) \in Nat \ {0} /\ Len(Tail(s)) = Len(s) - 1
           /\ \A k \in 1 .. Len(s) - 1 : Tail(s)[k] = s[k + 1]
BY HeadTailProperties, EmptySeq, LenProperties

\* Several events are sent.
LEMMA AppendMany ==
    ASSUME NEW s \in Seq(Events), NEW t \in Seq(Events)
    PROVE  /\ s \o t \in Seq(Events)
           /\ Len(s) \in Nat /\ Len(t) \in Nat /\ Len(s \o t) = Len(s) + Len(t)
           /\ \A k \in 1 .. Len(s) : (s \o t)[k] = s[k]
           /\ \A k \in 1 .. Len(t) : (s \o t)[Len(s) + k] = t[k]
<1>1. Len(s) \in Nat /\ Len(t) \in Nat
  BY LenProperties
<1> QED
  BY <1>1, ConcatProperties

\* The deleted events of a clear: one for each finished entry, in some order.
ClearEvents(ids) == [k \in 1 .. Len(ids) |-> Event("deleted", ids[k], "absent")]

\* They are events of the finished entries, and none is left out.
LEMMA ClearSent ==
    ASSUME NEW S \in SUBSET Ids, NEW ids \in SetToSeqs(S)
    PROVE  /\ ClearEvents(ids) \in Seq(Events)
           /\ \A k \in 1 .. Len(ClearEvents(ids)) :
                 /\ ClearEvents(ids)[k].type = "deleted" /\ ClearEvents(ids)[k].id \in S
                 /\ ClearEvents(ids)[k].status = "absent"
           /\ \A id \in S : \E k \in 1 .. Len(ClearEvents(ids)) : ClearEvents(ids)[k].id = id
<1> DEFINE n == Cardinality(S)
<1>1. IsFiniteSet(S) /\ n \in Nat
  BY IdsAssumption, FS_Subset, FS_CardinalityType
<1>2. ids \in [1 .. n -> S] /\ \A i, j \in 1 .. n : i # j => ids[i] # ids[j]
  BY DEF SetToSeqs
<1>3. Len(ids) = n
  BY <1>1, <1>2
<1>4. \A id \in S : \E k \in 1 .. n : ids[k] = id
  <2>1. ids \in Injection(1 .. n, S)
    BY <1>2 DEF Injection, IsInjective
  <2>2. IsFiniteSet(1 .. n) /\ Cardinality(1 .. n) = n
    BY <1>1, FS_Interval
  <2>3. ids \in Surjection(1 .. n, S)
    BY <1>1, <2>1, <2>2, FS_Injection
  <2> QED
    BY <2>3 DEF Surjection
<1>5. \A k \in 1 .. n : ids[k] \in S /\ ids[k] \in Ids
  BY <1>2
<1>6. /\ ClearEvents(ids) \in [1 .. n -> Events]
      /\ \A k \in 1 .. n : /\ ClearEvents(ids)[k].type = "deleted"
                           /\ ClearEvents(ids)[k].id = ids[k]
                           /\ ClearEvents(ids)[k].status = "absent"
  BY <1>3, <1>5 DEF ClearEvents, Event, Events, Kinds, Cells, Stated
<1>7. ClearEvents(ids) \in Seq(Events) /\ Len(ClearEvents(ids)) = n
  BY <1>1, <1>6
<1> QED
  BY <1>4, <1>5, <1>6, <1>7

-------------------------------------------------------------------------------
(***************************************************************************)
(* How each step of the list changes what is stored, sent and shown.       *)
(***************************************************************************)

\* The store changes only while the page is loaded and connected.
LEMMA TrafficSeen ==
    ASSUME Calm, Typed, Traffic PROVE load = "done" /\ conn = "open"
BY DEF Calm, Typed, Traffic, Started

\* An entry is created, finished or removed, and its event is sent.
Sent(id, type, st) ==
    /\ load = "done" /\ conn = "open"
    /\ \/ type = "created" /\ st = "pending" /\ id \notin used
       \/ type = "updated" /\ st = "done" /\ truth[id] = "pending"
       \/ type = "deleted" /\ st = "absent" /\ truth[id] = "done"
    /\ truth' = [truth EXCEPT ![id] = st]
    /\ used' = used \cup {id}
    /\ inbox' = inbox \o <<Event(type, id, st)>>
    /\ UNCHANGED <<conn, drops, load, answer, clear, clears, shown>>

\* The events in flight afterwards.
LEMMA SentEvents ==
    ASSUME Typed, NEW id \in Ids, NEW type \in Kinds, NEW st \in Cells, Sent(id, type, st)
    PROVE  /\ inbox' \in Seq(Events) /\ Len(inbox) \in Nat /\ Len(inbox') = Len(inbox) + 1
           /\ \A k \in 1 .. Len(inbox) : inbox'[k] = inbox[k]
           /\ inbox'[Len(inbox) + 1].type = type
           /\ inbox'[Len(inbox) + 1].id = id
           /\ inbox'[Len(inbox) + 1].status = st
<1>1. st \in Stated(type)
  BY DEF Sent, Stated
<1> QED
  BY <1>1, EventMade, AppendOne DEF Sent, Typed

\* What Create, Finish and Purge do.
LEMMA ChangeSent ==
    ASSUME Calm, Typed, NEW id \in Ids, Create(id) \/ Finish(id) \/ Purge(id)
    PROVE  \E type \in Kinds, st \in Cells : Sent(id, type, st)
<1>1. Traffic
  BY DEF Create, Finish, Purge, Change
<1>2. load = "done" /\ conn = "open"
  BY <1>1, TrafficSeen
<1>3. ASSUME Create(id) PROVE Sent(id, "created", "pending")
  BY <1>2, <1>3 DEF Create, Change, Publish, Sent
<1>4. ASSUME Finish(id) PROVE Sent(id, "updated", "done")
  BY <1>2, <1>4 DEF Finish, Change, Publish, Sent
<1>5. ASSUME Purge(id) PROVE Sent(id, "deleted", "absent")
  BY <1>2, <1>5 DEF Purge, Change, Publish, Sent
<1> QED
  BY <1>3, <1>4, <1>5 DEF Kinds, Cells

\* What Fragment does.
LEMMA DeltaSent ==
    ASSUME Calm, Typed, Delta
    PROVE  /\ load = "done" /\ conn = "open"
           /\ inbox' \in Seq(Events) /\ Len(inbox) \in Nat /\ Len(inbox') = Len(inbox) + 1
           /\ \A k \in 1 .. Len(inbox) : inbox'[k] = inbox[k]
           /\ inbox'[Len(inbox) + 1].type = "delta"
           /\ UNCHANGED <<server, conn, drops, load, answer, clear, clears, shown>>
<1>1. /\ load = "done" /\ conn = "open"
      /\ UNCHANGED <<server, conn, drops, load, answer, clear, clears, shown>>
  BY TrafficSeen DEF Delta
<1>2. PICK id \in Ids, n \in Nat : inbox' = inbox \o <<Event("delta", id, n)>>
  BY <1>1 DEF Delta, Publish
<1>3. Event("delta", id, n) \in Events /\ Event("delta", id, n).type = "delta"
  BY EventMade DEF Kinds, Stated
<1> QED
  BY <1>1, <1>2, <1>3, AppendOne DEF Typed

\* What OnEvent does to the row its event names.
Handled(e) ==
    /\ \A id \in Ids : id # e.id \/ e.type = "delta" => shown'[id] = shown[id]
    /\ e.type = "created" => shown'[e.id] = e.status
    /\ e.type = "updated" => shown'[e.id] = IF shown[e.id] = "absent" THEN "absent" ELSE e.status
    /\ e.type = "deleted" => shown'[e.id] = "absent"

\* The step of OnEvent.
LEMMA EventHandled ==
    ASSUME Typed, OnEvent
    PROVE  inbox # <<>> /\ Handled(inbox[1])
<1>1. Head(inbox) = inbox[1] /\ inbox[1] \in Events /\ inbox # <<>>
  BY TailOne DEF Typed, OnEvent
<1>2. inbox[1].type \in Kinds /\ inbox[1].id \in Ids
  BY <1>1, EventType
<1> DEFINE e == inbox[1]
<1>3. shown' = CASE e.type = "created" -> UpsertRow(e.id, e.status)
                 [] e.type = "updated" /\ shown[e.id] # "absent" -> UpsertRow(e.id, e.status)
                 [] e.type = "deleted" -> RemoveRow(e.id)
                 [] OTHER -> shown
  BY <1>1 DEF OnEvent
<1>4. CASE e.type = "created"
  BY <1>1, <1>2, <1>3, <1>4 DEF Typed, UpsertRow, Handled
<1>5. CASE e.type = "updated" /\ shown[e.id] # "absent"
  BY <1>1, <1>2, <1>3, <1>5 DEF Typed, UpsertRow, Handled
<1>6. CASE e.type = "deleted"
  BY <1>1, <1>2, <1>3, <1>6 DEF Typed, RemoveRow, Handled
<1>7. CASE e.type = "delta" \/ (e.type = "updated" /\ shown[e.id] = "absent")
  BY <1>1, <1>2, <1>3, <1>7 DEF Typed, Handled
<1> QED
  BY <1>2, <1>4, <1>5, <1>6, <1>7 DEF Kinds

\* What ClearServe does.
LEMMA ClearServed ==
    ASSUME Typed, ClearServe
    PROVE  /\ clear = "sent" /\ clear' = "served"
           /\ \A id \in Ids : truth'[id] = IF truth[id] = "done" THEN "absent" ELSE truth[id]
           /\ truth' \in [Ids -> Cells]
           /\ UNCHANGED <<used, conn, drops, load, answer, clears, shown>>
           /\ \/ conn # "open" /\ inbox' = inbox
              \/ \E t \in Seq(Events) :
                    /\ conn = "open" /\ inbox' = inbox \o t
                    /\ \A k \in 1 .. Len(t) : /\ t[k].type = "deleted" /\ t[k].status = "absent"
                                              /\ truth[t[k].id] = "done"
                    /\ \A id \in Ids : truth[id] = "done" => \E k \in 1 .. Len(t) : t[k].id = id
<1> DEFINE done == {i \in Ids : truth[i] = "done"}
<1>1. PICK ids \in SetToSeqs(done) : Publish(ClearEvents(ids))
  BY DEF ClearServe, ClearEvents
<1>2. done \in SUBSET Ids
  OBVIOUS
<1>3. /\ clear = "sent" /\ clear' = "served"
      /\ truth' = [i \in Ids |-> IF i \in done THEN "absent" ELSE truth[i]]
      /\ UNCHANGED <<used, conn, drops, load, answer, clears, shown>>
  BY DEF ClearServe
<1>4. truth' \in [Ids -> Cells]
  BY <1>3 DEF Typed, Cells
<1>5. CASE conn = "open"
  <2>1. inbox' = inbox \o ClearEvents(ids)
    BY <1>1, <1>5 DEF Publish
  <2>2. /\ ClearEvents(ids) \in Seq(Events)
        /\ \A k \in 1 .. Len(ClearEvents(ids)) :
              /\ ClearEvents(ids)[k].type = "deleted" /\ ClearEvents(ids)[k].id \in done
              /\ ClearEvents(ids)[k].status = "absent"
        /\ \A id \in done : \E k \in 1 .. Len(ClearEvents(ids)) : ClearEvents(ids)[k].id = id
    BY <1>1, <1>2, ClearSent
  <2> HIDE DEF ClearEvents
  <2> QED
    BY <1>3, <1>4, <1>5, <2>1, <2>2
<1>6. CASE conn # "open"
  BY <1>1, <1>3, <1>4, <1>6 DEF Publish
<1> QED
  BY <1>5, <1>6

\* The handled event leaves the others as they were.
LEMMA TailEvents ==
    ASSUME Typed, OnEvent
    PROVE  /\ inbox' \in Seq(Events) /\ Len(inbox) \in Nat \ {0} /\ Len(inbox') = Len(inbox) - 1
           /\ \A k \in 1 .. Len(inbox) - 1 : inbox'[k] = inbox[k + 1]
           /\ inbox[1] \in Events
           /\ UNCHANGED <<server, conn, drops, load, answer, clear, clears>>
BY TailOne DEF Typed, OnEvent

-------------------------------------------------------------------------------
(***************************************************************************)
(* The invariant that types the list and ties its phases together.         *)
(***************************************************************************)
Wired ==
    /\ conn = "down" => inbox = <<>>
    /\ load # "done" => shown = Nothing /\ inbox = <<>> /\ clear = "no" /\ clears = 0
    /\ load = "served" => answer = truth
    /\ clears = 0 => clear = "no"

\* Typed and Wired hold at the start.
LEMMA InitTyped == PageInit => Typed /\ Wired
<1> SUFFICES ASSUME PageInit PROVE Typed /\ Wired
  OBVIOUS
<1>1. Nothing \in [Ids -> Cells] /\ <<>> \in Seq(Events)
  BY DEF Nothing, Cells
<1> QED
  BY <1>1 DEF PageInit, Init, Typed, Wired

\* The variables of the list keep their types.
LEMMA ListTyped ==
    ASSUME Calm, Typed, Wired, Next \/ Delta \/ UNCHANGED vars, stored' \in [Ids -> Nat]
    PROVE  Typed' /\ Wired'
<1>0. Nothing \in [Ids -> Cells] /\ <<>> \in Seq(Events)
  BY DEF Nothing, Cells
<1>1. ASSUME NEW id \in Ids, Create(id) \/ Finish(id) \/ Purge(id) PROVE Typed' /\ Wired'
  <2>1. PICK type \in Kinds, st \in Cells : Sent(id, type, st)
    BY <1>1, ChangeSent
  <2>2. inbox' \in Seq(Events)
    BY <2>1, SentEvents
  <2> QED
    BY <2>1, <2>2 DEF Sent, Typed, Wired
<1>2. CASE Delta
  BY <1>2, DeltaSent DEF Typed, Wired, server
<1>3. CASE OnEvent
  <2>1. shown' \in [Ids -> Cells]
    <3>1. inbox[1] \in Events /\ inbox[1].status \in Cells \cup Nat /\ Head(inbox) = inbox[1]
      BY <1>3, TailOne DEF Typed, OnEvent, Events
    <3>2. inbox[1].type \in {"created", "updated"} => inbox[1].status \in Cells
      BY <3>1, EventType DEF Cells
    <3> QED
      BY <1>3, <3>1, <3>2 DEF Typed, OnEvent, UpsertRow, RemoveRow, Cells
  <2> QED
    BY <1>3, <2>1, TailEvents DEF OnEvent, Typed, Wired, server
<1>4. CASE Connect \/ Disconnect
  <2>1. CASE Connect
    BY <2>1 DEF Connect, Typed, Wired, server
  <2>2. CASE Disconnect
    <3>1. drops' \in Nat /\ inbox' = <<>> /\ inbox' \in Seq(Events)
      BY <1>0, <2>2 DEF Disconnect, Typed
    <3> QED
      BY <2>2, <3>1 DEF Disconnect, Typed, Wired, server
  <2> QED
    BY <1>4, <2>1, <2>2
<1>5. CASE LoadServe \/ LoadApply
  BY <1>0, <1>5 DEF LoadServe, LoadApply, Typed, Wired, server, stream
<1>6. CASE ClearSend \/ ClearApply
  BY <1>0, <1>6 DEF ClearSend, ClearApply, Typed, Wired, server, stream
<1>7. CASE ClearServe
  <2>1. inbox' \in Seq(Events) /\ (conn = "down" => inbox' = inbox)
    <3>1. CASE conn # "open" /\ inbox' = inbox
      BY <3>1 DEF Typed
    <3>2. ASSUME NEW t \in Seq(Events), conn = "open", inbox' = inbox \o t PROVE inbox' \in Seq(Events)
      BY <3>2, AppendMany DEF Typed
    <3> QED
      BY <1>7, <3>1, <3>2, ClearServed
  <2> QED
    BY <1>7, <2>1, ClearServed DEF Typed, Wired
<1>8. CASE UNCHANGED vars
  BY <1>8 DEF vars, server, stream, Typed, Wired
<1> QED
  BY <1>1, <1>2, <1>3, <1>4, <1>5, <1>6, <1>7, <1>8 DEF Next

\* Typed and Wired are inductive.
LEMMA NextTyped ==
    ASSUME Calm, Typed, Wired, [PageNext]_<<vars, extra>> PROVE Typed' /\ Wired'
BY PageStep, StoredTyped, ListTyped

-------------------------------------------------------------------------------
(***************************************************************************)
(* ListSound.  The last event in flight about an entry states what the     *)
(* store holds, and a row no event is in flight about is up to date or not *)
(* listed: until a clear that was served empties the list.                 *)
(***************************************************************************)

\* Event k tells the list about an entry.
About(k, id) == inbox[k].id = id /\ inbox[k].type # "delta"

Mentioned(id) == \E k \in 1 .. Len(inbox) : About(k, id)

\* An event states what the store holds, or another about its entry follows.
Current ==
    \A k \in 1 .. Len(inbox) :
        inbox[k].type # "delta" =>
            \/ inbox[k].status = truth[inbox[k].id]
            \/ \E j \in k + 1 .. Len(inbox) : About(j, inbox[k].id)

Sound ==
    load = "done" /\ clear # "served" =>
        \A id \in Ids : Mentioned(id) \/ shown[id] \in {"absent", truth[id]}

\* An entry changes and its event is sent.
LEMMA SentSound ==
    ASSUME Typed, Current, Sound, NEW id \in Ids, NEW type \in Kinds, NEW st \in Cells,
           Sent(id, type, st)
    PROVE  Current' /\ Sound'
<1>1. /\ Len(inbox) \in Nat /\ Len(inbox') = Len(inbox) + 1
      /\ \A k \in 1 .. Len(inbox) : inbox'[k] = inbox[k]
      /\ inbox'[Len(inbox) + 1].type = type /\ inbox'[Len(inbox) + 1].id = id
      /\ inbox'[Len(inbox) + 1].status = st
  BY SentEvents
<1>2. /\ type # "delta" /\ truth \in [Ids -> Cells] /\ truth' = [truth EXCEPT ![id] = st]
      /\ UNCHANGED <<load, clear, shown>>
  BY DEF Sent, Typed
<1>3. Current'
  <2> SUFFICES ASSUME NEW k \in 1 .. Len(inbox'), inbox'[k].type # "delta"
               PROVE  \/ inbox'[k].status = truth'[inbox'[k].id]
                      \/ \E j \in k + 1 .. Len(inbox') : inbox'[j].id = inbox'[k].id /\ inbox'[j].type # "delta"
    BY DEF Current, About
  <2>1. CASE k = Len(inbox) + 1
    BY <1>1, <1>2, <2>1
  <2>2. CASE k \in 1 .. Len(inbox) /\ inbox[k].id = id
    <3>1. Len(inbox) + 1 \in k + 1 .. Len(inbox')
      BY <1>1, <2>2
    <3> QED
      BY <1>1, <1>2, <2>2, <3>1
  <2>3. CASE k \in 1 .. Len(inbox) /\ inbox[k].id # id
    <3>1. inbox'[k] = inbox[k]
      BY <1>1, <2>3
    <3>2. CASE inbox[k].status = truth[inbox[k].id]
      <4>1. inbox[k].id \in Ids
        BY <2>3, ElementOfSeq, EventType DEF Typed
      <4> QED
        BY <1>2, <2>3, <3>1, <3>2, <4>1
    <3>3. ASSUME NEW j \in k + 1 .. Len(inbox), About(j, inbox[k].id)
          PROVE  \E i \in k + 1 .. Len(inbox') : inbox'[i].id = inbox'[k].id /\ inbox'[i].type # "delta"
      <4>1. j \in k + 1 .. Len(inbox') /\ inbox'[j] = inbox[j]
        BY <1>1, <2>3
      <4> QED
        BY <3>1, <3>3, <4>1 DEF About
    <3> QED
      BY <2>3, <3>1, <3>2, <3>3 DEF Current
  <2> QED
    BY <1>1, <2>1, <2>2, <2>3
<1>4. Sound'
  <2> SUFFICES ASSUME load = "done", clear # "served", NEW i \in Ids
               PROVE  Mentioned(i)' \/ shown'[i] \in {"absent", truth'[i]}
    BY <1>2 DEF Sound
  <2>1. CASE i = id
    BY <1>1, <1>2, <2>1 DEF Mentioned, About
  <2>2. CASE i # id /\ Mentioned(i)
    BY <1>1, <2>2 DEF Mentioned, About
  <2>3. CASE i # id /\ ~Mentioned(i)
    BY <1>2, <2>3 DEF Sound
  <2> QED
    BY <2>1, <2>2, <2>3
<1> QED
  BY <1>3, <1>4

\* A fragment tells the list about nothing.
LEMMA DeltaSound ==
    ASSUME Calm, Typed, Current, Sound, Delta PROVE Current' /\ Sound'
<1>1. /\ Len(inbox) \in Nat /\ Len(inbox') = Len(inbox) + 1
      /\ \A k \in 1 .. Len(inbox) : inbox'[k] = inbox[k]
      /\ inbox'[Len(inbox) + 1].type = "delta"
      /\ truth' = truth /\ UNCHANGED <<load, clear, shown>>
  BY DeltaSent DEF server
<1>2. Current'
  <2> SUFFICES ASSUME NEW k \in 1 .. Len(inbox'), inbox'[k].type # "delta"
               PROVE  \/ inbox'[k].status = truth[inbox'[k].id]
                      \/ \E j \in k + 1 .. Len(inbox') : inbox'[j].id = inbox'[k].id /\ inbox'[j].type # "delta"
    BY <1>1 DEF Current, About
  <2>1. k \in 1 .. Len(inbox) /\ inbox'[k] = inbox[k]
    BY <1>1
  <2>2. ASSUME NEW j \in k + 1 .. Len(inbox), About(j, inbox[k].id)
        PROVE  \E i \in k + 1 .. Len(inbox') : inbox'[i].id = inbox'[k].id /\ inbox'[i].type # "delta"
    <3>1. j \in k + 1 .. Len(inbox') /\ inbox'[j] = inbox[j]
      BY <1>1, <2>1
    <3> QED
      BY <2>1, <2>2, <3>1 DEF About
  <2> QED
    BY <2>1, <2>2 DEF Current
<1>3. \A id \in Ids : Mentioned(id) => Mentioned(id)'
  BY <1>1 DEF Mentioned, About
<1> QED
  BY <1>1, <1>2, <1>3 DEF Sound

\* An event is handled.
LEMMA EventSound ==
    ASSUME Typed, Current, Sound, OnEvent PROVE Current' /\ Sound'
<1>1. /\ Len(inbox) \in Nat \ {0} /\ Len(inbox') = Len(inbox) - 1
      /\ \A k \in 1 .. Len(inbox) - 1 : inbox'[k] = inbox[k + 1]
      /\ inbox[1] \in Events /\ truth' = truth /\ UNCHANGED <<load, clear>>
  BY TailEvents DEF server
<1>2. Current'
  <2> SUFFICES ASSUME NEW k \in 1 .. Len(inbox'), inbox'[k].type # "delta"
               PROVE  \/ inbox'[k].status = truth[inbox'[k].id]
                      \/ \E j \in k + 1 .. Len(inbox') : inbox'[j].id = inbox'[k].id /\ inbox'[j].type # "delta"
    BY <1>1 DEF Current, About
  <2>1. k + 1 \in 1 .. Len(inbox) /\ inbox'[k] = inbox[k + 1]
    BY <1>1
  <2>2. ASSUME NEW j \in k + 2 .. Len(inbox), About(j, inbox[k + 1].id)
        PROVE  \E i \in k + 1 .. Len(inbox') : inbox'[i].id = inbox'[k].id /\ inbox'[i].type # "delta"
    <3>1. j - 1 \in k + 1 .. Len(inbox') /\ inbox'[j - 1] = inbox[j]
      BY <1>1, <2>1
    <3> QED
      BY <2>1, <2>2, <3>1 DEF About
  <2>3. (k + 1) + 1 = k + 2
    BY <1>1
  <2> QED
    BY <2>1, <2>2, <2>3 DEF Current
<1>3. ASSUME NEW id \in Ids, NEW k \in 2 .. Len(inbox), About(k, id) PROVE Mentioned(id)'
  <2>1. k - 1 \in 1 .. Len(inbox') /\ inbox'[k - 1] = inbox[k]
    BY <1>1
  <2> QED
    BY <1>3, <2>1 DEF Mentioned, About
<1>4. Sound'
  <2> SUFFICES ASSUME load = "done", clear # "served", NEW id \in Ids, ~Mentioned(id)'
               PROVE  shown'[id] \in {"absent", truth[id]}
    BY <1>1 DEF Sound
  <2>1. CASE About(1, id)
    <3>1. \A j \in 2 .. Len(inbox) : ~About(j, id)
      BY <1>3
    <3>2. inbox[1].status = truth[id]
      BY <1>1, <2>1, <3>1 DEF Current, About
    <3>3. inbox[1].type \in Kinds
      BY <1>1, EventType
    <3> QED
      BY <2>1, <3>2, <3>3, EventHandled DEF About, Handled, Kinds
  <2>2. CASE ~About(1, id)
    <3>1. shown'[id] = shown[id]
      BY <2>2, EventHandled DEF About, Handled
    <3>2. ~Mentioned(id)
      BY <1>1, <1>3, <2>2 DEF Mentioned
    <3> QED
      BY <3>1, <3>2 DEF Sound
  <2> QED
    BY <2>1, <2>2
<1> QED
  BY <1>2, <1>4

\* A clear is served: every finished entry goes, with its event.
LEMMA ClearSound ==
    ASSUME Typed, Wired, Current, ClearServe PROVE Current' /\ Sound'
<1>1. /\ clear' = "served"
      /\ \A id \in Ids : truth'[id] = IF truth[id] = "done" THEN "absent" ELSE truth[id]
  BY ClearServed
<1>2. ASSUME conn # "open", inbox' = inbox PROVE Current'
  <2>1. inbox' = <<>>
    BY <1>2 DEF Typed, Wired
  <2> QED
    BY <2>1 DEF Current
<1>3. ASSUME NEW t \in Seq(Events), inbox' = inbox \o t,
             \A k \in 1 .. Len(t) : /\ t[k].type = "deleted" /\ t[k].status = "absent"
                                    /\ truth[t[k].id] = "done",
             \A id \in Ids : truth[id] = "done" => \E k \in 1 .. Len(t) : t[k].id = id
      PROVE  Current'
  <2>1. /\ Len(inbox) \in Nat /\ Len(t) \in Nat /\ Len(inbox') = Len(inbox) + Len(t)
        /\ \A k \in 1 .. Len(inbox) : inbox'[k] = inbox[k]
        /\ \A k \in 1 .. Len(t) : inbox'[Len(inbox) + k] = t[k]
    BY <1>3, AppendMany DEF Typed
  <2> SUFFICES ASSUME NEW k \in 1 .. Len(inbox'), inbox'[k].type # "delta"
               PROVE  \/ inbox'[k].status = truth'[inbox'[k].id]
                      \/ \E j \in k + 1 .. Len(inbox') : inbox'[j].id = inbox'[k].id /\ inbox'[j].type # "delta"
    BY DEF Current, About
  <2>2. CASE k \notin 1 .. Len(inbox)
    <3>1. k - Len(inbox) \in 1 .. Len(t) /\ inbox'[k] = t[k - Len(inbox)]
      <4>1. k - Len(inbox) \in 1 .. Len(t) /\ Len(inbox) + (k - Len(inbox)) = k
        BY <2>1, <2>2
      <4> QED
        BY <2>1, <4>1
    <3>2. t[k - Len(inbox)].id \in Ids
      BY <3>1, ElementOfSeq, EventType
    <3>3. t[k - Len(inbox)].status = "absent" /\ truth[t[k - Len(inbox)].id] = "done"
      BY <1>3, <3>1
    <3> QED
      BY <1>1, <3>1, <3>2, <3>3
  <2>3. CASE k \in 1 .. Len(inbox) /\ truth[inbox[k].id] = "done"
    <3>1. inbox[k].id \in Ids /\ inbox'[k] = inbox[k]
      BY <2>1, <2>3, ElementOfSeq, EventType DEF Typed
    <3>2. PICK m \in 1 .. Len(t) : t[m].id = inbox[k].id
      BY <1>3, <2>3, <3>1
    <3>3. Len(inbox) + m \in k + 1 .. Len(inbox') /\ inbox'[Len(inbox) + m] = t[m]
      BY <2>1, <2>3
    <3>4. t[m].type # "delta"
      BY <1>3
    <3> QED
      BY <3>1, <3>2, <3>3, <3>4
  <2>4. CASE k \in 1 .. Len(inbox) /\ truth[inbox[k].id] # "done"
    <3>1. inbox[k].id \in Ids /\ inbox'[k] = inbox[k]
      BY <2>1, <2>4, ElementOfSeq, EventType DEF Typed
    <3>2. CASE inbox[k].status = truth[inbox[k].id]
      BY <1>1, <2>4, <3>1, <3>2
    <3>3. ASSUME NEW j \in k + 1 .. Len(inbox), About(j, inbox[k].id)
          PROVE  \E i \in k + 1 .. Len(inbox') : inbox'[i].id = inbox'[k].id /\ inbox'[i].type # "delta"
      <4>1. j \in k + 1 .. Len(inbox') /\ inbox'[j] = inbox[j]
        BY <2>1, <2>4
      <4> QED
        BY <3>1, <3>3, <4>1 DEF About
    <3> QED
      BY <2>4, <3>1, <3>2, <3>3 DEF Current
  <2> QED
    BY <2>2, <2>3, <2>4
<1>4. Current'
  BY <1>2, <1>3, ClearServed
<1> QED
  BY <1>1, <1>4 DEF Sound

\* Current and Sound are inductive.
LEMMA NextSound ==
    ASSUME Calm, Typed, Wired, Current, Sound, [PageNext]_<<vars, extra>>
    PROVE  Current' /\ Sound'
<1>1. ASSUME NEW id \in Ids, Create(id) \/ Finish(id) \/ Purge(id) PROVE Current' /\ Sound'
  BY <1>1, ChangeSent, SentSound
<1>2. CASE inbox' = inbox /\ truth' = truth /\ UNCHANGED <<load, clear, shown>>
  BY <1>2 DEF Current, Sound, Mentioned, About
<1>3. CASE Connect \/ LoadServe \/ ClearSend
  <2>1. inbox' = inbox /\ truth' = truth /\ shown' = shown
    BY <1>3 DEF Connect, LoadServe, ClearSend, server, stream
  <2>2. load' = "done" /\ clear' # "served" => load = "done" /\ clear # "served"
    BY <1>3 DEF Connect, LoadServe, ClearSend
  <2> QED
    BY <2>1, <2>2 DEF Current, Sound, Mentioned, About
<1>4. CASE Disconnect
  <2>1. inbox = <<>> /\ inbox' = <<>> /\ truth' = truth /\ UNCHANGED <<load, clear, shown>>
    BY <1>4 DEF Disconnect, Calm, server
  <2> QED
    BY <1>2, <2>1
<1>5. CASE LoadApply
  <2>1. inbox' = <<>> /\ shown' = truth'
    BY <1>5 DEF LoadApply, Wired, server, stream
  <2> QED
    BY <2>1 DEF Current, Sound
<1>6. CASE ClearApply
  <2>1. inbox' = inbox /\ truth' = truth /\ shown' = Nothing
    BY <1>6 DEF ClearApply, server, stream
  <2> QED
    BY <2>1 DEF Current, Sound, About, Nothing
<1>7. UNCHANGED vars => inbox' = inbox /\ truth' = truth /\ UNCHANGED <<load, clear, shown>>
  BY DEF vars, server, stream
<1> QED
  BY <1>1, <1>2, <1>3, <1>4, <1>5, <1>6, <1>7, PageStep, DeltaSound, EventSound, ClearSound DEF Next

\* The invariant of the list.
LEMMA AlwaysSound ==
    ASSUME Calm PROVE PageSpec => [](Typed /\ Wired /\ Current /\ Sound)
<1>1. PageInit => Current /\ Sound
  BY DEF PageInit, Init, Current, Sound
<1>2. (Typed /\ Wired /\ Current /\ Sound /\ [PageNext]_<<vars, extra>>)
      => (Typed /\ Wired /\ Current /\ Sound)'
  BY NextTyped, NextSound
<1> QED
  BY <1>1, <1>2, InitTyped, PTL DEF PageSpec

(***************************************************************************)
(* A listed row is never stale at rest: whenever the page is connected and *)
(* has handled every event, a row it lists is in the store, in the state   *)
(* it shows, although the history was cleared while events arrived.  With  *)
(* no traffic while the page starts or is disconnected; for any number of  *)
(* entries and of events in flight.                                        *)
(***************************************************************************)
THEOREM PageListSound ==
    ASSUME Calm PROVE PageSpec => []ListSound
<1>1. Sound => ListSound
  BY DEF Sound, ListSound, AtRest, Mentioned
<1> QED
  BY <1>1, AlwaysSound, PTL

-------------------------------------------------------------------------------
(***************************************************************************)
(* ListWhole.  Until the history is cleared nothing is left out either: an *)
(* "updated" event, which the page ignores for an entry it does not list,  *)
(* finds its entry listed, because an entry is created, finished and       *)
(* removed once and its events arrive in that order.                       *)
(***************************************************************************)
Lived ==
    /\ \A id \in Ids : truth[id] # "absent" => id \in used
    /\ \A k \in 1 .. Len(inbox) :
          /\ inbox[k].type # "delta" => inbox[k].id \in used
          /\ inbox[k].type = "updated" => truth[inbox[k].id] # "pending"
          /\ inbox[k].type = "deleted" => truth[inbox[k].id] = "absent"

\* Nothing follows the deletion of an entry.
Ordered ==
    \A k \in 1 .. Len(inbox) : \A j \in k + 1 .. Len(inbox) :
        inbox[k].type = "deleted" => ~About(j, inbox[k].id)

\* An update finds its entry listed, or created by an event before it.
Expected ==
    \A k \in 1 .. Len(inbox) :
        inbox[k].type = "updated" =>
            \/ shown[inbox[k].id] # "absent"
            \/ \E j \in 1 .. k - 1 : inbox[j].id = inbox[k].id /\ inbox[j].type = "created"

Exact == \A id \in Ids : Mentioned(id) \/ shown[id] = truth[id]

Whole ==
    clears = 0 => Lived /\ Ordered /\ (load = "done" => Expected /\ Exact)

\* An entry changes and its event is sent.
LEMMA SentWhole ==
    ASSUME Typed, Whole, NEW id \in Ids, NEW type \in Kinds, NEW st \in Cells,
           Sent(id, type, st)
    PROVE  Whole'
<1>1. /\ Len(inbox) \in Nat /\ Len(inbox') = Len(inbox) + 1
      /\ \A k \in 1 .. Len(inbox) : inbox'[k] = inbox[k]
      /\ inbox'[Len(inbox) + 1].type = type /\ inbox'[Len(inbox) + 1].id = id
      /\ inbox'[Len(inbox) + 1].status = st
  BY SentEvents
<1>2. /\ truth \in [Ids -> Cells] /\ truth' = [truth EXCEPT ![id] = st] /\ used' = used \cup {id}
      /\ load = "done" /\ UNCHANGED <<load, clears, shown>>
      /\ \/ type = "created" /\ st = "pending" /\ id \notin used
         \/ type = "updated" /\ st = "done" /\ truth[id] = "pending"
         \/ type = "deleted" /\ st = "absent" /\ truth[id] = "done"
  BY DEF Sent, Typed
<1>3. \A k \in 1 .. Len(inbox) : inbox[k].id \in Ids /\ inbox[k].type \in Kinds
  BY ElementOfSeq, EventType DEF Typed
<1> SUFFICES ASSUME clears = 0, Lived, Ordered, Expected, Exact
             PROVE  Lived' /\ Ordered' /\ Expected' /\ Exact'
  BY <1>2 DEF Whole
<1>4. Lived'
  <2>1. \A i \in Ids : truth'[i] # "absent" => i \in used'
    BY <1>2 DEF Lived
  <2>2. ASSUME NEW k \in 1 .. Len(inbox')
        PROVE  /\ inbox'[k].type # "delta" => inbox'[k].id \in used'
               /\ inbox'[k].type = "updated" => truth'[inbox'[k].id] # "pending"
               /\ inbox'[k].type = "deleted" => truth'[inbox'[k].id] = "absent"
    <3>1. CASE k = Len(inbox) + 1
      BY <1>1, <1>2, <3>1
    <3>2. CASE k \in 1 .. Len(inbox)
      <4>1. inbox'[k] = inbox[k] /\ inbox[k].id \in Ids
        BY <1>1, <1>3, <3>2
      <4>2. /\ inbox[k].type # "delta" => inbox[k].id \in used
            /\ inbox[k].type = "updated" => truth[inbox[k].id] # "pending"
            /\ inbox[k].type = "deleted" => truth[inbox[k].id] = "absent"
        BY <3>2 DEF Lived
      <4> QED
        BY <1>2, <4>1, <4>2
    <3> QED
      BY <1>1, <3>1, <3>2
  <2> QED
    BY <2>1, <2>2 DEF Lived
<1>5. Ordered'
  <2> SUFFICES ASSUME NEW k \in 1 .. Len(inbox'), NEW j \in k + 1 .. Len(inbox'),
                      inbox'[k].type = "deleted", inbox'[j].id = inbox'[k].id,
                      inbox'[j].type # "delta"
               PROVE  FALSE
    BY DEF Ordered, About
  <2>1. k \in 1 .. Len(inbox) /\ inbox'[k] = inbox[k]
    BY <1>1
  <2>2. inbox[k].id \in used /\ truth[inbox[k].id] = "absent"
    BY <2>1 DEF Lived
  <2>3. CASE j = Len(inbox) + 1
    BY <1>1, <1>2, <2>1, <2>2, <2>3
  <2>4. CASE j \in k + 1 .. Len(inbox)
    <3>1. inbox'[j] = inbox[j]
      BY <1>1, <2>1, <2>4
    <3> QED
      BY <2>1, <2>4, <3>1 DEF Ordered, About
  <2> QED
    BY <1>1, <2>1, <2>3, <2>4
<1>6. Expected'
  <2> SUFFICES ASSUME NEW k \in 1 .. Len(inbox'), inbox'[k].type = "updated",
                      shown[inbox'[k].id] = "absent"
               PROVE  \E j \in 1 .. k - 1 : inbox'[j].id = inbox'[k].id /\ inbox'[j].type = "created"
    BY <1>2 DEF Expected
  <2>1. CASE k = Len(inbox) + 1
    <3>1. inbox'[k].id = id /\ truth[id] = "pending" /\ k - 1 = Len(inbox)
      BY <1>1, <1>2, <2>1
    <3>2. Mentioned(id)
      BY <3>1 DEF Exact
    <3>3. PICK j \in 1 .. Len(inbox) : inbox[j].id = id /\ inbox[j].type # "delta"
      BY <3>2 DEF Mentioned, About
    <3>4. inbox[j].type = "created"
      BY <1>3, <3>1, <3>3 DEF Lived, Kinds
    <3> QED
      BY <1>1, <3>1, <3>3, <3>4
  <2>2. CASE k \in 1 .. Len(inbox)
    <3>1. inbox'[k] = inbox[k]
      BY <1>1, <2>2
    <3>2. PICK j \in 1 .. k - 1 : inbox[j].id = inbox[k].id /\ inbox[j].type = "created"
      BY <2>2, <3>1 DEF Expected
    <3>3. inbox'[j] = inbox[j]
      BY <1>1, <2>2
    <3> QED
      BY <3>1, <3>2, <3>3
  <2> QED
    BY <1>1, <2>1, <2>2
<1>7. Exact'
  <2> SUFFICES ASSUME NEW i \in Ids PROVE Mentioned(i)' \/ shown[i] = truth'[i]
    BY <1>2 DEF Exact
  <2>1. CASE i = id
    BY <1>1, <1>2, <2>1 DEF Mentioned, About
  <2>2. CASE i # id /\ Mentioned(i)
    BY <1>1, <2>2 DEF Mentioned, About
  <2>3. CASE i # id /\ ~Mentioned(i)
    BY <1>2, <2>3 DEF Exact
  <2> QED
    BY <2>1, <2>2, <2>3
<1> QED
  BY <1>4, <1>5, <1>6, <1>7

\* A fragment tells the list about nothing.
LEMMA DeltaWhole ==
    ASSUME Calm, Typed, Whole, Delta PROVE Whole'
<1>1. /\ Len(inbox) \in Nat /\ Len(inbox') = Len(inbox) + 1
      /\ \A k \in 1 .. Len(inbox) : inbox'[k] = inbox[k]
      /\ inbox'[Len(inbox) + 1].type = "delta"
      /\ truth' = truth /\ used' = used /\ load = "done" /\ UNCHANGED <<load, clears, shown>>
  BY DeltaSent DEF server
<1> SUFFICES ASSUME clears = 0, Lived, Ordered, Expected, Exact
             PROVE  Lived' /\ Ordered' /\ Expected' /\ Exact'
  BY <1>1 DEF Whole
<1>2. ASSUME NEW k \in 1 .. Len(inbox'), inbox'[k].type # "delta"
      PROVE  k \in 1 .. Len(inbox) /\ inbox'[k] = inbox[k]
  BY <1>1, <1>2
<1>3. Lived'
  BY <1>1, <1>2 DEF Lived
<1>4. Ordered'
  <2> SUFFICES ASSUME NEW k \in 1 .. Len(inbox'), NEW j \in k + 1 .. Len(inbox'),
                      inbox'[k].type = "deleted", inbox'[j].id = inbox'[k].id,
                      inbox'[j].type # "delta"
               PROVE  FALSE
    BY DEF Ordered, About
  <2>1. k \in 1 .. Len(inbox) /\ inbox'[k] = inbox[k]
    BY <1>2
  <2>2. j \in 1 .. Len(inbox')
    BY <1>1
  <2>3. j \in k + 1 .. Len(inbox) /\ inbox'[j] = inbox[j]
    BY <1>1, <1>2, <2>1, <2>2
  <2> QED
    BY <2>1, <2>3 DEF Ordered, About
<1>5. Expected'
  <2> SUFFICES ASSUME NEW k \in 1 .. Len(inbox'), inbox'[k].type = "updated",
                      shown[inbox'[k].id] = "absent"
               PROVE  \E j \in 1 .. k - 1 : inbox'[j].id = inbox'[k].id /\ inbox'[j].type = "created"
    BY <1>1 DEF Expected
  <2>1. k \in 1 .. Len(inbox) /\ inbox'[k] = inbox[k]
    BY <1>2
  <2>2. PICK j \in 1 .. k - 1 : inbox[j].id = inbox[k].id /\ inbox[j].type = "created"
    BY <2>1 DEF Expected
  <2>3. inbox'[j] = inbox[j]
    BY <1>1, <2>1
  <2> QED
    BY <2>1, <2>2, <2>3
<1>6. Exact'
  <2>1. \A id \in Ids : Mentioned(id) => Mentioned(id)'
    BY <1>1 DEF Mentioned, About
  <2> QED
    BY <1>1, <2>1 DEF Exact
<1> QED
  BY <1>3, <1>4, <1>5, <1>6

\* An event is handled.
LEMMA EventWhole ==
    ASSUME Typed, Wired, Current, Whole, OnEvent PROVE Whole'
<1>1. /\ Len(inbox) \in Nat \ {0} /\ Len(inbox') = Len(inbox) - 1
      /\ \A k \in 1 .. Len(inbox) - 1 : inbox'[k] = inbox[k + 1]
      /\ inbox[1] \in Events /\ truth' = truth /\ used' = used /\ UNCHANGED <<load, clears>>
  BY TailEvents DEF server
<1>2. load = "done" /\ Handled(inbox[1]) /\ inbox[1].type \in Kinds
  BY <1>1, EventHandled, EventType DEF Wired
<1> SUFFICES ASSUME clears = 0, Lived, Ordered, Expected, Exact
             PROVE  Lived' /\ Ordered' /\ Expected' /\ Exact'
  BY <1>1, <1>2 DEF Whole
<1>3. ASSUME NEW k \in 1 .. Len(inbox')
      PROVE  k + 1 \in 2 .. Len(inbox) /\ k + 1 \in 1 .. Len(inbox) /\ inbox'[k] = inbox[k + 1]
  BY <1>1
<1>4. Lived'
  BY <1>1, <1>3 DEF Lived
<1>5. Ordered'
  <2> SUFFICES ASSUME NEW k \in 1 .. Len(inbox'), NEW j \in k + 1 .. Len(inbox'),
                      inbox'[k].type = "deleted", inbox'[j].id = inbox'[k].id,
                      inbox'[j].type # "delta"
               PROVE  FALSE
    BY DEF Ordered, About
  <2>1. k + 1 \in 1 .. Len(inbox) /\ inbox'[k] = inbox[k + 1]
    BY <1>3
  <2>2. j + 1 \in (k + 1) + 1 .. Len(inbox) /\ inbox'[j] = inbox[j + 1]
    BY <1>1
  <2> QED
    BY <2>1, <2>2 DEF Ordered, About
<1>6. Expected'
  <2> SUFFICES ASSUME NEW k \in 1 .. Len(inbox'), inbox'[k].type = "updated",
                      shown'[inbox'[k].id] = "absent"
               PROVE  \E j \in 1 .. k - 1 : inbox'[j].id = inbox'[k].id /\ inbox'[j].type = "created"
    BY DEF Expected
  <2> DEFINE id == inbox[k + 1].id
  <2>1. /\ k + 1 \in 1 .. Len(inbox) /\ k + 1 \in 2 .. Len(inbox)
        /\ inbox'[k] = inbox[k + 1] /\ (k + 1) - 1 = k
    BY <1>3
  <2>2. id \in Ids
    BY <2>1, ElementOfSeq, EventType DEF Typed
  <2>3. ~(inbox[1].type = "deleted" /\ inbox[1].id = id)
    <3>1. k + 1 \in 1 + 1 .. Len(inbox) /\ 1 \in 1 .. Len(inbox)
      BY <1>1, <2>1
    <3> QED
      BY <2>1, <3>1 DEF Ordered, About
  <2>4. inbox[1].type = "created" => inbox[1].id # id
    BY <1>1, <1>2, <2>1, EventType DEF Handled
  <2>5. shown[id] = "absent"
    BY <1>1, <1>2, <2>1, <2>2, <2>3, <2>4, EventType DEF Handled, Kinds
  <2>6. PICK j \in 1 .. k : inbox[j].id = id /\ inbox[j].type = "created"
    BY <2>1, <2>5 DEF Expected
  <2>7. j # 1
    BY <2>4, <2>6
  <2>8. j - 1 \in 1 .. k - 1 /\ inbox'[j - 1] = inbox[j]
    BY <1>1, <2>7
  <2> QED
    BY <2>1, <2>6, <2>8
<1>7. Exact'
  <2> SUFFICES ASSUME NEW id \in Ids, ~Mentioned(id)' PROVE shown'[id] = truth[id]
    BY <1>1 DEF Exact
  <2>1. ASSUME NEW k \in 2 .. Len(inbox), About(k, id) PROVE FALSE
    <3>1. k - 1 \in 1 .. Len(inbox') /\ inbox'[k - 1] = inbox[k]
      BY <1>1
    <3> QED
      BY <2>1, <3>1 DEF Mentioned, About
  <2>2. CASE About(1, id)
    <3>1. 1 \in 1 .. Len(inbox) /\ 1 + 1 = 2 /\ inbox[1].id = id /\ inbox[1].type # "delta"
      BY <1>1, <2>2 DEF About
    <3>2. inbox[1].status = truth[id]
      BY <2>1, <3>1 DEF Current
    <3>3. inbox[1].type = "updated" => shown[id] # "absent"
      BY <3>1 DEF Expected
    <3>4. inbox[1].type = "deleted" => inbox[1].status = "absent"
      BY <1>1, EventType
    <3> QED
      BY <1>2, <3>1, <3>2, <3>3, <3>4 DEF Handled, Kinds
  <2>3. CASE ~About(1, id)
    <3>1. shown'[id] = shown[id]
      BY <1>2, <2>3 DEF About, Handled
    <3>2. ~Mentioned(id)
      BY <1>1, <2>1, <2>3 DEF Mentioned
    <3> QED
      BY <3>1, <3>2 DEF Exact
  <2> QED
    BY <2>2, <2>3
<1> QED
  BY <1>4, <1>5, <1>6, <1>7

\* Whole is inductive.
LEMMA NextWhole ==
    ASSUME Calm, Typed, Wired, Current, Whole, [PageNext]_<<vars, extra>> PROVE Whole'
<1>1. ASSUME NEW id \in Ids, Create(id) \/ Finish(id) \/ Purge(id) PROVE Whole'
  BY <1>1, ChangeSent, SentWhole
<1>2. CASE inbox' = inbox /\ truth' = truth /\ used' = used /\ UNCHANGED <<load, clears, shown>>
  BY <1>2 DEF Whole, Lived, Ordered, Expected, Exact, Mentioned, About
<1>3. CASE Connect
  BY <1>2, <1>3 DEF Connect, server
<1>4. CASE Disconnect
  BY <1>2, <1>4 DEF Disconnect, Calm, server
<1>5. CASE LoadServe
  BY <1>5 DEF LoadServe, server, stream, Whole, Lived, Ordered, About
<1>6. CASE LoadApply
  <2>1. inbox = <<>> /\ inbox' = <<>> /\ shown' = truth' /\ truth' = truth /\ used' = used
        /\ clears' = clears
    BY <1>6 DEF LoadApply, Wired, server, stream
  <2> QED
    BY <2>1 DEF Whole, Lived, Ordered, Expected, Exact
<1>7. CASE ClearSend \/ ClearServe \/ ClearApply
  <2>1. clears' # 0
    BY <1>7 DEF ClearSend, ClearServe, ClearApply, Wired, Typed
  <2> QED
    BY <2>1 DEF Whole
<1>8. UNCHANGED vars
      => inbox' = inbox /\ truth' = truth /\ used' = used /\ UNCHANGED <<load, clears, shown>>
  BY DEF vars, server, stream
<1> QED
  BY <1>1, <1>2, <1>3, <1>4, <1>5, <1>6, <1>7, <1>8, PageStep, DeltaWhole, EventWhole DEF Next

(***************************************************************************)
(* Until the history is cleared, the page at rest shows exactly what the   *)
(* store holds: every entry, in its present state, and no other, after a   *)
(* lost connection that missed no event too.  With no traffic while the    *)
(* page starts or is disconnected; for any number of entries and of events *)
(* in flight.                                                              *)
(***************************************************************************)
THEOREM PageListWhole ==
    ASSUME Calm PROVE PageSpec => []ListWhole
<1>1. PageInit => Whole
  BY DEF PageInit, Init, Whole, Lived, Ordered
<1>2. (Typed /\ Wired /\ Current /\ Whole /\ [PageNext]_<<vars, extra>>) => Whole'
  BY NextWhole
<1>3. Typed /\ Whole => ListWhole
  BY DEF Typed, Whole, Exact, Mentioned, ListWhole, ListFollows, AtRest
<1> QED
  BY <1>1, <1>2, <1>3, AlwaysSound, PTL DEF PageSpec

-------------------------------------------------------------------------------
(***************************************************************************)
(* PaneSettles.  The pane is a queue of requests whose answers arrive in   *)
(* order, so what it will show is decided by the end of the queue.         *)
(***************************************************************************)
Details == [id : Ids \cup {None}, done : BOOLEAN, upto : Nat, size : Int]

Requests ==
    [id : Ids \cup {None}, kind : {"open", "refresh", "post"}, got : Details]

\* A request that leaves the selected entry s on screen.
Own(f, s) == f.kind = "post" \/ (f.kind = "refresh" /\ f.id = s)

\* The last time the pane was opened is under way, or its answer has arrived.
RoutedAt(q, s, p, d) ==
    \/ \E k \in 1 .. Len(q) :
          /\ q[k].kind = "open" /\ q[k].id = s
          /\ \A j \in k + 1 .. Len(q) : Own(q[j], s)
    \/ /\ \A k \in 1 .. Len(q) : Own(q[k], s)
       /\ p = s \/ (p = None /\ d.id = s)

\* A request that did not find its entry, or will not.
Vain(f) == f.kind = "post" \/ f.got \in {Unserved, NoDetail}

\* The pane says that the entry does not exist, or is going to.
MissingAt(q, s, p) ==
    \/ \E k \in 1 .. Len(q) :
          /\ q[k].kind = "open" /\ q[k].id = s /\ Vain(q[k])
          /\ \A j \in k + 1 .. Len(q) : Own(q[j], s) /\ Vain(q[j])
    \/ /\ \A k \in 1 .. Len(q) : Own(q[k], s) /\ Vain(q[k])
       /\ p = s

\* No live fragment is shown behind the body of s.
Clean(l, s) == l.id # s \/ l.chunks = <<>>

\* The pane shows the finished entry, or the last answer that is due will.
FinalAt(q, s, d, l) ==
    \/ \E k \in 1 .. Len(q) :
          /\ q[k].kind # "post" /\ q[k].id = s
          /\ q[k].got = Unserved \/ q[k].got.done
          /\ \A j \in k + 1 .. Len(q) : q[j].kind = "post"
          /\ q[k].kind = "refresh" \/ Clean(l, s)
    \/ /\ \A k \in 1 .. Len(q) : q[k].kind = "post"
       /\ d.id = s /\ d.done /\ Clean(l, s)

\* The answers that are no details of an entry.
LEMMA NoAnswers ==
    /\ Unserved \in Details /\ NoDetail \in Details /\ Unserved # NoDetail
    /\ NoDetail.done = FALSE /\ Unserved.id = None /\ NoDetail.id = None
BY DEF Unserved, NoDetail, Details

\* A request that was just sent.
LEMMA FetchMade ==
    ASSUME NEW id \in Ids \cup {None}, NEW kind \in {"open", "refresh", "post"}
    PROVE  /\ Fetch(id, kind) \in Requests /\ Fetch(id, kind).id = id
           /\ Fetch(id, kind).kind = kind /\ Fetch(id, kind).got = Unserved
<1>1. Unserved \in Details
  BY NoAnswers
<1> QED
  BY <1>1 DEF Fetch, Requests

\* A request is sent.
LEMMA Added ==
    ASSUME NEW q \in Seq(Requests), NEW f \in Requests
    PROVE  /\ Append(q, f) \in Seq(Requests) /\ Len(q) \in Nat /\ Len(Append(q, f)) = Len(q) + 1
           /\ \A k \in 1 .. Len(q) : Append(q, f)[k] = q[k]
           /\ Append(q, f)[Len(q) + 1] = f
BY AppendProperties, LenProperties

\* The oldest request is answered.
LEMMA Removed ==
    ASSUME NEW q \in Seq(Requests), 1 <= Len(q)
    PROVE  /\ RemoveAt(q, 1) \in Seq(Requests)
           /\ Len(q) \in Nat /\ Len(RemoveAt(q, 1)) = Len(q) - 1
           /\ \A k \in 1 .. Len(q) - 1 : RemoveAt(q, 1)[k] = q[k + 1]
           /\ q[1] \in Requests
<1>1. Len(q) \in Nat
  BY LenProperties
<1>2. q[1] \in Requests /\ \A k \in 1 .. Len(q) : q[k] \in Requests
  BY <1>1, ElementOfSeq
<1>3. SubSeq(q, 1, 0) = <<>>
  BY SubSeqEmpty
<1>4. /\ SubSeq(q, 2, Len(q)) \in Seq(Requests)
      /\ Len(SubSeq(q, 2, Len(q))) = Len(q) - 1
      /\ \A k \in 1 .. Len(q) - 1 : SubSeq(q, 2, Len(q))[k] = q[k + 1]
  <2>1. \A k \in 2 .. Len(q) : q[k] \in Requests
    BY <1>1, <1>2
  <2>2. /\ SubSeq(q, 2, Len(q)) \in Seq(Requests)
        /\ Len(SubSeq(q, 2, Len(q))) = (IF 2 <= Len(q) THEN Len(q) - 2 + 1 ELSE 0)
        /\ \A k \in 1 .. Len(q) - 2 + 1 : SubSeq(q, 2, Len(q))[k] = q[2 + k - 1]
    BY <1>1, <2>1, SubSeqProperties
  <2>3. (IF 2 <= Len(q) THEN Len(q) - 2 + 1 ELSE 0) = Len(q) - 1
        /\ Len(q) - 2 + 1 = Len(q) - 1 /\ \A k \in 1 .. Len(q) - 1 : 2 + k - 1 = k + 1
    <3>1. \A n \in Nat : 1 <= n =>
             /\ (IF 2 <= n THEN n - 2 + 1 ELSE 0) = n - 1 /\ n - 2 + 1 = n - 1
             /\ \A k \in 1 .. n - 1 : 2 + k - 1 = k + 1
      OBVIOUS
    <3> QED
      BY <1>1, <3>1
  <2> QED
    BY <2>2, <2>3
<1>5. RemoveAt(q, 1) = <<>> \o SubSeq(q, 2, Len(q))
  BY <1>3 DEF RemoveAt
<1>6. RemoveAt(q, 1) = SubSeq(q, 2, Len(q))
  BY <1>4, <1>5, ConcatEmptySeq
<1> QED
  BY <1>1, <1>2, <1>4, <1>6

-------------------------------------------------------------------------------
\* The pane is opened on an entry: its answer decides.
LEMMA OpenedQueue ==
    ASSUME NEW q \in Seq(Requests), NEW s \in Ids, NEW r, r = Append(q, Fetch(s, "open"))
    PROVE  /\ \A p, d : RoutedAt(r, s, p, d)
           /\ \A p : MissingAt(r, s, p)
           /\ \A d, l : Clean(l, s) => FinalAt(r, s, d, l)
<1>1. /\ r \in Seq(Requests) /\ Len(q) \in Nat /\ Len(r) = Len(q) + 1
      /\ r[Len(r)].kind = "open" /\ r[Len(r)].id = s /\ r[Len(r)].got = Unserved
  BY FetchMade, Added
<1>2. Len(r) \in 1 .. Len(r) /\ \A j \in Len(r) + 1 .. Len(r) : FALSE
  BY <1>1
<1> QED
  BY <1>1, <1>2 DEF RoutedAt, MissingAt, FinalAt, Vain

\* The form is sent: nothing changes for the entry on screen.
LEMMA PostedQueue ==
    ASSUME NEW q \in Seq(Requests), NEW r, r = Append(q, Fetch(None, "post")),
           NEW s, NEW p, NEW d, NEW l
    PROVE  /\ RoutedAt(q, s, p, d) => RoutedAt(r, s, p, d)
           /\ MissingAt(q, s, p) => MissingAt(r, s, p)
           /\ FinalAt(q, s, d, l) => FinalAt(r, s, d, l)
<1>1. /\ r \in Seq(Requests) /\ Len(q) \in Nat /\ Len(r) = Len(q) + 1
      /\ r[Len(q) + 1].kind = "post"
      /\ \A k \in 1 .. Len(q) : r[k] = q[k]
  BY FetchMade, Added
<1>2. ASSUME NEW k \in 1 .. Len(r) PROVE k = Len(q) + 1 \/ (k \in 1 .. Len(q) /\ r[k] = q[k])
  BY <1>1
<1>3. ASSUME NEW k \in 1 .. Len(q), NEW j \in k + 1 .. Len(r)
      PROVE  j = Len(q) + 1 \/ (j \in k + 1 .. Len(q) /\ r[j] = q[j])
  BY <1>1
<1>4. 1 .. Len(q) \subseteq 1 .. Len(r)
  BY <1>1
<1>5. Own(r[Len(q) + 1], s) /\ Vain(r[Len(q) + 1])
  BY <1>1 DEF Own, Vain
<1>6. RoutedAt(q, s, p, d) => RoutedAt(r, s, p, d)
  BY <1>1, <1>2, <1>3, <1>4, <1>5 DEF RoutedAt
<1>7. MissingAt(q, s, p) => MissingAt(r, s, p)
  BY <1>1, <1>2, <1>3, <1>4, <1>5 DEF MissingAt
<1>8. FinalAt(q, s, d, l) => FinalAt(r, s, d, l)
  BY <1>1, <1>2, <1>3, <1>4 DEF FinalAt
<1> QED
  BY <1>6, <1>7, <1>8

\* The entry on screen is fetched again: its answer decides.
LEMMA RefreshedQueue ==
    ASSUME NEW q \in Seq(Requests), NEW s \in Ids, NEW r, r = Append(q, Fetch(s, "refresh")),
           NEW p, NEW d, NEW l
    PROVE  /\ RoutedAt(q, s, p, d) => RoutedAt(r, s, p, d)
           /\ MissingAt(q, s, p) => MissingAt(r, s, p)
           /\ FinalAt(r, s, d, l)
<1>1. /\ r \in Seq(Requests) /\ Len(q) \in Nat /\ Len(r) = Len(q) + 1
      /\ r[Len(q) + 1].kind = "refresh" /\ r[Len(q) + 1].id = s /\ r[Len(q) + 1].got = Unserved
      /\ \A k \in 1 .. Len(q) : r[k] = q[k]
  BY FetchMade, Added
<1>2. ASSUME NEW k \in 1 .. Len(r) PROVE k = Len(q) + 1 \/ (k \in 1 .. Len(q) /\ r[k] = q[k])
  BY <1>1
<1>3. ASSUME NEW k \in 1 .. Len(q), NEW j \in k + 1 .. Len(r)
      PROVE  j = Len(q) + 1 \/ (j \in k + 1 .. Len(q) /\ r[j] = q[j])
  BY <1>1
<1>4. 1 .. Len(q) \subseteq 1 .. Len(r) /\ Len(q) + 1 \in 1 .. Len(r)
      /\ \A j \in (Len(q) + 1) + 1 .. Len(r) : FALSE
  BY <1>1
<1>5. Own(r[Len(q) + 1], s) /\ Vain(r[Len(q) + 1])
  BY <1>1 DEF Own, Vain
<1>6. RoutedAt(q, s, p, d) => RoutedAt(r, s, p, d)
  BY <1>1, <1>2, <1>3, <1>4, <1>5 DEF RoutedAt
<1>7. MissingAt(q, s, p) => MissingAt(r, s, p)
  BY <1>1, <1>2, <1>3, <1>4, <1>5 DEF MissingAt
<1>8. FinalAt(r, s, d, l)
  BY <1>1, <1>4 DEF FinalAt
<1> QED
  BY <1>6, <1>7, <1>8

\* The server handles a request, at any place of the queue.
LEMMA ServedQueue ==
    ASSUME NEW q \in Seq(Requests), NEW r, NEW k \in 1 .. Len(q), Len(r) = Len(q),
           \A j \in 1 .. Len(q) : j # k => r[j] = q[j],
           r[k].kind = q[k].kind, r[k].kind # "post" => r[k].id = q[k].id,
           NEW s, NEW p, NEW d, NEW l
    PROVE  /\ RoutedAt(q, s, p, d) => RoutedAt(r, s, p, d)
           /\ (r[k].kind # "post" /\ r[k].id = s => r[k].got = NoDetail) =>
                 (MissingAt(q, s, p) => MissingAt(r, s, p))
           /\ (r[k].kind # "post" /\ r[k].id = s => r[k].got.done) =>
                 (FinalAt(q, s, d, l) => FinalAt(r, s, d, l))
<1>1. Len(q) \in Nat
  BY LenProperties
<1>2. \A j \in 1 .. Len(q) :
        /\ r[j].kind = q[j].kind /\ (r[j].kind # "post" => r[j].id = q[j].id)
        /\ Own(q[j], s) => Own(r[j], s)
  BY DEF Own
<1>3. ASSUME NEW i \in 1 .. Len(q), NEW j \in i + 1 .. Len(q) PROVE j \in 1 .. Len(q)
  BY <1>1
<1>4. RoutedAt(q, s, p, d) => RoutedAt(r, s, p, d)
  BY <1>2, <1>3 DEF RoutedAt
<1>5. ASSUME r[k].kind # "post" /\ r[k].id = s => r[k].got = NoDetail, MissingAt(q, s, p)
      PROVE  MissingAt(r, s, p)
  <2>1. \A j \in 1 .. Len(q) :
          (Own(q[j], s) \/ q[j].id = s) /\ Vain(q[j]) => Vain(r[j])
    BY <1>2, <1>5 DEF Own, Vain
  <2> QED
    BY <1>2, <1>3, <1>5, <2>1 DEF MissingAt
<1>6. ASSUME r[k].kind # "post" /\ r[k].id = s => r[k].got.done, FinalAt(q, s, d, l)
      PROVE  FinalAt(r, s, d, l)
  <2>1. \A j \in 1 .. Len(q) :
          q[j].kind # "post" /\ q[j].id = s /\ (q[j].got = Unserved \/ q[j].got.done)
            => r[j].got = Unserved \/ r[j].got.done
    BY <1>2, <1>6
  <2> QED
    BY <1>2, <1>3, <1>6, <2>1 DEF FinalAt
<1> QED
  BY <1>4, <1>5, <1>6

\* The answer to the oldest request arrives, with the detail of its entry.
LEMMA AnsweredQueue ==
    ASSUME NEW q \in Seq(Requests), 1 <= Len(q), NEW r, r = RemoveAt(q, 1),
           q[1].kind # "post", q[1].got \notin {Unserved, NoDetail}, q[1].got.id = q[1].id,
           NEW s, NEW p, NEW d, NEW l,
           NEW m, m = IF q[1].kind = "refresh" THEN [id |-> q[1].id, chunks |-> <<>>] ELSE l
    PROVE  /\ RoutedAt(q, s, p, d) => RoutedAt(r, s, None, q[1].got)
           /\ MissingAt(q, s, p) => MissingAt(r, s, None)
           /\ FinalAt(q, s, d, l) => FinalAt(r, s, q[1].got, m)
<1>1. /\ Len(q) \in Nat /\ Len(r) = Len(q) - 1 /\ \A k \in 1 .. Len(r) : r[k] = q[k + 1]
      /\ 1 \in 1 .. Len(q)
  BY Removed
<1>2. ASSUME NEW k \in 1 .. Len(r) PROVE k + 1 \in 1 .. Len(q) /\ k + 1 \in 1 + 1 .. Len(q)
  BY <1>1
<1>3. ASSUME NEW k \in 1 .. Len(q), k # 1
      PROVE  /\ k - 1 \in 1 .. Len(r) /\ r[k - 1] = q[k]
             /\ \A j \in (k - 1) + 1 .. Len(r) : j + 1 \in k + 1 .. Len(q) /\ r[j] = q[j + 1]
  <2>1. k - 1 \in 1 .. Len(r) /\ (k - 1) + 1 = k
    BY <1>1, <1>3
  <2>2. ASSUME NEW j \in (k - 1) + 1 .. Len(r)
        PROVE  j + 1 \in k + 1 .. Len(q) /\ j \in 1 .. Len(r)
    BY <1>1, <1>3
  <2> QED
    BY <1>1, <2>1, <2>2
<1>4. ASSUME RoutedAt(q, s, p, d) PROVE RoutedAt(r, s, None, q[1].got)
  <2>1. ASSUME NEW k \in 1 .. Len(q), k # 1, q[k].kind = "open", q[k].id = s,
               \A j \in k + 1 .. Len(q) : Own(q[j], s)
        PROVE  RoutedAt(r, s, None, q[1].got)
    BY <1>3, <2>1 DEF RoutedAt
  <2>2. ASSUME q[1].id = s, \A j \in 1 + 1 .. Len(q) : Own(q[j], s)
        PROVE  RoutedAt(r, s, None, q[1].got)
    BY <1>1, <1>2, <2>2 DEF RoutedAt
  <2>3. ASSUME \A j \in 1 .. Len(q) : Own(q[j], s)
        PROVE  q[1].id = s /\ \A j \in 1 + 1 .. Len(q) : Own(q[j], s)
    BY <1>1, <2>3 DEF Own
  <2> QED
    BY <1>4, <2>1, <2>2, <2>3 DEF RoutedAt
<1>5. ASSUME MissingAt(q, s, p) PROVE MissingAt(r, s, None)
  <2>1. ~Vain(q[1])
    BY DEF Vain
  <2>2. PICK k \in 1 .. Len(q) :
          /\ q[k].kind = "open" /\ q[k].id = s /\ Vain(q[k])
          /\ \A j \in k + 1 .. Len(q) : Own(q[j], s) /\ Vain(q[j])
    BY <1>1, <1>5, <2>1 DEF MissingAt
  <2>3. k # 1
    BY <2>1, <2>2
  <2>4. /\ k - 1 \in 1 .. Len(r) /\ r[k - 1] = q[k]
        /\ \A j \in (k - 1) + 1 .. Len(r) : Own(r[j], s) /\ Vain(r[j])
    <3>1. /\ k - 1 \in 1 .. Len(r) /\ r[k - 1] = q[k]
          /\ \A j \in (k - 1) + 1 .. Len(r) : j + 1 \in k + 1 .. Len(q) /\ r[j] = q[j + 1]
      BY <1>3, <2>3
    <3>2. \A j \in k + 1 .. Len(q) : Own(q[j], s) /\ Vain(q[j])
      BY <2>2
    <3> QED
      BY <3>1, <3>2
  <2> QED
    BY <2>2, <2>4 DEF MissingAt
<1>6. ASSUME FinalAt(q, s, d, l) PROVE FinalAt(r, s, q[1].got, m)
  <2>1. q[1].kind = "refresh" \/ Clean(l, s) => Clean(m, s)
    BY DEF Clean
  <2>2. PICK k \in 1 .. Len(q) :
          /\ q[k].kind # "post" /\ q[k].id = s
          /\ q[k].got = Unserved \/ q[k].got.done
          /\ \A j \in k + 1 .. Len(q) : q[j].kind = "post"
          /\ q[k].kind = "refresh" \/ Clean(l, s)
    BY <1>1, <1>6 DEF FinalAt
  <2>3. CASE k = 1
    <3>1. \A j \in 1 .. Len(r) : r[j].kind = "post"
      BY <1>1, <1>2, <2>2, <2>3
    <3> QED
      BY <2>1, <2>2, <2>3, <3>1 DEF FinalAt
  <2>4. CASE k # 1
    <3>1. Clean(l, s) => Clean(m, s)
      BY <2>1
    <3>2. /\ k - 1 \in 1 .. Len(r) /\ r[k - 1] = q[k]
          /\ \A j \in (k - 1) + 1 .. Len(r) : r[j].kind = "post"
      <4>1. /\ k - 1 \in 1 .. Len(r) /\ r[k - 1] = q[k]
            /\ \A j \in (k - 1) + 1 .. Len(r) : j + 1 \in k + 1 .. Len(q) /\ r[j] = q[j + 1]
        BY <1>3, <2>4
      <4>2. \A j \in k + 1 .. Len(q) : q[j].kind = "post"
        BY <2>2
      <4> QED
        BY <4>1, <4>2
    <3> QED
      BY <2>2, <3>1, <3>2 DEF FinalAt
  <2> QED
    BY <2>3, <2>4
<1> QED
  BY <1>4, <1>5, <1>6

\* The answer to the oldest request arrives: there is no such entry.
LEMMA RefusedQueue ==
    ASSUME NEW q \in Seq(Requests), 1 <= Len(q), NEW r, r = RemoveAt(q, 1),
           q[1].kind # "post", q[1].got = NoDetail,
           NEW s, NEW p, NEW d, NEW l,
           NEW o, q[1].kind = "open" => o = q[1].id, q[1].kind # "open" => o = p
    PROVE  /\ RoutedAt(q, s, p, d) => RoutedAt(r, s, o, d)
           /\ MissingAt(q, s, p) => MissingAt(r, s, o)
           /\ FinalAt(q, s, d, l) => FinalAt(r, s, d, l)
<1>1. /\ Len(q) \in Nat /\ Len(r) = Len(q) - 1 /\ \A k \in 1 .. Len(r) : r[k] = q[k + 1]
      /\ 1 \in 1 .. Len(q)
  BY Removed
<1>2. ASSUME NEW k \in 1 .. Len(r) PROVE k + 1 \in 1 .. Len(q) /\ k + 1 \in 1 + 1 .. Len(q)
  BY <1>1
<1>3. ASSUME NEW k \in 1 .. Len(q), k # 1
      PROVE  /\ k - 1 \in 1 .. Len(r) /\ r[k - 1] = q[k]
             /\ \A j \in (k - 1) + 1 .. Len(r) : j + 1 \in k + 1 .. Len(q) /\ r[j] = q[j + 1]
  <2>1. k - 1 \in 1 .. Len(r) /\ (k - 1) + 1 = k
    BY <1>1, <1>3
  <2>2. ASSUME NEW j \in (k - 1) + 1 .. Len(r)
        PROVE  j + 1 \in k + 1 .. Len(q) /\ j \in 1 .. Len(r)
    BY <1>1, <1>3
  <2> QED
    BY <1>1, <2>1, <2>2
<1>4. ASSUME RoutedAt(q, s, p, d) PROVE RoutedAt(r, s, o, d)
  <2>1. ASSUME NEW k \in 1 .. Len(q), k # 1, q[k].kind = "open", q[k].id = s,
               \A j \in k + 1 .. Len(q) : Own(q[j], s)
        PROVE  RoutedAt(r, s, o, d)
    BY <1>3, <2>1 DEF RoutedAt
  <2>2. ASSUME q[1].kind = "open", q[1].id = s, \A j \in 1 + 1 .. Len(q) : Own(q[j], s)
        PROVE  RoutedAt(r, s, o, d)
    BY <1>1, <1>2, <2>2 DEF RoutedAt
  <2>3. ASSUME \A j \in 1 .. Len(q) : Own(q[j], s), p = s \/ (p = None /\ d.id = s)
        PROVE  RoutedAt(r, s, o, d)
    <3>1. o = p /\ \A j \in 1 .. Len(r) : Own(r[j], s)
      BY <1>1, <1>2, <2>3 DEF Own
    <3> QED
      BY <2>3, <3>1 DEF RoutedAt
  <2> QED
    BY <1>4, <2>1, <2>2, <2>3 DEF RoutedAt
<1>5. ASSUME MissingAt(q, s, p) PROVE MissingAt(r, s, o)
  <2>1. ASSUME NEW k \in 1 .. Len(q), k # 1, q[k].kind = "open", q[k].id = s, Vain(q[k]),
               \A j \in k + 1 .. Len(q) : Own(q[j], s) /\ Vain(q[j])
        PROVE  MissingAt(r, s, o)
    BY <1>3, <2>1 DEF MissingAt
  <2>2. ASSUME q[1].kind = "open", q[1].id = s,
               \A j \in 1 + 1 .. Len(q) : Own(q[j], s) /\ Vain(q[j])
        PROVE  MissingAt(r, s, o)
    BY <1>1, <1>2, <2>2 DEF MissingAt
  <2>3. ASSUME \A j \in 1 .. Len(q) : Own(q[j], s) /\ Vain(q[j]), p = s
        PROVE  MissingAt(r, s, o)
    <3>1. o = p /\ \A j \in 1 .. Len(r) : Own(r[j], s) /\ Vain(r[j])
      BY <1>1, <1>2, <2>3 DEF Own
    <3> QED
      BY <2>3, <3>1 DEF MissingAt
  <2> QED
    BY <1>5, <2>1, <2>2, <2>3 DEF MissingAt
<1>6. ASSUME FinalAt(q, s, d, l) PROVE FinalAt(r, s, d, l)
  <2>1. PICK k \in 1 .. Len(q) :
          /\ q[k].kind # "post" /\ q[k].id = s
          /\ q[k].got = Unserved \/ q[k].got.done
          /\ \A j \in k + 1 .. Len(q) : q[j].kind = "post"
          /\ q[k].kind = "refresh" \/ Clean(l, s)
    BY <1>1, <1>6 DEF FinalAt
  <2>2. k # 1
    BY <2>1, NoAnswers
  <2>3. /\ k - 1 \in 1 .. Len(r) /\ r[k - 1] = q[k]
        /\ \A j \in (k - 1) + 1 .. Len(r) : r[j].kind = "post"
    <3>1. /\ k - 1 \in 1 .. Len(r) /\ r[k - 1] = q[k]
          /\ \A j \in (k - 1) + 1 .. Len(r) : j + 1 \in k + 1 .. Len(q) /\ r[j] = q[j + 1]
      BY <1>3, <2>2
    <3>2. \A j \in k + 1 .. Len(q) : q[j].kind = "post"
      BY <2>1
    <3> QED
      BY <3>1, <3>2
  <2> QED
    BY <2>1, <2>3 DEF FinalAt
<1> QED
  BY <1>4, <1>5, <1>6
-------------------------------------------------------------------------------
(***************************************************************************)
(* The story of an entry: its id is used once, and while the store holds   *)
(* it as finished, the event that says so follows its creation and its     *)
(* fragments.                                                              *)
(***************************************************************************)
Known == \A id \in Ids : id \notin used => truth[id] = "absent" /\ shown[id] = "absent"

Follows ==
    \A k \in 1 .. Len(inbox) :
        /\ inbox[k].id \in used
        /\ inbox[k].type \in {"created", "delta"} /\ truth[inbox[k].id] = "done" =>
              \E j \in k + 1 .. Len(inbox) :
                  inbox[j].id = inbox[k].id /\ inbox[j].type = "updated"

\* What Fragment does.
LEMMA FragmentSent ==
    ASSUME Calm, Typed, NEW id \in Ids, Fragment(id)
    PROVE  /\ load = "done" /\ conn = "open" /\ truth[id] = "pending"
           /\ Len(inbox) \in Nat /\ Len(inbox') = Len(inbox) + 1
           /\ \A k \in 1 .. Len(inbox) : inbox'[k] = inbox[k]
           /\ inbox'[Len(inbox) + 1].type = "delta" /\ inbox'[Len(inbox) + 1].id = id
           /\ stored' = [stored EXCEPT ![id] = stored[id] + 1]
           /\ UNCHANGED <<truth, used, conn, drops, load, answer, clear, clears, shown,
                          fetches, selects, pane>>
<1>1. /\ load = "done" /\ conn = "open" /\ truth[id] = "pending"
      /\ stored' = [stored EXCEPT ![id] = stored[id] + 1]
      /\ UNCHANGED <<truth, used, conn, drops, load, answer, clear, clears, shown,
                     fetches, selects, pane>>
  BY TrafficSeen DEF Fragment, server
<1>2. inbox' = inbox \o <<Event("delta", id, stored[id] + 1)>> /\ stored[id] + 1 \in Nat
  BY <1>1 DEF Fragment, Publish, Typed
<1>3. /\ Event("delta", id, stored[id] + 1) \in Events
      /\ Event("delta", id, stored[id] + 1).type = "delta"
      /\ Event("delta", id, stored[id] + 1).id = id
  BY <1>2, EventMade DEF Kinds, Stated
<1> QED
  BY <1>1, <1>2, <1>3, AppendOne DEF Typed

\* A step of the page, for the list and the store.
LEMMA PageKinds ==
    ASSUME [PageNext]_<<vars, extra>>
    PROVE  Next \/ (\E id \in Ids : Fragment(id)) \/ UNCHANGED vars
<1>1. ListStep => Next
  BY DEF ListStep, Next
<1>2. PageOnEvent \/ PageLoadApply \/ PageClearApply \/ ServePost => Next
  BY DEF PageOnEvent, PageLoadApply, PageClearApply, ServePost, Next
<1>3. (\E id \in Ids : Select(id)) \/ CloseDetail \/ PopState \/ Compose \/ Serve \/ Answer
      => UNCHANGED vars
  BY DEF Select, CloseDetail, PopState, Compose, Serve, Answer
<1>4. UNCHANGED <<vars, extra>> => UNCHANGED vars
  BY DEF vars
<1> QED
  BY <1>1, <1>2, <1>3, <1>4 DEF PageNext

\* An entry changes and its event is sent.
LEMMA SentStory ==
    ASSUME Typed, Known, Follows, NEW id \in Ids, NEW type \in Kinds, NEW st \in Cells,
           Sent(id, type, st)
    PROVE  Known' /\ Follows'
<1>1. /\ Len(inbox) \in Nat /\ Len(inbox') = Len(inbox) + 1
      /\ \A k \in 1 .. Len(inbox) : inbox'[k] = inbox[k]
      /\ inbox'[Len(inbox) + 1].type = type /\ inbox'[Len(inbox) + 1].id = id
  BY SentEvents
<1>2. /\ truth \in [Ids -> Cells] /\ truth' = [truth EXCEPT ![id] = st] /\ used' = used \cup {id}
      /\ shown' = shown
      /\ \/ type = "created" /\ st = "pending" /\ id \notin used
         \/ type = "updated" /\ st = "done" /\ truth[id] = "pending"
         \/ type = "deleted" /\ st = "absent" /\ truth[id] = "done"
  BY DEF Sent, Typed
<1>3. \A k \in 1 .. Len(inbox) : inbox[k].id \in Ids
  BY ElementOfSeq, EventType DEF Typed
<1>4. Known'
  BY <1>2 DEF Known
<1>5. Follows'
  <2> SUFFICES ASSUME NEW k \in 1 .. Len(inbox')
               PROVE  /\ inbox'[k].id \in used'
                      /\ inbox'[k].type \in {"created", "delta"} /\ truth'[inbox'[k].id] = "done" =>
                            \E j \in k + 1 .. Len(inbox') :
                                inbox'[j].id = inbox'[k].id /\ inbox'[j].type = "updated"
    BY DEF Follows
  <2>1. CASE k = Len(inbox) + 1
    BY <1>1, <1>2, <2>1 DEF Sent, Kinds
  <2>2. CASE k \in 1 .. Len(inbox)
    <3>1. inbox'[k] = inbox[k] /\ inbox[k].id \in Ids /\ inbox[k].id \in used
      BY <1>1, <1>3, <2>2 DEF Follows
    <3>2. CASE inbox[k].id = id /\ type = "updated"
      <4>1. Len(inbox) + 1 \in k + 1 .. Len(inbox')
        BY <1>1, <2>2
      <4> QED
        BY <1>1, <1>2, <3>1, <3>2, <4>1
    <3>3. CASE inbox[k].id = id /\ type # "updated"
      BY <1>2, <3>1, <3>3
    <3>4. CASE inbox[k].id # id
      <4>1. \A j \in k + 1 .. Len(inbox) : j \in k + 1 .. Len(inbox') /\ inbox'[j] = inbox[j]
        BY <1>1, <2>2
      <4>2. truth'[inbox[k].id] = truth[inbox[k].id]
        BY <1>2, <3>1, <3>4
      <4> QED
        BY <1>2, <2>2, <3>1, <4>1, <4>2 DEF Follows
    <3> QED
      BY <3>2, <3>3, <3>4
  <2> QED
    BY <1>1, <2>1, <2>2
<1> QED
  BY <1>4, <1>5

\* A fragment is sent of an entry that is pending.
LEMMA FragmentStory ==
    ASSUME Calm, Typed, Known, Follows, NEW id \in Ids, Fragment(id) PROVE Known' /\ Follows'
<1>1. /\ truth[id] = "pending"
      /\ Len(inbox) \in Nat /\ Len(inbox') = Len(inbox) + 1
      /\ \A k \in 1 .. Len(inbox) : inbox'[k] = inbox[k]
      /\ inbox'[Len(inbox) + 1].type = "delta" /\ inbox'[Len(inbox) + 1].id = id
      /\ truth' = truth /\ used' = used /\ shown' = shown
  BY FragmentSent
<1>2. id \in used
  BY <1>1 DEF Known
<1>3. Known'
  BY <1>1 DEF Known
<1>4. Follows'
  <2> SUFFICES ASSUME NEW k \in 1 .. Len(inbox')
               PROVE  /\ inbox'[k].id \in used
                      /\ inbox'[k].type \in {"created", "delta"} /\ truth[inbox'[k].id] = "done" =>
                            \E j \in k + 1 .. Len(inbox') :
                                inbox'[j].id = inbox'[k].id /\ inbox'[j].type = "updated"
    BY <1>1 DEF Follows
  <2>1. CASE k = Len(inbox) + 1
    BY <1>1, <1>2, <2>1
  <2>2. CASE k \in 1 .. Len(inbox)
    <3>1. inbox'[k] = inbox[k]
      BY <1>1, <2>2
    <3>2. \A j \in k + 1 .. Len(inbox) : j \in k + 1 .. Len(inbox') /\ inbox'[j] = inbox[j]
      BY <1>1, <2>2
    <3> QED
      BY <2>2, <3>1, <3>2 DEF Follows
  <2> QED
    BY <1>1, <2>1, <2>2
<1> QED
  BY <1>3, <1>4

\* An event is handled.
LEMMA EventStory ==
    ASSUME Typed, Known, Follows, OnEvent PROVE Known' /\ Follows'
<1>1. /\ Len(inbox) \in Nat \ {0} /\ Len(inbox') = Len(inbox) - 1
      /\ \A k \in 1 .. Len(inbox) - 1 : inbox'[k] = inbox[k + 1]
      /\ inbox[1] \in Events /\ truth' = truth /\ used' = used
  BY TailEvents DEF server
<1>2. Handled(inbox[1]) /\ inbox[1].type \in Kinds
  BY <1>1, EventHandled, EventType
<1>3. inbox[1].id \in used
  BY <1>1 DEF Follows
<1>4. Known'
  BY <1>1, <1>2, <1>3 DEF Known, Handled
<1>5. Follows'
  <2> SUFFICES ASSUME NEW k \in 1 .. Len(inbox')
               PROVE  /\ inbox'[k].id \in used
                      /\ inbox'[k].type \in {"created", "delta"} /\ truth[inbox'[k].id] = "done" =>
                            \E j \in k + 1 .. Len(inbox') :
                                inbox'[j].id = inbox'[k].id /\ inbox'[j].type = "updated"
    BY <1>1 DEF Follows
  <2>1. k + 1 \in 1 .. Len(inbox) /\ inbox'[k] = inbox[k + 1]
    BY <1>1
  <2>2. ASSUME NEW j \in (k + 1) + 1 .. Len(inbox)
        PROVE  j - 1 \in k + 1 .. Len(inbox') /\ inbox'[j - 1] = inbox[j]
    BY <1>1
  <2> QED
    BY <2>1, <2>2 DEF Follows
<1> QED
  BY <1>4, <1>5

\* The history is cleared.
LEMMA ClearStory ==
    ASSUME Typed, Known, Follows, ClearServe PROVE Known' /\ Follows'
<1>1. /\ \A id \in Ids : truth'[id] = IF truth[id] = "done" THEN "absent" ELSE truth[id]
      /\ used' = used /\ shown' = shown
  BY ClearServed
<1>2. Known'
  BY <1>1 DEF Known
<1>3. \A k \in 1 .. Len(inbox) : inbox[k].id \in used /\ inbox[k].id \in Ids
  BY ElementOfSeq, EventType DEF Typed, Follows
<1>4. ASSUME \A k \in 1 .. Len(inbox') : inbox'[k].id \in used /\ inbox'[k].id \in Ids PROVE Follows'
  <2>1. \A k \in 1 .. Len(inbox') : truth'[inbox'[k].id] # "done"
    BY <1>1, <1>4
  <2> QED
    BY <1>1, <1>4, <2>1 DEF Follows
<1>5. ASSUME inbox' = inbox PROVE Follows'
  <2>1. \A k \in 1 .. Len(inbox') : inbox'[k].id \in used /\ inbox'[k].id \in Ids
    BY <1>3, <1>5
  <2> QED
    BY <1>4, <2>1
<1>6. ASSUME NEW t \in Seq(Events), inbox' = inbox \o t,
             \A k \in 1 .. Len(t) : truth[t[k].id] = "done"
      PROVE  Follows'
  <2>1. /\ Len(inbox) \in Nat /\ Len(t) \in Nat /\ Len(inbox') = Len(inbox) + Len(t)
        /\ \A k \in 1 .. Len(inbox) : inbox'[k] = inbox[k]
        /\ \A k \in 1 .. Len(t) : inbox'[Len(inbox) + k] = t[k]
    BY <1>6, AppendMany DEF Typed
  <2>2. \A k \in 1 .. Len(t) : t[k].id \in Ids
    BY <1>6, ElementOfSeq, EventType
  <2>3. \A k \in 1 .. Len(t) : t[k].id \in used
    BY <1>6, <2>2 DEF Known
  <2>4. ASSUME NEW k \in 1 .. Len(inbox') PROVE inbox'[k].id \in used /\ inbox'[k].id \in Ids
    <3>1. CASE k \in 1 .. Len(inbox)
      BY <1>3, <2>1, <3>1
    <3>2. CASE k \notin 1 .. Len(inbox)
      <4>1. k - Len(inbox) \in 1 .. Len(t) /\ Len(inbox) + (k - Len(inbox)) = k
        BY <2>1, <3>2
      <4> QED
        BY <2>1, <2>2, <2>3, <4>1
    <3> QED
      BY <3>1, <3>2
  <2> QED
    BY <1>4, <2>4
<1> QED
  BY <1>2, <1>5, <1>6, ClearServed

\* The story is an invariant.
LEMMA NextStory ==
    ASSUME Calm, Typed, Wired, Known, Follows, [PageNext]_<<vars, extra>> PROVE Known' /\ Follows'
<1>1. ASSUME NEW id \in Ids, Create(id) \/ Finish(id) \/ Purge(id) PROVE Known' /\ Follows'
  BY <1>1, ChangeSent, SentStory
<1>2. CASE inbox' = inbox /\ truth' = truth /\ used' = used /\ shown' = shown
  BY <1>2 DEF Known, Follows
<1>3. CASE Connect
  BY <1>2, <1>3 DEF Connect, server
<1>4. CASE Disconnect
  BY <1>2, <1>4 DEF Disconnect, Calm, server
<1>5. CASE LoadServe \/ ClearSend
  BY <1>2, <1>5 DEF LoadServe, ClearSend, server, stream
<1>6. CASE LoadApply
  BY <1>6 DEF LoadApply, Wired, server, stream, Known, Follows
<1>7. CASE ClearApply
  BY <1>7 DEF ClearApply, server, stream, Nothing, Known, Follows
<1>8. CASE UNCHANGED vars
  BY <1>2, <1>8 DEF vars, server, stream
<1>9. ASSUME NEW id \in Ids, Fragment(id) PROVE Known' /\ Follows'
  BY <1>9, FragmentStory
<1> QED
  BY <1>1, <1>3, <1>4, <1>5, <1>6, <1>7, <1>8, <1>9, PageKinds, EventStory, ClearStory DEF Next

\* What an entry has come to stays, and the body of a finished one too.
LEMMA Moved ==
    ASSUME Calm, Typed, Known, [PageNext]_<<vars, extra>>, NEW id \in used
    PROVE  /\ id \in used'
           /\ truth[id] = "absent" => truth'[id] = "absent"
           /\ truth[id] # "pending" => truth'[id] # "pending" /\ stored'[id] = stored[id]
<1>0. id \in Ids
  BY DEF Typed
<1>1. id \in used' /\ (truth[id] = "absent" => truth'[id] = "absent")
      /\ (truth[id] # "pending" => truth'[id] # "pending")
  <2>1. ASSUME NEW i \in Ids, Create(i) \/ Finish(i) \/ Purge(i)
        PROVE  /\ id \in used' /\ (truth[id] = "absent" => truth'[id] = "absent")
               /\ (truth[id] # "pending" => truth'[id] # "pending")
    <3>1. PICK type \in Kinds, st \in Cells : Sent(i, type, st)
      BY <2>1, ChangeSent
    <3> QED
      BY <1>0, <3>1 DEF Sent, Typed
  <2>2. CASE truth' = truth /\ used' = used
    BY <2>2
  <2>3. Connect \/ Disconnect \/ OnEvent \/ LoadServe \/ LoadApply \/ ClearSend \/ ClearApply
        \/ UNCHANGED vars => truth' = truth /\ used' = used
    BY DEF Connect, Disconnect, OnEvent, LoadServe, LoadApply, ClearSend, ClearApply, vars, server
  <2>4. CASE ClearServe
    BY <1>0, <2>4, ClearServed
  <2>5. (\E i \in Ids : Fragment(i)) => truth' = truth /\ used' = used
    BY FragmentSent
  <2> QED
    BY <2>1, <2>2, <2>3, <2>4, <2>5, PageKinds DEF Next
<1>2. ASSUME truth[id] # "pending" PROVE stored'[id] = stored[id]
  <2>1. ASSUME NEW i \in Ids, Fragment(i) PROVE stored'[id] = stored[id]
    BY <1>0, <1>2, <2>1, FragmentSent DEF Typed
  <2>2. ListStep \/ UNCHANGED <<vars, extra>> => stored' = stored
    BY DEF ListStep, extra
  <2>3. PageOnEvent \/ PageLoadApply \/ PageClearApply \/ ServePost => stored' = stored
    BY DEF PageOnEvent, PageLoadApply, PageClearApply, ServePost
  <2>4. (\E i \in Ids : Select(i)) \/ CloseDetail \/ PopState \/ Compose \/ Serve \/ Answer
        => stored' = stored
    BY DEF Select, CloseDetail, PopState, Compose, Serve, Answer
  <2> QED
    BY <2>1, <2>2, <2>3, <2>4 DEF PageNext
<1> QED
  BY <1>1, <1>2
-------------------------------------------------------------------------------
(***************************************************************************)
(* What the pane's requests and its contents have to do with the store.    *)
(***************************************************************************)
\* The detail of an entry; that of a finished one is the last word on it.
Told(d, id, T, S) ==
    /\ d.id = id /\ d.size \in Nat
    /\ d.done => /\ T[id] # "pending" /\ d.size = S[id]
                 /\ d.upto = IF d.size <= Inline THEN d.size ELSE 0

\* A request of the pane, with its answer once it has been served.
Asked(f, T, S, U) ==
    /\ f.kind # "post" =>
          /\ f.id \in U
          /\ \/ f.got = Unserved
             \/ f.got = NoDetail /\ T[f.id] = "absent"
             \/ f.got \notin {Unserved, NoDetail} /\ Told(f.got, f.id, T, S)
    /\ f.kind = "post" => (f.id = None /\ f.got = Unserved) \/ (f.id \in U /\ f.got = NoDetail)

AllAsked(q, T, S, U) ==
    q \in Seq(Requests) /\ \A k \in 1 .. Len(q) : Asked(q[k], T, S, U)

PaneTyped ==
    /\ AllAsked(fetches, truth, stored, used)
    /\ selected \in used \cup {None}
    /\ problem # None => problem \in used /\ truth[problem] = "absent"
    /\ detail \in Details
    /\ detail.id # None => detail.id \in used /\ Told(detail, detail.id, truth, stored)

\* Replacing a field of one request.
LEMMA GotReplaced ==
    ASSUME NEW q \in Seq(Requests), NEW k \in 1 .. Len(q), NEW g \in Details,
           NEW r, r = [q EXCEPT ![k].got = g]
    PROVE  /\ r \in Seq(Requests) /\ Len(r) = Len(q)
           /\ \A j \in 1 .. Len(q) : j # k => r[j] = q[j]
           /\ r[k].kind = q[k].kind /\ r[k].id = q[k].id /\ r[k].got = g
<1>1. q[k] \in Requests /\ Len(q) \in Nat
  BY ElementOfSeq, LenProperties
<1>2. PICK f : f = [q[k] EXCEPT !.got = g]
  OBVIOUS
<1>3. f \in Requests /\ f.kind = q[k].kind /\ f.id = q[k].id /\ f.got = g
  BY <1>1, <1>2 DEF Requests
<1>4. r = [q EXCEPT ![k] = f]
  BY <1>2
<1> QED
  BY <1>1, <1>3, <1>4

LEMMA IdReplaced ==
    ASSUME NEW q \in Seq(Requests), NEW k \in 1 .. Len(q), NEW id \in Ids,
           NEW r, r = [q EXCEPT ![k].id = id]
    PROVE  /\ r \in Seq(Requests) /\ Len(r) = Len(q)
           /\ \A j \in 1 .. Len(q) : j # k => r[j] = q[j]
           /\ r[k].kind = q[k].kind /\ r[k].id = id /\ r[k].got = q[k].got
<1>1. q[k] \in Requests /\ Len(q) \in Nat
  BY ElementOfSeq, LenProperties
<1>2. PICK f : f = [q[k] EXCEPT !.id = id]
  OBVIOUS
<1>3. f \in Requests /\ f.kind = q[k].kind /\ f.id = id /\ f.got = q[k].got
  BY <1>1, <1>2 DEF Requests
<1>4. r = [q EXCEPT ![k] = f]
  BY <1>2
<1> QED
  BY <1>1, <1>3, <1>4

\* A request that was just sent has no answer yet.
LEMMA AskedAppend ==
    ASSUME NEW q, NEW T, NEW S, NEW U, AllAsked(q, T, S, U),
           NEW id, NEW kind,
           \/ id \in Ids /\ id \in U /\ kind \in {"open", "refresh"}
           \/ id = None /\ kind = "post"
    PROVE  AllAsked(Append(q, Fetch(id, kind)), T, S, U)
<1> DEFINE f == Fetch(id, kind)
<1>1. f \in Requests /\ f.id = id /\ f.kind = kind /\ f.got = Unserved
  BY FetchMade
<1>2. Asked(f, T, S, U)
  BY <1>1 DEF Asked
<1> HIDE DEF f
<1>3. /\ q \in Seq(Requests) /\ Append(q, f) \in Seq(Requests) /\ Len(q) \in Nat
      /\ Len(Append(q, f)) = Len(q) + 1
      /\ \A k \in 1 .. Len(q) : Append(q, f)[k] = q[k]
      /\ Append(q, f)[Len(q) + 1] = f
  BY <1>1, Added DEF AllAsked
<1>4. ASSUME NEW k \in 1 .. Len(Append(q, f)) PROVE Asked(Append(q, f)[k], T, S, U)
  <2>1. k \in 1 .. Len(q) \/ k = Len(q) + 1
    BY <1>3
  <2> QED
    BY <1>2, <1>3, <2>1 DEF AllAsked
<1> QED
  BY <1>3, <1>4 DEF AllAsked, f

\* An answered request leaves the others.
LEMMA AskedRemove ==
    ASSUME NEW q, NEW T, NEW S, NEW U, AllAsked(q, T, S, U), 1 <= Len(q)
    PROVE  AllAsked(RemoveAt(q, 1), T, S, U)
<1>1. /\ RemoveAt(q, 1) \in Seq(Requests)
      /\ Len(q) \in Nat /\ Len(RemoveAt(q, 1)) = Len(q) - 1
      /\ \A k \in 1 .. Len(q) - 1 : RemoveAt(q, 1)[k] = q[k + 1]
  BY Removed DEF AllAsked
<1>2. ASSUME NEW k \in 1 .. Len(RemoveAt(q, 1)) PROVE Asked(RemoveAt(q, 1)[k], T, S, U)
  <2>1. k \in 1 .. Len(q) - 1 /\ k + 1 \in 1 .. Len(q)
    BY <1>1
  <2> QED
    BY <1>1, <2>1 DEF AllAsked
<1> QED
  BY <1>1, <1>2 DEF AllAsked

\* One request is served.
LEMMA AskedServe ==
    ASSUME NEW q, NEW T, NEW S, NEW U, AllAsked(q, T, S, U), NEW k \in 1 .. Len(q),
           NEW r \in Seq(Requests), Len(r) = Len(q),
           \A j \in 1 .. Len(q) : j # k => r[j] = q[j], Asked(r[k], T, S, U)
    PROVE  AllAsked(r, T, S, U)
BY DEF AllAsked

\* What was asked and told stays true while the store changes.
LEMMA AskedKept ==
    ASSUME Calm, Typed, Known, PaneTyped, [PageNext]_<<vars, extra>>
    PROVE  /\ AllAsked(fetches, truth', stored', used')
           /\ used \subseteq used'
           /\ problem # None => problem \in used' /\ truth'[problem] = "absent"
           /\ detail.id # None => detail.id \in used' /\ Told(detail, detail.id, truth', stored')
<1>1. ASSUME NEW id \in used
      PROVE  /\ id \in used'
             /\ truth[id] = "absent" => truth'[id] = "absent"
             /\ truth[id] # "pending" => truth'[id] # "pending" /\ stored'[id] = stored[id]
  BY Moved
<1>2. ASSUME NEW d, NEW id \in used, Told(d, id, truth, stored) PROVE Told(d, id, truth', stored')
  BY <1>1, <1>2 DEF Told
<1>3. ASSUME NEW f, Asked(f, truth, stored, used) PROVE Asked(f, truth', stored', used')
  BY <1>1, <1>2, <1>3 DEF Asked
<1> QED
  BY <1>1, <1>2, <1>3 DEF PaneTyped, AllAsked

\* newDetail, of an entry the store holds.
LEMMA DetailMade ==
    ASSUME Typed, NEW id \in Ids
    PROVE  /\ NewDetail(id) \in Details /\ NewDetail(id) \notin {Unserved, NoDetail}
           /\ Told(NewDetail(id), id, truth, stored)
           /\ NewDetail(id).done = (truth[id] = "done")
<1>1. stored[id] \in Nat /\ Inline \in Nat /\ None \notin Ids
  BY PageAssumption DEF Typed
<1>2. PICK d : d = NewDetail(id)
  OBVIOUS
<1>3. /\ d.id = id /\ d.done = (truth[id] = "done") /\ d.size = stored[id]
      /\ d.upto = IF stored[id] <= Inline THEN stored[id]
                  ELSE IF truth[id] = "done" THEN 0 ELSE Inline
  BY <1>2 DEF NewDetail
<1>4. d \in Details
  BY <1>1, <1>2 DEF NewDetail, Details
<1>5. d \notin {Unserved, NoDetail}
  BY <1>1, <1>3, NoAnswers
<1>6. Told(d, id, truth, stored)
  BY <1>1, <1>3 DEF Told
<1> QED
  BY <1>2, <1>3, <1>4, <1>5, <1>6
\* What Serve does.
LEMMA ServeEffect ==
    ASSUME Typed, PaneTyped, Serve
    PROVE  /\ UNCHANGED <<vars, stored, selects, pane>>
           /\ \E k \in 1 .. Len(fetches) :
                 /\ fetches' \in Seq(Requests) /\ Len(fetches') = Len(fetches)
                 /\ \A j \in 1 .. Len(fetches) : j # k => fetches'[j] = fetches[j]
                 /\ fetches'[k].kind = fetches[k].kind /\ fetches'[k].id = fetches[k].id
                 /\ fetches[k].kind # "post" /\ fetches[k].id \in used
                 /\ fetches'[k].got = IF truth[fetches[k].id] = "absent" THEN NoDetail
                                      ELSE NewDetail(fetches[k].id)
<1>1. /\ UNCHANGED <<vars, stored, selects, pane>>
      /\ \E k \in 1 .. Len(fetches) :
            /\ fetches[k].kind # "post"
            /\ fetches' = [fetches EXCEPT ![k].got =
                   IF truth[fetches[k].id] = "absent" THEN NoDetail ELSE NewDetail(fetches[k].id)]
  BY Zenon DEF Serve
<1>2. PICK k \in 1 .. Len(fetches) :
        /\ fetches[k].kind # "post"
        /\ fetches' = [fetches EXCEPT ![k].got =
               IF truth[fetches[k].id] = "absent" THEN NoDetail ELSE NewDetail(fetches[k].id)]
  BY <1>1
<1>3. PICK g : g = IF truth[fetches[k].id] = "absent" THEN NoDetail ELSE NewDetail(fetches[k].id)
  OBVIOUS
<1>4. fetches \in Seq(Requests) /\ fetches[k].id \in used /\ used \subseteq Ids
  BY <1>2 DEF PaneTyped, AllAsked, Asked, Typed
<1>5. g \in Details
  BY <1>3, <1>4, NoAnswers, DetailMade
<1>6. fetches' = [fetches EXCEPT ![k].got = g]
  BY <1>2, <1>3, Zenon
<1>7. /\ fetches' \in Seq(Requests) /\ Len(fetches') = Len(fetches)
      /\ \A j \in 1 .. Len(fetches) : j # k => fetches'[j] = fetches[j]
      /\ fetches'[k].kind = fetches[k].kind /\ fetches'[k].id = fetches[k].id
      /\ fetches'[k].got = g
  BY <1>4, <1>5, <1>6, GotReplaced
<1> QED
  BY <1>1, <1>2, <1>3, <1>4, <1>7

\* What ServePost does.
LEMMA ServePostEffect ==
    ASSUME Typed, PaneTyped, ServePost
    PROVE  /\ UNCHANGED <<stored, selects, pane>>
           /\ \E k \in 1 .. Len(fetches), id \in Ids :
                 /\ Create(id)
                 /\ fetches' \in Seq(Requests) /\ Len(fetches') = Len(fetches)
                 /\ \A j \in 1 .. Len(fetches) : j # k => fetches'[j] = fetches[j]
                 /\ fetches[k].kind = "post" /\ fetches'[k].kind = "post"
                 /\ fetches'[k].id = id /\ fetches'[k].got = NoDetail
<1>1. UNCHANGED <<stored, selects, pane>>
  BY DEF ServePost
<1>2. PICK k \in 1 .. Len(fetches), id \in Ids :
        /\ fetches[k].kind = "post" /\ Create(id)
        /\ fetches' = [fetches EXCEPT ![k].id = id, ![k].got = NoDetail]
  BY Zenon DEF ServePost
<1>3. PICK q : q = [fetches EXCEPT ![k].id = id]
  OBVIOUS
<1>4. fetches' = [q EXCEPT ![k].got = NoDetail]
  BY <1>2, <1>3, Zenon
<1>5. fetches \in Seq(Requests) /\ NoDetail \in Details
  BY NoAnswers DEF PaneTyped, AllAsked
<1>6. /\ q \in Seq(Requests) /\ Len(q) = Len(fetches)
      /\ \A j \in 1 .. Len(fetches) : j # k => q[j] = fetches[j]
      /\ q[k].kind = fetches[k].kind /\ q[k].id = id
  BY <1>3, <1>5, IdReplaced
<1>7. /\ fetches' \in Seq(Requests) /\ Len(fetches') = Len(q)
      /\ \A j \in 1 .. Len(q) : j # k => fetches'[j] = q[j]
      /\ fetches'[k].kind = q[k].kind /\ fetches'[k].id = q[k].id
      /\ fetches'[k].got = NoDetail
  <2>1. q \in Seq(Requests) /\ k \in 1 .. Len(q)
    BY <1>6
  <2>2. PICK g : g = NoDetail
    OBVIOUS
  <2>3. fetches' = [q EXCEPT ![k].got = g] /\ g \in Details
    BY <1>4, <1>5, <2>2, Zenon
  <2>4. /\ fetches' \in Seq(Requests) /\ Len(fetches') = Len(q)
        /\ \A j \in 1 .. Len(q) : j # k => fetches'[j] = q[j]
        /\ fetches'[k].kind = q[k].kind /\ fetches'[k].id = q[k].id
        /\ fetches'[k].got = g
    BY <2>1, <2>3, GotReplaced
  <2> QED
    BY <2>2, <2>4
<1>8. /\ fetches' \in Seq(Requests) /\ Len(fetches') = Len(fetches)
      /\ \A j \in 1 .. Len(fetches) : j # k => fetches'[j] = fetches[j]
      /\ fetches'[k].kind = "post" /\ fetches'[k].id = id /\ fetches'[k].got = NoDetail
  BY <1>2, <1>6, <1>7
<1> QED
  BY <1>1, <1>2, <1>8

\* What Answer does, when the answers arrive in order.
LEMMA AnswerEffect ==
    ASSUME InOrder, PaneTyped, Answer
    PROVE  /\ UNCHANGED <<vars, stored, selects>>
           /\ fetches \in Seq(Requests) /\ 1 <= Len(fetches) /\ fetches[1].got # Unserved
           /\ fetches[1] \in Requests
           /\ Asked(fetches[1], truth, stored, used)
           /\ \/ fetches[1].kind = "post" /\ Open(fetches[1].id, RemoveAt(fetches, 1))
              \/ /\ fetches[1].kind # "post" /\ fetches[1].got # NoDetail
                 /\ detail' = fetches[1].got /\ live' = AnsweredLive(fetches[1]) /\ problem' = None
                 /\ fetches' = RemoveAt(fetches, 1) /\ selected' = selected
              \/ /\ fetches[1].kind # "post" /\ fetches[1].got = NoDetail
                 /\ problem' = IF fetches[1].kind = "open" THEN fetches[1].id ELSE problem
                 /\ fetches' = RemoveAt(fetches, 1)
                 /\ UNCHANGED <<selected, detail, live>>
<1>1. UNCHANGED <<vars, stored, selects>>
  BY DEF Answer
<1>2. PICK k \in 1 .. Len(fetches) :
        /\ fetches[k].got # Unserved /\ (InOrder => k = 1)
        /\ \/ fetches[k].kind = "post" /\ Open(fetches[k].id, RemoveAt(fetches, k))
           \/ /\ fetches[k].kind # "post" /\ fetches[k].got # NoDetail
              /\ detail' = fetches[k].got /\ live' = AnsweredLive(fetches[k]) /\ problem' = None
              /\ fetches' = RemoveAt(fetches, k) /\ UNCHANGED selected
           \/ /\ fetches[k].kind # "post" /\ fetches[k].got = NoDetail
              /\ problem' = IF fetches[k].kind = "open" THEN fetches[k].id ELSE problem
              /\ fetches' = RemoveAt(fetches, k)
              /\ UNCHANGED <<selected, detail, live>>
  BY Zenon DEF Answer
<1>3. k = 1
  BY <1>2
<1>4. fetches \in Seq(Requests) /\ Len(fetches) \in Nat /\ Asked(fetches[1], truth, stored, used)
  BY <1>3, LenProperties DEF PaneTyped, AllAsked
<1>5. fetches[1] \in Requests /\ 1 <= Len(fetches)
  BY <1>3, <1>4, ElementOfSeq
<1> QED
  BY <1>1, <1>2, <1>3, <1>4, <1>5, Zenon

\* What a step has to show for the pane, given what it keeps.
LEMMA PaneKept ==
    ASSUME Calm, Typed, Known, PaneTyped, [PageNext]_<<vars, extra>>,
           AllAsked(fetches', truth', stored', used'),
           selected' \in used' \cup {selected, None},
           problem' \in {problem, None} \/ (problem' \in used' /\ truth'[problem'] = "absent"),
           \/ detail' \in {detail, NoDetail}
           \/ detail' \in Details /\ detail'.id \in used' /\ Told(detail', detail'.id, truth', stored')
    PROVE  PaneTyped'
<1>1. /\ used \subseteq used'
      /\ problem # None => problem \in used' /\ truth'[problem] = "absent"
      /\ detail.id # None => detail.id \in used' /\ Told(detail, detail.id, truth', stored')
  BY AskedKept
<1>2. selected \in used \cup {None} /\ detail \in Details
  BY DEF PaneTyped
<1>3. selected' \in used' \cup {None} /\ detail' \in Details
  BY <1>1, <1>2, NoAnswers
<1>4. problem' # None => problem' \in used' /\ truth'[problem'] = "absent"
  BY <1>1
<1>5. detail'.id # None => detail'.id \in used' /\ Told(detail', detail'.id, truth', stored')
  BY <1>1, NoAnswers
<1> QED
  BY <1>3, <1>4, <1>5 DEF PaneTyped

\* The pane is opened on an entry that exists or existed.
LEMMA OpenTyped ==
    ASSUME Calm, Typed, Known, PaneTyped, [PageNext]_<<vars, extra>>,
           NEW q, AllAsked(q, truth', stored', used'), NEW id \in Ids, id \in used', Open(id, q)
    PROVE  PaneTyped'
<1>1. fetches' = Append(q, Fetch(id, "open")) /\ selected' = id /\ detail' = detail
      /\ problem' = problem
  BY DEF Open
<1>2. AllAsked(fetches', truth', stored', used')
  BY <1>1, AskedAppend
<1> QED
  BY <1>1, <1>2, PaneKept

\* The actions of the pane leave it typed.
LEMMA NextPaneTyped ==
    ASSUME Calm, InOrder, Typed, Known, Follows, PaneTyped, [PageNext]_<<vars, extra>>
    PROVE  PaneTyped'
<1>0. /\ AllAsked(fetches, truth', stored', used') /\ used \subseteq used' /\ used \subseteq Ids
      /\ selected \in used \cup {None} /\ None \notin Ids
      /\ used' \subseteq used \cup Ids
  <2>1. used' \subseteq used \cup Ids
    <3>1. Next => used' \subseteq used \cup Ids
      BY DEF Next, Create, Finish, Purge, Change, Connect, Disconnect, OnEvent, LoadServe, LoadApply,
             ClearSend, ClearServe, ClearApply, server
    <3>2. (\E id \in Ids : Fragment(id)) \/ UNCHANGED vars => used' = used
      BY DEF Fragment, vars, server
    <3> QED
      BY <3>1, <3>2, PageKinds
  <2> QED
    BY <2>1, AskedKept, PageAssumption DEF PaneTyped, Typed
<1>1. ASSUME fetches' = fetches, selected' \in {selected, None}, problem' = problem,
             detail' \in {detail, NoDetail}
      PROVE  PaneTyped'
  BY <1>0, <1>1, PaneKept
<1>2. ASSUME NEW id \in used, Open(id, fetches) PROVE PaneTyped'
  BY <1>0, <1>2, OpenTyped
<1>3. ASSUME Route(used) PROVE PaneTyped'
  <2>1. CASE Shut /\ UNCHANGED <<fetches, live, problem>>
    BY <1>1, <2>1 DEF Shut
  <2> QED
    BY <1>2, <1>3, <2>1 DEF Route
<1>4. CASE ListStep \/ UNCHANGED <<vars, extra>>
  BY <1>1, <1>4 DEF ListStep, extra, pane
<1>5. CASE PageOnEvent
  <2>1. inbox # <<>> /\ problem' = problem /\ OnEvent
    BY <1>5 DEF PageOnEvent, OnEvent
  <2>2. Head(inbox) = inbox[1] /\ inbox[1].id \in used
    <3>1. Len(inbox) \in Nat \ {0}
      BY <2>1, TailEvents
    <3>2. inbox \in Seq(Events)
      BY DEF Typed
    <3> QED
      BY <3>1, <3>2, HeadTailProperties DEF Follows
  <2>3. ASSUME NEW e, e = Head(inbox), OnDelta(e) PROVE PaneTyped'
    BY <1>1, <2>1, <2>3 DEF OnDelta
  <2>4. ASSUME NEW e, e = Head(inbox), OnUpdated(e) PROVE PaneTyped'
    <3>1. CASE fetches' = fetches
      BY <1>1, <2>1, <2>4, <3>1 DEF OnUpdated
    <3>2. CASE fetches' = Append(fetches, Fetch(e.id, "refresh"))
      <4>1. e.id \in Ids /\ e.id \in used'
        BY <1>0, <2>2, <2>4
      <4>2. AllAsked(fetches', truth', stored', used')
        BY <1>0, <3>2, <4>1, AskedAppend
      <4> QED
        BY <2>1, <2>4, <4>2, PaneKept DEF OnUpdated
    <3> QED
      BY <2>4, <3>1, <3>2 DEF OnUpdated
  <2>5. ASSUME NEW e, OnDeleted(e) PROVE PaneTyped'
    BY <1>1, <2>1, <2>5 DEF OnDeleted, Shut
  <2>6. CASE UNCHANGED <<fetches, selected, detail, live>>
    BY <1>1, <2>1, <2>6
  <2> QED
    BY <1>5, <2>3, <2>4, <2>5, <2>6 DEF PageOnEvent
<1>6. CASE PageLoadApply
  <2>1. CASE selected = None
    BY <1>3, <1>6, <2>1 DEF PageLoadApply
  <2>2. CASE selected # None
    BY <1>0, <1>2, <1>6, <2>2 DEF PageLoadApply
  <2> QED
    BY <2>1, <2>2
<1>7. CASE PageClearApply
  BY <1>1, <1>7 DEF PageClearApply, Shut
<1>8. ASSUME NEW id \in Ids, Fragment(id) PROVE PaneTyped'
  BY <1>1, <1>8 DEF Fragment, pane
<1>9. ASSUME NEW id \in Ids, Select(id) PROVE PaneTyped'
  <2>1. id \in used
    BY <1>9 DEF Select, Known
  <2> QED
    BY <1>2, <1>9, <2>1 DEF Select
<1>10. CASE CloseDetail
  BY <1>1, <1>10 DEF CloseDetail, Shut
<1>11. CASE PopState
  BY <1>3, <1>11 DEF PopState
<1>12. CASE Compose
  <2>1. AllAsked(fetches', truth', stored', used')
    BY <1>0, <1>12, AskedAppend DEF Compose
  <2> QED
    BY <1>12, <2>1, PaneKept DEF Compose, Shut
<1>13. CASE Serve
  <2>1. UNCHANGED <<vars, stored, selects, pane>>
    BY <1>13, ServeEffect
  <2>2. /\ truth' = truth /\ used' = used /\ stored' = stored /\ selected' = selected
        /\ detail' = detail /\ problem' = problem
    BY <2>1 DEF vars, server, pane
  <2>3. PICK k \in 1 .. Len(fetches) :
          /\ fetches' \in Seq(Requests) /\ Len(fetches') = Len(fetches)
          /\ \A j \in 1 .. Len(fetches) : j # k => fetches'[j] = fetches[j]
          /\ fetches'[k].kind = fetches[k].kind /\ fetches'[k].id = fetches[k].id
          /\ fetches[k].kind # "post" /\ fetches[k].id \in used
          /\ fetches'[k].got = IF truth[fetches[k].id] = "absent" THEN NoDetail
                               ELSE NewDetail(fetches[k].id)
    BY <1>13, ServeEffect
  <2>4. fetches[k].id \in Ids
    BY <1>0, <2>3
  <2>5. Asked(fetches'[k], truth, stored, used)
    BY <2>3, <2>4, DetailMade DEF Asked
  <2>6. AllAsked(fetches', truth, stored, used)
    BY <2>3, <2>5, AskedServe DEF PaneTyped
  <2> QED
    BY <2>2, <2>6, PaneKept
<1>14. CASE ServePost
  <2>1. selected' = selected /\ detail' = detail /\ problem' = problem
    BY <1>14, ServePostEffect DEF pane
  <2>2. PICK k \in 1 .. Len(fetches), id \in Ids :
          /\ Create(id)
          /\ fetches' \in Seq(Requests) /\ Len(fetches') = Len(fetches)
          /\ \A j \in 1 .. Len(fetches) : j # k => fetches'[j] = fetches[j]
          /\ fetches[k].kind = "post" /\ fetches'[k].kind = "post"
          /\ fetches'[k].id = id /\ fetches'[k].got = NoDetail
    BY <1>14, ServePostEffect
  <2>3. id \in used'
    BY <2>2 DEF Create, Change
  <2>4. Asked(fetches'[k], truth', stored', used')
    BY <2>2, <2>3 DEF Asked
  <2>5. AllAsked(fetches', truth', stored', used')
    BY <1>0, <2>2, <2>4, AskedServe
  <2> QED
    BY <2>1, <2>5, PaneKept
<1>15. CASE Answer
  <2>1. /\ UNCHANGED <<vars, stored, selects>>
        /\ fetches \in Seq(Requests) /\ 1 <= Len(fetches) /\ fetches[1].got # Unserved
        /\ fetches[1] \in Requests
        /\ Asked(fetches[1], truth, stored, used)
    BY <1>15, AnswerEffect
  <2>2. truth' = truth /\ used' = used /\ stored' = stored
    BY <2>1 DEF vars, server
  <2>3. AllAsked(RemoveAt(fetches, 1), truth', stored', used')
    BY <1>0, <2>1, AskedRemove
  <2>4. ASSUME fetches[1].kind = "post", Open(fetches[1].id, RemoveAt(fetches, 1)) PROVE PaneTyped'
    <3>1. fetches[1].id \in used
      BY <2>1, <2>4 DEF Asked
    <3> QED
      BY <1>0, <2>3, <2>4, <3>1, OpenTyped
  <2>5. ASSUME fetches[1].kind # "post", fetches[1].got # NoDetail, detail' = fetches[1].got,
               problem' = None, fetches' = RemoveAt(fetches, 1), selected' = selected
        PROVE  PaneTyped'
    <3>1. fetches[1].got \in Details
      BY <2>1 DEF Requests
    <3>2. Told(fetches[1].got, fetches[1].id, truth', stored') /\ fetches[1].id \in used'
      BY <2>1, <2>2, <2>5 DEF Asked
    <3>3. fetches[1].got.id = fetches[1].id
      BY <3>2 DEF Told
    <3> QED
      BY <2>3, <2>5, <3>1, <3>2, <3>3, PaneKept
  <2>6. ASSUME fetches[1].kind # "post", fetches[1].got = NoDetail, UNCHANGED <<selected, detail, live>>,
               problem' = IF fetches[1].kind = "open" THEN fetches[1].id ELSE problem,
               fetches' = RemoveAt(fetches, 1)
        PROVE  PaneTyped'
    <3>1. fetches[1].id \in used' /\ truth'[fetches[1].id] = "absent"
      BY <2>1, <2>2, <2>6, NoAnswers DEF Asked
    <3> QED
      BY <2>3, <2>6, <3>1, PaneKept
  <2> QED
    BY <1>15, <2>4, <2>5, <2>6, AnswerEffect
<1> QED
  BY <1>4, <1>5, <1>6, <1>7, <1>8, <1>9, <1>10, <1>11, <1>12, <1>13, <1>14, <1>15 DEF PageNext

-------------------------------------------------------------------------------
(***************************************************************************)
(* What the pane owes the entry on screen once nothing more is on its way. *)
(***************************************************************************)
\* The pane is going to be closed: the entry was removed.
Leaving(id) ==
    clear = "served" \/ \E k \in 1 .. Len(inbox) : inbox[k].type = "deleted" /\ inbox[k].id = id

\* The pane is going to be told that the entry finished.
Ending(id) == \E k \in 1 .. Len(inbox) : inbox[k].type = "updated" /\ inbox[k].id = id

Lost(id)  == truth[id] = "absent" /\ ~Leaving(id)
Ended(id) == truth[id] = "done" /\ shown[id] # "absent" /\ ~Ending(id)

PaneOwes ==
    selected # None =>
        /\ RoutedAt(fetches, selected, problem, detail)
        /\ Lost(selected) => MissingAt(fetches, selected, problem)
        /\ Ended(selected) => FinalAt(fetches, selected, detail, live)

\* Events that were in flight still are, others than those that matter are new.
LEMMA OwedSent ==
    ASSUME Typed, NEW s \in used, NEW id \in Ids, NEW type \in Kinds, NEW st \in Cells,
           Sent(id, type, st)
    PROVE  (Lost(s)' => Lost(s)) /\ (Ended(s)' => Ended(s))
<1>1. /\ Len(inbox) \in Nat /\ Len(inbox') = Len(inbox) + 1
      /\ \A k \in 1 .. Len(inbox) : inbox'[k] = inbox[k]
      /\ inbox'[Len(inbox) + 1].type = type /\ inbox'[Len(inbox) + 1].id = id
  BY SentEvents
<1>2. /\ truth \in [Ids -> Cells] /\ truth' = [truth EXCEPT ![id] = st]
      /\ shown' = shown /\ clear' = clear /\ s \in Ids
      /\ \/ type = "created" /\ st = "pending" /\ id \notin used
         \/ type = "updated" /\ st = "done"
         \/ type = "deleted" /\ st = "absent"
  BY DEF Sent, Typed
<1>3. 1 .. Len(inbox) \subseteq 1 .. Len(inbox') /\ Len(inbox) + 1 \in 1 .. Len(inbox')
  BY <1>1
<1>4. (Leaving(s) => Leaving(s)') /\ (Ending(s) => Ending(s)')
  BY <1>1, <1>2, <1>3 DEF Leaving, Ending
<1>5. CASE id # s
  <2>1. truth'[s] = truth[s]
    BY <1>2, <1>5
  <2> QED
    BY <1>2, <1>4, <2>1 DEF Lost, Ended
<1>6. CASE id = s
  <2>1. truth'[s] = st
    BY <1>2, <1>6
  <2>2. type = "deleted" => Leaving(s)'
    BY <1>1, <1>3, <1>6 DEF Leaving
  <2>3. type = "updated" => Ending(s)'
    BY <1>1, <1>3, <1>6 DEF Ending
  <2> QED
    BY <1>2, <1>6, <2>1, <2>2, <2>3 DEF Lost, Ended
<1> QED
  BY <1>5, <1>6

LEMMA OwedFragment ==
    ASSUME Calm, Typed, NEW s \in used, NEW id \in Ids, Fragment(id)
    PROVE  (Lost(s)' => Lost(s)) /\ (Ended(s)' => Ended(s))
<1>1. /\ Len(inbox) \in Nat /\ Len(inbox') = Len(inbox) + 1
      /\ \A k \in 1 .. Len(inbox) : inbox'[k] = inbox[k]
      /\ truth' = truth /\ shown' = shown /\ clear' = clear
  BY FragmentSent
<1>2. 1 .. Len(inbox) \subseteq 1 .. Len(inbox')
  BY <1>1
<1> QED
  BY <1>1, <1>2 DEF Lost, Ended, Leaving, Ending

LEMMA OwedClear ==
    ASSUME Typed, NEW s \in used, ClearServe
    PROVE  ~Lost(s)' /\ ~Ended(s)'
<1>1. clear' = "served" /\ s \in Ids
      /\ truth'[s] = IF truth[s] = "done" THEN "absent" ELSE truth[s]
  BY ClearServed DEF Typed
<1> QED
  BY <1>1 DEF Lost, Ended, Leaving

(***************************************************************************)
(* The event that removes the entry closes the pane and the one that       *)
(* finishes it fetches it again; after any other the pane owes what it     *)
(* owed.  No event of a finished entry but its update is its last.         *)
(***************************************************************************)
LEMMA OwedEvent ==
    ASSUME Typed, Follows, NEW s \in used, OnEvent
    PROVE  /\ ~(inbox[1].type = "deleted" /\ inbox[1].id = s) => (Lost(s)' => Lost(s))
           /\ ~(inbox[1].type = "updated" /\ inbox[1].id = s /\ shown[s] # "absent") =>
                 (Ended(s)' => Ended(s) /\ inbox[1].id # s)
<1>1. /\ Len(inbox) \in Nat \ {0} /\ Len(inbox') = Len(inbox) - 1
      /\ \A k \in 1 .. Len(inbox) - 1 : inbox'[k] = inbox[k + 1]
      /\ inbox[1] \in Events /\ truth' = truth /\ clear' = clear /\ s \in Ids
  BY TailEvents DEF server, Typed
<1>2. Handled(inbox[1]) /\ inbox[1].type \in Kinds
  BY <1>1, EventHandled, EventType
<1>3. ASSUME NEW j \in 2 .. Len(inbox)
      PROVE  j - 1 \in 1 .. Len(inbox') /\ inbox'[j - 1] = inbox[j]
  BY <1>1
<1>4. \A k \in 1 .. Len(inbox) : k = 1 \/ k \in 2 .. Len(inbox)
  BY <1>1
<1>5. ASSUME ~(inbox[1].type = "deleted" /\ inbox[1].id = s), Leaving(s) PROVE Leaving(s)'
  BY <1>1, <1>3, <1>4, <1>5 DEF Leaving
<1>6. ASSUME ~(inbox[1].type = "updated" /\ inbox[1].id = s), Ending(s) PROVE Ending(s)'
  BY <1>3, <1>4, <1>6 DEF Ending
<1>7. ASSUME inbox[1].type \in {"created", "delta"}, inbox[1].id = s, truth[s] = "done"
      PROVE  Ending(s)'
  <2>1. 1 \in 1 .. Len(inbox) /\ \A j \in 1 + 1 .. Len(inbox) : j \in 2 .. Len(inbox)
    BY <1>1
  <2> QED
    BY <1>3, <1>7, <2>1 DEF Follows, Ending
<1>8. ASSUME inbox[1].id # s PROVE shown'[s] = shown[s]
  BY <1>1, <1>2, <1>8 DEF Handled
<1>9. ASSUME inbox[1].id = s, inbox[1].type = "deleted" \/ (inbox[1].type = "updated" /\ shown[s] = "absent")
      PROVE  shown'[s] = "absent"
  BY <1>2, <1>9 DEF Handled
<1>10. ~(inbox[1].type = "deleted" /\ inbox[1].id = s) => (Lost(s)' => Lost(s))
  BY <1>1, <1>5 DEF Lost
<1>11. ASSUME ~(inbox[1].type = "updated" /\ inbox[1].id = s /\ shown[s] # "absent"), Ended(s)'
       PROVE  Ended(s) /\ inbox[1].id # s
  <2>1. inbox[1].id # s
    BY <1>1, <1>2, <1>7, <1>9, <1>11 DEF Ended, Kinds
  <2> QED
    BY <1>1, <1>6, <1>8, <1>11, <2>1 DEF Ended
<1> QED
  BY <1>10, <1>11

\* PaneOwes is inductive.
LEMMA NextOwes ==
    ASSUME Calm, InOrder, Typed, Known, Follows, PaneTyped, PaneOwes, [PageNext]_<<vars, extra>>
    PROVE  PaneOwes'
<1> DEFINE Owed(s) ==
              /\ RoutedAt(fetches', s, problem', detail')
              /\ Lost(s)' => MissingAt(fetches', s, problem')
              /\ Ended(s)' => FinalAt(fetches', s, detail', live')
<1> SUFFICES ASSUME NEW s, s = selected', s # None PROVE Owed(s)
  BY DEF PaneOwes, Lost, Ended, Leaving, Ending, RoutedAt, MissingAt, FinalAt, Own, Vain, Clean
<1>0. /\ fetches \in Seq(Requests) /\ used \subseteq Ids /\ None \notin Ids
      /\ selected \in used \cup {None}
  BY PageAssumption DEF PaneTyped, AllAsked, Typed
<1>1. ASSUME selected = s
      PROVE  /\ RoutedAt(fetches, s, problem, detail)
             /\ Lost(s) => MissingAt(fetches, s, problem)
             /\ Ended(s) => FinalAt(fetches, s, detail, live)
             /\ s \in used /\ s \in Ids
  BY <1>0, <1>1 DEF PaneOwes
<1>2. ASSUME NEW q \in Seq(Requests), Open(s, q), s \in Ids PROVE Owed(s)
  <2>1. fetches' = Append(q, Fetch(s, "open")) /\ Clean(live', s)
    BY <1>2 DEF Open, Clean
  <2> QED
    BY <1>2, <2>1, OpenedQueue
<1>3. ASSUME NEW id \in Ids, NEW q \in Seq(Requests), Open(id, q) PROVE Owed(s)
  BY <1>2, <1>3 DEF Open
<1>4. ASSUME Shut PROVE FALSE
  BY <1>4 DEF Shut
<1>5. ASSUME Route(used) PROVE Owed(s)
  BY <1>0, <1>3, <1>4, <1>5 DEF Route
<1>6. ASSUME UNCHANGED <<fetches, pane>>, selected = s => (Lost(s)' => Lost(s)) /\ (Ended(s)' => Ended(s))
      PROVE  Owed(s)
  <2>1. /\ selected = s /\ fetches' = fetches /\ problem' = problem /\ detail' = detail
        /\ live' = live
    BY <1>6 DEF pane
  <2> QED
    BY <1>1, <1>6, <2>1
<1>7. ASSUME truth' = truth, shown' = shown, inbox' = inbox, clear' = clear \/ (clear' = "sent" /\ clear = "no")
      PROVE  (Lost(s)' => Lost(s)) /\ (Ended(s)' => Ended(s))
  BY <1>7 DEF Lost, Ended, Leaving, Ending
<1>8. CASE ListStep
  <2>1. UNCHANGED <<fetches, pane>> /\ selected = s
    BY <1>8 DEF ListStep, extra, pane
  <2>2. ASSUME NEW id \in Ids, Create(id) \/ Finish(id) \/ Purge(id) PROVE Owed(s)
    BY <1>1, <1>6, <2>1, <2>2, ChangeSent, OwedSent
  <2>3. CASE Connect
    BY <1>6, <1>7, <2>1, <2>3 DEF Connect, server
  <2>4. CASE Disconnect
    BY <1>6, <1>7, <2>1, <2>4 DEF Disconnect, Calm, server
  <2>5. CASE LoadServe
    BY <1>6, <1>7, <2>1, <2>5 DEF LoadServe, server, stream
  <2>6. CASE ClearSend
    BY <1>6, <1>7, <2>1, <2>6 DEF ClearSend, server, stream
  <2>7. CASE ClearServe
    BY <1>1, <1>6, <2>1, <2>7, OwedClear
  <2> QED
    BY <1>8, <2>2, <2>3, <2>4, <2>5, <2>6, <2>7 DEF ListStep
<1>9. ASSUME UNCHANGED vars PROVE (Lost(s)' => Lost(s)) /\ (Ended(s)' => Ended(s)) /\ truth' = truth
  BY <1>7, <1>9 DEF vars, server, stream
<1>10. CASE UNCHANGED <<vars, extra>>
  BY <1>6, <1>9, <1>10 DEF extra, pane
<1>11. CASE PageOnEvent
  <2>1. problem' = problem /\ OnEvent /\ Head(inbox) = inbox[1] /\ inbox[1].id \in Ids
    <3>1. OnEvent /\ problem' = problem
      BY <1>11 DEF PageOnEvent
    <3>2. Len(inbox) \in Nat \ {0} /\ inbox[1] \in Events
      BY <3>1, TailEvents
    <3> QED
      BY <3>1, <3>2, TailOne, EventType DEF Typed, OnEvent
  <2>2. ASSUME selected = s
        PROVE  /\ ~(inbox[1].type = "deleted" /\ inbox[1].id = s) => (Lost(s)' => Lost(s))
               /\ ~(inbox[1].type = "updated" /\ inbox[1].id = s /\ shown[s] # "absent") =>
                     (Ended(s)' => Ended(s) /\ inbox[1].id # s)
    BY <1>1, <2>1, <2>2, OwedEvent
  <2>3. ASSUME inbox[1].type = "created", UNCHANGED <<fetches, selected, detail, live>> PROVE Owed(s)
    BY <1>6, <2>1, <2>2, <2>3 DEF pane
  <2>4. ASSUME inbox[1].type = "delta", OnDelta(inbox[1]) PROVE Owed(s)
    <3>1. /\ selected = s /\ fetches' = fetches /\ detail' = detail
          /\ inbox[1].id # s => live' = live
      BY <2>4 DEF OnDelta
    <3> QED
      BY <1>1, <2>1, <2>2, <2>4, <3>1
  <2>5. ASSUME inbox[1].type = "updated", OnUpdated(inbox[1]) PROVE Owed(s)
    <3>1. /\ selected = s /\ detail' = detail /\ live' = live
          /\ fetches' = IF shown[inbox[1].id] # "absent" /\ selected = inbox[1].id
                        THEN Append(fetches, Fetch(inbox[1].id, "refresh")) ELSE fetches
      BY <2>5 DEF OnUpdated
    <3>2. CASE inbox[1].id = s /\ shown[s] # "absent"
      <4>1. fetches' = Append(fetches, Fetch(s, "refresh"))
        BY <3>1, <3>2
      <4>2. /\ RoutedAt(fetches', s, problem, detail) /\ FinalAt(fetches', s, detail, live)
            /\ MissingAt(fetches, s, problem) => MissingAt(fetches', s, problem)
        BY <1>0, <1>1, <3>1, <4>1, RefreshedQueue
      <4> QED
        BY <1>1, <2>1, <2>2, <2>5, <3>1, <4>2
    <3>3. CASE ~(inbox[1].id = s /\ shown[s] # "absent")
      BY <1>6, <2>1, <2>2, <2>5, <3>1, <3>3 DEF pane
    <3> QED
      BY <3>2, <3>3
  <2>6. ASSUME inbox[1].type = "deleted", OnDeleted(inbox[1]) PROVE Owed(s)
    <3>1. /\ selected = s /\ inbox[1].id # s /\ UNCHANGED <<fetches, selected, detail, live>>
      BY <1>4, <2>6 DEF OnDeleted
    <3> QED
      BY <1>6, <2>1, <2>2, <2>6, <3>1 DEF pane
  <2> QED
    BY <1>11, <2>1, <2>3, <2>4, <2>5, <2>6 DEF PageOnEvent
<1>12. CASE PageLoadApply
  <2>1. CASE selected = None
    BY <1>5, <1>12, <2>1 DEF PageLoadApply
  <2>2. CASE selected # None
    BY <1>0, <1>3, <1>12, <2>2 DEF PageLoadApply
  <2> QED
    BY <2>1, <2>2
<1>13. CASE PageClearApply
  BY <1>4, <1>13 DEF PageClearApply
<1>14. ASSUME NEW id \in Ids, Fragment(id) PROVE Owed(s)
  BY <1>1, <1>6, <1>14, OwedFragment DEF Fragment
<1>15. ASSUME NEW id \in Ids, Select(id) PROVE Owed(s)
  BY <1>0, <1>3, <1>15 DEF Select
<1>16. CASE CloseDetail
  BY <1>4, <1>16 DEF CloseDetail
<1>17. CASE PopState
  BY <1>5, <1>17 DEF PopState
<1>18. CASE Compose
  <2>1. /\ selected = s /\ detail' = detail /\ live' = live /\ problem' = problem
        /\ fetches' = Append(fetches, Fetch(None, "post")) /\ UNCHANGED vars
    BY <1>4, <1>18 DEF Compose
  <2> QED
    BY <1>0, <1>1, <1>9, <2>1, PostedQueue
<1>19. CASE Serve
  <2>1. PICK k \in 1 .. Len(fetches) :
          /\ fetches' \in Seq(Requests) /\ Len(fetches') = Len(fetches)
          /\ \A j \in 1 .. Len(fetches) : j # k => fetches'[j] = fetches[j]
          /\ fetches'[k].kind = fetches[k].kind /\ fetches'[k].id = fetches[k].id
          /\ fetches[k].kind # "post" /\ fetches[k].id \in used
          /\ fetches'[k].got = IF truth[fetches[k].id] = "absent" THEN NoDetail
                               ELSE NewDetail(fetches[k].id)
    BY <1>19, ServeEffect
  <2>2. /\ selected = s /\ detail' = detail /\ live' = live /\ problem' = problem /\ UNCHANGED vars
    BY <1>19, ServeEffect DEF pane
  <2>3. truth[s] = "absent" /\ fetches'[k].id = s => fetches'[k].got = NoDetail
    BY <2>1
  <2>4. truth[s] = "done" /\ fetches'[k].id = s => fetches'[k].got.done
    <3> SUFFICES ASSUME truth[s] = "done", fetches'[k].id = s PROVE fetches'[k].got.done
      OBVIOUS
    <3>1. fetches[k].id = s
      BY <2>1
    <3>2. fetches'[k].got = NewDetail(s)
      BY <2>1, <3>1
    <3>3. NewDetail(s).done
      BY <1>1, <2>2, DetailMade
    <3> QED
      BY <3>2, <3>3
  <2>5. /\ RoutedAt(fetches', s, problem, detail)
        /\ (fetches'[k].kind # "post" /\ fetches'[k].id = s => fetches'[k].got = NoDetail) =>
              (MissingAt(fetches, s, problem) => MissingAt(fetches', s, problem))
        /\ (fetches'[k].kind # "post" /\ fetches'[k].id = s => fetches'[k].got.done) =>
              (FinalAt(fetches, s, detail, live) => FinalAt(fetches', s, detail, live))
    BY <1>0, <1>1, <2>1, <2>2, ServedQueue
  <2>6. (Lost(s) => truth[s] = "absent") /\ (Ended(s) => truth[s] = "done")
    BY DEF Lost, Ended
  <2> QED
    BY <1>1, <1>9, <2>2, <2>3, <2>4, <2>5, <2>6
<1>20. CASE ServePost
  <2>1. PICK k \in 1 .. Len(fetches), id \in Ids :
          /\ Create(id)
          /\ fetches' \in Seq(Requests) /\ Len(fetches') = Len(fetches)
          /\ \A j \in 1 .. Len(fetches) : j # k => fetches'[j] = fetches[j]
          /\ fetches[k].kind = "post" /\ fetches'[k].kind = "post"
          /\ fetches'[k].id = id /\ fetches'[k].got = NoDetail
    BY <1>20, ServePostEffect
  <2>2. /\ selected = s /\ detail' = detail /\ live' = live /\ problem' = problem
    BY <1>20, ServePostEffect DEF pane
  <2>3. (Lost(s)' => Lost(s)) /\ (Ended(s)' => Ended(s))
    BY <1>1, <2>1, <2>2, ChangeSent, OwedSent
  <2>4. /\ RoutedAt(fetches', s, problem, detail)
        /\ MissingAt(fetches, s, problem) => MissingAt(fetches', s, problem)
        /\ FinalAt(fetches, s, detail, live) => FinalAt(fetches', s, detail, live)
    BY <1>0, <1>1, <2>1, <2>2, ServedQueue
  <2> QED
    BY <1>1, <2>2, <2>3, <2>4
<1>21. CASE Answer
  <2>1. /\ UNCHANGED vars
        /\ fetches \in Seq(Requests) /\ 1 <= Len(fetches) /\ fetches[1].got # Unserved
        /\ fetches[1] \in Requests
        /\ Asked(fetches[1], truth, stored, used)
    BY <1>21, AnswerEffect
  <2>2. RemoveAt(fetches, 1) \in Seq(Requests)
    BY <2>1, Removed
  <2>3. ASSUME fetches[1].kind = "post", Open(fetches[1].id, RemoveAt(fetches, 1)) PROVE Owed(s)
    <3>1. fetches[1].id \in Ids
      BY <1>0, <2>1, <2>3 DEF Asked
    <3> QED
      BY <1>3, <2>2, <2>3, <3>1
  <2>4. ASSUME fetches[1].kind # "post", fetches[1].got # NoDetail, detail' = fetches[1].got,
               live' = AnsweredLive(fetches[1]), problem' = None, fetches' = RemoveAt(fetches, 1),
               selected' = selected
        PROVE  Owed(s)
    <3>1. fetches[1].got.id = fetches[1].id
      BY <2>1, <2>4 DEF Asked, Told
    <3>2. live' = IF fetches[1].kind = "refresh" THEN [id |-> fetches[1].id, chunks |-> <<>>] ELSE live
      BY <2>4 DEF AnsweredLive
    <3>3. /\ RoutedAt(fetches, s, problem, detail) => RoutedAt(fetches', s, None, fetches[1].got)
          /\ MissingAt(fetches, s, problem) => MissingAt(fetches', s, None)
          /\ FinalAt(fetches, s, detail, live) => FinalAt(fetches', s, fetches[1].got, live')
      BY <2>1, <2>4, <3>1, <3>2, AnsweredQueue
    <3> QED
      BY <1>1, <1>9, <2>1, <2>4, <3>3
  <2>5. ASSUME fetches[1].kind # "post", fetches[1].got = NoDetail, UNCHANGED <<selected, detail, live>>,
               problem' = IF fetches[1].kind = "open" THEN fetches[1].id ELSE problem,
               fetches' = RemoveAt(fetches, 1)
        PROVE  Owed(s)
    <3>1. PICK q, r, p, o : q = fetches /\ r = fetches' /\ p = problem /\ o = problem'
      OBVIOUS
    <3>2. /\ q \in Seq(Requests) /\ 1 <= Len(q) /\ r = RemoveAt(q, 1)
          /\ q[1].kind # "post" /\ q[1].got = NoDetail
          /\ (q[1].kind = "open" => o = q[1].id) /\ (q[1].kind # "open" => o = p)
      BY <2>1, <2>5, <3>1
    <3>3. /\ RoutedAt(q, s, p, detail) => RoutedAt(r, s, o, detail)
          /\ MissingAt(q, s, p) => MissingAt(r, s, o)
          /\ FinalAt(q, s, detail, live) => FinalAt(r, s, detail, live)
      BY <3>2, RefusedQueue, Zenon
    <3> QED
      BY <1>1, <1>9, <2>1, <2>5, <3>1, <3>3
  <2> QED
    BY <1>21, <2>3, <2>4, <2>5, AnswerEffect
<1> QED
  BY <1>8, <1>10, <1>11, <1>12, <1>13, <1>14, <1>15, <1>16, <1>17, <1>18, <1>19, <1>20, <1>21
     DEF PageNext

\* The fragments on screen, behind a body that is whole.
LEMMA ScreenShows ==
    ASSUME NEW n \in Nat, detail.upto = n, Clean(live, detail.id)
    PROVE  OnScreen = [i \in 1 .. n |-> i]
<1>1. [i \in 1 .. n |-> i] \in Seq(Nat)
  OBVIOUS
<1>2. [i \in 1 .. n |-> i] \o <<>> = [i \in 1 .. n |-> i]
  BY <1>1, ConcatEmptySeq
<1> QED
  BY <1>2 DEF OnScreen, Clean

\* What the pane owes is paid once everything has arrived.
LEMMA PanePaid ==
    ASSUME Typed, PaneTyped, PaneOwes PROVE PaneSettles
<1> SUFFICES ASSUME Settled
             PROVE  IF truth[selected] = "absent" THEN problem = selected
                    ELSE /\ detail.id = selected /\ problem = None
                         /\ truth[selected] = "done" /\ shown[selected] # "absent" =>
                               /\ detail.done /\ detail.size = stored[selected]
                               /\ OnScreen = IF detail.size <= Inline
                                             THEN [n \in 1 .. detail.size |-> n] ELSE <<>>
  BY DEF PaneSettles
<1>1. /\ selected # None /\ fetches = <<>> /\ inbox = <<>> /\ clear = "no"
      /\ Len(fetches) = 0 /\ Len(inbox) = 0
  BY DEF Settled, AtRest
<1>2. \A k \in 1 .. 0 : FALSE
  OBVIOUS
<1>3. ~Leaving(selected) /\ ~Ending(selected)
  BY <1>1, <1>2 DEF Leaving, Ending
<1>4. /\ problem = selected \/ (problem = None /\ detail.id = selected)
      /\ truth[selected] = "absent" => problem = selected
      /\ truth[selected] = "done" /\ shown[selected] # "absent" =>
            detail.id = selected /\ detail.done /\ Clean(live, selected)
  BY <1>1, <1>2, <1>3 DEF PaneOwes, Lost, Ended, RoutedAt, MissingAt, FinalAt
<1>5. ASSUME truth[selected] # "absent" PROVE detail.id = selected /\ problem = None
  BY <1>1, <1>4, <1>5 DEF PaneTyped
<1>6. ASSUME truth[selected] = "done", shown[selected] # "absent"
      PROVE  /\ detail.done /\ detail.size = stored[selected]
             /\ OnScreen = IF detail.size <= Inline THEN [n \in 1 .. detail.size |-> n] ELSE <<>>
  <2>1. detail.done /\ detail.id = selected /\ Clean(live, detail.id)
    BY <1>4, <1>6
  <2>2. Told(detail, selected, truth, stored)
    BY <1>1, <2>1 DEF PaneTyped
  <2>3. detail.size \in Nat /\ detail.size = stored[selected]
        /\ detail.upto = IF detail.size <= Inline THEN detail.size ELSE 0
    BY <2>1, <2>2 DEF Told
  <2>4. OnScreen = [i \in 1 .. detail.upto |-> i]
    BY <2>1, <2>3, ScreenShows
  <2>5. [i \in 1 .. 0 |-> i] = <<>>
    OBVIOUS
  <2> QED
    BY <2>1, <2>3, <2>4, <2>5
<1> QED
  BY <1>4, <1>5, <1>6

(***************************************************************************)
(* Once everything has arrived the pane shows the entry that is selected,  *)
(* or says that it does not exist, and a finished entry with exactly its   *)
(* body: whatever fetches, refreshes, deltas, clicks, composed requests,   *)
(* purges and clears overlapped.  With the HTTP answers in the order of    *)
(* their requests and no traffic while the page starts or is disconnected; *)
(* for any number of entries, fragments and requests under way.            *)
(***************************************************************************)
THEOREM PagePaneSettles ==
    ASSUME Calm, InOrder PROVE PageSpec => []PaneSettles
<1> DEFINE PaneInv == Known /\ Follows /\ PaneTyped /\ PaneOwes
<1>1. PageInit => PaneInv
  <2> SUFFICES ASSUME PageInit PROVE PaneInv
    OBVIOUS
  <2>1. Known
    BY DEF PageInit, Init, Nothing, Known
  <2>2. inbox = <<>> /\ fetches = <<>> /\ selected = None /\ problem = None /\ detail = NoDetail
    BY DEF PageInit, Init
  <2>3. Len(<<>>) = 0 /\ (\A k \in 1 .. 0 : FALSE) /\ <<>> \in Seq(Requests)
    OBVIOUS
  <2>4. Follows /\ PaneOwes
    BY <2>2, <2>3 DEF Follows, PaneOwes
  <2>5. PaneTyped
    BY <2>2, <2>3, NoAnswers DEF PaneTyped, AllAsked
  <2> QED
    BY <2>1, <2>4, <2>5
<1>2. (Typed /\ Wired /\ PaneInv /\ [PageNext]_<<vars, extra>>) => PaneInv'
  BY NextStory, NextPaneTyped, NextOwes
<1>3. Typed /\ PaneInv => PaneSettles
  BY PanePaid
<1> QED
  BY <1>1, <1>2, <1>3, AlwaysSound, PTL DEF PageSpec
===============================================================================
