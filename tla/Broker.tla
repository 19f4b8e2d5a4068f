------------------------------- MODULE Broker ---------------------------------
(***************************************************************************)
(* The event broker of internal/store/events.go and the SSE handler of     *)
(* internal/web/server.go that drains each subscription.                   *)
(*                                                                         *)
(* Publish, Subscribe, drop and Close each run under the broker's mutex,   *)
(* so each is one action; the handlers and the clients interleave with     *)
(* them.  Events are abstracted to their number in the order of            *)
(* publication.  Lifecycle bounds them and says when handlers are fair.    *)
(***************************************************************************)
EXTENDS Naturals, Sequences

CONSTANTS
    Subs,           \* the connections, one SSE handler and channel each
    BufferSize      \* subscriberBuffer

ASSUME BufferAssumption == BufferSize \in Nat \ {0}

VARIABLES
    closed,     \* Broker.closed
    subs,       \* Broker.subs
    chan,       \* what each channel buffers
    closes,     \* how often close was called on each channel
    hpc,        \* where each SSE handler stands
    ev,         \* the event a handler is writing to its client
    alive,      \* is the client still connected?
    got,        \* the last event the client received, or the last before it joined
    published   \* events published

handlers == <<hpc, ev, alive, got>>
vars == <<closed, subs, chan, closes, handlers, published>>

HandlerPCs == {"none", "loop", "write", "leave", "gone"}

TypeOK ==
    /\ closed \in BOOLEAN
    /\ subs \subseteq Subs
    /\ chan \in [Subs -> Seq(Nat)]
    /\ closes \in [Subs -> Nat]
    /\ hpc \in [Subs -> HandlerPCs]
    /\ ev \in [Subs -> Nat]
    /\ alive \in [Subs -> BOOLEAN]
    /\ got \in [Subs -> Nat]
    /\ published \in Nat

Init ==
    /\ closed = FALSE
    /\ subs = {}
    /\ chan = [s \in Subs |-> <<>>]
    /\ closes = [s \in Subs |-> 0]
    /\ hpc = [s \in Subs |-> "none"]
    /\ ev = [s \in Subs |-> 0]
    /\ alive = [s \in Subs |-> TRUE]
    /\ got = [s \in Subs |-> 0]
    /\ published = 0

-------------------------------------------------------------------------------
\* close(ch) of every channel in S.
CloseChannels(S) == closes' = [s \in Subs |-> closes[s] + (IF s \in S THEN 1 ELSE 0)]

\* A browser connects: a closed broker hands out a channel already closed.
Subscribe(s) ==
    /\ hpc[s] = "none"
    /\ hpc' = [hpc EXCEPT ![s] = "loop"]
    /\ got' = [got EXCEPT ![s] = published]
    /\ subs' = IF closed THEN subs ELSE subs \cup {s}
    /\ CloseChannels(IF closed THEN {s} ELSE {})
    /\ UNCHANGED <<closed, chan, ev, alive, published>>

\* The subscribers whose channel has no room left.
Saturated == {s \in subs : Len(chan[s]) >= BufferSize}

\* Mutant: a saturated subscriber misses the event and stays registered.
PublishSkips ==
    /\ ~closed
    /\ published' = published + 1
    /\ chan' = [s \in Subs |-> IF s \in subs \ Saturated
                               THEN Append(chan[s], published + 1) ELSE chan[s]]
    /\ UNCHANGED <<closed, subs, closes, handlers>>

\* A non-blocking send to each subscriber; a saturated one is dropped.
Publish ==
    /\ ~closed
    /\ published' = published + 1
    /\ chan' = [s \in Subs |-> IF s \in subs \ Saturated
                               THEN Append(chan[s], published + 1) ELSE chan[s]]
    /\ subs' = subs \ Saturated
    /\ CloseChannels(Saturated)
    /\ UNCHANGED <<closed, handlers>>

\* Store.Close: every subscriber is disconnected, once.
CloseBroker ==
    /\ ~closed
    /\ closed' = TRUE
    /\ subs' = {}
    /\ CloseChannels(subs)
    /\ UNCHANGED <<chan, handlers, published>>

-------------------------------------------------------------------------------
(***************************************************************************)
(* The SSE handler: a select over the request's context, the channel and   *)
(* the heartbeat.  A successful heartbeat changes nothing; a failed one    *)
(* ends the handler like a failed write, when the client is gone.          *)
(***************************************************************************)
Receive(s) ==
    /\ hpc[s] = "loop"
    /\ chan[s] # <<>>
    /\ ev' = [ev EXCEPT ![s] = Head(chan[s])]
    /\ chan' = [chan EXCEPT ![s] = Tail(chan[s])]
    /\ hpc' = [hpc EXCEPT ![s] = "write"]
    /\ UNCHANGED <<closed, subs, closes, alive, got, published>>

\* Mutant: the end of the channel is taken for an event.
ReceiveEndIgnored(s) ==
    /\ hpc[s] = "loop"
    /\ chan[s] = <<>> /\ closes[s] > 0
    /\ ev' = [ev EXCEPT ![s] = 0]
    /\ hpc' = [hpc EXCEPT ![s] = "write"]
    /\ UNCHANGED <<closed, subs, chan, closes, alive, got, published>>

\* A closed channel is drained before it reports its end.
ReceiveEnd(s) ==
    /\ hpc[s] = "loop"
    /\ chan[s] = <<>> /\ closes[s] > 0
    /\ hpc' = [hpc EXCEPT ![s] = "leave"]
    /\ UNCHANGED <<closed, subs, chan, closes, ev, alive, got, published>>

Deliver(s) ==
    /\ hpc[s] = "write"
    /\ alive[s]
    /\ got' = [got EXCEPT ![s] = ev[s]]
    /\ hpc' = [hpc EXCEPT ![s] = "loop"]
    /\ UNCHANGED <<closed, subs, chan, closes, ev, alive, published>>

\* The context is done, or a write or a heartbeat fails.
Disconnected(s) ==
    /\ hpc[s] \in {"loop", "write"}
    /\ ~alive[s]
    /\ hpc' = [hpc EXCEPT ![s] = "leave"]
    /\ UNCHANGED <<closed, subs, chan, closes, ev, alive, got, published>>

\* Mutant: drop does not check that the channel is still registered.
UnsubscribeAlways(s) ==
    /\ hpc[s] = "leave"
    /\ subs' = subs \ {s}
    /\ CloseChannels({s})
    /\ hpc' = [hpc EXCEPT ![s] = "gone"]
    /\ UNCHANGED <<closed, chan, ev, alive, got, published>>

\* The deferred unsubscribe: drop, unless the broker already did.
Unsubscribe(s) ==
    /\ hpc[s] = "leave"
    /\ subs' = subs \ {s}
    /\ CloseChannels({s} \cap subs)
    /\ hpc' = [hpc EXCEPT ![s] = "gone"]
    /\ UNCHANGED <<closed, chan, ev, alive, got, published>>

ClientGone(s) ==
    /\ hpc[s] \in {"loop", "write"}
    /\ alive[s]
    /\ alive' = [alive EXCEPT ![s] = FALSE]
    /\ UNCHANGED <<closed, subs, chan, closes, hpc, ev, got, published>>

Handler(s) == Receive(s) \/ ReceiveEnd(s) \/ Deliver(s) \/ Disconnected(s) \/ Unsubscribe(s)

Next ==
    \/ Publish \/ CloseBroker
    \/ \E s \in Subs : Subscribe(s) \/ Handler(s) \/ ClientGone(s)

Spec == Init /\ [][Next]_vars

-------------------------------------------------------------------------------
(***************************************************************************)
(* No send on a closed channel and no second close, either of which would  *)
(* panic the goroutine that publishes, a relay included: Publish, drop and *)
(* Close all close channels, from different goroutines.                    *)
(***************************************************************************)
NoPanic ==
    \A s \in Subs : closes[s] <= 1 /\ (s \in subs => closes[s] = 0)

\* The last event a handler has taken from its channel.
Taken(s) == IF hpc[s] = "write" THEN ev[s] ELSE got[s]

(***************************************************************************)
(* A channel holds consecutive events that follow the last one taken, and  *)
(* while it is registered they reach to the last one published: a dropped  *)
(* subscriber has seen a prefix, never a stream with a hole.               *)
(***************************************************************************)
Contiguous ==
    \A s \in Subs : hpc[s] \in {"loop", "write"} =>
        /\ \A i \in 1 .. Len(chan[s]) : chan[s][i] = Taken(s) + i
        /\ s \in subs => Taken(s) + Len(chan[s]) = published

(***************************************************************************)
(* The broker and its handlers implement the promise of EventFeed.         *)
(***************************************************************************)
Phase(s) == CASE hpc[s] = "none" -> "out"
              [] hpc[s] \in {"leave", "gone"} -> "over"
              [] OTHER -> "in"

Feed == INSTANCE EventFeed
            WITH Clients <- Subs, last <- got, phase <- [s \in Subs |-> Phase(s)]

ImplementsFeed == Feed!FeedSpec
===============================================================================
