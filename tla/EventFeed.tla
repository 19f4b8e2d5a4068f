------------------------------ MODULE EventFeed -------------------------------
(***************************************************************************)
(* What the event stream promises a browser, without channels, buffers or  *)
(* handlers: a client that connects receives the events published from     *)
(* then on, in order and without a gap, up to the moment its stream ends.  *)
(***************************************************************************)
EXTENDS Naturals

CONSTANT Clients

VARIABLES
    published,  \* events published so far, numbered 1, 2, ...
    phase,      \* "out", "in" or "over" for each client
    last        \* the number of the last event each client has seen

feedVars == <<published, phase, last>>

FeedInit ==
    /\ published = 0
    /\ phase = [s \in Clients |-> "out"]
    /\ last = [s \in Clients |-> 0]

FeedPublish ==
    /\ published' = published + 1
    /\ UNCHANGED <<phase, last>>

FeedJoin(s) ==
    /\ phase[s] = "out"
    /\ phase' = [phase EXCEPT ![s] = "in"]
    /\ last' = [last EXCEPT ![s] = published]
    /\ UNCHANGED published

FeedDeliver(s) ==
    /\ phase[s] = "in"
    /\ last[s] < published
    /\ last' = [last EXCEPT ![s] = last[s] + 1]
    /\ UNCHANGED <<published, phase>>

FeedEnd(s) ==
    /\ phase[s] = "in"
    /\ phase' = [phase EXCEPT ![s] = "over"]
    /\ UNCHANGED <<published, last>>

FeedNext ==
    \/ FeedPublish
    \/ \E s \in Clients : FeedJoin(s) \/ FeedDeliver(s) \/ FeedEnd(s)

FeedSpec == FeedInit /\ [][FeedNext]_feedVars
===============================================================================
