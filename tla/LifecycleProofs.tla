---------------------------- MODULE LifecycleProofs ----------------------------
(***************************************************************************)
(* Proofs about the broker, for any set of connections, any buffer size and *)
(* any number of events, and about the process around it, for any          *)
(* connections and exchanges: the broker inside the process is the broker  *)
(* of Broker, and a stop within the deadline loses no exchange of the proxy. *)
(***************************************************************************)
EXTENDS Lifecycle, SequenceTheorems, TLAPS

-------------------------------------------------------------------------------
(***************************************************************************)
(* The broker.                                                             *)
(***************************************************************************)
(***************************************************************************)
(* Life cycle: a closed broker has no subscriber, a registered channel has *)
(* a handler that has not unsubscribed, and the channel of a connection    *)
(* that has not been made is pristine.                                     *)
(***************************************************************************)
LifeCycle ==
    \A s \in Subs :
        /\ closed => s \notin subs
        /\ s \in subs => hpc[s] \in {"loop", "write", "leave"}
        /\ hpc[s] = "none" => closes[s] = 0 /\ chan[s] = <<>>

\* Contiguous, and what it takes for the next delivery to be the next event.
InOrder ==
    \A s \in Subs : hpc[s] \in {"loop", "write"} =>
        /\ \A i \in 1 .. Len(chan[s]) : chan[s][i] = Taken(s) + i
        /\ Taken(s) + Len(chan[s]) <= published
        /\ s \in subs => Taken(s) + Len(chan[s]) = published
        /\ hpc[s] = "write" => ev[s] = got[s] + 1

\* The inductive invariant.
Inv == TypeOK /\ NoPanic /\ LifeCycle /\ InOrder

(***************************************************************************)
(* Publish appends the next event to a gap-free channel.                   *)
(***************************************************************************)
LEMMA AppendNext ==
    ASSUME NEW q \in Seq(Nat), NEW t \in Nat, NEW p \in Nat,
           \A i \in 1 .. Len(q) : q[i] = t + i, t + Len(q) = p
    PROVE  /\ Append(q, p + 1) \in Seq(Nat)
           /\ Len(Append(q, p + 1)) = Len(q) + 1
           /\ \A i \in 1 .. Len(Append(q, p + 1)) : Append(q, p + 1)[i] = t + i
BY AppendProperties, LenProperties

(***************************************************************************)
(* Receive takes the next event off a gap-free channel.                    *)
(***************************************************************************)
LEMMA TakeNext ==
    ASSUME NEW q \in Seq(Nat), NEW t \in Nat, q # <<>>,
           \A i \in 1 .. Len(q) : q[i] = t + i
    PROVE  /\ Head(q) = t + 1
           /\ Tail(q) \in Seq(Nat)
           /\ Len(Tail(q)) = Len(q) - 1
           /\ \A i \in 1 .. Len(Tail(q)) : Tail(q)[i] = t + 1 + i
<1>1. Len(q) \in Nat /\ Len(q) # 0
  BY LenProperties, EmptySeq
<1>2. Head(q) = q[1]
  BY <1>1
<1>3. /\ Tail(q) \in Seq(Nat)
      /\ Len(Tail(q)) = Len(q) - 1
      /\ \A i \in 1 .. Len(Tail(q)) : Tail(q)[i] = q[i + 1]
  BY HeadTailProperties
<1> QED
  BY <1>1, <1>2, <1>3
-------------------------------------------------------------------------------
\* The inductive invariant holds before anyone subscribed.
LEMMA InitInv == Init => Inv
<1> SUFFICES ASSUME Init PROVE Inv
  OBVIOUS
<1> USE DEF Init
<1>1. TypeOK
  BY EmptySeq DEF TypeOK, HandlerPCs
<1>2. NoPanic /\ LifeCycle
  BY DEF NoPanic, LifeCycle
<1>3. InOrder
  BY DEF InOrder
<1> QED
  BY <1>1, <1>2, <1>3 DEF Inv

(***************************************************************************)
(* Closing the channels of registered connections, or of new ones, cannot  *)
(* close one twice.                                                        *)
(***************************************************************************)
LEMMA SubscribeInv ==
    ASSUME Inv, NEW s \in Subs, Subscribe(s) PROVE Inv'
<1> USE DEF Inv, Subscribe, CloseChannels
<1>1. TypeOK'
  BY DEF TypeOK, HandlerPCs
<1>2. NoPanic'
  BY DEF TypeOK, NoPanic, LifeCycle
<1>3. LifeCycle'
  BY DEF TypeOK, LifeCycle
<1>4. InOrder'
  <2> SUFFICES ASSUME NEW t \in Subs, hpc'[t] \in {"loop", "write"}
               PROVE  /\ \A i \in 1 .. Len(chan'[t]) : chan'[t][i] = Taken(t)' + i
                      /\ Taken(t)' + Len(chan'[t]) <= published'
                      /\ t \in subs' => Taken(t)' + Len(chan'[t]) = published'
                      /\ hpc'[t] = "write" => ev'[t] = got'[t] + 1
    BY DEF InOrder
  <2>1. CASE t = s
    <3>1. chan'[t] = <<>> /\ hpc'[t] = "loop" /\ got'[t] = published
      BY <2>1 DEF TypeOK, LifeCycle
    <3>2. Taken(t)' = published /\ Len(chan'[t]) = 0
      BY <3>1 DEF Taken
    <3> QED
      BY <3>1, <3>2 DEF TypeOK
  <2>2. CASE t # s
    <3>1. hpc'[t] = hpc[t] /\ Taken(t)' = Taken(t) /\ (t \in subs' <=> t \in subs)
      BY <2>2 DEF TypeOK, Taken
    <3> QED
      BY <2>2, <3>1 DEF TypeOK, InOrder
  <2> QED
    BY <2>1, <2>2
<1> QED
  BY <1>1, <1>2, <1>3, <1>4

\* Publish extends the channels with room by one event and closes the others.
LEMMA PublishInv ==
    ASSUME Inv, Publish PROVE Inv'
<1> USE DEF Inv, Publish, CloseChannels, handlers
<1>0. Saturated \subseteq subs /\ subs \subseteq Subs
  BY DEF Saturated, TypeOK
<1>1. \A s \in Subs : Append(chan[s], published + 1) \in Seq(Nat)
  BY AppendProperties DEF TypeOK
<1>2. TypeOK'
  <2>1. chan' \in [Subs -> Seq(Nat)]
    BY <1>1 DEF TypeOK
  <2> QED
    BY <1>0, <2>1 DEF TypeOK
<1>3. NoPanic'
  BY <1>0 DEF TypeOK, NoPanic
<1>4. LifeCycle'
  BY <1>0 DEF TypeOK, LifeCycle
<1>5. InOrder'
  <2> SUFFICES ASSUME NEW t \in Subs, hpc[t] \in {"loop", "write"}
               PROVE  /\ \A i \in 1 .. Len(chan'[t]) : chan'[t][i] = Taken(t) + i
                      /\ Taken(t) + Len(chan'[t]) <= published'
                      /\ t \in subs' => Taken(t) + Len(chan'[t]) = published'
                      /\ hpc[t] = "write" => ev[t] = got[t] + 1
    BY DEF InOrder, Taken
  <2>0. Taken(t) \in Nat /\ published \in Nat /\ chan[t] \in Seq(Nat) /\ Len(chan[t]) \in Nat
    BY LenProperties DEF TypeOK, Taken
  <2>1. CASE t \in subs \ Saturated
    <3>1. chan'[t] = Append(chan[t], published + 1)
      BY <2>1
    <3>2. Taken(t) + Len(chan[t]) = published
      BY <2>1 DEF InOrder
    <3>3. \A i \in 1 .. Len(chan[t]) : chan[t][i] = Taken(t) + i
      BY DEF InOrder
    <3>4. /\ Len(chan'[t]) = Len(chan[t]) + 1
          /\ \A i \in 1 .. Len(chan'[t]) : chan'[t][i] = Taken(t) + i
      <4>1. /\ Len(Append(chan[t], published + 1)) = Len(chan[t]) + 1
            /\ \A i \in 1 .. Len(Append(chan[t], published + 1)) :
                  Append(chan[t], published + 1)[i] = Taken(t) + i
        BY <2>0, <3>2, <3>3, AppendNext
      <4> HIDE DEF Inv, Publish
      <4> QED
        BY <3>1, <4>1
    <3> QED
      BY <2>0, <3>2, <3>4 DEF InOrder
  <2>2. CASE t \notin subs \ Saturated
    BY <2>0, <2>2 DEF InOrder
  <2> QED
    BY <2>1, <2>2
<1> QED
  BY <1>2, <1>3, <1>4, <1>5

\* Close of the broker closes each registered channel once.
LEMMA CloseInv ==
    ASSUME Inv, CloseBroker PROVE Inv'
<1> USE DEF Inv, CloseBroker, CloseChannels, handlers
<1>1. TypeOK'
  BY DEF TypeOK
<1>2. NoPanic'
  BY DEF TypeOK, NoPanic
<1>3. LifeCycle'
  <2>1. \A s \in Subs : hpc[s] = "none" => closes'[s] = closes[s]
    <3>1. \A s \in Subs : hpc[s] = "none" => s \notin subs
      BY DEF LifeCycle
    <3>2. closes \in [Subs -> Nat] /\ CloseChannels(subs)
      BY DEF TypeOK
    <3> HIDE DEF Inv, CloseBroker
    <3> QED
      BY <3>1, <3>2
  <2>2. subs' = {} /\ hpc' = hpc /\ chan' = chan
    OBVIOUS
  <2>3. \A s \in Subs : hpc[s] = "none" => closes[s] = 0 /\ chan[s] = <<>>
    BY DEF LifeCycle
  <2> HIDE DEF Inv, CloseBroker
  <2> QED
    BY <2>1, <2>2, <2>3, Zenon DEF LifeCycle
<1>4. InOrder'
  BY DEF InOrder, Taken
<1> QED
  BY <1>1, <1>2, <1>3, <1>4

\* A handler takes the head of its channel.
LEMMA ReceiveInv ==
    ASSUME Inv, NEW s \in Subs, Receive(s) PROVE Inv'
<1> USE DEF Inv, Receive
<1>0. /\ chan[s] \in Seq(Nat) /\ got[s] \in Nat /\ Taken(s) = got[s]
      /\ \A i \in 1 .. Len(chan[s]) : chan[s][i] = got[s] + i
  BY DEF TypeOK, InOrder, Taken
<1>1. /\ Head(chan[s]) = got[s] + 1
      /\ Tail(chan[s]) \in Seq(Nat)
      /\ Len(Tail(chan[s])) = Len(chan[s]) - 1
      /\ \A i \in 1 .. Len(Tail(chan[s])) : Tail(chan[s])[i] = got[s] + 1 + i
  BY <1>0, TakeNext
<1>2. TypeOK'
  BY <1>0, <1>1 DEF TypeOK, HandlerPCs
<1>3. NoPanic'
  BY DEF NoPanic
<1>4. LifeCycle'
  BY DEF TypeOK, LifeCycle
<1>5. InOrder'
  <2> SUFFICES ASSUME NEW t \in Subs, hpc'[t] \in {"loop", "write"}
               PROVE  /\ \A i \in 1 .. Len(chan'[t]) : chan'[t][i] = Taken(t)' + i
                      /\ Taken(t)' + Len(chan'[t]) <= published'
                      /\ t \in subs' => Taken(t)' + Len(chan'[t]) = published'
                      /\ hpc'[t] = "write" => ev'[t] = got'[t] + 1
    BY DEF InOrder
  <2>1. CASE t = s
    <3>1. /\ chan'[t] = Tail(chan[s]) /\ hpc'[t] = "write"
          /\ ev'[t] = got[s] + 1 /\ got'[t] = got[s] /\ Taken(t)' = got[s] + 1
      BY <1>1, <2>1 DEF TypeOK, Taken
    <3>2. /\ got[s] + Len(chan[s]) <= published
          /\ s \in subs => got[s] + Len(chan[s]) = published
          /\ Len(chan[s]) \in Nat /\ published \in Nat
      BY <1>0, LenProperties DEF InOrder, TypeOK
    <3>3. subs' = subs /\ published' = published
      OBVIOUS
    <3> HIDE DEF Inv, Receive
    <3>4. \A i \in 1 .. Len(chan'[t]) : chan'[t][i] = Taken(t)' + i
      BY <1>1, <3>1
    <3>5. Taken(t)' + Len(chan'[t]) = got[s] + Len(chan[s])
      BY <1>0, <1>1, <3>1, <3>2
    <3> QED
      BY <2>1, <3>1, <3>2, <3>3, <3>4, <3>5
  <2>2. CASE t # s
    <3>1. hpc'[t] = hpc[t] /\ Taken(t)' = Taken(t) /\ chan'[t] = chan[t] /\ ev'[t] = ev[t]
      BY <2>2 DEF TypeOK, Taken
    <3> QED
      BY <3>1 DEF InOrder
  <2> QED
    BY <2>1, <2>2
<1> QED
  BY <1>2, <1>3, <1>4, <1>5

\* A handler writes to its client the event it has taken.
LEMMA DeliverInv ==
    ASSUME Inv, NEW s \in Subs, Deliver(s) PROVE Inv'
<1> USE DEF Inv, Deliver
<1>1. TypeOK'
  BY DEF TypeOK, HandlerPCs
<1>2. NoPanic'
  BY DEF NoPanic
<1>3. LifeCycle'
  BY DEF TypeOK, LifeCycle
<1>4. \A t \in Subs : Taken(t)' = Taken(t)
  BY DEF TypeOK, Taken
<1>5. \A t \in Subs : hpc'[t] \in {"loop", "write"} => hpc[t] \in {"loop", "write"}
  BY DEF TypeOK
<1>6. \A t \in Subs : hpc'[t] = "write" => hpc[t] = "write" /\ got'[t] = got[t]
  BY DEF TypeOK
<1>7. InOrder'
  BY <1>4, <1>5, <1>6 DEF InOrder
<1> QED
  BY <1>1, <1>2, <1>3, <1>7

(***************************************************************************)
(* The steps that end a handler, and the client's departure.               *)
(***************************************************************************)
LEMMA LeavingInv ==
    ASSUME Inv, NEW s \in Subs, ReceiveEnd(s) \/ Disconnected(s) \/ ClientGone(s)
    PROVE  Inv'
<1> USE DEF Inv, ReceiveEnd, Disconnected, ClientGone
<1>1. TypeOK'
  BY DEF TypeOK, HandlerPCs
<1>2. NoPanic'
  BY DEF NoPanic
<1>3. LifeCycle'
  BY DEF TypeOK, LifeCycle
<1>4. InOrder'
  <2>1. \A t \in Subs : hpc'[t] \in {"loop", "write"} => hpc'[t] = hpc[t]
    BY DEF TypeOK
  <2>2. \A t \in Subs : hpc'[t] \in {"loop", "write"} => Taken(t)' = Taken(t)
    BY <2>1 DEF Taken
  <2>3. UNCHANGED <<subs, chan, ev, got, published>>
    OBVIOUS
  <2> HIDE DEF ReceiveEnd, Disconnected, ClientGone
  <2> QED
    BY <2>1, <2>2, <2>3 DEF InOrder
<1> QED
  BY <1>1, <1>2, <1>3, <1>4

\* The deferred drop closes the channel only if it is still registered.
LEMMA UnsubscribeInv ==
    ASSUME Inv, NEW s \in Subs, Unsubscribe(s) PROVE Inv'
<1> USE DEF Inv, Unsubscribe, CloseChannels
<1>1. TypeOK'
  BY DEF TypeOK, HandlerPCs
<1>2. NoPanic'
  BY DEF TypeOK, NoPanic
<1>3. LifeCycle'
  BY DEF TypeOK, LifeCycle
<1>4. InOrder'
  BY DEF TypeOK, InOrder, Taken
<1> QED
  BY <1>1, <1>2, <1>3, <1>4

\* Every step preserves the inductive invariant.
LEMMA NextInv == Inv /\ [Next]_vars => Inv'
<1> SUFFICES ASSUME Inv, [Next]_vars PROVE Inv'
  OBVIOUS
<1>1. CASE Publish
  BY <1>1, PublishInv
<1>2. CASE CloseBroker
  BY <1>2, CloseInv
<1>3. CASE \E s \in Subs : Subscribe(s) \/ Handler(s) \/ ClientGone(s)
  BY <1>3, SubscribeInv, ReceiveInv, DeliverInv, LeavingInv, UnsubscribeInv DEF Handler
<1>4. CASE UNCHANGED vars
  BY <1>4 DEF vars, handlers, Inv, TypeOK, NoPanic, LifeCycle, InOrder, Taken
<1> QED
  BY <1>1, <1>2, <1>3, <1>4 DEF Next

\* The inductive invariant holds in every reachable state.
THEOREM InvHolds == Spec => []Inv
BY InitInv, NextInv, PTL DEF Spec

-------------------------------------------------------------------------------
(***************************************************************************)
(* Broker.Publish, drop and Close never close a channel twice and Publish  *)
(* never sends on a closed one.                                            *)
(***************************************************************************)
THEOREM BrokerNoPanic == Spec => []NoPanic
<1>1. Inv => NoPanic
  BY DEF Inv
<1> QED
  BY <1>1, InvHolds, PTL

(***************************************************************************)
(* What a subscriber has still to receive follows what it received without *)
(* a gap, and reaches the last event while it is registered.               *)
(***************************************************************************)
THEOREM BrokerContiguous == Spec => []Contiguous
<1>1. Inv => Contiguous
  BY DEF Inv, InOrder, Contiguous
<1> QED
  BY <1>1, InvHolds, PTL

(***************************************************************************)
(* The broker with its SSE handlers implements EventFeed: every client     *)
(* sees the events published since it joined, in order, up to its end.     *)
(***************************************************************************)
THEOREM BrokerImplementsFeed == Spec => ImplementsFeed
<1> USE DEF Feed!feedVars
<1>1. Init => Feed!FeedInit
  BY DEF Init, Feed!FeedInit, Phase
<1>2. Inv /\ [Next]_vars => [Feed!FeedNext]_(Feed!feedVars)
  <2> SUFFICES ASSUME Inv, [Next]_vars PROVE [Feed!FeedNext]_(Feed!feedVars)
    OBVIOUS
  <2>1. CASE Publish
    BY <2>1 DEF Publish, handlers, Feed!FeedNext, Feed!FeedPublish, Phase
  <2>2. CASE CloseBroker
    BY <2>2 DEF CloseBroker, handlers, Phase
  <2>3. ASSUME NEW s \in Subs, Subscribe(s) PROVE Feed!FeedJoin(s)
    BY <2>3 DEF Inv, TypeOK, Subscribe, Feed!FeedJoin, Phase
  <2>4. ASSUME NEW s \in Subs, Deliver(s) PROVE Feed!FeedDeliver(s)
    <3>1. got'[s] = got[s] + 1 /\ got[s] < published
      BY <2>4, LenProperties DEF Inv, TypeOK, InOrder, Deliver, Taken
    <3> QED
      BY <2>4, <3>1 DEF Inv, TypeOK, Deliver, Feed!FeedDeliver, Phase
  <2>5. ASSUME NEW s \in Subs, ReceiveEnd(s) \/ Disconnected(s) PROVE Feed!FeedEnd(s)
    BY <2>5 DEF Inv, TypeOK, ReceiveEnd, Disconnected, Feed!FeedEnd, Phase
  <2>6. ASSUME NEW s \in Subs, Receive(s) \/ Unsubscribe(s) \/ ClientGone(s)
        PROVE  UNCHANGED Feed!feedVars
    BY <2>6 DEF Inv, TypeOK, Receive, Unsubscribe, ClientGone, Phase
  <2>7. CASE UNCHANGED vars
    BY <2>7 DEF vars, handlers, Phase
  <2> QED
    BY <2>1, <2>2, <2>3, <2>4, <2>5, <2>6, <2>7 DEF Next, Handler, Feed!FeedNext
<1> QED
  BY <1>1, <1>2, InvHolds, PTL DEF Spec, ImplementsFeed, Feed!FeedSpec

-------------------------------------------------------------------------------
(***************************************************************************)
(* The process.                                                            *)
(***************************************************************************)
(***************************************************************************)
(* Every step of the process is a step of the broker or leaves it alone.   *)
(***************************************************************************)
LEMMA LifeStep == [LifeNext]_lifeVars => [Next]_vars
<1> SUFFICES ASSUME [LifeNext]_lifeVars PROVE [Next]_vars
  OBVIOUS
<1>1. CASE Main
  BY <1>1 DEF Main, Stop, ProxyStopped, WebStopped, CloseEvents, CloseDB, Exit, Next
<1>2. CASE Deadline \/ Signal
  BY <1>2 DEF Deadline, Signal
<1>3. ASSUME NEW server \in Servers, ServeFails(server) PROVE UNCHANGED vars
  BY <1>3 DEF ServeFails
<1>4. ASSUME NEW c \in Subs \cup Exchanges, Accept(c) PROVE UNCHANGED vars
  BY <1>4 DEF Accept
<1>5. ASSUME NEW x \in Exchanges,
             Start(x) \/ Fragment(x) \/ FinishInsert(x) \/ FinishPublish(x)
      PROVE  [Next]_vars
  BY <1>5 DEF Start, Fragment, FinishInsert, FinishPublish, Announce, Next
<1>6. ASSUME NEW s \in Subs, Stream(s) PROVE Next
  BY <1>6 DEF Stream, Next
<1>7. CASE UNCHANGED lifeVars
  BY <1>7 DEF lifeVars
<1> QED
  BY <1>1, <1>2, <1>3, <1>4, <1>5, <1>6, <1>7 DEF LifeNext

(***************************************************************************)
(* The process implements the broker.                                      *)
(***************************************************************************)
THEOREM LifeIsBroker == LifeSpec => Spec
<1>1. LifeInit => Init
  BY DEF LifeInit
<1> QED
  BY <1>1, LifeStep, PTL DEF LifeSpec, Spec

(***************************************************************************)
(* No goroutine of the process panics on a channel, whatever publishes     *)
(* while it stops.                                                         *)
(***************************************************************************)
THEOREM LifeNoPanic == LifeSpec => []NoPanic
BY LifeIsBroker, BrokerNoPanic, PTL

(***************************************************************************)
(* The channels of the process are gap-free, at shutdown too.              *)
(***************************************************************************)
THEOREM LifeContiguous == LifeSpec => []Contiguous
BY LifeIsBroker, BrokerContiguous, PTL

(***************************************************************************)
(* Browsers see EventFeed, and the end of it when the process stops.       *)
(***************************************************************************)
THEOREM LifeImplementsFeed == LifeSpec => ImplementsFeed
BY LifeIsBroker, BrokerImplementsFeed, PTL

-------------------------------------------------------------------------------
\* The proxy has stopped: run is past the first Shutdown, or the database is closed.
Behind == main \in {"stop_web", "close_events", "close_db", "return"} \/ ~dbOpen

\* The order in which run lets go of signals, of the listener and of the database.
StopOrder ==
    /\ main = "serving" => trapped
    /\ main # "serving" => "proxy" \notin listening
    /\ ~dbOpen => main \in {"return", "exited"}

\* While the database is open, an exchange that got past its insert is recorded.
InsertsKept == dbOpen => \A x \in Exchanges : ex[x] \in {"publish", "over"} => x \in recorded

\* CleanStop, from the moment the first Shutdown returned.
RelaysKept == Behind /\ ~expired => Relays \cap accepted \subseteq recorded

\* The inductive invariant.
LifeInv == LifeTypeOK /\ StopOrder /\ InsertsKept /\ RelaysKept

LEMMA LifeInvInit == LifeInit => LifeInv
BY DEF LifeInit, LifeInv, LifeTypeOK, StopOrder, InsertsKept, RelaysKept, Behind, MainPCs

(***************************************************************************)
(* run's own steps.                                                        *)
(***************************************************************************)
LEMMA MainKeeps == LifeInv /\ Main => LifeInv'
<1> SUFFICES ASSUME LifeInv, Main PROVE LifeInv'
  OBVIOUS
<1> USE DEF LifeInv, LifeTypeOK, StopOrder, InsertsKept, RelaysKept, Behind, MainPCs, traffic
<1>1. CASE Stop
  BY <1>1 DEF Stop
<1>2. CASE ProxyStopped
  <2>1. ~expired => \A x \in Relays \cap accepted : ex[x] = "over"
    BY <1>2 DEF ProxyStopped, Quiescent, Waits
  <2>2. ~expired => Relays \cap accepted \subseteq recorded
    BY <1>2, <2>1 DEF ProxyStopped, Exchanges
  <2> QED
    BY <1>2, <2>2 DEF ProxyStopped
<1>3. CASE WebStopped
  BY <1>3 DEF WebStopped
<1>4. CASE CloseEvents
  BY <1>4 DEF CloseEvents
<1>5. CASE CloseDB
  BY <1>5 DEF CloseDB
<1>6. CASE Exit
  BY <1>6 DEF Exit
<1> QED
  BY <1>1, <1>2, <1>3, <1>4, <1>5, <1>6 DEF Main

(***************************************************************************)
(* The steps of the exchanges.                                             *)
(***************************************************************************)
LEMMA ExchangeKeeps ==
    ASSUME LifeInv, NEW x \in Exchanges,
           Start(x) \/ Fragment(x) \/ FinishInsert(x) \/ FinishPublish(x)
    PROVE  LifeInv'
<1> USE DEF LifeInv, LifeTypeOK, StopOrder, InsertsKept, RelaysKept, Behind, process, traffic
<1>1. CASE Start(x)
  BY <1>1 DEF Start
<1>2. CASE Fragment(x)
  BY <1>2 DEF Fragment
<1>3. CASE FinishInsert(x)
  BY <1>3 DEF FinishInsert
<1>4. CASE FinishPublish(x)
  BY <1>4 DEF FinishPublish
<1> QED
  BY <1>1, <1>2, <1>3, <1>4

LEMMA LifeInvNext == LifeInv /\ [LifeNext]_lifeVars => LifeInv'
<1> SUFFICES ASSUME LifeInv, [LifeNext]_lifeVars PROVE LifeInv'
  OBVIOUS
<1> USE DEF LifeInv, LifeTypeOK, StopOrder, InsertsKept, RelaysKept, Behind, process, traffic
<1>1. CASE Deadline
  BY <1>1 DEF Deadline
<1>2. CASE Signal
  BY <1>2 DEF Signal, MainPCs, Running
<1>3. ASSUME NEW server \in Servers, ServeFails(server) PROVE LifeInv'
  BY <1>3 DEF ServeFails
<1>4. ASSUME NEW c \in Subs \cup Exchanges, Accept(c) PROVE LifeInv'
  BY <1>4 DEF Accept, Port
<1>5. ASSUME NEW s \in Subs, Stream(s) PROVE LifeInv'
  BY <1>5 DEF Stream
<1>6. CASE UNCHANGED lifeVars
  BY <1>6 DEF lifeVars
<1> QED
  BY <1>1, <1>2, <1>3, <1>4, <1>5, <1>6, MainKeeps, ExchangeKeeps DEF LifeNext

THEOREM LifeInvHolds == LifeSpec => []LifeInv
BY LifeInvInit, LifeInvNext, PTL DEF LifeSpec

(***************************************************************************)
(* When the deadline did not pass, every exchange the proxy accepted is in *)
(* the database before it closes.                                          *)
(***************************************************************************)
THEOREM LifeCleanStop == LifeSpec => []CleanStop
<1>1. LifeInv => CleanStop
  BY DEF LifeInv, RelaysKept, Behind, CleanStop
<1> QED
  BY <1>1, LifeInvHolds, PTL
===============================================================================
