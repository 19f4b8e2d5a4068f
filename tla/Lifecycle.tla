------------------------------- MODULE Lifecycle -------------------------------
(***************************************************************************)
(* The process of cmd/debugproxy/main.go around the broker: two servers,   *)
(* the exchanges and event streams they carry, and the way run stops them. *)
(*                                                                         *)
(* http.Server.Shutdown (external) closes its listeners at once and then   *)
(* waits until its connections are idle or the context is done; it does    *)
(* not cancel the requests under way.  Both calls share one deadline.  The *)
(* store of an exchange is reduced to whether Finalize's row is written.   *)
(***************************************************************************)
EXTENDS Broker

CONSTANTS
    Relays,     \* exchanges that come in through the proxy server
    Replays,    \* exchanges the web interface starts (Replay)
    MaxEvents   \* bound: events after which no further fragment is published

Exchanges == Relays \cup Replays

ASSUME LifeAssumption ==
    /\ MaxEvents \in Nat
    /\ Subs \cap Exchanges = {} /\ Relays \cap Replays = {}

VARIABLES
    main,       \* where run stands
    asked,      \* why run should stop: a signal, an error of a serve goroutine
    trapped,    \* signals are caught: stop has not been called
    listening,  \* the servers that accept connections
    expired,    \* the deadline of shutdown has passed
    accepted,   \* connections accepted so far
    ex,         \* where each exchange stands
    recorded,   \* exchanges whose row is written
    dbOpen      \* the database accepts statements

process  == <<main, asked, trapped, listening, expired, dbOpen>>
traffic  == <<accepted, ex, recorded>>
lifeVars == <<vars, process, traffic>>

Servers == {"proxy", "web"}
MainPCs == {"serving", "stop_proxy", "stop_web", "close_events", "close_db", "return", "exited"}

LifeTypeOK ==
    /\ main \in MainPCs
    /\ asked \subseteq {"signal", "error"} /\ trapped \in BOOLEAN /\ expired \in BOOLEAN /\ dbOpen \in BOOLEAN
    /\ listening \subseteq Servers
    /\ accepted \subseteq Subs \cup Exchanges
    /\ ex \in [Exchanges -> {"none", "sent", "publish", "over"}]
    /\ recorded \subseteq Exchanges

LifeInit ==
    /\ Init
    /\ main = "serving" /\ asked = {} /\ trapped = TRUE
    /\ listening = Servers /\ expired = FALSE /\ dbOpen = TRUE
    /\ accepted = {} /\ ex = [x \in Exchanges |-> "none"] /\ recorded = {}

Running == main # "exited"

-------------------------------------------------------------------------------
\* The server a connection belongs to.
Port(c) == IF c \in Relays THEN "proxy" ELSE "web"

Accept(c) ==
    /\ Running /\ c \notin accepted /\ Port(c) \in listening
    /\ accepted' = accepted \cup {c}
    /\ UNCHANGED <<ex, recorded, process, vars>>

\* Publish on a closed broker does nothing.
Announce == Publish \/ (closed /\ UNCHANGED vars)

\* ServeHTTP or replayRequest: Put registers the exchange.
Start(x) ==
    /\ Running /\ x \in accepted /\ ex[x] = "none"
    /\ ex' = [ex EXCEPT ![x] = "sent"]
    /\ Announce
    /\ UNCHANGED <<accepted, recorded, process>>

\* Update or AppendResponse.
Fragment(x) ==
    /\ Running /\ ex[x] = "sent" /\ published < MaxEvents
    /\ Announce
    /\ UNCHANGED <<process, traffic>>

\* Finalize writes the row; a closed database refuses it.
FinishInsert(x) ==
    /\ Running /\ ex[x] = "sent"
    /\ ex' = [ex EXCEPT ![x] = IF dbOpen THEN "publish" ELSE "over"]
    /\ recorded' = IF dbOpen THEN recorded \cup {x} ELSE recorded
    /\ UNCHANGED <<accepted, process, vars>>

FinishPublish(x) ==
    /\ Running /\ ex[x] = "publish"
    /\ ex' = [ex EXCEPT ![x] = "over"]
    /\ Announce
    /\ UNCHANGED <<accepted, recorded, process>>

\* The event stream of connection s.
Stream(s) ==
    /\ Running
    /\ (s \in accepted /\ Subscribe(s)) \/ Handler(s) \/ ClientGone(s)
    /\ UNCHANGED <<process, traffic>>

-------------------------------------------------------------------------------
(***************************************************************************)
(* What keeps Shutdown waiting: a relay is under way until its handler has *)
(* finalized it, a replay only until its goroutine is started, an event    *)
(* stream until its handler has left.                                      *)
(***************************************************************************)
Waits(server) ==
    IF server = "proxy"
    THEN {x \in Relays \cap accepted : ex[x] # "over"}
    ELSE {x \in Replays \cap accepted : ex[x] = "none"}
             \cup {s \in Subs \cap accepted : hpc[s] # "gone"}

Quiescent(server) == Waits(server) = {} \/ expired

\* A caught signal cancels the context; once stop was called it kills.
Signal ==
    /\ Running
    /\ asked' = asked \cup {"signal"}
    /\ main' = IF trapped THEN main ELSE "exited"
    /\ UNCHANGED <<trapped, listening, expired, dbOpen, traffic, vars>>

\* serve: ListenAndServe fails.
ServeFails(server) ==
    /\ Running /\ server \in listening
    /\ listening' = listening \ {server}
    /\ asked' = asked \cup {"error"}
    /\ UNCHANGED <<main, trapped, expired, dbOpen, traffic, vars>>

\* run's select; after an error it calls stop.
Stop ==
    /\ main = "serving"
    /\ \E why \in asked : trapped' = (why = "signal")
    /\ main' = "stop_proxy"
    /\ listening' = listening \ {"proxy"}
    /\ UNCHANGED <<asked, expired, dbOpen, traffic, vars>>

Deadline ==
    /\ main \in {"stop_proxy", "stop_web"} /\ ~expired
    /\ expired' = TRUE
    /\ UNCHANGED <<main, asked, trapped, listening, dbOpen, traffic, vars>>

\* Mutant: the two servers are not stopped one after the other.
ProxyStoppedAtOnce ==
    /\ main = "stop_proxy"
    /\ main' = "stop_web" /\ listening' = listening \ {"web"}
    /\ UNCHANGED <<asked, trapped, expired, dbOpen, traffic, vars>>

\* Shutdown of the proxy server returns, that of the web server begins.
ProxyStopped ==
    /\ main = "stop_proxy" /\ Quiescent("proxy")
    /\ main' = "stop_web" /\ listening' = listening \ {"web"}
    /\ UNCHANGED <<asked, trapped, expired, dbOpen, traffic, vars>>

\* Mutant: shutdown has no deadline.
WebStoppedPatient ==
    /\ main = "stop_web" /\ Waits("web") = {}
    /\ main' = "close_events" /\ trapped' = FALSE
    /\ UNCHANGED <<asked, listening, expired, dbOpen, traffic, vars>>

\* Shutdown of the web server returns; the deferred stop runs.
WebStopped ==
    /\ main = "stop_web" /\ Quiescent("web")
    /\ main' = "close_events" /\ trapped' = FALSE
    /\ UNCHANGED <<asked, listening, expired, dbOpen, traffic, vars>>

\* The deferred Store.Close: the broker ...
CloseEvents ==
    /\ main = "close_events"
    /\ main' = "close_db"
    /\ CloseBroker
    /\ UNCHANGED <<asked, trapped, listening, expired, dbOpen, traffic>>

\* ... then the database.
CloseDB ==
    /\ main = "close_db"
    /\ main' = "return"
    /\ dbOpen' = FALSE
    /\ UNCHANGED <<asked, trapped, listening, expired, traffic, vars>>

\* main returns, and every goroutine ends with it.
Exit ==
    /\ main = "return"
    /\ main' = "exited"
    /\ UNCHANGED <<asked, trapped, listening, expired, dbOpen, traffic, vars>>

Main == Stop \/ ProxyStopped \/ WebStopped \/ CloseEvents \/ CloseDB \/ Exit

LifeNext ==
    \/ Main \/ Deadline \/ Signal
    \/ \E server \in Servers : ServeFails(server)
    \/ \E c \in Subs \cup Exchanges : Accept(c)
    \/ \E x \in Exchanges : Start(x) \/ Fragment(x) \/ FinishInsert(x) \/ FinishPublish(x)
    \/ \E s \in Subs : Stream(s)

LifeSpec == LifeInit /\ [][LifeNext]_lifeVars

(***************************************************************************)
(* run and the handlers are scheduled, the timer of the deadline fires, a  *)
(* write to a client returns.  Nothing is assumed of backends, of clients  *)
(* or of connections that were accepted.                                   *)
(***************************************************************************)
LifeFairSpec ==
    /\ LifeSpec
    /\ WF_lifeVars(Main) /\ WF_lifeVars(Deadline)
    /\ \A s \in Subs : WF_lifeVars(Running /\ Handler(s) /\ UNCHANGED <<process, traffic>>)

-------------------------------------------------------------------------------
(***************************************************************************)
(* A process that is told to stop stops: neither a backend that never      *)
(* answers nor a browser that stays connected to the event stream, whose   *)
(* handler ends only when the broker closes, after both Shutdown calls,    *)
(* holds it.                                                               *)
(***************************************************************************)
Exits == asked # {} ~> ~Running

(***************************************************************************)
(* Unless the deadline passed, the database closes only behind the last    *)
(* exchange the proxy accepted: its row is written.  A replay has no such  *)
(* promise: nothing waits for its goroutine.                               *)
(***************************************************************************)
CleanStop == ~dbOpen /\ ~expired => Relays \cap accepted \subseteq recorded

(***************************************************************************)
(* A subscription that the broker dropped, for being slow or at shutdown,  *)
(* ends its handler, so the browser notices and no goroutine is left.      *)
(***************************************************************************)
StreamEnds ==
    \A s \in Subs : (hpc[s] \in {"loop", "write"} /\ s \notin subs)
                        ~> (hpc[s] = "gone" \/ ~Running)
===============================================================================
