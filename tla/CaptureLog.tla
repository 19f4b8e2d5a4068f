------------------------------ MODULE CaptureLog ------------------------------
(***************************************************************************)
(* What recording a response promises, without formats, lines under way or *)
(* a clock: a caller gets the body as it comes; the record is a beginning  *)
(* of the body, never one with a hole, that reaches to the last line end   *)
(* whenever more is asked for; once it was cut off it stays as it is, and  *)
(* one that was not cut off is the whole body when the response is closed. *)
(***************************************************************************)
EXTENDS Naturals, Sequences

CONSTANTS
    Pieces,     \* what a backend may send at once
    LineFeed    \* the byte that ends a line

VARIABLES
    sent,       \* the bytes the backend has sent
    record,     \* the bytes recorded
    given,      \* the bytes the caller has got
    cut,        \* was the record cut off?
    closed      \* was the response closed?

logVars == <<sent, record, given, cut, closed>>

LogInit ==
    /\ sent = <<>> /\ record = <<>> /\ given = <<>>
    /\ cut = FALSE /\ closed = FALSE

\* No byte is asked for before the caller has all there is and the lines are recorded.
LogSend ==
    /\ ~closed /\ given = sent
    /\ ~cut => \A i \in Len(record) + 1 .. Len(sent) : sent[i] # LineFeed
    /\ \E piece \in Pieces : sent' = sent \o piece
    /\ UNCHANGED <<record, given, cut, closed>>

LogRecord ==
    /\ ~closed /\ ~cut
    /\ \E n \in Len(record) .. Len(sent) : record' = SubSeq(sent, 1, n)
    /\ UNCHANGED <<sent, given, cut, closed>>

LogCut ==
    /\ ~closed
    /\ cut' = TRUE
    /\ UNCHANGED <<sent, record, given, closed>>

LogGive ==
    /\ ~closed
    /\ given' = sent
    /\ UNCHANGED <<sent, record, cut, closed>>

\* Closing records the rest, unless the record is cut off.
LogClose ==
    /\ ~closed
    /\ closed' = TRUE
    /\ \/ ~cut /\ ~cut' /\ record' = sent
       \/ cut' /\ record' = record
    /\ UNCHANGED <<sent, given>>

LogNext == LogSend \/ LogRecord \/ LogCut \/ LogGive \/ LogClose

LogSpec == LogInit /\ [][LogNext]_logVars
===============================================================================
