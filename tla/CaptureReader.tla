----------------------------- MODULE CaptureReader -----------------------------
(***************************************************************************)
(* The capture reader of internal/proxy/capture.go, between a backend that *)
(* sends a response and the client (or the io.Copy of a replay) that reads *)
(* it.  A chunk read from the backend is first handed to the store, whole  *)
(* or, for a streamed format, cut into lines, and then returned to the     *)
(* caller.                                                                 *)
(*                                                                         *)
(* Bytes are abstracted to Newline and Other, formats to those that are    *)
(* captured whole ("json", "xml": Whole), those that are streamed          *)
(* ("ndjson", "sse": Stream) and the unknown one (Raw).  What sniffFormat  *)
(* makes of a first chunk is any of the three.  The store's entry is       *)
(* reduced to the body it accepted and to its time of last activity.       *)
(***************************************************************************)
EXTENDS Naturals, Sequences

CONSTANTS
    MaxReads,       \* bound: chunks read from the backend
    MaxChunk,       \* bound: bytes of a chunk
    Timeout         \* PENDING_TIMEOUT, in ticks of the clock

ASSUME CaptureAssumption == MaxReads \in Nat /\ MaxChunk \in Nat /\ Timeout \in Nat

VARIABLES
    rpc,        \* where the relay stands
    format,     \* captureReader.format; stream is format = "stream"
    sniffed,    \* captureReader.sniffed
    pending,    \* captureReader.pending: the line under way
    hand,       \* the chunk a Read has in hand
    received,   \* all bytes read from the backend
    client,     \* all bytes returned to and written by the caller
    reads,      \* chunks read
    stored,     \* the response body the store accepted
    told,       \* the deltas published, concatenated
    live,       \* does the store still hold the entry in memory?
    broken,     \* has a write to the body file failed? The error sticks.
    refused,    \* has AppendResponse returned an error?
    age,        \* ticks since lastSeen, up to Timeout + 1
    silence     \* ticks since the backend sent anything, up to Timeout + 1

reader == <<rpc, format, sniffed, pending, hand, received, client, reads>>
entry  == <<stored, told, live, broken, refused, age>>
vars   == <<reader, entry, silence>>

Newline == "n"
Other   == "x"
Byte    == {Newline, Other}
Bytes   == Seq(Byte)
Chunks  == UNION {[1 .. n -> Byte] : n \in 1 .. MaxChunk}
Formats == {"raw", "whole", "stream"}

TypeOK ==
    /\ rpc \in {"ready", "sniff", "consume", "lines", "return", "close", "end"}
    /\ format \in Formats /\ sniffed \in BOOLEAN
    /\ pending \in Bytes /\ hand \in Bytes /\ received \in Bytes /\ client \in Bytes
    /\ reads \in Nat
    /\ stored \in Bytes /\ told \in Bytes
    /\ live \in BOOLEAN /\ broken \in BOOLEAN /\ refused \in BOOLEAN
    /\ age \in 0 .. Timeout + 1 /\ silence \in 0 .. Timeout + 1

\* newCaptureReader, with the format the Content-Type announced.
Init ==
    /\ rpc = "ready"
    /\ format \in Formats
    /\ sniffed = (format # "raw")
    /\ pending = <<>> /\ hand = <<>> /\ received = <<>> /\ client = <<>>
    /\ reads = 0
    /\ stored = <<>> /\ told = <<>>
    /\ live = TRUE /\ broken = FALSE /\ refused = FALSE
    /\ age = 0 /\ silence = 0

-------------------------------------------------------------------------------
\* Mutant: accepted bytes do not count as activity.
AppendResponseUntouched(bytes, emitDelta) ==
    IF live /\ ~broken
    THEN /\ stored' = stored \o bytes
         /\ told' = IF emitDelta THEN told \o bytes ELSE told
         /\ UNCHANGED <<live, broken, refused, age>>
    ELSE /\ refused' = TRUE
         /\ UNCHANGED <<stored, told, live, broken, age>>

\* Mutant: a write that failed does not fail the next one.
AppendResponseRetries(bytes, emitDelta) ==
    IF live /\ ~broken
    THEN /\ stored' = stored \o bytes
         /\ told' = IF emitDelta THEN told \o bytes ELSE told
         /\ age' = 0
         /\ UNCHANGED <<live, broken, refused>>
    ELSE /\ refused' = TRUE /\ broken' = FALSE
         /\ UNCHANGED <<stored, told, live, age>>

(***************************************************************************)
(* Store.AppendResponse: refused once the entry was finalized or its body  *)
(* file failed; otherwise the bytes are kept, the entry is touched and, if *)
(* asked for, the delta is published.  The reader ignores the error.       *)
(***************************************************************************)
AppendResponse(bytes, emitDelta) ==
    IF live /\ ~broken
    THEN /\ stored' = stored \o bytes
         /\ told' = IF emitDelta THEN told \o bytes ELSE told
         /\ age' = 0
         /\ UNCHANGED <<live, broken, refused>>
    ELSE /\ refused' = TRUE
         /\ UNCHANGED <<stored, told, live, broken, age>>

\* rc.Read returns a chunk, possibly along with an error.
Read ==
    /\ rpc = "ready"
    /\ reads < MaxReads
    /\ \E chunk \in Chunks :
          /\ hand' = chunk
          /\ received' = received \o chunk
    /\ reads' = reads + 1
    /\ silence' = 0
    /\ rpc' = IF sniffed THEN "consume" ELSE "sniff"
    /\ UNCHANGED <<format, sniffed, pending, client, entry>>

\* Mutant: every chunk of an unrecognised body is sniffed again.
SniffAgain ==
    /\ rpc = "sniff"
    /\ \E f \in Formats :
          /\ format' = f
          /\ age' = IF f # "raw" /\ live THEN 0 ELSE age
          /\ sniffed' = (f # "raw")
    /\ rpc' = "consume"
    /\ UNCHANGED <<pending, hand, received, client, reads, stored, told, live, broken, refused, silence>>

\* consume: the first chunk decides the format; Update touches the entry.
Sniff ==
    /\ rpc = "sniff"
    /\ sniffed' = TRUE
    /\ \E f \in Formats :
          /\ format' = f
          /\ age' = IF f # "raw" /\ live THEN 0 ELSE age
    /\ rpc' = "consume"
    /\ UNCHANGED <<pending, hand, received, client, reads, stored, told, live, broken, refused, silence>>

\* consume: a body that is not streamed is appended as it comes.
ConsumeWhole ==
    /\ rpc = "consume" /\ format # "stream"
    /\ AppendResponse(hand, FALSE)
    /\ rpc' = "return"
    /\ UNCHANGED <<format, sniffed, pending, hand, received, client, reads, silence>>

\* consume: a streamed body is accumulated up to the next newline.
ConsumeStream ==
    /\ rpc = "consume" /\ format = "stream"
    /\ pending' = pending \o hand
    /\ rpc' = "lines"
    /\ UNCHANGED <<format, sniffed, hand, received, client, reads, entry, silence>>

HasLine(s) == \E i \in 1 .. Len(s) : s[i] = Newline

LineEnd(s) == CHOOSE i \in 1 .. Len(s) : s[i] = Newline /\ \A j \in 1 .. i - 1 : s[j] # Newline

\* consume: one turn of the loop that appends complete lines.
ConsumeLine ==
    /\ rpc = "lines" /\ HasLine(pending)
    /\ AppendResponse(SubSeq(pending, 1, LineEnd(pending)), TRUE)
    /\ pending' = SubSeq(pending, LineEnd(pending) + 1, Len(pending))
    /\ UNCHANGED <<rpc, format, sniffed, hand, received, client, reads, silence>>

ConsumeLinesEnd ==
    /\ rpc = "lines" /\ ~HasLine(pending)
    /\ rpc' = "return"
    /\ UNCHANGED <<format, sniffed, pending, hand, received, client, reads, entry, silence>>

\* Mutant: bytes the store refused are withheld from the caller.
ReturnAccepted ==
    /\ rpc = "return"
    /\ client' = IF refused THEN client ELSE client \o hand
    /\ hand' = <<>>
    /\ rpc' = "ready"
    /\ UNCHANGED <<format, sniffed, pending, received, reads, entry, silence>>

\* Read returns and the caller writes the chunk to the client.
Return ==
    /\ rpc = "return"
    /\ client' = client \o hand
    /\ hand' = <<>>
    /\ rpc' = "ready"
    /\ UNCHANGED <<format, sniffed, pending, received, reads, entry, silence>>

\* The client went away: the copy stops with a chunk unwritten.
ReturnFails ==
    /\ rpc = "return"
    /\ rpc' = "close"
    /\ UNCHANGED <<format, sniffed, pending, hand, received, client, reads, entry, silence>>

\* The body ends, or the backend fails in the middle of it.
ReadEnd ==
    /\ rpc = "ready"
    /\ rpc' = "close"
    /\ UNCHANGED <<format, sniffed, pending, hand, received, client, reads, entry, silence>>

\* Mutant: the unfinished last line is forgotten.
CloseForgets ==
    /\ rpc = "close"
    /\ pending' = <<>>
    /\ rpc' = "end"
    /\ UNCHANGED <<format, sniffed, hand, received, client, reads, entry, silence>>

\* Close: the unfinished last line is flushed; onClose then finalizes.
Close ==
    /\ rpc = "close"
    /\ IF pending # <<>> THEN AppendResponse(pending, TRUE)
                         ELSE UNCHANGED <<stored, told, live, broken, refused, age>>
    /\ pending' = <<>>
    /\ rpc' = "end"
    /\ UNCHANGED <<format, sniffed, hand, received, client, reads, silence>>

-------------------------------------------------------------------------------
\* A file-system call of bodyBuffer.Write fails.
BodyBreaks ==
    /\ live /\ ~broken
    /\ broken' = TRUE
    /\ UNCHANGED <<reader, stored, told, live, refused, age, silence>>

\* Time passes while the relay waits for the backend or for a slow client.
Tick ==
    /\ rpc \in {"ready", "return"} /\ age <= Timeout
    /\ age' = age + 1
    /\ silence' = IF silence <= Timeout THEN silence + 1 ELSE silence
    /\ UNCHANGED <<reader, stored, told, live, broken, refused>>

\* SweepPending finalizes an entry untouched for longer than the timeout.
Sweep ==
    /\ live /\ age > Timeout
    /\ live' = FALSE
    /\ UNCHANGED <<reader, stored, told, broken, refused, age, silence>>

Next ==
    \/ Read \/ Sniff \/ ConsumeWhole \/ ConsumeStream \/ ConsumeLine \/ ConsumeLinesEnd
    \/ Return \/ ReturnFails \/ ReadEnd \/ Close
    \/ BodyBreaks \/ Tick \/ Sweep

Spec == Init /\ [][Next]_vars

-------------------------------------------------------------------------------
(***************************************************************************)
(* The body captured is the body sent.  As long as the store refused no    *)
(* bytes, what it holds followed by the unfinished line and by what has    *)
(* not been consumed yet is what the backend sent: no byte lost, repeated  *)
(* or reordered by the cutting into lines; and at the end, the flush of    *)
(* Close included, the store holds it all.                                 *)
(***************************************************************************)
CaptureExact ==
    ~refused =>
        /\ stored \o pending \o (IF rpc \in {"sniff", "consume"} THEN hand ELSE <<>>) = received
        /\ rpc = "end" => stored = received

(***************************************************************************)
(* A browser that joins the deltas of a streamed response has exactly the  *)
(* body the store holds, and a body that is not streamed has no deltas,    *)
(* however late the format was detected.                                   *)
(***************************************************************************)
DeltasAreBody ==
    told = IF format = "stream" THEN stored ELSE <<>>

(***************************************************************************)
(* The wrapper never alters the stream it forwards: whatever becomes of    *)
(* the capture (entry swept, disk full), the caller gets what the backend  *)
(* sent, all of it each time it asks for more.                             *)
(***************************************************************************)
StreamUnaltered ==
    /\ rpc = "ready" => client = received
    /\ rpc # "ready" => client \o hand = received

(***************************************************************************)
(* The sweep closes idle exchanges only: while the relay waits for the     *)
(* backend or for the client, and the capture has not failed, an entry is  *)
(* swept only if its backend has sent nothing for longer than the timeout. *)
(* One exception: bytes of an unfinished line of a streamed body do not    *)
(* count, since they reach the store, and touch the entry, with their      *)
(* newline.                                                                *)
(***************************************************************************)
SweptIdle ==
    [][live /\ ~live' /\ rpc \in {"ready", "return"} /\ ~broken
           => silence > Timeout \/ pending # <<>>]_vars

(***************************************************************************)
(* The capture implements the promise of CaptureLog: in particular a write *)
(* that fails in the middle of a body, or a sweep, leaves a beginning of   *)
(* the body, with nothing behind the hole.                                 *)
(***************************************************************************)
Log == INSTANCE CaptureLog
           WITH Pieces <- Chunks, LineFeed <- Newline, sent <- received, record <- stored,
                given <- client, cut <- refused, closed <- rpc = "end"

ImplementsLog == Log!LogSpec
===============================================================================
