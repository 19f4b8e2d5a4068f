-------------------------------- MODULE Replays --------------------------------
(***************************************************************************)
(* Replay by editing: the form that renderComposer of app.js fills from an *)
(* entry, and the entry Proxy.Replay of internal/proxy/replay.go makes of  *)
(* the form when it is sent as it stands.                                  *)
(*                                                                         *)
(* A request is its method, the values of each header and the bytes of its *)
(* body, in the letters of Payloads and three more: "j" is a token of a    *)
(* JSON object or array, "n" a line break and "w" one written CR LF.       *)
(***************************************************************************)
EXTENDS Payloads

HeaderNames == {"accept", "content-length"}

\* The keys of strippedHeaders among them.
StrippedHeaders == {"content-length"}

\* The methods the form offers.
Offered == {"GET", "POST"}

-------------------------------------------------------------------------------
\* The request body as the detail has it: from memory, or from the row.
Payload(w, pending) ==
    LET b == BodyOf(w) IN
    NewBodyPayload([format |-> <<>>, path |-> b.path, size |-> b.size,
                    body   |-> IF b.path /\ ~pending THEN <<>> ELSE b.body])

Document(w) ==
    /\ Contains(w, "j")
    /\ \A i \in 1 .. Len(w) : w[i] \in {"j", "n", "w"}

\* A text but for its line breaks; of a document, its tokens.
Unbroken(w) ==
    FlattenSeq([i \in 1 .. Len(w) |-> IF w[i] \notin {"n", "w"} THEN <<w[i]>> ELSE <<>>])

\* JSON.stringify(..., null, 2): every token on a line of its own.
Indented(w) ==
    [i \in 1 .. 2 * Len(Unbroken(w)) - 1 |-> IF i % 2 = 1 THEN "j" ELSE "n"]

\* editableBody, of what cachedBody finds in the detail; a cut document does not parse.
EditableBody(p) == IF Document(p.body) /\ ~p.truncated THEN Indented(p.body) ELSE p.body

\* The value of a text area (external): its line breaks are all alike.
TextArea(w) == [i \in 1 .. Len(w) |-> IF w[i] = "w" THEN "n" ELSE w[i]]

\* renderComposer: the form filled from an entry, and what onsubmit reads back.
Form(e, pending) ==
    [method  |-> IF e.method \in Offered THEN e.method ELSE "",
     headers |-> [n \in HeaderNames |->
                     IF e.headers[n] = <<>> THEN <<>>
                     ELSE <<JSONText(FlattenHeader(e.headers[n]))>>],
     body    |-> TextArea(EditableBody(Payload(e.body, pending)))]

\* Mutant: the headers of the previous transfer are sent again.
ReplayAll(req) ==
    [method |-> IF req.method = "" THEN "GET" ELSE req.method,
     headers |-> req.headers, body |-> req.body]

\* Replay: the entry of the new exchange.
Replay(req) ==
    [method  |-> IF req.method = "" THEN "GET" ELSE req.method,
     headers |-> [n \in HeaderNames |-> IF n \in StrippedHeaders THEN <<>> ELSE req.headers[n]],
     body    |-> req.body]

Replayed(e, pending) == Replay(Form(e, pending))

-------------------------------------------------------------------------------
(***************************************************************************)
(* What sending an entry again, unedited, keeps of the request: a method   *)
(* the form offers, each header as the one value its values join to, none  *)
(* of the previous transfer's, and of the body all of the text or, when it *)
(* is binary or spilled, nothing.  A replay replayed is the same request,  *)
(* unless indenting its body took it past the threshold.  The body is      *)
(* excepted while the exchange is pending and spilled: its preview is sent *)
(* in its place.                                                           *)
(***************************************************************************)
ReplayKeeps(e, pending) ==
    LET r == Replayed(e, pending) IN
    /\ e.method \in Offered => r.method = e.method
    /\ \A n \in HeaderNames :
          IF n \in StrippedHeaders THEN r.headers[n] = <<>>
          ELSE /\ Len(r.headers[n]) <= 1
               /\ FlattenHeader(r.headers[n]) = JSONText(FlattenHeader(e.headers[n]))
    /\ ~(pending /\ Len(e.body) > Inline) =>
          /\ \/ Unbroken(r.body) = Unbroken(e.body)
             \/ r.body = <<>> /\ (~Valid(e.body) \/ Len(e.body) > Inline)
          /\ Len(r.body) <= Inline => Replayed(r, FALSE) = r
===============================================================================
