------------------------------- MODULE Payloads --------------------------------
(***************************************************************************)
(* What an entry goes through on its way to the browser: the columns of    *)
(* internal/store/sqlite.go (insert, scanEntry) and the JSON payloads of   *)
(* internal/web/server.go.                                                 *)
(*                                                                         *)
(* An entry has scalar fields and two sides.  Bytes are letters: "a" is a  *)
(* character of its own, "l" the lead and "c" the continuation byte of a   *)
(* two-byte character, "r" the replacement character JSON encoding puts    *)
(* for a byte that is no character.  A header is the sequence of its       *)
(* values; a nil map and an empty one are both <<>>.                       *)
(***************************************************************************)
EXTENDS Listing

CONSTANT
    Null,       \* SQL NULL, a nil pointer
    Inline      \* the inline threshold

\* The letters of this module and of Replays.
Letters == {"a", "l", "c", "r", "comma", "j", "n", "w"}

ASSUME PayloadsAssumption ==
    /\ Inline \in Nat
    /\ Null \notin Nat /\ Null \notin Seq(Letters) /\ Null \notin Seq(Seq(Letters))

Sides == {"request", "response"}

\* A body of bytes w as bodyBuffer.state reports it once it is complete.
BodyOf(w) == [body |-> Prefix(w, Inline), path |-> Len(w) > Inline, size |-> Len(w)]

-------------------------------------------------------------------------------
\* utf8.Valid.
Valid(w) ==
    \A i \in 1 .. Len(w) :
        /\ w[i] = "l" => i < Len(w) /\ w[i + 1] = "c"
        /\ w[i] = "c" => i > 1 /\ w[i - 1] = "l"

\* encoding/json of a string: bytes that are no character are replaced.
JSONText(w) ==
    [i \in 1 .. Len(w) |->
        IF \/ w[i] = "l" /\ ~(i < Len(w) /\ w[i + 1] = "c")
           \/ w[i] = "c" /\ ~(i > 1 /\ w[i - 1] = "l")
        THEN "r" ELSE w[i]]

\* marshalHeader and unmarshalHeader.
MarshalHeader(h) == IF h = <<>> THEN Null ELSE [i \in 1 .. Len(h) |-> JSONText(h[i])]
UnmarshalHeader(v) == IF v = Null THEN <<>> ELSE v

\* blobColumn.
BlobColumn(body, spilled) == IF spilled \/ body = <<>> THEN Null ELSE body

\* nullInt of a status code, nullString.
NullZero(n) == IF n = 0 THEN Null ELSE n
NullString(w) == IF w = <<>> THEN Null ELSE w

\* Mutant: a duration of zero is taken for none.
NullInt64Zero(p) == IF p = Null \/ p = 0 THEN Null ELSE p

\* nullInt64 and optInt64, which keep a duration of zero.
NullInt64(p) == p

\* nullTime.
NullTime(t) == IF t = Null THEN Null ELSE UnixMilli(t)

\* sqlDB.insert: the columns of the row.
InsertRow(e) ==
    [e EXCEPT !.code     = NullZero(e.code),
              !.error    = NullString(e.error),
              !.at       = UnixMilli(e.at),
              !.finished = NullTime(e.finished),
              !.ttfb     = NullInt64(e.ttfb),
              !.stream   = NullInt64(e.stream),
              !.total    = NullInt64(e.total),
              !.side     = [s \in Sides |->
                  [format  |-> NullString(e.side[s].format),
                   headers |-> MarshalHeader(e.side[s].headers),
                   body    |-> BlobColumn(e.side[s].body, e.side[s].path),
                   path    |-> e.side[s].path,
                   size    |-> e.side[s].size]]]

\* scanEntry: NULL becomes the zero value, a path says that the body spilled.
ScanEntry(r) ==
    [r EXCEPT !.code     = IF r.code = Null THEN 0 ELSE r.code,
              !.error    = IF r.error = Null THEN <<>> ELSE r.error,
              !.at       = FromMilli(r.at),
              !.finished = IF r.finished = Null THEN Null ELSE FromMilli(r.finished),
              !.side     = [s \in Sides |->
                  [format  |-> IF r.side[s].format = Null THEN <<>> ELSE r.side[s].format,
                   headers |-> UnmarshalHeader(r.side[s].headers),
                   body    |-> IF r.side[s].body = Null THEN <<>> ELSE r.side[s].body,
                   path    |-> r.side[s].path,
                   size    |-> r.side[s].size]]]

-------------------------------------------------------------------------------
\* newListRow.
NewListRow(e) ==
    [status |-> e.status, code |-> e.code, error |-> JSONText(e.error), replay |-> e.replay,
     formats |-> [s \in Sides |-> e.side[s].format], started |-> UnixMilli(e.at),
     ttfb |-> e.ttfb, stream |-> e.stream, total |-> e.total]

\* newBodyPayload.
NewBodyPayload(b) ==
    [format |-> b.format, size |-> b.size, truncated |-> b.path,
     binary |-> ~Valid(b.body), body |-> IF Valid(b.body) THEN b.body ELSE <<>>]

\* flattenHeader: the values joined with a comma.
FlattenHeader(h) ==
    FlattenSeq([i \in 1 .. Len(h) |-> IF i = 1 THEN h[i] ELSE <<"comma">> \o h[i]])

\* newDetail.
NewDetail(e) ==
    [row      |-> NewListRow(e),
     finished |-> NullTime(e.finished),
     headers  |-> [s \in Sides |-> JSONText(FlattenHeader(e.side[s].headers))],
     payload  |-> [s \in Sides |-> NewBodyPayload(e.side[s])],
     ollama   |-> IF e.ollama THEN <<e.side["response"].format, e.side["response"].body>> ELSE <<>>]

\* eventPayload of "updated", and the row the page makes of it (upsertRow).
Updated(e) ==
    [status |-> e.status, code |-> e.code, ttfb |-> e.ttfb, stream |-> e.stream, total |-> e.total]

\* Mutant: the update does not carry the durations.
UpsertStatus(row, u) == [row EXCEPT !.status = u.status, !.code = u.code]

Upsert(row, u) ==
    [row EXCEPT !.status = u.status, !.code = u.code,
                !.ttfb = u.ttfb, !.stream = u.stream, !.total = u.total]

-------------------------------------------------------------------------------
(***************************************************************************)
(* GET /api/requests/{id} answers the same from memory and from the        *)
(* database, but for the preview of a spilled body, which the row does not *)
(* keep, and what the answer derives from the preview.                     *)
(***************************************************************************)
SameDetail(e) ==
    LET m == NewDetail(e)
        d == NewDetail(ScanEntry(InsertRow(e)))
    IN /\ m.row = d.row /\ m.finished = d.finished /\ m.headers = d.headers
       /\ \A s \in Sides :
             IF e.side[s].path
             THEN /\ d.payload[s].body = <<>> /\ ~d.payload[s].binary
                  /\ d.payload[s].truncated /\ d.payload[s].size = m.payload[s].size
             ELSE d.payload[s] = m.payload[s]
       /\ ~e.side["response"].path => m.ollama = d.ollama

(***************************************************************************)
(* A row put together from "created" and the last "updated" is the row the *)
(* list would be loaded with, but for the error and the response's format, *)
(* which "updated" does not carry.                                         *)
(***************************************************************************)
SameRow(created, e) ==
    LET row == Upsert(NewListRow(created), Updated(e)) IN
    NewListRow(e) = [row EXCEPT !.error = JSONText(e.error),
                                !.formats["response"] = e.side["response"].format]
===============================================================================
