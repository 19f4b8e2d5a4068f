-------------------------------- MODULE Formats --------------------------------
(***************************************************************************)
(* Format detection and Ollama preview of internal/proxy/capture.go        *)
(* and the page's own decoder, in internal/web/static/app.js.              *)
(*                                                                         *)
(* A body is a sequence of lexemes: "[" and "]" open and close a JSON      *)
(* document, "1" is one by itself, "da" and "ta:" are the two halves of an *)
(* SSE field name, "<" opens a tag, "nl" ends a line, "sp" is a blank.     *)
(***************************************************************************)
EXTENDS Naturals, SequencesExt

Blank == {"sp", "nl"}

\* bytes.TrimSpace.
Trim(q) ==
    LET kept == {i \in 1 .. Len(q) : q[i] \notin Blank} IN
    IF kept = {} THEN <<>> ELSE SubSeq(q, Min(kept), Max(kept))

\* bytes.Split at line ends: line k runs between the k-th and the next end.
Lines(q) ==
    LET ends  == SetToSortSeq({i \in 1 .. Len(q) : q[i] = "nl"}, LAMBDA i, j : i < j)
        stops == <<0>> \o ends \o <<Len(q) + 1>>
    IN [k \in 1 .. Len(ends) + 1 |-> SubSeq(q, stops[k] + 1, stops[k + 1] - 1)]

\* json.Valid of a line: brackets around at most one value.
JSONValid(q) ==
    LET opens  == Cardinality({i \in 1 .. Len(q) : q[i] = "["})
        rest   == Len(q) - 2 * opens
    IN /\ opens > 0 \/ rest = 1
       /\ rest \in {0, 1}
       /\ \A i \in 1 .. Len(q) : q[i] = CASE i <= opens -> "["
                                          [] i > opens + rest -> "]"
                                          [] OTHER -> "1"

\* The lines that are not blank.
Written(q) == SelectSeq([k \in 1 .. Len(Lines(q)) |-> Trim(Lines(q)[k])], LAMBDA w : w # <<>>)

\* isNDJSON.
IsNDJSON(q) == Len(Written(q)) > 1 /\ \A k \in 1 .. Len(Written(q)) : JSONValid(Written(q)[k])

\* looksLikeSSE.
LooksLikeSSE(q) == IsPrefix(<<"da", "ta:">>, q)

\* sniffFormat.
SniffFormat(body) ==
    LET q == Trim(body) IN
    CASE q = <<>>           -> "raw"
      [] q # <<>> /\ q[1] = "[" -> IF IsNDJSON(q) THEN "ndjson" ELSE "json"
      [] q # <<>> /\ q[1] = "<" -> "xml"
      [] OTHER              -> IF LooksLikeSSE(q) THEN "sse" ELSE "raw"

\* isStreaming.
IsStreaming(f) == f \in {"ndjson", "sse"}

\* formatFromContentType over the media types it tells apart; "" is "not ok".
FormatFromContentType(ct) ==
    CASE ct = "text/event-stream" -> "sse"
      [] ct \in {"application/x-ndjson", "application/jsonlines", "application/jsonl"} -> "ndjson"
      [] ct \in {"application/json", "application/problem+json", "text/json"} -> "json"
      [] ct \in {"application/xml", "text/xml", "image/svg+xml"} -> "xml"
      [] OTHER -> ""

\* detectFormat.
DetectFormat(ct, body) ==
    IF FormatFromContentType(ct) # "" THEN FormatFromContentType(ct) ELSE SniffFormat(body)

\* Mutant: the first chunk is sniffed whatever the header announced.
CapturedSniffed(ct, chunk) == SniffFormat(chunk)

(***************************************************************************)
(* The format modifyResponse or send records from the header alone and     *)
(* consume corrects from the first chunk.                                  *)
(***************************************************************************)
CapturedFormat(ct, chunk) ==
    LET announced == DetectFormat(ct, <<>>) IN
    IF announced = "raw" THEN SniffFormat(chunk) ELSE announced

-------------------------------------------------------------------------------
(***************************************************************************)
(* OllamaPreview.  A line is a record: whether it has the "data:" prefix,  *)
(* what the rest is ("cut" is a fragment broken off, "done" the [DONE]     *)
(* mark) and the texts of its two fields, <<>> where a field is missing.   *)
(***************************************************************************)
Kept(format, line) == format = "sse" => line.data /\ line.is # "done"

\* The JSON decoder reads the line: an SSE line without its prefix removed does not parse.
Parses(format, line) == line.is = "fragment" /\ (format = "sse" \/ ~line.data)

Texts(format, lines, Text(_)) ==
    FlattenSeq([k \in 1 .. Len(lines) |->
        IF Kept(format, lines[k]) /\ Parses(format, lines[k]) THEN Text(lines[k]) ELSE <<>>])

\* Mutant: only the last fragment is kept.
PreviewLast(format, lines) ==
    FoldLeft(LAMBDA out, line : IF Kept(format, line) /\ Parses(format, line)
                                THEN line.response \o line.content ELSE out, <<>>, lines)

OllamaPreview(format, lines) ==
    Texts(format, lines, LAMBDA line : line.response \o line.content)

\* Mutant: the page reads one of the two fields.
DecodeGenerate(format, lines) == Texts(format, lines, LAMBDA line : line.response)

\* decodeOllama: the response, or else the content.
DecodeOllama(format, lines) ==
    Texts(format, lines, LAMBDA line : IF line.response # <<>> THEN line.response ELSE line.content)

-------------------------------------------------------------------------------
Family(f) == IF f \in {"json", "ndjson"} THEN "json" ELSE f

(***************************************************************************)
(* However the first read cuts a response, the format it is captured under *)
(* is that of the whole body, save that an unannounced body is told JSON   *)
(* or NDJSON by the lines of the cut, and that a cut of blanks or inside   *)
(* the first word decides for raw, once and for all.                       *)
(***************************************************************************)
SniffHolds(ct, body, k) ==
    LET first == CapturedFormat(ct, SubSeq(body, 1, k))
        whole == DetectFormat(ct, body)
        seen  == Trim(SubSeq(body, 1, k))
    IN /\ FormatFromContentType(ct) # "" => first = whole
       /\ first # "raw" => Family(first) = Family(whole)
       /\ first = "raw" /\ whole # "raw" => seen \in {<<>>, <<"da">>}

(***************************************************************************)
(* The preview of a response that is still arriving is the beginning of    *)
(* the preview of the whole response, also when its last line is cut.      *)
(***************************************************************************)
PreviewGrows(format, lines, k) ==
    LET cut == [lines[k] EXCEPT !.is = "cut"] IN
    /\ IsPrefix(OllamaPreview(format, SubSeq(lines, 1, k)), OllamaPreview(format, lines))
    /\ IsPrefix(OllamaPreview(format, SubSeq(lines, 1, k - 1) \o <<cut>>),
                OllamaPreview(format, lines))

(***************************************************************************)
(* The page decodes a streamed message to the text the server decodes, as  *)
(* long as a fragment carries one of the two fields.                       *)
(***************************************************************************)
DecodersAgree(format, lines) ==
    (\A k \in 1 .. Len(lines) : lines[k].response = <<>> \/ lines[k].content = <<>>)
        => DecodeOllama(format, lines) = OllamaPreview(format, lines)
===============================================================================
