------------------------------ MODULE Algorithms -------------------------------
(***************************************************************************)
(* The pure algorithms of the program over bounded inputs: each action     *)
(* draws one input, except that the walk through the pages of the history  *)
(* goes on from page to page while exchanges finish.                       *)
(***************************************************************************)
EXTENDS Replays, Formats, Urls

CONSTANTS
    Entries,        \* bound: exchanges in the history
    MaxInstant,     \* bound: instants at which they start
    MaxBytes,       \* bound: bytes of a body or header value
    MaxLexemes,     \* bound: lexemes of a body
    MaxLines,       \* bound: lines of an Ollama response
    MaxPath         \* bound: length of a path

ASSUME AlgorithmsAssumption ==
    /\ IsFiniteSet(Entries)
    /\ MaxInstant \in Nat /\ MaxBytes \in Nat /\ MaxLexemes \in Nat
    /\ MaxLines \in Nat /\ MaxPath \in Nat

VARIABLE sample

AlgoInit == sample = [kind |-> "none"]

Fresh == sample.kind = "none"

-------------------------------------------------------------------------------
\* A client asks for the first page, with or without a cursor.
WalkStart ==
    /\ Fresh
    /\ \E at \in [Entries -> 0 .. MaxInstant], mem \in SUBSET Entries,
          asked \in {Absent} \cup 0 .. MaxLimit + 1, from \in {Absent, 1} :
           sample' = [kind |-> "walk", entries |-> {[id |-> i, at |-> at[i]] : i \in Entries},
                      mem |-> mem, asked |-> asked, start |-> from, from |-> from, next |-> from,
                      page |-> <<>>, seen |-> <<>>, ends |-> {}, over |-> FALSE]

\* An exchange finishes between two pages.
WalkFlush ==
    /\ sample.kind = "walk" /\ ~sample.over
    /\ \E i \in sample.mem : sample' = [sample EXCEPT !.mem = sample.mem \ {i}]

\* The next page: older than the last row of the one before.
WalkPage ==
    /\ sample.kind = "walk" /\ ~sample.over
    /\ LET mem == {e \in sample.entries : e.id \in sample.mem}
           db  == sample.entries \ mem
       IN \E page \in ListRequests(mem, db, sample.asked, sample.next) :
            LET full == Len(page) = Limit(sample.asked)
                next == IF page = <<>> THEN sample.next ELSE Last(page).started
            IN sample' = [sample EXCEPT
                    !.from = sample.next, !.next = next, !.page = page, !.over = ~full,
                    !.seen = sample.seen \o [i \in 1 .. Len(page) |-> page[i].id],
                    !.ends = IF full THEN sample.ends \cup {next} ELSE sample.ends]

-------------------------------------------------------------------------------
Strings(S, n) == UNION {[1 .. k -> S] : k \in 0 .. n}

Bytes == Strings({"a", "l", "c"}, MaxBytes)

Side(format, headers, w) ==
    LET b == BodyOf(w) IN
    [format |-> format, headers |-> headers, body |-> b.body, path |-> b.path, size |-> b.size]

Plain == Side(<<>>, <<>>, <<"a">>)

\* The entry of an exchange that was just put.
Created ==
    [status |-> "pending", code |-> 0, error |-> <<>>, at |-> 1, finished |-> Null,
     ttfb |-> Null, stream |-> Null, total |-> Null, ollama |-> FALSE, replay |-> FALSE,
     side |-> [s \in Sides |-> Plain]]

Durations == {Null, 0, 1}

\* A finished entry with any scalar fields ...
DrawScalars ==
    /\ Fresh
    /\ \E status \in {"done", "error"}, code \in {0, 200}, error \in {<<>>, <<"l">>},
          at \in 0 .. MaxInstant, finished \in 0 .. MaxInstant,
          ttfb, stream, total \in Durations :
           sample' = [kind |-> "entry",
                      entry |-> [Created EXCEPT !.status = status, !.code = code, !.error = error,
                                    !.at = at, !.finished = finished, !.ttfb = ttfb,
                                    !.stream = stream, !.total = total]]

\* ... or with any bodies, headers and formats.
DrawSides ==
    /\ Fresh
    /\ \E format \in {<<>>, <<"j">>}, headers \in Strings(Strings({"a", "l"}, 1), 2),
          req, resp \in Bytes, ollama \in BOOLEAN :
           sample' = [kind |-> "entry",
                      entry |-> [Created EXCEPT !.status = "done", !.finished = 1, !.ollama = ollama,
                                    !.side = [s \in Sides |->
                                        IF s = "request" THEN Side(format, headers, req)
                                        ELSE Side(format, headers, resp)]]]

\* A response body and where its first read ends.
DrawBody ==
    /\ Fresh
    /\ \E ct \in {"", "text/plain", "application/json", "text/event-stream"},
          body \in Strings({"[", "]", "1", "da", "ta:", "<", "nl", "sp"}, MaxLexemes) :
           /\ body # <<>>
           /\ \E k \in 1 .. Len(body) :
                 sample' = [kind |-> "body", ct |-> ct, body |-> body, cut |-> k]

OllamaLines ==
    [data : BOOLEAN, is : {"fragment", "cut"}, response : {<<>>, <<"a">>}, content : {<<>>, <<"c">>}]
        \cup [data : {TRUE}, is : {"done"}, response : {<<>>}, content : {<<>>}]

\* The lines of an Ollama response.
DrawLines ==
    /\ Fresh
    /\ \E format \in {"ndjson", "sse"}, n \in 1 .. MaxLines :
           \E lines \in [1 .. n -> OllamaLines], k \in 1 .. n :
               sample' = [kind |-> "lines", format |-> format, lines |-> lines, cut |-> k]

\* A base path and a request's path, which starts with a slash.
DrawPath ==
    /\ Fresh
    /\ \E base \in Strings({"/", "api"}, MaxPath), q \in Strings({"/", "api", "gen", "%2F"}, MaxPath) :
           /\ base # <<>> => Head(base) = "/"
           /\ ~Glued(base) /\ ~Glued(q)
           /\ sample' = [kind |-> "path", base |-> base, path |-> <<"/">> \o q]

\* A request that is sent again from its pre-filled form, pending or finished.
DrawReplay ==
    /\ Fresh
    /\ \E method \in Offered \cup {"TRACE"}, pending \in BOOLEAN,
          headers \in [HeaderNames -> Strings({<<>>, <<"a">>, <<"l">>}, 2)],
          body \in Strings({"a", "l", "j", "n", "w"}, MaxBytes) :
           sample' = [kind |-> "replay", pending |-> pending,
                      request |-> [method |-> method, headers |-> headers, body |-> body]]

AlgoNext ==
    \/ WalkStart \/ WalkFlush \/ WalkPage
    \/ DrawScalars \/ DrawSides \/ DrawBody \/ DrawLines \/ DrawPath \/ DrawReplay

AlgoSpec == AlgoInit /\ [][AlgoNext]_sample

-------------------------------------------------------------------------------
(***************************************************************************)
(* Every page GET /api/requests answers is the page of the one history     *)
(* that memory and database make up, whatever the tier of each exchange,   *)
(* the limit and the cursor.                                               *)
(***************************************************************************)
PageExact ==
    sample.kind = "walk" /\ (sample.seen # <<>> \/ sample.over) =>
        IsPage(sample.page, sample.entries, Limit(sample.asked), sample.from)

(***************************************************************************)
(* A client that follows started_at from page to page sees no exchange     *)
(* twice, though exchanges move to the database and lose their fraction of *)
(* a millisecond on the way, and misses only those that share the          *)
(* millisecond of a page's last row.                                       *)
(***************************************************************************)
WalkOnce ==
    sample.kind = "walk" =>
        /\ IsInjective(sample.seen)
        /\ sample.over => \A e \in sample.entries :
              \/ \E i \in 1 .. Len(sample.seen) : sample.seen[i] = e.id
              \/ UnixMilli(e.at) \in sample.ends
              \/ sample.start # Absent /\ UnixMilli(e.at) >= sample.start

(***************************************************************************)
(* An exchange reads the same before and after it moves to the database,   *)
(* with the exceptions SameDetail names.                                   *)
(***************************************************************************)
DetailStable == sample.kind = "entry" => SameDetail(sample.entry)

(***************************************************************************)
(* A row kept up to date by events is the row a reload brings, with the    *)
(* exceptions SameRow names.                                               *)
(***************************************************************************)
RowStable ==
    sample.kind = "entry" =>
        LET e == sample.entry IN
        SameRow([Created EXCEPT !.at = e.at, !.side["request"] = e.side["request"]], e)

(***************************************************************************)
(* The cut of the first read decides no more than SniffHolds says.         *)
(***************************************************************************)
SniffStable == sample.kind = "body" => SniffHolds(sample.ct, sample.body, sample.cut)

(***************************************************************************)
(* The Ollama message shown while a response streams only ever grows.      *)
(***************************************************************************)
PreviewStable ==
    sample.kind = "lines" => PreviewGrows(sample.format, sample.lines, sample.cut)

(***************************************************************************)
(* Server and page decode the same message.                                *)
(***************************************************************************)
DecodersMatch == sample.kind = "lines" => DecodersAgree(sample.format, sample.lines)

(***************************************************************************)
(* The relay and the record of it name the path the client asked for.      *)
(***************************************************************************)
UrlKept == sample.kind = "path" => PathKept(sample.base, sample.path)

(***************************************************************************)
(* An entry sent again unedited is the request it was, as far as           *)
(* ReplayKeeps says.                                                       *)
(***************************************************************************)
ReplayFaithful == sample.kind = "replay" => ReplayKeeps(sample.request, sample.pending)
===============================================================================
