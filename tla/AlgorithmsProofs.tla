---------------------------- MODULE AlgorithmsProofs ---------------------------
(***************************************************************************)
(* The pure algorithms of the program for inputs of any length: every      *)
(* sample Algorithms draws has the property of its kind.                   *)
(***************************************************************************)
EXTENDS Algorithms, TextProofs

-------------------------------------------------------------------------------
(***************************************************************************)
(* The row of an entry.                                                    *)
(***************************************************************************)
\* The fields of a row.
Fields ==
    {"status", "code", "error", "replay", "formats", "started", "ttfb", "stream", "total"}

IsRow(r) == IsRec(r, Fields)

\* Rows with the same fields are the same.
LEMMA RowsEqual ==
    ASSUME NEW r, NEW s, IsRow(r), IsRow(s), \A f \in Fields : r[f] = s[f]
    PROVE  r = s
BY Zenon DEF IsRow, IsRec

\* The row of an entry.
LEMMA ListRow ==
    ASSUME NEW e, NEW r, r = NewListRow(e)
    PROVE  /\ IsRow(r)
           /\ r["status"] = e.status /\ r["code"] = e.code /\ r["error"] = JSONText(e.error)
           /\ r["replay"] = e.replay /\ r["formats"] = [s \in Sides |-> e.side[s].format]
           /\ r["started"] = UnixMilli(e.at)
           /\ r["ttfb"] = e.ttfb /\ r["stream"] = e.stream /\ r["total"] = e.total
BY DEF NewListRow, IsRow, IsRec, Fields

\* What upsertRow makes of a row.
LEMMA Upserted ==
    ASSUME NEW r, IsRow(r), NEW e, NEW u, u = Upsert(r, Updated(e))
    PROVE  /\ IsRow(u)
           /\ u["status"] = e.status /\ u["code"] = e.code
           /\ u["ttfb"] = e.ttfb /\ u["stream"] = e.stream /\ u["total"] = e.total
           /\ \A f \in {"error", "replay", "formats", "started"} : u[f] = r[f]
<1>0. /\ "status" \in Fields /\ "code" \in Fields /\ "error" \in Fields /\ "formats" \in Fields
      /\ "ttfb" \in Fields /\ "stream" \in Fields /\ "total" \in Fields
  BY DEF Fields
<1>1. PICK r1 : r1 = With(r, "status", e.status)
  OBVIOUS
<1>2. PICK r2 : r2 = With(r1, "code", e.code)
  OBVIOUS
<1>3. PICK r3 : r3 = With(r2, "ttfb", e.ttfb)
  OBVIOUS
<1>4. PICK r4 : r4 = With(r3, "stream", e.stream)
  OBVIOUS
<1>5. PICK r5 : r5 = With(r4, "total", e.total)
  OBVIOUS
<1>6. Updated(e).status = e.status /\ Updated(e).code = e.code /\ Updated(e).ttfb = e.ttfb
      /\ Updated(e).stream = e.stream /\ Updated(e).total = e.total
  BY DEF Updated
<1>7. u = With(With(With(With(With(r, "status", Updated(e).status), "code", Updated(e).code),
                         "ttfb", Updated(e).ttfb), "stream", Updated(e).stream),
               "total", Updated(e).total)
  BY Zenon DEF Upsert, With
<1>8. u = r5
  BY <1>1, <1>2, <1>3, <1>4, <1>5, <1>6, <1>7
<1>9. IsRow(r1) /\ r1["status"] = e.status /\ \A f \in Fields \ {"status"} : r1[f] = r[f]
  BY <1>1, <1>0, WithOne DEF IsRow
<1>10. IsRow(r2) /\ r2["code"] = e.code /\ \A f \in Fields \ {"code"} : r2[f] = r1[f]
  BY <1>2, <1>9, <1>0, WithOne DEF IsRow
<1>11. IsRow(r3) /\ r3["ttfb"] = e.ttfb /\ \A f \in Fields \ {"ttfb"} : r3[f] = r2[f]
  BY <1>3, <1>10, <1>0, WithOne DEF IsRow
<1>12. IsRow(r4) /\ r4["stream"] = e.stream /\ \A f \in Fields \ {"stream"} : r4[f] = r3[f]
  BY <1>4, <1>11, <1>0, WithOne DEF IsRow
<1>13. IsRow(r5) /\ r5["total"] = e.total /\ \A f \in Fields \ {"total"} : r5[f] = r4[f]
  BY <1>5, <1>12, <1>0, WithOne DEF IsRow
<1> QED
  BY <1>8, <1>9, <1>10, <1>11, <1>12, <1>13 DEF Fields

\* Whatever an exchange came to, its row by events is its row by reload.
LEMMA RowAny ==
    ASSUME NEW e, e.replay = FALSE
    PROVE  SameRow([Created EXCEPT !.at = e.at, !.side["request"] = e.side["request"]], e)
<1>0. /\ "status" \in Fields /\ "code" \in Fields /\ "error" \in Fields /\ "formats" \in Fields
      /\ "ttfb" \in Fields /\ "stream" \in Fields /\ "total" \in Fields
  BY DEF Fields
<1> DEFINE created == [Created EXCEPT !.at = e.at, !.side["request"] = e.side["request"]]
           asked == [s \in Sides |-> created.side[s].format]
           known == [s \in Sides |-> e.side[s].format]
<1>1. created.at = e.at /\ created.replay = FALSE
  BY DEF Created
<1>2. created.side["request"] = e.side["request"]
  BY DEF Created, Sides
<1> HIDE DEF created
<1>3. [asked EXCEPT !["response"] = e.side["response"].format] = known
  BY <1>2 DEF Sides
<1>4. PICK kept : kept = NewListRow(created)
  OBVIOUS
<1>5. PICK row : row = Upsert(kept, Updated(e))
  OBVIOUS
<1>6. PICK loaded : loaded = NewListRow(e)
  OBVIOUS
<1> HIDE DEF asked, known
<1>7. IsRow(kept) /\ kept["formats"] = asked /\ kept["replay"] = FALSE
      /\ kept["started"] = UnixMilli(e.at)
  BY <1>1, <1>4, ListRow DEF asked
<1>8. /\ IsRow(row)
      /\ row["status"] = e.status /\ row["code"] = e.code
      /\ row["ttfb"] = e.ttfb /\ row["stream"] = e.stream /\ row["total"] = e.total
      /\ row["replay"] = FALSE /\ row["formats"] = asked /\ row["started"] = UnixMilli(e.at)
  BY <1>5, <1>7, Upserted
<1>9. /\ IsRow(loaded)
      /\ loaded["status"] = e.status /\ loaded["code"] = e.code
      /\ loaded["ttfb"] = e.ttfb /\ loaded["stream"] = e.stream /\ loaded["total"] = e.total
      /\ loaded["replay"] = FALSE /\ loaded["formats"] = known
      /\ loaded["started"] = UnixMilli(e.at) /\ loaded["error"] = JSONText(e.error)
  BY <1>6, ListRow DEF known
<1>10. PICK r1 : r1 = With(row, "error", JSONText(e.error))
  OBVIOUS
<1>11. PICK r2 : r2 = With(r1, "formats", known)
  OBVIOUS
<1>12. IsRow(r1) /\ r1["error"] = JSONText(e.error)
       /\ \A f \in Fields \ {"error"} : r1[f] = row[f]
  BY <1>8, <1>10, <1>0, WithOne DEF IsRow
<1>13. IsRow(r2) /\ r2["formats"] = known /\ \A f \in Fields \ {"formats"} : r2[f] = r1[f]
  BY <1>11, <1>12, <1>0, WithOne DEF IsRow
<1>14. \A f \in Fields : loaded[f] = r2[f]
  BY <1>8, <1>9, <1>12, <1>13 DEF Fields
<1>15. loaded = r2
  BY <1>9, <1>13, <1>14, RowsEqual
<1>16. [r1["formats"] EXCEPT !["response"] = e.side["response"].format] = known
  BY <1>3, <1>8, <1>12 DEF Fields
<1>17. [row EXCEPT !.error = JSONText(e.error), !.formats["response"] = e.side["response"].format]
         = With(r1, "formats", [r1["formats"] EXCEPT !["response"] = e.side["response"].format])
  BY <1>10, Zenon DEF With
<1>18. loaded =
         [row EXCEPT !.error = JSONText(e.error), !.formats["response"] = e.side["response"].format]
  BY <1>11, <1>15, <1>16, <1>17, Zenon
<1> QED
  BY <1>4, <1>5, <1>6, <1>18, Zenon DEF SameRow, created

-------------------------------------------------------------------------------
(***************************************************************************)
(* What is drawn.                                                          *)
(***************************************************************************)
\* A body drawn from an alphabet is a sequence over it.
LEMMA StringsAreSeqs ==
    ASSUME NEW S, NEW n \in Nat
    PROVE  Strings(S, n) \subseteq Seq(S)
BY DEF Strings

\* A side of an entry whose body is any bytes.
LEMMA SideDrawn ==
    ASSUME NEW format \in Seq(Letters), NEW headers \in Seq(Seq(Letters)), NEW w \in Seq(Letters)
    PROVE  IsSide(Side(format, headers, w))
<1>1. PICK b : b = BodyOf(w)
  OBVIOUS
<1>2. b.body = Prefix(w, Inline) /\ b.path = (Len(w) > Inline)
  BY <1>1 DEF BodyOf
<1>3. Inline \in Nat
  BY PayloadsAssumption
<1>4. Prefix(w, Inline) \in Seq(Letters)
  BY <1>3, PrefixProperties
<1>5. PICK x : x = Side(format, headers, w)
  OBVIOUS
<1>6. x = [format |-> format, headers |-> headers, body |-> b.body, path |-> b.path,
           size |-> b.size]
  BY <1>1, <1>5, Zenon DEF Side
<1>7. x.format = format /\ x.headers = headers /\ x.body = b.body
  BY <1>6
<1>8. x.path = b.path
  BY <1>6, Zenon
<1>9. (Len(w) > Inline) \in BOOLEAN
  BY <1>3
<1> QED
  BY <1>2, <1>4, <1>5, <1>7, <1>8, <1>9 DEF IsSide

\* The entry of an exchange that was just put.
LEMMA CreatedEntry ==
    /\ IsEntry(Created) /\ Created.replay = FALSE
    /\ \A f \in EntryFields : f \in DOMAIN Created
<1>1. IsSide(Plain)
  <2>1. PICK none, one : none = <<>> /\ one = <<"a">>
    OBVIOUS
  <2>2. none \in Seq(Letters) /\ none \in Seq(Seq(Letters)) /\ one \in Seq(Letters)
    BY <2>1 DEF Letters
  <2>3. IsSide(Side(none, none, one))
    BY <2>2, SideDrawn
  <2> QED
    BY <2>1, <2>3 DEF Plain
<1>2. PICK p : p = [s \in Sides |-> Plain]
  OBVIOUS
<1>3. \A s \in Sides : p[s] = Plain
  BY <1>2
<1>4. Created = [status |-> "pending", code |-> 0, error |-> <<>>, at |-> 1, finished |-> Null,
                 ttfb |-> Null, stream |-> Null, total |-> Null, ollama |-> FALSE,
                 replay |-> FALSE, side |-> p]
  BY <1>2, Zenon DEF Created
<1>5. PICK c : c = Created
  OBVIOUS
<1>6. /\ IsRec(c, EntryFields) /\ c.code = 0 /\ c.error = <<>> /\ c.at = 1 /\ c.finished = Null
      /\ c.side = p /\ c.replay = FALSE /\ DOMAIN c = EntryFields
  BY <1>4, <1>5 DEF IsRec, EntryFields
<1>7. IsEntry(c)
  BY <1>1, <1>3, <1>6 DEF IsEntry
<1> QED
  BY <1>5, <1>6, <1>7

\* A finished entry with any scalar fields.
LEMMA ScalarsDrawn ==
    ASSUME DrawScalars
    PROVE  /\ "kind" \in DOMAIN sample' /\ sample'.kind = "entry"
           /\ IsEntry(sample'.entry) /\ sample'.entry.replay = FALSE
<1>0. /\ "status" \in EntryFields /\ "code" \in EntryFields /\ "error" \in EntryFields
      /\ "at" \in EntryFields /\ "finished" \in EntryFields /\ "ttfb" \in EntryFields
      /\ "stream" \in EntryFields /\ "total" \in EntryFields /\ "ollama" \in EntryFields
      /\ "side" \in EntryFields
  BY DEF EntryFields
<1>1. PICK status \in {"done", "error"}, code \in {0, 200}, error \in {<<>>, <<"l">>},
           at \in 0 .. MaxInstant, finished \in 0 .. MaxInstant,
           ttfb \in Durations, stream \in Durations, total \in Durations :
        sample' = [kind |-> "entry",
                   entry |-> [Created EXCEPT !.status = status, !.code = code, !.error = error,
                                 !.at = at, !.finished = finished, !.ttfb = ttfb,
                                 !.stream = stream, !.total = total]]
  BY Zenon DEF DrawScalars
<1>2. PICK e : e = [Created EXCEPT !.status = status, !.code = code, !.error = error,
                        !.at = at, !.finished = finished, !.ttfb = ttfb,
                        !.stream = stream, !.total = total]
  OBVIOUS
<1>3. sample' = [kind |-> "entry", entry |-> e]
  BY <1>1, <1>2, Zenon
<1>4. PICK c : c = Created
  OBVIOUS
<1>5. e = With(With(With(With(With(With(With(With(c, "status", status), "code", code),
                "error", error), "at", at), "finished", finished), "ttfb", ttfb),
                "stream", stream), "total", total)
  BY <1>2, <1>4, Zenon DEF With
<1>6. PICK r1 : r1 = With(c, "status", status)
  OBVIOUS
<1>7. PICK r2 : r2 = With(r1, "code", code)
  OBVIOUS
<1>8. PICK r3 : r3 = With(r2, "error", error)
  OBVIOUS
<1>9. PICK r4 : r4 = With(r3, "at", at)
  OBVIOUS
<1>10. PICK r5 : r5 = With(r4, "finished", finished)
  OBVIOUS
<1>11. PICK r6 : r6 = With(r5, "ttfb", ttfb)
  OBVIOUS
<1>12. PICK r7 : r7 = With(r6, "stream", stream)
  OBVIOUS
<1>13. PICK r8 : r8 = With(r7, "total", total)
  OBVIOUS
<1>14. e = r8
  BY <1>5, <1>6, <1>7, <1>8, <1>9, <1>10, <1>11, <1>12, <1>13
<1>15. IsRec(c, EntryFields) /\ c["replay"] = FALSE /\ \A s \in Sides : IsSide(c.side[s])
  BY <1>4, CreatedEntry DEF IsEntry
<1>16. IsRec(r1, EntryFields) /\ \A f \in EntryFields \ {"status"} : r1[f] = c[f]
  BY <1>0, <1>6, <1>15, WithOne
<1>17. IsRec(r2, EntryFields) /\ r2["code"] = code /\ \A f \in EntryFields \ {"code"} : r2[f] = r1[f]
  BY <1>0, <1>7, <1>16, WithOne
<1>18. IsRec(r3, EntryFields) /\ r3["error"] = error
       /\ \A f \in EntryFields \ {"error"} : r3[f] = r2[f]
  BY <1>0, <1>8, <1>17, WithOne
<1>19. IsRec(r4, EntryFields) /\ r4["at"] = at /\ \A f \in EntryFields \ {"at"} : r4[f] = r3[f]
  BY <1>0, <1>9, <1>18, WithOne
<1>20. IsRec(r5, EntryFields) /\ r5["finished"] = finished
       /\ \A f \in EntryFields \ {"finished"} : r5[f] = r4[f]
  BY <1>0, <1>10, <1>19, WithOne
<1>21. IsRec(r6, EntryFields) /\ \A f \in EntryFields \ {"ttfb"} : r6[f] = r5[f]
  BY <1>0, <1>11, <1>20, WithOne
<1>22. IsRec(r7, EntryFields) /\ \A f \in EntryFields \ {"stream"} : r7[f] = r6[f]
  BY <1>0, <1>12, <1>21, WithOne
<1>23. IsRec(r8, EntryFields) /\ \A f \in EntryFields \ {"total"} : r8[f] = r7[f]
  BY <1>0, <1>13, <1>22, WithOne
<1>24. /\ r8["code"] = code /\ r8["error"] = error /\ r8["at"] = at /\ r8["finished"] = finished
       /\ r8["side"] = c["side"] /\ r8["replay"] = c["replay"]
  BY <1>16, <1>17, <1>18, <1>19, <1>20, <1>21, <1>22, <1>23 DEF EntryFields
<1>25. code \in Nat /\ at \in Nat /\ finished \in Nat
  BY <1>1, AlgorithmsAssumption
<1>26. error \in Seq(Letters)
  <2>1. <<>> \in Seq(Letters) /\ <<"l">> \in Seq(Letters)
    BY DEF Letters
  <2> QED
    BY <2>1
<1>27. IsEntry(e)
  BY <1>14, <1>15, <1>23, <1>24, <1>25, <1>26 DEF IsEntry
<1> QED
  BY <1>3, <1>14, <1>15, <1>24, <1>27

\* A finished entry with any bodies, headers and formats.
LEMMA SidesDrawn ==
    ASSUME DrawSides
    PROVE  /\ "kind" \in DOMAIN sample' /\ sample'.kind = "entry"
           /\ IsEntry(sample'.entry) /\ sample'.entry.replay = FALSE
<1>0. /\ "status" \in EntryFields /\ "code" \in EntryFields /\ "error" \in EntryFields
      /\ "at" \in EntryFields /\ "finished" \in EntryFields /\ "ttfb" \in EntryFields
      /\ "stream" \in EntryFields /\ "total" \in EntryFields /\ "ollama" \in EntryFields
      /\ "side" \in EntryFields
  BY DEF EntryFields
<1>1. PICK format \in {<<>>, <<"j">>}, headers \in Strings(Strings({"a", "l"}, 1), 2),
           req \in Bytes, resp \in Bytes, ollama \in BOOLEAN :
        sample' = [kind |-> "entry",
                   entry |-> [Created EXCEPT !.status = "done", !.finished = 1, !.ollama = ollama,
                                 !.side = [s \in Sides |->
                                     IF s = "request" THEN Side(format, headers, req)
                                     ELSE Side(format, headers, resp)]]]
  BY Zenon DEF DrawSides
<1>2. PICK sides : sides = [s \in Sides |-> IF s = "request" THEN Side(format, headers, req)
                                            ELSE Side(format, headers, resp)]
  OBVIOUS
<1>3. PICK e : e = [Created EXCEPT !.status = "done", !.finished = 1, !.ollama = ollama,
                                   !.side = sides]
  OBVIOUS
<1>4. sample' = [kind |-> "entry", entry |-> e]
  BY <1>1, <1>2, <1>3, Zenon
<1>5. PICK c : c = Created
  OBVIOUS
<1>6. e = With(With(With(With(c, "status", "done"), "finished", 1), "ollama", ollama),
               "side", sides)
  BY <1>3, <1>5, Zenon DEF With
<1>7. PICK r1 : r1 = With(c, "status", "done")
  OBVIOUS
<1>8. PICK r2 : r2 = With(r1, "finished", 1)
  OBVIOUS
<1>9. PICK r3 : r3 = With(r2, "ollama", ollama)
  OBVIOUS
<1>10. PICK r4 : r4 = With(r3, "side", sides)
  OBVIOUS
<1>11. e = r4
  BY <1>6, <1>7, <1>8, <1>9, <1>10
<1>12. /\ IsRec(c, EntryFields) /\ c["replay"] = FALSE
       /\ c["code"] \in Nat /\ c["error"] \in Seq(Letters) /\ c["at"] \in Nat
  BY <1>5, CreatedEntry DEF IsEntry
<1>13. IsRec(r1, EntryFields) /\ \A f \in EntryFields \ {"status"} : r1[f] = c[f]
  BY <1>0, <1>7, <1>12, WithOne
<1>14. IsRec(r2, EntryFields) /\ r2["finished"] = 1
       /\ \A f \in EntryFields \ {"finished"} : r2[f] = r1[f]
  BY <1>0, <1>8, <1>13, WithOne
<1>15. IsRec(r3, EntryFields) /\ \A f \in EntryFields \ {"ollama"} : r3[f] = r2[f]
  BY <1>0, <1>9, <1>14, WithOne
<1>16. IsRec(r4, EntryFields) /\ r4["side"] = sides
       /\ \A f \in EntryFields \ {"side"} : r4[f] = r3[f]
  BY <1>0, <1>10, <1>15, WithOne
<1>17. /\ r4["code"] = c["code"] /\ r4["error"] = c["error"] /\ r4["at"] = c["at"]
       /\ r4["finished"] = 1 /\ r4["replay"] = c["replay"]
  BY <1>13, <1>14, <1>15, <1>16 DEF EntryFields
<1>18. format \in Seq(Letters)
  <2>1. <<>> \in Seq(Letters) /\ <<"j">> \in Seq(Letters)
    BY DEF Letters
  <2> QED
    BY <2>1
<1>19. req \in Seq(Letters) /\ resp \in Seq(Letters)
  <2>1. {"a", "l", "c"} \subseteq Letters
    BY DEF Letters
  <2>2. Bytes \subseteq Seq({"a", "l", "c"})
    BY StringsAreSeqs, AlgorithmsAssumption DEF Bytes
  <2>3. Seq({"a", "l", "c"}) \subseteq Seq(Letters)
    BY <2>1, SeqWider
  <2> QED
    BY <2>2, <2>3
<1>20. headers \in Seq(Seq(Letters))
  <2> DEFINE S == Strings({"a", "l"}, 1)
  <2>1. {"a", "l"} \subseteq Letters
    BY DEF Letters
  <2>2. S \subseteq Seq({"a", "l"})
    BY StringsAreSeqs
  <2>3. Seq({"a", "l"}) \subseteq Seq(Letters)
    BY <2>1, SeqWider
  <2> HIDE DEF S
  <2>4. Strings(S, 2) \subseteq Seq(S)
    BY StringsAreSeqs
  <2>5. Seq(S) \subseteq Seq(Seq(Letters))
    BY <2>2, <2>3, SeqWider
  <2> QED
    BY <2>4, <2>5 DEF S
<1>21. ASSUME NEW s \in Sides PROVE IsSide(sides[s])
  <2>1. IsSide(Side(format, headers, req)) /\ IsSide(Side(format, headers, resp))
    BY <1>18, <1>19, <1>20, SideDrawn
  <2> QED
    BY <1>2, <2>1
<1>22. IsEntry(e)
  BY <1>11, <1>12, <1>16, <1>17, <1>21 DEF IsEntry
<1> QED
  BY <1>4, <1>11, <1>12, <1>17, <1>22

\* The lines of an Ollama response.
LEMMA LinesDrawn ==
    ASSUME DrawLines
    PROVE  /\ "kind" \in DOMAIN sample' /\ sample'.kind = "lines"
           /\ PreviewGrows(sample'.format, sample'.lines, sample'.cut)
           /\ DecodersAgree(sample'.format, sample'.lines)
<1>1. PICK format, n, lines, k :
        /\ n \in 1 .. MaxLines /\ lines \in [1 .. n -> OllamaLines] /\ k \in 1 .. n
        /\ sample' = [kind |-> "lines", format |-> format, lines |-> lines, cut |-> k]
  BY Zenon DEF DrawLines
<1> DEFINE L == {"a", "c"}
<1>2. OllamaLines \subseteq LineType(L)
  <2>1. <<>> \in Seq(L) /\ <<"a">> \in Seq(L) /\ <<"c">> \in Seq(L)
    OBVIOUS
  <2> HIDE DEF L
  <2> QED
    BY <2>1 DEF OllamaLines, LineType
<1> HIDE DEF L
<1>3. n \in Nat
  BY <1>1, AlgorithmsAssumption
<1>4. lines \in [1 .. n -> LineType(L)]
  BY <1>1, <1>2
<1>5. lines \in Seq(LineType(L)) /\ Len(lines) = n
  BY <1>3, <1>4, TableSeq
<1>6. k \in 1 .. Len(lines)
  BY <1>1, <1>5
<1>7. PreviewGrows(format, lines, k) /\ DecodersAgree(format, lines)
  BY <1>5, <1>6, PreviewAny, DecodersAny
<1> QED
  BY <1>1, <1>7

\* A base path and a request's path, which starts with a slash.
LEMMA PathDrawn ==
    ASSUME DrawPath
    PROVE  /\ "kind" \in DOMAIN sample' /\ sample'.kind = "path"
           /\ PathKept(sample'.base, sample'.path)
<1>1. PICK base, q :
        /\ base \in Strings({"/", "api"}, MaxPath) /\ q \in Strings({"/", "api", "gen", "%2F"}, MaxPath)
        /\ ~Glued(base) /\ ~Glued(q)
        /\ sample' = [kind |-> "path", base |-> base, path |-> <<"/">> \o q]
  BY Zenon DEF DrawPath
<1>2. base \in Seq(PathLetters)
  <2>1. base \in Seq({"/", "api"})
    BY <1>1, StringsAreSeqs, AlgorithmsAssumption
  <2>2. {"/", "api"} \subseteq PathLetters
    BY DEF PathLetters
  <2> QED
    BY <2>1, <2>2, SeqWider
<1>3. q \in Seq(PathLetters)
  BY <1>1, StringsAreSeqs, AlgorithmsAssumption DEF PathLetters
<1>4. PICK none, p : none = <<>> /\ p = <<"/">> \o q
  OBVIOUS
<1>5. p \in Seq(PathLetters) /\ p # <<>> /\ p[1] = "/"
  BY <1>3, <1>4, SlashPath, ConcatProperties
<1>6. ~Glued(p)
  <2>1. none \in Seq(PathLetters) /\ ~Glued(none)
    BY <1>4 DEF Glued
  <2>2. p = none \o (<<"/">> \o q)
    BY <1>4, <1>5, ConcatEmptySeq
  <2> QED
    BY <1>1, <1>3, <2>1, <2>2, Slashed
<1>7. PathKept(base, p)
  BY <1>1, <1>2, <1>5, <1>6, PathAny
<1> QED
  BY <1>1, <1>4, <1>7

\* A request that is sent again.
LEMMA ReplayDrawn ==
    ASSUME DrawReplay
    PROVE  /\ "kind" \in DOMAIN sample' /\ sample'.kind = "replay"
           /\ ReplayKeeps(sample'.request, sample'.pending)
<1> DEFINE V == {<<>>, <<"a">>, <<"l">>}
           A == {"a", "l", "j", "n", "w"}
<1>1. PICK method, pending, headers, body :
        /\ pending \in BOOLEAN /\ headers \in [HeaderNames -> Strings(V, 2)]
        /\ body \in Strings(A, MaxBytes)
        /\ sample' = [kind |-> "replay", pending |-> pending,
                      request |-> [method |-> method, headers |-> headers, body |-> body]]
  BY Zenon DEF DrawReplay
<1>2. V \subseteq Seq(Letters)
  <2>1. <<>> \in Seq(Letters) /\ <<"a">> \in Seq(Letters) /\ <<"l">> \in Seq(Letters)
    BY DEF Letters
  <2> QED
    BY <2>1
<1>3. A \subseteq Letters
  BY DEF Letters
<1> HIDE DEF V, A
<1>4. headers \in [HeaderNames -> Seq(Seq(Letters))]
  <2>1. Strings(V, 2) \subseteq Seq(V)
    BY StringsAreSeqs
  <2>2. Seq(V) \subseteq Seq(Seq(Letters))
    BY <1>2, SeqWider
  <2> QED
    BY <1>1, <2>1, <2>2
<1>5. body \in Seq(Letters)
  <2>1. Strings(A, MaxBytes) \subseteq Seq(A)
    BY StringsAreSeqs, AlgorithmsAssumption
  <2>2. Seq(A) \subseteq Seq(Letters)
    BY <1>3, SeqWider
  <2> QED
    BY <1>1, <2>1, <2>2
<1>6. PICK e : e = [method |-> method, headers |-> headers, body |-> body]
  OBVIOUS
<1>7. IsRequest(e)
  <2>1. e.headers = headers /\ e.body = body
    BY <1>6
  <2> QED
    BY <1>4, <1>5, <2>1 DEF IsRequest
<1>8. ReplayKeeps(e, pending)
  BY <1>1, <1>7, ReplayAny
<1>9. sample' = [kind |-> "replay", pending |-> pending, request |-> e]
  BY <1>1, <1>6, Zenon
<1>10. sample'.pending = pending
  BY <1>9, Zenon
<1>11. sample'.request = e /\ "kind" \in DOMAIN sample' /\ sample'.kind = "replay"
  BY <1>9
<1> QED
  BY <1>8, <1>10, <1>11

\* A response body and where its first read ends.
LEMMA BodyDrawn ==
    ASSUME DrawBody
    PROVE  /\ "kind" \in DOMAIN sample' /\ sample'.kind = "body"
           /\ SniffHolds(sample'.ct, sample'.body, sample'.cut)
<1> DEFINE A == {"[", "]", "1", "da", "ta:", "<", "nl", "sp"}
<1>1. PICK ct, body, k :
        /\ body \in Strings(A, MaxLexemes) /\ k \in 1 .. Len(body)
        /\ sample' = [kind |-> "body", ct |-> ct, body |-> body, cut |-> k]
  BY Zenon DEF DrawBody
<1> HIDE DEF A
<1>2. body \in Seq(A)
  BY <1>1, StringsAreSeqs, AlgorithmsAssumption
<1>3. SniffHolds(ct, body, k)
  BY <1>1, <1>2, SniffAny
<1> QED
  BY <1>1, <1>3

-------------------------------------------------------------------------------
(***************************************************************************)
(* The invariants of what is drawn.                                        *)
(***************************************************************************)
\* The inductive invariant: a sample has a kind, and the property of its kind.
Drawn ==
    /\ "kind" \in DOMAIN sample
    /\ RowStable /\ DetailStable /\ SniffStable
    /\ PreviewStable /\ DecodersMatch /\ UrlKept /\ ReplayFaithful

\* It holds before anything is drawn.
LEMMA DrawnInit == AlgoInit => Drawn
BY DEF AlgoInit, Drawn, RowStable, DetailStable, SniffStable, PreviewStable, DecodersMatch,
       UrlKept, ReplayFaithful

\* It holds of whatever is drawn, and while a client walks through the pages.
LEMMA DrawnStep == Drawn /\ [AlgoNext]_sample => Drawn'
<1> SUFFICES ASSUME Drawn, [AlgoNext]_sample PROVE Drawn'
  OBVIOUS
<1> USE DEF Drawn, RowStable, DetailStable, SniffStable, PreviewStable, DecodersMatch,
            UrlKept, ReplayFaithful
<1>1. CASE WalkStart \/ WalkFlush \/ WalkPage
  <2>1. "kind" \in DOMAIN sample' /\ sample'.kind = "walk"
    <3>1. CASE WalkStart
      BY <3>1 DEF WalkStart
    <3>2. CASE WalkFlush
      BY <3>2 DEF WalkFlush
    <3>3. CASE WalkPage
      BY <3>3 DEF WalkPage
    <3> QED
      BY <1>1, <3>1, <3>2, <3>3
  <2> QED
    BY <2>1
<1>2. CASE DrawScalars \/ DrawSides
  <2>1. /\ "kind" \in DOMAIN sample' /\ sample'.kind = "entry"
        /\ IsEntry(sample'.entry) /\ sample'.entry.replay = FALSE
    BY <1>2, ScalarsDrawn, SidesDrawn
  <2>2. PICK e : e = sample'.entry
    OBVIOUS
  <2>3. SameDetail(e) /\ SameRow([Created EXCEPT !.at = e.at, !.side["request"] = e.side["request"]], e)
    <3>1. IsEntry(e) /\ e.replay = FALSE
      BY <2>1, <2>2
    <3>2. SameDetail(e)
      BY <3>1, DetailAny
    <3>3. SameRow([Created EXCEPT !.at = e.at, !.side["request"] = e.side["request"]], e)
      BY <3>1, RowAny, Zenon
    <3> QED
      BY <3>2, <3>3
  <2>4. RowStable'
    BY <2>2, <2>3, Zenon
  <2>5. DetailStable'
    BY <2>2, <2>3, Zenon
  <2>6. sample'.kind \notin {"body", "lines", "path", "replay"}
    BY <2>1
  <2>7. SniffStable' /\ PreviewStable' /\ DecodersMatch' /\ UrlKept' /\ ReplayFaithful'
    BY <2>6
  <2> QED
    BY <2>1, <2>4, <2>5, <2>7, Zenon
<1>3. CASE DrawBody
  <2>1. /\ "kind" \in DOMAIN sample' /\ sample'.kind = "body"
        /\ SniffHolds(sample'.ct, sample'.body, sample'.cut)
    BY <1>3, BodyDrawn
  <2> QED
    BY <2>1
<1>4. CASE DrawLines
  <2>1. /\ "kind" \in DOMAIN sample' /\ sample'.kind = "lines"
        /\ PreviewGrows(sample'.format, sample'.lines, sample'.cut)
        /\ DecodersAgree(sample'.format, sample'.lines)
    BY <1>4, LinesDrawn
  <2> QED
    BY <2>1
<1>5. CASE DrawPath
  <2>1. /\ "kind" \in DOMAIN sample' /\ sample'.kind = "path"
        /\ PathKept(sample'.base, sample'.path)
    BY <1>5, PathDrawn
  <2> QED
    BY <2>1
<1>6. CASE DrawReplay
  <2>1. /\ "kind" \in DOMAIN sample' /\ sample'.kind = "replay"
        /\ ReplayKeeps(sample'.request, sample'.pending)
    BY <1>6, ReplayDrawn
  <2> QED
    BY <2>1
<1>7. CASE UNCHANGED sample
  BY <1>7
<1> QED
  BY <1>1, <1>2, <1>3, <1>4, <1>5, <1>6, <1>7 DEF AlgoNext

(***************************************************************************)
(* However an exchange ended, the row upsertRow keeps from "created" and   *)
(* the last "updated" is the row listRequests answers, but for the error   *)
(* and the response's format.                                              *)
(***************************************************************************)
THEOREM AlgoRowStable == AlgoSpec => []RowStable
<1>1. Drawn => RowStable
  BY DEF Drawn
<1> QED
  BY <1>1, DrawnInit, DrawnStep, PTL DEF AlgoSpec

(***************************************************************************)
(* However an exchange ended, for bodies of any length and any inline      *)
(* threshold, getRequest answers the same of it from memory and, after     *)
(* sqlDB.insert and scanEntry, from the database, but for the preview of a *)
(* spilled body.  DetailAny says so of headers of any number and length    *)
(* too.                                                                    *)
(***************************************************************************)
THEOREM AlgoDetailStable == AlgoSpec => []DetailStable
<1>1. Drawn => DetailStable
  BY DEF Drawn
<1> QED
  BY <1>1, DrawnInit, DrawnStep, PTL DEF AlgoSpec

(***************************************************************************)
(* Wherever the first read cuts a response of any length, consume settles  *)
(* on the format of the whole body, but for JSON told from NDJSON and a    *)
(* first read of blanks or inside the first word.                          *)
(***************************************************************************)
THEOREM AlgoSniffStable == AlgoSpec => []SniffStable
<1>1. Drawn => SniffStable
  BY DEF Drawn
<1> QED
  BY <1>1, DrawnInit, DrawnStep, PTL DEF AlgoSpec

(***************************************************************************)
(* However many lines an Ollama response has and wherever it is read, what *)
(* ollamaPreview shows of the part is the beginning of what it shows of    *)
(* the whole.                                                              *)
(***************************************************************************)
THEOREM AlgoPreviewStable == AlgoSpec => []PreviewStable
<1>1. Drawn => PreviewStable
  BY DEF Drawn
<1> QED
  BY <1>1, DrawnInit, DrawnStep, PTL DEF AlgoSpec

(***************************************************************************)
(* Of a response of any number of lines, the server's preview and the      *)
(* page's decoder make the same message, as far as DecodersAgree says.     *)
(***************************************************************************)
THEOREM AlgoDecodersMatch == AlgoSpec => []DecodersMatch
<1>1. Drawn => DecodersMatch
  BY DEF Drawn
<1> QED
  BY <1>1, DrawnInit, DrawnStep, PTL DEF AlgoSpec

(***************************************************************************)
(* Whatever the lengths of the target's base path and of the request's     *)
(* path, the path that is relayed names what the client asked for, under   *)
(* the base, and the record names the path that was relayed.               *)
(***************************************************************************)
THEOREM AlgoUrlKept == AlgoSpec => []UrlKept
<1>1. Drawn => UrlKept
  BY DEF Drawn
<1> QED
  BY <1>1, DrawnInit, DrawnStep, PTL DEF AlgoSpec

(***************************************************************************)
(* For bodies of any length and any inline threshold, the form             *)
(* renderComposer fills and Replay sends unedited is the request it was,   *)
(* as far as ReplayKeeps says, and sent once more it is the same request.  *)
(* ReplayAny says so of headers of any number and length too.              *)
(***************************************************************************)
THEOREM AlgoReplayFaithful == AlgoSpec => []ReplayFaithful
<1>1. Drawn => ReplayFaithful
  BY DEF Drawn
<1> QED
  BY <1>1, DrawnInit, DrawnStep, PTL DEF AlgoSpec

-------------------------------------------------------------------------------
(***************************************************************************)
(* The walk through the pages of the history.                              *)
(***************************************************************************)
\* No exchange is seen twice.
Unique(seen) == \A i, j \in 1 .. Len(seen) : seen[i] = seen[j] => i = j

\* What was seen is not older than the cursor.
Passed(E, seen, next) ==
    \A i \in 1 .. Len(seen) :
        next # Absent /\ \A e \in E : e.id = seen[i] => UnixMilli(e.at) >= next

\* The exchanges that were seen, share a page's last millisecond, or were not asked for.
Met(E, seen, ends, start) ==
    {e \in E : \/ \E i \in 1 .. Len(seen) : seen[i] = e.id
               \/ UnixMilli(e.at) \in ends
               \/ start # Absent /\ UnixMilli(e.at) >= start}

\* Nothing is left to meet.
AllMet(E, seen, ends, start) == \A e \in E : e \in Met(E, seen, ends, start)

\* What was not met is still ahead.
Owed(E, seen, ends, start, next) == \A e \in E : e \in Met(E, seen, ends, start) \/ e \in Older(E, next)

\* A client on its way through the history E: what it saw, where it is and what is ahead.
OnTheWay(E, seen, ends, start, next) ==
    /\ next \in {Absent} \cup Nat /\ seen \in Seq({e.id : e \in E})
    /\ Unique(seen) /\ Passed(E, seen, next) /\ Owed(E, seen, ends, start, next)

\* What a client that has read a page goes on with.
Reads(page, L, next, seen, ends, to, more, last) ==
    /\ to = IF page = <<>> THEN next ELSE page[Len(page)].started
    /\ more = seen \o [i \in 1 .. Len(page) |-> page[i].id]
    /\ last = IF Len(page) = L THEN ends \cup {to} ELSE ends

\* What one more page adds to the walk.
LEMMA PageStep ==
    ASSUME NEW E, NEW next, NEW L \in Nat, NEW page \in Seq(RowsOf(E)),
           NEW seen, NEW ends, NEW start, NEW to, NEW more, NEW last,
           History(E), L # 0, Paged(page, Older(E, next), L),
           OnTheWay(E, seen, ends, start, next),
           Reads(page, L, next, seen, ends, to, more, last)
    PROVE  /\ OnTheWay(E, more, last, start, to)
           /\ Len(page) # L => AllMet(E, more, last, start)
<1>0. /\ next \in {Absent} \cup Nat /\ seen \in Seq({e.id : e \in E})
      /\ Unique(seen) /\ Passed(E, seen, next) /\ Owed(E, seen, ends, start, next)
      /\ to = (IF page = <<>> THEN next ELSE page[Len(page)].started)
      /\ more = seen \o [i \in 1 .. Len(page) |-> page[i].id]
      /\ last = (IF Len(page) = L THEN ends \cup {to} ELSE ends)
  BY DEF OnTheWay, Reads
<1> USE <1>0
<1> DEFINE I == {e.id : e \in E}
           O == Older(E, next)
<1>1. PICK n \in Nat : n = Len(page)
  OBVIOUS
<1>2. PICK g : g = [i \in 1 .. n |-> page[i].id]
  OBVIOUS
<1>3. \A i \in 1 .. n : page[i].id \in I /\ page[i].started \in Nat
  <2>1. \A i \in 1 .. n : page[i] \in RowsOf(E)
    BY <1>1
  <2> QED
    BY <2>1 DEF RowsOf
<1>4. g \in Seq(I) /\ Len(g) = n /\ \A i \in 1 .. n : g[i] = page[i].id
  <2>1. g \in [1 .. n -> I]
    BY <1>2, <1>3
  <2> HIDE DEF I
  <2> QED
    BY <1>2, <2>1, TableSeq
<1>5. more = seen \o g
  BY <1>1, <1>2
<1>6. /\ more \in Seq(I) /\ Len(more) = Len(seen) + Len(g) /\ Len(seen) \in Nat
      /\ \A a \in 1 .. Len(seen) : a \in 1 .. Len(more) /\ more[a] = seen[a]
      /\ \A b \in 1 .. Len(g) : Len(seen) + b \in 1 .. Len(more) /\ more[Len(seen) + b] = g[b]
      /\ \A a \in 1 .. Len(more) : a \in 1 .. Len(seen) \/ \E b \in 1 .. Len(g) : a = Len(seen) + b
  <2> HIDE DEF I
  <2>1. more \in Seq(I) /\ Joins(more, seen, g)
    BY <1>4, <1>5, Halves DEF I
  <2> QED
    BY <2>1 DEF Joins
<1>7. /\ n <= L
      /\ \A i \in 1 .. n : \E e \in O : e.id = page[i].id /\ UnixMilli(e.at) = page[i].started
      /\ \A i, j \in 1 .. n : i < j => page[i].started >= page[j].started
      /\ \A i, j \in 1 .. n : page[i].id = page[j].id => i = j
      /\ \A e \in O :
            \/ \E i \in 1 .. n : page[i].id = e.id
            \/ n = L /\ UnixMilli(e.at) <= page[L].started
  BY <1>1 DEF Paged
<1>8. O \subseteq E /\ \A e \in O : next = Absent \/ UnixMilli(e.at) < next
  BY DEF Older
<1>9. \A e \in E : UnixMilli(e.at) \in Nat
  BY MilliType DEF History
<1>10. \A e \in E : e \in O \/ (next # Absent /\ ~(UnixMilli(e.at) < next))
  BY DEF Older
<1> HIDE DEF I, O
<1>11. n = 0 => to = next
  <2>1. n = 0 => page = <<>>
    BY <1>1, EmptySeq
  <2> QED
    BY <2>1
<1>12. n # 0 => to = page[n].started /\ n \in 1 .. n /\ to \in Nat
  <2>1. ASSUME n # 0 PROVE page # <<>> /\ n \in 1 .. n
    BY <1>1, <2>1
  <2> QED
    BY <1>1, <1>3, <2>1
<1>13. to \in {Absent} \cup Nat
  BY <1>11, <1>12
<1>14. ASSUME NEW a \in 1 .. Len(seen), NEW b \in 1 .. n PROVE seen[a] # page[b].id
  <2>1. PICK e \in O : e.id = page[b].id
    BY <1>7
  <2>2. next # Absent /\ (e.id = seen[a] => UnixMilli(e.at) >= next)
    BY <1>8 DEF Passed
  <2>3. UnixMilli(e.at) < next /\ UnixMilli(e.at) \in Nat /\ next \in Nat
    BY <1>8, <1>9, <2>2
  <2> QED
    BY <2>1, <2>2, <2>3
<1>15. Unique(more)
  <2> SUFFICES ASSUME NEW i \in 1 .. Len(more), NEW j \in 1 .. Len(more), more[i] = more[j]
               PROVE  i = j
    BY DEF Unique
  <2>1. CASE i \in 1 .. Len(seen) /\ j \in 1 .. Len(seen)
    <3>1. seen[i] = seen[j]
      BY <1>6, <2>1
    <3> QED
      BY <2>1, <3>1 DEF Unique
  <2>2. CASE i \in 1 .. Len(seen) /\ j \notin 1 .. Len(seen)
    <3>1. PICK b \in 1 .. n : j = Len(seen) + b
      BY <1>4, <1>6, <2>2
    <3>2. seen[i] = page[b].id
      BY <1>4, <1>6, <2>2, <3>1
    <3> QED
      BY <1>14, <2>2, <3>2
  <2>3. CASE i \notin 1 .. Len(seen) /\ j \in 1 .. Len(seen)
    <3>1. PICK b \in 1 .. n : i = Len(seen) + b
      BY <1>4, <1>6, <2>3
    <3>2. seen[j] = page[b].id
      BY <1>4, <1>6, <2>3, <3>1
    <3> QED
      BY <1>14, <2>3, <3>2
  <2>4. CASE i \notin 1 .. Len(seen) /\ j \notin 1 .. Len(seen)
    <3>1. PICK b \in 1 .. n : i = Len(seen) + b
      BY <1>4, <1>6, <2>4
    <3>2. PICK k \in 1 .. n : j = Len(seen) + k
      BY <1>4, <1>6, <2>4
    <3>3. page[b].id = page[k].id
      BY <1>4, <1>6, <3>1, <3>2
    <3>4. b = k
      BY <1>7, <3>3
    <3> QED
      BY <3>1, <3>2, <3>4
  <2> QED
    BY <2>1, <2>2, <2>3, <2>4
<1>16. Passed(E, more, to)
  <2> SUFFICES ASSUME NEW i \in 1 .. Len(more)
               PROVE  to # Absent /\ \A e \in E : e.id = more[i] => UnixMilli(e.at) >= to
    BY DEF Passed
  <2>1. ASSUME NEW b \in 1 .. n, NEW e \in E, e.id = page[b].id PROVE UnixMilli(e.at) = page[b].started
    <3>1. PICK f \in O : f.id = page[b].id /\ UnixMilli(f.at) = page[b].started
      BY <1>7
    <3>2. e = f
      BY <1>8, <2>1, <3>1 DEF History
    <3> QED
      BY <3>1, <3>2
  <2>2. CASE i \in 1 .. Len(seen)
    <3>1. more[i] = seen[i] /\ next # Absent /\ \A e \in E : e.id = seen[i] => UnixMilli(e.at) >= next
      BY <1>6, <2>2 DEF Passed
    <3>2. CASE n = 0
      BY <1>11, <3>1, <3>2
    <3>3. CASE n # 0
      <4>1. to = page[n].started /\ n \in 1 .. n /\ to \in Nat
        BY <1>12, <3>3
      <4>2. PICK f \in O : UnixMilli(f.at) = page[n].started
        BY <1>7, <4>1
      <4>3. to < next /\ next \in Nat
        BY <1>8, <3>1, <4>1, <4>2
      <4>4. to # Absent
        BY <4>1, ListingAssumption
      <4> QED
        BY <1>9, <3>1, <4>1, <4>3, <4>4
    <3> QED
      BY <3>2, <3>3
  <2>3. CASE i \notin 1 .. Len(seen)
    <3>1. PICK b \in 1 .. n : i = Len(seen) + b
      BY <1>4, <1>6, <2>3
    <3>2. more[i] = page[b].id
      BY <1>4, <1>6, <3>1
    <3>3. n # 0 /\ to = page[n].started /\ n \in 1 .. n /\ to \in Nat
      BY <1>12
    <3>4. page[b].started >= to
      <4>1. CASE b = n
        BY <3>3, <4>1
      <4>2. CASE b < n
        BY <1>7, <3>3, <4>2
      <4> QED
        BY <4>1, <4>2
    <3>5. to # Absent
      BY <3>3, ListingAssumption
    <3> QED
      BY <2>1, <3>2, <3>4, <3>5
  <2> QED
    BY <2>2, <2>3
<1>17. ASSUME NEW e \in E, e \in Met(E, seen, ends, start) PROVE e \in Met(E, more, last, start)
  <2>1. ends \subseteq last
    OBVIOUS
  <2>2. (\E i \in 1 .. Len(seen) : seen[i] = e.id) => \E i \in 1 .. Len(more) : more[i] = e.id
    BY <1>6
  <2> QED
    BY <1>17, <2>1, <2>2 DEF Met
<1>18. ASSUME NEW e \in O
       PROVE  e \in Met(E, more, last, start) \/ (n = L /\ e \in Older(E, to))
  <2>1. CASE \E i \in 1 .. n : page[i].id = e.id
    <3>1. \E i \in 1 .. Len(more) : more[i] = e.id
      BY <1>4, <1>6, <2>1
    <3> QED
      BY <1>8, <3>1 DEF Met
  <2>2. CASE n = L /\ UnixMilli(e.at) <= page[L].started
    <3>1. to = page[L].started /\ to \in Nat /\ UnixMilli(e.at) \in Nat /\ last = ends \cup {to}
      BY <1>1, <1>8, <1>9, <1>12, <2>2
    <3>2. UnixMilli(e.at) = to \/ UnixMilli(e.at) < to
      BY <2>2, <3>1
    <3>3. UnixMilli(e.at) = to => e \in Met(E, more, last, start)
      BY <1>8, <3>1 DEF Met
    <3>4. UnixMilli(e.at) < to => e \in Older(E, to)
      BY <1>8 DEF Older
    <3> QED
      BY <2>2, <3>2, <3>3, <3>4
  <2> QED
    BY <1>7, <2>1, <2>2
<1>19. \A e \in E : e \in Met(E, seen, ends, start) \/ e \in O
  BY DEF Owed, O
<1>20. Owed(E, more, last, start, to)
  BY <1>17, <1>18, <1>19 DEF Owed
<1>21. n # L => \A e \in E : e \in Met(E, more, last, start)
  BY <1>17, <1>18, <1>19
<1>22. Len(page) # L => AllMet(E, more, last, start)
  BY <1>1, <1>21 DEF AllMet
<1> QED
  BY <1>6, <1>13, <1>15, <1>16, <1>20, <1>22 DEF I, OnTheWay

\* The fields of a walk.
WalkFields ==
    {"kind", "entries", "mem", "asked", "start", "from", "next", "page", "seen", "ends", "over"}

\* A client at the end of the history has met everything.
AtTheEnd(E, seen, ends, start, over) == over => AllMet(E, seen, ends, start)

\* The answer to the last request is a page.
Answered(E, asked, from, page, seen, over) ==
    seen # <<>> \/ over => IsPage(page, E, Limit(asked), from)

\* A client on its way, at the end or not, with a page in its hands.
Walking(w) ==
    /\ IsRec(w, WalkFields) /\ w["kind"] = "walk"
    /\ History(w["entries"]) /\ w["asked"] \in {Absent} \cup Nat
    /\ OnTheWay(w["entries"], w["seen"], w["ends"], w["start"], w["next"])
    /\ AtTheEnd(w["entries"], w["seen"], w["ends"], w["start"], w["over"])
    /\ Answered(w["entries"], w["asked"], w["from"], w["page"], w["seen"], w["over"])

\* The exchanges of a history.
LEMMA HistoryDrawn ==
    ASSUME NEW S, IsFiniteSet(S), NEW at, \A i \in S : at[i] \in Nat,
           NEW E, E = {[id |-> i, at |-> at[i]] : i \in S}
    PROVE  History(E)
<1>1. \A e \in E : e.id \in S /\ e = [id |-> e.id, at |-> at[e.id]]
  OBVIOUS
<1>2. \A e \in E : e = [id |-> e.id, at |-> e.at] /\ e.at \in Nat
  BY <1>1
<1>3. \A e \in E, f \in E : e.id = f.id => e = f
  BY <1>1
<1>4. IsFiniteSet(E)
  <2>1. PICK g : g = [i \in S |-> [id |-> i, at |-> at[i]]]
    OBVIOUS
  <2>2. g \in [S -> E]
    BY <2>1
  <2>3. \A e \in E : \E i \in S : g[i] = e
    BY <2>1
  <2>4. g \in Surjection(S, E)
    BY <2>2, <2>3 DEF Surjection
  <2> QED
    BY <2>4, FS_Surjection
<1> QED
  BY <1>2, <1>3, <1>4 DEF History

\* A walk begins.
LEMMA WalkBegins == WalkStart => Walking(sample')
<1> SUFFICES ASSUME WalkStart PROVE Walking(sample')
  OBVIOUS
<1>1. PICK at, mem, asked, from :
        /\ at \in [Entries -> 0 .. MaxInstant] /\ asked \in {Absent} \cup 0 .. MaxLimit + 1
        /\ from \in {Absent, 1}
        /\ sample' = [kind |-> "walk", entries |-> {[id |-> i, at |-> at[i]] : i \in Entries},
                      mem |-> mem, asked |-> asked, start |-> from, from |-> from, next |-> from,
                      page |-> <<>>, seen |-> <<>>, ends |-> {}, over |-> FALSE]
  BY Zenon DEF WalkStart
<1>2. PICK E : E = {[id |-> i, at |-> at[i]] : i \in Entries}
  OBVIOUS
<1>3. History(E)
  <2>1. \A i \in Entries : at[i] \in Nat
    BY <1>1, AlgorithmsAssumption
  <2> QED
    BY <1>2, <2>1, HistoryDrawn, AlgorithmsAssumption
<1>4. PICK w : w = sample'
  OBVIOUS
<1>5. w = [kind |-> "walk", entries |-> E,
                      mem |-> mem, asked |-> asked, start |-> from, from |-> from, next |-> from,
                      page |-> <<>>, seen |-> <<>>, ends |-> {}, over |-> FALSE]
  BY <1>1, <1>2, <1>4, Zenon
<1>6. /\ w["kind"] = "walk" /\ w["entries"] = E /\ w["asked"] = asked /\ w["start"] = from
      /\ w["from"] = from /\ w["next"] = from /\ w["page"] = <<>> /\ w["seen"] = <<>>
      /\ w["ends"] = {} /\ w["over"] = FALSE
  BY <1>5
<1>7. IsRec(w, WalkFields)
  BY <1>5 DEF IsRec, WalkFields
<1>8. asked \in {Absent} \cup Nat /\ from \in {Absent} \cup Nat
  BY <1>1, ListingAssumption
<1>9. OnTheWay(E, <<>>, {}, from, from)
  <2>1. Unique(<<>>) /\ Passed(E, <<>>, from)
    BY DEF Unique, Passed
  <2>2. \A e \in E : UnixMilli(e.at) \in Nat
    BY <1>3, MilliType DEF History
  <2>3. Owed(E, <<>>, {}, from, from)
    BY <1>8, <2>2 DEF Owed, Met, Older
  <2> QED
    BY <1>8, <2>1, <2>3 DEF OnTheWay
<1>10. AtTheEnd(E, <<>>, {}, from, FALSE)
  BY DEF AtTheEnd
<1>11. Answered(E, asked, from, <<>>, <<>>, FALSE)
  BY DEF Answered
<1>12. Walking(w)
  BY <1>3, <1>6, <1>7, <1>8, <1>9, <1>10, <1>11 DEF Walking
<1> QED
  BY <1>4, <1>12

\* An exchange moves to the database.
LEMMA WalkFlushed == Walking(sample) /\ WalkFlush => Walking(sample')
<1> SUFFICES ASSUME Walking(sample), WalkFlush PROVE Walking(sample')
  OBVIOUS
<1>1. PICK x : sample' = With(sample, "mem", x)
  BY Zenon DEF WalkFlush, With
<1>2. PICK w : w = sample
  OBVIOUS
<1>3. PICK t : t = sample'
  OBVIOUS
<1>4. t = With(w, "mem", x) /\ IsRec(w, WalkFields)
  BY <1>1, <1>2, <1>3, Zenon DEF Walking
<1>5. "mem" \in WalkFields
  BY DEF WalkFields
<1>6. IsRec(t, WalkFields) /\ \A f \in WalkFields \ {"mem"} : t[f] = w[f]
  BY <1>4, <1>5, WithOne
<1>7. \A f \in {"kind", "entries", "asked", "start", "from", "next", "page", "seen", "ends", "over"} :
        t[f] = w[f]
  BY <1>6 DEF WalkFields
<1>8. /\ t["kind"] = w["kind"] /\ t["entries"] = w["entries"] /\ t["asked"] = w["asked"]
      /\ t["start"] = w["start"] /\ t["from"] = w["from"] /\ t["next"] = w["next"]
      /\ t["page"] = w["page"] /\ t["seen"] = w["seen"] /\ t["ends"] = w["ends"]
      /\ t["over"] = w["over"]
  BY <1>7
<1>9. Walking(w)
  BY <1>2
<1>10. Walking(t)
  BY <1>6, <1>8, <1>9, Zenon DEF Walking
<1> QED
  BY <1>3, <1>10

\* A page that is asked for.
Asks(E, mem, asked, next, page) ==
    page \in ListRequests({e \in E : e.id \in mem}, E \ {e \in E : e.id \in mem}, asked, next)

\* The walk after one more page.
LEMMA WayGoesOn ==
    ASSUME NEW E, NEW mem, NEW asked \in {Absent} \cup Nat, NEW seen, NEW ends, NEW start,
           NEW next, NEW page, NEW to, NEW more, NEW last,
           History(E), OnTheWay(E, seen, ends, start, next),
           Asks(E, mem, asked, next, page),
           Reads(page, Limit(asked), next, seen, ends, to, more, last)
    PROVE  /\ OnTheWay(E, more, last, start, to)
           /\ Len(page) # Limit(asked) => AllMet(E, more, last, start)
           /\ IsPage(page, E, Limit(asked), next)
<1>1. next \in {Absent} \cup Nat
  BY DEF OnTheWay
<1>2. PICK M : M = {e \in E : e.id \in mem}
  OBVIOUS
<1>3. M \in SUBSET E /\ page \in ListRequests(M, E \ M, asked, next)
  BY <1>2 DEF Asks
<1>4. PICK L : L = Limit(asked)
  OBVIOUS
<1>5. L \in Nat /\ L # 0 /\ page \in Seq(RowsOf(E)) /\ Paged(page, Older(E, next), L)
  BY <1>1, <1>3, <1>4, AnswerPaged
<1>6. IsPage(page, E, L, next)
  BY <1>5, PageAny
<1>7. Reads(page, L, next, seen, ends, to, more, last)
  BY <1>4
<1>8. OnTheWay(E, more, last, start, to) /\ (Len(page) # L => AllMet(E, more, last, start))
  BY <1>5, <1>7, PageStep
<1> QED
  BY <1>4, <1>6, <1>8

\* The record of a walk after one more page.
LEMMA Turned ==
    ASSUME NEW w, IsRec(w, WalkFields), NEW a, NEW b, NEW c, NEW d, NEW e, NEW f, NEW t,
           t = With(With(With(With(With(With(w, "from", a), "next", b), "page", c), "over", d),
                         "seen", e), "ends", f)
    PROVE  /\ IsRec(t, WalkFields)
           /\ t["kind"] = w["kind"] /\ t["entries"] = w["entries"]
           /\ t["asked"] = w["asked"] /\ t["start"] = w["start"]
           /\ t["from"] = a /\ t["next"] = b /\ t["page"] = c
           /\ t["over"] = d /\ t["seen"] = e /\ t["ends"] = f
<1>0. /\ "from" \in WalkFields /\ "next" \in WalkFields /\ "page" \in WalkFields
      /\ "over" \in WalkFields /\ "seen" \in WalkFields /\ "ends" \in WalkFields
      /\ "kind" \in WalkFields /\ "entries" \in WalkFields /\ "asked" \in WalkFields
      /\ "start" \in WalkFields
  BY DEF WalkFields
<1>1. PICK t1 : t1 = With(w, "from", a)
  OBVIOUS
<1>2. PICK t2 : t2 = With(t1, "next", b)
  OBVIOUS
<1>3. PICK t3 : t3 = With(t2, "page", c)
  OBVIOUS
<1>4. PICK t4 : t4 = With(t3, "over", d)
  OBVIOUS
<1>5. PICK t5 : t5 = With(t4, "seen", e)
  OBVIOUS
<1>6. t = With(t5, "ends", f)
  BY <1>1, <1>2, <1>3, <1>4, <1>5, Zenon
<1>11. IsRec(t1, WalkFields) /\ t1["from"] = a /\ \A g \in WalkFields \ {"from"} : t1[g] = w[g]
  BY <1>0, <1>1, WithOne
<1>12. IsRec(t2, WalkFields) /\ t2["next"] = b /\ \A g \in WalkFields \ {"next"} : t2[g] = t1[g]
  BY <1>0, <1>2, <1>11, WithOne
<1>13. IsRec(t3, WalkFields) /\ t3["page"] = c /\ \A g \in WalkFields \ {"page"} : t3[g] = t2[g]
  BY <1>0, <1>3, <1>12, WithOne
<1>14. IsRec(t4, WalkFields) /\ t4["over"] = d /\ \A g \in WalkFields \ {"over"} : t4[g] = t3[g]
  BY <1>0, <1>4, <1>13, WithOne
<1>15. IsRec(t5, WalkFields) /\ t5["seen"] = e /\ \A g \in WalkFields \ {"seen"} : t5[g] = t4[g]
  BY <1>0, <1>5, <1>14, WithOne
<1>16. IsRec(t, WalkFields) /\ t["ends"] = f /\ \A g \in WalkFields \ {"ends"} : t[g] = t5[g]
  BY <1>0, <1>6, <1>15, WithOne
<1>17. /\ t["kind"] = w["kind"] /\ t["entries"] = w["entries"]
       /\ t["asked"] = w["asked"] /\ t["start"] = w["start"]
  BY <1>0, <1>11, <1>12, <1>13, <1>14, <1>15, <1>16
<1>18. t["from"] = a /\ t["next"] = b
  BY <1>0, <1>11, <1>12, <1>13, <1>14, <1>15, <1>16
<1>19. t["page"] = c /\ t["over"] = d /\ t["seen"] = e
  BY <1>0, <1>13, <1>14, <1>15, <1>16
<1> QED
  BY <1>16, <1>17, <1>18, <1>19

\* The next page is read.
LEMMA WalkPaged == Walking(sample) /\ WalkPage => Walking(sample')
<1> SUFFICES ASSUME Walking(sample), WalkPage PROVE Walking(sample')
  OBVIOUS
<1> DEFINE E == sample.entries
           M == {e \in E : e.id \in sample.mem}
<1>1. PICK page \in ListRequests(M, E \ M, sample.asked, sample.next) :
        LET full == Len(page) = Limit(sample.asked)
            next == IF page = <<>> THEN sample.next ELSE Last(page).started
        IN sample' = [sample EXCEPT
                !.from = sample.next, !.next = next, !.page = page, !.over = ~full,
                !.seen = sample.seen \o [i \in 1 .. Len(page) |-> page[i].id],
                !.ends = IF full THEN sample.ends \cup {next} ELSE sample.ends]
  BY Zenon DEF WalkPage
<1>2. PICK full : full = (Len(page) = Limit(sample.asked))
  OBVIOUS
<1>3. PICK to : to = (IF page = <<>> THEN sample.next ELSE Last(page).started)
  OBVIOUS
<1>4. PICK more : more = sample.seen \o [i \in 1 .. Len(page) |-> page[i].id]
  OBVIOUS
<1>5. PICK last : last = (IF full THEN sample.ends \cup {to} ELSE sample.ends)
  OBVIOUS
<1>6. PICK over : over = ~full
  OBVIOUS
<1>7. sample' = With(With(With(With(With(With(sample, "from", sample.next), "next", to), "page", page),
                                "over", over), "seen", more), "ends", last)
  BY <1>1, <1>2, <1>3, <1>4, <1>5, <1>6, Zenon DEF With
<1>8. /\ IsRec(sample, WalkFields) /\ sample.kind = "walk"
      /\ History(E) /\ sample.asked \in {Absent} \cup Nat
      /\ OnTheWay(E, sample.seen, sample.ends, sample.start, sample.next)
  BY Zenon DEF Walking
<1>9. PICK t : t = sample'
  OBVIOUS
<1>10. /\ IsRec(t, WalkFields)
       /\ t["kind"] = "walk" /\ t["entries"] = E
       /\ t["asked"] = sample.asked /\ t["start"] = sample.start
       /\ t["from"] = sample.next /\ t["next"] = to /\ t["page"] = page
       /\ t["over"] = over /\ t["seen"] = more /\ t["ends"] = last
  <2>1. PICK w : w = sample
    OBVIOUS
  <2>2. PICK a : a = sample.next
    OBVIOUS
  <2>3. /\ IsRec(w, WalkFields)
        /\ t = With(With(With(With(With(With(w, "from", a), "next", to), "page", page),
                                "over", over), "seen", more), "ends", last)
    BY <1>7, <1>8, <1>9, <2>1, <2>2, Zenon
  <2>4. /\ IsRec(t, WalkFields)
        /\ t["kind"] = w["kind"] /\ t["entries"] = w["entries"]
        /\ t["asked"] = w["asked"] /\ t["start"] = w["start"]
        /\ t["from"] = a /\ t["next"] = to /\ t["page"] = page
        /\ t["over"] = over /\ t["seen"] = more /\ t["ends"] = last
    BY <2>3, Turned
  <2> QED
    BY <1>8, <2>1, <2>2, <2>4, Zenon
<1>11. /\ OnTheWay(E, more, last, sample.start, to)
       /\ Len(page) # Limit(sample.asked) => AllMet(E, more, last, sample.start)
       /\ IsPage(page, E, Limit(sample.asked), sample.next)
  <2>1. Asks(E, sample.mem, sample.asked, sample.next, page)
    BY <1>1, Zenon DEF Asks
  <2>2. Reads(page, Limit(sample.asked), sample.next, sample.seen, sample.ends, to, more, last)
    BY <1>2, <1>3, <1>4, <1>5, Zenon DEF Reads, Last
  <2> QED
    BY <1>8, <2>1, <2>2, WayGoesOn
<1>12. AtTheEnd(E, more, last, sample.start, over)
  BY <1>2, <1>6, <1>11, Zenon DEF AtTheEnd
<1>13. Answered(E, sample.asked, sample.next, page, more, over)
  BY <1>11 DEF Answered
<1>14. Walking(t)
  BY <1>8, <1>10, <1>11, <1>12, <1>13, Zenon DEF Walking
<1> QED
  BY <1>9, <1>14

\* The inductive invariant of the walk.
Walked == sample.kind = "walk" => Walking(sample)

\* It holds before a client asks for anything.
LEMMA WalkedInit == AlgoInit => Walked
BY DEF AlgoInit, Walked

\* It holds from page to page, and while exchanges finish in between.
LEMMA WalkedStep == Walked /\ [AlgoNext]_sample => Walked'
<1> SUFFICES ASSUME Walked, [AlgoNext]_sample PROVE Walked'
  OBVIOUS
<1>1. CASE WalkStart
  BY <1>1, WalkBegins DEF Walked
<1>2. CASE WalkFlush
  <2>1. sample.kind = "walk"
    BY <1>2, Zenon DEF WalkFlush
  <2> QED
    BY <1>2, <2>1, WalkFlushed DEF Walked
<1>3. CASE WalkPage
  <2>1. sample.kind = "walk"
    BY <1>3, Zenon DEF WalkPage
  <2> QED
    BY <1>3, <2>1, WalkPaged DEF Walked
<1>4. CASE DrawScalars \/ DrawSides \/ DrawBody \/ DrawLines \/ DrawPath \/ DrawReplay
  <2>1. sample'.kind \in {"entry", "body", "lines", "path", "replay"}
    BY <1>4, ScalarsDrawn, SidesDrawn, BodyDrawn, LinesDrawn, PathDrawn, ReplayDrawn
  <2> QED
    BY <2>1 DEF Walked
<1>5. CASE UNCHANGED sample
  BY <1>5 DEF Walked
<1> QED
  BY <1>1, <1>2, <1>3, <1>4, <1>5 DEF AlgoNext

(***************************************************************************)
(* For any finite history, any limit and cursor, whichever exchanges are   *)
(* in memory and whichever finish between two requests, in whatever order  *)
(* the map and the database hand over their halves, listRequests answers   *)
(* the page of the one history.                                            *)
(***************************************************************************)
THEOREM AlgoPageExact == AlgoSpec => []PageExact
<1>1. Walked => PageExact
  BY Zenon DEF Walked, Walking, Answered, PageExact
<1> QED
  BY <1>1, WalkedInit, WalkedStep, PTL DEF AlgoSpec

(***************************************************************************)
(* A client that follows started_at through any finite history, while      *)
(* exchanges move to the database, sees none twice and at the end has      *)
(* missed only exchanges that share the millisecond of the last row of a   *)
(* full page.                                                              *)
(***************************************************************************)
THEOREM AlgoWalkOnce == AlgoSpec => []WalkOnce
<1>1. Walked => WalkOnce
  <2> SUFFICES ASSUME Walked, sample.kind = "walk"
               PROVE  /\ IsInjective(sample.seen)
                      /\ sample.over => \A e \in sample.entries :
                            \/ \E i \in 1 .. Len(sample.seen) : sample.seen[i] = e.id
                            \/ UnixMilli(e.at) \in sample.ends
                            \/ sample.start # Absent /\ UnixMilli(e.at) >= sample.start
    BY DEF WalkOnce
  <2>1. /\ OnTheWay(sample.entries, sample.seen, sample.ends, sample.start, sample.next)
        /\ AtTheEnd(sample.entries, sample.seen, sample.ends, sample.start, sample.over)
    BY Zenon DEF Walked, Walking
  <2>2. IsInjective(sample.seen)
    <3>1. PICK s : s = sample.seen
      OBVIOUS
    <3>2. PICK I : s \in Seq(I)
      BY <2>1, <3>1 DEF OnTheWay
    <3>3. DOMAIN s = 1 .. Len(s) /\ Unique(s)
      BY <2>1, <3>1, <3>2 DEF OnTheWay
    <3>4. IsInjective(s)
      BY <3>3 DEF IsInjective, Unique
    <3> QED
      BY <3>1, <3>4
  <2>3. sample.over => AllMet(sample.entries, sample.seen, sample.ends, sample.start)
    BY <2>1, Zenon DEF AtTheEnd
  <2>4. AllMet(sample.entries, sample.seen, sample.ends, sample.start) =>
          \A e \in sample.entries :
              \/ \E i \in 1 .. Len(sample.seen) : sample.seen[i] = e.id
              \/ UnixMilli(e.at) \in sample.ends
              \/ sample.start # Absent /\ UnixMilli(e.at) >= sample.start
    BY Zenon DEF AllMet, Met
  <2> QED
    BY <2>2, <2>3, <2>4, Zenon
<1> QED
  BY <1>1, WalkedInit, WalkedStep, PTL DEF AlgoSpec
===============================================================================
