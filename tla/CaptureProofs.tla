----------------------------- MODULE CaptureProofs -----------------------------
(***************************************************************************)
(* Proofs about CaptureReader, for chunks and bodies of any length, any    *)
(* number of them and any timeout.                                         *)
(***************************************************************************)
EXTENDS CaptureReader, SequenceTheorems, WellFoundedInduction, TLAPS

\* The bytes read from the backend that consume has not looked at.
Rest == IF rpc \in {"sniff", "consume"} THEN hand ELSE <<>>

\* Nothing is lost, the part of CaptureExact that every step preserves.
Kept == ~refused => stored \o pending \o Rest = received

(***************************************************************************)
(* How the reader's fields go together: nothing is stored before the       *)
(* format is settled, only streamed bodies have an unfinished line, and    *)
(* nothing is in hand between two reads.                                   *)
(***************************************************************************)
Stages ==
    /\ ~sniffed => format = "raw" /\ stored = <<>> /\ told = <<>>
    /\ rpc = "sniff" => ~sniffed
    /\ rpc \in {"consume", "lines", "return"} => sniffed
    /\ rpc = "lines" => format = "stream"
    /\ format # "stream" => pending = <<>>
    /\ rpc = "ready" => hand = <<>>
    /\ rpc = "end" => pending = <<>>

\* The inductive invariant.
Inv == TypeOK /\ Stages /\ Kept /\ DeltasAreBody /\ StreamUnaltered

-------------------------------------------------------------------------------
\* A chunk is a sequence of bytes.
LEMMA ChunksAreBytes == Chunks \subseteq Bytes
BY DEF Chunks, Bytes

\* Concatenation, on bytes.
LEMMA Concat ==
    ASSUME NEW s \in Bytes, NEW t \in Bytes, NEW u \in Bytes
    PROVE  /\ s \o t \in Bytes
           /\ (s \o t) \o u = s \o (t \o u)
           /\ s \o <<>> = s /\ <<>> \o s = s
           /\ <<>> \in Bytes
BY ConcatProperties, ConcatAssociative, ConcatEmptySeq, EmptySeq DEF Bytes

\* Concatenation is associative, in the form in which steps instantiate it.
LEMMA Assoc ==
    \A s \in Bytes, t \in Bytes, u \in Bytes :
        t \o u \in Bytes /\ (s \o t) \o u = s \o (t \o u)
<1> TAKE s \in Bytes, t \in Bytes, u \in Bytes
<1>1. t \o u \in Bytes
  BY Concat
<1>2. (s \o t) \o u = s \o (t \o u)
  BY ConcatAssociative DEF Bytes
<1> QED
  BY <1>1, <1>2

\* A set of naturals that is not empty has a least element.
LEMMA LeastNatural ==
    ASSUME NEW T, T \subseteq Nat, T # {}
    PROVE  \E i \in T : \A j \in T : i <= j
<1> DEFINE R == OpToRel(<, Nat)
<1>1. IsWellFoundedOn(R, Nat)
  BY NatLessThanWellFounded
<1>2. \A i \in Nat, j \in Nat : j < i => <<j, i>> \in R
  <2> SUFFICES ASSUME NEW i \in Nat, NEW j \in Nat, j < i PROVE <<j, i>> \in R
    OBVIOUS
  <2>1. <<j, i>> \in Nat \X Nat /\ <<j, i>>[1] = j /\ <<j, i>>[2] = i
    OBVIOUS
  <2> QED
    BY <2>1, Zenon DEF OpToRel
<1> HIDE DEF R
<1>3. PICK i \in T : \A j \in T : ~ (<<j, i>> \in R)
  BY <1>1, WFMin
<1>4. \A j \in T : ~ (j < i)
  BY <1>2, <1>3
<1> QED
  BY <1>4

\* Cutting at the end of the first line splits the bytes in two.
LEMMA LineSplit ==
    ASSUME NEW s \in Bytes, HasLine(s)
    PROVE  /\ SubSeq(s, 1, LineEnd(s)) \in Bytes
           /\ SubSeq(s, LineEnd(s) + 1, Len(s)) \in Bytes
           /\ SubSeq(s, 1, LineEnd(s)) \o SubSeq(s, LineEnd(s) + 1, Len(s)) = s
<1> DEFINE T == {i \in 1 .. Len(s) : s[i] = Newline}
<1>1. Len(s) \in Nat
  BY LenProperties DEF Bytes
<1>2. PICK i \in T : \A j \in T : i <= j
  <2>1. T \subseteq Nat /\ T # {}
    BY <1>1 DEF HasLine
  <2> HIDE DEF T
  <2> QED
    BY <2>1, LeastNatural
<1>3. \A j \in 1 .. i - 1 : s[j] # Newline
  BY <1>1, <1>2
<1>4. LineEnd(s) \in 1 .. Len(s)
  <2>1. i \in 1 .. Len(s) /\ s[i] = Newline /\ \A j \in 1 .. i - 1 : s[j] # Newline
    BY <1>2, <1>3
  <2> QED
    BY <2>1, Zenon DEF LineEnd
<1>5. \A i2 \in 1 .. Len(s) : s[i2] \in Byte
  BY DEF Bytes
<1>6. /\ SubSeq(s, 1, LineEnd(s)) \in Seq(Byte)
      /\ SubSeq(s, LineEnd(s) + 1, Len(s)) \in Seq(Byte)
  BY <1>1, <1>4, <1>5, SubSeqProperties
<1>7. SubSeq(s, 1, LineEnd(s)) \o SubSeq(s, LineEnd(s) + 1, Len(s)) = SubSeq(s, 1, Len(s))
  <2> DEFINE k == LineEnd(s)
             m == 1
             n == Len(s)
  <2>1. m \in 1 .. Len(s) + 1 /\ k \in m - 1 .. Len(s) /\ n \in k .. Len(s)
    BY <1>1, <1>4
  <2>2. s \in Seq(Byte)
    BY DEF Bytes
  <2> HIDE DEF m, n, k
  <2>3. SubSeq(s, m, k) \o SubSeq(s, k + 1, n) = SubSeq(s, m, n)
    BY <2>1, <2>2, ConcatAdjacentSubSeq
  <2> QED
    BY <2>3 DEF m, n, k
<1> QED
  BY <1>6, <1>7, SubSeqFull DEF Bytes

-------------------------------------------------------------------------------
\* AppendResponse keeps all of the bytes or none of them.
LEMMA Appended ==
    ASSUME TypeOK, NEW bytes \in Bytes, NEW emit \in BOOLEAN, AppendResponse(bytes, emit)
    PROVE  /\ stored' \in Bytes /\ told' \in Bytes /\ age' \in 0 .. Timeout + 1
           /\ live' \in BOOLEAN /\ broken' \in BOOLEAN /\ refused' \in BOOLEAN
           /\ \/ /\ stored' = stored \o bytes
                 /\ told' = IF emit THEN told \o bytes ELSE told
                 /\ refused' = refused
              \/ stored' = stored /\ told' = told /\ refused'
<1>1. stored \o bytes \in Bytes /\ told \o bytes \in Bytes
  BY Concat DEF TypeOK
<1>2. 0 \in 0 .. Timeout + 1
  BY CaptureAssumption
<1> QED
  BY <1>1, <1>2 DEF TypeOK, AppendResponse

\* The inductive invariant holds initially.
LEMMA InitInv == Init => Inv
<1>1. <<>> \in Bytes /\ <<>> \o <<>> = <<>>
  BY Concat, EmptySeq DEF Bytes
<1>2. 0 \in 0 .. Timeout + 1
  BY CaptureAssumption
<1> SUFFICES ASSUME Init PROVE Inv
  OBVIOUS
<1>3. TypeOK
  <2>1. sniffed \in BOOLEAN
    BY Zenon DEF Init
  <2> QED
    BY <1>1, <1>2, <2>1 DEF Init, TypeOK
<1>4. Stages
  BY Zenon DEF Init, Stages
<1>5. Kept
  BY <1>1 DEF Init, Kept, Rest
<1>6. DeltasAreBody /\ StreamUnaltered
  BY DEF Init, DeltasAreBody, StreamUnaltered
<1> QED
  BY <1>3, <1>4, <1>5, <1>6 DEF Inv

\* Read puts a chunk in hand.
LEMMA ReadInv == ASSUME Inv, Read PROVE Inv'
<1> USE DEF Inv
<1>1. PICK chunk \in Bytes : hand' = chunk /\ received' = received \o chunk
  BY ChunksAreBytes DEF Read
<1>2. /\ received \o chunk \in Bytes /\ client \o chunk \in Bytes
      /\ stored \o pending \in Bytes /\ (stored \o pending) \o <<>> = stored \o pending
  BY Concat DEF TypeOK
<1>3. 0 \in 0 .. Timeout + 1 /\ reads + 1 \in Nat
  BY CaptureAssumption DEF TypeOK
<1>4. TypeOK'
  BY <1>1, <1>2, <1>3 DEF TypeOK, Read, entry
<1>5. Stages'
  BY DEF Stages, Read, entry
<1>6. Kept'
  BY <1>1, <1>2 DEF Kept, Rest, Read, entry
<1>7. DeltasAreBody' /\ StreamUnaltered'
  BY <1>1 DEF DeltasAreBody, StreamUnaltered, Read, entry
<1> QED
  BY <1>4, <1>5, <1>6, <1>7

\* Sniff settles the format before a byte is stored.
LEMMA SniffInv == ASSUME Inv, Sniff PROVE Inv'
<1> USE DEF Inv
<1>1. 0 \in 0 .. Timeout + 1
  BY CaptureAssumption
<1>2. TypeOK'
  BY <1>1 DEF TypeOK, Sniff
<1>3. Stages'
  BY DEF Stages, Sniff
<1>4. Kept' /\ DeltasAreBody' /\ StreamUnaltered'
  BY DEF Kept, Rest, Stages, DeltasAreBody, StreamUnaltered, Sniff
<1> QED
  BY <1>2, <1>3, <1>4

\* A body that is not streamed has no unfinished line to come first.
LEMMA ConsumeWholeInv == ASSUME Inv, ConsumeWhole PROVE Inv'
<1> USE DEF Inv
<1>1. hand \in Bytes /\ pending = <<>> /\ rpc = "consume" /\ format # "stream"
  BY DEF TypeOK, Stages, ConsumeWhole
<1>2. \/ stored' = stored \o hand /\ told' = told /\ refused' = refused
      \/ stored' = stored /\ told' = told /\ refused'
  BY <1>1, Appended DEF ConsumeWhole
<1>3. TypeOK'
  <2>1. /\ stored' \in Bytes /\ told' \in Bytes /\ age' \in 0 .. Timeout + 1
        /\ live' \in BOOLEAN /\ broken' \in BOOLEAN /\ refused' \in BOOLEAN
    BY <1>1, Appended DEF ConsumeWhole
  <2> QED
    BY <2>1 DEF TypeOK, ConsumeWhole
<1>4. Stages'
  BY <1>1, <1>2 DEF Stages, ConsumeWhole
<1>5. Kept'
  <2>1. /\ stored \o <<>> = stored
        /\ (stored \o hand) \o <<>> = stored \o hand
        /\ ((stored \o hand) \o <<>>) \o <<>> = stored \o hand
    <3>1. stored \in Bytes /\ stored \o hand \in Bytes
      BY <1>1, Concat DEF TypeOK
    <3> QED
      BY <3>1, Concat
  <2> QED
    BY <1>1, <1>2, <2>1 DEF Kept, Rest, ConsumeWhole
<1>6. DeltasAreBody' /\ StreamUnaltered'
  BY <1>1, <1>2 DEF DeltasAreBody, StreamUnaltered, ConsumeWhole
<1> QED
  BY <1>3, <1>4, <1>5, <1>6

\* The chunk joins the unfinished line.
LEMMA ConsumeStreamInv == ASSUME Inv, ConsumeStream PROVE Inv'
<1> USE DEF Inv
<1>1. rpc = "consume" /\ format = "stream"
  BY DEF ConsumeStream
<1>2. /\ pending \o hand \in Bytes
      /\ (stored \o (pending \o hand)) \o <<>> = (stored \o pending) \o hand
  <2> stored \in Bytes /\ pending \in Bytes /\ hand \in Bytes
    BY DEF TypeOK
  <2>1. pending \o hand \in Bytes /\ (stored \o pending) \o hand = stored \o (pending \o hand)
    BY Assoc, Zenon
  <2>2. stored \o (pending \o hand) \in Bytes
    BY <2>1, Concat DEF TypeOK
  <2> QED
    BY <2>1, <2>2, Concat
<1>3. TypeOK' /\ Stages'
  BY <1>1, <1>2 DEF TypeOK, Stages, ConsumeStream, entry
<1>4. Kept'
  BY <1>1, <1>2 DEF Kept, Rest, ConsumeStream, entry
<1>5. DeltasAreBody' /\ StreamUnaltered'
  BY <1>1 DEF DeltasAreBody, StreamUnaltered, ConsumeStream, entry
<1> QED
  BY <1>3, <1>4, <1>5

\* A line moves from the unfinished bytes to the store.
LEMMA ConsumeLineInv == ASSUME Inv, ConsumeLine PROVE Inv'
<1> USE DEF Inv
<1> DEFINE line == SubSeq(pending, 1, LineEnd(pending))
           more == SubSeq(pending, LineEnd(pending) + 1, Len(pending))
<1>1. rpc = "lines" /\ format = "stream" /\ sniffed
  BY DEF ConsumeLine, Stages
<1>2. line \in Bytes /\ more \in Bytes /\ line \o more = pending
  BY LineSplit DEF TypeOK, ConsumeLine
<1>3. AppendResponse(line, TRUE) /\ pending' = more
  BY DEF ConsumeLine
<1> HIDE DEF line, more
<1>4. \/ stored' = stored \o line /\ told' = told \o line /\ refused' = refused
      \/ stored' = stored /\ told' = told /\ refused'
  BY <1>2, <1>3, Appended
<1>5. TypeOK'
  <2>1. /\ stored' \in Bytes /\ told' \in Bytes /\ age' \in 0 .. Timeout + 1
        /\ live' \in BOOLEAN /\ broken' \in BOOLEAN /\ refused' \in BOOLEAN
    BY <1>2, <1>3, Appended
  <2> QED
    BY <1>2, <1>3, <2>1 DEF TypeOK, ConsumeLine
<1>6. Stages'
  BY <1>1, <1>3 DEF Stages, ConsumeLine
<1>7. Kept'
  <2> stored \in Bytes
    BY DEF TypeOK
  <2>1. (stored \o line) \o more = stored \o (line \o more)
    BY <1>2, Assoc, Zenon
  <2>2. (stored \o line) \o more = stored \o pending
    BY <1>2, <2>1
  <2> QED
    BY <1>1, <1>3, <1>4, <2>2 DEF Kept, Rest, ConsumeLine
<1>8. DeltasAreBody' /\ StreamUnaltered'
  BY <1>1, <1>4 DEF DeltasAreBody, StreamUnaltered, ConsumeLine
<1> QED
  BY <1>5, <1>6, <1>7, <1>8

\* The steps of the caller, and the failure of the body file and of time.
LEMMA QuietInv ==
    ASSUME Inv,
           ConsumeLinesEnd \/ Return \/ ReturnFails \/ ReadEnd \/ BodyBreaks \/ Tick \/ Sweep
    PROVE  Inv'
<1> USE DEF Inv
<1>1. client \o hand \in Bytes /\ <<>> \in Bytes /\ received \o <<>> = received
  BY Concat DEF TypeOK
<1>2. age <= Timeout => age + 1 \in 0 .. Timeout + 1
  BY CaptureAssumption DEF TypeOK
<1>3. silence <= Timeout => silence + 1 \in 0 .. Timeout + 1
  BY CaptureAssumption DEF TypeOK
<1>4. CASE ConsumeLinesEnd
  BY <1>4 DEF ConsumeLinesEnd, TypeOK, Stages, Kept, Rest, DeltasAreBody, StreamUnaltered, entry
<1>5. CASE Return
  <2>1. TypeOK' /\ Stages'
    BY <1>1, <1>5 DEF Return, TypeOK, Stages, entry
  <2>2. Kept' /\ DeltasAreBody' /\ StreamUnaltered'
    BY <1>5 DEF Return, Kept, Rest, DeltasAreBody, StreamUnaltered, entry
  <2> QED
    BY <2>1, <2>2
<1>6. CASE ReturnFails
  BY <1>6 DEF ReturnFails, TypeOK, Stages, Kept, Rest, DeltasAreBody, StreamUnaltered, entry
<1>7. CASE ReadEnd
  <2>1. hand = <<>> /\ client = received
    BY <1>7 DEF ReadEnd, Stages, StreamUnaltered
  <2> QED
    BY <1>1, <1>7, <2>1
    DEF ReadEnd, TypeOK, Stages, Kept, Rest, DeltasAreBody, StreamUnaltered, entry
<1>8. CASE BodyBreaks
  BY <1>8 DEF BodyBreaks, TypeOK, Stages, Kept, Rest, DeltasAreBody, StreamUnaltered, reader
<1>9. CASE Tick
  BY <1>2, <1>3, <1>9 DEF Tick, TypeOK, Stages, Kept, Rest, DeltasAreBody, StreamUnaltered, reader
<1>10. CASE Sweep
  BY <1>10 DEF Sweep, TypeOK, Stages, Kept, Rest, DeltasAreBody, StreamUnaltered, reader
<1> QED
  BY <1>4, <1>5, <1>6, <1>7, <1>8, <1>9, <1>10

\* Close flushes the unfinished line.
LEMMA CloseInv == ASSUME Inv, Close PROVE Inv'
<1> USE DEF Inv
<1>1. /\ stored \in Bytes /\ pending \in Bytes /\ <<>> \in Bytes
      /\ stored \o pending \in Bytes
      /\ stored \o <<>> = stored
      /\ (stored \o pending) \o <<>> = stored \o pending
      /\ ((stored \o pending) \o <<>>) \o <<>> = stored \o pending
  <2>1. stored \in Bytes /\ pending \in Bytes /\ stored \o pending \in Bytes
    BY Concat DEF TypeOK
  <2> QED
    BY <2>1, Concat
<1>2. CASE pending = <<>>
  BY <1>1, <1>2 DEF Close, TypeOK, Stages, Kept, Rest, DeltasAreBody, StreamUnaltered
<1>3. CASE pending # <<>>
  <2>1. AppendResponse(pending, TRUE) /\ format = "stream" /\ sniffed
    BY <1>3 DEF Close, Stages
  <2>2. \/ stored' = stored \o pending /\ told' = told \o pending /\ refused' = refused
        \/ stored' = stored /\ told' = told /\ refused'
    BY <1>1, <2>1, Appended
  <2>3. /\ stored' \in Bytes /\ told' \in Bytes /\ age' \in 0 .. Timeout + 1
        /\ live' \in BOOLEAN /\ broken' \in BOOLEAN /\ refused' \in BOOLEAN
    BY <1>1, <2>1, Appended
  <2>4. TypeOK' /\ Stages'
    BY <1>1, <2>1, <2>3 DEF Close, TypeOK, Stages
  <2>5. Kept'
    BY <1>1, <2>2 DEF Close, Kept, Rest
  <2>6. DeltasAreBody' /\ StreamUnaltered'
    BY <2>1, <2>2 DEF Close, DeltasAreBody, StreamUnaltered
  <2> QED
    BY <2>4, <2>5, <2>6
<1> QED
  BY <1>2, <1>3

\* Every reachable state satisfies the inductive invariant.
THEOREM CaptureInv == Spec => []Inv
<1>1. ASSUME Inv, [Next]_vars PROVE Inv'
  <2>1. CASE Next
    BY <1>1, <2>1, ReadInv, SniffInv, ConsumeWholeInv, ConsumeStreamInv, ConsumeLineInv,
       QuietInv, CloseInv DEF Next
  <2>2. CASE UNCHANGED vars
    BY <1>1, <2>2 DEF Inv, TypeOK, Stages, Kept, Rest, DeltasAreBody, StreamUnaltered,
       vars, reader, entry
  <2> QED
    BY <1>1, <2>1, <2>2
<1> QED
  BY <1>1, InitInv, PTL DEF Spec

(***************************************************************************)
(* The store holds exactly the body the backend sent, however it was cut   *)
(* into chunks and lines, unless AppendResponse refused some of it.        *)
(***************************************************************************)
THEOREM CaptureIsExact == Spec => []CaptureExact
<1>1. Inv => CaptureExact
  <2> SUFFICES ASSUME Inv, ~refused PROVE CaptureExact
    BY DEF CaptureExact
  <2>1. rpc = "end" => stored = received
    <3> SUFFICES ASSUME rpc = "end" PROVE stored = received
      OBVIOUS
    <3>1. pending = <<>> /\ Rest = <<>> /\ stored \in Bytes
      BY DEF Inv, TypeOK, Stages, Rest
    <3>2. stored \o <<>> = stored
      BY <3>1, Concat
    <3> QED
      BY <3>1, <3>2 DEF Inv, Kept
  <2> QED
    BY <2>1 DEF Inv, Kept, Rest, CaptureExact
<1> QED
  BY <1>1, CaptureInv, PTL

(***************************************************************************)
(* The deltas published for a streamed response are its stored body.       *)
(***************************************************************************)
THEOREM CaptureDeltas == Spec => []DeltasAreBody
<1>1. Inv => DeltasAreBody
  BY DEF Inv
<1> QED
  BY <1>1, CaptureInv, PTL

(***************************************************************************)
(* The client receives what the backend sent, whatever the store does.     *)
(***************************************************************************)
THEOREM CaptureTransparent == Spec => []StreamUnaltered
<1>1. Inv => StreamUnaltered
  BY DEF Inv
<1> QED
  BY <1>1, CaptureInv, PTL

-------------------------------------------------------------------------------
(***************************************************************************)
(* Between two reads, an entry with no unfinished line was touched no      *)
(* earlier than its backend last sent something.                           *)
(***************************************************************************)
Awake ==
    /\ rpc \in {"sniff", "consume"} => hand # <<>>
    /\ live /\ ~broken /\ pending = <<>> =>
          /\ rpc \in {"ready", "return"} => age <= silence
          /\ rpc = "lines" => age = 0

\* A chunk has at least one byte, so appending it leaves something unfinished.
LEMMA ChunkNotEmpty ==
    /\ \A chunk \in Chunks : chunk # <<>>
    /\ \A s \in Bytes, t \in Bytes : t # <<>> => s \o t # <<>>
<1>1. ASSUME NEW chunk \in Chunks PROVE chunk # <<>>
  <2>1. PICK n \in 1 .. MaxChunk : chunk \in [1 .. n -> Byte]
    BY DEF Chunks
  <2>2. chunk \in Seq(Byte) /\ Len(chunk) = n
    BY <2>1, CaptureAssumption
  <2> QED
    BY <2>1, <2>2, EmptySeq, CaptureAssumption
<1>2. ASSUME NEW s \in Bytes, NEW t \in Bytes, t # <<>> PROVE s \o t # <<>>
  <2>1. Len(s \o t) = Len(s) + Len(t) /\ Len(s) \in Nat /\ Len(t) \in Nat
    BY <1>2, ConcatProperties, LenProperties DEF Bytes
  <2>2. Len(t) # 0
    BY <1>2, EmptySeq DEF Bytes
  <2> QED
    BY <2>1, <2>2, EmptySeq
<1> QED
  BY <1>1, <1>2

\* The steps that read, cut and store: stored bytes touch the entry.
LEMMA ConsumeAwake ==
    ASSUME Inv, Awake,
           Read \/ Sniff \/ ConsumeWhole \/ ConsumeStream \/ ConsumeLine
    PROVE  Awake'
<1>1. age \in Nat /\ silence \in Nat /\ 0 <= silence
  BY CaptureAssumption DEF Inv, TypeOK
<1>2. CASE Read
  <2>1. PICK chunk \in Chunks : hand' = chunk
    BY <1>2 DEF Read
  <2> QED
    BY <1>2, <2>1, ChunkNotEmpty DEF Awake, Read, entry
<1>3. CASE Sniff
  BY <1>3 DEF Awake, Sniff
<1>4. CASE ConsumeWhole
  BY <1>1, <1>4 DEF Awake, ConsumeWhole, AppendResponse
<1>5. CASE ConsumeStream
  <2>1. pending \o hand # <<>>
    BY <1>5, ChunkNotEmpty DEF Awake, Inv, TypeOK, ConsumeStream
  <2> QED
    BY <1>5, <2>1 DEF Awake, ConsumeStream, entry
<1>6. CASE ConsumeLine
  BY <1>6 DEF Awake, ConsumeLine, AppendResponse
<1> QED
  BY <1>2, <1>3, <1>4, <1>5, <1>6

\* The other steps: time passes for the entry and for the backend alike.
LEMMA OthersAwake ==
    ASSUME Inv, Awake,
           \/ ConsumeLinesEnd \/ Return \/ ReturnFails \/ ReadEnd \/ Close
           \/ BodyBreaks \/ Tick \/ Sweep
    PROVE  Awake'
<1>1. age \in Nat /\ silence \in 0 .. Timeout + 1 /\ Timeout \in Nat /\ 0 <= silence
  BY CaptureAssumption DEF Inv, TypeOK
<1>2. CASE ConsumeLinesEnd
  BY <1>1, <1>2 DEF Awake, ConsumeLinesEnd, entry
<1>3. CASE Return \/ ReturnFails \/ ReadEnd
  BY <1>3 DEF Awake, Return, ReturnFails, ReadEnd, entry
<1>4. CASE Close
  BY <1>4 DEF Awake, Close
<1>5. CASE BodyBreaks \/ Sweep
  BY <1>5 DEF Awake, BodyBreaks, Sweep, reader
<1>6. CASE Tick
  BY <1>1, <1>6 DEF Awake, Tick, reader
<1> QED
  BY <1>2, <1>3, <1>4, <1>5, <1>6

(***************************************************************************)
(* SweepPending closes a capture that has not failed only when the backend *)
(* was silent for longer than the timeout, or in the middle of a line.     *)
(***************************************************************************)
THEOREM CaptureSweptIdle == Spec => SweptIdle
<1>1. Init => Awake
  BY CaptureAssumption DEF Init, Awake
<1>2. Inv /\ Awake /\ [Next]_vars => Awake'
  <2> SUFFICES ASSUME Inv, Awake, [Next]_vars PROVE Awake'
    OBVIOUS
  <2>1. CASE Next
    BY <2>1, ConsumeAwake, OthersAwake DEF Next
  <2>2. CASE UNCHANGED vars
    BY <2>2 DEF Awake, vars, reader, entry
  <2> QED
    BY <2>1, <2>2
<1>3. Inv /\ Awake /\ [Next]_vars
        => [live /\ ~live' /\ rpc \in {"ready", "return"} /\ ~broken
              => silence > Timeout \/ pending # <<>>]_vars
  <2> SUFFICES ASSUME Inv, Awake, Next, live, ~live', rpc \in {"ready", "return"}, ~broken,
                      pending = <<>>
               PROVE  silence > Timeout
    OBVIOUS
  <2>1. Sweep
    BY DEF Next, Read, Sniff, ConsumeWhole, ConsumeStream, ConsumeLine, ConsumeLinesEnd,
           Return, ReturnFails, ReadEnd, Close, BodyBreaks, Tick, AppendResponse, entry
  <2>2. age > Timeout /\ age <= silence
    BY <2>1 DEF Sweep, Awake
  <2>3. age \in Nat /\ silence \in Nat /\ Timeout \in Nat
    BY CaptureAssumption DEF Inv, TypeOK
  <2> QED
    BY <2>2, <2>3
<1> QED
  BY <1>1, <1>2, <1>3, CaptureInv, PTL DEF Spec, SweptIdle

-------------------------------------------------------------------------------
(***************************************************************************)
(* What the refinement of CaptureLog needs besides Inv: a store that       *)
(* refused bytes refuses all that follow, and between two reads no line is *)
(* left unrecorded.                                                        *)
(***************************************************************************)
Latched ==
    /\ refused => ~live \/ broken
    /\ rpc \in {"ready", "return", "close"} => ~HasLine(pending)

\* The first of two pieces is a beginning of both together.
LEMMA Beginning ==
    ASSUME NEW s \in Bytes, NEW t \in Bytes
    PROVE  /\ Len(s) \in Nat /\ Len(s) <= Len(s \o t) /\ Len(s \o t) \in Nat
           /\ SubSeq(s \o t, 1, Len(s)) = s
           /\ \A i \in 1 .. Len(t) : (s \o t)[Len(s) + i] = t[i]
           /\ Len(s \o t) = Len(s) + Len(t)
<1>1. s \in Seq(Byte) /\ t \in Seq(Byte) /\ Len(s) \in Nat /\ Len(t) \in Nat
  BY LenProperties DEF Bytes
<1>2. Len(s \o t) = Len(s) + Len(t)
  BY <1>1, ConcatProperties
<1>3. \A i \in 1 .. Len(t) : (s \o t)[Len(s) + i] = t[i]
  BY <1>1
<1>4. CASE Len(s) = 0
  <2>1. s = <<>> /\ s \o t = t
    BY <1>1, <1>4, EmptySeq, ConcatEmptySeq
  <2>2. SubSeq(t, 1, 0) = <<>>
    BY <1>1
  <2> QED
    BY <1>1, <1>2, <1>3, <1>4, <2>1, <2>2
<1>5. CASE Len(s) # 0
  <2>1. 1 \in 1 .. Len(s) /\ Len(s) \in 1 .. Len(s)
    BY <1>1, <1>5
  <2>2. SubSeq(s \o t, 1, Len(s)) = SubSeq(s, 1, Len(s))
    BY <1>1, <2>1, SubSeqOfConcat1
  <2>3. SubSeq(s, 1, Len(s)) = s
    BY <1>1, SubSeqFull
  <2> QED
    BY <1>1, <1>2, <1>3, <2>2, <2>3
<1> QED
  BY <1>4, <1>5

\* AppendResponse after a refusal, and what it says about the next one.
LEMMA Latching ==
    ASSUME Latched, NEW bytes, NEW emit, AppendResponse(bytes, emit)
    PROVE  /\ refused => stored' = stored /\ refused'
           /\ refused' => ~live' \/ broken'
           /\ \/ stored' = stored \o bytes /\ refused' = refused
              \/ stored' = stored /\ refused' = TRUE
BY DEF Latched, AppendResponse

\* Every step keeps it.
LEMMA LatchedStep == Inv /\ Latched /\ [Next]_vars => Latched'
<1> SUFFICES ASSUME Inv, Latched, [Next]_vars PROVE Latched'
  OBVIOUS
<1>0. ~HasLine(<<>>)
  BY DEF HasLine
<1>1. CASE Read
  BY <1>1 DEF Read, Latched, entry
<1>2. CASE Sniff
  BY <1>2 DEF Sniff, Latched
<1>3. CASE ConsumeWhole
  <2>1. pending = <<>> /\ pending' = pending
    BY <1>3 DEF ConsumeWhole, Inv, Stages
  <2>2. refused' => ~live' \/ broken'
    BY <1>3, Latching DEF ConsumeWhole
  <2> QED
    BY <1>0, <2>1, <2>2 DEF Latched
<1>4. CASE ConsumeStream
  BY <1>4 DEF ConsumeStream, Latched, entry
<1>5. CASE ConsumeLine
  <2>1. refused' => ~live' \/ broken'
    BY <1>5, Latching DEF ConsumeLine
  <2>2. rpc' = "lines"
    BY <1>5 DEF ConsumeLine
  <2> QED
    BY <2>1, <2>2 DEF Latched
<1>6. CASE ConsumeLinesEnd
  BY <1>6 DEF ConsumeLinesEnd, Latched, entry
<1>7. CASE Return \/ ReturnFails \/ ReadEnd
  BY <1>7 DEF Return, ReturnFails, ReadEnd, Latched, entry
<1>8. CASE Close
  <2>1. rpc' = "end"
    BY <1>8 DEF Close
  <2>2. refused' => ~live' \/ broken'
    BY <1>8, Latching DEF Close, Latched
  <2> QED
    BY <2>1, <2>2 DEF Latched
<1>9. CASE BodyBreaks \/ Tick \/ Sweep
  BY <1>9 DEF BodyBreaks, Tick, Sweep, Latched, reader
<1>10. CASE UNCHANGED vars
  BY <1>10 DEF vars, reader, entry, Latched
<1> QED
  BY <1>1, <1>2, <1>3, <1>4, <1>5, <1>6, <1>7, <1>8, <1>9, <1>10 DEF Next

\* Read asks for more: the caller has what there is, and the lines are recorded.
LEMMA ReadLogs == ASSUME Inv, Latched, Read PROVE Log!LogSend
<1>1. /\ rpc = "ready" /\ client = received /\ rpc' # "end"
      /\ UNCHANGED <<stored, client, refused>>
  BY DEF Read, Inv, StreamUnaltered, entry
<1>2. \E chunk \in Chunks : received' = received \o chunk
  BY DEF Read
<1>3. ASSUME ~refused PROVE \A i \in Len(stored) + 1 .. Len(received) : received[i] # Newline
  <2>1. stored \in Bytes /\ pending \in Bytes /\ ~HasLine(pending)
    BY <1>1 DEF Inv, TypeOK, Latched
  <2>2. received = stored \o pending
    <3>1. (stored \o pending) \o <<>> = received
      BY <1>1, <1>3 DEF Inv, Kept, Rest
    <3>2. stored \o pending \in Bytes
      BY <2>1, Concat
    <3> QED
      BY <3>1, <3>2, Concat
  <2>3. /\ Len(stored) \in Nat /\ Len(received) = Len(stored) + Len(pending) /\ Len(received) \in Nat
        /\ \A k \in 1 .. Len(pending) : received[Len(stored) + k] = pending[k]
    BY <2>1, <2>2, Beginning
  <2>4. Len(pending) \in Nat /\ \A k \in 1 .. Len(pending) : pending[k] # Newline
    BY <2>1, LenProperties DEF HasLine, Bytes
  <2> SUFFICES ASSUME NEW i \in Len(stored) + 1 .. Len(received) PROVE received[i] # Newline
    OBVIOUS
  <2>5. PICK k \in 1 .. Len(pending) : i = Len(stored) + k
    <3>1. i - Len(stored) \in 1 .. Len(pending) /\ i = Len(stored) + (i - Len(stored))
      BY <2>3, <2>4
    <3> QED
      BY <3>1
  <2> QED
    BY <2>3, <2>4, <2>5
<1> QED
  BY <1>1, <1>2, <1>3 DEF Log!LogSend

\* Bytes handed to the store: they are recorded, or the record is cut off.
LEMMA AppendLogs ==
    ASSUME Inv, Latched, NEW bytes \in Bytes, NEW emit, NEW rest \in Bytes,
           AppendResponse(bytes, emit), ~refused => stored \o (bytes \o rest) = received,
           rpc # "end", rpc' # "end", UNCHANGED <<received, client>>
    PROVE  Log!LogRecord \/ Log!LogCut \/ UNCHANGED Log!logVars
<1>1. CASE refused
  <2>1. UNCHANGED <<stored, refused>>
    <3>1. stored' = stored /\ refused' = TRUE
      BY <1>1 DEF AppendResponse, Latched
    <3> QED
      BY <1>1, <3>1 DEF Inv, TypeOK
  <2> QED
    BY <2>1 DEF Log!logVars
<1>2. CASE ~refused /\ stored' = stored \o bytes /\ refused' = refused
  <2>1. stored \in Bytes
    BY DEF Inv, TypeOK
  <2>2. stored \o bytes \in Bytes /\ (stored \o bytes) \o rest = received
    <3>1. stored \o bytes \in Bytes
      BY <2>1, Concat
    <3>2. (stored \o bytes) \o rest = stored \o (bytes \o rest)
      BY <2>1, Assoc, Zenon
    <3> QED
      BY <1>2, <3>1, <3>2
  <2>3. /\ Len(stored') \in Nat /\ Len(received) \in Nat /\ Len(stored') <= Len(received)
        /\ SubSeq(received, 1, Len(stored')) = stored'
    BY <1>2, <2>2, Beginning
  <2>4. Len(stored) \in Nat /\ Len(stored) <= Len(stored')
    BY <1>2, <2>1, Beginning
  <2>5. Len(stored') \in Len(stored) .. Len(received)
    BY <2>3, <2>4
  <2> QED
    BY <1>2, <2>3, <2>5 DEF Log!LogRecord
<1>3. CASE ~refused /\ stored' = stored /\ refused' = TRUE
  BY <1>3 DEF Log!LogCut
<1> QED
  BY <1>1, <1>2, <1>3, Latching

\* Close records the rest of a body that was not cut off.
LEMMA CloseLogs == ASSUME Inv, Latched, Close PROVE Log!LogClose
<1>1. /\ rpc = "close" /\ rpc' = "end" /\ UNCHANGED <<received, client>>
      /\ stored \in Bytes /\ pending \in Bytes /\ refused \in BOOLEAN
  BY DEF Close, Inv, TypeOK
<1>2. ~refused => stored \o pending = received
  <2> SUFFICES ASSUME ~refused PROVE stored \o pending = received
    OBVIOUS
  <2>1. (stored \o pending) \o <<>> = received
    BY <1>1 DEF Inv, Kept, Rest
  <2>2. stored \o pending \in Bytes
    BY <1>1, Concat
  <2> QED
    BY <2>1, <2>2, Concat
<1>3. \/ ~refused /\ ~refused' /\ stored' = received
      \/ refused' /\ stored' = stored
  <2>1. CASE pending = <<>>
    <3>1. stored' = stored /\ refused' = refused /\ stored \o <<>> = stored
      BY <1>1, <2>1, Concat DEF Close
    <3> QED
      BY <1>1, <1>2, <2>1, <3>1
  <2>2. CASE pending # <<>>
    <3>1. AppendResponse(pending, TRUE)
      BY <2>2 DEF Close
    <3>2. refused => stored' = stored /\ refused'
      BY <3>1, Latching
    <3>3. \/ stored' = stored \o pending /\ refused' = refused
          \/ stored' = stored /\ refused' = TRUE
      BY <3>1, Latching
    <3> QED
      BY <1>1, <1>2, <3>2, <3>3
  <2> QED
    BY <2>1, <2>2
<1> QED
  BY <1>1, <1>3 DEF Log!LogClose

\* Every step of the reader is a step of the log, or none.
LEMMA NextLogs == Inv /\ Latched /\ [Next]_vars => [Log!LogNext]_(Log!logVars)
<1> SUFFICES ASSUME Inv, Latched, [Next]_vars PROVE [Log!LogNext]_(Log!logVars)
  OBVIOUS
<1>0. stored \in Bytes /\ pending \in Bytes /\ hand \in Bytes /\ <<>> \in Bytes
  BY Concat DEF Inv, TypeOK
<1>1. CASE Read
  BY <1>1, ReadLogs DEF Log!LogNext
<1>2. CASE ConsumeWhole
  <2>1. ~refused => stored \o (hand \o <<>>) = received
    <3> SUFFICES ASSUME ~refused PROVE stored \o (hand \o <<>>) = received
      OBVIOUS
    <3>1. pending = <<>> /\ (stored \o pending) \o hand = received
      BY <1>2 DEF ConsumeWhole, Inv, Stages, Kept, Rest
    <3> QED
      BY <1>0, <3>1, Concat
  <2>2. /\ AppendResponse(hand, FALSE) /\ rpc # "end" /\ rpc' # "end"
        /\ UNCHANGED <<received, client>>
    BY <1>2 DEF ConsumeWhole
  <2> QED
    BY <1>0, <2>1, <2>2, AppendLogs DEF Log!LogNext
<1>3. CASE ConsumeLine
  <2> DEFINE line == SubSeq(pending, 1, LineEnd(pending))
             more == SubSeq(pending, LineEnd(pending) + 1, Len(pending))
  <2>1. line \in Bytes /\ more \in Bytes /\ line \o more = pending
    BY <1>0, <1>3, LineSplit DEF ConsumeLine
  <2>2. /\ AppendResponse(line, TRUE) /\ rpc = "lines" /\ rpc' = "lines"
        /\ UNCHANGED <<received, client>>
    BY <1>3 DEF ConsumeLine
  <2> HIDE DEF line, more
  <2>3. ~refused => stored \o (line \o more) = received
    <3> SUFFICES ASSUME ~refused PROVE stored \o pending = received
      BY <2>1
    <3>1. (stored \o pending) \o <<>> = received
      BY <2>2 DEF Inv, Kept, Rest
    <3>2. stored \o pending \in Bytes
      BY <1>0, Concat
    <3> QED
      BY <3>1, <3>2, Concat
  <2> QED
    BY <2>1, <2>2, <2>3, AppendLogs DEF Log!LogNext
<1>4. CASE Return
  <2>1. /\ rpc = "return" /\ rpc' = "ready" /\ client' = received
        /\ UNCHANGED <<received, stored, refused>>
    BY <1>4 DEF Return, Inv, StreamUnaltered, entry
  <2> QED
    BY <2>1 DEF Log!LogNext, Log!LogGive
<1>5. CASE Close
  BY <1>5, CloseLogs DEF Log!LogNext
<1>6. CASE \/ Sniff \/ ConsumeStream \/ ConsumeLinesEnd \/ ReturnFails \/ ReadEnd
           \/ BodyBreaks \/ Tick \/ Sweep \/ UNCHANGED vars
  <2>1. UNCHANGED <<received, stored, client, refused>> /\ (rpc' = "end" <=> rpc = "end")
    BY <1>6 DEF Sniff, ConsumeStream, ConsumeLinesEnd, ReturnFails, ReadEnd, BodyBreaks, Tick,
                Sweep, vars, reader, entry
  <2> QED
    BY <2>1 DEF Log!logVars
<1> QED
  BY <1>1, <1>2, <1>3, <1>4, <1>5, <1>6 DEF Next

(***************************************************************************)
(* However the backend cuts a body of any length into chunks, wherever the *)
(* store begins to refuse it and whenever it is swept, captureReader       *)
(* implements CaptureLog: what is recorded is a beginning of the body      *)
(* without a hole, up to the last line whenever more is read, and all of   *)
(* it at Close unless bytes were refused; the caller waits for none of it. *)
(***************************************************************************)
THEOREM CaptureImplementsLog == Spec => ImplementsLog
<1>1. Init => Log!LogInit
  BY DEF Init, Log!LogInit
<1>2. Init => Latched
  BY DEF Init, Latched, HasLine
<1> QED
  BY <1>1, <1>2, CaptureInv, LatchedStep, NextLogs, PTL DEF Spec, ImplementsLog, Log!LogSpec
===============================================================================
