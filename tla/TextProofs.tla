------------------------------- MODULE TextProofs ------------------------------
(***************************************************************************)
(* What the pure operators do for inputs of any length: format detection   *)
(* and the Ollama preview (Formats), the way of an entry through the       *)
(* database and the API (Payloads), the pages of the history (Listing),    *)
(* the path that is relayed (Urls) and the request that is sent again      *)
(* (Replays).                                                              *)
(***************************************************************************)
EXTENDS Replays, Formats, Urls, SequenceTheorems, FiniteSetTheorems, WellFoundedInduction,
        TLAPS

-------------------------------------------------------------------------------
(***************************************************************************)
(* Numbers, sequences and records.                                         *)
(***************************************************************************)
\* A set of naturals that is not empty has a least element.
LEMMA First ==
    ASSUME NEW S, S \subseteq Nat, S # {}
    PROVE  \E i \in S : \A j \in S : i <= j
<1> DEFINE R == OpToRel(<, Nat)
<1>1. IsWellFoundedOn(R, Nat)
  BY NatLessThanWellFounded
<1>2. ASSUME NEW i \in Nat, NEW j \in Nat, j < i PROVE <<j, i>> \in R
  <2>1. <<j, i>> \in Nat \X Nat /\ <<j, i>>[1] = j /\ <<j, i>>[2] = i
    OBVIOUS
  <2> QED
    BY <1>2, <2>1, Zenon DEF OpToRel
<1> HIDE DEF R
<1>3. PICK i \in S : \A j \in S : ~ (<<j, i>> \in R)
  BY <1>1, WFMin
<1>4. \A j \in S : ~ (j < i)
  BY <1>2, <1>3
<1> QED
  BY <1>4

\* A set of positions that is not empty has a first and a last one.
LEMMA Ends ==
    ASSUME NEW n \in Nat, NEW S, S \subseteq 1 .. n, S # {}
    PROVE  /\ Min(S) \in S /\ \A j \in S : Min(S) <= j
           /\ Max(S) \in S /\ \A j \in S : j <= Max(S)
<1>0. S \subseteq Nat
  OBVIOUS
<1>1. \E i \in S : \A j \in S : i <= j
  BY <1>0, First
<1>2. \E i \in S : \A j \in S : i >= j
  <2> DEFINE T == {n - i : i \in S}
  <2>1. T \subseteq Nat
    OBVIOUS
  <2> PICK s \in S : TRUE
    OBVIOUS
  <2> n - s \in T
    OBVIOUS
  <2>2. PICK t \in T : \A u \in T : t <= u
    <3> HIDE DEF T
    <3> QED
      BY <2>1, First
  <2>3. PICK i \in S : t = n - i
    OBVIOUS
  <2>4. ASSUME NEW j \in S PROVE i >= j
    <3>1. n - i <= n - j
      BY <2>2, <2>3
    <3> QED
      BY <3>1
  <2> QED
    BY <2>4
<1>3. Min(S) \in S /\ \A j \in S : Min(S) <= j
  BY <1>1, Zenon DEF Min
<1>4. Max(S) \in S /\ \A j \in S : Max(S) >= j
  BY <1>2, Zenon DEF Max
<1>5. \A j \in S : j <= Max(S)
  BY <1>4
<1> QED
  BY <1>3, <1>4, <1>5

(***************************************************************************)
(* Induction over the naturals, for a set of them.                         *)
(***************************************************************************)
LEMMA Naturals0 ==
    ASSUME NEW S, 0 \in S, \A n \in Nat : n \in S => n + 1 \in S
    PROVE  \A n \in Nat : n \in S
<1> SUFFICES ASSUME Nat \ S # {} PROVE FALSE
  OBVIOUS
<1>1. PICK i \in Nat \ S : \A j \in Nat \ S : i <= j
  <2>1. Nat \ S \subseteq Nat
    OBVIOUS
  <2> QED
    BY <2>1, First
<1>2. i # 0 /\ i - 1 \in Nat /\ (i - 1) + 1 = i
  BY <1>1
<1>3. i - 1 \in S
  BY <1>1, <1>2
<1> QED
  BY <1>1, <1>2, <1>3

\* A table over 1 .. n is a sequence of length n.
LEMMA TableSeq ==
    ASSUME NEW S, NEW n \in Nat, NEW f \in [1 .. n -> S]
    PROVE  f \in Seq(S) /\ Len(f) = n
OBVIOUS

\* A sequence over an alphabet is one over a larger alphabet.
LEMMA SeqWider ==
    ASSUME NEW S, NEW T, S \subseteq T
    PROVE  Seq(S) \subseteq Seq(T)
<1>1. ASSUME NEW s \in Seq(S) PROVE s \in Seq(T)
  <2>1. Len(s) \in Nat /\ s \in [1 .. Len(s) -> S]
    BY LenProperties
  <2>2. s \in [1 .. Len(s) -> T]
    BY <2>1
  <2> QED
    BY <2>1, <2>2, TableSeq
<1> QED
  BY <1>1

\* The first elements of a sequence.
LEMMA SubSeqFirst ==
    ASSUME NEW S, NEW s \in Seq(S), NEW n \in Nat, n <= Len(s)
    PROVE  /\ SubSeq(s, 1, n) \in Seq(S) /\ Len(SubSeq(s, 1, n)) = n
           /\ \A i \in 1 .. n : SubSeq(s, 1, n)[i] = s[i]
OBVIOUS

\* A prefix of a sequence; a sequence that is not longer is its own.
LEMMA PrefixProperties ==
    ASSUME NEW S, NEW s \in Seq(S), NEW n \in Nat
    PROVE  Prefix(s, n) \in Seq(S) /\ (~(Len(s) > n) => Prefix(s, n) = s)
<1>1. Len(s) \in Nat
  OBVIOUS
<1>2. PICK k \in Nat : k = (IF n < Len(s) THEN n ELSE Len(s)) /\ k <= Len(s)
  BY <1>1
<1>3. Prefix(s, n) = SubSeq(s, 1, k)
  BY <1>2 DEF Prefix
<1>4. PICK t : t = SubSeq(s, 1, k)
  OBVIOUS
<1>5. t \in Seq(S) /\ Len(t) = k /\ \A i \in 1 .. k : t[i] = s[i]
  BY <1>2, <1>4, SubSeqFirst
<1>6. ASSUME ~(Len(s) > n) PROVE t = s
  <2>1. k = Len(s)
    BY <1>1, <1>2, <1>6
  <2> QED
    BY <1>5, <2>1, SeqEqual
<1> QED
  BY <1>3, <1>4, <1>5, <1>6

\* Two sequences with an element between them.
LEMMA Between ==
    ASSUME NEW L, NEW x \in L, NEW a \in Seq(L), NEW b \in Seq(L), NEW c, c = a \o (<<x>> \o b)
    PROVE  /\ c \in Seq(L) /\ Len(c) = Len(a) + 1 + Len(b) /\ c[Len(a) + 1] = x
           /\ \A i \in 1 .. Len(a) : c[i] = a[i]
           /\ \A i \in 1 .. Len(b) : c[Len(a) + 1 + i] = b[i]
<1> DEFINE t == <<x>> \o b
<1>0. Len(a) \in Nat /\ Len(b) \in Nat
  OBVIOUS
<1>1. /\ t \in Seq(L) /\ Len(t) = 1 + Len(b) /\ t[1] = x
      /\ \A i \in 1 .. Len(b) : t[1 + i] = b[i]
  OBVIOUS
<1> HIDE DEF t
<1>2. /\ c \in Seq(L) /\ Len(c) = Len(a) + Len(t)
      /\ \A i \in 1 .. Len(a) + Len(t) : c[i] = IF i <= Len(a) THEN a[i] ELSE t[i - Len(a)]
  BY <1>1, ConcatProperties DEF t
<1>3. c[Len(a) + 1] = x
  <2>1. Len(a) + 1 \in 1 .. Len(a) + Len(t) /\ ~(Len(a) + 1 <= Len(a)) /\ (Len(a) + 1) - Len(a) = 1
    BY <1>0, <1>1
  <2> QED
    BY <1>1, <1>2, <2>1
<1>4. ASSUME NEW i \in 1 .. Len(a) PROVE c[i] = a[i]
  <2>1. i \in 1 .. Len(a) + Len(t) /\ i <= Len(a)
    BY <1>0, <1>1
  <2> QED
    BY <1>2, <2>1
<1>5. ASSUME NEW i \in 1 .. Len(b) PROVE c[Len(a) + 1 + i] = b[i]
  <2>1. /\ Len(a) + 1 + i \in 1 .. Len(a) + Len(t) /\ ~(Len(a) + 1 + i <= Len(a))
        /\ (Len(a) + 1 + i) - Len(a) = 1 + i
    BY <1>0, <1>1
  <2> QED
    BY <1>1, <1>2, <2>1
<1>6. Len(c) = Len(a) + 1 + Len(b)
  BY <1>0, <1>1, <1>2
<1> QED
  BY <1>2, <1>3, <1>4, <1>5, <1>6

\* A record with the fields F.
IsRec(r, F) == r = [f \in F |-> r[f]]

\* The record r with another value of field f.
With(r, f, x) == [r EXCEPT ![f] = x]

\* Replacing one field of a record.
LEMMA WithOne ==
    ASSUME NEW F, NEW r, IsRec(r, F), NEW g \in F, NEW x, NEW t, t = With(r, g, x)
    PROVE  /\ IsRec(t, F) /\ t[g] = x
           /\ \A f \in F \ {g} : t[f] = r[f]
<1>1. t = [f \in F |-> IF f = g THEN x ELSE r[f]]
  BY DEF With, IsRec
<1> QED
  BY <1>1 DEF IsRec

-------------------------------------------------------------------------------
(***************************************************************************)
(* Sequences put one after the other: FlattenSeq.                          *)
(***************************************************************************)
\* A table of the concatenations of the first pieces.
IsFlat(f, p, n) ==
    f = [i \in 1 .. n |-> IF i = 1 THEN p[i] ELSE f[i - 1] \o p[i]]

\* There is such a table for every number of pieces.
LEMMA FlatExists ==
    ASSUME NEW S, NEW p \in Seq(Seq(S))
    PROVE  \A n \in Nat : n <= Len(p) => \E f \in [1 .. n -> Seq(S)] : IsFlat(f, p, n)
<1> DEFINE T == {n \in Nat : n <= Len(p) => \E f \in [1 .. n -> Seq(S)] : IsFlat(f, p, n)}
<1>0. Len(p) \in Nat /\ \A i \in 1 .. Len(p) : p[i] \in Seq(S)
  OBVIOUS
<1>1. 0 \in T
  <2>1. 1 .. 0 = {}
    OBVIOUS
  <2>2. PICK f : f = [i \in 1 .. 0 |-> <<>>]
    OBVIOUS
  <2>3. f \in [1 .. 0 -> Seq(S)] /\ IsFlat(f, p, 0)
    BY <2>1, <2>2 DEF IsFlat
  <2> QED
    BY <2>3
<1>2. ASSUME NEW n \in Nat, n \in T, n + 1 <= Len(p)
      PROVE  \E g \in [1 .. n + 1 -> Seq(S)] : IsFlat(g, p, n + 1)
  <2>1. n <= Len(p)
    BY <1>0, <1>2
  <2>2. PICK f \in [1 .. n -> Seq(S)] : IsFlat(f, p, n)
    BY <1>2, <2>1
  <2> DEFINE x == IF n = 0 THEN p[1] ELSE f[n] \o p[n + 1]
             g == [i \in 1 .. n + 1 |-> IF i = n + 1 THEN x ELSE f[i]]
  <2>3. x \in Seq(S)
    <3>1. CASE n = 0
      BY <1>0, <1>2, <3>1
    <3>2. CASE n # 0
      <4>1. f[n] \in Seq(S) /\ p[n + 1] \in Seq(S)
        BY <1>0, <1>2, <3>2
      <4>2. f[n] \o p[n + 1] \in Seq(S)
        BY <4>1
      <4> QED
        BY <3>2, <4>2
    <3> QED
      BY <3>1, <3>2
  <2>4. \A i \in 1 .. n : f[i] = IF i = 1 THEN p[i] ELSE f[i - 1] \o p[i]
    BY <2>2 DEF IsFlat
  <2>5. x = IF n + 1 = 1 THEN p[n + 1] ELSE f[n] \o p[n + 1]
    OBVIOUS
  <2> HIDE DEF x
  <2>6. g \in [1 .. n + 1 -> Seq(S)]
    BY <2>3
  <2>7. ASSUME NEW i \in 1 .. n + 1
        PROVE  g[i] = IF i = 1 THEN p[i] ELSE g[i - 1] \o p[i]
    <3>1. CASE i = n + 1
      <4>1. g[i] = x /\ (i # 1 => i - 1 = n /\ n \in 1 .. n + 1 /\ n # n + 1)
        BY <3>1
      <4>2. i # 1 => g[i - 1] = f[n]
        BY <4>1
      <4> QED
        BY <2>5, <3>1, <4>1, <4>2
    <3>2. CASE i # n + 1
      <4>1. i \in 1 .. n /\ g[i] = f[i]
        BY <3>2
      <4>2. i # 1 => i - 1 \in 1 .. n + 1 /\ i - 1 # n + 1
        BY <4>1
      <4>3. i # 1 => g[i - 1] = f[i - 1]
        BY <4>2
      <4> QED
        BY <2>4, <4>1, <4>3
    <3> QED
      BY <3>1, <3>2
  <2>8. g = [i \in 1 .. n + 1 |-> g[i]]
    OBVIOUS
  <2> HIDE DEF g
  <2>9. IsFlat(g, p, n + 1)
    BY <2>7, <2>8 DEF IsFlat
  <2> QED
    BY <2>6, <2>9
<1>3. \A n \in Nat : n \in T => n + 1 \in T
  BY <1>2
<1> HIDE DEF T
<1>4. \A n \in Nat : n \in T
  BY <1>1, <1>3, Naturals0
<1> QED
  BY <1>4 DEF T

\* Two sequences are alike in their first n elements.
Agree(p, q, n) == \A i \in 1 .. n : p[i] = q[i]

\* Two tables agree as far as their pieces do.
LEMMA FlatUnique ==
    ASSUME NEW p, NEW q, NEW n \in Nat, NEW m \in Nat, NEW f, NEW g,
           n <= m, IsFlat(f, p, n), IsFlat(g, q, m), Agree(p, q, n)
    PROVE  Agree(f, g, n)
<1> DEFINE T == {i \in Nat : i \in 1 .. n => f[i] = g[i]}
<1>1. 0 \in T
  OBVIOUS
<1>2. \A i \in 1 .. n : f[i] = IF i = 1 THEN p[i] ELSE f[i - 1] \o p[i]
  BY DEF IsFlat
<1>3. \A i \in 1 .. n : g[i] = IF i = 1 THEN p[i] ELSE g[i - 1] \o p[i]
  <2>1. \A i \in 1 .. m : g[i] = IF i = 1 THEN q[i] ELSE g[i - 1] \o q[i]
    BY DEF IsFlat
  <2> QED
    BY <2>1 DEF Agree
<1>4. ASSUME NEW i \in Nat, i \in T, i + 1 \in 1 .. n PROVE f[i + 1] = g[i + 1]
  <2>1. (i + 1) - 1 = i
    OBVIOUS
  <2>2. i + 1 # 1 => i \in 1 .. n
    BY <1>4
  <2>3. i + 1 # 1 => f[i] = g[i]
    BY <1>4, <2>2
  <2>4. /\ f[i + 1] = IF i + 1 = 1 THEN p[i + 1] ELSE f[i] \o p[i + 1]
        /\ g[i + 1] = IF i + 1 = 1 THEN p[i + 1] ELSE g[i] \o p[i + 1]
    BY <1>2, <1>3, <1>4, <2>1
  <2> QED
    BY <2>3, <2>4
<1>5. \A i \in Nat : i \in T => i + 1 \in T
  BY <1>4
<1> HIDE DEF T
<1>6. \A i \in Nat : i \in T
  BY <1>1, <1>5, Naturals0
<1> QED
  BY <1>6 DEF T, Agree

\* FlattenSeq reads the last entry of the table.
LEMMA FlattenTable ==
    ASSUME NEW S, NEW p \in Seq(Seq(S)), Len(p) # 0
    PROVE  \E f \in [1 .. Len(p) -> Seq(S)] : IsFlat(f, p, Len(p)) /\ FlattenSeq(p) = f[Len(p)]
<1> DEFINE F == CHOOSE f : f = [i \in 1 .. Len(p) |-> IF i = 1 THEN p[i] ELSE f[i - 1] \o p[i]]
<1>1. FlattenSeq(p) = F[Len(p)]
  BY Zenon DEF FlattenSeq
<1>2. Len(p) \in Nat /\ Len(p) <= Len(p)
  OBVIOUS
<1>3. PICK f \in [1 .. Len(p) -> Seq(S)] : IsFlat(f, p, Len(p))
  BY <1>2, FlatExists
<1>4. F = [i \in 1 .. Len(p) |-> IF i = 1 THEN p[i] ELSE F[i - 1] \o p[i]]
  BY <1>3, Zenon DEF IsFlat
<1> HIDE DEF F
<1>5. IsFlat(F, p, Len(p))
  BY <1>4, Zenon DEF IsFlat
<1>6. \A i \in 1 .. Len(p) : F[i] = f[i]
  BY <1>2, <1>3, <1>5, FlatUnique DEF Agree
<1>7. Len(p) \in 1 .. Len(p)
  BY <1>2
<1> QED
  BY <1>1, <1>3, <1>6, <1>7

\* Nothing to flatten.
LEMMA FlattenEmpty == FlattenSeq(<<>>) = <<>>
BY DEF FlattenSeq

\* One more piece.
LEMMA FlattenMore ==
    ASSUME NEW S, NEW p \in Seq(Seq(S)), NEW q \in Seq(Seq(S)), Len(q) = Len(p) + 1,
           Agree(q, p, Len(p))
    PROVE  /\ FlattenSeq(p) \in Seq(S)
           /\ FlattenSeq(q) = FlattenSeq(p) \o q[Len(q)]
<1>0. Len(p) \in Nat /\ Len(q) \in Nat /\ Len(q) # 0 /\ Len(p) <= Len(q)
      /\ Len(q) - 1 = Len(p) /\ Len(q) \in 1 .. Len(q) /\ q[Len(q)] \in Seq(S)
  OBVIOUS
<1>1. PICK g \in [1 .. Len(q) -> Seq(S)] : IsFlat(g, q, Len(q)) /\ FlattenSeq(q) = g[Len(q)]
  BY <1>0, FlattenTable
<1>2. g[Len(q)] = IF Len(q) = 1 THEN q[Len(q)] ELSE g[Len(p)] \o q[Len(q)]
  BY <1>0, <1>1 DEF IsFlat
<1>3. CASE Len(p) = 0
  <2>1. p = <<>>
    BY <1>3, EmptySeq
  <2>2. FlattenSeq(p) = <<>> /\ <<>> \in Seq(S)
    BY <2>1, FlattenEmpty
  <2>3. Len(q) = 1 /\ FlattenSeq(q) = q[Len(q)]
    BY <1>0, <1>1, <1>2, <1>3
  <2>4. <<>> \o q[Len(q)] = q[Len(q)]
    BY <1>0, ConcatEmptySeq
  <2> QED
    BY <2>2, <2>3, <2>4
<1>4. CASE Len(p) # 0
  <2>1. PICK f \in [1 .. Len(p) -> Seq(S)] : IsFlat(f, p, Len(p)) /\ FlattenSeq(p) = f[Len(p)]
    BY <1>4, FlattenTable
  <2>2. \A i \in 1 .. Len(p) : f[i] = g[i]
    <3>1. Agree(p, q, Len(p))
      BY DEF Agree
    <3>2. Agree(f, g, Len(p))
      BY <1>0, <1>1, <2>1, <3>1, FlatUnique
    <3> QED
      BY <3>2 DEF Agree
  <2>3. Len(p) \in 1 .. Len(p) /\ Len(q) # 1
    BY <1>0, <1>4
  <2>4. FlattenSeq(p) = g[Len(p)] /\ FlattenSeq(p) \in Seq(S)
    BY <2>1, <2>2, <2>3
  <2> QED
    BY <1>1, <1>2, <2>3, <2>4
<1> QED
  BY <1>3, <1>4

\* What is flattened is a sequence.
LEMMA FlattenType ==
    ASSUME NEW S, NEW p \in Seq(Seq(S))
    PROVE  FlattenSeq(p) \in Seq(S)
<1>1. CASE Len(p) = 0
  <2>1. p = <<>>
    BY <1>1, EmptySeq
  <2>2. <<>> \in Seq(S)
    OBVIOUS
  <2> QED
    BY <2>1, <2>2, FlattenEmpty
<1>2. CASE Len(p) # 0
  <2>1. Len(p) \in 1 .. Len(p)
    BY <1>2
  <2>2. PICK f \in [1 .. Len(p) -> Seq(S)] : FlattenSeq(p) = f[Len(p)]
    BY <1>2, FlattenTable
  <2>3. f[Len(p)] \in Seq(S)
    BY <2>1
  <2> QED
    BY <2>2, <2>3
<1> QED
  BY <1>1, <1>2

\* A single piece.
LEMMA FlattenOne ==
    ASSUME NEW S, NEW x \in Seq(S)
    PROVE  FlattenSeq(<<x>>) = x
<1>1. <<>> \in Seq(Seq(S)) /\ <<x>> \in Seq(Seq(S)) /\ Len(<<>>) = 0 /\ Len(<<x>>) = 1
      /\ <<x>>[1] = x
  OBVIOUS
<1>2. Len(<<x>>) = Len(<<>>) + 1 /\ \A i \in 1 .. Len(<<>>) : <<x>>[i] = <<>>[i]
  BY <1>1
<1>3. FlattenSeq(<<x>>) = FlattenSeq(<<>>) \o <<x>>[Len(<<x>>)]
  BY <1>1, <1>2, FlattenMore DEF Agree
<1>4. FlattenSeq(<<x>>) = <<>> \o x
  BY <1>1, <1>3, FlattenEmpty
<1> QED
  BY <1>4, ConcatEmptySeq

\* The pieces of two sequences, one after the other.
LEMMA FlattenConcat ==
    ASSUME NEW S, NEW p \in Seq(Seq(S)), NEW q \in Seq(Seq(S))
    PROVE  FlattenSeq(p \o q) = FlattenSeq(p) \o FlattenSeq(q)
<1> DEFINE c(n) == p \o SubSeq(q, 1, n)
           T == {n \in Nat : n <= Len(q) =>
                    FlattenSeq(c(n)) = FlattenSeq(p) \o FlattenSeq(SubSeq(q, 1, n))}
<1>0. Len(q) \in Nat /\ Len(p) \in Nat
  OBVIOUS
<1>1. ASSUME NEW n \in Nat, n <= Len(q)
      PROVE  /\ SubSeq(q, 1, n) \in Seq(Seq(S)) /\ Len(SubSeq(q, 1, n)) = n
             /\ \A i \in 1 .. n : SubSeq(q, 1, n)[i] = q[i]
  BY <1>0, <1>1
<1>2. ASSUME NEW n \in Nat, n <= Len(q)
      PROVE  /\ c(n) \in Seq(Seq(S)) /\ Len(c(n)) = Len(p) + n
             /\ \A i \in 1 .. Len(p) : c(n)[i] = p[i]
             /\ \A i \in 1 .. n : c(n)[Len(p) + i] = q[i]
  <2> DEFINE r == SubSeq(q, 1, n)
  <2>1. r \in Seq(Seq(S)) /\ Len(r) = n /\ \A i \in 1 .. n : r[i] = q[i]
    BY <1>1, <1>2
  <2> HIDE DEF r
  <2>2. /\ p \o r \in Seq(Seq(S)) /\ Len(p \o r) = Len(p) + Len(r)
        /\ \A i \in 1 .. Len(p) + Len(r) :
              (p \o r)[i] = IF i <= Len(p) THEN p[i] ELSE r[i - Len(p)]
    BY <2>1, ConcatProperties
  <2>3. ASSUME NEW i \in 1 .. Len(p) PROVE (p \o r)[i] = p[i]
    BY <1>0, <2>1, <2>2
  <2>4. ASSUME NEW i \in 1 .. n PROVE (p \o r)[Len(p) + i] = q[i]
    <3>1. Len(p) + i \in 1 .. Len(p) + Len(r) /\ ~(Len(p) + i <= Len(p))
          /\ (Len(p) + i) - Len(p) = i
      BY <1>0, <2>1
    <3> QED
      BY <2>1, <2>2, <3>1
  <2> QED
    BY <2>1, <2>2, <2>3, <2>4 DEF r
<1>3. 0 \in T
  <2>1. SubSeq(q, 1, 0) = <<>> /\ c(0) = p
    <3>1. SubSeq(q, 1, 0) = <<>>
      OBVIOUS
    <3> QED
      BY <3>1, ConcatEmptySeq
  <2>2. FlattenSeq(p) \in Seq(S)
    BY FlattenType
  <2>3. FlattenSeq(p) \o <<>> = FlattenSeq(p)
    BY <2>2, ConcatEmptySeq
  <2> QED
    BY <2>1, <2>3, FlattenEmpty
<1>4. ASSUME NEW n \in Nat, n \in T, n + 1 <= Len(q)
      PROVE  FlattenSeq(c(n + 1)) = FlattenSeq(p) \o FlattenSeq(SubSeq(q, 1, n + 1))
  <2> DEFINE a == SubSeq(q, 1, n)
             b == SubSeq(q, 1, n + 1)
             x == q[n + 1]
  <2>0. n <= Len(q) /\ n + 1 \in Nat /\ n + 1 \in 1 .. Len(q) /\ x \in Seq(S)
    BY <1>0, <1>4
  <2>1. /\ a \in Seq(Seq(S)) /\ Len(a) = n /\ \A i \in 1 .. n : a[i] = q[i]
        /\ b \in Seq(Seq(S)) /\ Len(b) = n + 1 /\ \A i \in 1 .. n + 1 : b[i] = q[i]
    BY <1>1, <1>4, <2>0
  <2>2. FlattenSeq(a) \in Seq(S) /\ FlattenSeq(b) = FlattenSeq(a) \o x
    <3> HIDE DEF a, b, x
    <3>1. Len(b) = Len(a) + 1 /\ \A i \in 1 .. Len(a) : b[i] = a[i]
      <4>1. \A i \in 1 .. n : i \in 1 .. n + 1
        OBVIOUS
      <4> QED
        BY <2>1, <4>1
    <3>2. b[Len(b)] = x
      BY <2>1 DEF x
    <3> QED
      BY <2>1, <3>1, <3>2, FlattenMore DEF Agree
  <2>3. FlattenSeq(c(n + 1)) = FlattenSeq(c(n)) \o x
    <3> DEFINE u == c(n)
               v == c(n + 1)
    <3>1. /\ u \in Seq(Seq(S)) /\ Len(u) = Len(p) + n
          /\ \A i \in 1 .. Len(p) : u[i] = p[i]
          /\ \A i \in 1 .. n : u[Len(p) + i] = q[i]
      BY <1>2, <2>0
    <3>2. /\ v \in Seq(Seq(S)) /\ Len(v) = Len(p) + (n + 1)
          /\ \A i \in 1 .. Len(p) : v[i] = p[i]
          /\ \A i \in 1 .. n + 1 : v[Len(p) + i] = q[i]
      BY <1>2, <1>4, <2>0
    <3> HIDE DEF c, u, v
    <3>3. Len(v) = Len(u) + 1
      BY <1>0, <3>1, <3>2
    <3>4. ASSUME NEW i \in 1 .. Len(u) PROVE v[i] = u[i]
      <4>1. CASE i <= Len(p)
        BY <1>0, <3>1, <3>2, <4>1
      <4>2. CASE ~(i <= Len(p))
        <5>1. i - Len(p) \in 1 .. n /\ Len(p) + (i - Len(p)) = i /\ i - Len(p) \in 1 .. n + 1
          BY <1>0, <3>1, <4>2
        <5> QED
          BY <3>1, <3>2, <5>1
      <4> QED
        BY <4>1, <4>2
    <3>5. v[Len(v)] = x
      <4>1. n + 1 \in 1 .. n + 1
        OBVIOUS
      <4> QED
        BY <3>2, <4>1
    <3>6. FlattenSeq(v) = FlattenSeq(u) \o v[Len(v)]
      BY <3>1, <3>2, <3>3, <3>4, FlattenMore DEF Agree
    <3> QED
      BY <3>5, <3>6 DEF u, v
  <2>4. FlattenSeq(c(n)) = FlattenSeq(p) \o FlattenSeq(a)
    BY <1>4, <2>0
  <2>5. FlattenSeq(p) \in Seq(S)
    BY FlattenType
  <2> HIDE DEF a, b, c, x
  <2>6. (FlattenSeq(p) \o FlattenSeq(a)) \o x = FlattenSeq(p) \o (FlattenSeq(a) \o x)
    <3>1. PICK y, z : y = FlattenSeq(p) /\ z = FlattenSeq(a)
      OBVIOUS
    <3>2. y \in Seq(S) /\ z \in Seq(S) /\ x \in Seq(S)
      BY <2>0, <2>2, <2>5, <3>1
    <3>3. (y \o z) \o x = y \o (z \o x)
      BY <3>2, ConcatAssociative
    <3> QED
      BY <3>1, <3>3
  <2> QED
    BY <2>2, <2>3, <2>4, <2>6 DEF b
<1>5. \A n \in Nat : n \in T => n + 1 \in T
  <2> SUFFICES ASSUME NEW n \in Nat, n \in T PROVE n + 1 \in T
    OBVIOUS
  <2>1. n + 1 \in Nat
    OBVIOUS
  <2> HIDE DEF c
  <2> QED
    BY <1>4, <2>1
<1>6. \A n \in Nat : n \in T
  <2> HIDE DEF T
  <2> QED
    BY <1>3, <1>5, Naturals0
<1>7. FlattenSeq(c(Len(q))) = FlattenSeq(p) \o FlattenSeq(SubSeq(q, 1, Len(q)))
  BY <1>0, <1>6
<1>8. SubSeq(q, 1, Len(q)) = q
  BY SubSeqFull
<1> QED
  BY <1>7, <1>8

\* What the first pieces give is the beginning of what all of them give.
LEMMA FlattenPrefix ==
    ASSUME NEW S, NEW p \in Seq(Seq(S)), NEW q \in Seq(Seq(S)), Len(q) <= Len(p),
           Agree(q, p, Len(q))
    PROVE  IsPrefix(FlattenSeq(q), FlattenSeq(p))
<1> DEFINE t == SubSeq(p, Len(q) + 1, Len(p))
           a == FlattenSeq(q)
           b == FlattenSeq(t)
<1>0. Len(p) \in Nat /\ Len(q) \in Nat
  OBVIOUS
<1>1. t \in Seq(Seq(S)) /\ Len(t) = Len(p) - Len(q)
      /\ \A i \in 1 .. Len(p) - Len(q) : t[i] = p[Len(q) + i]
  BY <1>0
<1> HIDE DEF t
<1>2. p = q \o t
  <2>1. /\ q \o t \in Seq(Seq(S)) /\ Len(q \o t) = Len(q) + Len(t)
        /\ \A i \in 1 .. Len(q) + Len(t) :
              (q \o t)[i] = IF i <= Len(q) THEN q[i] ELSE t[i - Len(q)]
    BY <1>1, ConcatProperties
  <2>2. ASSUME NEW i \in 1 .. Len(p) PROVE p[i] = (q \o t)[i]
    <3>1. i \in 1 .. Len(q) + Len(t)
      BY <1>0, <1>1
    <3>2. CASE i <= Len(q)
      BY <1>0, <2>1, <3>1, <3>2 DEF Agree
    <3>3. CASE ~(i <= Len(q))
      <4>1. i - Len(q) \in 1 .. Len(p) - Len(q) /\ Len(q) + (i - Len(q)) = i
        BY <1>0, <3>3
      <4> QED
        BY <1>1, <2>1, <3>1, <3>3, <4>1
    <3> QED
      BY <3>2, <3>3
  <2>3. Len(p) = Len(q \o t)
    BY <1>0, <1>1, <2>1
  <2> QED
    BY <2>1, <2>2, <2>3, SeqEqual
<1>3. FlattenSeq(p) = a \o b
  BY <1>1, <1>2, FlattenConcat
<1>4. a \in Seq(S) /\ b \in Seq(S)
  BY <1>1, FlattenType
<1> HIDE DEF a, b
<1>5. Len(a) \in Nat /\ Len(b) \in Nat /\ Len(a \o b) = Len(a) + Len(b)
  BY <1>4
<1>6. SubSeq(a \o b, 1, Len(a)) = a
  BY <1>4, SubSeqOfConcat1, SubSeqFull
<1>7. SubSeq(a, 1, Len(a)) = a
  BY <1>4, SubSeqFull
<1>8. IsPrefix(a, a \o b)
  BY <1>5, <1>6, <1>7 DEF IsPrefix
<1> QED
  BY <1>3, <1>8 DEF a

-------------------------------------------------------------------------------
(***************************************************************************)
(* Format detection.                                                       *)
(***************************************************************************)
\* What bytes.TrimSpace leaves of a body that is not blank.
LEMMA TrimProperties ==
    ASSUME NEW L, NEW q \in Seq(L),
           NEW S, S = {i \in 1 .. Len(q) : q[i] \notin Blank}, S # {}
    PROVE  /\ Min(S) \in 1 .. Len(q) /\ Max(S) \in 1 .. Len(q) /\ Min(S) <= Max(S)
           /\ Trim(q) \in Seq(L) /\ Len(Trim(q)) = Max(S) - Min(S) + 1
           /\ \A i \in 1 .. Len(Trim(q)) : Trim(q)[i] = q[Min(S) + i - 1]
<1>1. Len(q) \in Nat /\ S \subseteq 1 .. Len(q)
  OBVIOUS
<1>2. /\ Min(S) \in S /\ \A j \in S : Min(S) <= j
      /\ Max(S) \in S /\ \A j \in S : j <= Max(S)
  BY <1>1, Ends
<1>3. Min(S) \in 1 .. Len(q) /\ Max(S) \in 1 .. Len(q) /\ Min(S) <= Max(S)
  BY <1>1, <1>2
<1>4. Trim(q) = SubSeq(q, Min(S), Max(S))
  BY DEF Trim
<1> DEFINE m == Min(S)
           n == Max(S)
<1>5. m \in 1 .. Len(q) /\ n \in 1 .. Len(q) /\ m <= n /\ Trim(q) = SubSeq(q, m, n)
  BY <1>3, <1>4
<1> HIDE DEF m, n
<1>6. m \in Int /\ n \in Int /\ \A i \in m .. n : q[i] \in L
  BY <1>1, <1>5
<1>7. /\ SubSeq(q, m, n) \in Seq(L)
      /\ Len(SubSeq(q, m, n)) = IF m <= n THEN n - m + 1 ELSE 0
      /\ \A i \in 1 .. n - m + 1 : SubSeq(q, m, n)[i] = q[m + i - 1]
  BY <1>6, SubSeqProperties
<1>8. /\ Trim(q) \in Seq(L) /\ Len(Trim(q)) = n - m + 1
      /\ \A i \in 1 .. Len(Trim(q)) : Trim(q)[i] = q[m + i - 1]
  BY <1>5, <1>7
<1> QED
  BY <1>5, <1>8 DEF m, n

(***************************************************************************)
(* What is seen of a body in its first read, unless it is blank, is the    *)
(* beginning of what is seen of all of it.                                 *)
(***************************************************************************)
LEMMA TrimOfCut ==
    ASSUME NEW L, NEW body \in Seq(L), NEW k \in 1 .. Len(body),
           Trim(SubSeq(body, 1, k)) # <<>>
    PROVE  /\ Trim(SubSeq(body, 1, k)) \in Seq(L) /\ Trim(body) \in Seq(L)
           /\ Len(Trim(SubSeq(body, 1, k))) \in 1 .. Len(Trim(body))
           /\ \A i \in 1 .. Len(Trim(SubSeq(body, 1, k))) :
                 Trim(SubSeq(body, 1, k))[i] = Trim(body)[i]
<1> DEFINE cut == SubSeq(body, 1, k)
           S == {i \in 1 .. Len(cut) : cut[i] \notin Blank}
           T == {i \in 1 .. Len(body) : body[i] \notin Blank}
<1>1. Len(body) \in Nat /\ k \in Nat
  OBVIOUS
<1>2. cut \in Seq(L) /\ Len(cut) = k /\ \A i \in 1 .. k : cut[i] = body[i]
  <2>1. 1 \in Int /\ k \in Int /\ \A i \in 1 .. k : body[i] \in L
    BY <1>1
  <2>2. /\ SubSeq(body, 1, k) \in Seq(L)
        /\ Len(SubSeq(body, 1, k)) = IF 1 <= k THEN k - 1 + 1 ELSE 0
        /\ \A i \in 1 .. k - 1 + 1 : SubSeq(body, 1, k)[i] = body[1 + i - 1]
    BY <2>1, SubSeqProperties
  <2> QED
    BY <1>1, <2>2
<1> HIDE DEF cut
<1>3. S # {}
  BY DEF Trim, cut
<1>4. S \subseteq T /\ \A j \in T : j <= k => j \in S
  BY <1>1, <1>2
<1>5. T # {}
  BY <1>3, <1>4
<1>6. /\ Min(S) \in 1 .. Len(cut) /\ Max(S) \in 1 .. Len(cut) /\ Min(S) <= Max(S)
      /\ Trim(cut) \in Seq(L) /\ Len(Trim(cut)) = Max(S) - Min(S) + 1
      /\ \A i \in 1 .. Len(Trim(cut)) : Trim(cut)[i] = cut[Min(S) + i - 1]
  <2>1. cut \in Seq(L) /\ S = {i \in 1 .. Len(cut) : cut[i] \notin Blank} /\ S # {}
    BY <1>2, <1>3
  <2> HIDE DEF S
  <2> QED
    BY <2>1, TrimProperties
<1>7. /\ Min(T) \in 1 .. Len(body) /\ Max(T) \in 1 .. Len(body) /\ Min(T) <= Max(T)
      /\ Trim(body) \in Seq(L) /\ Len(Trim(body)) = Max(T) - Min(T) + 1
      /\ \A i \in 1 .. Len(Trim(body)) : Trim(body)[i] = body[Min(T) + i - 1]
  BY <1>5, TrimProperties
<1>8. /\ Min(S) \in S /\ \A j \in S : Min(S) <= j
      /\ Max(S) \in S /\ \A j \in S : j <= Max(S)
  <2>1. Len(cut) \in Nat /\ S \subseteq 1 .. Len(cut)
    BY <1>1, <1>2
  <2> HIDE DEF S
  <2> QED
    BY <1>3, <2>1, Ends
<1>9. /\ Min(T) \in T /\ \A j \in T : Min(T) <= j
      /\ Max(T) \in T /\ \A j \in T : j <= Max(T)
  <2>1. T \subseteq 1 .. Len(body)
    OBVIOUS
  <2> HIDE DEF T
  <2> QED
    BY <1>1, <1>5, <2>1, Ends
<1> DEFINE m == Min(S)
           n == Max(S)
           u == Min(T)
           v == Max(T)
<1>10. m = u /\ n <= v /\ m \in 1 .. k /\ n \in 1 .. k /\ m <= n /\ v \in 1 .. Len(body)
  <2> HIDE DEF S, T
  <2>1. m \in 1 .. k /\ n \in 1 .. k /\ u \in 1 .. Len(body) /\ v \in 1 .. Len(body) /\ m <= n
    BY <1>2, <1>6, <1>7
  <2>2. u <= m /\ n <= v
    BY <1>4, <1>8, <1>9
  <2>3. u \in S
    BY <1>1, <1>4, <1>9, <2>1, <2>2
  <2>4. m <= u
    BY <1>8, <2>3
  <2> HIDE DEF m, n, u, v
  <2> QED
    BY <1>1, <2>1, <2>2, <2>4
<1>11. /\ Len(Trim(cut)) = n - m + 1 /\ Len(Trim(body)) = v - u + 1
       /\ \A i \in 1 .. Len(Trim(cut)) : Trim(cut)[i] = cut[m + i - 1]
       /\ \A i \in 1 .. Len(Trim(body)) : Trim(body)[i] = body[u + i - 1]
  BY <1>6, <1>7
<1> HIDE DEF m, n, u, v
<1>12. Len(Trim(cut)) \in 1 .. Len(Trim(body))
  BY <1>1, <1>10, <1>11
<1>13. ASSUME NEW i \in 1 .. Len(Trim(cut)) PROVE Trim(cut)[i] = Trim(body)[i]
  <2>1. m + i - 1 \in 1 .. k /\ i \in 1 .. Len(Trim(body))
    BY <1>1, <1>10, <1>11
  <2> QED
    BY <1>2, <1>10, <1>11, <2>1
<1> QED
  BY <1>6, <1>7, <1>12, <1>13 DEF cut
\* looksLikeSSE, by the two lexemes of the field name.
LEMMA SSEByLexeme ==
    ASSUME NEW L, NEW q \in Seq(L)
    PROVE  LooksLikeSSE(q) <=> Len(q) >= 2 /\ q[1] = "da" /\ q[2] = "ta:"
<1> DEFINE p == <<"da", "ta:">>
           P == {"da", "ta:"}
<1>1. p \in Seq(P) /\ Len(p) = 2 /\ p[1] = "da" /\ p[2] = "ta:"
  OBVIOUS
<1> HIDE DEF p, P
<1>2. /\ SubSeq(p, 1, 2) \in Seq(P) /\ Len(SubSeq(p, 1, 2)) = 2
      /\ SubSeq(p, 1, 2)[1] = p[1] /\ SubSeq(p, 1, 2)[2] = p[2]
  <2>1. \A i \in 1 .. 2 : p[i] \in P
    BY DEF p, P
  <2>2. /\ SubSeq(p, 1, 2) \in Seq(P)
        /\ Len(SubSeq(p, 1, 2)) = (IF 1 <= 2 THEN 2 - 1 + 1 ELSE 0)
        /\ \A i \in 1 .. 2 - 1 + 1 : SubSeq(p, 1, 2)[i] = p[1 + i - 1]
    BY <2>1, SubSeqProperties
  <2> QED
    BY <2>2
<1>3. ASSUME Len(q) >= 2
      PROVE  /\ SubSeq(q, 1, 2) \in Seq(L) /\ Len(SubSeq(q, 1, 2)) = 2
             /\ SubSeq(q, 1, 2)[1] = q[1] /\ SubSeq(q, 1, 2)[2] = q[2]
  BY <1>3
<1>4. ASSUME Len(q) >= 2, q[1] = "da", q[2] = "ta:"
      PROVE  SubSeq(p, 1, 2) = SubSeq(q, 1, 2)
  <2> DEFINE a == SubSeq(p, 1, 2)
             b == SubSeq(q, 1, 2)
  <2>1. /\ a \in Seq(P) /\ b \in Seq(L) /\ Len(a) = 2 /\ Len(b) = 2
        /\ a[1] = "da" /\ b[1] = "da" /\ a[2] = "ta:" /\ b[2] = "ta:"
    BY <1>1, <1>2, <1>3, <1>4
  <2> HIDE DEF a, b
  <2>2. \A i \in 1 .. 2 : a[i] = b[i]
    BY <2>1
  <2>3. a \in [1 .. 2 -> P] /\ b \in [1 .. 2 -> L]
    BY <2>1, LenProperties
  <2>4. a = b
    BY <2>2, <2>3
  <2> QED
    BY <2>4 DEF a, b
<1>5. LooksLikeSSE(q) <=> Len(p) <= Len(q) /\ SubSeq(p, 1, Len(p)) = SubSeq(q, 1, Len(p))
  BY DEF LooksLikeSSE, IsPrefix, p
<1>6. LooksLikeSSE(q) <=> Len(q) >= 2 /\ SubSeq(p, 1, 2) = SubSeq(q, 1, 2)
  BY <1>1, <1>5
<1> QED
  BY <1>1, <1>2, <1>3, <1>4, <1>6

(***************************************************************************)
(* The format of a response is decided by its header alone when that       *)
(* announces one, for any body; and a body cut anywhere by the first read  *)
(* is taken for what the whole body is, up to the exceptions SniffHolds    *)
(* names: consume sniffs once.                                             *)
(***************************************************************************)
LEMMA SniffAny ==
    ASSUME NEW ct, NEW L, NEW body \in Seq(L), NEW k \in 1 .. Len(body)
    PROVE  SniffHolds(ct, body, k)
<1> DEFINE cut  == SubSeq(body, 1, k)
           seen == Trim(cut)
           all  == Trim(body)
           F    == FormatFromContentType(ct)
<1>1. SniffFormat(<<>>) = "raw"
  <2>1. Trim(<<>>) = <<>>
    BY DEF Trim
  <2> QED
    BY <2>1 DEF SniffFormat
<1>2. F # "raw"
  BY DEF FormatFromContentType
<1> HIDE DEF F
<1>3. DetectFormat(ct, <<>>) = IF F # "" THEN F ELSE "raw"
  BY <1>1 DEF DetectFormat, F
<1>4. /\ CapturedFormat(ct, cut) = IF F # "" THEN F ELSE SniffFormat(cut)
      /\ DetectFormat(ct, body) = IF F # "" THEN F ELSE SniffFormat(body)
  BY <1>2, <1>3 DEF CapturedFormat, DetectFormat, F
<1>5. SniffHolds(ct, body, k) <=>
        /\ F # "" => CapturedFormat(ct, cut) = DetectFormat(ct, body)
        /\ CapturedFormat(ct, cut) # "raw" =>
              Family(CapturedFormat(ct, cut)) = Family(DetectFormat(ct, body))
        /\ CapturedFormat(ct, cut) = "raw" /\ DetectFormat(ct, body) # "raw" =>
              seen \in {<<>>, <<"da">>}
  BY DEF SniffHolds, F
<1>6. CASE F # ""
  BY <1>2, <1>4, <1>5, <1>6
<1>7. ASSUME F = ""
      PROVE  /\ SniffFormat(cut) # "raw" => Family(SniffFormat(cut)) = Family(SniffFormat(body))
             /\ SniffFormat(cut) = "raw" /\ SniffFormat(body) # "raw" => seen \in {<<>>, <<"da">>}
  <2>1. CASE seen = <<>>
    BY <2>1 DEF SniffFormat
  <2>2. CASE seen # <<>>
    <3>1. /\ seen \in Seq(L) /\ all \in Seq(L) /\ Len(seen) \in 1 .. Len(all)
          /\ \A i \in 1 .. Len(seen) : seen[i] = all[i]
      BY <2>2, TrimOfCut
    <3> HIDE DEF seen, all, cut
    <3>2. all # <<>> /\ seen[1] = all[1] /\ Len(seen) \in Nat /\ Len(all) \in Nat
      BY <3>1
    <3>3. /\ SniffFormat(cut) =
              IF seen[1] = "[" THEN IF IsNDJSON(seen) THEN "ndjson" ELSE "json"
              ELSE IF seen[1] = "<" THEN "xml" ELSE IF LooksLikeSSE(seen) THEN "sse" ELSE "raw"
          /\ SniffFormat(body) =
              IF all[1] = "[" THEN IF IsNDJSON(all) THEN "ndjson" ELSE "json"
              ELSE IF all[1] = "<" THEN "xml" ELSE IF LooksLikeSSE(all) THEN "sse" ELSE "raw"
      BY <2>2, <3>2 DEF SniffFormat, seen, all
    <3>4. LooksLikeSSE(seen) => LooksLikeSSE(all)
      BY <3>1, <3>2, SSEByLexeme
    <3>5. ASSUME LooksLikeSSE(all), ~LooksLikeSSE(seen) PROVE seen = <<"da">>
      <4>1. all[1] = "da" /\ all[2] = "ta:"
        BY <3>1, <3>5, SSEByLexeme
      <4>2. seen[1] = "da" /\ ~(Len(seen) >= 2)
        BY <3>1, <3>2, <3>5, <4>1, SSEByLexeme
      <4>3. Len(seen) = 1
        <5>1. Len(seen) \in Nat /\ Len(seen) >= 1 /\ ~(Len(seen) >= 2)
          BY <3>1, <3>2, <4>2
        <5>2. \A n \in Nat : n >= 1 /\ ~(n >= 2) => n = 1
          OBVIOUS
        <5> QED
          BY <5>1, <5>2
      <4>4. seen \in [1 .. 1 -> L] /\ \A i \in 1 .. 1 : seen[i] = "da"
        <5>1. seen \in [1 .. Len(seen) -> L]
          BY <3>1, LenProperties
        <5> QED
          BY <4>2, <4>3, <5>1
      <4>5. <<"da">> \in [1 .. 1 -> {"da"}] /\ \A i \in 1 .. 1 : <<"da">>[i] = "da"
        OBVIOUS
      <4> QED
        BY <4>4, <4>5
    <3> QED
      BY <3>2, <3>3, <3>4, <3>5 DEF Family
  <2> QED
    BY <2>1, <2>2
<1> QED
  BY <1>4, <1>5, <1>6, <1>7

-------------------------------------------------------------------------------
(***************************************************************************)
(* The Ollama preview and the two decoders.                                *)
(***************************************************************************)
\* The lines of a response, with any text in their fields.
LineType(L) ==
    [data : BOOLEAN, is : {"fragment", "cut", "done"}, response : Seq(L), content : Seq(L)]

\* What OllamaPreview takes from each line.
Pieces(format, lines) ==
    [k \in 1 .. Len(lines) |->
        IF Kept(format, lines[k]) /\ Parses(format, lines[k])
        THEN lines[k].response \o lines[k].content ELSE <<>>]

\* The preview is what the lines give, one after the other.
LEMMA PreviewPieces ==
    ASSUME NEW format, NEW L, NEW lines \in Seq(LineType(L))
    PROVE  /\ OllamaPreview(format, lines) = FlattenSeq(Pieces(format, lines))
           /\ Pieces(format, lines) \in Seq(Seq(L))
           /\ Len(Pieces(format, lines)) = Len(lines)
<1>1. OllamaPreview(format, lines) = FlattenSeq(Pieces(format, lines))
  BY Zenon DEF OllamaPreview, Texts, Pieces
<1>2. Len(lines) \in Nat
  OBVIOUS
<1>3. ASSUME NEW k \in 1 .. Len(lines)
      PROVE  (IF Kept(format, lines[k]) /\ Parses(format, lines[k])
              THEN lines[k].response \o lines[k].content ELSE <<>>) \in Seq(L)
  <2>1. lines[k] \in LineType(L)
    OBVIOUS
  <2>2. lines[k].response \in Seq(L) /\ lines[k].content \in Seq(L)
    BY <2>1 DEF LineType
  <2>3. lines[k].response \o lines[k].content \in Seq(L) /\ <<>> \in Seq(L)
    BY <2>2
  <2> QED
    BY <2>3
<1>4. Pieces(format, lines) \in [1 .. Len(lines) -> Seq(L)]
  BY <1>3 DEF Pieces
<1>5. Pieces(format, lines) \in Seq(Seq(L)) /\ Len(Pieces(format, lines)) = Len(lines)
  BY <1>2, <1>4
<1> QED
  BY <1>1, <1>5

(***************************************************************************)
(* OllamaPreview of the lines read so far, or of those and a fragment of   *)
(* the next one, is the beginning of OllamaPreview of the whole response.  *)
(***************************************************************************)
LEMMA PreviewAny ==
    ASSUME NEW format, NEW L, NEW lines \in Seq(LineType(L)), NEW k \in 1 .. Len(lines)
    PROVE  PreviewGrows(format, lines, k)
<1> DEFINE P(l)  == Pieces(format, l)
           cut   == [lines[k] EXCEPT !.is = "cut"]
           read  == SubSeq(lines, 1, k)
           full  == SubSeq(lines, 1, k - 1)
           torn  == full \o <<cut>>
<1>0. Len(lines) \in Nat /\ k \in Nat /\ k - 1 \in Nat /\ k <= Len(lines)
  OBVIOUS
<1>1. cut \in LineType(L) /\ cut.is = "cut"
  <2>1. PICK l \in LineType(L) : l = lines[k]
    OBVIOUS
  <2>2. [l EXCEPT !.is = "cut"] \in LineType(L) /\ [l EXCEPT !.is = "cut"].is = "cut"
    <3>1. l = [data |-> l.data, is |-> l.is, response |-> l.response, content |-> l.content]
          /\ l.data \in BOOLEAN /\ l.response \in Seq(L) /\ l.content \in Seq(L)
      BY DEF LineType
    <3>2. [l EXCEPT !.is = "cut"] = [data |-> l.data, is |-> "cut", response |-> l.response,
                                    content |-> l.content]
      BY <3>1
    <3> QED
      BY <3>1, <3>2 DEF LineType
  <2> QED
    BY <2>1, <2>2
<1> HIDE DEF cut
<1>2. /\ read \in Seq(LineType(L)) /\ Len(read) = k /\ \A i \in 1 .. k : read[i] = lines[i]
      /\ full \in Seq(LineType(L)) /\ Len(full) = k - 1
      /\ \A i \in 1 .. k - 1 : full[i] = lines[i]
  BY <1>0
<1> HIDE DEF read, full
<1>3. /\ torn \in Seq(LineType(L)) /\ Len(torn) = k /\ torn[k] = cut
      /\ \A i \in 1 .. k - 1 : torn[i] = lines[i]
  BY <1>0, <1>1, <1>2
<1> HIDE DEF torn
<1>4. /\ OllamaPreview(format, lines) = FlattenSeq(P(lines))
      /\ P(lines) \in Seq(Seq(L)) /\ Len(P(lines)) = Len(lines)
  BY PreviewPieces
<1>5. /\ OllamaPreview(format, read) = FlattenSeq(P(read))
      /\ P(read) \in Seq(Seq(L)) /\ Len(P(read)) = k
  BY <1>2, PreviewPieces
<1>6. /\ OllamaPreview(format, full) = FlattenSeq(P(full))
      /\ P(full) \in Seq(Seq(L)) /\ Len(P(full)) = k - 1
  BY <1>2, PreviewPieces
<1>7. /\ OllamaPreview(format, torn) = FlattenSeq(P(torn))
      /\ P(torn) \in Seq(Seq(L)) /\ Len(P(torn)) = k
  BY <1>3, PreviewPieces
<1>8. Agree(P(read), P(lines), k)
  BY <1>0, <1>2 DEF Pieces, Agree
<1>9. Agree(P(full), P(lines), k - 1)
  BY <1>0, <1>2 DEF Pieces, Agree
<1>10. Agree(P(torn), P(full), k - 1) /\ P(torn)[k] = <<>>
  <2>1. ASSUME NEW i \in 1 .. k - 1 PROVE P(torn)[i] = P(full)[i]
    BY <1>0, <1>2, <1>3 DEF Pieces
  <2>2. ~Parses(format, cut)
    BY <1>1 DEF Parses
  <2>3. P(torn)[k] = <<>>
    BY <1>0, <1>3, <2>2 DEF Pieces
  <2> QED
    BY <2>1, <2>3 DEF Agree
<1> HIDE DEF P
<1>11. IsPrefix(FlattenSeq(P(read)), FlattenSeq(P(lines)))
  BY <1>0, <1>4, <1>5, <1>8, FlattenPrefix
<1>12. IsPrefix(FlattenSeq(P(full)), FlattenSeq(P(lines)))
  <2>1. Len(P(full)) <= Len(P(lines))
    BY <1>0, <1>4, <1>6
  <2> QED
    BY <1>4, <1>6, <1>9, <2>1, FlattenPrefix
<1>13. FlattenSeq(P(torn)) = FlattenSeq(P(full))
  <2>1. Len(P(torn)) = Len(P(full)) + 1
    BY <1>0, <1>6, <1>7
  <2>2. FlattenSeq(P(full)) \in Seq(L)
    BY <1>6, FlattenType
  <2>3. FlattenSeq(P(torn)) = FlattenSeq(P(full)) \o P(torn)[Len(P(torn))]
    BY <1>6, <1>7, <1>10, <2>1, FlattenMore
  <2>4. FlattenSeq(P(full)) \o <<>> = FlattenSeq(P(full))
    BY <2>2, ConcatEmptySeq
  <2> QED
    BY <1>7, <1>10, <2>3, <2>4
<1> QED
  BY <1>4, <1>5, <1>7, <1>11, <1>12, <1>13 DEF PreviewGrows, read, torn, full, cut

(***************************************************************************)
(* decodeOllama and OllamaPreview take the same text from each line, as    *)
(* long as no line carries both fields.                                    *)
(***************************************************************************)
LEMMA DecodersAny ==
    ASSUME NEW format, NEW L, NEW lines \in Seq(LineType(L))
    PROVE  DecodersAgree(format, lines)
<1> SUFFICES ASSUME \A k \in 1 .. Len(lines) : lines[k].response = <<>> \/ lines[k].content = <<>>
             PROVE  DecodeOllama(format, lines) = OllamaPreview(format, lines)
  BY DEF DecodersAgree
<1> DEFINE Q == [k \in 1 .. Len(lines) |->
                    IF Kept(format, lines[k]) /\ Parses(format, lines[k])
                    THEN IF lines[k].response # <<>> THEN lines[k].response ELSE lines[k].content
                    ELSE <<>>]
<1>1. DecodeOllama(format, lines) = FlattenSeq(Q)
  BY Zenon DEF DecodeOllama, Texts
<1>2. ASSUME NEW k \in 1 .. Len(lines)
      PROVE  lines[k].response \o lines[k].content =
                IF lines[k].response # <<>> THEN lines[k].response ELSE lines[k].content
  <2>1. lines[k] \in LineType(L)
    OBVIOUS
  <2>2. PICK r \in Seq(L), c \in Seq(L) : r = lines[k].response /\ c = lines[k].content
    BY <2>1 DEF LineType
  <2>3. r \o <<>> = r /\ <<>> \o c = c
    BY ConcatEmptySeq
  <2> QED
    BY <2>2, <2>3
<1>3. Q = Pieces(format, lines)
  BY <1>2 DEF Pieces
<1> QED
  BY <1>1, <1>3, PreviewPieces

-------------------------------------------------------------------------------
(***************************************************************************)
(* Text and headers as the API answers them.                               *)
(***************************************************************************)
\* A byte encoding/json replaces.
Bad(w, i) ==
    \/ w[i] = "l" /\ ~(i < Len(w) /\ w[i + 1] = "c")
    \/ w[i] = "c" /\ ~(i > 1 /\ w[i - 1] = "l")

\* What encoding/json makes of a text, byte by byte.
LEMMA JSONBytes ==
    ASSUME NEW w \in Seq(Letters)
    PROVE  /\ JSONText(w) \in Seq(Letters) /\ Len(JSONText(w)) = Len(w)
           /\ \A i \in 1 .. Len(w) : JSONText(w)[i] = IF Bad(w, i) THEN "r" ELSE w[i]
<1>1. Len(w) \in Nat /\ \A i \in 1 .. Len(w) : w[i] \in Letters
  OBVIOUS
<1>2. JSONText(w) = [i \in 1 .. Len(w) |-> IF Bad(w, i) THEN "r" ELSE w[i]]
  BY Zenon DEF JSONText, Bad
<1>3. "r" \in Letters
  BY DEF Letters
<1>4. JSONText(w) \in [1 .. Len(w) -> Letters]
  BY <1>1, <1>2, <1>3
<1> QED
  BY <1>1, <1>2, <1>4

\* What encoding/json wrote, it writes again as it is.
LEMMA JSONTwice ==
    ASSUME NEW w \in Seq(Letters)
    PROVE  JSONText(JSONText(w)) = JSONText(w)
<1> DEFINE v == JSONText(w)
<1>1. /\ v \in Seq(Letters) /\ Len(v) = Len(w) /\ Len(w) \in Nat
      /\ \A i \in 1 .. Len(w) : v[i] = IF Bad(w, i) THEN "r" ELSE w[i]
  BY JSONBytes
<1> HIDE DEF v
<1>2. ASSUME NEW i \in 1 .. Len(w) PROVE ~Bad(v, i)
  <2>1. SUFFICES ASSUME v[i] \in {"l", "c"} PROVE ~Bad(v, i)
    BY DEF Bad
  <2>2. v[i] = w[i] /\ ~Bad(w, i)
    BY <1>1, <2>1
  <2>3. CASE w[i] = "l"
    <3>1. i + 1 \in 1 .. Len(w) /\ w[i + 1] = "c" /\ (i + 1) - 1 = i /\ i + 1 > 1
      BY <1>1, <2>2, <2>3 DEF Bad
    <3>2. ~Bad(w, i + 1)
      BY <2>3, <3>1 DEF Bad
    <3>3. v[i + 1] = "c"
      BY <1>1, <3>1, <3>2
    <3> QED
      BY <1>1, <2>2, <2>3, <3>1, <3>3 DEF Bad
  <2>4. CASE w[i] = "c"
    <3>1. i - 1 \in 1 .. Len(w) /\ w[i - 1] = "l" /\ (i - 1) + 1 = i /\ i - 1 < Len(w) /\ i > 1
      BY <1>1, <2>2, <2>4 DEF Bad
    <3>2. ~Bad(w, i - 1)
      BY <2>4, <3>1 DEF Bad
    <3>3. v[i - 1] = "l"
      BY <1>1, <3>1, <3>2
    <3> QED
      BY <1>1, <2>2, <2>4, <3>1, <3>3 DEF Bad
  <2> QED
    BY <2>1, <2>2, <2>3, <2>4
<1>3. /\ JSONText(v) \in Seq(Letters) /\ Len(JSONText(v)) = Len(v)
      /\ \A i \in 1 .. Len(v) : JSONText(v)[i] = v[i]
  BY <1>1, <1>2, JSONBytes
<1>4. JSONText(v) = v
  BY <1>1, <1>3, SeqEqual
<1> QED
  BY <1>4 DEF v

\* A comma keeps the bytes on its two sides apart.
LEMMA JSONJoin ==
    ASSUME NEW a \in Seq(Letters), NEW b \in Seq(Letters)
    PROVE  JSONText(a \o (<<"comma">> \o b)) = JSONText(a) \o (<<"comma">> \o JSONText(b))
<1> DEFINE c == a \o (<<"comma">> \o b)
           d == JSONText(a) \o (<<"comma">> \o JSONText(b))
           n == Len(a)
           m == Len(b)
<1>0. n \in Nat /\ m \in Nat /\ "comma" \in Letters
  BY DEF Letters
<1>1. /\ c \in Seq(Letters) /\ Len(c) = n + 1 + m /\ c[n + 1] = "comma"
      /\ \A i \in 1 .. n : c[i] = a[i]
      /\ \A i \in 1 .. m : c[n + 1 + i] = b[i]
  BY <1>0, Between
<1>2. /\ JSONText(a) \in Seq(Letters) /\ Len(JSONText(a)) = n
      /\ \A i \in 1 .. n : JSONText(a)[i] = IF Bad(a, i) THEN "r" ELSE a[i]
      /\ JSONText(b) \in Seq(Letters) /\ Len(JSONText(b)) = m
      /\ \A i \in 1 .. m : JSONText(b)[i] = IF Bad(b, i) THEN "r" ELSE b[i]
  BY JSONBytes
<1>3. /\ d \in Seq(Letters) /\ Len(d) = n + 1 + m /\ d[n + 1] = "comma"
      /\ \A i \in 1 .. n : d[i] = IF Bad(a, i) THEN "r" ELSE a[i]
      /\ \A i \in 1 .. m : d[n + 1 + i] = IF Bad(b, i) THEN "r" ELSE b[i]
  <2>1. PICK x, y : x = JSONText(a) /\ y = JSONText(b)
    OBVIOUS
  <2>2. x \in Seq(Letters) /\ y \in Seq(Letters) /\ Len(x) = n /\ Len(y) = m
    BY <1>2, <2>1
  <2>3. /\ d \in Seq(Letters) /\ Len(d) = n + 1 + m /\ d[n + 1] = "comma"
        /\ \A i \in 1 .. n : d[i] = x[i]
        /\ \A i \in 1 .. m : d[n + 1 + i] = y[i]
    <3>0. PICK s \in Letters : s = "comma"
      BY <1>0
    <3>1. x \in Seq(Letters) /\ y \in Seq(Letters) /\ d = x \o (<<s>> \o y)
      BY <2>1, <2>2, <3>0
    <3> HIDE DEF d, n, m
    <3>2. /\ d \in Seq(Letters) /\ Len(d) = Len(x) + 1 + Len(y) /\ d[Len(x) + 1] = s
          /\ \A i \in 1 .. Len(x) : d[i] = x[i]
          /\ \A i \in 1 .. Len(y) : d[Len(x) + 1 + i] = y[i]
      BY <3>1, Between
    <3> QED
      BY <2>2, <3>0, <3>2
  <2> QED
    BY <1>2, <2>1, <2>3
<1>4. /\ JSONText(c) \in Seq(Letters) /\ Len(JSONText(c)) = n + 1 + m
      /\ \A i \in 1 .. n + 1 + m : JSONText(c)[i] = IF Bad(c, i) THEN "r" ELSE c[i]
  BY <1>1, JSONBytes
<1> HIDE DEF c, d, n, m
<1>5. ASSUME NEW i \in 1 .. n PROVE Bad(c, i) <=> Bad(a, i)
  <2>1. c[i] = a[i] /\ i < Len(c) /\ n = Len(a)
    BY <1>0, <1>1 DEF n
  <2>2. i > 1 => c[i - 1] = a[i - 1]
    BY <1>0, <1>1
  <2>3. CASE i < n
    <3>1. c[i + 1] = a[i + 1]
      BY <1>0, <1>1, <2>3
    <3> QED
      BY <2>1, <2>2, <2>3, <3>1 DEF Bad
  <2>4. CASE i = n
    <3>1. c[i + 1] = "comma"
      BY <1>1, <2>4
    <3> QED
      BY <2>1, <2>2, <2>4, <3>1 DEF Bad
  <2> QED
    BY <1>0, <2>3, <2>4
<1>6. ASSUME NEW i \in 1 .. m PROVE Bad(c, n + 1 + i) <=> Bad(b, i)
  <2>1. c[n + 1 + i] = b[i] /\ m = Len(b) /\ n + 1 + i > 1
    BY <1>0, <1>1 DEF m
  <2>2. i < m <=> n + 1 + i < Len(c)
    BY <1>0, <1>1
  <2>3. i < m => c[(n + 1 + i) + 1] = b[i + 1]
    <3>1. i < m => i + 1 \in 1 .. m /\ n + 1 + (i + 1) = (n + 1 + i) + 1
      BY <1>0
    <3> QED
      BY <1>1, <3>1
  <2>4. i > 1 => c[(n + 1 + i) - 1] = b[i - 1]
    <3>1. i > 1 => i - 1 \in 1 .. m /\ n + 1 + (i - 1) = (n + 1 + i) - 1
      BY <1>0
    <3> QED
      BY <1>1, <3>1
  <2>5. ~(i > 1) => c[(n + 1 + i) - 1] = "comma"
    <3>1. ~(i > 1) => (n + 1 + i) - 1 = n + 1
      BY <1>0
    <3> QED
      BY <1>1, <3>1
  <2> QED
    BY <2>1, <2>2, <2>3, <2>4, <2>5 DEF Bad
<1>7. ASSUME NEW i \in 1 .. n + 1 + m PROVE JSONText(c)[i] = d[i]
  <2>1. CASE i \in 1 .. n
    BY <1>0, <1>1, <1>3, <1>4, <1>5, <2>1
  <2>2. CASE i = n + 1
    <3>1. ~Bad(c, i)
      BY <1>1, <2>2 DEF Bad
    <3> QED
      BY <1>1, <1>3, <1>4, <2>2, <3>1
  <2>3. CASE i > n + 1
    <3>1. PICK j \in 1 .. m : i = n + 1 + j
      <4>1. i - (n + 1) \in 1 .. m /\ i = n + 1 + (i - (n + 1))
        BY <1>0, <2>3
      <4> QED
        BY <4>1
    <3> QED
      BY <1>1, <1>3, <1>4, <1>6, <3>1
  <2> QED
    BY <1>0, <2>1, <2>2, <2>3
<1>8. JSONText(c) = d
  BY <1>3, <1>4, <1>7, SeqEqual
<1> QED
  BY <1>8 DEF c, d

\* The pieces strings.Join puts one after the other.
Joined(h) == [i \in 1 .. Len(h) |-> IF i = 1 THEN h[i] ELSE <<"comma">> \o h[i]]

\* A flattened header is its pieces, one after the other.
LEMMA JoinedPieces ==
    ASSUME NEW h \in Seq(Seq(Letters))
    PROVE  /\ FlattenHeader(h) = FlattenSeq(Joined(h)) /\ FlattenHeader(h) \in Seq(Letters)
           /\ Joined(h) \in Seq(Seq(Letters)) /\ Len(Joined(h)) = Len(h)
<1>1. FlattenHeader(h) = FlattenSeq(Joined(h))
  BY Zenon DEF FlattenHeader, Joined
<1>2. Len(h) \in Nat
  OBVIOUS
<1>3. ASSUME NEW i \in 1 .. Len(h)
      PROVE  (IF i = 1 THEN h[i] ELSE <<"comma">> \o h[i]) \in Seq(Letters)
  <2>1. h[i] \in Seq(Letters) /\ "comma" \in Letters
    BY DEF Letters
  <2>2. <<"comma">> \in Seq(Letters)
    BY <2>1
  <2>3. <<"comma">> \o h[i] \in Seq(Letters)
    BY <2>1, <2>2, ConcatProperties
  <2> QED
    BY <2>1, <2>3
<1>4. Joined(h) \in [1 .. Len(h) -> Seq(Letters)]
  BY <1>3 DEF Joined
<1>5. Joined(h) \in Seq(Seq(Letters)) /\ Len(Joined(h)) = Len(h)
  BY <1>2, <1>4
<1>6. FlattenSeq(Joined(h)) \in Seq(Letters)
  BY <1>5, FlattenType
<1> QED
  BY <1>1, <1>5, <1>6

\* A header without values is flattened to nothing.
LEMMA HeaderEmpty == FlattenHeader(<<>>) = <<>>
<1>1. Joined(<<>>) = <<>>
  BY DEF Joined
<1> QED
  BY <1>1, FlattenEmpty, Zenon DEF FlattenHeader, Joined

\* A header with one value is flattened to it.
LEMMA HeaderOne ==
    ASSUME NEW w \in Seq(Letters)
    PROVE  FlattenHeader(<<w>>) = w
<1>1. Joined(<<w>>) = <<w>>
  BY DEF Joined
<1>2. FlattenHeader(<<w>>) = FlattenSeq(<<w>>)
  BY <1>1, Zenon DEF FlattenHeader, Joined
<1> QED
  BY <1>2, FlattenOne

\* One more value comes behind a comma.
LEMMA HeaderMore ==
    ASSUME NEW h \in Seq(Seq(Letters)), NEW g \in Seq(Seq(Letters)), Len(g) # 0,
           Len(h) = Len(g) + 1, Agree(h, g, Len(g))
    PROVE  FlattenHeader(h) = FlattenHeader(g) \o (<<"comma">> \o h[Len(h)])
<1>0. Len(g) \in Nat /\ Len(h) \in 1 .. Len(h) /\ Len(h) # 1
  OBVIOUS
<1>1. Agree(Joined(h), Joined(g), Len(g))
  BY <1>0 DEF Agree, Joined
<1>2. Joined(h)[Len(h)] = <<"comma">> \o h[Len(h)]
  BY <1>0 DEF Joined
<1>3. /\ Joined(h) \in Seq(Seq(Letters)) /\ Len(Joined(h)) = Len(h)
      /\ Joined(g) \in Seq(Seq(Letters)) /\ Len(Joined(g)) = Len(g)
      /\ FlattenHeader(h) = FlattenSeq(Joined(h)) /\ FlattenHeader(g) = FlattenSeq(Joined(g))
  BY JoinedPieces
<1>4. PICK p, q : p = Joined(g) /\ q = Joined(h)
  OBVIOUS
<1>5. /\ p \in Seq(Seq(Letters)) /\ q \in Seq(Seq(Letters)) /\ Len(q) = Len(p) + 1
      /\ Agree(q, p, Len(p))
  BY <1>1, <1>3, <1>4
<1>6. FlattenSeq(q) = FlattenSeq(p) \o q[Len(q)]
  BY <1>5, FlattenMore
<1> QED
  BY <1>2, <1>3, <1>4, <1>6

(***************************************************************************)
(* marshalHeader encodes each value by itself; the detail, which encodes   *)
(* the joined values, is the same whether they have been through it.       *)
(***************************************************************************)
LEMMA HeaderTwice ==
    ASSUME NEW h \in Seq(Seq(Letters))
    PROVE  JSONText(FlattenHeader([i \in 1 .. Len(h) |-> JSONText(h[i])]))
              = JSONText(FlattenHeader(h))
<1> DEFINE J(g) == [i \in 1 .. Len(g) |-> JSONText(g[i])]
           Same(g) == JSONText(FlattenHeader(J(g))) = JSONText(FlattenHeader(g))
           T == {n \in Nat : \A g \in Seq(Seq(Letters)) : Len(g) = n => Same(g)}
<1>1. ASSUME NEW g \in Seq(Seq(Letters))
      PROVE  /\ J(g) \in Seq(Seq(Letters)) /\ Len(J(g)) = Len(g) /\ Len(g) \in Nat
             /\ \A i \in 1 .. Len(g) : J(g)[i] = JSONText(g[i])
  <2>1. ASSUME NEW i \in 1 .. Len(g) PROVE JSONText(g[i]) \in Seq(Letters)
    <3>1. g[i] \in Seq(Letters)
      OBVIOUS
    <3> QED
      BY <3>1, JSONBytes
  <2>2. Len(g) \in Nat
    OBVIOUS
  <2>3. J(g) \in [1 .. Len(g) -> Seq(Letters)]
    BY <2>1
  <2>4. J(g) \in Seq(Seq(Letters)) /\ Len(J(g)) = Len(g)
    <3> HIDE DEF J
    <3> QED
      BY <2>2, <2>3, TableSeq
  <2> QED
    BY <2>2, <2>4
<1> HIDE DEF J
<1>2. 0 \in T
  <2> SUFFICES ASSUME NEW g \in Seq(Seq(Letters)), Len(g) = 0 PROVE Same(g)
    BY DEF T
  <2>1. PICK f : f = J(g)
    OBVIOUS
  <2>2. f \in Seq(Seq(Letters)) /\ Len(f) = 0
    BY <1>1, <2>1
  <2>3. f = g
    BY <2>2, EmptySeq
  <2> QED
    BY <2>1, <2>3
<1>3. ASSUME NEW n \in Nat, n \in T PROVE n + 1 \in T
  <2> SUFFICES ASSUME NEW g \in Seq(Seq(Letters)), Len(g) = n + 1 PROVE Same(g)
    BY DEF T
  <2>1. /\ J(g) \in Seq(Seq(Letters)) /\ Len(J(g)) = n + 1
        /\ \A i \in 1 .. n + 1 : J(g)[i] = JSONText(g[i])
    BY <1>1
  <2>2. CASE n = 0
    <3>1. g[1] \in Seq(Letters) /\ JSONText(g[1]) \in Seq(Letters)
      BY <2>2, JSONBytes
    <3>2. g = <<g[1]>> /\ J(g) = <<JSONText(g[1])>>
      BY <2>1, <2>2, <3>1
    <3>3. FlattenHeader(g) = g[1] /\ FlattenHeader(J(g)) = JSONText(g[1])
      BY <3>1, <3>2, HeaderOne
    <3> QED
      BY <3>1, <3>3, JSONTwice
  <2>3. CASE n # 0
    <3> DEFINE f == SubSeq(g, 1, n)
               x == g[n + 1]
    <3>1. f \in Seq(Seq(Letters)) /\ Len(f) = n /\ \A i \in 1 .. n : f[i] = g[i]
      OBVIOUS
    <3>2. x \in Seq(Letters) /\ JSONText(x) \in Seq(Letters)
      BY JSONBytes
    <3> HIDE DEF f, x
    <3>3. /\ J(f) \in Seq(Seq(Letters)) /\ Len(J(f)) = n
          /\ \A i \in 1 .. n : J(f)[i] = JSONText(f[i])
      BY <1>1, <3>1
    <3>4. Agree(g, f, n) /\ Agree(J(g), J(f), n)
      BY <2>1, <3>1, <3>3 DEF Agree
    <3>5. FlattenHeader(g) = FlattenHeader(f) \o (<<"comma">> \o x)
      BY <2>3, <3>1, <3>4, HeaderMore DEF x
    <3>6. J(g)[n + 1] = JSONText(x)
      BY <2>1 DEF x
    <3>7. FlattenHeader(J(g)) = FlattenHeader(J(f)) \o (<<"comma">> \o JSONText(x))
      <4>1. PICK p, q : p = J(g) /\ q = J(f)
        OBVIOUS
      <4>2. p \in Seq(Seq(Letters)) /\ q \in Seq(Seq(Letters)) /\ Len(q) # 0
            /\ Len(p) = Len(q) + 1 /\ Agree(p, q, Len(q)) /\ p[Len(p)] = JSONText(x)
        BY <2>1, <2>3, <3>3, <3>4, <3>6, <4>1
      <4>3. FlattenHeader(p) = FlattenHeader(q) \o (<<"comma">> \o p[Len(p)])
        BY <4>2, HeaderMore
      <4> QED
        BY <4>1, <4>2, <4>3
    <3>8. PICK u, v : u = FlattenHeader(f) /\ v = FlattenHeader(J(f))
      OBVIOUS
    <3>9. u \in Seq(Letters) /\ v \in Seq(Letters)
      BY <3>1, <3>3, <3>8, JoinedPieces
    <3>10. JSONText(u) = JSONText(v)
      BY <1>3, <3>1, <3>8 DEF T
    <3>11. JSONText(u \o (<<"comma">> \o x)) = JSONText(u) \o (<<"comma">> \o JSONText(x))
      BY <3>2, <3>9, JSONJoin
    <3>12. JSONText(v \o (<<"comma">> \o JSONText(x)))
             = JSONText(v) \o (<<"comma">> \o JSONText(JSONText(x)))
      BY <3>2, <3>9, JSONJoin
    <3>13. JSONText(JSONText(x)) = JSONText(x)
      BY <3>2, JSONTwice
    <3> QED
      BY <3>5, <3>7, <3>8, <3>10, <3>11, <3>12, <3>13
  <2> QED
    BY <2>2, <2>3
<1> HIDE DEF T
<1>4. \A n \in Nat : n \in T
  BY <1>2, <1>3, Naturals0
<1>5. Len(h) \in Nat
  OBVIOUS
<1>6. Same(h)
  BY <1>4, <1>5 DEF T
<1> QED
  BY <1>6 DEF J

-------------------------------------------------------------------------------
(***************************************************************************)
(* An entry that went through its row.                                     *)
(***************************************************************************)
\* A millisecond is the millisecond of its first instant.
LEMMA MilliExact ==
    ASSUME NEW k \in Nat
    PROVE  UnixMilli(FromMilli(k)) = k /\ FromMilli(k) \in Nat
<1>1. PICK n \in Nat \ {0} : n = Tick
  BY ListingAssumption
<1>2. (k * n) \div n = k /\ k * n \in Nat
  OBVIOUS
<1> QED
  BY <1>1, <1>2 DEF UnixMilli, FromMilli

\* A millisecond is a natural number.
LEMMA MilliType ==
    ASSUME NEW t \in Nat
    PROVE  UnixMilli(t) \in Nat
<1>1. PICK n \in Nat \ {0} : n = Tick
  BY ListingAssumption
<1>2. t \div n \in Nat
  OBVIOUS
<1> QED
  BY <1>1, <1>2 DEF UnixMilli

\* The fields of an entry.
EntryFields ==
    {"status", "code", "error", "at", "finished", "ttfb", "stream", "total", "ollama", "replay",
     "side"}

\* A side of an entry, with headers and a body of any letters.
IsSide(b) ==
    /\ b.format \in Seq(Letters) /\ b.headers \in Seq(Seq(Letters))
    /\ b.body \in Seq(Letters) /\ b.path \in BOOLEAN

\* An entry as the proxy can have left it.
IsEntry(e) ==
    /\ IsRec(e, EntryFields)
    /\ e.code \in Nat /\ e.error \in Seq(Letters) /\ e.at \in Nat
    /\ e.finished \in Nat \cup {Null}
    /\ \A s \in Sides : IsSide(e.side[s])

\* The columns of the row.
Columns(b) ==
    [format  |-> NullString(b.format), headers |-> MarshalHeader(b.headers),
     body    |-> BlobColumn(b.body, b.path), path |-> b.path, size |-> b.size]

\* The row sqlDB.insert writes, column by column.
LEMMA Inserted ==
    ASSUME NEW e, IsRec(e, EntryFields), NEW r, r = InsertRow(e)
    PROVE  /\ IsRec(r, EntryFields)
           /\ r["code"] = NullZero(e.code) /\ r["error"] = NullString(e.error)
           /\ r["at"] = UnixMilli(e.at) /\ r["finished"] = NullTime(e.finished)
           /\ r["side"] = [s \in Sides |-> Columns(e.side[s])]
           /\ \A f \in {"status", "ttfb", "stream", "total", "ollama", "replay"} : r[f] = e[f]
<1> DEFINE F == EntryFields
           side == [s \in Sides |-> Columns(e.side[s])]
<1>1. PICK r1 : r1 = With(e, "code", NullZero(e.code))
  OBVIOUS
<1>2. PICK r2 : r2 = With(r1, "error", NullString(e.error))
  OBVIOUS
<1>3. PICK r3 : r3 = With(r2, "at", UnixMilli(e.at))
  OBVIOUS
<1>4. PICK r4 : r4 = With(r3, "finished", NullTime(e.finished))
  OBVIOUS
<1>5. PICK r5 : r5 = With(r4, "ttfb", e.ttfb)
  OBVIOUS
<1>6. PICK r6 : r6 = With(r5, "stream", e.stream)
  OBVIOUS
<1>7. PICK r7 : r7 = With(r6, "total", e.total)
  OBVIOUS
<1>8. PICK r8 : r8 = With(r7, "side", side)
  OBVIOUS
<1>9. r = r8
  <2>1. r = With(With(With(With(With(With(With(With(e, "code", NullZero(e.code)),
                "error", NullString(e.error)), "at", UnixMilli(e.at)),
                "finished", NullTime(e.finished)), "ttfb", e.ttfb), "stream", e.stream),
                "total", e.total), "side", side)
    BY Zenon DEF InsertRow, With, NullInt64, Columns
  <2> QED
    BY <1>1, <1>2, <1>3, <1>4, <1>5, <1>6, <1>7, <1>8, <2>1, Zenon
<1>10. {"code", "error", "at", "finished", "ttfb", "stream", "total", "side"} \subseteq F
  BY DEF EntryFields
<1>11. IsRec(r1, F) /\ r1["code"] = NullZero(e.code) /\ \A f \in F \ {"code"} : r1[f] = e[f]
  BY <1>1, <1>10, WithOne
<1>12. IsRec(r2, F) /\ r2["error"] = NullString(e.error) /\ \A f \in F \ {"error"} : r2[f] = r1[f]
  BY <1>2, <1>10, <1>11, WithOne
<1>13. IsRec(r3, F) /\ r3["at"] = UnixMilli(e.at) /\ \A f \in F \ {"at"} : r3[f] = r2[f]
  BY <1>3, <1>10, <1>12, WithOne
<1>14. IsRec(r4, F) /\ r4["finished"] = NullTime(e.finished)
       /\ \A f \in F \ {"finished"} : r4[f] = r3[f]
  BY <1>4, <1>10, <1>13, WithOne
<1>15. IsRec(r5, F) /\ r5["ttfb"] = e.ttfb /\ \A f \in F \ {"ttfb"} : r5[f] = r4[f]
  BY <1>5, <1>10, <1>14, WithOne
<1>16. IsRec(r6, F) /\ r6["stream"] = e.stream /\ \A f \in F \ {"stream"} : r6[f] = r5[f]
  BY <1>6, <1>10, <1>15, WithOne
<1>17. IsRec(r7, F) /\ r7["total"] = e.total /\ \A f \in F \ {"total"} : r7[f] = r6[f]
  BY <1>7, <1>10, <1>16, WithOne
<1>18. IsRec(r8, F) /\ r8["side"] = side /\ \A f \in F \ {"side"} : r8[f] = r7[f]
  BY <1>8, <1>10, <1>17, WithOne
<1> HIDE DEF side
<1> QED
  BY <1>9, <1>11, <1>12, <1>13, <1>14, <1>15, <1>16, <1>17, <1>18 DEF EntryFields, side

\* What scanEntry makes of the columns of a side.
Fetched(c) ==
    [format  |-> IF c.format = Null THEN <<>> ELSE c.format,
     headers |-> UnmarshalHeader(c.headers),
     body    |-> IF c.body = Null THEN <<>> ELSE c.body, path |-> c.path, size |-> c.size]

\* The entry scanEntry makes of a row, field by field.
LEMMA ScannedRow ==
    ASSUME NEW r, IsRec(r, EntryFields), NEW x, x = ScanEntry(r)
    PROVE  /\ IsRec(x, EntryFields)
           /\ x["code"] = (IF r.code = Null THEN 0 ELSE r.code)
           /\ x["error"] = (IF r.error = Null THEN <<>> ELSE r.error)
           /\ x["at"] = FromMilli(r.at)
           /\ x["finished"] = (IF r.finished = Null THEN Null ELSE FromMilli(r.finished))
           /\ x["side"] = [s \in Sides |-> Fetched(r.side[s])]
           /\ \A f \in {"status", "ttfb", "stream", "total", "ollama", "replay"} : x[f] = r[f]
<1> DEFINE F == EntryFields
           side == [s \in Sides |-> Fetched(r.side[s])]
           code == IF r.code = Null THEN 0 ELSE r.code
           error == IF r.error = Null THEN <<>> ELSE r.error
           finished == IF r.finished = Null THEN Null ELSE FromMilli(r.finished)
<1>1. PICK r1 : r1 = With(r, "code", code)
  OBVIOUS
<1>2. PICK r2 : r2 = With(r1, "error", error)
  OBVIOUS
<1>3. PICK r3 : r3 = With(r2, "at", FromMilli(r.at))
  OBVIOUS
<1>4. PICK r4 : r4 = With(r3, "finished", finished)
  OBVIOUS
<1>5. PICK r5 : r5 = With(r4, "side", side)
  OBVIOUS
<1>6. x = r5
  <2>1. x = With(With(With(With(With(r, "code", code), "error", error), "at", FromMilli(r.at)),
                 "finished", finished), "side", side)
    BY Zenon DEF ScanEntry, With, Fetched
  <2> QED
    BY <1>1, <1>2, <1>3, <1>4, <1>5, <2>1, Zenon
<1>7. {"code", "error", "at", "finished", "side"} \subseteq F
  BY DEF EntryFields
<1> HIDE DEF code, error, finished, side
<1>8. IsRec(r1, F) /\ r1["code"] = code /\ \A f \in F \ {"code"} : r1[f] = r[f]
  BY <1>1, <1>7, WithOne
<1>9. IsRec(r2, F) /\ r2["error"] = error /\ \A f \in F \ {"error"} : r2[f] = r1[f]
  BY <1>2, <1>7, <1>8, WithOne
<1>10. IsRec(r3, F) /\ r3["at"] = FromMilli(r.at) /\ \A f \in F \ {"at"} : r3[f] = r2[f]
  BY <1>3, <1>7, <1>9, WithOne
<1>11. IsRec(r4, F) /\ r4["finished"] = finished /\ \A f \in F \ {"finished"} : r4[f] = r3[f]
  BY <1>4, <1>7, <1>10, WithOne
<1>12. IsRec(r5, F) /\ r5["side"] = side /\ \A f \in F \ {"side"} : r5[f] = r4[f]
  BY <1>5, <1>7, <1>11, WithOne
<1>13. /\ x["code"] = code /\ x["error"] = error /\ x["at"] = FromMilli(r.at)
       /\ x["finished"] = finished /\ x["side"] = side
       /\ \A f \in {"status", "ttfb", "stream", "total", "ollama", "replay"} : x[f] = r[f]
  BY <1>6, <1>8, <1>9, <1>10, <1>11, <1>12 DEF EntryFields
<1> QED
  BY <1>6, <1>12, <1>13 DEF code, error, finished, side

\* A side that went through its columns.
LEMMA SideBack ==
    ASSUME NEW b, IsSide(b), NEW y, y = Fetched(Columns(b))
    PROVE  /\ y.format = b.format /\ y.path = b.path /\ y.size = b.size
           /\ y.body = (IF b.path THEN <<>> ELSE b.body)
           /\ JSONText(FlattenHeader(y.headers)) = JSONText(FlattenHeader(b.headers))
<1>1. PICK c : c = Columns(b)
  OBVIOUS
<1>2. /\ c.format = NullString(b.format) /\ c.headers = MarshalHeader(b.headers)
      /\ c.body = BlobColumn(b.body, b.path) /\ c.path = b.path /\ c.size = b.size
  BY <1>1 DEF Columns
<1>3. /\ y.format = (IF c.format = Null THEN <<>> ELSE c.format)
      /\ y.headers = UnmarshalHeader(c.headers)
      /\ y.body = (IF c.body = Null THEN <<>> ELSE c.body)
      /\ y.path = c.path /\ y.size = c.size
  BY <1>1 DEF Fetched
<1>4. Null \notin Seq(Letters) /\ Null \notin Seq(Seq(Letters))
  BY PayloadsAssumption
<1>5. /\ b.format \in Seq(Letters) /\ b.headers \in Seq(Seq(Letters))
      /\ b.body \in Seq(Letters) /\ b.path \in BOOLEAN
  BY DEF IsSide
<1>6. y.format = b.format
  BY <1>2, <1>3, <1>4, <1>5 DEF NullString
<1>7. y.body = (IF b.path THEN <<>> ELSE b.body)
  BY <1>2, <1>3, <1>4, <1>5 DEF BlobColumn
<1>8. JSONText(FlattenHeader(y.headers)) = JSONText(FlattenHeader(b.headers))
  <2>1. PICK h \in Seq(Seq(Letters)) : h = b.headers
    BY <1>5
  <2> DEFINE J == [i \in 1 .. Len(h) |-> JSONText(h[i])]
  <2>2. CASE h = <<>>
    <3>1. y.headers = <<>>
      BY <1>2, <1>3, <2>1, <2>2 DEF MarshalHeader, UnmarshalHeader
    <3> QED
      BY <2>1, <2>2, <3>1
  <2>3. CASE h # <<>>
    <3>1. c.headers = J
      BY <1>2, <2>1, <2>3 DEF MarshalHeader
    <3>2. J \in [1 .. Len(h) -> Seq(Letters)] /\ Len(h) \in Nat
      <4>1. ASSUME NEW i \in 1 .. Len(h) PROVE JSONText(h[i]) \in Seq(Letters)
        <5>1. h[i] \in Seq(Letters)
          OBVIOUS
        <5> QED
          BY <5>1, JSONBytes
      <4> QED
        BY <4>1
    <3>3. JSONText(FlattenHeader(J)) = JSONText(FlattenHeader(h))
      BY HeaderTwice
    <3> HIDE DEF J
    <3>4. J \in Seq(Seq(Letters))
      BY <3>2, TableSeq
    <3>5. y.headers = J
      BY <1>3, <1>4, <3>1, <3>4 DEF UnmarshalHeader
    <3> QED
      BY <2>1, <3>3, <3>5
  <2> QED
    BY <2>2, <2>3
<1> QED
  BY <1>2, <1>3, <1>6, <1>7, <1>8

\* An entry that went through its row.
LEMMA EntryBack ==
    ASSUME NEW e, IsEntry(e), NEW x, x = ScanEntry(InsertRow(e))
    PROVE  /\ x.status = e.status /\ x.code = e.code /\ x.error = e.error
           /\ UnixMilli(x.at) = UnixMilli(e.at) /\ NullTime(x.finished) = NullTime(e.finished)
           /\ x.ttfb = e.ttfb /\ x.stream = e.stream /\ x.total = e.total
           /\ x.ollama = e.ollama /\ x.replay = e.replay
           /\ \A s \in Sides : x.side[s] = Fetched(Columns(e.side[s]))
<1>1. PICK r : r = InsertRow(e)
  OBVIOUS
<1>2. IsRec(e, EntryFields) /\ e.code \in Nat /\ e.error \in Seq(Letters) /\ e.at \in Nat
      /\ e.finished \in Nat \cup {Null}
  BY DEF IsEntry
<1>3. /\ IsRec(r, EntryFields)
      /\ r["code"] = NullZero(e.code) /\ r["error"] = NullString(e.error)
      /\ r["at"] = UnixMilli(e.at) /\ r["finished"] = NullTime(e.finished)
      /\ r["side"] = [s \in Sides |-> Columns(e.side[s])]
      /\ \A f \in {"status", "ttfb", "stream", "total", "ollama", "replay"} : r[f] = e[f]
  BY <1>1, <1>2, Inserted
<1>4. /\ x["code"] = (IF r.code = Null THEN 0 ELSE r.code)
      /\ x["error"] = (IF r.error = Null THEN <<>> ELSE r.error)
      /\ x["at"] = FromMilli(r.at)
      /\ x["finished"] = (IF r.finished = Null THEN Null ELSE FromMilli(r.finished))
      /\ x["side"] = [s \in Sides |-> Fetched(r.side[s])]
      /\ \A f \in {"status", "ttfb", "stream", "total", "ollama", "replay"} : x[f] = r[f]
  BY <1>1, <1>3, ScannedRow
<1>5. Null \notin Nat /\ Null \notin Seq(Letters)
  BY PayloadsAssumption
<1>6. x.code = e.code
  <2>1. r.code = IF e.code = 0 THEN Null ELSE e.code
    BY <1>3 DEF NullZero
  <2> QED
    BY <1>2, <1>4, <1>5, <2>1
<1>7. x.error = e.error
  BY <1>2, <1>3, <1>4, <1>5 DEF NullString
<1>8. UnixMilli(x.at) = UnixMilli(e.at)
  <2>1. UnixMilli(e.at) \in Nat
    BY <1>2, MilliType
  <2>2. UnixMilli(FromMilli(UnixMilli(e.at))) = UnixMilli(e.at)
    BY <2>1, MilliExact
  <2> QED
    BY <1>3, <1>4, <2>2
<1>9. NullTime(x.finished) = NullTime(e.finished)
  <2>1. CASE e.finished = Null
    BY <1>3, <1>4, <2>1 DEF NullTime
  <2>2. CASE e.finished # Null
    <3>1. PICK k \in Nat : k = UnixMilli(e.finished)
      BY <1>2, <2>2, MilliType
    <3>2. UnixMilli(FromMilli(k)) = k /\ FromMilli(k) \in Nat
      BY MilliExact
    <3>3. NullTime(e.finished) = k
      BY <2>2, <3>1 DEF NullTime
    <3>4. x.finished = FromMilli(k)
      BY <1>3, <1>4, <1>5, <3>3
    <3> QED
      BY <1>5, <3>2, <3>3, <3>4 DEF NullTime
  <2> QED
    BY <2>1, <2>2
<1>10. \A s \in Sides : x.side[s] = Fetched(Columns(e.side[s]))
  BY <1>3, <1>4
<1> QED
  BY <1>3, <1>4, <1>6, <1>7, <1>8, <1>9, <1>10

(***************************************************************************)
(* getRequest answers the same of an entry as of its row (sqlDB.insert,    *)
(* scanEntry), with the exceptions SameDetail names, for headers and       *)
(* bodies of any length.                                                   *)
(***************************************************************************)
THEOREM DetailAny ==
    ASSUME NEW e, IsEntry(e)
    PROVE  SameDetail(e)
<1>1. PICK x : x = ScanEntry(InsertRow(e))
  OBVIOUS
<1>2. /\ x.status = e.status /\ x.code = e.code /\ x.error = e.error
      /\ UnixMilli(x.at) = UnixMilli(e.at) /\ NullTime(x.finished) = NullTime(e.finished)
      /\ x.ttfb = e.ttfb /\ x.stream = e.stream /\ x.total = e.total
      /\ x.ollama = e.ollama /\ x.replay = e.replay
      /\ \A s \in Sides : x.side[s] = Fetched(Columns(e.side[s]))
  BY <1>1, EntryBack
<1>3. ASSUME NEW s \in Sides
      PROVE  /\ x.side[s].format = e.side[s].format /\ x.side[s].path = e.side[s].path
             /\ x.side[s].size = e.side[s].size
             /\ x.side[s].body = (IF e.side[s].path THEN <<>> ELSE e.side[s].body)
             /\ JSONText(FlattenHeader(x.side[s].headers))
                  = JSONText(FlattenHeader(e.side[s].headers))
             /\ e.side[s].path \in BOOLEAN
  <2>1. PICK b, y : b = e.side[s] /\ y = x.side[s]
    OBVIOUS
  <2>2. IsSide(b) /\ y = Fetched(Columns(b))
    BY <1>2, <2>1 DEF IsEntry
  <2>3. b.path \in BOOLEAN
    BY <2>2 DEF IsSide
  <2> QED
    BY <2>1, <2>2, <2>3, SideBack
<1>4. PICK m, d : m = NewDetail(e) /\ d = NewDetail(x)
  OBVIOUS
<1>5. NewListRow(x) = NewListRow(e)
  <2>1. [s \in Sides |-> x.side[s].format] = [s \in Sides |-> e.side[s].format]
    BY <1>3
  <2> QED
    BY <1>2, <2>1 DEF NewListRow
<1>6. m.row = d.row
  BY <1>4, <1>5 DEF NewDetail
<1>7. m.finished = d.finished
  BY <1>2, <1>4 DEF NewDetail
<1>8. m.headers = d.headers
  <2>1. [s \in Sides |-> JSONText(FlattenHeader(x.side[s].headers))]
          = [s \in Sides |-> JSONText(FlattenHeader(e.side[s].headers))]
    BY <1>3
  <2> QED
    BY <1>4, <2>1 DEF NewDetail
<1>9. ASSUME NEW s \in Sides
      PROVE  m.payload[s] = NewBodyPayload(e.side[s]) /\ d.payload[s] = NewBodyPayload(x.side[s])
  BY <1>4 DEF NewDetail
<1>10. ASSUME NEW s \in Sides, e.side[s].path
       PROVE  /\ d.payload[s].body = <<>> /\ ~d.payload[s].binary
              /\ d.payload[s].truncated /\ d.payload[s].size = m.payload[s].size
  <2>1. x.side[s].body = <<>> /\ x.side[s].path = TRUE /\ x.side[s].size = e.side[s].size
    BY <1>3, <1>10
  <2>2. Valid(<<>>)
    BY DEF Valid
  <2>3. PICK y, p : y = x.side[s] /\ p = NewBodyPayload(y)
    OBVIOUS
  <2>4. p.size = y.size /\ p.body = <<>>
    BY <2>1, <2>2, <2>3 DEF NewBodyPayload
  <2>5. ~p.binary
    <3>1. p.binary = ~Valid(y.body)
      BY <2>3, Zenon DEF NewBodyPayload
    <3>2. Valid(y.body)
      BY <2>1, <2>2, <2>3
    <3> QED
      BY <3>1, <3>2, Zenon
  <2>6. p.truncated
    <3>1. p.truncated = y.path
      BY <2>3, Zenon DEF NewBodyPayload
    <3>2. y.path = TRUE
      BY <2>1, <2>3
    <3> QED
      BY <3>1, <3>2, Zenon
  <2>7. m.payload[s].size = e.side[s].size
    <3>1. PICK b, q : b = e.side[s] /\ q = NewBodyPayload(b)
      OBVIOUS
    <3>2. q.size = b.size
      BY <3>1, Zenon DEF NewBodyPayload
    <3> QED
      BY <1>9, <3>1, <3>2
  <2> QED
    BY <1>9, <2>1, <2>3, <2>4, <2>5, <2>6, <2>7
<1>11. ASSUME NEW s \in Sides, ~e.side[s].path
       PROVE  d.payload[s] = m.payload[s]
  <2>1. /\ x.side[s].body = e.side[s].body /\ x.side[s].path = e.side[s].path
        /\ x.side[s].size = e.side[s].size /\ x.side[s].format = e.side[s].format
    BY <1>3, <1>11
  <2> QED
    BY <1>9, <2>1 DEF NewBodyPayload
<1>12. ~e.side["response"].path => m.ollama = d.ollama
  <2>1. "response" \in Sides
    BY DEF Sides
  <2>2. SUFFICES ASSUME ~e.side["response"].path PROVE m.ollama = d.ollama
    OBVIOUS
  <2>3. /\ x.side["response"].body = e.side["response"].body
        /\ x.side["response"].format = e.side["response"].format
    BY <1>3, <2>1, <2>2
  <2> QED
    BY <1>2, <1>4, <2>3 DEF NewDetail
<1> QED
  BY <1>1, <1>4, <1>6, <1>7, <1>8, <1>10, <1>11, <1>12 DEF SameDetail

-------------------------------------------------------------------------------
(***************************************************************************)
(* The path that is relayed.                                               *)
(***************************************************************************)
\* What a path is made of.
PathLetters == {"/", "api", "gen", "%2F"}

\* Decoding a path, element by element.
LEMMA DecodedPath ==
    ASSUME NEW q \in Seq(PathLetters)
    PROVE  /\ Decoded(q) \in Seq(PathLetters) /\ Len(Decoded(q)) = Len(q)
           /\ \A i \in 1 .. Len(q) : Decoded(q)[i] = IF q[i] = "%2F" THEN "/" ELSE q[i]
           /\ ~Contains(q, "%2F") => Decoded(q) = q
<1>1. Len(q) \in Nat /\ "/" \in PathLetters
  BY DEF PathLetters
<1>2. Decoded(q) \in [1 .. Len(q) -> PathLetters]
  BY <1>1 DEF Decoded
<1>3. Decoded(q) \in Seq(PathLetters) /\ Len(Decoded(q)) = Len(q)
  BY <1>1, <1>2, TableSeq
<1>4. \A i \in 1 .. Len(q) : Decoded(q)[i] = IF q[i] = "%2F" THEN "/" ELSE q[i]
  BY DEF Decoded
<1>5. ASSUME ~Contains(q, "%2F") PROVE Decoded(q) = q
  <2>1. \A i \in 1 .. Len(Decoded(q)) : Decoded(q)[i] = q[i]
    BY <1>3, <1>4, <1>5 DEF Contains
  <2> QED
    BY <1>3, <2>1, SeqEqual
<1> QED
  BY <1>3, <1>4, <1>5

\* The base without its trailing slash.
LEMMA TrimmedEnd ==
    ASSUME NEW b \in Seq(PathLetters), b \notin {<<>>, <<"/">>}, NEW t, t = TrimSlashEnd(b)
    PROVE  /\ t \in Seq(PathLetters) /\ Len(t) \in 1 .. Len(b) /\ Agree(t, b, Len(t))
           /\ Len(t) = Len(b) \/ (Len(b) = Len(t) + 1 /\ b[Len(b)] = "/")
           /\ ~Doubled(b) => t[Len(t)] # "/"
<1>1. Len(b) \in Nat \ {0}
  BY EmptySeq
<1>2. CASE b[Len(b)] # "/"
  <2>1. t = b
    BY <1>2 DEF TrimSlashEnd, Last
  <2> QED
    BY <1>1, <1>2, <2>1 DEF Agree
<1>3. CASE b[Len(b)] = "/"
  <2>1. t = SubSeq(b, 1, Len(b) - 1)
    BY <1>3 DEF TrimSlashEnd, Last, Front
  <2>2. Len(b) # 1
    <3>1. SUFFICES ASSUME Len(b) = 1 PROVE FALSE
      OBVIOUS
    <3>2. b = <<"/">>
      BY <1>3, <3>1
    <3> QED
      BY <3>2
  <2>3. /\ t \in Seq(PathLetters) /\ Len(t) = Len(b) - 1
        /\ \A i \in 1 .. Len(b) - 1 : t[i] = b[i]
    <3>1. PICK n \in Nat : n = Len(b) - 1 /\ n <= Len(b) /\ t = SubSeq(b, 1, n)
      BY <1>1, <2>1
    <3>2. /\ SubSeq(b, 1, n) \in Seq(PathLetters) /\ Len(SubSeq(b, 1, n)) = n
          /\ \A i \in 1 .. n : SubSeq(b, 1, n)[i] = b[i]
      BY <3>1, SubSeqFirst
    <3> QED
      BY <3>1, <3>2
  <2>4. ASSUME ~Doubled(b) PROVE t[Len(t)] # "/"
    <3>1. Len(b) - 1 \in 1 .. Len(b) - 1 /\ (Len(b) - 1) + 1 = Len(b)
      <4>1. \A n \in Nat : n # 0 /\ n # 1 => n - 1 \in 1 .. n - 1 /\ (n - 1) + 1 = n
        OBVIOUS
      <4> QED
        BY <1>1, <2>2, <4>1
    <3>2. ~(b[Len(b) - 1] = "/" /\ b[(Len(b) - 1) + 1] = "/")
      BY <2>4, <3>1 DEF Doubled
    <3> QED
      BY <1>3, <2>3, <3>1, <3>2
  <2> QED
    BY <1>1, <1>3, <2>2, <2>3, <2>4 DEF Agree
<1> QED
  BY <1>2, <1>3

\* A path without its leading slash.
LEMMA TrimmedStart ==
    ASSUME NEW p \in Seq(PathLetters), p \notin {<<>>, <<"/">>}, p[1] = "/",
           NEW t, t = TrimSlashStart(p)
    PROVE  /\ t \in Seq(PathLetters) /\ Len(t) \in Nat \ {0} /\ Len(p) = Len(t) + 1
           /\ \A i \in 1 .. Len(t) : t[i] = p[i + 1]
           /\ ~Doubled(p) => t[1] # "/"
<1>1. Len(p) \in Nat \ {0}
  BY EmptySeq
<1>2. Len(p) # 1
  <2>1. SUFFICES ASSUME Len(p) = 1 PROVE FALSE
    OBVIOUS
  <2>2. p = <<"/">>
    BY <2>1
  <2> QED
    BY <2>2
<1>3. t = Tail(p)
  BY DEF TrimSlashStart
<1>4. /\ t \in Seq(PathLetters) /\ Len(t) = Len(p) - 1
      /\ \A i \in 1 .. Len(p) - 1 : t[i] = p[i + 1]
  BY <1>1, <1>3
<1>5. ASSUME ~Doubled(p) PROVE t[1] # "/"
  <2>1. 1 \in 1 .. Len(p) - 1
    <3>1. \A n \in Nat : n # 0 /\ n # 1 => 1 \in 1 .. n - 1
      OBVIOUS
    <3> QED
      BY <1>1, <1>2, <3>1
  <2> QED
    BY <1>4, <1>5, <2>1 DEF Doubled
<1> QED
  BY <1>1, <1>2, <1>4, <1>5

\* Two parts of a path with a slash between them.
LEMMA Slashed ==
    ASSUME NEW a \in Seq(PathLetters), NEW b \in Seq(PathLetters), NEW c, c = a \o (<<"/">> \o b)
    PROVE  /\ ~Glued(a) /\ ~Glued(b) => ~Glued(c)
           /\ Len(a) # 0 /\ Len(b) # 0 /\ a[Len(a)] # "/" /\ b[1] # "/" /\ ~Doubled(a) /\ ~Doubled(b)
                => ~Doubled(c)
<1> DEFINE n == Len(a)
           m == Len(b)
<1>0. n \in Nat /\ m \in Nat
  OBVIOUS
<1>1. /\ c \in Seq(PathLetters) /\ Len(c) = n + 1 + m /\ c[n + 1] = "/"
      /\ \A i \in 1 .. n : c[i] = a[i]
      /\ \A i \in 1 .. m : c[n + 1 + i] = b[i]
  <2>1. PICK s \in PathLetters : s = "/"
    BY DEF PathLetters
  <2>2. c = a \o (<<s>> \o b)
    BY <2>1
  <2>3. /\ c \in Seq(PathLetters) /\ Len(c) = Len(a) + 1 + Len(b) /\ c[Len(a) + 1] = s
        /\ \A i \in 1 .. Len(a) : c[i] = a[i]
        /\ \A i \in 1 .. Len(b) : c[Len(a) + 1 + i] = b[i]
    BY <2>2, Between
  <2> QED
    BY <2>1, <2>3
<1> HIDE DEF n, m
\* Two neighbours are both in the first part, both in the second, or one is the slash.
<1>2. ASSUME NEW i \in 1 .. Len(c) - 1
      PROVE  \/ i \in 1 .. n - 1 /\ c[i] = a[i] /\ c[i + 1] = a[i + 1]
             \/ i = n /\ i \in 1 .. n /\ c[i] = a[n] /\ c[i + 1] = "/"
             \/ i = n + 1 /\ 1 \in 1 .. m /\ c[i] = "/" /\ c[i + 1] = b[1]
             \/ \E j \in 1 .. m - 1 : c[i] = b[j] /\ c[i + 1] = b[j + 1]
  <2>1. i \in 1 .. n + m
    BY <1>0, <1>1
  <2>2. CASE i < n
    <3>1. i \in 1 .. n - 1 /\ i \in 1 .. n /\ i + 1 \in 1 .. n
      BY <1>0, <2>1, <2>2
    <3> QED
      BY <1>1, <3>1
  <2>3. CASE i = n
    <3>1. i \in 1 .. n
      BY <1>0, <2>1, <2>3
    <3> QED
      BY <1>1, <2>3, <3>1
  <2>4. CASE i = n + 1
    <3>1. 1 \in 1 .. m /\ i + 1 = n + 1 + 1
      BY <1>0, <2>1, <2>4
    <3> QED
      BY <1>1, <2>4, <3>1
  <2>5. CASE i > n + 1
    <3>1. PICK j \in 1 .. m - 1 : i = n + 1 + j
      <4>1. i - (n + 1) \in 1 .. m - 1 /\ i = n + 1 + (i - (n + 1))
        BY <1>0, <2>1, <2>5
      <4> QED
        BY <4>1
    <3>2. j \in 1 .. m /\ j + 1 \in 1 .. m /\ i + 1 = n + 1 + (j + 1)
      BY <1>0, <3>1
    <3>3. c[i] = b[j] /\ c[i + 1] = b[j + 1]
      BY <1>1, <3>1, <3>2
    <3> QED
      BY <3>3
  <2> QED
    BY <1>0, <2>1, <2>2, <2>3, <2>4, <2>5
<1>3. ASSUME ~Glued(a), ~Glued(b) PROVE ~Glued(c)
  <2>1. SUFFICES ASSUME NEW i \in 1 .. Len(c) - 1 PROVE ~({c[i], c[i + 1]} \subseteq {"api", "gen"})
    BY DEF Glued
  <2>2. /\ \A j \in 1 .. n - 1 : ~({a[j], a[j + 1]} \subseteq {"api", "gen"})
        /\ \A j \in 1 .. m - 1 : ~({b[j], b[j + 1]} \subseteq {"api", "gen"})
    BY <1>3 DEF Glued, n, m
  <2> QED
    BY <1>2, <2>2
<1>4. ASSUME Len(a) # 0, Len(b) # 0, a[Len(a)] # "/", b[1] # "/", ~Doubled(a), ~Doubled(b)
      PROVE  ~Doubled(c)
  <2>1. SUFFICES ASSUME NEW i \in 1 .. Len(c) - 1 PROVE ~(c[i] = "/" /\ c[i + 1] = "/")
    BY DEF Doubled
  <2>2. /\ \A j \in 1 .. n - 1 : ~(a[j] = "/" /\ a[j + 1] = "/")
        /\ \A j \in 1 .. m - 1 : ~(b[j] = "/" /\ b[j + 1] = "/")
        /\ a[n] # "/" /\ b[1] # "/"
    BY <1>4 DEF Doubled, n, m
  <2> QED
    BY <1>2, <2>2
<1> QED
  BY <1>3, <1>4

\* A piece of a path has the neighbours it had in the path.
LEMMA Within ==
    ASSUME NEW p, NEW t, NEW k \in Nat, Len(t) \in Nat, Len(p) \in Nat, Len(t) + k <= Len(p),
           \A i \in 1 .. Len(t) : t[i] = p[i + k]
    PROVE  (Glued(t) => Glued(p)) /\ (Doubled(t) => Doubled(p))
<1>1. ASSUME NEW i \in 1 .. Len(t) - 1
      PROVE  i + k \in 1 .. Len(p) - 1 /\ t[i] = p[i + k] /\ t[i + 1] = p[(i + k) + 1]
  <2>1. i \in 1 .. Len(t) /\ i + 1 \in 1 .. Len(t) /\ (i + 1) + k = (i + k) + 1
        /\ i + k \in 1 .. Len(p) - 1
    OBVIOUS
  <2> QED
    BY <2>1
<1>2. Glued(t) => Glued(p)
  BY <1>1 DEF Glued
<1>3. Doubled(t) => Doubled(p)
  BY <1>1 DEF Doubled
<1> QED
  BY <1>2, <1>3

\* What each element of a path is of its names.
Named(q) == [i \in 1 .. Len(q) |-> IF q[i] # "/" THEN <<q[i]>> ELSE <<>>]

\* The names of a path are the pieces of its elements, one after the other.
LEMMA NamedPieces ==
    ASSUME NEW q \in Seq(PathLetters)
    PROVE  /\ Names(q) = FlattenSeq(Named(q)) /\ Names(q) \in Seq(PathLetters)
           /\ Named(q) \in Seq(Seq(PathLetters)) /\ Len(Named(q)) = Len(q)
<1>1. Names(q) = FlattenSeq(Named(q))
  BY Zenon DEF Names, Named
<1>2. Len(q) \in Nat
  OBVIOUS
<1>3. ASSUME NEW i \in 1 .. Len(q)
      PROVE  (IF q[i] # "/" THEN <<q[i]>> ELSE <<>>) \in Seq(PathLetters)
  <2>1. q[i] \in PathLetters
    OBVIOUS
  <2>2. <<q[i]>> \in Seq(PathLetters) /\ <<>> \in Seq(PathLetters)
    BY <2>1
  <2> QED
    BY <2>2
<1>4. Named(q) \in [1 .. Len(q) -> Seq(PathLetters)]
  BY <1>3 DEF Named
<1>5. Named(q) \in Seq(Seq(PathLetters)) /\ Len(Named(q)) = Len(q)
  BY <1>2, <1>4, TableSeq
<1> QED
  BY <1>1, <1>5, FlattenType

\* The names of two parts, one after the other.
LEMMA NamesConcat ==
    ASSUME NEW a \in Seq(PathLetters), NEW b \in Seq(PathLetters)
    PROVE  Names(a \o b) = Names(a) \o Names(b)
<1> DEFINE c == a \o b
           d == Named(a) \o Named(b)
<1>0. Len(a) \in Nat /\ Len(b) \in Nat
  OBVIOUS
<1>1. /\ c \in Seq(PathLetters) /\ Len(c) = Len(a) + Len(b)
      /\ \A i \in 1 .. Len(a) + Len(b) : c[i] = IF i <= Len(a) THEN a[i] ELSE b[i - Len(a)]
  BY ConcatProperties
<1>2. /\ Named(a) \in Seq(Seq(PathLetters)) /\ Len(Named(a)) = Len(a)
      /\ Named(b) \in Seq(Seq(PathLetters)) /\ Len(Named(b)) = Len(b)
  BY NamedPieces
<1>3. /\ d \in Seq(Seq(PathLetters)) /\ Len(d) = Len(a) + Len(b)
      /\ \A i \in 1 .. Len(a) + Len(b) :
            d[i] = IF i <= Len(a) THEN Named(a)[i] ELSE Named(b)[i - Len(a)]
  <2>1. PICK x, y : x = Named(a) /\ y = Named(b)
    OBVIOUS
  <2>2. x \in Seq(Seq(PathLetters)) /\ y \in Seq(Seq(PathLetters))
        /\ Len(x) = Len(a) /\ Len(y) = Len(b)
    BY <1>2, <2>1
  <2>3. /\ x \o y \in Seq(Seq(PathLetters)) /\ Len(x \o y) = Len(x) + Len(y)
        /\ \A i \in 1 .. Len(x) + Len(y) : (x \o y)[i] = IF i <= Len(x) THEN x[i] ELSE y[i - Len(x)]
    BY <2>2, ConcatProperties
  <2> QED
    BY <2>1, <2>2, <2>3
<1>4. Named(c) \in Seq(Seq(PathLetters)) /\ Len(Named(c)) = Len(c) /\ Names(c) = FlattenSeq(Named(c))
  BY <1>1, NamedPieces
<1> HIDE DEF c, d
<1>5. ASSUME NEW i \in 1 .. Len(a) + Len(b) PROVE Named(c)[i] = d[i]
  <2>1. i \in 1 .. Len(c)
    BY <1>1
  <2>2. Named(c)[i] = IF c[i] # "/" THEN <<c[i]>> ELSE <<>>
    BY <2>1 DEF Named
  <2>3. CASE i <= Len(a)
    <3>1. i \in 1 .. Len(a) /\ c[i] = a[i] /\ d[i] = Named(a)[i]
      BY <1>0, <1>1, <1>3, <2>3
    <3> QED
      BY <2>2, <3>1 DEF Named
  <2>4. CASE ~(i <= Len(a))
    <3>1. i - Len(a) \in 1 .. Len(b) /\ c[i] = b[i - Len(a)] /\ d[i] = Named(b)[i - Len(a)]
      BY <1>0, <1>1, <1>3, <2>4
    <3> QED
      BY <2>2, <3>1 DEF Named
  <2> QED
    BY <2>3, <2>4
<1>6. Named(c) = d
  <2>1. PICK x : x = Named(c)
    OBVIOUS
  <2>2. x \in Seq(Seq(PathLetters)) /\ Len(x) = Len(d) /\ \A i \in 1 .. Len(x) : x[i] = d[i]
    BY <1>1, <1>3, <1>4, <1>5, <2>1
  <2>3. x = d
    BY <1>3, <2>2, SeqEqual
  <2> QED
    BY <2>1, <2>3
<1>7. FlattenSeq(d) = FlattenSeq(Named(a)) \o FlattenSeq(Named(b))
  BY <1>2, FlattenConcat DEF d
<1>8. Names(a) = FlattenSeq(Named(a)) /\ Names(b) = FlattenSeq(Named(b))
  BY NamedPieces
<1> QED
  BY <1>4, <1>6, <1>7, <1>8 DEF c

\* A path without names.
LEMMA NamesSlash == Names(<<"/">>) = <<>> /\ Names(<<>>) = <<>>
<1>1. Named(<<"/">>) = <<<<>>>> /\ Named(<<>>) = <<>>
  BY DEF Named
<1>2. Names(<<"/">>) = FlattenSeq(<<<<>>>>) /\ Names(<<>>) = FlattenSeq(<<>>)
  BY <1>1, Zenon DEF Names, Named
<1>3. <<>> \in Seq(PathLetters)
  OBVIOUS
<1>4. FlattenSeq(<<<<>>>>) = <<>>
  BY <1>3, FlattenOne
<1> QED
  BY <1>2, <1>4, FlattenEmpty

\* isOllamaPath, by the last four elements.
LEMMA OllamaByElement ==
    ASSUME NEW p \in Seq(PathLetters)
    PROVE  IsOllamaPath(p) <=>
              /\ Len(p) >= 4 /\ p[Len(p) - 3] = "/" /\ p[Len(p) - 2] = "api"
              /\ p[Len(p) - 1] = "/" /\ p[Len(p)] = "gen"
<1> DEFINE s == <<"/", "api", "/", "gen">>
           r == Reverse(p)
           u == Reverse(s)
           n == Len(p)
<1>0. n \in Nat
  OBVIOUS
<1>1. s \in Seq(PathLetters) /\ Len(s) = 4 /\ s[1] = "/" /\ s[2] = "api" /\ s[3] = "/" /\ s[4] = "gen"
  BY DEF PathLetters
<1> HIDE DEF s
<1>2. u \in [1 .. 4 -> PathLetters] /\ u[1] = "gen" /\ u[2] = "/" /\ u[3] = "api" /\ u[4] = "/"
  <2>1. u = [i \in 1 .. 4 |-> s[(4 - i) + 1]]
    BY <1>1 DEF Reverse
  <2>2. \A i \in 1 .. 4 : (4 - i) + 1 \in 1 .. 4
    OBVIOUS
  <2>3. \A i \in 1 .. 4 : s[i] \in PathLetters
    BY <1>1
  <2>4. u \in [1 .. 4 -> PathLetters]
    BY <2>1, <2>2, <2>3
  <2>5. u[1] = s[(4 - 1) + 1] /\ u[2] = s[(4 - 2) + 1] /\ u[3] = s[(4 - 3) + 1] /\ u[4] = s[(4 - 4) + 1]
    BY <2>1
  <2> QED
    BY <1>1, <2>4, <2>5
<1>3. u \in Seq(PathLetters) /\ Len(u) = 4
  <2> HIDE DEF u
  <2>1. PICK k \in Nat : k = 4
    OBVIOUS
  <2>2. u \in [1 .. k -> PathLetters]
    BY <1>2, <2>1
  <2>3. u \in Seq(PathLetters) /\ Len(u) = k
    BY <2>2, TableSeq
  <2> QED
    BY <2>1, <2>3
<1>4. r \in [1 .. n -> PathLetters] /\ \A i \in 1 .. n : r[i] = p[(n - i) + 1]
  BY <1>0 DEF Reverse
<1>5. r \in Seq(PathLetters) /\ Len(r) = n
  <2> HIDE DEF r
  <2> QED
    BY <1>0, <1>4, TableSeq
<1> HIDE DEF r, u, n
<1>6. IsOllamaPath(p) <=> Len(u) <= Len(r) /\ SubSeq(u, 1, Len(u)) = SubSeq(r, 1, Len(u))
  BY DEF IsOllamaPath, IsSuffix, IsPrefix, r, u, s
<1>7. SubSeq(u, 1, 4) = u
  BY <1>3, SubSeqFull
<1>8. ASSUME n >= 4
      PROVE  /\ SubSeq(r, 1, 4) \in Seq(PathLetters) /\ Len(SubSeq(r, 1, 4)) = 4
             /\ \A i \in 1 .. 4 : SubSeq(r, 1, 4)[i] = r[i]
  BY <1>5, <1>8, SubSeqFirst
<1>9. ASSUME n >= 4
      PROVE  r[1] = p[n] /\ r[2] = p[n - 1] /\ r[3] = p[n - 2] /\ r[4] = p[n - 3]
  <2>1. /\ 1 \in 1 .. n /\ 2 \in 1 .. n /\ 3 \in 1 .. n /\ 4 \in 1 .. n
        /\ (n - 1) + 1 = n /\ (n - 2) + 1 = n - 1 /\ (n - 3) + 1 = n - 2 /\ (n - 4) + 1 = n - 3
    BY <1>0, <1>9
  <2> QED
    BY <1>4, <2>1
<1>10. ASSUME n >= 4
       PROVE  u = SubSeq(r, 1, 4) <=>
                 r[1] = "gen" /\ r[2] = "/" /\ r[3] = "api" /\ r[4] = "/"
  <2>1. PICK v : v = SubSeq(r, 1, 4)
    OBVIOUS
  <2>2. v \in Seq(PathLetters) /\ Len(v) = 4 /\ v[1] = r[1] /\ v[2] = r[2] /\ v[3] = r[3] /\ v[4] = r[4]
    BY <1>8, <1>10, <2>1
  <2>3. ASSUME r[1] = "gen", r[2] = "/", r[3] = "api", r[4] = "/" PROVE u = v
    <3>1. \A i \in 1 .. 4 : u[i] = v[i]
      BY <1>2, <2>2, <2>3
    <3> QED
      BY <1>3, <2>2, <3>1, SeqEqual
  <2> QED
    BY <1>2, <2>1, <2>2, <2>3
<1> QED
  BY <1>0, <1>3, <1>5, <1>6, <1>7, <1>9, <1>10 DEF n

\* The shortest path.
LEMMA SlashPath == <<"/">> \in Seq(PathLetters)
<1>1. "/" \in PathLetters
  BY DEF PathLetters
<1> QED
  BY <1>1

\* A slash between two paths.
LEMMA SlashBetween ==
    ASSUME NEW a \in Seq(PathLetters), NEW b \in Seq(PathLetters)
    PROVE  a \o <<"/">> \o b = a \o (<<"/">> \o b)
<1>1. PICK s \in Seq(PathLetters) : s = <<"/">>
  BY SlashPath
<1>2. (a \o s) \o b = a \o (s \o b)
  BY ConcatAssociative
<1> QED
  BY <1>1, <1>2

\* The three cases of joinPath, for a path that starts with a slash.
LEMMA JoinCases ==
    ASSUME NEW base \in Seq(PathLetters), NEW p \in Seq(PathLetters), p # <<>>, p[1] = "/",
           NEW j, j = JoinPath(base, p)
    PROVE  \/ base \in {<<>>, <<"/">>} /\ j = p
           \/ base \notin {<<>>, <<"/">>} /\ p = <<"/">> /\ j = base
           \/ /\ base \notin {<<>>, <<"/">>} /\ p \notin {<<>>, <<"/">>}
              /\ \E b \in Seq(PathLetters), t \in Seq(PathLetters) :
                    /\ b = TrimSlashEnd(base) /\ t = TrimSlashStart(p)
                    /\ j = b \o (<<"/">> \o t)
<1>1. CASE base \in {<<>>, <<"/">>}
  BY <1>1 DEF JoinPath
<1>2. CASE base \notin {<<>>, <<"/">>} /\ p \in {<<>>, <<"/">>}
  BY <1>2 DEF JoinPath
<1>3. CASE base \notin {<<>>, <<"/">>} /\ p \notin {<<>>, <<"/">>}
  <2>1. PICK b, t : b = TrimSlashEnd(base) /\ t = TrimSlashStart(p)
    OBVIOUS
  <2>2. b \in Seq(PathLetters)
    BY <1>3, <2>1, TrimmedEnd
  <2>3. t \in Seq(PathLetters)
    BY <1>3, <2>1, TrimmedStart
  <2>4. j = b \o <<"/">> \o t
    BY <1>3, <2>1 DEF JoinPath
  <2>5. b \o <<"/">> \o t = b \o (<<"/">> \o t)
    BY <2>2, <2>3, SlashBetween
  <2>7. j = b \o (<<"/">> \o t)
    BY <2>4, <2>5
  <2> QED
    BY <1>3, <2>1, <2>2, <2>3, <2>7
<1> QED
  BY <1>1, <1>2, <1>3

\* joinPath puts one slash between base and path, and loses nothing of either.
LEMMA Join ==
    ASSUME NEW base \in Seq(PathLetters), ~Glued(base),
           NEW p \in Seq(PathLetters), p # <<>>, p[1] = "/", ~Glued(p),
           NEW j, j = JoinPath(base, p)
    PROVE  /\ j \in Seq(PathLetters) /\ ~Glued(j)
           /\ ~Doubled(base) /\ ~Doubled(p) => ~Doubled(j)
           /\ Names(j) = Names(base) \o Names(p)
           /\ IsOllamaPath(p) => IsOllamaPath(j)
<1>0. /\ Names(base) \in Seq(PathLetters) /\ Names(p) \in Seq(PathLetters)
      /\ Len(base) \in Nat /\ Len(p) \in Nat
  BY NamedPieces
<1>1. CASE base \in {<<>>, <<"/">>} /\ j = p
  <2>1. Names(base) = <<>>
    BY <1>1, NamesSlash
  <2> QED
    BY <1>0, <1>1, <2>1, ConcatEmptySeq
<1>2. CASE base \notin {<<>>, <<"/">>} /\ p = <<"/">> /\ j = base
  <2>1. Names(p) = <<>>
    BY <1>2, NamesSlash
  <2>2. ~IsOllamaPath(p)
    <3>1. ~(Len(p) >= 4)
      BY <1>2
    <3> QED
      BY <3>1, OllamaByElement
  <2>3. Names(j) = Names(base) \o Names(p)
    BY <1>0, <1>2, <2>1, ConcatEmptySeq
  <2> QED
    BY <1>2, <2>2, <2>3
<1>3. ASSUME base \notin {<<>>, <<"/">>}, p \notin {<<>>, <<"/">>},
             NEW b \in Seq(PathLetters), NEW t \in Seq(PathLetters),
             b = TrimSlashEnd(base), t = TrimSlashStart(p), j = b \o (<<"/">> \o t)
      PROVE  /\ j \in Seq(PathLetters) /\ ~Glued(j)
             /\ ~Doubled(base) /\ ~Doubled(p) => ~Doubled(j)
             /\ Names(j) = Names(base) \o Names(p)
             /\ IsOllamaPath(p) => IsOllamaPath(j)
  <2>1. /\ Len(b) \in 1 .. Len(base) /\ Agree(b, base, Len(b))
        /\ Len(b) = Len(base) \/ (Len(base) = Len(b) + 1 /\ base[Len(base)] = "/")
        /\ ~Doubled(base) => b[Len(b)] # "/"
    BY <1>3, TrimmedEnd
  <2>2. /\ Len(t) \in Nat \ {0} /\ Len(p) = Len(t) + 1
        /\ \A i \in 1 .. Len(t) : t[i] = p[i + 1]
        /\ ~Doubled(p) => t[1] # "/"
    BY <1>3, TrimmedStart
  <2>3. ~Glued(b) /\ (~Doubled(base) => ~Doubled(b))
    <3>1. Len(b) \in Nat /\ Len(b) + 0 <= Len(base) /\ \A i \in 1 .. Len(b) : b[i] = base[i + 0]
      BY <1>0, <2>1 DEF Agree
    <3>2. 0 \in Nat
      OBVIOUS
    <3> QED
      BY <1>0, <3>1, <3>2, Within
  <2>4. ~Glued(t) /\ (~Doubled(p) => ~Doubled(t))
    <3>1. Len(t) \in Nat /\ Len(t) + 1 <= Len(p) /\ 1 \in Nat
      BY <1>0, <2>2
    <3> QED
      BY <1>0, <2>2, <3>1, Within
  <2>5. /\ ~Glued(j)
        /\ ~Doubled(base) /\ ~Doubled(p) => ~Doubled(j)
    <3>1. Len(b) # 0 /\ Len(t) # 0
      BY <1>0, <2>1, <2>2
    <3> QED
      BY <1>3, <2>1, <2>2, <2>3, <2>4, <3>1, Slashed
  <2>6. PICK s \in Seq(PathLetters) : s = <<"/">>
    BY SlashPath
  <2>7. s \o t = p
    <3>1. s \o t \in Seq(PathLetters) /\ Len(s \o t) = Len(p) /\ \A i \in 1 .. Len(p) : (s \o t)[i] = p[i]
      <4>1. /\ s \o t \in Seq(PathLetters) /\ Len(s \o t) = Len(s) + Len(t) /\ Len(s) = 1 /\ s[1] = "/"
            /\ \A i \in 1 .. Len(s) + Len(t) : (s \o t)[i] = IF i <= Len(s) THEN s[i] ELSE t[i - Len(s)]
        <5>1. Len(s) = 1 /\ s[1] = "/"
          BY <2>6
        <5> QED
          BY <5>1, ConcatProperties
      <4>2. ASSUME NEW i \in 1 .. Len(p) PROVE (s \o t)[i] = p[i]
        <5>1. i \in 1 .. Len(s) + Len(t)
          BY <1>0, <2>2, <4>1
        <5>2. CASE i = 1
          BY <4>1, <5>1, <5>2
        <5>3. CASE i # 1
          <6>1. i - 1 \in 1 .. Len(t) /\ (i - 1) + 1 = i /\ ~(i <= 1)
            BY <1>0, <2>2, <5>3
          <6>2. t[i - 1] = p[i]
            BY <2>2, <6>1
          <6> QED
            BY <4>1, <5>1, <6>1, <6>2
        <5> QED
          BY <5>2, <5>3
      <4> QED
        BY <1>0, <2>2, <4>1, <4>2
    <3> QED
      BY <3>1, SeqEqual
  <2>8. j = b \o p
    BY <1>3, <2>6, <2>7
  <2>9. Names(b) = Names(base)
    <3>1. CASE Len(b) = Len(base)
      <4>1. b = base
        BY <2>1, <3>1, SeqEqual DEF Agree
      <4> QED
        BY <4>1
    <3>2. CASE Len(base) = Len(b) + 1 /\ base[Len(base)] = "/"
      <4>1. base = b \o s
        <5>1. Len(s) = 1 /\ s[1] = "/"
          BY <2>6
        <5>2. /\ b \o s \in Seq(PathLetters) /\ Len(b \o s) = Len(b) + Len(s)
              /\ \A i \in 1 .. Len(b) + Len(s) : (b \o s)[i] = IF i <= Len(b) THEN b[i] ELSE s[i - Len(b)]
          BY ConcatProperties
        <5>3. ASSUME NEW i \in 1 .. Len(base) PROVE base[i] = (b \o s)[i]
          <6>1. i \in 1 .. Len(b) + Len(s)
            BY <3>2, <5>1
          <6>2. CASE i <= Len(b)
            <7>1. i \in 1 .. Len(b)
              BY <1>0, <2>1, <6>2
            <7> QED
              BY <2>1, <5>2, <6>1, <6>2, <7>1 DEF Agree
          <6>3. CASE ~(i <= Len(b))
            <7>1. i = Len(base) /\ i - Len(b) = 1
              BY <1>0, <2>1, <3>2, <6>3
            <7> QED
              BY <3>2, <5>1, <5>2, <6>1, <6>3, <7>1
          <6> QED
            BY <6>2, <6>3
        <5>4. Len(base) = Len(b \o s)
          BY <3>2, <5>1, <5>2
        <5> QED
          BY <5>2, <5>3, <5>4, SeqEqual
      <4>2. Names(b \o s) = Names(b) \o Names(s)
        BY NamesConcat
      <4>3. Names(s) = <<>> /\ Names(b) \in Seq(PathLetters)
        BY <2>6, NamesSlash, NamedPieces
      <4>4. Names(b) \o <<>> = Names(b)
        BY <4>3, ConcatEmptySeq
      <4> QED
        BY <4>1, <4>2, <4>3, <4>4
    <3> QED
      BY <2>1, <3>1, <3>2
  <2>10. Names(j) = Names(base) \o Names(p)
    <3>1. Names(b \o p) = Names(b) \o Names(p)
      BY NamesConcat
    <3> QED
      BY <2>8, <2>9, <3>1
  <2>11. /\ j \in Seq(PathLetters) /\ Len(j) = Len(b) + Len(p)
         /\ \A i \in 1 .. Len(p) : j[Len(b) + i] = p[i]
    <3>1. /\ b \o p \in Seq(PathLetters) /\ Len(b \o p) = Len(b) + Len(p)
          /\ \A i \in 1 .. Len(b) + Len(p) : (b \o p)[i] = IF i <= Len(b) THEN b[i] ELSE p[i - Len(b)]
      BY ConcatProperties
    <3>2. ASSUME NEW i \in 1 .. Len(p) PROVE j[Len(b) + i] = p[i]
      <4>1. /\ Len(b) + i \in 1 .. Len(b) + Len(p) /\ ~(Len(b) + i <= Len(b))
            /\ (Len(b) + i) - Len(b) = i
        BY <1>0, <2>1
      <4> QED
        BY <2>8, <3>1, <4>1
    <3> QED
      BY <2>8, <3>1, <3>2
  <2>12. ASSUME IsOllamaPath(p) PROVE IsOllamaPath(j)
    <3> DEFINE n == Len(p)
               k == Len(b)
    <3>1. n >= 4 /\ p[n - 3] = "/" /\ p[n - 2] = "api" /\ p[n - 1] = "/" /\ p[n] = "gen"
      BY <2>12, OllamaByElement
    <3>2. n \in Nat /\ k \in Nat /\ Len(j) = k + n /\ \A i \in 1 .. n : j[k + i] = p[i]
      BY <1>0, <2>1, <2>11
    <3> HIDE DEF n, k
    <3>3. /\ n \in 1 .. n /\ n - 1 \in 1 .. n /\ n - 2 \in 1 .. n /\ n - 3 \in 1 .. n /\ k + n >= 4
          /\ k + (n - 3) = (k + n) - 3 /\ k + (n - 2) = (k + n) - 2 /\ k + (n - 1) = (k + n) - 1
      BY <3>1, <3>2
    <3>4. /\ j[(k + n) - 3] = "/" /\ j[(k + n) - 2] = "api" /\ j[(k + n) - 1] = "/" /\ j[k + n] = "gen"
      BY <3>1, <3>2, <3>3
    <3> QED
      BY <2>11, <3>2, <3>3, <3>4, OllamaByElement
  <2> QED
    BY <2>5, <2>10, <2>11, <2>12
<1>4. \/ base \in {<<>>, <<"/">>} /\ j = p
      \/ base \notin {<<>>, <<"/">>} /\ p = <<"/">> /\ j = base
      \/ /\ base \notin {<<>>, <<"/">>} /\ p \notin {<<>>, <<"/">>}
         /\ \E b \in Seq(PathLetters), t \in Seq(PathLetters) :
               /\ b = TrimSlashEnd(base) /\ t = TrimSlashStart(p)
               /\ j = b \o (<<"/">> \o t)
  BY JoinCases
<1>5. CASE /\ base \notin {<<>>, <<"/">>} /\ p \notin {<<>>, <<"/">>}
           /\ \E b \in Seq(PathLetters), t \in Seq(PathLetters) :
                 /\ b = TrimSlashEnd(base) /\ t = TrimSlashStart(p)
                 /\ j = b \o (<<"/">> \o t)
  <2>1. PICK b \in Seq(PathLetters), t \in Seq(PathLetters) :
          b = TrimSlashEnd(base) /\ t = TrimSlashStart(p) /\ j = b \o (<<"/">> \o t)
    BY <1>5
  <2> QED
    BY <1>3, <1>5, <2>1
<1> QED
  BY <1>1, <1>2, <1>4, <1>5

(***************************************************************************)
(* direct and ServeHTTP join any base that starts with a slash and any     *)
(* path, and what PathKept says of the two results holds.                  *)
(***************************************************************************)
LEMMA PathAny ==
    ASSUME NEW base \in Seq(PathLetters), ~Glued(base),
           NEW q \in Seq(PathLetters), q # <<>>, q[1] = "/", ~Glued(q)
    PROVE  PathKept(base, q)
<1> DEFINE p == Decoded(q)
           j == JoinPath(base, p)
           raw == RawPath(q)
           out == Relayed(base, q)
<1>0. Len(q) \in Nat \ {0}
  BY EmptySeq
<1>1. /\ p \in Seq(PathLetters) /\ Len(p) = Len(q)
      /\ \A i \in 1 .. Len(q) : p[i] = IF q[i] = "%2F" THEN "/" ELSE q[i]
      /\ ~Contains(q, "%2F") => p = q
  BY DecodedPath
<1> HIDE DEF p
<1>2. p # <<>> /\ p[1] = "/"
  <2>1. 1 \in 1 .. Len(q)
    BY <1>0
  <2>2. p[1] = "/"
    BY <1>1, <2>1
  <2>3. Len(p) # 0
    BY <1>0, <1>1
  <2> QED
    BY <2>2, <2>3
<1>3. ~Glued(p) /\ (Doubled(q) => Doubled(p))
  <2>1. ASSUME NEW i \in 1 .. Len(q) - 1
        PROVE  /\ p[i] = (IF q[i] = "%2F" THEN "/" ELSE q[i])
               /\ p[i + 1] = (IF q[i + 1] = "%2F" THEN "/" ELSE q[i + 1])
    <3>1. i \in 1 .. Len(q) /\ i + 1 \in 1 .. Len(q)
      BY <1>0
    <3> QED
      BY <1>1, <3>1
  <2>2. ~Glued(p)
    <3>1. \A i \in 1 .. Len(q) - 1 : ~({q[i], q[i + 1]} \subseteq {"api", "gen"})
      BY DEF Glued
    <3>2. ASSUME NEW i \in 1 .. Len(q) - 1 PROVE ~({p[i], p[i + 1]} \subseteq {"api", "gen"})
      BY <2>1, <3>1
    <3> QED
      BY <1>1, <3>2 DEF Glued
  <2>3. Doubled(q) => Doubled(p)
    BY <1>1, <2>1 DEF Doubled
  <2> QED
    BY <2>2, <2>3
<1>4. /\ j \in Seq(PathLetters) /\ ~Glued(j)
      /\ ~Doubled(base) /\ ~Doubled(p) => ~Doubled(j)
      /\ Names(j) = Names(base) \o Names(p)
      /\ IsOllamaPath(p) => IsOllamaPath(j)
  BY <1>1, <1>2, <1>3, Join
<1>5. base \in {<<>>, <<"/">>} => j = p
  BY DEF JoinPath
<1> HIDE DEF j
<1>6. Recorded(base, q) = j
  BY DEF Recorded, EscapedPath, j, p
<1>7. out = IF raw # <<>> /\ Decoded(raw) = j THEN raw ELSE j
  BY DEF Relayed, EscapedPath, j, p
<1>8. raw = IF Contains(q, "%2F") THEN q ELSE <<>>
  BY DEF RawPath
<1> HIDE DEF raw, out
<1>9. ~Contains(q, "%2F") => out = j
  BY <1>7, <1>8
<1>10. Contains(q, "%2F") => out = IF p = j THEN q ELSE j
  BY <1>7, <1>8 DEF p
<1>11. ~Glued(out) /\ (~Doubled(base) /\ ~Doubled(p) => ~Doubled(out))
  BY <1>3, <1>4, <1>9, <1>10
<1>12. base \in {<<>>, <<"/">>} => out = q
  BY <1>1, <1>5, <1>9, <1>10
<1>13. ~Contains(q, "%2F") => Recorded(base, q) = out /\ Names(out) = Names(base) \o Names(q)
  BY <1>1, <1>4, <1>6, <1>9
<1>14. IsOllamaPath(p) => IsOllamaPath(Recorded(base, q))
  BY <1>4, <1>6
<1> QED
  BY <1>11, <1>12, <1>13, <1>14 DEF PathKept, p, out

-------------------------------------------------------------------------------
(***************************************************************************)
(* The request that is sent again.                                         *)
(***************************************************************************)
\* What each letter of a text is of the text without its line breaks.
Tokens(w) == [i \in 1 .. Len(w) |-> IF w[i] \notin {"n", "w"} THEN <<w[i]>> ELSE <<>>]

\* A text without its line breaks is its tokens, one after the other.
LEMMA TokenPieces ==
    ASSUME NEW L, NEW S, S = L \ {"n", "w"}, NEW w \in Seq(L)
    PROVE  /\ Unbroken(w) = FlattenSeq(Tokens(w)) /\ Unbroken(w) \in Seq(S)
           /\ Tokens(w) \in Seq(Seq(S)) /\ Len(Tokens(w)) = Len(w)
<1>1. Unbroken(w) = FlattenSeq(Tokens(w))
  BY Zenon DEF Unbroken, Tokens
<1>2. Len(w) \in Nat
  OBVIOUS
<1>3. ASSUME NEW i \in 1 .. Len(w)
      PROVE  (IF w[i] \notin {"n", "w"} THEN <<w[i]>> ELSE <<>>) \in Seq(S)
  <2>1. w[i] \in L
    OBVIOUS
  <2>2. <<>> \in Seq(S) /\ (w[i] \notin {"n", "w"} => <<w[i]>> \in Seq(S))
    BY <2>1
  <2> QED
    BY <2>2
<1>4. Tokens(w) \in [1 .. Len(w) -> Seq(S)]
  BY <1>3 DEF Tokens
<1>5. Tokens(w) \in Seq(Seq(S)) /\ Len(Tokens(w)) = Len(w)
  BY <1>2, <1>4, TableSeq
<1> QED
  BY <1>1, <1>5, FlattenType

\* n tokens and line breaks by turns.
Turns(n) == [i \in 1 .. n |-> IF i % 2 = 1 THEN "j" ELSE "n"]

\* Tokens and line breaks by turns, one by one.
LEMMA TurnsSeq ==
    ASSUME NEW n \in Nat
    PROVE  /\ Turns(n) \in Seq({"j", "n"}) /\ Len(Turns(n)) = n
           /\ \A i \in 1 .. n : Turns(n)[i] = IF i % 2 = 1 THEN "j" ELSE "n"
<1>1. Turns(n) \in [1 .. n -> {"j", "n"}]
  BY DEF Turns
<1>2. Turns(n) \in Seq({"j", "n"}) /\ Len(Turns(n)) = n
  BY <1>1, TableSeq
<1>3. \A i \in 1 .. n : Turns(n)[i] = IF i % 2 = 1 THEN "j" ELSE "n"
  BY DEF Turns
<1> QED
  BY <1>2, <1>3

\* Every other one is a token.
LEMMA TurnsTokens ==
    \A n \in Nat : Len(Unbroken(Turns(n))) = (n + 1) \div 2
<1> DEFINE T == {n \in Nat : Len(Unbroken(Turns(n))) = (n + 1) \div 2}
           S == {"j", "n"} \ {"n", "w"}
<1>1. ASSUME NEW n \in Nat
      PROVE  /\ Unbroken(Turns(n)) = FlattenSeq(Tokens(Turns(n))) /\ Unbroken(Turns(n)) \in Seq(S)
             /\ Tokens(Turns(n)) \in Seq(Seq(S)) /\ Len(Tokens(Turns(n))) = n
             /\ \A i \in 1 .. n : Tokens(Turns(n))[i] = IF i % 2 = 1 THEN <<"j">> ELSE <<>>
  <2>1. PICK w \in Seq({"j", "n"}) : w = Turns(n)
    BY TurnsSeq
  <2>2. Len(w) = n /\ \A i \in 1 .. n : w[i] = IF i % 2 = 1 THEN "j" ELSE "n"
    BY <2>1, TurnsSeq
  <2>3. /\ Unbroken(w) = FlattenSeq(Tokens(w)) /\ Unbroken(w) \in Seq(S)
        /\ Tokens(w) \in Seq(Seq(S)) /\ Len(Tokens(w)) = Len(w)
    BY TokenPieces
  <2>4. \A i \in 1 .. n : Tokens(w)[i] = IF i % 2 = 1 THEN <<"j">> ELSE <<>>
    BY <2>2 DEF Tokens
  <2> QED
    BY <2>1, <2>2, <2>3, <2>4
<1> HIDE DEF S
<1>2. 0 \in T
  <2>1. PICK p : p = Tokens(Turns(0))
    OBVIOUS
  <2>2. 0 \in Nat
    OBVIOUS
  <2>3. p \in Seq(Seq(S)) /\ Len(p) = 0 /\ Unbroken(Turns(0)) = FlattenSeq(p)
    BY <1>1, <2>1, <2>2
  <2>4. p = <<>>
    BY <2>3, EmptySeq
  <2>5. Len(Unbroken(Turns(0))) = 0
    BY <2>3, <2>4, FlattenEmpty
  <2> QED
    BY <2>5
<1>3. ASSUME NEW n \in Nat, n \in T PROVE n + 1 \in T
  <2>1. PICK p, q : p = Tokens(Turns(n)) /\ q = Tokens(Turns(n + 1))
    OBVIOUS
  <2>2. n + 1 \in Nat
    OBVIOUS
  <2>3. /\ p \in Seq(Seq(S)) /\ Len(p) = n /\ Unbroken(Turns(n)) = FlattenSeq(p)
        /\ Unbroken(Turns(n)) \in Seq(S)
        /\ \A i \in 1 .. n : p[i] = IF i % 2 = 1 THEN <<"j">> ELSE <<>>
    BY <1>1, <2>1
  <2>4. /\ q \in Seq(Seq(S)) /\ Len(q) = n + 1 /\ Unbroken(Turns(n + 1)) = FlattenSeq(q)
        /\ \A i \in 1 .. n + 1 : q[i] = IF i % 2 = 1 THEN <<"j">> ELSE <<>>
    BY <1>1, <2>1, <2>2
  <2>5. Agree(q, p, n)
    <3>1. ASSUME NEW i \in 1 .. n PROVE q[i] = p[i]
      <4>1. i \in 1 .. n + 1
        OBVIOUS
      <4>2. p[i] = IF i % 2 = 1 THEN <<"j">> ELSE <<>>
        BY <2>3
      <4>3. q[i] = IF i % 2 = 1 THEN <<"j">> ELSE <<>>
        BY <2>4, <4>1
      <4> QED
        BY <4>2, <4>3
    <3> QED
      BY <3>1 DEF Agree
  <2>6. FlattenSeq(q) = FlattenSeq(p) \o q[n + 1]
    BY <2>3, <2>4, <2>5, FlattenMore
  <2>7. Len(FlattenSeq(p)) = (n + 1) \div 2
    BY <1>3, <2>3
  <2>8. PICK u \in Seq(S), x \in Seq(S) : u = FlattenSeq(p) /\ x = q[n + 1]
    <3>1. n + 1 \in 1 .. n + 1
      OBVIOUS
    <3>2. q[n + 1] \in Seq(S)
      BY <2>4, <3>1
    <3> QED
      BY <2>3, <3>2
  <2>9. Len(u \o x) = Len(u) + Len(x)
    BY ConcatProperties
  <2>10. Len(x) = IF (n + 1) % 2 = 1 THEN 1 ELSE 0
    <3>1. x = IF (n + 1) % 2 = 1 THEN <<"j">> ELSE <<>>
      BY <2>4, <2>8
    <3> QED
      BY <3>1
  <2>11. (n + 1) \div 2 + (IF (n + 1) % 2 = 1 THEN 1 ELSE 0) = ((n + 1) + 1) \div 2
    OBVIOUS
  <2> QED
    BY <2>2, <2>4, <2>6, <2>7, <2>8, <2>9, <2>10, <2>11
<1> HIDE DEF T
<1>4. \A n \in Nat : n \in T
  BY <1>2, <1>3, Naturals0
<1> QED
  BY <1>4 DEF T

\* A document has at least one token, and all of them are alike.
LEMMA DocumentTokens ==
    ASSUME NEW w \in Seq(Letters), Document(w)
    PROVE  Unbroken(w) \in Seq({"j"}) /\ Len(Unbroken(w)) \in Nat \ {0}
<1> DEFINE L == {"j", "n", "w"}
           S == L \ {"n", "w"}
<1>1. w \in Seq(L)
  <2>1. Len(w) \in Nat /\ w \in [1 .. Len(w) -> Letters]
    BY LenProperties
  <2>2. w \in [1 .. Len(w) -> L]
    BY <2>1 DEF Document
  <2> QED
    BY <2>1, <2>2, TableSeq
<1>2. S = {"j"}
  OBVIOUS
<1>3. /\ Unbroken(w) = FlattenSeq(Tokens(w)) /\ Unbroken(w) \in Seq(S)
      /\ Tokens(w) \in Seq(Seq(S)) /\ Len(Tokens(w)) = Len(w)
  BY <1>1, TokenPieces
<1> HIDE DEF L, S
<1>4. PICK i \in 1 .. Len(w) : w[i] = "j"
  BY DEF Document, Contains
<1>5. PICK t : t = Tokens(w)
  OBVIOUS
<1>6. t \in Seq(Seq(S)) /\ Len(t) = Len(w) /\ t[i] = <<"j">> /\ Len(w) \in Nat
  <2>1. Tokens(w)[i] = <<"j">>
    BY <1>4 DEF Tokens
  <2> QED
    BY <1>3, <1>5, <2>1
<1> DEFINE p == SubSeq(t, 1, i - 1)
           q == SubSeq(t, 1, i)
<1>7. /\ p \in Seq(Seq(S)) /\ Len(p) = i - 1 /\ \A k \in 1 .. i - 1 : p[k] = t[k]
      /\ q \in Seq(Seq(S)) /\ Len(q) = i /\ \A k \in 1 .. i : q[k] = t[k]
  <2>1. PICK n \in Nat, m \in Nat : n = i - 1 /\ m = i /\ n <= Len(t) /\ m <= Len(t)
    BY <1>6
  <2>2. /\ SubSeq(t, 1, n) \in Seq(Seq(S)) /\ Len(SubSeq(t, 1, n)) = n
        /\ \A k \in 1 .. n : SubSeq(t, 1, n)[k] = t[k]
    BY <1>6, <2>1, SubSeqFirst
  <2>3. /\ SubSeq(t, 1, m) \in Seq(Seq(S)) /\ Len(SubSeq(t, 1, m)) = m
        /\ \A k \in 1 .. m : SubSeq(t, 1, m)[k] = t[k]
    BY <1>6, <2>1, SubSeqFirst
  <2> QED
    BY <2>1, <2>2, <2>3
<1> HIDE DEF p, q
<1>8. Agree(q, p, Len(p)) /\ Agree(q, t, Len(q)) /\ Len(q) = Len(p) + 1 /\ Len(q) <= Len(t)
      /\ q[Len(q)] = <<"j">>
  <2>1. \A k \in 1 .. i - 1 : q[k] = p[k]
    <3>1. \A k \in 1 .. i - 1 : k \in 1 .. i
      OBVIOUS
    <3> QED
      BY <1>7, <3>1
  <2>2. Agree(q, p, i - 1) /\ Agree(q, t, i)
    BY <1>7, <2>1 DEF Agree
  <2>3. i = (i - 1) + 1 /\ i <= Len(t) /\ i \in 1 .. i
    BY <1>6
  <2> QED
    BY <1>6, <1>7, <2>2, <2>3
<1>9. FlattenSeq(q) = FlattenSeq(p) \o <<"j">> /\ FlattenSeq(p) \in Seq(S)
  BY <1>7, <1>8, FlattenMore
<1>10. Len(FlattenSeq(q)) = Len(FlattenSeq(p)) + 1 /\ Len(FlattenSeq(p)) \in Nat
  <2>0. <<"j">> \in Seq(S)
    BY <1>2
  <2>1. PICK u \in Seq(S), x \in Seq(S) : u = FlattenSeq(p) /\ x = <<"j">>
    BY <1>9, <2>0
  <2>2. Len(u \o x) = Len(u) + Len(x) /\ Len(x) = 1
    BY <2>1, ConcatProperties
  <2> QED
    BY <1>9, <2>1, <2>2
<1>11. IsPrefix(FlattenSeq(q), FlattenSeq(t))
  BY <1>6, <1>7, <1>8, FlattenPrefix
<1>12. Len(FlattenSeq(q)) <= Len(FlattenSeq(t))
  BY <1>11 DEF IsPrefix
<1>13. FlattenSeq(t) = Unbroken(w) /\ Len(Unbroken(w)) \in Nat
  BY <1>3, <1>5
<1> QED
  BY <1>2, <1>3, <1>10, <1>12, <1>13

\* Indenting a document keeps its tokens.
LEMMA IndentedTokens ==
    ASSUME NEW w \in Seq(Letters), Document(w)
    PROVE  /\ Indented(w) \in Seq({"j", "n"}) /\ Len(Indented(w)) \in Nat \ {0}
           /\ Indented(w)[1] = "j" /\ Unbroken(Indented(w)) = Unbroken(w)
<1>1. PICK u \in Seq({"j"}) : u = Unbroken(w) /\ Len(u) \in Nat \ {0}
  BY DocumentTokens
<1>2. PICK n \in Nat : n = 2 * Len(u) - 1 /\ n # 0 /\ (n + 1) \div 2 = Len(u)
  <2>1. \A t \in Nat : t # 0 => 2 * t - 1 \in Nat /\ 2 * t - 1 # 0 /\ ((2 * t - 1) + 1) \div 2 = t
    OBVIOUS
  <2>2. Len(u) \in Nat /\ Len(u) # 0
    BY <1>1
  <2> QED
    BY <2>1, <2>2
<1>3. Indented(w) = Turns(n)
  BY <1>1, <1>2 DEF Indented, Turns
<1>4. PICK v : v = Indented(w)
  OBVIOUS
<1>5. v \in Seq({"j", "n"}) /\ Len(v) = n /\ v[1] = "j"
  <2>1. 1 \in 1 .. n /\ 1 % 2 = 1
    BY <1>2
  <2> QED
    BY <1>3, <1>4, <2>1, TurnsSeq
<1>6. Len(Unbroken(v)) = Len(u)
  BY <1>2, <1>3, <1>4, TurnsTokens
<1>7. Unbroken(v) \in Seq({"j"})
  <2>1. {"j"} = {"j", "n"} \ {"n", "w"}
    OBVIOUS
  <2> QED
    BY <1>5, <2>1, TokenPieces
<1>8. Unbroken(v) = u
  <2>1. PICK x \in Seq({"j"}) : x = Unbroken(v)
    BY <1>7
  <2>2. Len(x) = Len(u) /\ \A i \in 1 .. Len(x) : x[i] = u[i]
    <3>1. Len(x) = Len(u)
      BY <1>6, <2>1
    <3>2. ASSUME NEW i \in 1 .. Len(x) PROVE x[i] = u[i]
      <4>1. x[i] \in {"j"} /\ u[i] \in {"j"}
        BY <3>1
      <4> QED
        BY <4>1
    <3> QED
      BY <3>1, <3>2
  <2>3. x = u
    BY <2>2, SeqEqual
  <2> QED
    BY <2>1, <2>3
<1> QED
  BY <1>1, <1>2, <1>4, <1>5, <1>8

\* The elements of the value of a text area.
LEMMA AreaText ==
    ASSUME NEW w \in Seq(Letters), NEW v, v = TextArea(w)
    PROVE  /\ v \in Seq(Letters) /\ Len(v) = Len(w) /\ Len(w) \in Nat
           /\ \A i \in 1 .. Len(w) : v[i] = IF w[i] = "w" THEN "n" ELSE w[i]
<1>1. Len(w) \in Nat /\ \A i \in 1 .. Len(w) : w[i] \in Letters
  OBVIOUS
<1>2. "n" \in Letters
  BY DEF Letters
<1>3. v \in [1 .. Len(w) -> Letters]
  BY <1>1, <1>2 DEF TextArea
<1>4. v \in Seq(Letters) /\ Len(v) = Len(w)
  BY <1>1, <1>3, TableSeq
<1>5. \A i \in 1 .. Len(w) : v[i] = IF w[i] = "w" THEN "n" ELSE w[i]
  BY DEF TextArea
<1> QED
  BY <1>1, <1>4, <1>5

\* A text area keeps what a text is, but for how its lines end.
LEMMA AreaKeeps ==
    ASSUME NEW w \in Seq(Letters), NEW v, v = TextArea(w)
    PROVE  /\ Unbroken(v) = Unbroken(w) /\ TextArea(v) = v
           /\ Valid(v) <=> Valid(w)
           /\ Document(v) <=> Document(w)
<1>1. /\ v \in Seq(Letters) /\ Len(v) = Len(w) /\ Len(w) \in Nat
      /\ \A i \in 1 .. Len(w) : v[i] = IF w[i] = "w" THEN "n" ELSE w[i]
  BY AreaText
<1>2. Tokens(v) = Tokens(w)
  <2>1. ASSUME NEW i \in 1 .. Len(w)
        PROVE  (IF v[i] \notin {"n", "w"} THEN <<v[i]>> ELSE <<>>)
                 = (IF w[i] \notin {"n", "w"} THEN <<w[i]>> ELSE <<>>)
    BY <1>1
  <2> QED
    BY <1>1, <2>1 DEF Tokens
<1>3. Unbroken(v) = Unbroken(w)
  <2>1. Unbroken(v) = FlattenSeq(Tokens(v)) /\ Unbroken(w) = FlattenSeq(Tokens(w))
    BY Zenon DEF Unbroken, Tokens
  <2> QED
    BY <1>2, <2>1
<1>4. TextArea(v) = v
  <2>1. PICK u : u = TextArea(v)
    OBVIOUS
  <2>2. u \in Seq(Letters) /\ Len(u) = Len(v)
        /\ \A i \in 1 .. Len(v) : u[i] = IF v[i] = "w" THEN "n" ELSE v[i]
    BY <1>1, <2>1, AreaText
  <2>3. \A i \in 1 .. Len(v) : u[i] = v[i]
    BY <1>1, <2>2
  <2>4. u = v
    BY <1>1, <2>2, <2>3, SeqEqual
  <2> QED
    BY <2>1, <2>4
<1>5. \A i \in 1 .. Len(w) : (v[i] = "l" <=> w[i] = "l") /\ (v[i] = "c" <=> w[i] = "c")
  BY <1>1
<1>6. Valid(v) <=> Valid(w)
  <2>1. ASSUME NEW i \in 1 .. Len(w)
        PROVE  /\ i < Len(w) => (v[i + 1] = "c" <=> w[i + 1] = "c")
               /\ i > 1 => (v[i - 1] = "l" <=> w[i - 1] = "l")
    <3>1. /\ i < Len(w) => i + 1 \in 1 .. Len(w)
          /\ i > 1 => i - 1 \in 1 .. Len(w)
      BY <1>1
    <3> QED
      BY <1>5, <3>1
  <2> QED
    BY <1>1, <1>5, <2>1 DEF Valid
<1>7. \A i \in 1 .. Len(w) : (v[i] = "j" <=> w[i] = "j")
                              /\ (v[i] \in {"j", "n", "w"} <=> w[i] \in {"j", "n", "w"})
  BY <1>1
<1>8. Document(v) <=> Document(w)
  <2>1. Contains(v, "j") <=> Contains(w, "j")
    BY <1>1, <1>7 DEF Contains
  <2> QED
    BY <1>1, <1>7, <2>1 DEF Document
<1> QED
  BY <1>3, <1>4, <1>6, <1>8

\* An indented document is one, and indented it stays as it is.
LEMMA IndentedTwice ==
    ASSUME NEW w \in Seq(Letters), Document(w), NEW v, v = Indented(w)
    PROVE  /\ v \in Seq(Letters) /\ Document(v) /\ Valid(v) /\ Indented(v) = v
           /\ TextArea(v) = v /\ Unbroken(v) = Unbroken(w)
<1>1. /\ v \in Seq({"j", "n"}) /\ Len(v) \in Nat \ {0} /\ v[1] = "j"
      /\ Unbroken(v) = Unbroken(w)
  BY IndentedTokens
<1>2. 1 \in 1 .. Len(v) /\ \A i \in 1 .. Len(v) : v[i] \in {"j", "n"}
  BY <1>1
<1>3. v \in Seq(Letters)
  <2>1. v \in [1 .. Len(v) -> {"j", "n"}] /\ Len(v) \in Nat
    BY <1>1, LenProperties
  <2>2. v \in [1 .. Len(v) -> Letters]
    BY <2>1 DEF Letters
  <2> QED
    BY <2>1, <2>2, TableSeq
<1>4. Document(v)
  BY <1>1, <1>2 DEF Document, Contains
<1>5. Valid(v)
  BY <1>2 DEF Valid
<1>6. Indented(v) = v
  <2>1. PICK x, y : x = Unbroken(v) /\ y = Unbroken(w)
    OBVIOUS
  <2>2. Indented(v) = [i \in 1 .. 2 * Len(x) - 1 |-> IF i % 2 = 1 THEN "j" ELSE "n"]
    BY <2>1, Zenon DEF Indented
  <2>3. Indented(w) = [i \in 1 .. 2 * Len(y) - 1 |-> IF i % 2 = 1 THEN "j" ELSE "n"]
    BY <2>1, Zenon DEF Indented
  <2>4. x = y
    BY <1>1, <2>1
  <2> QED
    BY <2>2, <2>3, <2>4, Zenon
<1>7. TextArea(v) = v
  <2>1. PICK u : u = TextArea(v)
    OBVIOUS
  <2>2. u \in Seq(Letters) /\ Len(u) = Len(v)
        /\ \A i \in 1 .. Len(v) : u[i] = IF v[i] = "w" THEN "n" ELSE v[i]
    BY <1>3, <2>1, AreaText
  <2>3. \A i \in 1 .. Len(v) : u[i] = v[i]
    BY <1>2, <2>2
  <2>4. u = v
    BY <1>3, <2>2, <2>3, SeqEqual
  <2> QED
    BY <2>1, <2>4
<1> QED
  BY <1>1, <1>3, <1>4, <1>5, <1>6, <1>7

\* The body of the detail the form is filled from.
LEMMA PayloadBody ==
    ASSUME NEW w, NEW pending, NEW b,
           b = (IF Len(w) > Inline /\ ~pending THEN <<>> ELSE Prefix(w, Inline))
    PROVE  EditableBody(Payload(w, pending))
             = IF Valid(b) THEN IF Document(b) /\ ~(Len(w) > Inline) THEN Indented(b) ELSE b
               ELSE IF Document(<<>>) /\ ~(Len(w) > Inline) THEN Indented(<<>>) ELSE <<>>
<1>1. PICK s : s = BodyOf(w)
  OBVIOUS
<1>2. s.body = Prefix(w, Inline) /\ s.path = (Len(w) > Inline) /\ s.size = Len(w)
  BY <1>1 DEF BodyOf
<1>3. PICK t : t = [format |-> <<>>, path |-> s.path, size |-> s.size,
                    body |-> IF s.path /\ ~pending THEN <<>> ELSE s.body]
  OBVIOUS
<1>4. t.body = b /\ t.path = (Len(w) > Inline)
  BY <1>2, <1>3
<1>5. PICK p : p = NewBodyPayload(t)
  OBVIOUS
<1>6. p.truncated = (Len(w) > Inline) /\ p.body = IF Valid(b) THEN b ELSE <<>>
  BY <1>4, <1>5 DEF NewBodyPayload
<1>7. Payload(w, pending) = p
  BY <1>1, <1>3, <1>5, Zenon DEF Payload
<1>8. EditableBody(p) = IF Document(p.body) /\ ~p.truncated THEN Indented(p.body) ELSE p.body
  BY Zenon DEF EditableBody
<1> QED
  BY <1>6, <1>7, <1>8

\* What the form makes of a body that is there as a whole, or not at all.
LEMMA FormBody ==
    ASSUME NEW w \in Seq(Letters), NEW pending \in BOOLEAN, ~(pending /\ Len(w) > Inline),
           NEW v, v = TextArea(EditableBody(Payload(w, pending)))
    PROVE  \/ Len(w) > Inline /\ v = <<>>
           \/ ~(Len(w) > Inline) /\ ~Valid(w) /\ v = <<>>
           \/ ~(Len(w) > Inline) /\ Valid(w) /\ Document(w) /\ v = Indented(w)
           \/ ~(Len(w) > Inline) /\ Valid(w) /\ ~Document(w) /\ v = TextArea(w)
<1>1. ~Document(<<>>) /\ Valid(<<>>) /\ TextArea(<<>>) = <<>>
  BY DEF Document, Contains, Valid, TextArea
<1>2. PICK b : b = (IF Len(w) > Inline /\ ~pending THEN <<>> ELSE Prefix(w, Inline))
  OBVIOUS
<1>3. PICK u : u = EditableBody(Payload(w, pending))
  OBVIOUS
<1>4. v = TextArea(u)
  BY <1>3
<1>5. u = IF Valid(b) THEN IF Document(b) /\ ~(Len(w) > Inline) THEN Indented(b) ELSE b
          ELSE IF Document(<<>>) /\ ~(Len(w) > Inline) THEN Indented(<<>>) ELSE <<>>
  BY <1>2, <1>3, PayloadBody
<1>6. CASE Len(w) > Inline
  BY <1>1, <1>2, <1>4, <1>5, <1>6
<1>7. CASE ~(Len(w) > Inline)
  <2>1. b = w
    <3>1. Inline \in Nat
      BY PayloadsAssumption
    <3> QED
      BY <1>2, <1>7, <3>1, PrefixProperties
  <2>2. CASE ~Valid(w)
    BY <1>1, <1>4, <1>5, <1>7, <2>1, <2>2
  <2>3. CASE Valid(w) /\ Document(w)
    <3>1. u = Indented(w)
      BY <1>5, <1>7, <2>1, <2>3
    <3>2. TextArea(u) = u
      BY <2>3, <3>1, IndentedTwice
    <3> QED
      BY <1>4, <1>7, <2>3, <3>1, <3>2
  <2>4. CASE Valid(w) /\ ~Document(w)
    BY <1>4, <1>5, <1>7, <2>1, <2>4
  <2> QED
    BY <2>2, <2>3, <2>4
<1> QED
  BY <1>6, <1>7

\* The text that is sent is the text there was, and sent again it stays as it is.
LEMMA BodyAgain ==
    ASSUME NEW w \in Seq(Letters), NEW pending \in BOOLEAN, ~(pending /\ Len(w) > Inline),
           NEW v, v = TextArea(EditableBody(Payload(w, pending)))
    PROVE  /\ v \in Seq(Letters)
           /\ \/ Unbroken(v) = Unbroken(w)
              \/ v = <<>> /\ (~Valid(w) \/ Len(w) > Inline)
           /\ ~(Len(v) > Inline) => TextArea(EditableBody(Payload(v, FALSE))) = v
<1>1. \/ Len(w) > Inline /\ v = <<>>
      \/ ~(Len(w) > Inline) /\ ~Valid(w) /\ v = <<>>
      \/ ~(Len(w) > Inline) /\ Valid(w) /\ Document(w) /\ v = Indented(w)
      \/ ~(Len(w) > Inline) /\ Valid(w) /\ ~Document(w) /\ v = TextArea(w)
  BY FormBody
<1>2. ASSUME v \in Seq(Letters), ~(Len(v) > Inline), Valid(v), TextArea(v) = v,
             Document(v) => Indented(v) = v
      PROVE  TextArea(EditableBody(Payload(v, FALSE))) = v
  <2>1. PICK x, no : no \in BOOLEAN /\ no = FALSE /\ x = TextArea(EditableBody(Payload(v, no)))
    OBVIOUS
  <2>2. \/ Len(v) > Inline /\ x = <<>>
        \/ ~(Len(v) > Inline) /\ ~Valid(v) /\ x = <<>>
        \/ ~(Len(v) > Inline) /\ Valid(v) /\ Document(v) /\ x = Indented(v)
        \/ ~(Len(v) > Inline) /\ Valid(v) /\ ~Document(v) /\ x = TextArea(v)
    BY <1>2, <2>1, FormBody
  <2> QED
    BY <1>2, <2>1, <2>2
<1>3. CASE v = <<>>  /\ (~Valid(w) \/ Len(w) > Inline)
  <2>1. <<>> \in Seq(Letters) /\ Valid(<<>>) /\ TextArea(<<>>) = <<>> /\ ~Document(<<>>)
    BY DEF Document, Contains, Valid, TextArea
  <2> QED
    BY <1>2, <1>3, <2>1
<1>4. CASE Valid(w) /\ Document(w) /\ v = Indented(w)
  <2>1. /\ v \in Seq(Letters) /\ Document(v) /\ Valid(v) /\ Indented(v) = v
        /\ TextArea(v) = v /\ Unbroken(v) = Unbroken(w)
    BY <1>4, IndentedTwice
  <2> QED
    BY <1>2, <2>1
<1>5. CASE Valid(w) /\ ~Document(w) /\ v = TextArea(w)
  <2>1. v \in Seq(Letters)
    BY <1>5, AreaText
  <2>2. Unbroken(v) = Unbroken(w) /\ TextArea(v) = v /\ Valid(v) /\ ~Document(v)
    BY <1>5, AreaKeeps
  <2> QED
    BY <1>2, <2>1, <2>2
<1> QED
  BY <1>1, <1>3, <1>4, <1>5

\* A request with headers and a body of any letters.
IsRequest(e) ==
    /\ e.headers \in [HeaderNames -> Seq(Seq(Letters))]
    /\ e.body \in Seq(Letters)

\* What is sent of a header, and of that when it is sent again.
LEMMA HeaderAgain ==
    ASSUME NEW h \in Seq(Seq(Letters)), NEW v,
           v = (IF h = <<>> THEN <<>> ELSE <<JSONText(FlattenHeader(h))>>)
    PROVE  /\ Len(v) <= 1 /\ FlattenHeader(v) = JSONText(FlattenHeader(h))
           /\ (IF v = <<>> THEN <<>> ELSE <<JSONText(FlattenHeader(v))>>) = v
<1>1. CASE h = <<>>
  <2>1. v = <<>> /\ Len(v) <= 1
    BY <1>1
  <2>2. JSONText(<<>>) = <<>>
    BY DEF JSONText
  <2> QED
    BY <1>1, <2>1, <2>2, HeaderEmpty
<1>2. CASE h # <<>>
  <2>1. PICK x \in Seq(Letters) : x = FlattenHeader(h)
    BY JoinedPieces
  <2>2. PICK y \in Seq(Letters) : y = JSONText(x)
    BY JSONBytes
  <2>3. JSONText(y) = y
    BY <2>2, JSONTwice
  <2>4. v = <<y>> /\ v # <<>> /\ Len(v) <= 1
    BY <1>2, <2>1, <2>2
  <2>5. FlattenHeader(<<y>>) = y
    BY HeaderOne
  <2> QED
    BY <2>1, <2>2, <2>3, <2>4, <2>5
<1> QED
  BY <1>1, <1>2

\* The request a form that was filled from another makes.
LEMMA ReplayedFields ==
    ASSUME NEW e, IsRequest(e), NEW pending, NEW r, r = Replayed(e, pending)
    PROVE  /\ r = [method |-> r.method, headers |-> r.headers, body |-> r.body]
           /\ r.method \in Offered /\ (e.method \in Offered => r.method = e.method)
           /\ r.headers = [n \in HeaderNames |->
                 IF n \in StrippedHeaders THEN <<>>
                 ELSE IF e.headers[n] = <<>> THEN <<>>
                      ELSE <<JSONText(FlattenHeader(e.headers[n]))>>]
           /\ r.body = TextArea(EditableBody(Payload(e.body, pending)))
<1>1. PICK f : f = Form(e, pending)
  OBVIOUS
<1> DEFINE H == [n \in HeaderNames |->
                   IF e.headers[n] = <<>> THEN <<>> ELSE <<JSONText(FlattenHeader(e.headers[n]))>>]
           B == TextArea(EditableBody(Payload(e.body, pending)))
<1>2. f = [method |-> IF e.method \in Offered THEN e.method ELSE "", headers |-> H, body |-> B]
  BY <1>1, Zenon DEF Form
<1> HIDE DEF B
<1>3. f.method = (IF e.method \in Offered THEN e.method ELSE "") /\ f.headers = H /\ f.body = B
  <2> HIDE DEF H
  <2> QED
    BY <1>2
<1>4. r = [method  |-> IF f.method = "" THEN "GET" ELSE f.method,
           headers |-> [n \in HeaderNames |->
                          IF n \in StrippedHeaders THEN <<>> ELSE f.headers[n]],
           body    |-> f.body]
  BY <1>1, Zenon DEF Replayed, Replay
<1>5. PICK m, h, b :
        /\ r = [method |-> m, headers |-> h, body |-> b]
        /\ m = (IF f.method = "" THEN "GET" ELSE f.method)
        /\ h = [n \in HeaderNames |-> IF n \in StrippedHeaders THEN <<>> ELSE f.headers[n]]
        /\ b = f.body
  BY <1>4, Zenon
<1>6. r.method = m /\ r.headers = h /\ r.body = b
  <2>1. r = [method |-> m, headers |-> h, body |-> b]
    BY <1>5
  <2> QED
    BY <2>1
<1>7. m \in Offered /\ (e.method \in Offered => m = e.method)
  BY <1>3, <1>5 DEF Offered
<1>8. h = [n \in HeaderNames |->
             IF n \in StrippedHeaders THEN <<>>
             ELSE IF e.headers[n] = <<>> THEN <<>>
                  ELSE <<JSONText(FlattenHeader(e.headers[n]))>>]
  <2>1. \A n \in HeaderNames : f.headers[n] =
          IF e.headers[n] = <<>> THEN <<>> ELSE <<JSONText(FlattenHeader(e.headers[n]))>>
    BY <1>3
  <2> HIDE DEF H
  <2> QED
    BY <1>5, <2>1
<1> QED
  BY <1>3, <1>5, <1>6, <1>7, <1>8 DEF B

(***************************************************************************)
(* Whatever a request holds, renderComposer and Replay make of it the      *)
(* request ReplayKeeps describes, and of that the same request again.      *)
(***************************************************************************)
THEOREM ReplayAny ==
    ASSUME NEW e, IsRequest(e), NEW pending \in BOOLEAN
    PROVE  ReplayKeeps(e, pending)
<1>1. PICK r : r = Replayed(e, pending)
  OBVIOUS
<1>2. /\ r = [method |-> r.method, headers |-> r.headers, body |-> r.body]
      /\ r.method \in Offered /\ (e.method \in Offered => r.method = e.method)
      /\ r.headers = [n \in HeaderNames |->
            IF n \in StrippedHeaders THEN <<>>
            ELSE IF e.headers[n] = <<>> THEN <<>>
                 ELSE <<JSONText(FlattenHeader(e.headers[n]))>>]
      /\ r.body = TextArea(EditableBody(Payload(e.body, pending)))
  BY <1>1, ReplayedFields
<1>3. e.headers \in [HeaderNames -> Seq(Seq(Letters))] /\ e.body \in Seq(Letters)
  BY DEF IsRequest
<1>4. ASSUME NEW n \in HeaderNames
      PROVE  /\ r.headers[n] \in Seq(Seq(Letters))
             /\ n \in StrippedHeaders => r.headers[n] = <<>>
             /\ n \notin StrippedHeaders =>
                   /\ Len(r.headers[n]) <= 1
                   /\ FlattenHeader(r.headers[n]) = JSONText(FlattenHeader(e.headers[n]))
                   /\ (IF r.headers[n] = <<>> THEN <<>>
                       ELSE <<JSONText(FlattenHeader(r.headers[n]))>>) = r.headers[n]
  <2>1. PICK h \in Seq(Seq(Letters)) : h = e.headers[n]
    BY <1>3
  <2>2. PICK v : v = r.headers[n]
    OBVIOUS
  <2>3. v = IF n \in StrippedHeaders THEN <<>>
            ELSE IF h = <<>> THEN <<>> ELSE <<JSONText(FlattenHeader(h))>>
    BY <1>2, <2>1, <2>2
  <2>4. v \in Seq(Seq(Letters))
    <3>1. PICK x \in Seq(Letters) : x = FlattenHeader(h)
      BY JoinedPieces
    <3>2. PICK y \in Seq(Letters) : y = JSONText(x)
      BY JSONBytes
    <3>3. <<>> \in Seq(Seq(Letters)) /\ <<y>> \in Seq(Seq(Letters))
      OBVIOUS
    <3> QED
      BY <2>3, <3>1, <3>2, <3>3
  <2>5. ASSUME n \notin StrippedHeaders
        PROVE  /\ Len(v) <= 1 /\ FlattenHeader(v) = JSONText(FlattenHeader(h))
               /\ (IF v = <<>> THEN <<>> ELSE <<JSONText(FlattenHeader(v))>>) = v
    <3>1. v = IF h = <<>> THEN <<>> ELSE <<JSONText(FlattenHeader(h))>>
      BY <2>3, <2>5
    <3> QED
      BY <3>1, HeaderAgain
  <2> QED
    BY <2>1, <2>2, <2>3, <2>4, <2>5
<1>5. PICK w \in Seq(Letters) : w = e.body
  BY <1>3
<1>6. PICK v : v = r.body /\ v = TextArea(EditableBody(Payload(w, pending)))
  BY <1>2, <1>5
<1>7. ASSUME ~(pending /\ Len(w) > Inline)
      PROVE  /\ \/ Unbroken(v) = Unbroken(w)
                \/ v = <<>> /\ (~Valid(w) \/ Len(w) > Inline)
             /\ Len(v) <= Inline => Replayed(r, FALSE) = r
  <2>1. /\ v \in Seq(Letters)
        /\ \/ Unbroken(v) = Unbroken(w)
           \/ v = <<>> /\ (~Valid(w) \/ Len(w) > Inline)
        /\ ~(Len(v) > Inline) => TextArea(EditableBody(Payload(v, FALSE))) = v
    BY <1>6, <1>7, BodyAgain
  <2>2. ASSUME Len(v) <= Inline PROVE Replayed(r, FALSE) = r
    <3>1. ~(Len(v) > Inline)
      BY <2>1, <2>2, PayloadsAssumption
    <3>2. PICK no, x : no = FALSE /\ x = Replayed(r, no)
      OBVIOUS
    <3>3. r.headers \in [HeaderNames -> Seq(Seq(Letters))]
      BY <1>2, <1>4
    <3>4. IsRequest(r)
      BY <1>6, <2>1, <3>3 DEF IsRequest
    <3>5. /\ x = [method |-> x.method, headers |-> x.headers, body |-> x.body]
          /\ (r.method \in Offered => x.method = r.method)
          /\ x.headers = [n \in HeaderNames |->
                IF n \in StrippedHeaders THEN <<>>
                ELSE IF r.headers[n] = <<>> THEN <<>>
                     ELSE <<JSONText(FlattenHeader(r.headers[n]))>>]
          /\ x.body = TextArea(EditableBody(Payload(r.body, no)))
      BY <3>2, <3>4, ReplayedFields
    <3>6. x.method = r.method
      BY <1>2, <3>5
    <3>7. x.body = r.body
      BY <1>6, <2>1, <3>1, <3>2, <3>5
    <3>8. x.headers = r.headers
      <4>1. ASSUME NEW n \in HeaderNames PROVE x.headers[n] = r.headers[n]
        BY <1>4, <3>5
      <4>2. x.headers = [n \in HeaderNames |-> x.headers[n]]
        BY <3>5
      <4>3. r.headers = [n \in HeaderNames |-> r.headers[n]]
        BY <3>3
      <4> QED
        BY <4>1, <4>2, <4>3
    <3>9. x = r
      BY <1>2, <3>5, <3>6, <3>7, <3>8
    <3> QED
      BY <3>2, <3>9
  <2> QED
    BY <2>1, <2>2
<1> QED
  BY <1>1, <1>2, <1>4, <1>5, <1>6, <1>7 DEF ReplayKeeps

-------------------------------------------------------------------------------
(***************************************************************************)
(* The pages of the history.                                               *)
(***************************************************************************)
\* The first n positions are n.
LEMMA Count ==
    ASSUME NEW n \in Nat
    PROVE  IsFiniteSet(1 .. n) /\ Cardinality(1 .. n) = n
BY FS_Interval

\* Every element of a finite set is in each of its arrangements, once.
LEMMA Arranged ==
    ASSUME NEW S, IsFiniteSet(S), NEW q \in SetToSeqs(S)
    PROVE  /\ q \in Seq(S)
           /\ \A i, j \in 1 .. Len(q) : i # j => q[i] # q[j]
           /\ \A x \in S : \E k \in 1 .. Len(q) : q[k] = x
<1> DEFINE n == Cardinality(S)
<1>1. n \in Nat
  BY FS_CardinalityType
<1>2. q \in [1 .. n -> S] /\ \A i, j \in 1 .. n : i # j => q[i] # q[j]
  BY DEF SetToSeqs
<1> HIDE DEF n
<1>3. q \in Seq(S) /\ Len(q) = n
  BY <1>1, <1>2, TableSeq
<1>4. \A x \in S : \E k \in 1 .. n : q[k] = x
  <2>1. q \in Injection(1 .. n, S)
    BY <1>2 DEF Injection, IsInjective
  <2>2. IsFiniteSet(1 .. n) /\ Cardinality(1 .. n) = n
    BY <1>1, Count
  <2>3. q \in Surjection(1 .. n, S)
    BY <2>1, <2>2, FS_Injection DEF n
  <2> QED
    BY <2>3 DEF Surjection
<1> QED
  BY <1>2, <1>3, <1>4

\* The elements have an instant.
Timed(q) == \A i \in 1 .. Len(q) : q[i].at \in Nat

\* The positions sort.SliceStable puts before i, and i.
Ahead(q, i) ==
    {j \in 1 .. Len(q) : q[j].at > q[i].at \/ (q[j].at = q[i].at /\ j <= i)}

\* An element is among the positions, and they are finitely many.
LEMMA PlaceRange ==
    ASSUME NEW E, NEW q \in Seq(E), Timed(q), NEW i \in 1 .. Len(q)
    PROVE  /\ IsFiniteSet(Ahead(q, i)) /\ i \in Ahead(q, i)
           /\ Place(q, i) = Cardinality(Ahead(q, i)) /\ Place(q, i) \in 1 .. Len(q)
<1>1. PICK n \in Nat : n = Len(q)
  OBVIOUS
<1>2. PICK A : A = Ahead(q, i)
  OBVIOUS
<1>3. A \subseteq 1 .. n /\ i \in A
  BY <1>1, <1>2 DEF Ahead, Timed
<1>4. IsFiniteSet(1 .. n) /\ Cardinality(1 .. n) = n
  BY Count
<1>5. IsFiniteSet(A) /\ Cardinality(A) <= n
  BY <1>3, <1>4, FS_Subset
<1>6. Cardinality(A) \in Nat /\ Cardinality(A) # 0
  BY <1>3, <1>5, FS_CardinalityType, FS_EmptySet
<1>7. Place(q, i) = Cardinality(A)
  BY <1>2, Zenon DEF Place, Ahead
<1> QED
  BY <1>1, <1>2, <1>3, <1>5, <1>6, <1>7

\* What goes before another has a smaller place.
LEMMA PlaceLess ==
    ASSUME NEW E, NEW q \in Seq(E), Timed(q), NEW i \in 1 .. Len(q), NEW j \in 1 .. Len(q),
           q[i].at > q[j].at \/ (q[i].at = q[j].at /\ i < j)
    PROVE  Place(q, i) < Place(q, j)
<1>1. PICK A, B : A = Ahead(q, i) /\ B = Ahead(q, j)
  OBVIOUS
<1>2. IsFiniteSet(B) /\ j \in B /\ Place(q, i) = Cardinality(A) /\ Place(q, j) = Cardinality(B)
      /\ Place(q, i) \in Nat /\ Place(q, j) \in Nat
  BY <1>1, PlaceRange
<1>3. j \notin A
  BY <1>1 DEF Ahead, Timed
<1>4. A \subseteq B
  <2>1. ASSUME NEW k \in A PROVE k \in B
    <3>1. k \in 1 .. Len(q) /\ (q[k].at > q[i].at \/ (q[k].at = q[i].at /\ k <= i))
      BY <1>1 DEF Ahead
    <3>2. q[k].at \in Nat /\ q[i].at \in Nat /\ q[j].at \in Nat
      BY <3>1 DEF Timed
    <3>3. q[k].at > q[j].at \/ (q[k].at = q[j].at /\ k <= j)
      BY <3>1, <3>2
    <3> QED
      BY <1>1, <3>1, <3>3 DEF Ahead
  <2> QED
    BY <2>1
<1>5. Cardinality(A) <= Cardinality(B) /\ Cardinality(A) # Cardinality(B)
  BY <1>2, <1>3, <1>4, FS_Subset
<1> QED
  BY <1>2, <1>5

\* p tells which element of c comes at each place of c in order.
Order(c, p) ==
    /\ p \in [1 .. Len(c) -> 1 .. Len(c)]
    /\ \A i, j \in 1 .. Len(c) : p[i] = p[j] => i = j
    /\ \A a \in 1 .. Len(c) : \E k \in 1 .. Len(c) : p[k] = a
    /\ \A i, j \in 1 .. Len(c) : i < j => c[p[i]].at >= c[p[j]].at

(***************************************************************************)
(* sort.SliceStable, as Sorted has it, puts every element somewhere, newest *)
(* first.                                                                  *)
(***************************************************************************)
LEMMA SortedOrder ==
    ASSUME NEW E, NEW q \in Seq(E), Timed(q)
    PROVE  \E p : Order(q, p) /\ Sorted(q) = [k \in 1 .. Len(q) |-> q[p[k]]]
<1>1. PICK n \in Nat : n = Len(q)
  OBVIOUS
<1>2. PICK r : r = [i \in 1 .. n |-> Place(q, i)]
  OBVIOUS
<1>3. r \in [1 .. n -> 1 .. n]
  BY <1>1, <1>2, PlaceRange
<1>4. ASSUME NEW i \in 1 .. n, NEW j \in 1 .. n,
             q[i].at > q[j].at \/ (q[i].at = q[j].at /\ i < j)
      PROVE  r[i] < r[j]
  <2>1. Place(q, i) < Place(q, j)
    BY <1>1, <1>4, PlaceLess
  <2> QED
    BY <1>2, <2>1
<1>5. ASSUME NEW i \in 1 .. n, NEW j \in 1 .. n, r[i] = r[j] PROVE i = j
  <2>1. q[i].at \in Nat /\ q[j].at \in Nat
    BY <1>1 DEF Timed
  <2>2. ~(r[i] < r[j]) /\ ~(r[j] < r[i])
    BY <1>3, <1>5
  <2> QED
    BY <1>4, <2>1, <2>2
<1>6. r \in Surjection(1 .. n, 1 .. n)
  <2>1. r \in Injection(1 .. n, 1 .. n)
    BY <1>3, <1>5 DEF Injection, IsInjective
  <2>2. IsFiniteSet(1 .. n)
    BY Count
  <2> QED
    BY <2>1, <2>2, FS_Injection
<1>7. \A k \in 1 .. n : \E i \in 1 .. n : r[i] = k
  BY <1>6 DEF Surjection
<1>8. PICK p : p = [k \in 1 .. n |-> CHOOSE i \in 1 .. n : r[i] = k]
  OBVIOUS
<1>9. ASSUME NEW k \in 1 .. n PROVE p[k] \in 1 .. n /\ r[p[k]] = k
  BY <1>7, <1>8
<1>10. p \in [1 .. n -> 1 .. n]
  BY <1>8, <1>9
<1>11. ASSUME NEW i \in 1 .. n, NEW j \in 1 .. n, p[i] = p[j] PROVE i = j
  BY <1>9, <1>11
<1>12. ASSUME NEW a \in 1 .. n PROVE \E k \in 1 .. n : p[k] = a
  <2>1. r[a] \in 1 .. n
    BY <1>3
  <2>2. p[r[a]] \in 1 .. n /\ r[p[r[a]]] = r[a]
    BY <1>9, <2>1
  <2>3. p[r[a]] = a
    BY <1>5, <2>2
  <2> QED
    BY <2>1, <2>3
<1>13. ASSUME NEW i \in 1 .. n, NEW j \in 1 .. n, i < j PROVE q[p[i]].at >= q[p[j]].at
  <2>1. PICK a \in 1 .. n, b \in 1 .. n : a = p[i] /\ b = p[j] /\ r[a] = i /\ r[b] = j
    BY <1>9
  <2>2. q[a].at \in Nat /\ q[b].at \in Nat
    BY <1>1 DEF Timed
  <2>3. ~(q[b].at > q[a].at)
    <3>1. ~(r[b] < r[a])
      BY <1>13, <2>1
    <3> QED
      BY <1>4, <3>1
  <2> QED
    BY <2>1, <2>2, <2>3
<1>14. Order(q, p)
  BY <1>1, <1>10, <1>11, <1>12, <1>13 DEF Order
<1>15. Sorted(q) = [k \in 1 .. Len(q) |-> q[p[k]]]
  <2>1. \A k \in 1 .. n : p[k] = CHOOSE i \in 1 .. n : Place(q, i) = k
    <3>1. ASSUME NEW k \in 1 .. n
          PROVE  (CHOOSE i \in 1 .. n : r[i] = k) = (CHOOSE i \in 1 .. n : Place(q, i) = k)
      <4>1. \A i \in 1 .. n : r[i] = k <=> Place(q, i) = k
        BY <1>2
      <4> QED
        BY <4>1
    <3> QED
      BY <1>8, <3>1
  <2>2. Sorted(q) = [k \in 1 .. n |-> q[CHOOSE i \in 1 .. n : Place(q, i) = k]]
    <3>1. Sorted(q) = [k \in 1 .. Len(q) |-> q[CHOOSE i \in 1 .. Len(q) : Place(q, i) = k]]
      BY DEF Sorted
    <3> QED
      BY <1>1, <3>1
  <2> QED
    BY <1>1, <2>1, <2>2
<1> QED
  BY <1>14, <1>15

\* Milliseconds keep the order of instants, and the cursor is the first of its millisecond.
LEMMA MilliOrder ==
    ASSUME NEW s \in Nat, NEW t \in Nat
    PROVE  s >= t => UnixMilli(s) >= UnixMilli(t)
<1>1. PICK n \in Nat \ {0} : n = Tick
  BY ListingAssumption
<1>2. PICK x \in Nat, y \in Nat : x = s \div n /\ y = t \div n
  OBVIOUS
<1>3. n * x <= s /\ s < n * (x + 1) /\ n * y <= t
  BY <1>2
<1>4. s >= t => n * y < n * (x + 1)
  BY <1>3
<1>5. n * y < n * (x + 1) => y < x + 1
  OBVIOUS
<1> QED
  BY <1>1, <1>2, <1>4, <1>5 DEF UnixMilli

\* An exchange is older than a cursor when its millisecond is.
LEMMA MilliCursor ==
    ASSUME NEW t \in Nat, NEW k \in Nat
    PROVE  t < FromMilli(k) <=> UnixMilli(t) < k
<1>1. PICK n \in Nat \ {0} : n = Tick
  BY ListingAssumption
<1>2. PICK x \in Nat : x = t \div n
  OBVIOUS
<1>3. n * x <= t /\ t < n * (x + 1)
  BY <1>2
<1>4. ASSUME t < k * n PROVE x < k
  <2>1. n * x < n * k
    BY <1>3, <1>4
  <2> QED
    BY <2>1
<1>5. ASSUME x < k PROVE t < k * n
  <2>1. n * (x + 1) <= n * k
    BY <1>5
  <2> QED
    BY <1>3, <2>1
<1> QED
  BY <1>1, <1>2, <1>4, <1>5 DEF UnixMilli, FromMilli

\* A history: finitely many entries, each with an id of its own.
History(E) ==
    /\ IsFiniteSet(E)
    /\ \A e \in E : e = [id |-> e.id, at |-> e.at] /\ e.at \in Nat
    /\ \A e \in E, f \in E : e.id = f.id => e = f

\* What a client asks for: the exchanges older than the cursor.
Older(E, ms) == {e \in E : ms = Absent \/ UnixMilli(e.at) < ms}

\* x is entry e, or what the database made of it.
Stands(x, e) == x.id = e.id /\ x.at \in Nat /\ UnixMilli(x.at) = UnixMilli(e.at)

\* c is put together from the entries O of the two tiers, but for some that are not newer than
\* any of the last L elements of c.
Mixed(c, O, L) ==
    /\ \A a \in 1 .. Len(c) : \E e \in O : Stands(c[a], e)
    /\ \A a, b \in 1 .. Len(c) : c[a].id = c[b].id => a = b
    /\ \A e \in O :
          \/ \E a \in 1 .. Len(c) : Stands(c[a], e)
          \/ \E k \in Nat : /\ k + L = Len(c)
                            /\ \A b \in 1 .. L : UnixMilli(c[k + b].at) >= UnixMilli(e.at)

\* An entry as the database hands it back has its id and its millisecond.
LEMMA ScannedStands ==
    ASSUME NEW E, History(E), NEW e \in E
    PROVE  Stands(e, e) /\ Stands(Scanned(e), e)
<1>1. PICK t \in Nat : t = e.at
  BY DEF History
<1>2. e = [id |-> e.id, at |-> t]
  BY <1>1 DEF History
<1>3. PICK k \in Nat : k = UnixMilli(t)
  BY MilliType
<1>4. UnixMilli(FromMilli(k)) = k /\ FromMilli(k) \in Nat
  BY MilliExact
<1>5. PICK x : x = Scanned(e)
  OBVIOUS
<1>6. x = [e EXCEPT !.at = FromMilli(k)]
  BY <1>1, <1>3, <1>5, Zenon DEF Scanned
<1>7. x.id = e.id /\ x.at = FromMilli(k)
  BY <1>2, <1>6
<1> QED
  BY <1>1, <1>3, <1>4, <1>5, <1>7 DEF Stands

\* All of the entries O that are in mem, each once.
FromMem(m, mem, O) ==
    /\ m \in Seq(mem)
    /\ \A a \in 1 .. Len(m) : m[a] \in O
    /\ \A a, b \in 1 .. Len(m) : m[a].id = m[b].id => a = b
    /\ \A e \in O : e \in mem => \E a \in 1 .. Len(m) : m[a] = e

\* The memory's half.
LEMMA MemHalf ==
    ASSUME NEW E, History(E), NEW mem \in SUBSET E, NEW ms \in {Absent} \cup Nat, NEW before,
           before = (IF ms = Absent THEN ms ELSE FromMilli(ms)), NEW m \in MemList(mem, before)
    PROVE  FromMem(m, mem, Older(E, ms))
<1> DEFINE S == {e \in mem : before = Absent \/ e.at < before}
<1>1. S = {e \in mem : ms = Absent \/ UnixMilli(e.at) < ms}
  <2>1. CASE ms = Absent
    BY <2>1
  <2>2. CASE ms # Absent
    <3>1. PICK k \in Nat : k = ms
      BY <2>2
    <3>2. before = FromMilli(k) /\ before # Absent
      <4>1. before = FromMilli(k)
        BY <2>2, <3>1
      <4>2. FromMilli(k) \in Nat /\ Absent \notin Nat
        BY MilliExact, ListingAssumption
      <4> QED
        BY <4>1, <4>2
    <3>3. ASSUME NEW e \in mem PROVE e.at < before <=> UnixMilli(e.at) < k
      <4>1. e.at \in Nat
        BY DEF History
      <4> QED
        BY <3>2, <4>1, MilliCursor
    <3> QED
      BY <2>2, <3>1, <3>2, <3>3
  <2> QED
    BY <2>1, <2>2
<1>2. m \in SetToSeqs(S)
  BY DEF MemList
<1> HIDE DEF S
<1>3. S \subseteq E /\ S \subseteq mem /\ S \subseteq Older(E, ms)
  BY <1>1 DEF Older
<1>4. IsFiniteSet(S)
  BY <1>3, FS_Subset DEF History
<1>5. /\ m \in Seq(S) /\ \A i, j \in 1 .. Len(m) : i # j => m[i] # m[j]
      /\ \A x \in S : \E k \in 1 .. Len(m) : m[k] = x
  BY <1>2, <1>4, Arranged
<1>6. m \in Seq(mem)
  BY <1>3, <1>5, SeqWider
<1>7. \A a \in 1 .. Len(m) : m[a] \in S
  BY <1>5
<1>8. ASSUME NEW a \in 1 .. Len(m), NEW b \in 1 .. Len(m), m[a].id = m[b].id PROVE a = b
  <2>1. m[a] \in E /\ m[b] \in E
    BY <1>3, <1>7
  <2>2. m[a] = m[b]
    BY <1>8, <2>1 DEF History
  <2> QED
    BY <1>5, <2>2
<1>9. ASSUME NEW e \in Older(E, ms), e \in mem PROVE \E a \in 1 .. Len(m) : m[a] = e
  <2>1. e \in S
    BY <1>1, <1>9 DEF Older
  <2> QED
    BY <1>5, <2>1
<1> QED
  BY <1>3, <1>6, <1>7, <1>8, <1>9 DEF FromMem

\* The newest of the entries O that are in db, each once, L of them if some are left out.
FromDB(d, db, O, L) ==
    /\ d \in Seq({Scanned(e) : e \in db})
    /\ \A a \in 1 .. Len(d) : \E e \in O : e \in db /\ d[a] = Scanned(e)
    /\ \A a, b \in 1 .. Len(d) : d[a].id = d[b].id => a = b
    /\ \A e \in O : e \in db =>
          \/ \E a \in 1 .. Len(d) : d[a] = Scanned(e)
          \/ Len(d) = L /\ \A a \in 1 .. L : UnixMilli(d[a].at) >= UnixMilli(e.at)

\* The database's half: what is left out is not newer than what is there.
LEMMA DBHalf ==
    ASSUME NEW E, History(E), NEW db \in SUBSET E, NEW ms \in {Absent} \cup Nat, NEW before,
           before = (IF ms = Absent THEN ms ELSE FromMilli(ms)),
           NEW L \in Nat, NEW d \in DBList(db, L, before)
    PROVE  FromDB(d, db, Older(E, ms), L)
<1> DEFINE D == {e \in db : before = Absent \/ UnixMilli(e.at) < UnixMilli(before)}
           F == {Scanned(e) : e \in D}
<1>1. D = {e \in db : ms = Absent \/ UnixMilli(e.at) < ms}
  <2>1. CASE ms = Absent
    BY <2>1
  <2>2. CASE ms # Absent
    <3>1. PICK k \in Nat : k = ms
      BY <2>2
    <3>2. before = FromMilli(k) /\ before # Absent /\ UnixMilli(before) = k
      <4>1. before = FromMilli(k)
        BY <2>2, <3>1
      <4>2. FromMilli(k) \in Nat /\ Absent \notin Nat /\ UnixMilli(FromMilli(k)) = k
        BY MilliExact, ListingAssumption
      <4> QED
        BY <4>1, <4>2
    <3> QED
      BY <2>2, <3>1, <3>2
  <2> QED
    BY <2>1, <2>2
<1>2. PICK q \in SetToSeqs(F) : Newest(q) /\ d = Prefix(q, L)
  BY DEF DBList
<1> HIDE DEF D
<1>3. D \subseteq E /\ D \subseteq db /\ D \subseteq Older(E, ms)
  BY <1>1 DEF Older
<1>4. \A x \in F : \E e \in D : x = Scanned(e)
  OBVIOUS
<1>5. \A e \in D : Scanned(e) \in F /\ Stands(Scanned(e), e)
  BY <1>3, ScannedStands
<1> HIDE DEF F
<1>6. IsFiniteSet(F)
  <2>1. PICK g : g = [x \in F |-> CHOOSE e \in D : x = Scanned(e)]
    OBVIOUS
  <2>2. \A x \in F : g[x] \in D /\ x = Scanned(g[x])
    BY <1>4, <2>1
  <2>3. g \in [F -> D]
    BY <2>1, <2>2
  <2>4. \A x, y \in F : g[x] = g[y] => x = y
    BY <2>2
  <2>5. g \in Injection(F, D)
    BY <2>3, <2>4 DEF Injection, IsInjective
  <2>6. IsFiniteSet(D)
    BY <1>3, FS_Subset DEF History
  <2> QED
    BY <2>5, <2>6, FS_Injection
<1>7. /\ q \in Seq(F) /\ \A i, j \in 1 .. Len(q) : i # j => q[i] # q[j]
      /\ \A x \in F : \E k \in 1 .. Len(q) : q[k] = x
  BY <1>2, <1>6, Arranged
<1>8. PICK n \in Nat : /\ n = (IF L < Len(q) THEN L ELSE Len(q)) /\ n <= Len(q)
                       /\ d = SubSeq(q, 1, n)
  <2>1. Len(q) \in Nat
    BY <1>7
  <2> QED
    BY <1>2, <2>1 DEF Prefix
<1>9. d \in Seq(F) /\ Len(d) = n /\ \A i \in 1 .. n : d[i] = q[i]
  BY <1>7, <1>8, SubSeqFirst
<1>10. d \in Seq({Scanned(e) : e \in db})
  <2>1. F \subseteq {Scanned(e) : e \in db}
    BY <1>3, <1>4
  <2> QED
    BY <1>9, <2>1, SeqWider
<1>11. ASSUME NEW i \in 1 .. Len(q)
       PROVE  \E e \in D : q[i] = Scanned(e) /\ Stands(q[i], e)
  <2>1. q[i] \in F
    BY <1>7
  <2> QED
    BY <1>4, <1>5, <2>1
<1>12. ASSUME NEW a \in 1 .. Len(q), NEW b \in 1 .. Len(q), q[a].id = q[b].id PROVE a = b
  <2>1. PICK e \in D : q[a] = Scanned(e) /\ q[a].id = e.id
    BY <1>11 DEF Stands
  <2>2. PICK f \in D : q[b] = Scanned(f) /\ q[b].id = f.id
    BY <1>11 DEF Stands
  <2>3. e = f
    BY <1>3, <1>12, <2>1, <2>2 DEF History
  <2> QED
    BY <1>7, <2>1, <2>2, <2>3
<1>13. \A i \in 1 .. n : i \in 1 .. Len(q)
  BY <1>7, <1>8
<1>14. ASSUME NEW e \in Older(E, ms), e \in db
       PROVE  \/ \E a \in 1 .. Len(d) : d[a] = Scanned(e)
              \/ Len(d) = L /\ \A a \in 1 .. L : UnixMilli(d[a].at) >= UnixMilli(e.at)
  <2>1. e \in D
    BY <1>1, <1>14 DEF Older
  <2>2. PICK k \in 1 .. Len(q) : q[k] = Scanned(e)
    BY <1>5, <1>7, <2>1
  <2>3. CASE k <= n
    <3>1. k \in 1 .. n
      BY <2>3
    <3> QED
      BY <1>9, <2>2, <3>1
  <2>4. CASE ~(k <= n)
    <3>1. n = L
      BY <1>7, <1>8, <2>4
    <3>2. ASSUME NEW a \in 1 .. L PROVE UnixMilli(d[a].at) >= UnixMilli(e.at)
      <4>1. a \in 1 .. n /\ a \in 1 .. Len(q) /\ a < k
        BY <1>13, <2>4, <3>1
      <4>2. q[a].at >= q[k].at
        BY <1>2, <4>1 DEF Newest
      <4>3. q[a].at \in Nat
        BY <1>11, <4>1 DEF Stands
      <4>4. q[k].at \in Nat /\ UnixMilli(q[k].at) = UnixMilli(e.at)
        BY <1>5, <2>1, <2>2 DEF Stands
      <4>5. UnixMilli(q[a].at) >= UnixMilli(q[k].at)
        BY <4>2, <4>3, <4>4, MilliOrder
      <4> QED
        BY <1>9, <4>1, <4>4, <4>5
    <3> QED
      BY <1>9, <3>1, <3>2
  <2> QED
    BY <2>3, <2>4
<1>15. ASSUME NEW a \in 1 .. Len(d)
       PROVE  \E e \in Older(E, ms) : e \in db /\ d[a] = Scanned(e)
  <2>1. a \in 1 .. n /\ a \in 1 .. Len(q)
    BY <1>9, <1>13
  <2>2. PICK e \in D : q[a] = Scanned(e)
    BY <1>11, <2>1
  <2> QED
    BY <1>3, <1>9, <2>1, <2>2
<1>16. ASSUME NEW a \in 1 .. Len(d), NEW b \in 1 .. Len(d), d[a].id = d[b].id PROVE a = b
  BY <1>9, <1>12, <1>13, <1>16
<1> QED
  BY <1>10, <1>14, <1>15, <1>16 DEF FromDB

\* c is m with d behind it.
Joins(c, m, d) ==
    /\ Len(c) = Len(m) + Len(d) /\ Len(m) \in Nat /\ Len(d) \in Nat
    /\ \A a \in 1 .. Len(m) : a \in 1 .. Len(c) /\ c[a] = m[a]
    /\ \A b \in 1 .. Len(d) : Len(m) + b \in 1 .. Len(c) /\ c[Len(m) + b] = d[b]
    /\ \A a \in 1 .. Len(c) : a \in 1 .. Len(m) \/ \E b \in 1 .. Len(d) : a = Len(m) + b

\* The elements of two sequences, one after the other.
LEMMA Halves ==
    ASSUME NEW S, NEW m \in Seq(S), NEW d \in Seq(S), NEW c, c = m \o d
    PROVE  c \in Seq(S) /\ Joins(c, m, d)
<1>1. Len(m) \in Nat /\ Len(d) \in Nat
  OBVIOUS
<1>2. /\ c \in Seq(S) /\ Len(c) = Len(m) + Len(d)
      /\ \A i \in 1 .. Len(m) + Len(d) : c[i] = IF i <= Len(m) THEN m[i] ELSE d[i - Len(m)]
  BY ConcatProperties
<1>3. ASSUME NEW a \in 1 .. Len(m) PROVE a \in 1 .. Len(c) /\ c[a] = m[a]
  <2>1. a \in 1 .. Len(m) + Len(d) /\ a <= Len(m)
    BY <1>1
  <2> QED
    BY <1>2, <2>1
<1>4. ASSUME NEW b \in 1 .. Len(d) PROVE Len(m) + b \in 1 .. Len(c) /\ c[Len(m) + b] = d[b]
  <2>1. Len(m) + b \in 1 .. Len(m) + Len(d) /\ ~(Len(m) + b <= Len(m)) /\ (Len(m) + b) - Len(m) = b
    BY <1>1
  <2> QED
    BY <1>2, <2>1
<1>5. ASSUME NEW a \in 1 .. Len(c), a \notin 1 .. Len(m) PROVE \E b \in 1 .. Len(d) : a = Len(m) + b
  <2>1. a - Len(m) \in 1 .. Len(d) /\ a = Len(m) + (a - Len(m))
    BY <1>1, <1>2, <1>5
  <2> QED
    BY <2>1
<1> QED
  BY <1>1, <1>2, <1>3, <1>4, <1>5 DEF Joins

\* What Store.List sorts.
LEMMA ListMixed ==
    ASSUME NEW E, History(E), NEW mem \in SUBSET E, NEW db, db = E \ mem,
           NEW ms \in {Absent} \cup Nat, NEW before,
           before = (IF ms = Absent THEN ms ELSE FromMilli(ms)), NEW L \in Nat,
           NEW m \in MemList(mem, before), NEW d \in DBList(db, L, before), NEW c, c = m \o d
    PROVE  Mixed(c, Older(E, ms), L) /\ c \in Seq(mem \cup {Scanned(e) : e \in db})
<1> DEFINE O == Older(E, ms)
           S == mem \cup {Scanned(e) : e \in db}
<1>1. /\ m \in Seq(mem) /\ \A a \in 1 .. Len(m) : m[a] \in O
      /\ \A a, b \in 1 .. Len(m) : m[a].id = m[b].id => a = b
      /\ \A e \in O : e \in mem => \E a \in 1 .. Len(m) : m[a] = e
  <2>1. FromMem(m, mem, O)
    BY MemHalf
  <2> QED
    BY <2>1 DEF FromMem
<1>2. db \in SUBSET E
  OBVIOUS
<1>3. /\ d \in Seq({Scanned(e) : e \in db})
      /\ \A a \in 1 .. Len(d) : \E e \in O : e \in db /\ d[a] = Scanned(e)
      /\ \A a, b \in 1 .. Len(d) : d[a].id = d[b].id => a = b
      /\ \A e \in O : e \in db =>
            \/ \E a \in 1 .. Len(d) : d[a] = Scanned(e)
            \/ Len(d) = L /\ \A a \in 1 .. L : UnixMilli(d[a].at) >= UnixMilli(e.at)
  <2>1. FromDB(d, db, O, L)
    BY <1>2, DBHalf
  <2> QED
    BY <2>1 DEF FromDB
<1>4. m \in Seq(S) /\ d \in Seq(S)
  BY <1>1, <1>3, SeqWider
<1>5. O \subseteq E
  BY DEF Older
<1> HIDE DEF O, S
<1>6. /\ c \in Seq(S) /\ Len(c) = Len(m) + Len(d) /\ Len(m) \in Nat /\ Len(d) \in Nat
      /\ \A a \in 1 .. Len(m) : a \in 1 .. Len(c) /\ c[a] = m[a]
      /\ \A b \in 1 .. Len(d) : Len(m) + b \in 1 .. Len(c) /\ c[Len(m) + b] = d[b]
      /\ \A a \in 1 .. Len(c) : a \in 1 .. Len(m) \/ \E b \in 1 .. Len(d) : a = Len(m) + b
  <2>1. c \in Seq(S) /\ Joins(c, m, d)
    BY <1>4, Halves
  <2> QED
    BY <2>1 DEF Joins
<1>7. ASSUME NEW a \in 1 .. Len(m) PROVE m[a] \in mem /\ m[a] \in O /\ Stands(m[a], m[a])
  <2>1. m[a] \in mem /\ m[a] \in O
    BY <1>1
  <2> QED
    BY <1>5, <2>1, ScannedStands
<1>8. ASSUME NEW b \in 1 .. Len(d)
      PROVE  \E e \in O : e \in db /\ d[b] = Scanned(e) /\ Stands(d[b], e)
  <2>1. PICK e \in O : e \in db /\ d[b] = Scanned(e)
    BY <1>3
  <2>2. Stands(Scanned(e), e)
    BY <1>5, ScannedStands
  <2> QED
    BY <2>1, <2>2
<1>9. ASSUME NEW a \in 1 .. Len(c) PROVE \E e \in O : Stands(c[a], e)
  <2>1. CASE a \in 1 .. Len(m)
    BY <1>6, <1>7, <2>1
  <2>2. CASE \E b \in 1 .. Len(d) : a = Len(m) + b
    BY <1>6, <1>8, <2>2
  <2> QED
    BY <1>6, <2>1, <2>2
<1>10. ASSUME NEW a \in 1 .. Len(m), NEW b \in 1 .. Len(d) PROVE m[a].id # d[b].id
  <2>1. m[a] \in mem /\ m[a] \in E
    BY <1>5, <1>7
  <2>2. PICK e \in O : e \in db /\ Stands(d[b], e)
    BY <1>8
  <2>3. e \in E /\ d[b].id = e.id /\ e # m[a]
    BY <1>5, <2>1, <2>2 DEF Stands
  <2> QED
    BY <2>1, <2>3 DEF History
<1>11. ASSUME NEW a \in 1 .. Len(c), NEW b \in 1 .. Len(c), c[a].id = c[b].id PROVE a = b
  <2>1. CASE a \in 1 .. Len(m) /\ b \in 1 .. Len(m)
    <3>1. m[a].id = m[b].id
      BY <1>6, <1>11, <2>1
    <3> QED
      BY <1>1, <2>1, <3>1
  <2>2. CASE a \in 1 .. Len(m) /\ b \notin 1 .. Len(m)
    <3>1. PICK k \in 1 .. Len(d) : b = Len(m) + k
      BY <1>6, <2>2
    <3>2. m[a].id = d[k].id
      BY <1>6, <1>11, <2>2, <3>1
    <3> QED
      BY <1>10, <2>2, <3>2
  <2>3. CASE a \notin 1 .. Len(m) /\ b \in 1 .. Len(m)
    <3>1. PICK k \in 1 .. Len(d) : a = Len(m) + k
      BY <1>6, <2>3
    <3>2. m[b].id = d[k].id
      BY <1>6, <1>11, <2>3, <3>1
    <3> QED
      BY <1>10, <2>3, <3>2
  <2>4. CASE a \notin 1 .. Len(m) /\ b \notin 1 .. Len(m)
    <3>1. PICK k \in 1 .. Len(d) : a = Len(m) + k
      BY <1>6, <2>4
    <3>2. PICK l \in 1 .. Len(d) : b = Len(m) + l
      BY <1>6, <2>4
    <3>3. d[k].id = d[l].id
      BY <1>6, <1>11, <3>1, <3>2
    <3>4. k = l
      BY <1>3, <3>3
    <3> QED
      BY <3>1, <3>2, <3>4
  <2> QED
    BY <2>1, <2>2, <2>3, <2>4
<1>12. ASSUME NEW e \in O
       PROVE  \/ \E a \in 1 .. Len(c) : Stands(c[a], e)
              \/ \E k \in Nat : /\ k + L = Len(c)
                                /\ \A b \in 1 .. L : UnixMilli(c[k + b].at) >= UnixMilli(e.at)
  <2>1. CASE e \in mem
    <3>1. PICK a \in 1 .. Len(m) : m[a] = e
      BY <1>1, <2>1
    <3>2. a \in 1 .. Len(c) /\ Stands(c[a], e)
      BY <1>6, <1>7, <3>1
    <3> QED
      BY <3>2
  <2>2. CASE e \notin mem
    <3>0. e \in db /\ e \in E
      BY <1>5, <2>2
    <3>1. CASE \E a \in 1 .. Len(d) : d[a] = Scanned(e)
      <4>1. PICK a \in 1 .. Len(d) : d[a] = Scanned(e)
        BY <3>1
      <4>2. Stands(Scanned(e), e)
        BY <3>0, ScannedStands
      <4>3. Len(m) + a \in 1 .. Len(c) /\ Stands(c[Len(m) + a], e)
        BY <1>6, <4>1, <4>2
      <4> QED
        BY <4>3
    <3>2. CASE Len(d) = L /\ \A a \in 1 .. L : UnixMilli(d[a].at) >= UnixMilli(e.at)
      <4>1. Len(m) \in Nat /\ Len(m) + L = Len(c)
        BY <1>6, <3>2
      <4>2. \A b \in 1 .. L : UnixMilli(c[Len(m) + b].at) >= UnixMilli(e.at)
        BY <1>6, <3>2
      <4> QED
        BY <4>1, <4>2
    <3> QED
      BY <1>3, <3>0, <3>1, <3>2
  <2> QED
    BY <2>1, <2>2
<1>13. Mixed(c, O, L)
  BY <1>9, <1>11, <1>12 DEF Mixed
<1> QED
  BY <1>6, <1>13 DEF O, S

(***************************************************************************)
(* The first L of the elements in order leave out nothing newer than the   *)
(* last of them, though the database's half was cut: L elements that are   *)
(* not older than an entry do not all fit before the last of the page.     *)
(***************************************************************************)
LEMMA LeftOut ==
    ASSUME NEW R, NEW c \in Seq(R), NEW O, NEW L \in Nat, L # 0, Mixed(c, O, L),
           NEW p, Order(c, p), NEW e \in O, UnixMilli(e.at) \in Nat,
           \A i \in 1 .. Len(c) : i <= L => c[p[i]].id # e.id
    PROVE  Len(c) >= L /\ L \in 1 .. Len(c) /\ UnixMilli(e.at) <= UnixMilli(c[p[L]].at)
<1>1. PICK n \in Nat : n = Len(c)
  OBVIOUS
<1>2. /\ p \in [1 .. n -> 1 .. n]
      /\ \A i, j \in 1 .. n : p[i] = p[j] => i = j
      /\ \A a \in 1 .. n : \E k \in 1 .. n : p[k] = a
      /\ \A i, j \in 1 .. n : i < j => c[p[i]].at >= c[p[j]].at
  BY <1>1 DEF Order
<1>3. \A a \in 1 .. n : c[a].at \in Nat /\ UnixMilli(c[a].at) \in Nat
  BY <1>1, MilliType DEF Mixed, Stands
<1>4. ASSUME NEW i \in 1 .. n, NEW j \in 1 .. n, i <= j
      PROVE  UnixMilli(c[p[i]].at) >= UnixMilli(c[p[j]].at)
  <2>1. p[i] \in 1 .. n /\ p[j] \in 1 .. n
    BY <1>2
  <2>2. c[p[i]].at \in Nat /\ c[p[j]].at \in Nat
    BY <1>3, <2>1
  <2>3. c[p[i]].at >= c[p[j]].at
    <3>1. CASE i = j
      BY <2>2, <3>1
    <3>2. CASE i < j
      BY <1>2, <3>2
    <3> QED
      BY <1>4, <3>1, <3>2
  <2> QED
    BY <2>2, <2>3, MilliOrder
<1>5. CASE \E a \in 1 .. n : Stands(c[a], e)
  <2>1. PICK a \in 1 .. n : Stands(c[a], e)
    BY <1>5
  <2>2. PICK k \in 1 .. n : p[k] = a
    BY <1>2
  <2>3. ~(k <= L)
    <3>1. c[p[k]].id = e.id
      BY <2>1, <2>2 DEF Stands
    <3> QED
      BY <1>1, <3>1
  <2>4. L \in 1 .. n /\ L <= k /\ n >= L
    BY <2>3
  <2>5. UnixMilli(c[p[L]].at) >= UnixMilli(c[p[k]].at)
    BY <1>4, <2>4
  <2>6. UnixMilli(c[p[k]].at) = UnixMilli(e.at)
    BY <2>1, <2>2 DEF Stands
  <2>7. UnixMilli(c[p[L]].at) \in Nat
    BY <1>2, <1>3, <2>4
  <2> QED
    BY <1>1, <2>4, <2>5, <2>6, <2>7
<1>6. CASE \E k \in Nat : /\ k + L = n
                          /\ \A b \in 1 .. L : UnixMilli(c[k + b].at) >= UnixMilli(e.at)
  <2>1. PICK k \in Nat : /\ k + L = n
                         /\ \A b \in 1 .. L : UnixMilli(c[k + b].at) >= UnixMilli(e.at)
    BY <1>6
  <2>2. L \in 1 .. n /\ n >= L
    BY <2>1
  <2>3. UnixMilli(c[p[L]].at) \in Nat
    BY <1>2, <1>3, <2>2
  <2>4. ASSUME UnixMilli(c[p[L]].at) < UnixMilli(e.at) PROVE FALSE
    <3>1. PICK f : f = [b \in 1 .. L |-> CHOOSE i \in 1 .. n : p[i] = k + b]
      OBVIOUS
    <3>2. \A b \in 1 .. L : k + b \in 1 .. n
      BY <2>1
    <3>3. \A b \in 1 .. L : f[b] \in 1 .. n /\ p[f[b]] = k + b
      BY <1>2, <3>1, <3>2
    <3>4. ASSUME NEW b \in 1 .. L PROVE f[b] \in 1 .. L - 1
      <4>1. f[b] \in 1 .. n /\ p[f[b]] = k + b
        BY <3>3
      <4>2. UnixMilli(c[p[f[b]]].at) >= UnixMilli(e.at) /\ UnixMilli(c[p[f[b]]].at) \in Nat
        BY <1>3, <2>1, <3>2, <4>1
      <4>3. ~(L <= f[b])
        <5>1. ASSUME L <= f[b] PROVE FALSE
          <6>1. UnixMilli(c[p[L]].at) >= UnixMilli(c[p[f[b]]].at)
            BY <1>4, <2>2, <4>1, <5>1
          <6> QED
            BY <2>3, <2>4, <4>2, <6>1
        <5> QED
          BY <5>1
      <4> QED
        BY <4>1, <4>3
    <3>5. f \in [1 .. L -> 1 .. L - 1]
      BY <3>1, <3>4
    <3>6. PICK l \in Nat : l = L - 1 /\ l < L
      OBVIOUS
    <3>7. /\ IsFiniteSet(1 .. L) /\ Cardinality(1 .. L) = L
          /\ IsFiniteSet(1 .. l) /\ Cardinality(1 .. l) = l
      BY Count
    <3>8. PICK x \in 1 .. L, y \in 1 .. L : x # y /\ f[x] = f[y]
      <4>1. f \in [1 .. L -> 1 .. l]
        BY <3>5, <3>6
      <4>2. Cardinality(1 .. l) < Cardinality(1 .. L)
        BY <3>6, <3>7
      <4> QED
        BY <3>7, <4>1, <4>2, FS_PigeonHole
    <3>9. k + x = k + y
      BY <3>3, <3>8
    <3> QED
      BY <3>8, <3>9
  <2> QED
    BY <1>1, <2>2, <2>3, <2>4
<1> QED
  BY <1>1, <1>5, <1>6 DEF Mixed

\* The rows of an answer.
RowsOf(E) == [id : {e.id : e \in E}, started : Nat]

\* A page of at most L of the entries O, and what it may leave out.
Paged(page, O, L) ==
    /\ Len(page) <= L
    /\ \A i \in 1 .. Len(page) :
          \E e \in O : e.id = page[i].id /\ UnixMilli(e.at) = page[i].started
    /\ \A i, j \in 1 .. Len(page) : i < j => page[i].started >= page[j].started
    /\ \A i, j \in 1 .. Len(page) : page[i].id = page[j].id => i = j
    /\ \A e \in O :
          \/ \E i \in 1 .. Len(page) : page[i].id = e.id
          \/ Len(page) = L /\ UnixMilli(e.at) <= page[L].started

\* The page made of elements in order.
LEMMA PrefixPaged ==
    ASSUME NEW E, History(E), NEW O, O \subseteq E, NEW R, NEW c \in Seq(R),
           NEW L \in Nat, L # 0, Mixed(c, O, L), NEW p, Order(c, p), NEW page,
           page = Rows(Prefix([k \in 1 .. Len(c) |-> c[p[k]]], L))
    PROVE  page \in Seq(RowsOf(E)) /\ Paged(page, O, L)
<1>1. PICK s : s = [k \in 1 .. Len(c) |-> c[p[k]]]
  OBVIOUS
<1>2. p \in [1 .. Len(c) -> 1 .. Len(c)] /\ Len(c) \in Nat
  BY DEF Order
<1>3. s \in [1 .. Len(c) -> R]
  BY <1>1, <1>2
<1>4. s \in Seq(R) /\ Len(s) = Len(c)
  BY <1>2, <1>3, TableSeq
<1>5. PICK n \in Nat : n = (IF L < Len(c) THEN L ELSE Len(c)) /\ n <= Len(c) /\ n <= L
  BY <1>2
<1>6. PICK t : t = Prefix(s, L)
  OBVIOUS
<1>7. t = SubSeq(s, 1, n)
  BY <1>4, <1>5, <1>6 DEF Prefix
<1>8. t \in Seq(R) /\ Len(t) = n /\ \A i \in 1 .. n : t[i] = s[i]
  BY <1>4, <1>5, <1>7, SubSeqFirst
<1>9. \A i \in 1 .. n : i \in 1 .. Len(c) /\ t[i] = c[p[i]]
  <2>1. \A i \in 1 .. n : i \in 1 .. Len(c)
    BY <1>2, <1>5
  <2>2. \A i \in 1 .. Len(c) : s[i] = c[p[i]]
    BY <1>1
  <2> QED
    BY <1>8, <2>1, <2>2
<1>10. page = [i \in 1 .. n |-> [id |-> t[i].id, started |-> UnixMilli(t[i].at)]]
  BY <1>1, <1>6, <1>8 DEF Rows
<1>11. \A i \in 1 .. n : page[i].id = c[p[i]].id /\ page[i].started = UnixMilli(c[p[i]].at)
  BY <1>9, <1>10
<1>12. ASSUME NEW a \in 1 .. Len(c) PROVE \E e \in O : Stands(c[a], e)
  BY DEF Mixed
<1>13. ASSUME NEW i \in 1 .. n
       PROVE  /\ p[i] \in 1 .. Len(c) /\ c[p[i]].at \in Nat /\ page[i].started \in Nat
              /\ \E e \in O : e.id = page[i].id /\ UnixMilli(e.at) = page[i].started
  <2>1. p[i] \in 1 .. Len(c)
    BY <1>2, <1>9
  <2>2. PICK e \in O : Stands(c[p[i]], e)
    BY <1>12, <2>1
  <2>3. c[p[i]].id = e.id /\ c[p[i]].at \in Nat /\ UnixMilli(c[p[i]].at) = UnixMilli(e.at)
    BY <2>2 DEF Stands
  <2>4. UnixMilli(c[p[i]].at) \in Nat
    BY <2>3, MilliType
  <2> QED
    BY <1>11, <2>1, <2>3, <2>4
<1>14. page \in [1 .. n -> RowsOf(E)]
  <2>1. ASSUME NEW i \in 1 .. n
        PROVE  [id |-> t[i].id, started |-> UnixMilli(t[i].at)] \in RowsOf(E)
    <3>1. PICK x : x = [id |-> t[i].id, started |-> UnixMilli(t[i].at)]
      OBVIOUS
    <3>2. x = page[i]
      BY <1>10, <3>1
    <3>3. x.id \in {e.id : e \in E} /\ x.started \in Nat
      BY <1>13, <3>2
    <3>4. t[i].id \in {e.id : e \in E} /\ UnixMilli(t[i].at) \in Nat
      BY <3>1, <3>3
    <3> QED
      BY <3>4 DEF RowsOf
  <2> QED
    BY <1>10, <2>1
<1>15. page \in Seq(RowsOf(E)) /\ Len(page) = n
  BY <1>14, TableSeq
<1>16. ASSUME NEW i \in 1 .. n, NEW j \in 1 .. n, i < j PROVE page[i].started >= page[j].started
  <2>1. c[p[i]].at >= c[p[j]].at
    BY <1>9, <1>16 DEF Order
  <2>2. c[p[i]].at \in Nat /\ c[p[j]].at \in Nat
    BY <1>13
  <2>3. UnixMilli(c[p[i]].at) >= UnixMilli(c[p[j]].at)
    BY <2>1, <2>2, MilliOrder
  <2> QED
    BY <1>11, <2>3
<1>17. ASSUME NEW i \in 1 .. n, NEW j \in 1 .. n, page[i].id = page[j].id PROVE i = j
  <2>1. c[p[i]].id = c[p[j]].id /\ p[i] \in 1 .. Len(c) /\ p[j] \in 1 .. Len(c)
    BY <1>11, <1>13, <1>17
  <2>2. p[i] = p[j]
    BY <2>1 DEF Mixed
  <2> QED
    BY <1>9, <2>2 DEF Order
<1>18. ASSUME NEW e \in O, \A i \in 1 .. n : page[i].id # e.id
       PROVE  n = L /\ UnixMilli(e.at) <= page[L].started
  <2>1. UnixMilli(e.at) \in Nat
    BY MilliType DEF History
  <2>2. ASSUME NEW i \in 1 .. Len(c), i <= L PROVE c[p[i]].id # e.id
    <3>1. i \in 1 .. n
      BY <1>5, <2>2
    <3> QED
      BY <1>11, <1>18, <3>1
  <2>3. Len(c) >= L /\ L \in 1 .. Len(c) /\ UnixMilli(e.at) <= UnixMilli(c[p[L]].at)
    BY <2>1, <2>2, LeftOut
  <2>4. n = L /\ L \in 1 .. n
    BY <1>2, <1>5, <2>3
  <2> QED
    BY <1>11, <2>3, <2>4
<1> QED
  BY <1>5, <1>13, <1>15, <1>16, <1>17, <1>18 DEF Paged

\* What an answer of listRequests is.
LEMMA AnswerPaged ==
    ASSUME NEW E, History(E), NEW mem \in SUBSET E, NEW asked \in {Absent} \cup Nat,
           NEW ms \in {Absent} \cup Nat, NEW page \in ListRequests(mem, E \ mem, asked, ms)
    PROVE  /\ Limit(asked) \in Nat /\ Limit(asked) # 0
           /\ page \in Seq(RowsOf(E)) /\ Paged(page, Older(E, ms), Limit(asked))
<1>1. PICK L : L = Limit(asked)
  OBVIOUS
<1>2. PICK before : before = (IF ms = Absent THEN ms ELSE FromMilli(ms))
  OBVIOUS
<1>3. ~(asked # Absent /\ asked <= 0) /\ \E q \in List(mem, E \ mem, L, before) : page = Rows(q)
  BY <1>1, <1>2, Zenon DEF ListRequests
<1>4. L \in Nat /\ L # 0
  BY <1>1, <1>3, ListingAssumption DEF Limit
<1>5. PICK m \in MemList(mem, before), d \in DBList(E \ mem, L, before) :
        page = Rows(Prefix(Sorted(m \o d), L))
  <2>1. PICK q \in List(mem, E \ mem, L, before) : page = Rows(q)
    BY <1>3
  <2>2. PICK m \in MemList(mem, before), d \in DBList(E \ mem, L, before) :
          q = Prefix(Sorted(m \o d), L)
    BY <2>1 DEF List
  <2> QED
    BY <2>1, <2>2
<1>6. PICK c : c = m \o d
  OBVIOUS
<1> DEFINE S == mem \cup {Scanned(e) : e \in E \ mem}
<1>7. Mixed(c, Older(E, ms), L) /\ c \in Seq(S)
  BY <1>2, <1>4, <1>6, ListMixed
<1> HIDE DEF S
<1>8. Timed(c)
  BY <1>7 DEF Mixed, Timed, Stands
<1>9. PICK p : Order(c, p) /\ Sorted(c) = [k \in 1 .. Len(c) |-> c[p[k]]]
  BY <1>7, <1>8, SortedOrder
<1>10. page = Rows(Prefix([k \in 1 .. Len(c) |-> c[p[k]]], L))
  BY <1>5, <1>6, <1>9
<1>11. Older(E, ms) \subseteq E
  BY DEF Older
<1>12. page \in Seq(RowsOf(E)) /\ Paged(page, Older(E, ms), L)
  BY <1>4, <1>7, <1>9, <1>10, <1>11, PrefixPaged
<1> QED
  BY <1>1, <1>4, <1>12

(***************************************************************************)
(* Whatever the tier of each entry, the limit and the cursor, listRequests *)
(* answers a page of the one history.                                      *)
(***************************************************************************)
LEMMA PageAny ==
    ASSUME NEW E, NEW page \in Seq(RowsOf(E)), NEW L \in Nat, NEW ms,
           Paged(page, Older(E, ms), L)
    PROVE  IsPage(page, E, L, ms)
<1> DEFINE O == Older(E, ms)
           ids == {page[i].id : i \in 1 .. Len(page)}
<1>1. O = {e \in E : ms = Absent \/ UnixMilli(e.at) < ms}
  BY DEF Older
<1>2. PICK n \in Nat : n = Len(page)
  OBVIOUS
<1> HIDE DEF O
<1>3. /\ n <= L
      /\ \A i \in 1 .. n : \E e \in O : e.id = page[i].id /\ UnixMilli(e.at) = page[i].started
      /\ \A i, j \in 1 .. n : i < j => page[i].started >= page[j].started
      /\ \A i, j \in 1 .. n : page[i].id = page[j].id => i = j
      /\ \A e \in O :
            \/ \E i \in 1 .. n : page[i].id = e.id
            \/ n = L /\ UnixMilli(e.at) <= page[L].started
  BY <1>2 DEF Paged, O
<1>4. Cardinality(ids) = n
  <2>1. PICK g : g = [i \in 1 .. n |-> page[i].id]
    OBVIOUS
  <2>2. g \in Surjection(1 .. n, ids)
    BY <1>2, <2>1 DEF Surjection
  <2>3. \A i, j \in 1 .. n : g[i] = g[j] => i = j
    BY <1>3, <2>1
  <2>4. g \in Injection(1 .. n, ids)
    <3>1. g \in [1 .. n -> ids]
      BY <1>2, <2>1
    <3> QED
      BY <2>3, <3>1 DEF Injection, IsInjective
  <2>5. IsFiniteSet(1 .. n) /\ Cardinality(1 .. n) = n
    BY Count
  <2> HIDE DEF ids
  <2> QED
    BY <2>2, <2>4, <2>5, FS_Surjection
<1>5. ASSUME NEW i \in 1 .. n, i > 1 PROVE page[i - 1].started >= page[i].started
  <2>1. i - 1 \in 1 .. n /\ i - 1 < i
    BY <1>5
  <2> QED
    BY <1>3, <2>1
<1>6. ASSUME NEW e \in O, e.id \notin ids PROVE n = L /\ UnixMilli(e.at) <= page[L].started
  BY <1>2, <1>3, <1>6
<1>7. IsPage(page, E, L, ms) <=>
        /\ Len(page) <= L /\ Cardinality(ids) = Len(page)
        /\ \A i \in 1 .. Len(page) :
              /\ \E e \in O : e.id = page[i].id /\ UnixMilli(e.at) = page[i].started
              /\ i > 1 => page[i - 1].started >= page[i].started
        /\ \A e \in O : e.id \notin ids => Len(page) = L /\ UnixMilli(e.at) <= page[L].started
  BY <1>1, Zenon DEF IsPage, ids
<1> HIDE DEF ids
<1> QED
  BY <1>2, <1>3, <1>4, <1>5, <1>6, <1>7
===============================================================================
