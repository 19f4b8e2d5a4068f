-------------------------------- MODULE Listing --------------------------------
(***************************************************************************)
(* GET /api/requests over the two tiers of the store: listRequests of      *)
(* internal/web/server.go, Store.List, memStore.list and sqlDB.list.       *)
(*                                                                         *)
(* Memory keeps the instant an exchange started, the database and the API  *)
(* its millisecond.  The order of the memory's map, and of rows that share *)
(* a millisecond, is any: the operators yield the set of possible answers. *)
(***************************************************************************)
EXTENDS Integers, SequencesExt

CONSTANTS
    Absent,         \* a query parameter that is not given, the zero time.Time
    Tick,           \* instants per millisecond
    DefaultLimit,   \* defaultLimit
    MaxLimit        \* maxLimit

ASSUME ListingAssumption ==
    /\ Tick \in Nat \ {0} /\ DefaultLimit \in Nat \ {0} /\ MaxLimit \in Nat \ {0}
    /\ Absent \notin Nat

\* time.Time.UnixMilli and time.UnixMilli.
UnixMilli(t) == t \div Tick
FromMilli(ms) == ms * Tick

\* An entry as the database hands it back.
Scanned(e) == [e EXCEPT !.at = FromMilli(UnixMilli(e.at))]

Prefix(q, n) == SubSeq(q, 1, IF n < Len(q) THEN n ELSE Len(q))

Newest(q) == \A i, j \in 1 .. Len(q) : i < j => q[i].at >= q[j].at

\* sqlDB.list: WHERE started_at < before ORDER BY started_at DESC LIMIT limit.
DBList(db, limit, before) ==
    LET found == {Scanned(e) : e \in {e \in db : before = Absent
                                                   \/ UnixMilli(e.at) < UnixMilli(before)}}
    IN {Prefix(q, limit) : q \in {q \in SetToSeqs(found) : Newest(q)}}

\* Mutant: the cursor includes its own instant.
MemListUpTo(mem, before) ==
    SetToSeqs({e \in mem : before = Absent \/ e.at <= before})

\* memStore.list.
MemList(mem, before) ==
    SetToSeqs({e \in mem : before = Absent \/ e.at < before})

\* sort.SliceStable, newest first: behind the newer ones and its equals before it.
Place(q, i) ==
    Cardinality({j \in 1 .. Len(q) :
                    q[j].at > q[i].at \/ (q[j].at = q[i].at /\ j <= i)})

Sorted(q) == [k \in 1 .. Len(q) |-> q[CHOOSE i \in 1 .. Len(q) : Place(q, i) = k]]

\* Mutant: the halves are concatenated, not merged.
ListUnsorted(mem, db, limit, before) ==
    {Prefix(m \o d, limit) : m \in MemList(mem, before), d \in DBList(db, limit, before)}

\* Store.List.
List(mem, db, limit, before) ==
    {Prefix(Sorted(m \o d), limit) : m \in MemList(mem, before), d \in DBList(db, limit, before)}

(***************************************************************************)
(* listRequests.  A limit that is not positive is refused: no answer.  The *)
(* rows carry the id and started_at.                                       *)
(***************************************************************************)
Limit(asked) == CASE asked = Absent  -> DefaultLimit
                  [] asked # Absent -> IF asked < MaxLimit THEN asked ELSE MaxLimit

Rows(q) == [i \in 1 .. Len(q) |-> [id |-> q[i].id, started |-> UnixMilli(q[i].at)]]

ListRequests(mem, db, asked, ms) ==
    IF asked # Absent /\ asked <= 0 THEN {}
    ELSE {Rows(q) : q \in List(mem, db, Limit(asked), IF ms = Absent THEN ms ELSE FromMilli(ms))}

-------------------------------------------------------------------------------
(***************************************************************************)
(* What a page must be, over the union of the tiers: rows of distinct      *)
(* entries older than the cursor, newest first, and none left out that is  *)
(* newer than the last row, nor any at all when the page is not full.      *)
(***************************************************************************)
IsPage(page, entries, limit, ms) ==
    LET older == {e \in entries : ms = Absent \/ UnixMilli(e.at) < ms}
        ids   == {page[i].id : i \in 1 .. Len(page)}
    IN /\ Len(page) <= limit /\ Cardinality(ids) = Len(page)
       /\ \A i \in 1 .. Len(page) :
             /\ \E e \in older : e.id = page[i].id /\ UnixMilli(e.at) = page[i].started
             /\ i > 1 => page[i - 1].started >= page[i].started
       /\ \A e \in older : e.id \notin ids =>
             Len(page) = limit /\ UnixMilli(e.at) <= page[limit].started
===============================================================================
