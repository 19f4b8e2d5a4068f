--------------------------- MODULE StoreReadsProofs ---------------------------
(***************************************************************************)
(* Proofs about StoreReads: what Get and Body find while the entry they    *)
(* are asked for moves from memory to the database under them.             *)
(***************************************************************************)
EXTENDS StoreReads, StoreQuietProofs

-------------------------------------------------------------------------------
(***************************************************************************)
(* Reading changes nothing: a step of the composition is a step of the     *)
(* store or leaves it alone, so every theorem about Store holds here too.  *)
(***************************************************************************)

\* The steps of the reader proper.
ReaderOnly ==
    \/ \E id \in Ids : Ask("get", id, "req")
    \/ \E id \in Ids, s \in Sides : Ask("raw", id, s)
    \/ Ask("list", Sweeper, "req")
    \/ GetMem \/ GetDB \/ BodyOpen \/ BodyCopy \/ ListDB \/ ListMem

\* They leave the store alone.
LEMMA ReaderOnlyReads == ASSUME ReaderOnly PROVE UNCHANGED vars
BY DEF ReaderOnly, Ask, GetMem, GetDB, BodyOpen, BodyCopy, ListDB, ListMem

\* What a step of the composition is.
LEMMA ReadsStep ==
    ASSUME [ReadsNext]_<<vars, reader>>
    PROVE  /\ [Next]_vars
           /\ \/ ReaderOnly /\ UNCHANGED vars
              \/ Lost
              \/ UNCHANGED reader /\ (up => up')
<1>1. CASE ReaderOnly
  BY <1>1, ReaderOnlyReads
<1>2. CASE Lost
  BY <1>2 DEF Lost, Next
<1>3. CASE Next /\ up' = up /\ UNCHANGED reader
  BY <1>3
<1>4. CASE Restart /\ UNCHANGED reader
  BY <1>4 DEF Restart, Next
<1>5. CASE UNCHANGED <<vars, reader>>
  BY <1>5 DEF vars
<1> QED
  BY <1>1, <1>2, <1>3, <1>4, <1>5 DEF ReadsNext, ReaderOnly

(***************************************************************************)
(* The reading handlers implement the store: none of Get, List and Body    *)
(* changes what the store keeps.                                           *)
(***************************************************************************)
THEOREM ReadsRefineStore == ReadsSpec => Spec
<1>1. ReadsInit => Init
  BY DEF ReadsInit
<1>2. [ReadsNext]_<<vars, reader>> => [Next]_vars
  BY ReadsStep
<1> QED
  BY <1>1, <1>2, PTL DEF ReadsSpec, Spec

-------------------------------------------------------------------------------
(***************************************************************************)
(* What leaves the store.                                                  *)
(***************************************************************************)

\* A stored exchange stays stored, and what loses its row is accounted for.
LEMMA StoredStays ==
    ASSUME Typed, [Next]_vars
    PROVE  /\ \A id \in Ids : status[id] # "absent" => status'[id] # "absent"
           /\ gone \subseteq gone' /\ rows \subseteq rows' \cup gone'
<1>t. status \in [Ids -> Status \cup {"absent"}] /\ rows \subseteq Ids
  BY DEF Typed, TypeOK
<1> DEFINE Stays == \A id \in Ids : status[id] # "absent" => status'[id] # "absent"
           Goes  == gone \subseteq gone' /\ rows \subseteq rows' \cup gone'
<1>1. ASSUME NEW c \in Ids, Relay(c) \/ GoIdle(c) PROVE Stays /\ Goes
  BY <1>1, <1>t DEF Relay, Put, InitialStatus, PutSnapshot, PutPublish, RequestGet, RequestWrite,
     RequestWriteFails, Respond, RelayError, UpdateGet, UpdateApply, UpdateSnapshot,
     UpdatePublish, Read, AppendGet, AppendWrite, AppendWriteFails, CloseBody, GoIdle,
     memory, disk, ghosts
<1>2. ASSUME NEW c \in Calls, FinalizeApply(c) PROVE Stays /\ Goes
  <2>1. Target(c) \in Ids /\ status[Target(c)] # "absent"
    BY <1>2, TargetType DEF FinalizeApply, At
  <2> QED
    BY <1>2, <1>t, <2>1 DEF FinalizeApply, FinalStatus, disk, ghosts
<1>3. ASSUME NEW c \in Calls, Finalize(c), ~FinalizeApply(c) PROVE Stays /\ Goes
  BY <1>3, <1>t DEF Finalize, FinalizeGet, FinalizeClose, FinalizeSnapshot,
     FinalizeInsert, FinalizeInsertFails, FinalizeDelete, FinalizePublish, OverflowIDs,
     PurgeRow, RetentionFails, RemoveFor, memory, disk, ghosts
<1>4. ASSUME (\E k \in Clearers : Clear(k)) \/ Sweep \/ Crash \/ Restart \/ UNCHANGED vars
      PROVE  Stays /\ Goes
  BY <1>4, <1>t DEF Clear, ClearKnownIDs, ClearDelete, ClearReadDir, ClearRemove,
     ClearRemoveMissing, ClearFails, ClearPublish, Sweep, StaleIDs, SweepNext, Crash, Restart,
     memory, disk, ghosts, vars
<1> QED
  BY <1>1, <1>2, <1>3, <1>4 DEF Next

\* A retention pass works on rows, or on what somebody removed before it.
Leaving == \A c \in Calls : left[c] \subseteq rows \cup gone /\ purged[c] \subseteq gone

\* Leaving is inductive.
LEMMA NextLeaving ==
    ASSUME Typed, Leaving, [Next]_vars PROVE Leaving'
<1>t. left \in [Calls -> SUBSET Ids] /\ purged \in [Calls -> SUBSET Ids]
  BY DEF Typed, TypeOK
<1>0. gone \subseteq gone' /\ rows \subseteq rows' \cup gone'
  BY StoredStays
<1>1. ASSUME NEW c \in Calls, PurgeRow(c) PROVE Leaving'
  <2>1. PICK v \in left[c] :
            /\ gone' = gone \cup ({v} \cap rows)
            /\ left' = [left EXCEPT ![c] = left[c] \ {v}]
            /\ purged' = [purged EXCEPT ![c] = purged[c] \cup {v}]
    BY <1>1 DEF PurgeRow
  <2>2. v \in gone'
    BY <2>1 DEF Leaving
  <2> QED
    BY <1>0, <1>t, <2>1, <2>2 DEF Leaving
<1>2. ASSUME \A c \in Calls : left'[c] \subseteq left[c] \cup rows /\ purged'[c] \subseteq purged[c]
      PROVE  Leaving'
  BY <1>0, <1>2 DEF Leaving
<1>3. ASSUME NEW c \in Calls, Finalize(c), ~PurgeRow(c) PROVE Leaving'
  BY <1>2, <1>3, <1>t DEF Finalize, FinalizeGet, FinalizeApply, FinalizeClose, FinalizeSnapshot,
     FinalizeInsert, FinalizeInsertFails, FinalizeDelete, FinalizePublish, OverflowIDs,
     RetentionFails, RemoveFor, Return, locals
<1>4. ASSUME \/ \E c \in Ids : Relay(c) \/ GoIdle(c)
             \/ \E k \in Clearers : Clear(k)
             \/ Sweep \/ Crash \/ Restart \/ UNCHANGED vars
      PROVE  (left' = left \/ left' = [c \in Calls |-> {}])
             /\ (purged' = purged \/ purged' = [c \in Calls |-> {}])
  BY <1>4 DEF Relay, Put, PutSnapshot, PutPublish, RequestGet, RequestWrite,
     RequestWriteFails, Respond, RelayError, UpdateGet, UpdateApply, UpdateSnapshot,
     UpdatePublish, Read, AppendGet, AppendWrite, AppendWriteFails, CloseBody, GoIdle,
     Clear, ClearKnownIDs, ClearDelete, ClearReadDir, ClearRemove, ClearRemoveMissing,
     ClearFails, ClearPublish, Sweep, StaleIDs, SweepNext, Crash, Restart, locals, vars
<1>5. ASSUME left' = left \/ left' = [c \in Calls |-> {}],
             purged' = purged \/ purged' = [c \in Calls |-> {}]
      PROVE  Leaving'
  BY <1>2, <1>5, <1>t
<1> QED
  BY <1>1, <1>3, <1>4, <1>5 DEF Next

\* Leaving is an invariant of the store, in every environment.
LEMMA AlwaysLeaving == Spec => []Leaving
<1>1. Init => Leaving
  BY DEF Init, Leaving
<1>2. Typed /\ Leaving /\ [Next]_vars => Leaving'
  BY NextLeaving
<1> QED
  BY <1>1, <1>2, AlwaysTyped, PTL DEF Spec

-------------------------------------------------------------------------------
(***************************************************************************)
(* GetFinds.  The memory lookup that missed the entry was made while the   *)
(* entry was stored, so its row was there then, and a row that is deleted  *)
(* afterwards is accounted for in gone.                                    *)
(***************************************************************************)
Wanted == ask.id \in due \ gone

Asked ==
    /\ ask \in [op : Ops, id : Calls, side : Sides]
    /\ rpc # "idle" => up
    /\ rpc \in {"get_mem", "get_db"} =>
          ask.op \in {"get", "raw", "body"} /\ ask.id \in Ids
    /\ rpc \in {"body_open", "body_copy"} =>
          ask.op = "body" /\ ask.id \in Ids /\ size \in Nat
    /\ due \subseteq {i \in Ids : status[i] # "absent"}

Looking == rpc = "get_db" /\ Wanted => ask.id \in rows

\* The entry a lookup found has a size.
LEMMA FoundSize ==
    ASSUME Typed, NEW id \in Ids, NEW s \in Sides
    PROVE  /\ Snapshot(id).body[s] = State(buf[id][s])
           /\ State(buf[id][s]).size \in Nat /\ State(buf[id][s]).path \in BOOLEAN
           /\ row[id].body[s].size \in Nat /\ row[id].body[s].path \in BOOLEAN
<1>1. buf[id][s] \in Buffer /\ row[id] \in Row
  BY DEF Typed, TypeOK
<1> QED
  BY <1>1 DEF Snapshot, State, Buffer, Row

\* Asked is inductive: the steps of the reader.
LEMMA ReaderAsked ==
    ASSUME Typed, Asked, ReaderOnly, UNCHANGED vars PROVE Asked'
<1>0. up' = up /\ status' = status /\ NoAsk \in [op : Ops, id : Calls, side : Sides]
  BY DEF vars, memory, NoAsk, Ops, Calls, Sides
<1>1. ASSUME NEW op \in {"get", "raw", "list"}, NEW id, NEW s, Ask(op, id, s),
             s \in Sides, id \in Calls, op = "list" \/ id \in Ids
      PROVE  Asked'
  BY <1>0, <1>1 DEF Ask, Asked, Ops
<1>2. ASSUME NEW r, Found(r), rpc \in {"get_mem", "get_db"}, up, due' = due,
             r.body[ask.side].size \in Nat
      PROVE  Asked'
  BY <1>0, <1>2 DEF Found, Reply, Asked, Ops
<1>3. CASE GetMem
  <2>1. CASE ask.id \in mem /\ Found(Snapshot(ask.id))
    BY <1>2, <1>3, <2>1, FoundSize DEF GetMem, Asked
  <2>2. CASE ask.id \notin mem
    BY <1>0, <1>3, <2>2 DEF GetMem, Asked
  <2> QED
    BY <1>3, <2>1, <2>2 DEF GetMem
<1>4. CASE GetDB
  <2>1. CASE ask.id \in rows /\ Found(row[ask.id])
    BY <1>2, <1>4, <2>1, FoundSize DEF GetDB, Asked
  <2>2. CASE ask.id \notin rows
    BY <1>0, <1>4, <2>2 DEF GetDB, Reply, Asked
  <2> QED
    BY <1>4, <2>1, <2>2 DEF GetDB
<1>5. CASE BodyOpen
  BY <1>0, <1>5 DEF BodyOpen, Reply, Asked
<1>6. CASE BodyCopy \/ ListDB \/ ListMem
  BY <1>0, <1>6 DEF BodyCopy, ListDB, ListMem, Reply, Asked
<1> QED
  BY <1>1, <1>3, <1>4, <1>5, <1>6 DEF ReaderOnly, Sides, Calls

\* Asked is inductive.
LEMMA NextAsked ==
    ASSUME Typed, Asked, [ReadsNext]_<<vars, reader>> PROVE Asked'
<1>1. CASE ReaderOnly /\ UNCHANGED vars
  BY <1>1, ReaderAsked
<1>2. CASE Lost
  BY <1>2 DEF Lost, Asked, NoAsk, Ops, Calls, Sides
<1>3. CASE UNCHANGED reader /\ (up => up')
  BY <1>3, ReadsStep, StoredStays DEF reader, Asked
<1> QED
  BY <1>1, <1>2, <1>3, ReadsStep

\* GetFinds, with Looking, is inductive.
LEMMA NextLooking ==
    ASSUME Typed, NeverLost, Asked, Looking, GetFinds, [ReadsNext]_<<vars, reader>>
    PROVE  Looking' /\ GetFinds'
<1>1. CASE ReaderOnly /\ UNCHANGED vars
  <2>0. rows' = rows /\ gone' = gone /\ mem' = mem
    BY <1>1 DEF vars, memory, disk, ghosts
  <2>1. ASSUME NEW op, NEW id, NEW s, Ask(op, id, s) PROVE Looking' /\ GetFinds'
    BY <2>1 DEF Ask, Looking, GetFinds, NoAnswer
  <2>2. ASSUME NEW r, Found(r), due' = due, rpc \in {"get_mem", "get_db"},
               r.status # "missing"
        PROVE  Looking' /\ GetFinds'
    BY <2>0, <2>2 DEF Found, Reply, Looking, GetFinds, NoAnswer
  <2>3. CASE GetMem
    <3>1. CASE ask.id \in mem /\ Found(Snapshot(ask.id))
      BY <2>2, <2>3, <3>1 DEF GetMem, Snapshot, Status, Typed, TypeOK, Asked
    <3>2. CASE ask.id \notin mem
      BY <2>0, <2>3, <3>2 DEF GetMem, Looking, Wanted, GetFinds, Asked, NeverLost
    <3> QED
      BY <2>3, <3>1, <3>2 DEF GetMem
  <2>4. CASE GetDB
    <3>1. CASE ask.id \in rows /\ Found(row[ask.id])
      BY <2>2, <2>4, <3>1 DEF GetDB, Row, Status, Typed, TypeOK
    <3>2. CASE ask.id \notin rows
      BY <2>0, <2>4, <3>2 DEF GetDB, Reply, NoAnswer, Looking, Wanted, GetFinds
    <3> QED
      BY <2>4, <3>1, <3>2 DEF GetDB
  <2>5. CASE BodyOpen
    BY <2>0, <2>5 DEF BodyOpen, Reply, NoAnswer, Looking, GetFinds
  <2>6. CASE BodyCopy \/ ListDB \/ ListMem
    BY <2>0, <2>6 DEF BodyCopy, ListDB, ListMem, Reply, NoAnswer, Looking, GetFinds
  <2> QED
    BY <1>1, <2>1, <2>3, <2>4, <2>5, <2>6 DEF ReaderOnly
<1>2. CASE Lost
  BY <1>2 DEF Lost, Looking, GetFinds, NoAnswer
<1>3. CASE UNCHANGED reader
  BY <1>3, ReadsStep, StoredStays DEF reader, Looking, Wanted, GetFinds
<1> QED
  BY <1>1, <1>2, <1>3, ReadsStep

\* The invariant of the reader in every environment.
LEMMA AlwaysAsked == ReadsSpec => [](Typed /\ Asked /\ Looking /\ GetFinds)
<1>1. ReadsInit => Asked /\ Looking /\ GetFinds
  BY DEF ReadsInit, Asked, Looking, GetFinds, NoAnswer, NoAsk, Ops, Calls, Sides
<1>2. (Typed /\ NeverLost /\ Asked /\ Looking /\ GetFinds /\ [ReadsNext]_<<vars, reader>>)
      => (Asked /\ Looking /\ GetFinds)'
  BY NextAsked, NextLooking
<1> QED
  BY <1>1, <1>2, ReadsRefineStore, AlwaysTyped, StoreNeverLost, PTL DEF ReadsSpec

(***************************************************************************)
(* Get never answers 404 for an exchange that was stored when it was asked *)
(* for and was not removed since, although Finalize moves the entry from   *)
(* memory to the database between its two lookups: for any number of       *)
(* exchanges, Clear calls, failures and process stops.                     *)
(***************************************************************************)
THEOREM ReadsGetFinds == ReadsSpec => []GetFinds
BY AlwaysAsked, PTL

-------------------------------------------------------------------------------
(***************************************************************************)
(* BodyServed.  The entry a lookup found states a size and a file that     *)
(* holds at least that; the file stays so until it is copied, because a    *)
(* relay that still writes has it open and appends to it, a closed entry   *)
(* is not written again, and only retention unlinks it.                    *)
(***************************************************************************)

\* The file of an entry in memory holds what its buffer counts, also when
\* the row was written and the memory copy is about to go.
MemWhole ==
    \A id \in mem \ gone, s \in Sides : Whole(buf[id][s], blob[id][s], faults)

\* The file holds n bytes and is not created anew by a later write.
Kept(id, s, n) == blob[id][s] >= n /\ (pc[id] \notin Closed => buf[id][s].path)

Serving ==
    rpc \in {"body_open", "body_copy"} /\ Wanted => Kept(ask.id, ask.side, size)

\* Put is the only way into memory.
LEMMA PutStep ==
    ASSUME Typed, [Next]_vars, NEW id \in mem', id \notin mem
    PROVE  id \in Ids /\ pc'[id] = "put_snap"
<1>t. pc \in [Calls -> PCs] /\ Ids \subseteq Calls
  BY DEF Typed, TypeOK, Calls
<1>1. ASSUME NEW c \in Ids, Put(c) PROVE id \in Ids /\ pc'[id] = "put_snap"
  BY <1>1, <1>t DEF Put, Goto
<1>2. ASSUME NEW c \in Ids, Relay(c) \/ GoIdle(c), ~Put(c) PROVE FALSE
  BY <1>2 DEF Relay, PutSnapshot, PutPublish, RequestGet, RequestWrite,
     RequestWriteFails, Respond, RelayError, UpdateGet, UpdateApply, UpdateSnapshot,
     UpdatePublish, Read, AppendGet, AppendWrite, AppendWriteFails, CloseBody, GoIdle, memory
<1>3. ASSUME NEW c \in Calls, Finalize(c) PROVE FALSE
  BY <1>3 DEF Finalize, FinalizeGet, FinalizeApply, FinalizeClose, FinalizeSnapshot,
     FinalizeInsert, FinalizeInsertFails, FinalizeDelete, FinalizePublish, OverflowIDs,
     PurgeRow, RetentionFails, RemoveFor, memory
<1>4. ASSUME (\E k \in Clearers : Clear(k)) \/ Sweep \/ Crash \/ Restart \/ UNCHANGED vars
      PROVE  FALSE
  BY <1>4 DEF Clear, ClearKnownIDs, ClearDelete, ClearReadDir, ClearRemove,
     ClearRemoveMissing, ClearFails, ClearPublish, Sweep, StaleIDs, SweepNext, Crash, Restart,
     memory, vars
<1> QED
  BY <1>1, <1>2, <1>3, <1>4 DEF Next

\* While the entry is not removed, its files change only by its own writes.
LEMMA FilesKept ==
    ASSUME Typed, Clearers = {}, Leaving, [Next]_vars, up, NEW id \in Ids, id \notin gone,
           ~Writes(id)
    PROVE  blob'[id] = blob[id]
BY FilesStep DEF Leaving

\* A step that is no write keeps the name and the size, or empties the buffer.
LEMMA BuffersKept ==
    ASSUME Typed, [Next]_vars, NEW id \in Ids, NEW s \in Sides, ~Writes(id)
    PROVE  \/ Crash /\ buf'[id][s] = EmptyBuffer
           \/ buf'[id][s].path = buf[id][s].path /\ buf'[id][s].size = buf[id][s].size
<1>1. ASSUME NEW c \in Calls, FinalizeClose(c), Target(c) = id
      PROVE  buf'[id][s].path = buf[id][s].path /\ buf'[id][s].size = buf[id][s].size
  BY <1>1 DEF FinalizeClose, Close, Typed, TypeOK, Buffer
<1> QED
  BY <1>1, BuffersStep

\* MemWhole is inductive.
LEMMA NextMemWhole ==
    ASSUME Typed, HeadsKept, Clearers = {}, Quiet, Leaving, MemWhole, [Next]_vars
    PROVE  MemWhole'
<1> SUFFICES ASSUME NEW id \in mem', id \notin gone', NEW s \in Sides
             PROVE  Whole(buf'[id][s], blob'[id][s], faults')
  BY DEF MemWhole
<1>1. CASE id \notin mem
  <2>1. id \in Ids /\ ~Settled(id)'
    BY <1>1, PutStep DEF Settled, After
  <2>2. BuffersWhole'
    BY NextBuffersWhole DEF Quiet
  <2> QED
    BY <2>1, <2>2 DEF BuffersWhole
<1>2. CASE id \in mem
  <2>0. id \in Ids /\ id \notin gone
    BY <1>2, StoredStays DEF Typed, TypeOK
  <2>1. Whole(buf[id][s], blob[id][s], faults)
    BY <1>2, <2>0 DEF MemWhole
  <2>2. CASE Writes(id)
    BY <2>0, <2>1, <2>2, WriteStep DEF Writes, Quiet, Intact
  <2>3. CASE ~Writes(id) /\ up
    BY <2>0, <2>1, <2>3, FilesKept, BuffersKept, FaultsGrow DEF Whole, EmptyBuffer
  <2>4. CASE ~Writes(id) /\ ~up
    BY <2>0, <2>4, BuffersKept DEF Quiet, Stopped, Whole, EmptyBuffer
  <2> QED
    BY <2>2, <2>3, <2>4
<1> QED
  BY <1>1, <1>2

\* A kept file stays kept while the entry is not removed and the process runs.
LEMMA KeptStays ==
    ASSUME Typed, HeadsKept, Clearers = {}, Quiet, Leaving, [Next]_vars, up, up',
           NEW id \in Ids, id \notin gone, NEW s \in Sides, NEW n \in Nat, Kept(id, s, n)
    PROVE  Kept(id, s, n)'
<1>t. blob[id][s] \in FileLen /\ (blob[id][s])' \in FileLen
  <2>1. Typed'
    BY NextTyped
  <2> QED
    BY <2>1 DEF Typed, TypeOK
<1>1. CASE Writes(id)
  <2>1. buf[id][s].path
    BY <1>1, WritesAt DEF Kept, WritePCs, Closed, After
  <2>2. buf'[id][s].path /\ blob'[id][s] >= blob[id][s]
    BY <1>1, <2>1, WriteStep DEF Writes, Quiet, Intact
  <2> QED
    BY <1>t, <2>2 DEF Kept, FileLen, NoFile
<1>2. CASE ~Writes(id)
  <2>1. blob'[id] = blob[id]
    BY <1>2, FilesKept
  <2>2. pc'[id] \notin Closed => pc[id] \notin Closed
    BY ClosedStays
  <2>3. ~Crash
    BY DEF Crash
  <2> QED
    BY <1>2, <2>1, <2>2, <2>3, BuffersKept DEF Kept
<1> QED
  BY <1>1, <1>2

\* A lookup that found the entry hands Body a file that is kept.
LEMMA FoundKept ==
    ASSUME Typed, Quiet, MemWhole, NEW id \in Ids, id \notin gone, NEW s \in Sides
    PROVE  /\ id \in mem /\ buf[id][s].path => Kept(id, s, buf[id][s].size)
           /\ id \in rows /\ row[id].body[s].path => Kept(id, s, row[id].body[s].size)
<1>1. id \in mem /\ buf[id][s].path => Kept(id, s, buf[id][s].size)
  BY DEF MemWhole, Whole, Kept
<1>2. id \in rows => pc[id] \in Closed
  BY DEF Quiet, Once, Written, Settled, Closed
<1> QED
  BY <1>1, <1>2 DEF Quiet, Intact, RowsWhole, Whole, Kept

\* Serving and BodyServed are inductive: the steps of the reader.
LEMMA ReaderServing ==
    ASSUME Typed, Quiet, MemWhole, Asked, Looking, Serving, BodyServed,
           ReaderOnly, UNCHANGED vars
    PROVE  Serving' /\ BodyServed'
<1>0. gone' = gone /\ blob' = blob /\ pc' = pc /\ buf' = buf
  BY DEF vars, disk, ghosts
<1>1. ASSUME NEW op, NEW id, NEW s, Ask(op, id, s) PROVE Serving' /\ BodyServed'
  BY <1>1 DEF Ask, Serving, BodyServed, NoAnswer
<1>2. ASSUME NEW r, Found(r), due' = due, rpc \in {"get_mem", "get_db"},
             r.body[ask.side].size \in Nat,
             Wanted /\ r.body[ask.side].path => Kept(ask.id, ask.side, r.body[ask.side].size)
      PROVE  Serving' /\ BodyServed'
  <2>1. CASE ask.op = "get" /\ Reply([NoAnswer EXCEPT !.op = ask.op, !.id = ask.id, !.res = r.status])
    BY <2>1 DEF Reply, Serving, BodyServed, NoAnswer
  <2>2. CASE rpc' = "get_mem" /\ answer' = answer
    BY <1>0, <1>2, <2>2 DEF Serving, BodyServed
  <2>3. CASE /\ ask.op = "body"
             /\ Reply([NoAnswer EXCEPT !.op = ask.op, !.id = ask.id, !.res = "copied",
                                       !.size = r.body[ask.side].size,
                                       !.len = r.body[ask.side].size])
    BY <1>2, <2>3 DEF Reply, Serving, BodyServed, NoAnswer
  <2>4. CASE /\ r.body[ask.side].path /\ size' = r.body[ask.side].size
             /\ ask' = ask /\ answer' = answer
    BY <1>0, <1>2, <2>4 DEF Serving, Wanted, Kept, BodyServed
  <2> QED
    BY <1>2, <2>1, <2>2, <2>3, <2>4 DEF Found
<1>3. CASE GetMem
  <2>1. CASE ask.id \in mem /\ Found(Snapshot(ask.id))
    <3>1. /\ ask.id \in Ids /\ ask.side \in Sides
          /\ Snapshot(ask.id).body[ask.side].size \in Nat
          /\ Snapshot(ask.id).body[ask.side].size = buf[ask.id][ask.side].size
          /\ Snapshot(ask.id).body[ask.side].path = buf[ask.id][ask.side].path
      <4>1. ask.id \in Ids /\ ask.side \in Sides
        BY <1>3 DEF GetMem, Asked
      <4>2. /\ Snapshot(ask.id).body[ask.side] = State(buf[ask.id][ask.side])
            /\ State(buf[ask.id][ask.side]).size \in Nat
        BY <4>1, FoundSize
      <4>3. /\ State(buf[ask.id][ask.side]).size = buf[ask.id][ask.side].size
            /\ State(buf[ask.id][ask.side]).path = buf[ask.id][ask.side].path
        BY DEF State
      <4> QED
        BY <4>1, <4>2, <4>3
    <3> QED
      BY <1>2, <1>3, <2>1, <3>1, FoundKept DEF GetMem, Wanted
  <2>2. CASE ask.id \notin mem
    BY <1>0, <1>3, <2>2 DEF GetMem, Serving, BodyServed
  <2> QED
    BY <1>3, <2>1, <2>2 DEF GetMem
<1>4. CASE GetDB
  <2>1. CASE ask.id \in rows /\ Found(row[ask.id])
    BY <1>2, <1>4, <2>1, FoundSize, FoundKept DEF GetDB, Wanted, Asked
  <2>2. CASE ask.id \notin rows
    BY <1>0, <1>4, <2>2 DEF GetDB, Reply, NoAnswer, Looking, Wanted, Serving, BodyServed
  <2> QED
    BY <1>4, <2>1, <2>2 DEF GetDB
<1>5. CASE BodyOpen
  <2>0. rpc = "body_open" /\ size \in Nat /\ due' = due
    BY <1>5 DEF BodyOpen, Asked
  <2>1. CASE /\ blob[ask.id][ask.side] = NoFile
             /\ Reply([NoAnswer EXCEPT !.op = "body", !.id = ask.id, !.res = "failed"])
    <3>1. ~Wanted
      BY <2>0, <2>1 DEF Serving, Kept, NoFile
    <3>2. rpc' = "idle" /\ answer'.id = ask.id
      BY <2>1 DEF Reply, NoAnswer
    <3> QED
      BY <1>0, <2>0, <3>1, <3>2 DEF Serving, BodyServed, Wanted
  <2>2. CASE rpc' = "body_copy" /\ UNCHANGED <<ask, size, answer>>
    BY <1>0, <2>0, <2>2 DEF Serving, Wanted, Kept, BodyServed
  <2> QED
    BY <1>5, <2>1, <2>2 DEF BodyOpen
<1>6. CASE BodyCopy
  BY <1>0, <1>6 DEF BodyCopy, Reply, NoAnswer, NoFile, Asked, Wanted, Kept, Serving, BodyServed
<1>7. CASE ListDB \/ ListMem
  BY <1>0, <1>7 DEF ListDB, ListMem, Reply, NoAnswer, Serving, BodyServed
<1> QED
  BY <1>1, <1>3, <1>4, <1>5, <1>6, <1>7 DEF ReaderOnly

\* Serving and BodyServed are inductive.
LEMMA NextServing ==
    ASSUME Clearers = {}, Typed, HeadsKept, Quiet, Leaving, MemWhole, Asked, Looking,
           Serving, BodyServed, [ReadsNext]_<<vars, reader>>
    PROVE  Serving' /\ BodyServed'
<1>1. CASE ReaderOnly /\ UNCHANGED vars
  BY <1>1, ReaderServing
<1>2. CASE Lost
  BY <1>2 DEF Lost, Serving, BodyServed, NoAnswer
<1>3. CASE UNCHANGED reader /\ (up => up')
  <2>1. [Next]_vars /\ gone \subseteq gone'
    BY ReadsStep, StoredStays
  <2>2. BodyServed'
    BY <1>3, <2>1 DEF reader, BodyServed
  <2>3. Serving'
    <3> SUFFICES ASSUME rpc \in {"body_open", "body_copy"}, Wanted
                 PROVE  Kept(ask.id, ask.side, size)'
      BY <1>3, <2>1 DEF reader, Serving, Wanted
    <3>1. /\ ask.id \in Ids /\ ask.side \in Sides /\ size \in Nat /\ up /\ up'
          /\ ask.id \notin gone /\ Kept(ask.id, ask.side, size)
      BY <1>3 DEF Asked, Serving, Wanted
    <3>2. ASSUME NEW id \in Ids, NEW s \in Sides, NEW n \in Nat, id \notin gone, Kept(id, s, n)
          PROVE  blob'[id][s] >= n /\ (pc'[id] \notin Closed => buf'[id][s].path)
      BY <2>1, <3>1, <3>2, KeptStays DEF Kept
    <3> QED
      BY <1>3, <3>1, <3>2 DEF Kept, reader
  <2> QED
    BY <2>2, <2>3
<1> QED
  BY <1>1, <1>2, <1>3, ReadsStep

(***************************************************************************)
(* While no exchange outlives the pending timeout and nobody clears, the   *)
(* raw body of an exchange that was stored when getBody was called and was *)
(* not removed since is found by both lookups, opened, and fills its       *)
(* Content-Length, whatever fails, while the response streams into the     *)
(* file, the entry moves to the database and retention removes others.     *)
(***************************************************************************)
THEOREM ReadsBodyServed ==
    ASSUME Prompt, Clearers = {} PROVE ReadsSpec => []BodyServed
<1>1. ReadsInit => MemWhole /\ Serving /\ BodyServed
  BY DEF ReadsInit, Init, MemWhole, Serving, BodyServed, NoAnswer
<1>2. (Typed /\ HeadsKept /\ Quiet /\ Leaving /\ MemWhole /\ [ReadsNext]_<<vars, reader>>)
      => MemWhole'
  BY NextMemWhole, ReadsStep
<1>3. (Typed /\ HeadsKept /\ Quiet /\ Leaving /\ MemWhole /\ Asked /\ Looking
        /\ Serving /\ BodyServed /\ [ReadsNext]_<<vars, reader>>)
      => (Serving /\ BodyServed)'
  BY NextServing
<1> QED
  BY <1>1, <1>2, <1>3, ReadsRefineStore, StoreHeadsKept, AlwaysQuiet, AlwaysLeaving, AlwaysAsked, PTL
     DEF ReadsSpec
===============================================================================
