--------------------------- MODULE StoreQuietProofs ---------------------------
(***************************************************************************)
(* Proofs about Store while no exchange outlives the pending timeout and   *)
(* nobody clears the history: what the store promises then depends on the  *)
(* relay of an entry and the sweeper never working on it at once.  Each    *)
(* theorem names what it assumes of the environment; the number of         *)
(* exchanges, the sizes and the retention cap are arbitrary.               *)
(***************************************************************************)
EXTENDS StoreProofs

\* An exchange is never inactive for PENDING_TIMEOUT before its relay ended.
Prompt == IdleAt \subseteq {"end"}

-------------------------------------------------------------------------------
(***************************************************************************)
(* Who works on an entry.                                                  *)
(***************************************************************************)

\* The sweeper takes only entries whose relay has ended.
Swept ==
    /\ \A id \in idle \cup stale : pc[id] = "end"
    /\ pc[Sweeper] # "idle" => pc[target] = "end"

\* A relay that ended stays so, across a restart too.
LEMMA EndStays ==
    ASSUME Typed, [Next]_vars, NEW id \in Ids, pc[id] = "end" PROVE pc'[id] = "end"
<1>t. pc \in [Calls -> PCs] /\ id \in Calls /\ Ids \subseteq Calls /\ Sweeper \notin Ids
  BY SweeperAssumption DEF Typed, TypeOK, Calls
<1>1. ASSUME NEW c \in Ids, Relay(c) \/ GoIdle(c) PROVE pc'[id] = "end"
  BY <1>1, <1>t DEF Relay, Put, PutSnapshot, PutPublish, RequestGet, RequestWrite,
     RequestWriteFails, Respond, RelayError, UpdateGet, UpdateApply, UpdateSnapshot,
     UpdatePublish, Read, AppendGet, AppendWrite, AppendWriteFails, CloseBody, GoIdle,
     At, Goto
<1>2. ASSUME NEW c \in Calls, Finalize(c) PROVE pc'[id] = "end"
  BY <1>2, <1>t DEF Finalize, FinalizeGet, FinalizeApply, FinalizeClose, FinalizeSnapshot,
     FinalizeInsert, FinalizeInsertFails, FinalizeDelete, FinalizePublish, OverflowIDs,
     PurgeRow, RetentionFails, RemoveFor, Return, At, Goto
<1>3. CASE (\E k \in Clearers : Clear(k)) \/ Sweep \/ Crash \/ Restart \/ UNCHANGED vars
  BY <1>3, <1>t DEF Clear, ClearKnownIDs, ClearDelete, ClearReadDir, ClearRemove,
     ClearRemoveMissing, ClearFails, ClearPublish, Sweep, StaleIDs, SweepNext, Crash, Restart,
     At, Goto, vars
<1> QED
  BY <1>1, <1>2, <1>3 DEF Next

\* Swept is inductive in a prompt environment.
LEMMA NextSwept ==
    ASSUME Prompt, Typed, Swept, [Next]_vars PROVE Swept'
<1>t. pc \in [Calls -> PCs] /\ Ids \subseteq Calls /\ Sweeper \in Calls /\ Sweeper \notin Ids
      /\ idle \subseteq Ids /\ stale \subseteq Ids
      /\ (pc[Sweeper] # "idle" => target \in Ids)
  BY SweeperAssumption DEF Typed, TypeOK, Begun, Calls
<1> DEFINE Idled == \A id \in idle' \cup stale' : id \in idle \cup stale \/ (id \in Ids /\ pc[id] = "end")
           Took  == \/ pc'[Sweeper] = "idle"
                    \/ pc[Sweeper] # "idle" /\ target' = target
                    \/ target' \in stale
<1>1. ASSUME NEW c \in Ids, Relay(c) \/ GoIdle(c) PROVE Idled /\ Took
  BY <1>1, <1>t DEF Prompt, Relay, Put, PutSnapshot, PutPublish, RequestGet, RequestWrite,
     RequestWriteFails, Respond, RelayError, UpdateGet, UpdateApply, UpdateSnapshot,
     UpdatePublish, Read, AppendGet, AppendWrite, AppendWriteFails, CloseBody, GoIdle,
     At, Goto, memory, sweeping
<1>2. ASSUME NEW c \in Calls, Finalize(c) PROVE Idled /\ Took
  <2> USE <1>2, <1>t DEF Finalize, FinalizeGet, FinalizeApply, FinalizeClose, FinalizeSnapshot,
     FinalizeInsert, FinalizeInsertFails, FinalizeDelete, FinalizePublish, OverflowIDs,
     PurgeRow, RetentionFails, RemoveFor, memory, sweeping
  <2>1. idle' \subseteq idle /\ stale' = stale /\ target' = target /\ pc[c] # "idle"
    BY DEF At
  <2>2. pc'[Sweeper] = pc[Sweeper] \/ c = Sweeper
    BY DEF Return, Goto
  <2> QED
    BY <2>1, <2>2
<1>3. ASSUME (\E k \in Clearers : Clear(k)) \/ StaleIDs \/ Crash \/ Restart \/ UNCHANGED vars
      PROVE  Idled /\ Took
  <2>1. idle' \subseteq idle /\ stale' \subseteq idle \cup stale /\ target' = target
    BY <1>3 DEF Clear, ClearKnownIDs, ClearDelete, ClearReadDir, ClearRemove,
       ClearRemoveMissing, ClearFails, ClearPublish, StaleIDs, Crash, Restart,
       memory, sweeping, vars
  <2>2. pc'[Sweeper] = pc[Sweeper] \/ pc'[Sweeper] = "idle"
    BY <1>3, <1>t DEF Clear, ClearKnownIDs, ClearDelete, ClearReadDir, ClearRemove,
       ClearRemoveMissing, ClearFails, ClearPublish, StaleIDs, Crash, Restart, vars
  <2> QED
    BY <2>1, <2>2
<1>4. ASSUME SweepNext PROVE Idled /\ Took
  BY <1>4, <1>t DEF SweepNext, memory
<1>5. Idled /\ Took
  BY <1>1, <1>2, <1>3, <1>4 DEF Next, Sweep
<1>6. \A id \in Ids : pc[id] = "end" => pc'[id] = "end"
  BY EndStays
<1> QED
  BY <1>5, <1>6, <1>t DEF Swept

\* While the process is down no call is under way and no buffer has a file.
Stopped ==
    ~up => /\ \A c \in Calls : pc[c] \in {"idle", "end"}
           /\ \A id \in Ids, s \in Sides : ~buf[id][s].path

\* Only a process stop takes the process down, and only a restart brings it up.
LEMMA UpStep ==
    ASSUME [Next]_vars
    PROVE  \/ Crash \/ Restart \/ UNCHANGED vars
           \/ up /\ up'
<1>1. ASSUME NEW c \in Ids, Relay(c) \/ GoIdle(c) PROVE up /\ up'
  BY <1>1 DEF Relay, Put, PutSnapshot, PutPublish, RequestGet, RequestWrite,
     RequestWriteFails, Respond, RelayError, UpdateGet, UpdateApply, UpdateSnapshot,
     UpdatePublish, Read, AppendGet, AppendWrite, AppendWriteFails, CloseBody, GoIdle, At
<1>2. ASSUME NEW c \in Calls, Finalize(c) PROVE up /\ up'
  BY <1>2 DEF Finalize, FinalizeGet, FinalizeApply, FinalizeClose, FinalizeSnapshot,
     FinalizeInsert, FinalizeInsertFails, FinalizeDelete, FinalizePublish, OverflowIDs,
     PurgeRow, RetentionFails, RemoveFor, At
<1>3. ASSUME (\E k \in Clearers : Clear(k)) \/ Sweep PROVE up /\ up'
  BY <1>3 DEF Clear, ClearKnownIDs, ClearDelete, ClearReadDir, ClearRemove,
     ClearRemoveMissing, ClearFails, ClearPublish, Sweep, StaleIDs, SweepNext, At
<1> QED
  BY <1>1, <1>2, <1>3 DEF Next

\* Stopped is inductive.
LEMMA NextStopped ==
    ASSUME Stopped, [Next]_vars PROVE Stopped'
<1>1. CASE Crash
  BY <1>1 DEF Crash, Stopped, EmptyBuffer
<1>2. CASE Restart
  BY <1>2 DEF Restart, Stopped
<1>3. CASE UNCHANGED vars
  BY <1>3 DEF vars, Stopped
<1>4. CASE up /\ up'
  BY <1>4 DEF Stopped
<1> QED
  BY <1>1, <1>2, <1>3, <1>4, UpStep

-------------------------------------------------------------------------------
(***************************************************************************)
(* An entry is written once.  It is settled when its row was inserted (or  *)
(* a process stop lost it): whoever inserted it drops the memory copy      *)
(* next, and nobody can start on it again.                                 *)
(***************************************************************************)
After == {"fin_delete", "fin_pub", "fin_overflow", "fin_purge", "fin_remove"}

Settled(id) ==
    /\ pc[id] \in After \cup {"end"}
    /\ target = id => pc[Sweeper] \in After \cup {"idle", "fin_get"}
    /\ id \in mem => pc[id] = "fin_delete" \/ (target = id /\ pc[Sweeper] = "fin_delete")

\* The row of the entry is there, or on its way out.
Written(id) == id \in rows \/ \E c \in Calls : id \in left[c] \cup purged[c]

Once ==
    /\ \A id \in Ids : Written(id) => Settled(id)
    /\ \A c \in Calls : purged[c] \cap rows = {}

\* A call that has still to insert works on an entry that is not settled.
LEMMA InsertUnsettled ==
    ASSUME Typed, NEW c \in Calls,
           pc[c] \in {"fin_apply", "fin_close", "fin_snap", "fin_insert"}
    PROVE  Target(c) \in Ids /\ ~Settled(Target(c))
<1>1. Target(c) \in Ids
  BY TargetType
<1> QED
  BY <1>1 DEF Target, Settled, After

\* Settled is stable: the steps of a relay.
LEMMA RelaySettled ==
    ASSUME Typed, NEW c \in Ids, Relay(c) \/ GoIdle(c), NEW id \in Ids, Settled(id)
    PROVE  Settled(id)'
<1>t. pc \in [Calls -> PCs] /\ Ids \subseteq Calls /\ Sweeper \in Calls /\ Sweeper \notin Ids
  BY SweeperAssumption DEF Typed, TypeOK, Calls
<1>1. target' = target /\ pc'[Sweeper] = pc[Sweeper]
  BY <1>t DEF Relay, Put, PutSnapshot, PutPublish, RequestGet, RequestWrite,
     RequestWriteFails, Respond, RelayError, UpdateGet, UpdateApply, UpdateSnapshot,
     UpdatePublish, Read, AppendGet, AppendWrite, AppendWriteFails, CloseBody, GoIdle,
     At, Goto, sweeping
<1>2. pc'[id] = pc[id] /\ (id \in mem' => id \in mem)
  BY <1>t DEF Settled, After, Relay, Put, PutSnapshot, PutPublish, RequestGet, RequestWrite,
     RequestWriteFails, Respond, RelayError, UpdateGet, UpdateApply, UpdateSnapshot,
     UpdatePublish, Read, AppendGet, AppendWrite, AppendWriteFails, CloseBody, GoIdle,
     At, Goto, memory
<1> QED
  BY <1>1, <1>2 DEF Settled

\* Settled is stable: the steps of Finalize.
LEMMA FinalizeSettled ==
    ASSUME Typed, Swept, NEW c \in Calls, Finalize(c), NEW id \in Ids, Settled(id)
    PROVE  Settled(id)'
<1>t. pc \in [Calls -> PCs] /\ Ids \subseteq Calls /\ Sweeper \in Calls /\ Sweeper \notin Ids
  BY SweeperAssumption DEF Typed, TypeOK, Calls
<1> USE <1>t DEF At, Goto, memory, sweeping
<1>1. CASE FinalizeGet(c)
  BY <1>1 DEF FinalizeGet, Returned, Target, Settled, Swept, After
<1>2. CASE FinalizeApply(c) \/ FinalizeClose(c) \/ FinalizeSnapshot(c)
  BY <1>2 DEF FinalizeApply, FinalizeClose, FinalizeSnapshot, Settled, After
<1>3. CASE FinalizeInsert(c) \/ FinalizeInsertFails(c)
  BY <1>3 DEF FinalizeInsert, FinalizeInsertFails, Return, Returned, Settled, After
<1>4. CASE FinalizeDelete(c)
  BY <1>4 DEF FinalizeDelete, Target, Settled, After
<1>5. CASE FinalizePublish(c) \/ OverflowIDs(c)
  BY <1>5 DEF FinalizePublish, OverflowIDs, Returned, Settled, After
<1>6. CASE PurgeRow(c) \/ RetentionFails(c) \/ RemoveFor(c)
  BY <1>6 DEF PurgeRow, RetentionFails, RemoveFor, Return, Returned, Settled, After
<1> QED
  BY <1>1, <1>2, <1>3, <1>4, <1>5, <1>6 DEF Finalize

\* Settled is stable.
LEMMA SettledStays ==
    ASSUME Typed, Swept, [Next]_vars, NEW id \in Ids, Settled(id) PROVE Settled(id)'
<1>t. pc \in [Calls -> PCs] /\ Ids \subseteq Calls /\ Sweeper \in Calls /\ Sweeper \notin Ids
  BY SweeperAssumption DEF Typed, TypeOK, Calls
<1>1. CASE (\E k \in Clearers : Clear(k)) \/ StaleIDs \/ Restart \/ UNCHANGED vars
  <2>1. pc' = pc /\ mem' = mem /\ target' = target
    BY <1>1 DEF Clear, ClearKnownIDs, ClearDelete, ClearReadDir, ClearRemove,
       ClearRemoveMissing, ClearFails, ClearPublish, StaleIDs, Restart, memory, sweeping, vars
  <2> QED
    BY <2>1 DEF Settled
<1>2. CASE SweepNext
  BY <1>2, <1>t DEF SweepNext, At, Goto, memory, Settled, After
<1>3. CASE Crash
  BY <1>3, <1>t DEF Crash, Settled, After
<1> QED
  BY <1>1, <1>2, <1>3, RelaySettled, FinalizeSettled DEF Next, Sweep

\* Once is inductive.
LEMMA NextOnce ==
    ASSUME Typed, Swept, Once, [Next]_vars PROVE Once'
<1>t. /\ pc \in [Calls -> PCs] /\ Ids \subseteq Calls /\ Sweeper \in Calls /\ Sweeper \notin Ids
      /\ left \in [Calls -> SUBSET Ids] /\ purged \in [Calls -> SUBSET Ids]
  BY SweeperAssumption DEF Typed, TypeOK, Calls
<1>1. ASSUME NEW c \in Calls, FinalizeInsert(c) PROVE Once'
  <2>1. /\ Target(c) \in Ids /\ ~Settled(Target(c))
        /\ rows' = rows \cup {Target(c)} /\ left' = left /\ purged' = purged
    BY <1>1, InsertUnsettled DEF FinalizeInsert, At, locals
  <2>2. ASSUME NEW id \in Ids, id = Target(c) PROVE Settled(id)'
    <3>1. pc[c] = "fin_insert" /\ pc' = [pc EXCEPT ![c] = "fin_delete"] /\ target' = target
      BY <1>1 DEF FinalizeInsert, At, Goto, sweeping
    <3>2. CASE c = Sweeper
      BY <1>t, <2>2, <3>1, <3>2 DEF Settled, After, Swept, Target
    <3>3. CASE c # Sweeper
      BY <1>t, <2>2, <3>1, <3>3 DEF Settled, After, Swept, Target
    <3> QED
      BY <3>2, <3>3
  <2>3. \A id \in Ids : Written(id)' => Written(id) \/ id = Target(c)
    BY <2>1 DEF Written
  <2>4. \A d \in Calls : purged[d] \cap rows = {} /\ Target(c) \notin purged[d]
    BY <2>1 DEF Once, Written
  <2> QED
    BY <2>1, <2>2, <2>3, <2>4, SettledStays DEF Once
<1>2. ASSUME NEW c \in Calls, PurgeRow(c) PROVE Once'
  <2>1. PICK v \in left[c] :
            /\ rows' = rows \ {v}
            /\ left' = [left EXCEPT ![c] = left[c] \ {v}]
            /\ purged' = [purged EXCEPT ![c] = purged[c] \cup {v}]
    BY <1>2 DEF PurgeRow
  <2>2. \A id \in Ids : Written(id)' => Written(id)
    BY <1>t, <2>1 DEF Written
  <2>3. \A d \in Calls : purged'[d] \cap rows' = {}
    BY <1>t, <2>1 DEF Once
  <2> QED
    BY <2>2, <2>3, SettledStays DEF Once
<1>3. ASSUME rows' \subseteq rows,
             \A d \in Calls : purged'[d] \subseteq purged[d] /\ left'[d] \subseteq left[d] \cup rows
      PROVE  Once'
  <2>1. \A id \in Ids : Written(id)' => Written(id)
    BY <1>3 DEF Written
  <2>2. \A d \in Calls : purged'[d] \cap rows' = {}
    BY <1>3 DEF Once
  <2> QED
    BY <2>1, <2>2, SettledStays DEF Once
<1>4. ASSUME NEW c \in Calls, Finalize(c), ~FinalizeInsert(c), ~PurgeRow(c) PROVE Once'
  BY <1>3, <1>4, <1>t DEF Finalize, FinalizeGet, FinalizeApply, FinalizeClose, FinalizeSnapshot,
     FinalizeInsertFails, FinalizeDelete, FinalizePublish, OverflowIDs,
     RetentionFails, RemoveFor, Return, disk, locals
<1>5. ASSUME \/ \E c \in Ids : Relay(c) \/ GoIdle(c)
             \/ \E k \in Clearers : Clear(k)
             \/ Sweep \/ Crash \/ Restart \/ UNCHANGED vars
      PROVE  rows' \subseteq rows /\ (left' = left \/ left' = [c \in Calls |-> {}])
             /\ (purged' = purged \/ purged' = [c \in Calls |-> {}])
  BY <1>5 DEF Relay, Put, PutSnapshot, PutPublish, RequestGet, RequestWrite,
     RequestWriteFails, Respond, RelayError, UpdateGet, UpdateApply, UpdateSnapshot,
     UpdatePublish, Read, AppendGet, AppendWrite, AppendWriteFails, CloseBody, GoIdle,
     Clear, ClearKnownIDs, ClearDelete, ClearReadDir, ClearRemove, ClearRemoveMissing,
     ClearFails, ClearPublish, Sweep, StaleIDs, SweepNext, Crash, Restart, disk, locals, vars
<1>6. ASSUME rows' \subseteq rows, left' = left \/ left' = [c \in Calls |-> {}],
             purged' = purged \/ purged' = [c \in Calls |-> {}]
      PROVE  Once'
  BY <1>3, <1>6, <1>t
<1> QED
  BY <1>1, <1>2, <1>4, <1>5, <1>6 DEF Next

-------------------------------------------------------------------------------
(***************************************************************************)
(* RowBodyWhole.  A file holds at least the bytes its buffer counts, and   *)
(* exactly those while no call failed.  The promise passes from the buffer *)
(* to the snapshot and from the snapshot to the row, and no file of an     *)
(* entry changes once its buffers were closed.                             *)
(***************************************************************************)

\* The file holds what body, a buffer or a column of a row, states.
Whole(body, len, f) ==
    body.path => len >= body.size /\ (f = 0 => len = body.size)

Closed == After \cup {"fin_snap", "fin_insert", "end"}

\* Until Finalize closes it, a buffer that has a file has it open.
Streaming ==
    \A id \in Ids, s \in Sides :
        pc[id] \notin Closed /\ buf[id][s].path => buf[id][s].file

BuffersWhole ==
    \A id \in Ids, s \in Sides : ~Settled(id) => Whole(buf[id][s], blob[id][s], faults)

SnapshotsWhole ==
    \A c \in Calls, s \in Sides :
        pc[c] = "fin_insert" => Whole(snap[c].body[s], blob[Target(c)][s], faults)

RowsWhole ==
    \A id \in rows, s \in Sides : Whole(row[id].body[s], blob[id][s], faults)

Intact == Streaming /\ BuffersWhole /\ SnapshotsWhole /\ RowsWhole

\* A write that succeeds appends to the file what it adds to the size.
LEMMA WriteWhole ==
    ASSUME NEW b \in Buffer, NEW len \in FileLen, NEW n \in Nat, NEW f \in Nat,
           HeadKept(b), b.path => b.file
    PROVE  LET w == Write(b, len, n) IN
           /\ Whole(b, len, f) => Whole(w.buf, w.len, f)
           /\ w.buf.path => w.buf.file
           /\ b.path => w.buf.path /\ w.len >= len
BY MaxInlineAssumption
   DEF Write, Buffer, FileLen, NoFile, Inline, OnDisk, Accept, Least, HeadKept, Spilled, Extend, Whole

\* A write that fails may leave bytes beyond the size, never less.
LEMMA WriteFailuresWhole ==
    ASSUME NEW b \in Buffer, NEW len \in FileLen, NEW n \in Nat, NEW f \in Nat,
           HeadKept(b), b.path => b.file, NEW w \in WriteFailures(b, len, n)
    PROVE  /\ Whole(b, len, f) => Whole(w.buf, w.len, f + 1)
           /\ w.buf.path => w.buf.file
           /\ b.path => w.buf.path /\ w.len >= len
<1>1. CASE w.buf = Failed(b) /\ ~b.file
  BY <1>1 DEF Failed, Buffer, Whole
<1>2. ASSUME NEW k \in Nat, w.buf = OnDisk(Failed(b)), w.len = Extend(Spilled(b, len), k)
      PROVE  /\ Whole(b, len, f) => Whole(w.buf, w.len, f + 1)
             /\ w.buf.path => w.buf.file
             /\ b.path => w.buf.path /\ w.len >= len
  BY <1>2, MaxInlineAssumption
     DEF Failed, OnDisk, Buffer, FileLen, NoFile, Least, HeadKept, Spilled, Extend, Whole
<1> QED
  BY <1>1, <1>2, WriteFailuresCases

\* Where a relay writes to a buffer.
WritePCs == {"req_write", "app_write"}

\* A relay's write: of its own entry, one side, open or not yet on disk.
LEMMA WriteStep ==
    ASSUME Typed, HeadsKept, Streaming, NEW c \in Ids,
           \/ RequestWrite(c) \/ RequestWriteFails(c)
           \/ AppendWrite(c) \/ AppendWriteFails(c)
    PROVE  /\ pc[c] \in WritePCs /\ pc' = [pc EXCEPT ![c] = pc'[c]] /\ pc'[c] \in {"relay", "stream"}
           /\ \A i \in Ids \ {c} : buf'[i] = buf[i] /\ blob'[i] = blob[i]
           /\ \A s \in Sides :
                 /\ Whole(buf[c][s], blob[c][s], faults) => Whole(buf'[c][s], blob'[c][s], faults')
                 /\ buf'[c][s].path => buf'[c][s].file
                 /\ buf[c][s].path => buf'[c][s].path /\ blob'[c][s] >= blob[c][s]
<1>t. /\ buf \in [Ids -> [Sides -> Buffer]] /\ blob \in [Ids -> [Sides -> FileLen]]
      /\ faults \in Nat /\ pc \in [Calls -> PCs] /\ c \in Calls
  BY DEF Typed, TypeOK, Calls
<1>1. /\ pc[c] \in WritePCs /\ pc' = [pc EXCEPT ![c] = pc'[c]] /\ pc'[c] \in {"relay", "stream"}
  BY <1>t DEF RequestWrite, RequestWriteFails, AppendWrite, AppendWriteFails, At, Goto, WritePCs
<1>2. \A s \in Sides : /\ buf[c][s] \in Buffer /\ blob[c][s] \in FileLen /\ HeadKept(buf[c][s])
                       /\ buf[c][s].path => buf[c][s].file
  BY <1>t, <1>1 DEF HeadsKept, Streaming, Closed, After, WritePCs
<1> DEFINE Good(b, l, b1, l1, f1) ==
      /\ Whole(b, l, faults) => Whole(b1, l1, f1)
      /\ b1.path => b1.file
      /\ b.path => b1.path /\ l1 >= l
<1>3. \E s \in Sides : \E b1, l1 :
          /\ Wrote(c, s, [buf |-> b1, len |-> l1])
          /\ Good(buf[c][s], blob[c][s], b1, l1, faults')
          /\ faults' = faults \/ faults' = faults + 1
  <2>1. CASE RequestWrite(c) \/ AppendWrite(c)
    <3>1. PICK s \in Sides, n \in Nat : Wrote(c, s, Write(buf[c][s], blob[c][s], n))
      BY <2>1, SizesAssumption DEF RequestWrite, AppendWrite, Sides
    <3>2. faults' = faults
      BY <2>1 DEF RequestWrite, AppendWrite, bounds
    <3> DEFINE w == Write(buf[c][s], blob[c][s], n)
    <3>3. Good(buf[c][s], blob[c][s], w.buf, w.len, faults)
      BY <1>t, <1>2, WriteWhole
    <3> QED
      BY <3>1, <3>2, <3>3 DEF Wrote
  <2>2. CASE RequestWriteFails(c) \/ AppendWriteFails(c)
    <3>1. PICK s \in Sides, n \in Nat :
              \E w \in WriteFailures(buf[c][s], blob[c][s], n) : Wrote(c, s, w)
      BY <2>2, SizesAssumption DEF RequestWriteFails, AppendWriteFails, Sides
    <3>2. PICK w \in WriteFailures(buf[c][s], blob[c][s], n) : Wrote(c, s, w)
      BY <3>1
    <3>3. faults' = faults + 1
      BY <2>2 DEF RequestWriteFails, AppendWriteFails, Fault
    <3>4. Good(buf[c][s], blob[c][s], w.buf, w.len, faults + 1)
      BY <1>t, <1>2, <3>1, <3>2, WriteFailuresWhole
    <3> QED
      BY <3>2, <3>3, <3>4 DEF Wrote
  <2> QED
    BY <2>1, <2>2
<1>4. PICK s \in Sides : \E b1, l1 :
          /\ Wrote(c, s, [buf |-> b1, len |-> l1])
          /\ Good(buf[c][s], blob[c][s], b1, l1, faults')
          /\ faults' = faults \/ faults' = faults + 1
  BY <1>3
<1>5. PICK b1, l1 :
          /\ Wrote(c, s, [buf |-> b1, len |-> l1])
          /\ Good(buf[c][s], blob[c][s], b1, l1, faults')
          /\ faults' = faults \/ faults' = faults + 1
  BY <1>4
<1>6. /\ \A i \in Ids \ {c} : buf'[i] = buf[i] /\ blob'[i] = blob[i]
      /\ buf'[c][s] = b1 /\ blob'[c][s] = l1
      /\ \A r \in Sides \ {s} : buf'[c][r] = buf[c][r] /\ blob'[c][r] = blob[c][r]
  BY <1>t, <1>5 DEF Wrote
<1>7. \A r \in Sides \ {s} : Good(buf[c][r], blob[c][r], buf[c][r], blob[c][r], faults')
  BY <1>t, <1>2, <1>5 DEF Whole, FileLen, NoFile
<1>8. ASSUME NEW r \in Sides
      PROVE  Good(buf[c][r], blob[c][r], buf'[c][r], blob'[c][r], faults')
  <2>1. CASE r = s
    BY <1>5, <1>6, <2>1
  <2>2. CASE r # s
    BY <1>6, <1>7, <2>2
  <2> QED
    BY <2>1, <2>2
<1> QED
  BY <1>1, <1>6, <1>8

Writes(c) ==
    \/ RequestWrite(c) \/ RequestWriteFails(c)
    \/ AppendWrite(c) \/ AppendWriteFails(c)

\* What changes the files of an entry while nobody clears.
LEMMA FilesStep ==
    ASSUME Typed, Clearers = {}, [Next]_vars, NEW id \in Ids
    PROVE  \/ blob'[id] = blob[id]
           \/ Writes(id)
           \/ \E c \in Calls : id \in purged[c]
           \/ ~up /\ id \notin rows
<1>t. blob \in [Ids -> [Sides -> FileLen]]
  BY DEF Typed, TypeOK
<1>1. ASSUME NEW c \in Ids, Relay(c) \/ GoIdle(c) PROVE Writes(c) \/ blob' = blob
  BY <1>1 DEF Writes, Relay, Put, PutSnapshot, PutPublish, RequestGet, Respond, RelayError,
     UpdateGet, UpdateApply, UpdateSnapshot, UpdatePublish, Read, AppendGet, CloseBody, GoIdle, disk
<1>2. ASSUME NEW c \in Ids, Writes(c), c # id PROVE blob'[id] = blob[id]
  BY <1>2, <1>t DEF Writes, RequestWrite, RequestWriteFails, AppendWrite, AppendWriteFails, Wrote
<1>3. ASSUME NEW c \in Calls, RemoveFor(c), id \notin purged[c] PROVE blob'[id] = blob[id]
  BY <1>3, <1>t DEF RemoveFor, Removed
<1>4. ASSUME NEW c \in Calls, Finalize(c) PROVE RemoveFor(c) \/ blob' = blob
  BY <1>4 DEF Finalize, FinalizeGet, FinalizeApply, FinalizeClose, FinalizeSnapshot,
     FinalizeInsert, FinalizeInsertFails, FinalizeDelete, FinalizePublish, OverflowIDs,
     PurgeRow, RetentionFails, disk
<1>5. Restart => ~up /\ (id \in rows => blob'[id] = blob[id])
  BY DEF Restart, OrphansRemoved
<1>6. Sweep \/ Crash \/ UNCHANGED vars => blob' = blob
  BY DEF Sweep, StaleIDs, SweepNext, Crash, vars, disk
<1> QED
  BY <1>1, <1>2, <1>3, <1>4, <1>5, <1>6 DEF Next

\* What changes the buffers of an entry, closing aside.
LEMMA BuffersStep ==
    ASSUME Typed, [Next]_vars, NEW id \in Ids
    PROVE  \/ buf'[id] = buf[id]
           \/ Writes(id)
           \/ \E c \in Calls : FinalizeClose(c) /\ Target(c) = id
           \/ Crash /\ \A s \in Sides : buf'[id][s] = EmptyBuffer
<1>t. buf \in [Ids -> [Sides -> Buffer]]
  BY DEF Typed, TypeOK
<1>1. ASSUME NEW c \in Ids, Relay(c) \/ GoIdle(c) PROVE Writes(c) \/ buf' = buf
  BY <1>1 DEF Writes, Relay, Put, PutSnapshot, PutPublish, RequestGet, Respond, RelayError,
     UpdateGet, UpdateApply, UpdateSnapshot, UpdatePublish, Read, AppendGet, CloseBody, GoIdle
<1>2. ASSUME NEW c \in Ids, Writes(c), c # id PROVE buf'[id] = buf[id]
  BY <1>2, <1>t DEF Writes, RequestWrite, RequestWriteFails, AppendWrite, AppendWriteFails, Wrote
<1>3. ASSUME NEW c \in Calls, FinalizeClose(c), Target(c) # id PROVE buf'[id] = buf[id]
  BY <1>3, <1>t DEF FinalizeClose
<1>4. ASSUME NEW c \in Calls, Finalize(c) PROVE FinalizeClose(c) \/ buf' = buf
  BY <1>4 DEF Finalize, FinalizeGet, FinalizeApply, FinalizeSnapshot,
     FinalizeInsert, FinalizeInsertFails, FinalizeDelete, FinalizePublish, OverflowIDs,
     PurgeRow, RetentionFails, RemoveFor
<1>5. Crash => \A s \in Sides : buf'[id][s] = EmptyBuffer
  BY DEF Crash
<1>6. (\E k \in Clearers : Clear(k)) \/ Sweep \/ Restart \/ UNCHANGED vars => buf' = buf
  BY DEF Clear, ClearKnownIDs, ClearDelete, ClearReadDir, ClearRemove, ClearRemoveMissing,
     ClearFails, ClearPublish, Sweep, StaleIDs, SweepNext, Restart, vars
<1> QED
  BY <1>1, <1>2, <1>3, <1>4, <1>5, <1>6 DEF Next

\* A closed buffer is not opened again.
LEMMA ClosedStays ==
    ASSUME Typed, [Next]_vars, NEW id \in Ids, pc[id] \in Closed PROVE pc'[id] \in Closed
<1>t. pc \in [Calls -> PCs] /\ id \in Calls /\ Ids \subseteq Calls /\ Sweeper \notin Ids
  BY SweeperAssumption DEF Typed, TypeOK, Calls
<1> USE DEF Closed, After
<1>1. ASSUME NEW c \in Ids, Relay(c) \/ GoIdle(c) PROVE pc'[id] \in Closed
  BY <1>1, <1>t DEF Relay, Put, PutSnapshot, PutPublish, RequestGet, RequestWrite,
     RequestWriteFails, Respond, RelayError, UpdateGet, UpdateApply, UpdateSnapshot,
     UpdatePublish, Read, AppendGet, AppendWrite, AppendWriteFails, CloseBody, GoIdle,
     At, Goto
<1>2. ASSUME NEW c \in Calls, Finalize(c) PROVE pc'[id] \in Closed
  BY <1>2, <1>t DEF Finalize, FinalizeGet, FinalizeApply, FinalizeClose, FinalizeSnapshot,
     FinalizeInsert, FinalizeInsertFails, FinalizeDelete, FinalizePublish, OverflowIDs,
     PurgeRow, RetentionFails, RemoveFor, Return, Returned, At, Goto
<1>3. CASE (\E k \in Clearers : Clear(k)) \/ Sweep \/ Crash \/ Restart \/ UNCHANGED vars
  BY <1>3, <1>t DEF Clear, ClearKnownIDs, ClearDelete, ClearReadDir, ClearRemove,
     ClearRemoveMissing, ClearFails, ClearPublish, Sweep, StaleIDs, SweepNext, Crash, Restart,
     At, Goto, vars
<1> QED
  BY <1>1, <1>2, <1>3 DEF Next

\* A failure is never forgotten.
LEMMA FaultsGrow ==
    ASSUME Typed, [Next]_vars PROVE faults' \in Nat /\ (faults' = 0 => faults = 0)
<1>1. faults \in Nat
  BY DEF Typed, TypeOK
<1>2. ASSUME NEW c \in Ids, Relay(c) \/ GoIdle(c) PROVE faults' = faults \/ faults' = faults + 1
  BY <1>2 DEF Relay, Put, PutSnapshot, PutPublish, RequestGet, RequestWrite,
     RequestWriteFails, Respond, RelayError, UpdateGet, UpdateApply, UpdateSnapshot,
     UpdatePublish, Read, AppendGet, AppendWrite, AppendWriteFails, CloseBody, GoIdle,
     Fault, bounds
<1>3. ASSUME NEW c \in Calls, Finalize(c) PROVE faults' = faults \/ faults' = faults + 1
  BY <1>3 DEF Finalize, FinalizeGet, FinalizeApply, FinalizeClose, FinalizeSnapshot,
     FinalizeInsert, FinalizeInsertFails, FinalizeDelete, FinalizePublish, OverflowIDs,
     PurgeRow, RetentionFails, RemoveFor, Fault, bounds
<1>4. ASSUME (\E k \in Clearers : Clear(k)) \/ Sweep \/ Crash \/ Restart \/ UNCHANGED vars
      PROVE  faults' = faults \/ faults' = faults + 1
  BY <1>4 DEF Clear, ClearKnownIDs, ClearDelete, ClearReadDir, ClearRemove, ClearRemoveMissing,
     ClearFails, ClearPublish, Sweep, StaleIDs, SweepNext, Crash, Restart, Fault, bounds, vars
<1>5. faults' = faults \/ faults' = faults + 1
  BY <1>2, <1>3, <1>4 DEF Next
<1> QED
  BY <1>1, <1>5

\* An entry whose relay is writing is in nobody else's hands.
LEMMA WriterAlone ==
    ASSUME Typed, Swept, NEW id \in Ids, pc[id] \in WritePCs, NEW c \in Calls,
           Target(c) = id, c # id
    PROVE  pc[c] = "idle"
BY SweeperAssumption DEF Target, Swept, WritePCs, Calls

\* A relay that writes: its program counter, and its entry is not settled.
LEMMA WritesAt ==
    ASSUME NEW c \in Ids, Writes(c) PROVE pc[c] \in WritePCs /\ ~Settled(c)
<1>1. pc[c] \in WritePCs
  BY DEF Writes, RequestWrite, RequestWriteFails, AppendWrite, AppendWriteFails, At, WritePCs
<1> QED
  BY <1>1 DEF WritePCs, Settled, After

\* Streaming is inductive.
LEMMA NextStreaming ==
    ASSUME Typed, HeadsKept, Swept, Streaming, [Next]_vars PROVE Streaming'
<1> SUFFICES ASSUME NEW id \in Ids, NEW s \in Sides, pc'[id] \notin Closed, buf'[id][s].path
             PROVE  buf'[id][s].file
  BY DEF Streaming
<1>1. pc[id] \notin Closed
  BY ClosedStays
<1>2. CASE buf'[id] = buf[id]
  BY <1>1, <1>2 DEF Streaming
<1>3. CASE Writes(id)
  BY <1>3, WriteStep DEF Writes
<1>4. ASSUME NEW c \in Calls, FinalizeClose(c), Target(c) = id PROVE FALSE
  <2>1. pc[c] = "fin_close" /\ pc' = [pc EXCEPT ![c] = "fin_snap"] /\ pc \in [Calls -> PCs]
    BY <1>4 DEF FinalizeClose, At, Goto, Typed, TypeOK
  <2> QED
    BY <1>1, <1>4, <2>1 DEF Target, Swept, Closed, After
<1>5. CASE \A r \in Sides : buf'[id][r] = EmptyBuffer
  BY <1>5 DEF EmptyBuffer
<1> QED
  BY <1>2, <1>3, <1>4, <1>5, BuffersStep

\* BuffersWhole is inductive.
LEMMA NextBuffersWhole ==
    ASSUME Typed, HeadsKept, Clearers = {}, Swept, Stopped, Once, Intact, [Next]_vars
    PROVE  BuffersWhole'
<1> SUFFICES ASSUME NEW id \in Ids, NEW s \in Sides, ~Settled(id)'
             PROVE  Whole(buf'[id][s], blob'[id][s], faults')
  BY DEF BuffersWhole
<1>1. ~Settled(id) /\ Whole(buf[id][s], blob[id][s], faults)
  BY SettledStays DEF Intact, BuffersWhole
<1>2. CASE Writes(id)
  BY <1>1, <1>2, WriteStep DEF Writes, Intact
<1>3. CASE ~Writes(id)
  <2>1. \/ ~buf'[id][s].path
        \/ buf'[id][s].path = buf[id][s].path /\ buf'[id][s].size = buf[id][s].size
    <3>1. ASSUME NEW c \in Calls, FinalizeClose(c), Target(c) = id
          PROVE  buf'[id][s].path = buf[id][s].path /\ buf'[id][s].size = buf[id][s].size
      BY <3>1 DEF FinalizeClose, Close, Typed, TypeOK, Buffer
    <3> QED
      BY <1>3, <3>1, BuffersStep DEF EmptyBuffer
  <2>2. blob'[id] = blob[id] \/ ~buf'[id][s].path
    <3>1. \A c \in Calls : id \notin purged[c]
      BY <1>1 DEF Once, Written
    <3>2. ~up => ~buf'[id][s].path
      BY <2>1 DEF Stopped
    <3> QED
      BY <1>3, <3>1, <3>2, FilesStep
  <2> QED
    BY <1>1, <2>1, <2>2, FaultsGrow DEF Whole
<1> QED
  BY <1>2, <1>3

\* Where a snapshot to insert comes from.
LEMMA InsertStep ==
    ASSUME Typed, [Next]_vars, NEW d \in Calls, pc'[d] = "fin_insert"
    PROVE  \/ FinalizeSnapshot(d)
           \/ pc[d] = "fin_insert" /\ snap'[d] = snap[d] /\ Target(d)' = Target(d)
<1>t. /\ pc \in [Calls -> PCs] /\ snap \in [Calls -> Row] /\ Ids \subseteq Calls
      /\ Sweeper \in Calls /\ Sweeper \notin Ids
  BY SweeperAssumption DEF Typed, TypeOK, Calls
<1>1. ASSUME NEW c \in Ids, Relay(c) \/ GoIdle(c)
      PROVE  pc[d] = "fin_insert" /\ snap'[d] = snap[d] /\ target' = target
  BY <1>1, <1>t DEF Relay, Put, PutSnapshot, PutPublish, RequestGet, RequestWrite,
     RequestWriteFails, Respond, RelayError, UpdateGet, UpdateApply, UpdateSnapshot,
     UpdatePublish, Read, AppendGet, AppendWrite, AppendWriteFails, CloseBody, GoIdle,
     At, Goto, AfterUpdate, TakeSnapshot, locals, sweeping
<1>2. ASSUME NEW c \in Calls, Finalize(c), ~FinalizeSnapshot(d)
      PROVE  pc[d] = "fin_insert" /\ snap'[d] = snap[d] /\ target' = target
  BY <1>2, <1>t DEF Finalize, FinalizeGet, FinalizeApply, FinalizeClose, FinalizeSnapshot,
     FinalizeInsert, FinalizeInsertFails, FinalizeDelete, FinalizePublish, OverflowIDs,
     PurgeRow, RetentionFails, RemoveFor, Return, Returned, At, Goto, TakeSnapshot, locals, sweeping
<1>3. ASSUME (\E k \in Clearers : Clear(k)) \/ StaleIDs \/ Restart \/ UNCHANGED vars
      PROVE  pc[d] = "fin_insert" /\ snap'[d] = snap[d] /\ target' = target
  BY <1>3 DEF Clear, ClearKnownIDs, ClearDelete, ClearReadDir, ClearRemove,
     ClearRemoveMissing, ClearFails, ClearPublish, StaleIDs, Restart, locals, sweeping, vars
<1>4. ASSUME SweepNext PROVE pc[d] = "fin_insert" /\ snap'[d] = snap[d] /\ d # Sweeper
  BY <1>4, <1>t DEF SweepNext, At, Goto, locals
<1>5. ASSUME Crash PROVE FALSE
  BY <1>5, <1>t DEF Crash
<1> QED
  BY <1>1, <1>2, <1>3, <1>4, <1>5 DEF Next, Sweep, Target

\* SnapshotsWhole is inductive.
LEMMA NextSnapshotsWhole ==
    ASSUME Typed, Clearers = {}, Swept, Stopped, Once, Intact, [Next]_vars
    PROVE  SnapshotsWhole'
<1> SUFFICES ASSUME NEW d \in Calls, NEW s \in Sides, pc'[d] = "fin_insert"
             PROVE  Whole(snap'[d].body[s], blob'[Target(d)'][s], faults')
  BY DEF SnapshotsWhole
<1>1. CASE FinalizeSnapshot(d)
  <2>1. /\ Target(d) \in Ids /\ ~Settled(Target(d)) /\ Target(d)' = Target(d)
        /\ blob' = blob /\ faults' = faults
    BY <1>1, InsertUnsettled DEF FinalizeSnapshot, At, Target, sweeping, disk, bounds
  <2>2. snap'[d].body[s] = State(buf[Target(d)][s])
    BY <1>1, <2>1 DEF FinalizeSnapshot, TakeSnapshot, Snapshot, Typed, TypeOK
  <2> QED
    BY <2>1, <2>2 DEF Intact, BuffersWhole, Whole, State
<1>2. CASE pc[d] = "fin_insert" /\ snap'[d] = snap[d] /\ Target(d)' = Target(d)
  <2>1. Target(d) \in Ids /\ ~Settled(Target(d))
    BY <1>2, InsertUnsettled
  <2>2. \A c \in Calls : Target(d) \notin purged[c]
    BY <2>1 DEF Once, Written
  <2>3. ~Writes(Target(d))
    BY <1>2, <2>1, WritesAt, WriterAlone DEF WritePCs
  <2>4. up
    BY <1>2 DEF Stopped
  <2>5. blob'[Target(d)] = blob[Target(d)]
    BY <2>1, <2>2, <2>3, <2>4, FilesStep
  <2> QED
    BY <1>2, <2>5, FaultsGrow DEF Intact, SnapshotsWhole, Whole
<1> QED
  BY <1>1, <1>2, InsertStep

\* Where a row comes from.
LEMMA RowStep ==
    ASSUME Typed, [Next]_vars, NEW id \in rows'
    PROVE  \/ \E c \in Calls : FinalizeInsert(c) /\ Target(c) = id
           \/ id \in rows /\ row'[id] = row[id]
<1>t. row \in [Ids -> Row] /\ rows \subseteq Ids
  BY DEF Typed, TypeOK
<1>1. ASSUME NEW c \in Calls, FinalizeInsert(c), Target(c) # id PROVE id \in rows /\ row'[id] = row[id]
  BY <1>1, <1>t DEF FinalizeInsert
<1>2. ASSUME NEW c \in Calls, PurgeRow(c) PROVE id \in rows /\ row'[id] = row[id]
  BY <1>2, <1>t DEF PurgeRow
<1>3. ASSUME NEW c \in Calls, Finalize(c), ~FinalizeInsert(c), ~PurgeRow(c)
      PROVE  id \in rows /\ row'[id] = row[id]
  BY <1>3 DEF Finalize, FinalizeGet, FinalizeApply, FinalizeClose, FinalizeSnapshot,
     FinalizeInsertFails, FinalizeDelete, FinalizePublish, OverflowIDs, RetentionFails, RemoveFor, disk
<1>4. ASSUME \/ \E c \in Ids : Relay(c) \/ GoIdle(c)
             \/ \E k \in Clearers : Clear(k)
             \/ Sweep \/ Crash \/ Restart \/ UNCHANGED vars
      PROVE  id \in rows /\ row'[id] = row[id]
  BY <1>4 DEF Relay, Put, PutSnapshot, PutPublish, RequestGet, RequestWrite,
     RequestWriteFails, Respond, RelayError, UpdateGet, UpdateApply, UpdateSnapshot,
     UpdatePublish, Read, AppendGet, AppendWrite, AppendWriteFails, CloseBody, GoIdle,
     Clear, ClearKnownIDs, ClearDelete, ClearReadDir, ClearRemove, ClearRemoveMissing,
     ClearFails, ClearPublish, Sweep, StaleIDs, SweepNext, Crash, Restart, disk, vars
<1> QED
  BY <1>1, <1>2, <1>3, <1>4 DEF Next

\* RowsWhole is inductive.
LEMMA NextRowsWhole ==
    ASSUME Typed, Clearers = {}, Swept, Stopped, Once, Intact, [Next]_vars
    PROVE  RowsWhole'
<1> SUFFICES ASSUME NEW id \in rows', NEW s \in Sides
             PROVE  Whole(row'[id].body[s], blob'[id][s], faults')
  BY DEF RowsWhole
<1>1. ASSUME NEW c \in Calls, FinalizeInsert(c), Target(c) = id
      PROVE  Whole(row'[id].body[s], blob'[id][s], faults')
  <2>1. pc[c] = "fin_insert" /\ id \in Ids
    BY <1>1, InsertUnsettled DEF FinalizeInsert, At
  <2>2. row'[id] = snap[c] /\ blob' = blob /\ faults' = faults
    BY <1>1, <2>1 DEF FinalizeInsert, bounds, Typed, TypeOK
  <2> QED
    BY <1>1, <2>1, <2>2 DEF Intact, SnapshotsWhole
<1>2. CASE id \in rows /\ row'[id] = row[id]
  <2>1. id \in Ids /\ Settled(id) /\ \A c \in Calls : id \notin purged[c]
    BY <1>2 DEF Once, Written, Typed, TypeOK
  <2>2. blob'[id] = blob[id]
    BY <1>2, <2>1, FilesStep, WritesAt
  <2> QED
    BY <1>2, <2>2, FaultsGrow DEF Intact, RowsWhole, Whole
<1> QED
  BY <1>1, <1>2, RowStep

\* The invariant of a prompt environment in which nobody clears.
Quiet == Swept /\ Stopped /\ Once /\ Intact

\* It holds when the process starts.
LEMMA InitQuiet == Init => Quiet
<1> SUFFICES ASSUME Init PROVE Quiet
  OBVIOUS
<1>1. Swept /\ Stopped
  BY DEF Init, Swept, Stopped, EmptyBuffer, Calls
<1>2. Once
  BY DEF Init, Once, Written
<1>3. Intact
  BY DEF Init, Intact, Streaming, BuffersWhole, SnapshotsWhole, RowsWhole, Whole, EmptyBuffer
<1> QED
  BY <1>1, <1>2, <1>3 DEF Quiet

\* Quiet is an invariant then, whatever fails and however often the process stops.
LEMMA AlwaysQuiet ==
    ASSUME Prompt, Clearers = {} PROVE Spec => []Quiet
<1>1. Typed /\ HeadsKept /\ Quiet /\ [Next]_vars => Quiet'
  BY NextSwept, NextStopped, NextOnce, NextStreaming, NextBuffersWhole, NextSnapshotsWhole,
     NextRowsWhole DEF Quiet, Intact
<1> QED
  BY <1>1, InitQuiet, AlwaysTyped, StoreHeadsKept, PTL DEF Spec

(***************************************************************************)
(* While no exchange outlives the pending timeout and nobody clears, the   *)
(* file a row names exists and holds the size the row states, across       *)
(* failed writes and inserts, the sweeps that retry them, retention by     *)
(* concurrent calls, process stops and restarts.                           *)
(***************************************************************************)
THEOREM StoreRowBodyWhole ==
    ASSUME Prompt, Clearers = {} PROVE Spec => []RowBodyWhole
<1>1. Quiet => RowBodyWhole
  BY DEF Quiet, Intact, RowsWhole, Whole, RowBodyWhole
<1> QED
  BY <1>1, AlwaysQuiet, PTL

-------------------------------------------------------------------------------
(***************************************************************************)
(* While in addition nothing fails, no entry is left in memory by a relay  *)
(* that ended, so the sweeper finds nothing to do.                         *)
(***************************************************************************)
LeftPCs == {"idle", "end", "fin_pub", "fin_overflow", "fin_purge", "fin_remove"}

Inert ==
    /\ pc[Sweeper] = "idle" /\ idle = {} /\ stale = {}
    /\ \A id \in Ids : pc[id] \in LeftPCs => id \notin mem

\* No call fails.
LEMMA NoFault ==
    ASSUME Typed, MaxFaults = 0 PROVE ~Fault
BY DEF Typed, TypeOK, Fault

\* Finalize is called by relays only.
LEMMA InertCalls ==
    ASSUME Inert, NEW c \in Calls, Finalize(c) PROVE c \in Ids /\ Target(c) = c
<1>1. pc[c] # "idle"
  BY DEF Finalize, FinalizeGet, FinalizeApply, FinalizeClose, FinalizeSnapshot,
     FinalizeInsert, FinalizeInsertFails, FinalizeDelete, FinalizePublish, OverflowIDs,
     PurgeRow, RetentionFails, RemoveFor, At
<1> QED
  BY <1>1, SweeperAssumption DEF Inert, Calls, Target

\* The steps of Finalize when nothing fails.
FinalizeWorks(c) ==
    \/ FinalizeGet(c) \/ FinalizeApply(c) \/ FinalizeClose(c) \/ FinalizeSnapshot(c)
    \/ FinalizeInsert(c) \/ FinalizeDelete(c) \/ FinalizePublish(c)
    \/ OverflowIDs(c) \/ PurgeRow(c) \/ RemoveFor(c)

\* With no fault left to happen, the failing steps of Finalize are not taken.
LEMMA NothingFails ==
    ASSUME Typed, MaxFaults = 0, NEW c \in Calls, Finalize(c) PROVE FinalizeWorks(c)
BY NoFault DEF Finalize, FinalizeWorks, FinalizeInsertFails, RetentionFails

\* Inert is inductive.
LEMMA NextInert ==
    ASSUME Prompt, MaxFaults = 0, Typed, Inert, [Next]_vars PROVE Inert'
<1>t. pc \in [Calls -> PCs] /\ Ids \subseteq Calls /\ Sweeper \in Calls /\ Sweeper \notin Ids
  BY SweeperAssumption DEF Typed, TypeOK, Calls
<1>1. ASSUME NEW c \in Ids, Relay(c) PROVE Inert'
  <2> USE <1>1 DEF Relay, Put, PutSnapshot, PutPublish, RequestGet, RequestWrite,
     RequestWriteFails, Respond, RelayError, UpdateGet, UpdateApply, UpdateSnapshot,
     UpdatePublish, Read, AppendGet, AppendWrite, AppendWriteFails, CloseBody, Goto, memory
  <2>1. pc'[Sweeper] = pc[Sweeper] /\ idle' \subseteq idle
    BY <1>t
  <2>2. stale' = stale
    BY DEF sweeping
  <2>3. \A id \in Ids \ {c} : pc'[id] = pc[id] /\ (id \in mem' => id \in mem)
    BY <1>t
  <2>4. pc'[c] \notin LeftPCs
    BY <1>t DEF LeftPCs, AfterUpdate
  <2> QED
    BY <2>1, <2>2, <2>3, <2>4 DEF Inert
<1>2. ASSUME NEW c \in Ids, GoIdle(c) PROVE FALSE
  BY <1>2 DEF GoIdle, Prompt, Inert, LeftPCs
<1>3. ASSUME NEW c \in Calls, Finalize(c) PROVE Inert'
  <2>1. c \in Ids /\ Target(c) = c /\ FinalizeWorks(c)
    BY <1>3, InertCalls, NothingFails
  <2> USE <2>1 DEF FinalizeWorks, FinalizeGet, FinalizeApply, FinalizeClose, FinalizeSnapshot,
     FinalizeInsert, FinalizeDelete, FinalizePublish, OverflowIDs, PurgeRow, RemoveFor, Goto, memory
  <2>2. pc'[Sweeper] = pc[Sweeper] /\ idle' \subseteq idle /\ mem' \subseteq mem
    BY <1>t
  <2>3. stale' = stale
    BY DEF sweeping
  <2>4. \A id \in Ids \ {c} : pc'[id] = pc[id]
    BY <1>t
  <2>5. pc'[c] \in LeftPCs => c \notin mem'
    BY <1>t DEF LeftPCs, Inert, Returned, At
  <2> QED
    BY <2>2, <2>3, <2>4, <2>5 DEF Inert
<1>4. CASE (\E k \in Clearers : Clear(k)) \/ Restart \/ UNCHANGED vars
  <2>1. pc' = pc /\ idle' = idle /\ stale' = stale /\ mem' = mem
    BY <1>4 DEF Clear, ClearKnownIDs, ClearDelete, ClearReadDir, ClearRemove,
       ClearRemoveMissing, ClearFails, ClearPublish, Restart, memory, sweeping, vars
  <2> QED
    BY <2>1 DEF Inert
<1>5. CASE Sweep
  BY <1>5 DEF Sweep, StaleIDs, SweepNext, Inert
<1>6. CASE Crash
  BY <1>6, <1>t DEF Crash, Inert
<1> QED
  BY <1>1, <1>2, <1>3, <1>4, <1>5, <1>6 DEF Next

\* The sweeper stays inert, across process stops and beside Clear calls.
LEMMA AlwaysInert ==
    ASSUME Prompt, MaxFaults = 0 PROVE Spec => []Inert
<1>1. Init => Inert
  BY DEF Init, Inert, Calls
<1>2. Typed /\ Inert /\ [Next]_vars => Inert'
  BY NextInert
<1> QED
  BY <1>1, <1>2, AlwaysTyped, PTL DEF Spec

-------------------------------------------------------------------------------
(***************************************************************************)
(* OutcomeIsFinal.  An entry is pending until its one Finalize applies.    *)
(***************************************************************************)
OpenPCs == PCs \ ({"idle", "end"} \cup Deciding \cup After)

Undecided == \A id \in Ids : pc[id] \in OpenPCs => status[id] = "pending"

\* What a step does to the outcome, and to the place of a relay.
LEMMA OutcomeStep ==
    ASSUME MaxFaults = 0, Typed, Decided, Inert, Undecided, [Next]_vars
    PROVE  /\ Undecided'
           /\ \A id \in Ids : status[id] \in {"done", "error"} => status'[id] = status[id]
<1>t. /\ pc \in [Calls -> PCs] /\ Ids \subseteq Calls /\ Sweeper \in Calls /\ Sweeper \notin Ids
      /\ status \in [Ids -> Status \cup {"absent"}]
  BY SweeperAssumption DEF Typed, TypeOK, Calls
<1> DEFINE Goal == /\ Undecided'
                   /\ \A id \in Ids : status[id] \in {"done", "error"} => status'[id] = status[id]
<1>1. ASSUME NEW c \in Ids, Put(c) PROVE Goal
  BY <1>1, <1>t DEF Put, InitialStatus, At, Goto, Undecided, OpenPCs, PCs, Decided
<1>2. ASSUME NEW c \in Ids, Relay(c) \/ GoIdle(c), ~Put(c) PROVE Goal
  <2>1. status' = status
    BY <1>2 DEF Relay, PutSnapshot, PutPublish, RequestGet, RequestWrite,
     RequestWriteFails, Respond, RelayError, UpdateGet, UpdateApply, UpdateSnapshot,
     UpdatePublish, Read, AppendGet, AppendWrite, AppendWriteFails, CloseBody, GoIdle, memory
  <2>2. \A id \in Ids : pc'[id] = pc[id] \/ pc[id] \in OpenPCs
    BY <1>2, <1>t DEF Relay, PutSnapshot, PutPublish, RequestGet, RequestWrite,
     RequestWriteFails, Respond, RelayError, UpdateGet, UpdateApply, UpdateSnapshot,
     UpdatePublish, Read, AppendGet, AppendWrite, AppendWriteFails, CloseBody, GoIdle,
     At, Goto, OpenPCs, PCs, Deciding, After
  <2> QED
    BY <2>1, <2>2 DEF Undecided
<1>3. ASSUME NEW c \in Calls, FinalizeApply(c) PROVE Goal
  <2>1. c \in Ids /\ Target(c) = c
    BY <1>3, InertCalls DEF Finalize
  <2>2. status[c] = "pending"
    BY <1>3, <2>1 DEF FinalizeApply, At, Undecided, OpenPCs, PCs, Deciding, After
  <2> QED
    BY <1>3, <1>t, <2>1, <2>2 DEF FinalizeApply, Goto, Undecided, OpenPCs, PCs, Deciding
<1>4. ASSUME NEW c \in Calls, Finalize(c), ~FinalizeApply(c) PROVE Goal
  <2>1. c \in Ids /\ FinalizeWorks(c)
    BY <1>4, InertCalls, NothingFails
  <2> USE <1>4, <2>1 DEF FinalizeWorks, FinalizeGet, FinalizeClose, FinalizeSnapshot,
     FinalizeInsert, FinalizeDelete, FinalizePublish, OverflowIDs, PurgeRow, RemoveFor
  <2>2. status' = status
    BY DEF memory
  <2>3. \A id \in Ids : pc'[id] = pc[id] \/ pc[id] \in OpenPCs \/ pc'[id] \notin OpenPCs
    BY <1>t DEF At, Goto, Returned, OpenPCs, PCs, Deciding, After
  <2> QED
    BY <2>2, <2>3 DEF Undecided
<1>5. ASSUME (\E k \in Clearers : Clear(k)) \/ Sweep \/ Restart \/ UNCHANGED vars PROVE Goal
  <2>1. status' = status
    BY <1>5 DEF Clear, ClearKnownIDs, ClearDelete, ClearReadDir, ClearRemove, ClearRemoveMissing,
       ClearFails, ClearPublish, Sweep, StaleIDs, SweepNext, Restart, memory, vars
  <2>2. \A id \in Ids : pc'[id] = pc[id]
    BY <1>5, <1>t DEF Clear, ClearKnownIDs, ClearDelete, ClearReadDir, ClearRemove,
       ClearRemoveMissing, ClearFails, ClearPublish, Sweep, StaleIDs, SweepNext, Goto, Restart, vars
  <2> QED
    BY <2>1, <2>2 DEF Undecided
<1>6. ASSUME Crash PROVE Goal
  BY <1>6, <1>t DEF Crash, Undecided, OpenPCs
<1> QED
  BY <1>1, <1>2, <1>3, <1>4, <1>5, <1>6 DEF Next

\* Undecided is an invariant.
LEMMA AlwaysUndecided ==
    ASSUME Prompt, MaxFaults = 0 PROVE Spec => []Undecided
<1>1. Init => Undecided
  BY DEF Init, Undecided, OpenPCs, Calls
<1>2. Typed /\ Decided /\ Inert /\ Undecided /\ [Next]_vars => Undecided'
  BY OutcomeStep
<1> QED
  BY <1>1, <1>2, AlwaysTyped, AlwaysDecided, AlwaysInert, PTL DEF Spec

(***************************************************************************)
(* While no exchange outlives the pending timeout and nothing fails, the   *)
(* outcome of an exchange is decided once, beside Clear calls and across   *)
(* process stops too.                                                      *)
(***************************************************************************)
THEOREM StoreOutcomeIsFinal ==
    ASSUME Prompt, MaxFaults = 0 PROVE Spec => OutcomeIsFinal
<1>1. Typed /\ Decided /\ Inert /\ Undecided /\ [Next]_vars =>
          [\A id \in Ids : status[id] \in {"done", "error"} => status'[id] = status[id]]_vars
  BY OutcomeStep
<1> QED
  BY <1>1, AlwaysTyped, AlwaysDecided, AlwaysInert, AlwaysUndecided, PTL DEF Spec, OutcomeIsFinal

-------------------------------------------------------------------------------
(***************************************************************************)
(* NoOrphans.  A file is tended while its row is there or a Finalize that  *)
(* deleted the row holds its name.  An entry that leaves memory leaves     *)
(* tended files only, and its relay writes no more.                        *)
(***************************************************************************)
Tended(id) ==
    \/ \A s \in Sides : blob[id][s] = NoFile
    \/ id \in rows
    \/ \E c \in Calls : id \in purged[c]

FilesTended ==
    /\ \A id \in Ids : pc[id] \in WritePCs => id \in mem
    /\ \A id \in Ids : pc[id] = "fin_delete" => Tended(id)
    /\ up => \A id \in Ids : id \in mem \/ Tended(id)

\* What is tended stays so while the process runs and nothing fails.
LEMMA TendedStays ==
    ASSUME Typed, MaxFaults = 0, Clearers = {}, [Next]_vars, ~Crash,
           NEW id \in Ids, Tended(id), ~Writes(id)
    PROVE  Tended(id)'
<1>t. /\ purged \in [Calls -> SUBSET Ids] /\ rows \subseteq Ids
      /\ blob \in [Ids -> [Sides -> FileLen]]
  BY DEF Typed, TypeOK
<1>1. ASSUME NEW c \in Ids, Relay(c) \/ GoIdle(c) PROVE Tended(id)'
  <2>1. rows' = rows /\ purged' = purged
    BY <1>1 DEF Relay, Put, PutSnapshot, PutPublish, RequestGet, RequestWrite,
     RequestWriteFails, Respond, RelayError, UpdateGet, UpdateApply, UpdateSnapshot,
     UpdatePublish, Read, AppendGet, AppendWrite, AppendWriteFails, CloseBody, GoIdle, disk, locals
  <2>2. Writes(c) \/ blob' = blob
    BY <1>1 DEF Writes, Relay, Put, PutSnapshot, PutPublish, RequestGet, Respond, RelayError,
     UpdateGet, UpdateApply, UpdateSnapshot, UpdatePublish, Read, AppendGet, CloseBody, GoIdle, disk
  <2>3. Writes(c) => blob'[id] = blob[id]
    BY <1>t DEF Writes, RequestWrite, RequestWriteFails, AppendWrite, AppendWriteFails, Wrote
  <2> QED
    BY <2>1, <2>2, <2>3 DEF Tended
<1>2. ASSUME NEW c \in Calls, Finalize(c) PROVE Tended(id)'
  <2>1. FinalizeWorks(c)
    BY <1>2, NothingFails
  <2>2. CASE PurgeRow(c)
    BY <2>2, <1>t DEF PurgeRow, Tended
  <2>3. CASE RemoveFor(c)
    BY <2>3, <1>t DEF RemoveFor, Removed, NoFiles, disk, Tended
  <2>4. CASE ~PurgeRow(c) /\ ~RemoveFor(c)
    <3>1. blob' = blob /\ rows \subseteq rows' /\ purged' = purged
      BY <2>1, <2>4 DEF FinalizeWorks, FinalizeGet, FinalizeApply, FinalizeClose, FinalizeSnapshot,
         FinalizeInsert, FinalizeDelete, FinalizePublish, OverflowIDs, disk, locals
    <3> QED
      BY <3>1 DEF Tended
  <2> QED
    BY <2>2, <2>3, <2>4
<1>3. CASE Sweep \/ UNCHANGED vars
  <2>1. blob' = blob /\ rows' = rows /\ purged' = purged
    BY <1>3 DEF Sweep, StaleIDs, SweepNext, disk, locals, vars
  <2> QED
    BY <2>1 DEF Tended
<1>4. CASE Restart
  BY <1>4 DEF Restart, OrphansRemoved, NoFiles, locals, Tended
<1> QED
  BY <1>1, <1>2, <1>3, <1>4 DEF Next

\* Where an entry leaves memory, and where its relay gets to.
LEMMA LeaveStep ==
    ASSUME Typed, MaxFaults = 0, Inert, [Next]_vars, ~Crash, NEW id \in Ids
    PROVE  /\ id \in mem => id \in mem' \/ pc[id] = "fin_delete"
           /\ pc'[id] \in WritePCs => pc[id] # "fin_delete" /\ (pc[id] \in WritePCs \/ id \in mem)
           /\ pc'[id] = "fin_delete" => pc[id] = "fin_delete" \/ id \in rows'
<1>t. pc \in [Calls -> PCs] /\ Ids \subseteq Calls /\ Sweeper \in Calls /\ Sweeper \notin Ids
  BY SweeperAssumption DEF Typed, TypeOK, Calls
<1> USE DEF WritePCs
<1>1. ASSUME NEW c \in Ids, Relay(c) \/ GoIdle(c)
      PROVE  /\ mem \subseteq mem'
             /\ pc'[id] \in WritePCs => pc[id] # "fin_delete" /\ (pc[id] \in WritePCs \/ id \in mem)
             /\ pc'[id] = "fin_delete" => pc[id] = "fin_delete"
  <2> USE <1>1 DEF Relay, Put, PutSnapshot, PutPublish, RequestGet, RequestWrite,
     RequestWriteFails, Respond, RelayError, UpdateGet, UpdateApply, UpdateSnapshot,
     UpdatePublish, Read, AppendGet, AppendWrite, AppendWriteFails, CloseBody, GoIdle
  <2>1. mem \subseteq mem'
    BY DEF memory
  <2>2. /\ pc'[id] \in WritePCs => pc[id] # "fin_delete" /\ (pc[id] \in WritePCs \/ id \in mem)
        /\ pc'[id] = "fin_delete" => pc[id] = "fin_delete"
    BY <1>t DEF At, Goto, AfterUpdate
  <2> QED
    BY <2>1, <2>2
<1>2. ASSUME NEW c \in Calls, Finalize(c)
      PROVE  /\ id \in mem => id \in mem' \/ pc[id] = "fin_delete"
             /\ pc'[id] \in WritePCs => pc[id] \in WritePCs
             /\ pc'[id] = "fin_delete" => pc[id] = "fin_delete" \/ id \in rows'
  <2>1. c \in Ids /\ Target(c) = c /\ FinalizeWorks(c)
    BY <1>2, InertCalls, NothingFails
  <2> USE <2>1 DEF FinalizeWorks, FinalizeGet, FinalizeApply, FinalizeClose, FinalizeSnapshot,
     FinalizeInsert, FinalizeDelete, FinalizePublish, OverflowIDs, PurgeRow, RemoveFor
  <2>2. id \in mem => id \in mem' \/ pc[id] = "fin_delete"
    BY DEF memory, At
  <2>3. /\ pc'[id] \in WritePCs => pc[id] \in WritePCs
        /\ pc'[id] = "fin_delete" => pc[id] = "fin_delete" \/ id \in rows'
    BY <1>t DEF At, Goto, Returned
  <2> QED
    BY <2>2, <2>3
<1>3. ASSUME (\E k \in Clearers : Clear(k)) \/ Sweep \/ Restart \/ UNCHANGED vars
      PROVE  mem' = mem /\ pc'[id] = pc[id]
  BY <1>3, <1>t DEF Clear, ClearKnownIDs, ClearDelete, ClearReadDir, ClearRemove,
     ClearRemoveMissing, ClearFails, ClearPublish, Sweep, StaleIDs, SweepNext, Goto, Restart,
     memory, vars
<1> QED
  BY <1>1, <1>2, <1>3 DEF Next

\* FilesTended is inductive.
LEMMA NextFilesTended ==
    ASSUME Typed, MaxFaults = 0, Clearers = {}, Inert, FilesTended, [Next]_vars
    PROVE  FilesTended'
<1>1. CASE Crash
  <2>1. ~up' /\ \A id \in Ids : pc'[id] \in {"idle", "end"}
    BY <1>1 DEF Crash, Calls
  <2> QED
    BY <2>1 DEF FilesTended, WritePCs
<1>2. CASE ~Crash
  <2>1. \A id \in Ids : pc'[id] \in WritePCs => id \in mem'
    BY <1>2, LeaveStep DEF FilesTended, WritePCs
  <2>2. ASSUME NEW id \in Ids, pc'[id] = "fin_delete" PROVE Tended(id)'
    <3>1. CASE id \in rows'
      BY <3>1 DEF Tended
    <3>2. CASE pc[id] = "fin_delete"
      BY <1>2, <3>2, TendedStays, WritesAt DEF FilesTended, WritePCs
    <3> QED
      BY <1>2, <2>2, <3>1, <3>2, LeaveStep
  <2>3. ASSUME up', NEW id \in Ids, id \notin mem' PROVE Tended(id)'
    <3>1. CASE Restart
      BY <3>1 DEF Restart, OrphansRemoved, NoFiles, locals, Tended
    <3>2. CASE up
      <4>1. Tended(id)
        BY <1>2, <2>3, <3>2, LeaveStep DEF FilesTended
      <4>2. ~Writes(id)
        BY <1>2, <2>3, WritesAt, LeaveStep DEF FilesTended, WritePCs
      <4> QED
        BY <1>2, <4>1, <4>2, TendedStays
    <3>3. CASE UNCHANGED vars
      BY <2>3, <3>3, <3>2 DEF vars
    <3> QED
      BY <1>2, <3>1, <3>2, <3>3, UpStep
  <2> QED
    BY <2>1, <2>2, <2>3 DEF FilesTended
<1> QED
  BY <1>1, <1>2

(***************************************************************************)
(* While no exchange outlives the pending timeout, nobody clears and no    *)
(* call fails, every body file belongs to an entry or is about to be       *)
(* removed by the Finalize that deleted its row, however many calls apply  *)
(* retention at once; a restart removes what a process stop left.          *)
(***************************************************************************)
THEOREM StoreNoOrphans ==
    ASSUME Prompt, MaxFaults = 0, Clearers = {} PROVE Spec => []NoOrphans
<1>1. Init => FilesTended
  BY DEF Init, FilesTended, Tended, NoFiles, WritePCs, Calls
<1>2. Typed /\ Inert /\ FilesTended /\ [Next]_vars => FilesTended'
  BY NextFilesTended
<1>3. FilesTended => NoOrphans
  BY DEF FilesTended, Tended, NoOrphans
<1> QED
  BY <1>1, <1>2, <1>3, AlwaysTyped, AlwaysInert, PTL DEF Spec

-------------------------------------------------------------------------------
(***************************************************************************)
(* ViewConverges.  What the browser shows of an entry follows its relay:   *)
(* nothing until the created event, pending until the final update, then   *)
(* the outcome, unless the entry was purged first, in which case the       *)
(* deleted event is on its way or the late update is ignored.              *)
(***************************************************************************)
Shown(id) ==
    /\ pc[id] \in OpenPCs \cup Deciding => id \in mem
    /\ pc[id] \in {"put_pub", "upd_pub"} => snap[id].status = "pending"
    /\ pc[id] \in {"fin_insert", "fin_delete", "fin_pub"} => snap[id].status = status[id]
    /\ id \in rows => row[id].status = status[id]
    /\ pc[id] \in {"idle", "put_snap", "put_pub"} => view[id] = "absent"
    /\ pc[id] \in (OpenPCs \ {"put_snap", "put_pub"}) \cup Deciding => view[id] = "pending"
    /\ pc[id] \in {"fin_delete", "fin_pub"} =>
          view[id] = "pending" \/ (view[id] = "absent" /\ id \notin rows)
    /\ pc[id] \in {"fin_overflow", "fin_purge", "fin_remove", "end"} =>
          view[id] = status[id] \/ (view[id] = "absent" /\ id \notin rows)
    /\ pc[id] \in After \cup {"end"} /\ id \notin rows /\ (\A c \in Calls : id \notin purged[c])
          => view[id] = "absent"

\* Victims whose files and event are due are held only by a call that works on them.
Owed == \A c \in Calls : pc[c] \notin {"fin_purge", "fin_remove"} => purged[c] = {}

Following == up /\ Owed /\ \A id \in Ids : Shown(id)

\* An entry that a step leaves alone.
LEMMA ShownFrame ==
    ASSUME NEW id \in Ids, Shown(id),
           pc'[id] = pc[id], status'[id] = status[id], view'[id] = view[id],
           snap'[id] = snap[id], id \in mem <=> id \in mem', rows' = rows, row'[id] = row[id],
           purged' = purged
    PROVE  Shown(id)'
BY DEF Shown

\* The steps of a relay.
LEMMA RelayShown ==
    ASSUME Typed, Once, Undecided, \A id \in Ids : Shown(id), NEW c \in Ids, Relay(c), NEW id \in Ids
    PROVE  Shown(id)'
<1>t. /\ pc \in [Calls -> PCs] /\ Ids \subseteq Calls /\ status \in [Ids -> Status \cup {"absent"}]
      /\ snap \in [Calls -> Row] /\ view \in [Ids -> Status \cup {"absent"}] /\ Target(c) = c
  BY SweeperAssumption DEF Typed, TypeOK, Calls, Target
<1>1. rows' = rows /\ row' = row /\ purged' = purged
  BY DEF Relay, Put, PutSnapshot, PutPublish, RequestGet, RequestWrite,
     RequestWriteFails, Respond, RelayError, UpdateGet, UpdateApply, UpdateSnapshot,
     UpdatePublish, Read, AppendGet, AppendWrite, AppendWriteFails, CloseBody, disk, locals
<1>2. CASE id # c
  <2>1. pc'[id] = pc[id] /\ status'[id] = status[id]
    BY <1>t, <1>2 DEF Relay, Put, PutSnapshot, PutPublish, RequestGet, RequestWrite,
     RequestWriteFails, Respond, RelayError, UpdateGet, UpdateApply, UpdateSnapshot,
     UpdatePublish, Read, AppendGet, AppendWrite, AppendWriteFails, CloseBody, Goto, memory
  <2>2. view'[id] = view[id] /\ snap'[id] = snap[id]
    BY <1>t, <1>2 DEF Relay, Put, PutSnapshot, PutPublish, RequestGet, RequestWrite,
     RequestWriteFails, Respond, RelayError, UpdateGet, UpdateApply, UpdateSnapshot,
     UpdatePublish, Read, AppendGet, AppendWrite, AppendWriteFails, CloseBody,
     OnCreated, OnUpdated, TakeSnapshot, locals
  <2>3. id \in mem <=> id \in mem'
    BY <1>2 DEF Relay, Put, PutSnapshot, PutPublish, RequestGet, RequestWrite,
     RequestWriteFails, Respond, RelayError, UpdateGet, UpdateApply, UpdateSnapshot,
     UpdatePublish, Read, AppendGet, AppendWrite, AppendWriteFails, CloseBody, memory
  <2> QED
    BY <1>1, <2>1, <2>2, <2>3, ShownFrame
<1>3. CASE id = c
  <2>0. pc[c] \in OpenPCs \cup {"idle"} => c \notin rows
    BY DEF Once, Written, Settled, OpenPCs, After
  <2> USE <1>1, <1>t, <2>0 DEF OpenPCs, PCs, Deciding, After, At, Goto, memory, locals
  <2>1. CASE Put(c)
    BY <1>3, <2>1 DEF Shown, Put, InitialStatus
  <2>2. CASE PutSnapshot(c)
    <3>1. snap'[c].status = "pending"
      BY <2>2 DEF PutSnapshot, TakeSnapshot, Snapshot, Undecided
    <3> QED
      BY <1>3, <2>2, <3>1 DEF Shown, PutSnapshot
  <2>3. CASE PutPublish(c)
    BY <1>3, <2>3 DEF Shown, PutPublish, OnCreated
  <2>4. CASE UpdateSnapshot(c)
    <3>1. snap'[c].status = "pending"
      BY <2>4 DEF UpdateSnapshot, TakeSnapshot, Snapshot, Undecided
    <3> QED
      BY <1>3, <2>4, <3>1 DEF Shown, UpdateSnapshot
  <2>5. CASE UpdatePublish(c)
    BY <1>3, <2>5 DEF Shown, UpdatePublish, OnUpdated, AfterUpdate
  <2>6. CASE \/ RequestGet(c) \/ RequestWrite(c) \/ RequestWriteFails(c)
             \/ Respond(c) \/ RelayError(c) \/ UpdateGet(c) \/ UpdateApply(c)
             \/ Read(c) \/ AppendGet(c) \/ AppendWrite(c) \/ AppendWriteFails(c) \/ CloseBody(c)
    <3>1. status' = status /\ mem' = mem /\ snap' = snap /\ view' = view
      BY <2>6 DEF RequestGet, RequestWrite, RequestWriteFails, Respond, RelayError, UpdateGet,
         UpdateApply, Read, AppendGet, AppendWrite, AppendWriteFails, CloseBody
    <3>2. /\ pc[c] \in OpenPCs \ {"put_snap", "put_pub"}
          /\ pc'[c] \in OpenPCs \ {"put_snap", "put_pub", "upd_pub"}
      BY <2>6 DEF RequestGet, RequestWrite, RequestWriteFails, Respond, RelayError, UpdateGet,
         UpdateApply, Read, AppendGet, AppendWrite, AppendWriteFails, CloseBody, AfterUpdate
    <3> QED
      BY <1>3, <3>1, <3>2 DEF Shown
  <2> QED
    BY <2>1, <2>2, <2>3, <2>4, <2>5, <2>6 DEF Relay
<1> QED
  BY <1>2, <1>3

\* A victim of retention: its row goes, then its files and its row on the page.
LEMMA RetentionShown ==
    ASSUME Typed, Once, \A id \in Ids : Shown(id), NEW c \in Ids,
           OverflowIDs(c) \/ PurgeRow(c) \/ RemoveFor(c), NEW id \in Ids
    PROVE  Shown(id)'
<1>t. /\ pc \in [Calls -> PCs] /\ Ids \subseteq Calls /\ row \in [Ids -> Row]
      /\ purged \in [Calls -> SUBSET Ids] /\ Sweeper \notin Ids
  BY SweeperAssumption DEF Typed, TypeOK, Calls
<1> USE DEF At, Goto, memory, disk, locals
<1>0. /\ status' = status /\ mem' = mem /\ snap' = snap
      /\ \/ pc'[id] = pc[id]
         \/ /\ pc[id] \in {"fin_overflow", "fin_purge", "fin_remove"}
            /\ pc'[id] \in {"fin_purge", "fin_remove", "end"}
  BY <1>t DEF OverflowIDs, PurgeRow, RemoveFor, Returned
<1>1. CASE OverflowIDs(c)
  <2>1. rows' = rows /\ row' = row /\ view' = view /\ purged' = purged
    BY <1>1 DEF OverflowIDs
  <2> QED
    BY <1>0, <2>1 DEF Shown, OpenPCs, PCs, Deciding, After
<1>2. CASE PurgeRow(c)
  <2>1. PICK v \in left[c] :
            /\ rows' = rows \ {v} /\ row' = [row EXCEPT ![v] = NoRow]
            /\ purged' = [purged EXCEPT ![c] = purged[c] \cup {v}]
    BY <1>2 DEF PurgeRow
  <2>2. view' = view /\ (id \in rows' => id \in rows /\ row'[id] = row[id])
    BY <1>2, <1>t, <2>1 DEF PurgeRow
  <2>3. id \notin rows' /\ (\A d \in Calls : id \notin purged'[d]) =>
        id \notin rows /\ (\A d \in Calls : id \notin purged[d])
    BY <1>t, <2>1
  <2> QED
    BY <1>0, <2>2, <2>3 DEF Shown, OpenPCs, PCs, Deciding, After
<1>3. CASE RemoveFor(c)
  <2>1. PICK v \in purged[c] :
            /\ view' = [i \in Ids |-> IF i \in {v} THEN "absent" ELSE view[i]]
            /\ purged' = [purged EXCEPT ![c] = purged[c] \ {v}]
    BY <1>3 DEF RemoveFor, OnDeleted
  <2>2. rows' = rows /\ row' = row
    BY <1>3 DEF RemoveFor
  <2>3. v \in Ids /\ v \notin rows /\ pc[v] \in After \cup {"end"}
    BY <1>t, <2>1 DEF Once, Written, Settled
  <2>4. CASE id = v
    <3>1. view'[id] = "absent" /\ id \notin rows' /\ pc'[id] \in After \cup {"end"}
      BY <1>0, <2>1, <2>2, <2>3, <2>4 DEF After
    <3>2. /\ pc'[id] \notin OpenPCs \cup Deciding \cup {"idle", "put_snap", "put_pub", "upd_pub"}
          /\ pc'[id] \in {"fin_insert", "fin_delete", "fin_pub"} => pc'[id] = pc[id]
      BY <1>0, <3>1 DEF OpenPCs, Deciding, After, PCs
    <3> QED
      BY <1>0, <3>1, <3>2 DEF Shown
  <2>5. CASE id # v
    <3>1. view'[id] = view[id]
      BY <2>1, <2>5
    <3>2. (\A d \in Calls : id \notin purged'[d]) => (\A d \in Calls : id \notin purged[d])
      BY <1>t, <2>1, <2>5
    <3> QED
      BY <1>0, <2>2, <3>1, <3>2 DEF Shown, OpenPCs, PCs, Deciding, After
  <2> QED
    BY <2>4, <2>5
<1> QED
  BY <1>1, <1>2, <1>3

\* The other steps of Finalize, up to the final update.
LEMMA FinalizeShown ==
    ASSUME Typed, Once, Undecided, \A id \in Ids : Shown(id), NEW c \in Ids,
           \/ FinalizeGet(c) \/ FinalizeApply(c) \/ FinalizeClose(c) \/ FinalizeSnapshot(c)
           \/ FinalizeInsert(c) \/ FinalizeDelete(c) \/ FinalizePublish(c),
           NEW id \in Ids
    PROVE  Shown(id)'
<1>t. /\ pc \in [Calls -> PCs] /\ Ids \subseteq Calls /\ status \in [Ids -> Status \cup {"absent"}]
      /\ snap \in [Calls -> Row] /\ view \in [Ids -> Status \cup {"absent"}] /\ Target(c) = c
      /\ row \in [Ids -> Row] /\ rows \subseteq Ids /\ c \in Calls /\ c # Sweeper
  BY SweeperAssumption DEF Typed, TypeOK, Calls, Target
<1> USE <1>t DEF At, Goto, memory, disk, locals
<1>1. purged' = purged
  BY DEF FinalizeGet, FinalizeApply, FinalizeClose, FinalizeSnapshot, FinalizeInsert,
     FinalizeDelete, FinalizePublish
<1>2. CASE id # c
  <2>1. /\ pc'[id] = pc[id] /\ status'[id] = status[id] /\ snap'[id] = snap[id]
        /\ id \in mem <=> id \in mem'
    BY <1>2 DEF FinalizeGet, FinalizeApply, FinalizeClose, FinalizeSnapshot, FinalizeInsert,
       FinalizeDelete, FinalizePublish, TakeSnapshot
  <2>2. view'[id] = view[id] /\ (id \in rows <=> id \in rows') /\ row'[id] = row[id]
    BY <1>2 DEF FinalizeGet, FinalizeApply, FinalizeClose, FinalizeSnapshot, FinalizeInsert,
       FinalizeDelete, FinalizePublish, OnUpdated
  <2> QED
    BY <1>1, <2>1, <2>2 DEF Shown
<1>3. CASE id = c
  <2>0. pc[c] \in OpenPCs \cup Deciding => c \notin rows
    BY DEF Once, Written, Settled, OpenPCs, Deciding, After
  <2> USE <1>1, <1>3, <2>0 DEF OpenPCs, PCs, Deciding, After
  <2>1. CASE FinalizeGet(c)
    BY <2>1 DEF Shown, FinalizeGet
  <2>2. CASE FinalizeApply(c)
    BY <2>2 DEF Shown, FinalizeApply
  <2>3. CASE FinalizeClose(c)
    BY <2>3 DEF Shown, FinalizeClose
  <2>4. CASE FinalizeSnapshot(c)
    <3>1. snap'[c].status = status[c]
      BY <2>4 DEF FinalizeSnapshot, TakeSnapshot, Snapshot
    <3> QED
      BY <2>4, <3>1 DEF Shown, FinalizeSnapshot
  <2>5. CASE FinalizeInsert(c)
    BY <2>5 DEF Shown, FinalizeInsert
  <2>6. CASE FinalizeDelete(c)
    BY <2>6 DEF Shown, FinalizeDelete
  <2>7. CASE FinalizePublish(c)
    BY <2>7 DEF Shown, FinalizePublish, OnUpdated
  <2> QED
    BY <2>1, <2>2, <2>3, <2>4, <2>5, <2>6, <2>7
<1> QED
  BY <1>2, <1>3

\* Following is inductive.
LEMMA NextFollowing ==
    ASSUME MaxFaults = 0, MaxCrashes = 0, Clearers = {}, Prompt,
           Typed, Once, Inert, Undecided, Following, [Next]_vars
    PROVE  Following'
<1>t. /\ pc \in [Calls -> PCs] /\ Ids \subseteq Calls /\ purged \in [Calls -> SUBSET Ids]
      /\ crashes \in Nat /\ Sweeper \notin Ids
  BY SweeperAssumption DEF Typed, TypeOK, Calls
<1>1. ~Crash /\ ~Restart
  BY <1>t DEF Crash, Restart, Following
<1>2. up'
  BY <1>1, UpStep DEF Following, vars
<1>3. ASSUME NEW c \in Ids, Relay(c) PROVE Following'
  <2>1. purged' = purged
    BY <1>3 DEF Relay, Put, PutSnapshot, PutPublish, RequestGet, RequestWrite,
       RequestWriteFails, Respond, RelayError, UpdateGet, UpdateApply, UpdateSnapshot,
       UpdatePublish, Read, AppendGet, AppendWrite, AppendWriteFails, CloseBody, locals
  <2>2. \A d \in Calls : pc[d] \in {"fin_purge", "fin_remove"} => pc'[d] = pc[d]
    BY <1>3, <1>t DEF Relay, Put, PutSnapshot, PutPublish, RequestGet, RequestWrite,
       RequestWriteFails, Respond, RelayError, UpdateGet, UpdateApply, UpdateSnapshot,
       UpdatePublish, Read, AppendGet, AppendWrite, AppendWriteFails, CloseBody, At, Goto
  <2>3. \A id \in Ids : Shown(id)'
    BY <1>3, RelayShown DEF Following
  <2> QED
    BY <1>2, <2>1, <2>2, <2>3 DEF Following, Owed
<1>4. ASSUME NEW c \in Ids, GoIdle(c) PROVE FALSE
  BY <1>4 DEF GoIdle, Prompt, Inert, LeftPCs
<1>5. ASSUME NEW c \in Calls, Finalize(c) PROVE Following'
  <2>1. c \in Ids /\ FinalizeWorks(c)
    BY <1>5, InertCalls, NothingFails
  <2>2. \A id \in Ids : Shown(id)'
    BY <2>1, RetentionShown, FinalizeShown DEF FinalizeWorks, Following
  <2>3. Owed'
    BY <2>1, <1>t DEF Following, Owed, FinalizeWorks, FinalizeGet, FinalizeApply, FinalizeClose,
       FinalizeSnapshot, FinalizeInsert, FinalizeDelete, FinalizePublish, OverflowIDs, PurgeRow,
       RemoveFor, At, Goto, locals
  <2> QED
    BY <1>2, <2>2, <2>3 DEF Following
<1>6. CASE Sweep
  BY <1>6 DEF Sweep, StaleIDs, SweepNext, Inert
<1>7. CASE UNCHANGED vars
  <2>1. /\ pc' = pc /\ status' = status /\ view' = view /\ snap' = snap /\ mem' = mem
        /\ rows' = rows /\ row' = row /\ purged' = purged
    BY <1>7 DEF vars, memory, disk, locals
  <2> QED
    BY <1>2, <2>1, ShownFrame DEF Following, Owed
<1> QED
  BY <1>1, <1>3, <1>4, <1>5, <1>6, <1>7 DEF Next

(***************************************************************************)
(* While no exchange outlives the pending timeout, nobody clears, no call  *)
(* fails and the process runs on, a browser that applied every event shows *)
(* what the store holds whenever no call is under way, for any number of   *)
(* concurrent exchanges and retention passes.                              *)
(***************************************************************************)
THEOREM StoreViewConverges ==
    ASSUME Prompt, MaxFaults = 0, MaxCrashes = 0, Clearers = {} PROVE Spec => []ViewConverges
<1>1. Init => Following
  BY DEF Init, Following, Owed, Shown, OpenPCs, Deciding, After, Calls
<1>2. Typed /\ Quiet /\ Inert /\ Undecided /\ Following /\ [Next]_vars => Following'
  BY NextFollowing DEF Quiet
<1>3. Typed /\ Decided /\ Quiet /\ Inert /\ Undecided /\ Following => ViewConverges
  <2> SUFFICES ASSUME Typed, Decided, Quiet, Inert, Undecided, Following, Quiescent, NEW id \in Ids
               PROVE  view[id] = Stored(id)
    BY DEF ViewConverges
  <2>1. \A c \in Calls : purged[c] = {}
    BY DEF Following, Owed, Quiescent, Calls
  <2>2. Shown(id) /\ pc[id] \in {"idle", "relay", "end"}
    BY DEF Following, Quiescent
  <2>3. CASE pc[id] = "idle"
    <3>1. id \notin mem /\ id \notin rows
      BY <2>3 DEF Inert, LeftPCs, Quiet, Once, Written, Settled, After
    <3> QED
      BY <2>2, <2>3, <3>1 DEF Shown, Stored
  <2>4. CASE pc[id] = "relay"
    BY <2>2, <2>4 DEF Shown, Stored, Undecided, OpenPCs, PCs, Deciding, After
  <2>5. CASE pc[id] = "end"
    <3>1. id \notin mem /\ status[id] # "absent"
      BY <2>5 DEF Inert, LeftPCs, Typed, Begun
    <3> QED
      BY <2>1, <2>2, <2>5, <3>1 DEF Shown, Stored
  <2> QED
    BY <2>2, <2>3, <2>4, <2>5
<1> QED
  BY <1>1, <1>2, <1>3, AlwaysTyped, AlwaysDecided, AlwaysQuiet, AlwaysInert, AlwaysUndecided, PTL
     DEF Spec
===============================================================================
