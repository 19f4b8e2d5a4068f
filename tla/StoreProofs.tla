------------------------------ MODULE StoreProofs -----------------------------
(***************************************************************************)
(* Proofs about Store, for any finite set of exchanges, any number of      *)
(* Clear calls, any sizes and any value of the bounds.                     *)
(***************************************************************************)
EXTENDS Store, FiniteSetTheorems, TLAPS

-------------------------------------------------------------------------------
(***************************************************************************)
(* The body buffer.                                                        *)
(***************************************************************************)

\* Accepting n bytes, in memory or not.
LEMMA AcceptType ==
    ASSUME NEW b \in Buffer, NEW n \in Nat
    PROVE  /\ Accept(b, n) \in Buffer
           /\ OnDisk(Accept(b, n)) \in Buffer
<1>1. b.size + n \in Nat /\ Least(b.preview + n, MaxInline) \in Nat
  BY MaxInlineAssumption DEF Buffer, Least
<1>2. Accept(b, n) \in Buffer
  BY <1>1 DEF Buffer, Accept
<1> QED
  BY <1>2 DEF Buffer, OnDisk

\* What a write leaves under the buffer's name.
LEMMA ExtendType ==
    ASSUME NEW b \in Buffer, NEW len \in FileLen, NEW n \in Nat
    PROVE  Extend(Spilled(b, len), n) \in FileLen
BY DEF Buffer, FileLen, NoFile, Spilled, Extend

\* bodyBuffer.Write keeps a buffer a buffer and a file length a length.
LEMMA WriteType ==
    ASSUME NEW b \in Buffer, NEW len \in FileLen, NEW n \in Nat
    PROVE  Write(b, len, n).buf \in Buffer /\ Write(b, len, n).len \in FileLen
BY AcceptType, ExtendType DEF Write

\* The outcomes of a failed write, one by one.
LEMMA WriteFailuresCases ==
    ASSUME NEW b \in Buffer, NEW len \in FileLen, NEW n \in Nat,
           NEW w \in WriteFailures(b, len, n)
    PROVE  \/ /\ w.buf = Failed(b)
              /\ ~b.file
              /\ w.len = len \/ w.len \in Nat
           \/ /\ w.buf = OnDisk(Failed(b))
              /\ ~Inline(b, n)
              /\ \E k \in Nat : w.len = Extend(Spilled(b, len), k)
<1> DEFINE A == {[buf |-> Failed(b), len |-> l, ok |-> FALSE] :
                    l \in IF b.file THEN {} ELSE {len} \cup 0 .. b.preview}
           B == {[buf |-> OnDisk(Failed(b)),
                  len |-> Extend(Spilled(b, len), k),
                  ok  |-> FALSE] : k \in 0 .. n - 1}
<1>1. ~Inline(b, n) /\ w \in A \cup B
  BY DEF WriteFailures
<1>2. CASE w \in A
  <2>1. ~b.file
    BY <1>2
  <2>2. PICK l \in {len} \cup 0 .. b.preview : w = [buf |-> Failed(b), len |-> l, ok |-> FALSE]
    BY <1>2, <2>1
  <2> QED
    BY <2>1, <2>2 DEF Buffer
<1>3. CASE w \in B
  <2>1. PICK k \in 0 .. n - 1 :
            w = [buf |-> OnDisk(Failed(b)),
                 len |-> Extend(Spilled(b, len), k), ok |-> FALSE]
    BY <1>3
  <2>2. k \in Nat
    OBVIOUS
  <2> QED
    BY <1>1, <2>1, <2>2
<1> QED
  BY <1>1, <1>2, <1>3

\* A write that fails keeps the types as well.
LEMMA WriteFailuresType ==
    ASSUME NEW b \in Buffer, NEW len \in FileLen, NEW n \in Nat,
           NEW w \in WriteFailures(b, len, n)
    PROVE  w.buf \in Buffer /\ w.len \in FileLen
<1>1. /\ Failed(b) \in Buffer
      /\ OnDisk(Failed(b)) \in Buffer
  BY DEF Buffer, Failed, OnDisk
<1>2. \/ /\ w.buf = Failed(b)
         /\ w.len = len \/ w.len \in Nat
      \/ /\ w.buf = OnDisk(Failed(b))
         /\ \E k \in Nat : w.len = Extend(Spilled(b, len), k)
  BY WriteFailuresCases
<1>3. \A k \in Nat : Extend(Spilled(b, len), k) \in FileLen
  BY ExtendType
<1> QED
  BY <1>1, <1>2, <1>3 DEF FileLen

\* bodyBuffer.Write keeps the head of the body, also after Close.
LEMMA WriteHead ==
    ASSUME NEW b \in Buffer, NEW len \in FileLen, NEW n \in Nat, HeadKept(b)
    PROVE  HeadKept(Write(b, len, n).buf)
BY MaxInlineAssumption DEF Write, Buffer, Inline, OnDisk, Accept, Least, HeadKept

\* A write that fails leaves a body that was never given a file whole.
LEMMA WriteFailuresHead ==
    ASSUME NEW b \in Buffer, NEW len \in FileLen, NEW n \in Nat, HeadKept(b),
           NEW w \in WriteFailures(b, len, n)
    PROVE  HeadKept(w.buf)
<1>1. HeadKept(Failed(b))
  BY DEF Buffer, HeadKept, Failed, OnDisk
<1>2. HeadKept(OnDisk(Failed(b)))
  BY DEF Buffer, HeadKept, Failed, OnDisk
<1>3. \/ w.buf = Failed(b)
      \/ w.buf = OnDisk(Failed(b))
  BY WriteFailuresCases
<1> QED
  BY <1>1, <1>2, <1>3

\* bodyBuffer.Close keeps the head of the body.
LEMMA CloseHead ==
    ASSUME NEW b \in Buffer, HeadKept(b)
    PROVE  Close(b) \in Buffer /\ HeadKept(Close(b))
BY DEF Close, Buffer, HeadKept
-------------------------------------------------------------------------------
(***************************************************************************)
(* Types.  TypeOK alone is not inductive: a snapshot has a real status     *)
(* only because no call touches an entry before Put has registered it, and *)
(* the sweeper works on an entry only while it is inside Finalize.         *)
(***************************************************************************)
Begun ==
    /\ \A id \in Ids : status[id] = "absent" => pc[id] = "idle" /\ id \notin mem \cup stale \cup idle
    /\ pc[Sweeper] # "idle" => target \in Ids /\ status[target] # "absent"

Typed == TypeOK /\ Begun

\* The initial state.
LEMMA InitTyped == Init => Typed
<1> SUFFICES ASSUME Init PROVE Typed
  OBVIOUS
<1>1. EmptyBuffer \in Buffer /\ NoFiles \in [Sides -> FileLen] /\ NoRow \in Row
  BY DEF EmptyBuffer, Buffer, NoFiles, FileLen, NoRow, Row, State, Status
<1>2. TypeOK
  BY <1>1 DEF Init, TypeOK, PCs, ClearPCs, Calls, Status
<1>3. Begun
  BY DEF Init, Begun, Calls
<1> QED
  BY <1>2, <1>3 DEF Typed

\* The entry a call works on was registered by Put.
LEMMA TargetType ==
    ASSUME Typed, NEW c \in Calls, pc[c] # "idle"
    PROVE  Target(c) \in Ids /\ status[Target(c)] # "absent"
BY SweeperAssumption DEF Typed, Begun, TypeOK, Calls, Target

\* A snapshot of a registered entry is a row.
LEMMA SnapshotType ==
    ASSUME Typed, NEW id \in Ids, status[id] # "absent"
    PROVE  Snapshot(id) \in Row
<1>1. status[id] \in Status
  BY DEF Typed, TypeOK
<1>2. \A s \in Sides : State(buf[id][s]) \in [path : BOOLEAN, size : Nat]
  BY DEF Typed, TypeOK, Buffer, State
<1> QED
  BY <1>1, <1>2 DEF Snapshot, Row

\* The values locals and files are reset to.
LEMMA EmptyTypes == NoRow \in Row /\ NoFiles \in [Sides -> FileLen] /\ EmptyBuffer \in Buffer
BY DEF EmptyBuffer, Buffer, NoFiles, FileLen, NoRow, Row, State, Status

\* The steps of a relay.
LEMMA RelayTyped ==
    ASSUME Typed, NEW c \in Ids, Relay(c) \/ GoIdle(c) PROVE Typed'
<1> USE SweeperAssumption
    DEF Typed, TypeOK, Begun, At, Goto, Calls, PCs, Status,
        memory, disk, locals, relays, sweeping, clearing, bounds, ghosts
<1>0. pc[c] # "idle" => Target(c) = c /\ Snapshot(Target(c)) \in Row
  <2> HIDE DEF Typed, TypeOK, Begun
  <2> QED
    BY TargetType, SnapshotType DEF Target
<1>1. CASE Put(c)
  BY <1>1, SizesAssumption DEF Put, InitialStatus
<1>2. CASE PutSnapshot(c)
  BY <1>2, <1>0 DEF PutSnapshot, TakeSnapshot
<1>3. CASE PutPublish(c)
  BY <1>3, EmptyTypes DEF PutPublish, OnCreated, Row
<1>4. CASE RequestGet(c)
  BY <1>4 DEF RequestGet
<1>5. CASE RequestWrite(c)
  BY <1>5, WriteType, SizesAssumption DEF RequestWrite, Wrote, Sides
<1>6. CASE RequestWriteFails(c)
  BY <1>6, WriteFailuresType, SizesAssumption DEF RequestWriteFails, Wrote, Sides, Fault
<1>7. CASE Respond(c)
  BY <1>7 DEF Respond
<1>8. CASE RelayError(c)
  BY <1>8 DEF RelayError
<1>9. CASE UpdateGet(c)
  BY <1>9 DEF UpdateGet, AfterUpdate
<1>10. CASE UpdateApply(c)
  BY <1>10 DEF UpdateApply
<1>11. CASE UpdateSnapshot(c)
  BY <1>11, <1>0 DEF UpdateSnapshot, TakeSnapshot
<1>12. CASE UpdatePublish(c)
  BY <1>12, EmptyTypes DEF UpdatePublish, OnUpdated, AfterUpdate, Row
<1>13. CASE Read(c)
  <2>1. PICK l \in {"app_get", "upd_get"} : Goto(c, l)
    BY <1>13 DEF Read
  <2> QED
    BY <1>13, <2>1 DEF Read
<1>14. CASE AppendGet(c)
  BY <1>14 DEF AppendGet
<1>15. CASE AppendWrite(c)
  <2>1. PICK n \in ChunkSizes : Wrote(c, "resp", Write(buf[c]["resp"], blob[c]["resp"], n))
    BY <1>15 DEF AppendWrite
  <2>2. /\ buf' \in [Ids -> [Sides -> Buffer]]
        /\ blob' \in [Ids -> [Sides -> FileLen]]
    BY <2>1, WriteType, SizesAssumption DEF Wrote, Sides
  <2>3. idle' \subseteq idle
    BY <1>15 DEF AppendWrite
  <2> QED
    BY <1>15, <2>2, <2>3 DEF AppendWrite
<1>16. CASE AppendWriteFails(c)
  BY <1>16, WriteFailuresType, SizesAssumption DEF AppendWriteFails, Wrote, Sides, Fault
<1>17. CASE CloseBody(c)
  BY <1>17 DEF CloseBody
<1>18. CASE GoIdle(c)
  BY <1>18 DEF GoIdle
<1> QED
  BY <1>1, <1>2, <1>3, <1>4, <1>5, <1>6, <1>7, <1>8, <1>9, <1>10, <1>11, <1>12, <1>13, <1>14, <1>15, <1>16, <1>17, <1>18 DEF Relay

\* bodyBuffer.Close of both sides.
LEMMA CloseType ==
    ASSUME NEW f \in [Sides -> Buffer] PROVE [s \in Sides |-> Close(f[s])] \in [Sides -> Buffer]
BY DEF Close, Buffer

\* The steps of Finalize, by a relay or by the sweeper.
LEMMA FinalizeTyped ==
    ASSUME Typed, NEW c \in Calls, Finalize(c) PROVE Typed'
<1> USE SweeperAssumption
    DEF Typed, TypeOK, Begun, At, Goto, Calls, PCs, Status,
        memory, disk, locals, relays, sweeping, clearing, bounds, ghosts
<1>0. pc[c] # "idle" => /\ Target(c) \in Ids /\ status[Target(c)] # "absent"
                        /\ Snapshot(Target(c)) \in Row
  <2> HIDE DEF Typed, TypeOK, Begun
  <2> QED
    BY TargetType, SnapshotType
<1>1. CASE FinalizeGet(c)
  BY <1>1 DEF FinalizeGet, Returned
<1>2. CASE FinalizeApply(c)
  BY <1>2, <1>0 DEF FinalizeApply, FinalStatus
<1>3. CASE FinalizeClose(c)
  <2>1. [s \in Sides |-> Close(buf[Target(c)][s])] \in [Sides -> Buffer]
    <3>1. buf[Target(c)] \in [Sides -> Buffer]
      BY <1>3, <1>0 DEF FinalizeClose
    <3> QED
      BY <3>1, CloseType
  <2> QED
    BY <1>3, <1>0, <2>1 DEF FinalizeClose
<1>4. CASE FinalizeSnapshot(c)
  BY <1>4, <1>0 DEF FinalizeSnapshot, TakeSnapshot
<1>5. CASE FinalizeInsert(c)
  BY <1>5, <1>0 DEF FinalizeInsert
<1>6. CASE FinalizeInsertFails(c)
  BY <1>6, EmptyTypes DEF FinalizeInsertFails, Fault, Return, Returned
<1>7. CASE FinalizeDelete(c)
  BY <1>7, <1>0 DEF FinalizeDelete
<1>8. CASE FinalizePublish(c)
  BY <1>8, <1>0, EmptyTypes DEF FinalizePublish, OnUpdated, Row
<1>9. CASE OverflowIDs(c)
  BY <1>9 DEF OverflowIDs, Returned, IsOverflow
<1>10. CASE PurgeRow(c)
  BY <1>10, EmptyTypes DEF PurgeRow
<1>11. CASE RetentionFails(c)
  BY <1>11, EmptyTypes DEF RetentionFails, Fault, Return, Returned
<1>12. CASE RemoveFor(c)
  BY <1>12, EmptyTypes DEF RemoveFor, Removed, OnDeleted, Returned
<1> QED
  BY <1>1, <1>2, <1>3, <1>4, <1>5, <1>6, <1>7, <1>8, <1>9, <1>10, <1>11, <1>12 DEF Finalize

\* The steps of Clear.
LEMMA ClearTyped ==
    ASSUME Typed, NEW k \in Clearers, Clear(k) PROVE Typed'
<1> USE DEF Typed, TypeOK, Begun, ClearGoto, ClearPCs,
        memory, disk, locals, relays, sweeping, clearing, bounds, ghosts
<1>1. CASE ClearKnownIDs(k)
  BY <1>1 DEF ClearKnownIDs
<1>2. CASE ClearDelete(k)
  BY <1>2, EmptyTypes DEF ClearDelete
<1>3. CASE ClearReadDir(k)
  BY <1>3 DEF ClearReadDir
<1>4. CASE ClearRemove(k)
  BY <1>4 DEF ClearRemove, Files, FileLen, NoFile
<1>5. CASE ClearRemoveMissing(k)
  BY <1>5 DEF ClearRemoveMissing, ClearReturn
<1>6. CASE ClearFails(k)
  BY <1>6 DEF ClearFails, ClearReturn, Fault
<1>7. CASE ClearPublish(k)
  BY <1>7 DEF ClearPublish, ClearReturn, OnDeleted
<1> QED
  BY <1>1, <1>2, <1>3, <1>4, <1>5, <1>6, <1>7 DEF Clear

\* The sweeper's own steps, a process stop and a restart.
LEMMA ProcessTyped ==
    ASSUME Typed, Sweep \/ Crash \/ Restart PROVE Typed'
<1> USE SweeperAssumption
    DEF Typed, TypeOK, Begun, At, Goto, Calls, PCs, Status,
        memory, disk, locals, relays, sweeping, clearing, bounds, ghosts
<1>1. CASE StaleIDs
  BY <1>1 DEF StaleIDs
<1>2. CASE SweepNext
  BY <1>2 DEF SweepNext
<1>3. CASE Crash
  <2>1. Cardinality(Trimming) \in Nat
    <3>1. IsFiniteSet(Calls)
      BY IdsAssumption, FS_AddElement
    <3> QED
      BY <3>1, FS_Subset, FS_CardinalityType DEF Trimming
  <2>2. slack' \in Nat
    BY <1>3, <2>1 DEF Crash
  <2>3. /\ buf' \in [Ids -> [Sides -> Buffer]]
        /\ snap' \in [Calls -> Row]
        /\ cpc' \in [Clearers -> ClearPCs]
    BY <1>3, EmptyTypes DEF Crash, ClearPCs
  <2>4. /\ pc' \in [Calls -> PCs]
        /\ left' \in [Calls -> SUBSET Ids] /\ purged' \in [Calls -> SUBSET Ids]
    BY <1>3 DEF Crash
  <2>7. cids' \in [Clearers -> SUBSET Ids] /\ cnames' \in [Clearers -> SUBSET Files]
    BY <1>3 DEF Crash
  <2>8. gone' \subseteq Ids /\ crashes' \in Nat /\ up' = FALSE
    BY <1>3 DEF Crash
  <2>5. TypeOK'
    BY <1>3, <2>2, <2>3, <2>4, <2>7, <2>8 DEF Crash
  <2>6. Begun'
    BY <1>3 DEF Crash
  <2> QED
    BY <2>5, <2>6
<1>4. CASE Restart
  BY <1>4, EmptyTypes DEF Restart, OrphansRemoved
<1> QED
  BY <1>1, <1>2, <1>3, <1>4 DEF Sweep

\* The step.
LEMMA NextTyped == Typed /\ [Next]_vars => Typed'
<1> SUFFICES ASSUME Typed, [Next]_vars PROVE Typed'
  OBVIOUS
<1>1. CASE Next
  BY <1>1, RelayTyped, FinalizeTyped, ClearTyped, ProcessTyped DEF Next
<1>2. CASE UNCHANGED vars
  BY <1>2 DEF vars, Typed, TypeOK, Begun,
     memory, disk, locals, relays, sweeping, clearing, bounds, ghosts
<1> QED
  BY <1>1, <1>2

\* Typed is an invariant.
LEMMA AlwaysTyped == Spec => []Typed
BY InitTyped, NextTyped, PTL DEF Spec

(***************************************************************************)
(* Every variable of the store keeps its type: in particular, the status   *)
(* that Put, Update and Finalize publish and write is a real one.          *)
(***************************************************************************)
THEOREM StoreTypeOK == Spec => []TypeOK
<1>1. Typed => TypeOK
  BY DEF Typed
<1> QED
  BY <1>1, AlwaysTyped, PTL

-------------------------------------------------------------------------------
(***************************************************************************)
(* NeverLost.  The entry leaves memory only after its row was written, so  *)
(* the invariant adds: between the two, the row is there or has already    *)
(* been removed by someone else.                                           *)
(***************************************************************************)
Handover ==
    \A c \in Calls : pc[c] = "fin_delete" => Target(c) \in rows \cup gone

Safe == NeverLost /\ Handover

\* The steps of a relay before Finalize: only Put changes who is stored.
LEMMA RelaySafe ==
    ASSUME Typed, Safe, NEW c \in Ids, Relay(c) \/ GoIdle(c) PROVE Safe'
<1>1. /\ mem \subseteq mem' /\ rows' = rows /\ gone' = gone /\ target' = target
      /\ \A i \in Ids : status'[i] # "absent" => status[i] # "absent" \/ i \in mem'
  BY DEF Typed, TypeOK, Relay, Put, InitialStatus, PutSnapshot, PutPublish, RequestGet, RequestWrite,
     RequestWriteFails, Respond, RelayError, UpdateGet, UpdateApply, UpdateSnapshot,
     UpdatePublish, Read, AppendGet, AppendWrite, AppendWriteFails, CloseBody, GoIdle,
     memory, disk, sweeping, ghosts
<1>2. \A d \in Calls : pc'[d] = "fin_delete" => pc[d] = "fin_delete"
  BY DEF Typed, TypeOK, Calls, Goto, AfterUpdate, Relay, Put, PutSnapshot, PutPublish,
     RequestGet, RequestWrite, RequestWriteFails, Respond, RelayError, UpdateGet,
     UpdateApply, UpdateSnapshot, UpdatePublish, Read, AppendGet, AppendWrite,
     AppendWriteFails, CloseBody, GoIdle
<1>3. NeverLost'
  BY <1>1 DEF Safe, NeverLost
<1>4. Handover'
  BY <1>1, <1>2 DEF Safe, Handover, Target
<1> QED
  BY <1>3, <1>4 DEF Safe

\* The steps of Finalize: the row is written, then the memory copy dropped.
LEMMA FinalizeSafe ==
    ASSUME Typed, Safe, NEW c \in Calls, Finalize(c) PROVE Safe'
<1> USE DEF Safe, NeverLost, Handover, At, Goto, Target, memory, disk, sweeping, ghosts
<1>t. pc \in [Calls -> PCs] /\ status \in [Ids -> Status \cup {"absent"}]
  BY DEF Typed, TypeOK
<1>0. pc[c] # "idle" => Target(c) \in Ids /\ status[Target(c)] # "absent"
  BY TargetType
<1>1. CASE FinalizeGet(c)
  BY <1>1, <1>t DEF FinalizeGet, Returned
<1>2. CASE FinalizeApply(c)
  BY <1>2, <1>t, <1>0 DEF FinalizeApply, FinalStatus
<1>3. CASE FinalizeClose(c)
  BY <1>3, <1>t DEF FinalizeClose
<1>4. CASE FinalizeSnapshot(c)
  BY <1>4, <1>t DEF FinalizeSnapshot
<1>5. CASE FinalizeInsert(c)
  BY <1>5, <1>t, <1>0 DEF FinalizeInsert
<1>6. CASE FinalizeInsertFails(c)
  BY <1>6, <1>t DEF FinalizeInsertFails, Return, Returned
<1>7. CASE FinalizeDelete(c)
  BY <1>7, <1>t, <1>0 DEF FinalizeDelete
<1>8. CASE FinalizePublish(c)
  BY <1>8, <1>t DEF FinalizePublish
<1>9. CASE OverflowIDs(c)
  BY <1>9, <1>t DEF OverflowIDs, Returned
<1>10. CASE PurgeRow(c)
  BY <1>10, <1>t DEF PurgeRow
<1>11. CASE RetentionFails(c)
  BY <1>11, <1>t DEF RetentionFails, Return, Returned
<1>12. CASE RemoveFor(c)
  BY <1>12, <1>t DEF RemoveFor, Returned
<1> QED
  BY <1>1, <1>2, <1>3, <1>4, <1>5, <1>6, <1>7, <1>8, <1>9, <1>10, <1>11, <1>12 DEF Finalize

\* Clear, the sweeper's own steps, a process stop and a restart.
LEMMA OthersSafe ==
    ASSUME Typed, Safe, (\E k \in Clearers : Clear(k)) \/ Sweep \/ Crash \/ Restart PROVE Safe'
<1> USE SweeperAssumption
    DEF Safe, NeverLost, Handover, Target, memory, disk, sweeping, ghosts, Calls
<1>1. ASSUME NEW k \in Clearers, Clear(k) PROVE Safe'
  BY <1>1 DEF Clear, ClearKnownIDs, ClearDelete, ClearReadDir, ClearRemove,
     ClearRemoveMissing, ClearFails, ClearPublish
<1>2. CASE StaleIDs
  BY <1>2 DEF StaleIDs
<1>3. CASE SweepNext
  BY <1>3 DEF SweepNext, At, Goto, Typed, TypeOK
<1>4. CASE Crash
  BY <1>4 DEF Crash
<1>5. CASE Restart
  BY <1>5 DEF Restart, OrphansRemoved
<1> QED
  BY <1>1, <1>2, <1>3, <1>4, <1>5 DEF Sweep

(***************************************************************************)
(* Put ... Finalize never drops an exchange: the theorem of NeverLost, for *)
(* every interleaving of relays, sweeper and Clear calls, with failing     *)
(* statements and process stops.                                           *)
(***************************************************************************)
THEOREM StoreNeverLost == Spec => []NeverLost
<1>1. Init => Safe
  BY DEF Init, Safe, NeverLost, Handover
<1>2. Typed /\ Safe /\ [Next]_vars => Safe'
  <2> SUFFICES ASSUME Typed, Safe, [Next]_vars PROVE Safe'
    OBVIOUS
  <2>1. CASE Next
    BY <2>1, RelaySafe, FinalizeSafe, OthersSafe DEF Next
  <2>2. CASE UNCHANGED vars
    BY <2>2 DEF vars, Safe, NeverLost, Handover, Target, memory, disk, sweeping, ghosts
  <2> QED
    BY <2>1, <2>2
<1>3. Safe => NeverLost
  BY DEF Safe
<1> QED
  BY <1>1, <1>2, <1>3, AlwaysTyped, PTL DEF Spec

-------------------------------------------------------------------------------
(***************************************************************************)
(* RetentionBound.  The bound itself is not inductive: when a call deletes *)
(* its last victim it leaves Trimming, and the bound must drop by one.     *)
(* What is inductive speaks of every set P of calls that are deleting at   *)
(* once: if they all finished now, the rows left over would exceed the cap *)
(* only by what the other calls still owe.                                 *)
(***************************************************************************)
Deleting == {c \in Calls : pc[c] = "fin_purge"}

Rest(P) == rows \ UNION {left[c] : c \in P}

Capped ==
    \A P \in SUBSET Deleting :
        Cardinality(Rest(P)) <= MaxEntries + Cardinality(Trimming \ P) + slack

\* Everything counted is finite.
LEMMA Finite ==
    ASSUME Typed
    PROVE  /\ IsFiniteSet(rows) /\ IsFiniteSet(Trimming)
           /\ \A P : IsFiniteSet(Rest(P)) /\ IsFiniteSet(Trimming \ P)
           /\ \A P : Cardinality(Rest(P)) \in Nat /\ Cardinality(Trimming \ P) \in Nat
<1>1. IsFiniteSet(rows)
  BY IdsAssumption, FS_Subset DEF Typed, TypeOK
<1>2. IsFiniteSet(Calls)
  BY IdsAssumption, FS_AddElement DEF Calls
<1>3. IsFiniteSet(Trimming)
  BY <1>2, FS_Subset DEF Trimming
<1>4. \A P : IsFiniteSet(Rest(P)) /\ IsFiniteSet(Trimming \ P)
  BY <1>1, <1>3, FS_Subset DEF Rest
<1> QED
  BY <1>1, <1>3, <1>4, FS_CardinalityType

\* A step that adds no row and changes neither who is trimming nor the victims.
LEMMA CappedFrame ==
    ASSUME Typed, Capped, rows' \subseteq rows, slack' = slack,
           Trimming' = Trimming, Deleting' = Deleting,
           \A c \in Deleting : left'[c] = left[c]
    PROVE  Capped'
<1> SUFFICES ASSUME NEW P \in SUBSET Deleting
             PROVE  Cardinality(Rest(P)') <= MaxEntries + Cardinality(Trimming \ P) + slack
  BY DEF Capped
<1>1. Rest(P)' \subseteq Rest(P)
  BY DEF Rest
<1>2. Cardinality(Rest(P)') <= Cardinality(Rest(P)) /\ Cardinality(Rest(P)') \in Nat
  BY <1>1, Finite, FS_Subset, FS_CardinalityType
<1>3. Cardinality(Rest(P)) <= MaxEntries + Cardinality(Trimming \ P) + slack
  BY DEF Capped
<1>4. Cardinality(Rest(P)) \in Nat /\ Cardinality(Trimming \ P) \in Nat
  BY Finite
<1>5. slack \in Nat /\ MaxEntries \in Nat
  BY MaxEntriesAssumption DEF Typed, TypeOK
<1> QED
  BY <1>2, <1>3, <1>4, <1>5

\* INSERT: one row more, and one call more that owes a trim.
LEMMA CappedInsert ==
    ASSUME Typed, Capped, NEW c \in Calls, FinalizeInsert(c) PROVE Capped'
<1>1. /\ rows' = rows \cup {Target(c)} /\ left' = left /\ slack' = slack
      /\ Trimming' = Trimming \cup {c} /\ c \notin Trimming
      /\ Deleting' = Deleting /\ c \notin Deleting
  BY DEF Typed, TypeOK, FinalizeInsert, At, Goto, Trimming, Deleting, locals, ghosts
<1> SUFFICES ASSUME NEW P \in SUBSET Deleting
             PROVE  Cardinality(Rest(P)') <= MaxEntries + Cardinality(Trimming' \ P) + slack
  BY <1>1 DEF Capped
<1>2. Rest(P)' \subseteq Rest(P) \cup {Target(c)}
  BY <1>1 DEF Rest
<1>3. /\ IsFiniteSet(Rest(P) \cup {Target(c)})
      /\ Cardinality(Rest(P) \cup {Target(c)}) \in Nat
      /\ Cardinality(Rest(P) \cup {Target(c)}) <= Cardinality(Rest(P)) + 1
  <2>1. IsFiniteSet(Rest(P)) /\ Cardinality(Rest(P)) \in Nat
    BY Finite
  <2>2. /\ IsFiniteSet(Rest(P) \cup {Target(c)})
        /\ \/ Cardinality(Rest(P) \cup {Target(c)}) = Cardinality(Rest(P))
           \/ Cardinality(Rest(P) \cup {Target(c)}) = Cardinality(Rest(P)) + 1
    BY <2>1, FS_AddElement
  <2> QED
    BY <2>1, <2>2
<1>4. /\ Cardinality(Rest(P)') <= Cardinality(Rest(P) \cup {Target(c)})
      /\ Cardinality(Rest(P)') \in Nat
  BY <1>2, <1>3, FS_Subset, FS_CardinalityType
<1>5. Trimming' \ P = (Trimming \ P) \cup {c} /\ c \notin Trimming \ P
  BY <1>1
<1>6. Cardinality(Trimming' \ P) = Cardinality(Trimming \ P) + 1
  BY <1>5, Finite, FS_AddElement
<1>7. Cardinality(Rest(P)) <= MaxEntries + Cardinality(Trimming \ P) + slack
  BY DEF Capped
<1> QED
  BY <1>3, <1>4, <1>6, <1>7, Finite, MaxEntriesAssumption DEF Typed, TypeOK

\* The overflow query: the rows it does not list are within the cap.
LEMMA CappedOverflow ==
    ASSUME Typed, Capped, NEW c \in Calls, OverflowIDs(c) PROVE Capped'
<1>1. PICK V \in SUBSET rows :
          /\ IsOverflow(V)
          /\ left' = [left EXCEPT ![c] = V]
          /\ pc' = [pc EXCEPT ![c] = IF V = {} THEN Returned(c) ELSE "fin_purge"]
  BY DEF OverflowIDs, Goto
<1>2. rows' = rows /\ slack' = slack /\ pc[c] = "fin_overflow"
  BY DEF OverflowIDs, At, disk, ghosts
<1>3. Cardinality(rows \ V) <= MaxEntries /\ IsFiniteSet(rows \ V) /\ Cardinality(rows \ V) \in Nat
  BY <1>1, Finite, FS_Subset, FS_CardinalityType DEF IsOverflow
<1> SUFFICES ASSUME NEW P \in SUBSET Deleting'
             PROVE  Cardinality(Rest(P)') <= MaxEntries + Cardinality(Trimming' \ P) + slack
  BY <1>2 DEF Capped
<1>4. Cardinality(Trimming' \ P) \in Nat
  <2>1. IsFiniteSet(Calls) /\ Trimming' \ P \subseteq Calls
    BY IdsAssumption, FS_AddElement DEF Calls, Trimming
  <2> QED
    BY <2>1, FS_Subset, FS_CardinalityType
<1>5. CASE Rest(P)' \subseteq rows \ V
  <2>1. Cardinality(Rest(P)') <= Cardinality(rows \ V) /\ Cardinality(Rest(P)') \in Nat
    BY <1>3, <1>5, FS_Subset, FS_CardinalityType
  <2> QED
    BY <1>3, <1>4, <2>1, MaxEntriesAssumption DEF Typed, TypeOK
<1>6. CASE V # {} /\ c \notin P
  <2>1. Trimming' = Trimming /\ P \subseteq Deleting
    BY <1>1, <1>2, <1>6 DEF Typed, TypeOK, Trimming, Deleting
  <2>2. Rest(P)' = Rest(P)
    BY <1>1, <1>2, <1>6, <2>1 DEF Typed, TypeOK, Rest, Deleting
  <2> QED
    BY <2>1, <2>2 DEF Capped
<1>7. V = {} \/ c \in P => Rest(P)' \subseteq rows \ V
  BY <1>1, <1>2 DEF Typed, TypeOK, Rest
<1> QED
  BY <1>5, <1>6, <1>7

\* A DELETE of retention; the last one ends what the call owed.
LEMMA CappedPurge ==
    ASSUME Typed, Capped, NEW c \in Calls, PurgeRow(c) PROVE Capped'
<1>1. PICK v \in left[c] :
          /\ rows' = rows \ {v}
          /\ left' = [left EXCEPT ![c] = left[c] \ {v}]
          /\ pc' = [pc EXCEPT ![c] = IF left[c] = {v} THEN "fin_remove" ELSE "fin_purge"]
  BY DEF PurgeRow, Goto
<1>2. slack' = slack /\ pc[c] = "fin_purge" /\ c \in Deleting /\ c \in Trimming
  BY DEF PurgeRow, At, Deleting, Trimming
<1> SUFFICES ASSUME NEW P \in SUBSET Deleting'
             PROVE  Cardinality(Rest(P)') <= MaxEntries + Cardinality(Trimming' \ P) + slack
  BY <1>2 DEF Capped
<1>3. P \subseteq Deleting
  BY <1>1, <1>2 DEF Typed, TypeOK, Deleting
<1>4. PICK Q \in SUBSET Deleting : Rest(P)' \subseteq Rest(Q) /\ Trimming' \ P = Trimming \ Q
  <2>1. CASE left[c] = {v}
    <3>1. Trimming' = Trimming \ {c} /\ c \notin P
      BY <1>1, <1>2, <2>1 DEF Typed, TypeOK, Trimming, Deleting
    <3>2. \A d \in P : left'[d] = left[d]
      BY <1>1, <1>3, <3>1 DEF Typed, TypeOK, Deleting
    <3>3. Rest(P)' \subseteq Rest(P \cup {c})
      BY <1>1, <2>1, <3>2 DEF Rest
    <3>4. Trimming' \ P = Trimming \ (P \cup {c}) /\ P \cup {c} \in SUBSET Deleting
      BY <1>2, <1>3, <3>1
    <3> QED
      BY <3>3, <3>4
  <2>2. CASE left[c] # {v}
    <3>1. Trimming' = Trimming
      BY <1>1, <1>2, <2>2 DEF Typed, TypeOK, Trimming
    <3>2. Rest(P)' \subseteq Rest(P)
      BY <1>1, <1>3 DEF Typed, TypeOK, Rest, Deleting
    <3> QED
      BY <1>3, <3>1, <3>2
  <2> QED
    BY <2>1, <2>2
<1>5. Cardinality(Rest(P)') <= Cardinality(Rest(Q)) /\ Cardinality(Rest(P)') \in Nat
  BY <1>4, Finite, FS_Subset, FS_CardinalityType
<1>6. Cardinality(Rest(Q)) <= MaxEntries + Cardinality(Trimming \ Q) + slack
  BY DEF Capped
<1>7. Cardinality(Rest(Q)) \in Nat /\ Cardinality(Trimming \ Q) \in Nat
  BY Finite
<1>8. slack \in Nat /\ MaxEntries \in Nat
  BY MaxEntriesAssumption DEF Typed, TypeOK
<1>9. Cardinality(Trimming' \ P) = Cardinality(Trimming \ Q)
  BY <1>4
<1> QED
  BY <1>5, <1>6, <1>7, <1>8, <1>9

\* A retention pass cut short is counted in slack.
LEMMA CappedFails ==
    ASSUME Typed, Capped, NEW c \in Calls, RetentionFails(c) PROVE Capped'
<1>1. /\ rows' = rows /\ slack' = slack + 1
      /\ left' = [left EXCEPT ![c] = {}]
      /\ pc' = [pc EXCEPT ![c] = Returned(c)]
      /\ pc[c] \in {"fin_overflow", "fin_purge"}
  BY DEF RetentionFails, Return, Goto, At, disk
<1>2. /\ Trimming' = Trimming \ {c} /\ c \in Trimming
      /\ Deleting' = Deleting \ {c}
  BY <1>1 DEF Typed, TypeOK, Trimming, Deleting, Returned
<1> SUFFICES ASSUME NEW P \in SUBSET Deleting'
             PROVE  Cardinality(Rest(P)') <= MaxEntries + Cardinality(Trimming' \ P) + slack'
  BY DEF Capped
<1>3. P \in SUBSET Deleting /\ c \notin P
  BY <1>2
<1>4. Rest(P)' = Rest(P)
  BY <1>1, <1>3 DEF Typed, TypeOK, Rest, Deleting
<1>5. Trimming' \ P = (Trimming \ P) \ {c} /\ c \in Trimming \ P
  BY <1>2, <1>3
<1>6. Cardinality(Trimming' \ P) = Cardinality(Trimming \ P) - 1
  <2>1. IsFiniteSet(Trimming \ P)
    BY Finite
  <2>2. Cardinality((Trimming \ P) \ {c}) = Cardinality(Trimming \ P) - 1
    BY <1>5, <2>1, FS_RemoveElement
  <2> QED
    BY <1>5, <2>2
<1>7. Cardinality(Rest(P)) <= MaxEntries + Cardinality(Trimming \ P) + slack
  BY <1>3 DEF Capped
<1>8. Cardinality(Rest(P)) \in Nat /\ Cardinality(Trimming \ P) \in Nat
  BY Finite
<1>9. slack \in Nat /\ MaxEntries \in Nat
  BY MaxEntriesAssumption DEF Typed, TypeOK
<1> QED
  BY <1>1, <1>4, <1>6, <1>7, <1>8, <1>9

\* A process stop: every call that owed a trim is counted in slack.
LEMMA CappedCrash ==
    ASSUME Typed, Capped, Crash PROVE Capped'
<1>1. rows' = rows /\ slack' = slack + Cardinality(Trimming)
  BY DEF Crash, disk
<1>2. Trimming' = {} /\ Deleting' = {}
  BY DEF Crash, Trimming, Deleting
<1>3. Rest({}) = rows /\ Rest({})' = rows /\ Trimming \ {} = Trimming /\ Trimming' \ {} = {}
  BY <1>1, <1>2 DEF Rest
<1>4. Cardinality(rows) <= MaxEntries + Cardinality(Trimming) + slack
  BY <1>3 DEF Capped
<1>5. Cardinality(Rest({})') <= MaxEntries + Cardinality(Trimming' \ {}) + slack'
  <2>1. Cardinality(Trimming) \in Nat /\ Cardinality({}) = 0 /\ Cardinality(rows) \in Nat
    BY Finite, FS_EmptySet, FS_CardinalityType
  <2>2. slack \in Nat /\ MaxEntries \in Nat
    BY MaxEntriesAssumption DEF Typed, TypeOK
  <2>3. Cardinality(Rest({})') = Cardinality(rows) /\ Cardinality(Trimming' \ {}) = 0
    BY <1>3, <2>1
  <2> QED
    BY <1>1, <1>4, <2>1, <2>2, <2>3
<1> QED
  BY <1>2, <1>5 DEF Capped

\* The other steps of Finalize leave rows, victims and trimming calls alone.
LEMMA CappedFinalize ==
    ASSUME Typed, Capped, NEW c \in Calls, Finalize(c) PROVE Capped'
<1>1. CASE \/ FinalizeGet(c) \/ FinalizeApply(c) \/ FinalizeClose(c) \/ FinalizeSnapshot(c)
           \/ FinalizeInsertFails(c) \/ FinalizeDelete(c) \/ FinalizePublish(c) \/ RemoveFor(c)
  <2> USE <1>1 DEF FinalizeGet, FinalizeApply, FinalizeClose, FinalizeSnapshot,
          FinalizeInsertFails, FinalizeDelete, FinalizePublish, RemoveFor,
          At, Goto, Return, Returned, disk, locals, ghosts
  <2>1. rows' = rows /\ slack' = slack
    OBVIOUS
  <2>2. Trimming' = Trimming /\ Deleting' = Deleting
    BY DEF Typed, TypeOK, Trimming, Deleting
  <2>3. \A d \in Deleting : left'[d] = left[d]
    BY DEF Typed, TypeOK, Deleting
  <2> QED
    BY <2>1, <2>2, <2>3, CappedFrame
<1> QED
  BY <1>1, CappedInsert, CappedOverflow, CappedPurge, CappedFails DEF Finalize

\* Neither do the relays, the sweeper, Clear and Restart.
LEMMA CappedOthers ==
    ASSUME Typed, Capped,
           \/ \E c \in Ids : Relay(c) \/ GoIdle(c)
           \/ \E k \in Clearers : Clear(k)
           \/ Sweep \/ Restart
    PROVE  Capped'
<1>1. rows' \subseteq rows /\ slack' = slack /\ left' = left
  BY DEF Relay, Put, PutSnapshot, PutPublish, RequestGet, RequestWrite,
     RequestWriteFails, Respond, RelayError, UpdateGet, UpdateApply, UpdateSnapshot,
     UpdatePublish, Read, AppendGet, AppendWrite, AppendWriteFails, CloseBody, GoIdle,
     Clear, ClearKnownIDs, ClearDelete, ClearReadDir, ClearRemove, ClearRemoveMissing,
     ClearFails, ClearPublish, Sweep, StaleIDs, SweepNext, Restart, disk, locals, ghosts
<1>2. \A d \in Calls : pc'[d] = pc[d] \/
         {pc[d], pc'[d]} \cap {"fin_delete", "fin_pub", "fin_overflow", "fin_purge"} = {}
  <2>1. ASSUME NEW c \in Ids, Relay(c) \/ GoIdle(c)
        PROVE  \A d \in Calls : pc'[d] = pc[d] \/
                  {pc[d], pc'[d]} \cap {"fin_delete", "fin_pub", "fin_overflow", "fin_purge"} = {}
    BY <2>1 DEF Typed, TypeOK, At, Goto, AfterUpdate, Relay, Put, PutSnapshot, PutPublish,
       RequestGet, RequestWrite, RequestWriteFails, Respond, RelayError, UpdateGet,
       UpdateApply, UpdateSnapshot, UpdatePublish, Read, AppendGet, AppendWrite,
       AppendWriteFails, CloseBody, GoIdle
  <2>2. CASE \E k \in Clearers : Clear(k)
    BY <2>2 DEF Clear, ClearKnownIDs, ClearDelete, ClearReadDir, ClearRemove,
       ClearRemoveMissing, ClearFails, ClearPublish
  <2>3. CASE Sweep \/ Restart
    BY <2>3 DEF Typed, TypeOK, At, Goto, Sweep, StaleIDs, SweepNext, Restart, OrphansRemoved
  <2> QED
    BY <2>1, <2>2, <2>3
<1>3. Trimming' = Trimming /\ Deleting' = Deleting
  BY <1>2 DEF Trimming, Deleting
<1> QED
  BY <1>1, <1>3, CappedFrame

(***************************************************************************)
(* The history exceeds MAX_ENTRIES by at most one row for each Finalize    *)
(* between its insert and its last DELETE and for each pass cut short,     *)
(* whatever the number of concurrent calls.                                *)
(***************************************************************************)
THEOREM StoreRetentionBound == Spec => []RetentionBound
<1>1. Init => Capped
  <2> SUFFICES ASSUME Init PROVE Capped
    OBVIOUS
  <2>1. \A P : Rest(P) = {} /\ Trimming \ P = {}
    BY DEF Init, Rest, Trimming
  <2>2. Cardinality({}) = 0 /\ slack = 0 /\ MaxEntries \in Nat
    BY FS_EmptySet, MaxEntriesAssumption DEF Init
  <2>3. \A P : Cardinality(Rest(P)) <= MaxEntries + Cardinality(Trimming \ P) + slack
    BY <2>1, <2>2
  <2> QED
    BY <2>3 DEF Capped
<1>2. Typed /\ Capped /\ [Next]_vars => Capped'
  <2> SUFFICES ASSUME Typed, Capped, [Next]_vars PROVE Capped'
    OBVIOUS
  <2>1. CASE Next
    BY <2>1, CappedFinalize, CappedOthers, CappedCrash DEF Next
  <2>2. CASE UNCHANGED vars
    <3>1. /\ rows' = rows /\ slack' = slack /\ left' = left
          /\ Trimming' = Trimming /\ Deleting' = Deleting
      BY <2>2 DEF vars, disk, locals, ghosts, Trimming, Deleting
    <3> QED
      BY <3>1, CappedFrame
  <2> QED
    BY <2>1, <2>2
<1>3. Capped => RetentionBound
  <2>1. Rest({}) = rows /\ Trimming \ {} = Trimming
    BY DEF Rest
  <2> QED
    BY <2>1 DEF Capped, RetentionBound
<1> QED
  BY <1>1, <1>2, <1>3, AlwaysTyped, PTL DEF Spec

-------------------------------------------------------------------------------
(***************************************************************************)
(* HeadsKept.  A buffer is changed by a Write, by a Close and by a process *)
(* stop, and each keeps the head.                                          *)
(***************************************************************************)

\* The steps of a relay.
LEMMA RelayHeads ==
    ASSUME Typed, HeadsKept, NEW c \in Ids, Relay(c) \/ GoIdle(c) PROVE HeadsKept'
<1>0. buf \in [Ids -> [Sides -> Buffer]] /\ blob \in [Ids -> [Sides -> FileLen]]
  BY DEF Typed, TypeOK
<1>1. CASE RequestWrite(c) \/ AppendWrite(c)
  <2>1. PICK s \in Sides, n \in Nat : Wrote(c, s, Write(buf[c][s], blob[c][s], n))
    BY <1>1, SizesAssumption DEF RequestWrite, AppendWrite, Sides
  <2>2. HeadKept(Write(buf[c][s], blob[c][s], n).buf)
    BY <1>0, <2>1, WriteHead DEF HeadsKept
  <2> QED
    BY <1>0, <2>1, <2>2 DEF HeadsKept, Wrote
<1>2. CASE RequestWriteFails(c) \/ AppendWriteFails(c)
  <2>1. PICK s \in Sides, n \in Nat :
            \E w \in WriteFailures(buf[c][s], blob[c][s], n) : Wrote(c, s, w)
    BY <1>2, SizesAssumption DEF RequestWriteFails, AppendWriteFails, Sides
  <2>2. PICK w \in WriteFailures(buf[c][s], blob[c][s], n) : Wrote(c, s, w)
    BY <2>1
  <2>3. HeadKept(w.buf)
    BY <1>0, <2>1, <2>2, WriteFailuresHead DEF HeadsKept
  <2> QED
    BY <1>0, <2>2, <2>3 DEF HeadsKept, Wrote
<1>3. CASE buf' = buf
  BY <1>3 DEF HeadsKept
<1> QED
  BY <1>1, <1>2, <1>3 DEF Relay, Put, PutSnapshot, PutPublish, RequestGet, Respond, RelayError,
     UpdateGet, UpdateApply, UpdateSnapshot, UpdatePublish, Read, AppendGet, CloseBody, GoIdle

\* The steps of Finalize: only Close changes a buffer.
LEMMA FinalizeHeads ==
    ASSUME Typed, HeadsKept, NEW c \in Calls, Finalize(c) PROVE HeadsKept'
<1>1. CASE FinalizeClose(c)
  <2>1. Target(c) \in Ids /\ buf \in [Ids -> [Sides -> Buffer]]
    BY <1>1, TargetType DEF FinalizeClose, At, Typed, TypeOK
  <2>2. \A s \in Sides : HeadKept(Close(buf[Target(c)][s]))
    BY <2>1, CloseHead DEF HeadsKept
  <2> QED
    BY <1>1, <2>1, <2>2 DEF HeadsKept, FinalizeClose
<1>2. CASE buf' = buf
  BY <1>2 DEF HeadsKept
<1> QED
  BY <1>1, <1>2 DEF Finalize, FinalizeGet, FinalizeApply, FinalizeSnapshot, FinalizeInsert,
     FinalizeInsertFails, FinalizeDelete, FinalizePublish, OverflowIDs, PurgeRow,
     RetentionFails, RemoveFor

\* A buffer that nothing was written to.
LEMMA EmptyHead == HeadKept(EmptyBuffer)
BY MaxInlineAssumption DEF HeadKept, EmptyBuffer, Least

\* The step.
LEMMA NextHeads == Typed /\ HeadsKept /\ [Next]_vars => HeadsKept'
<1> SUFFICES ASSUME Typed, HeadsKept, [Next]_vars PROVE HeadsKept'
  OBVIOUS
<1>1. CASE Crash
  BY <1>1, EmptyHead DEF Crash, HeadsKept
<1>2. CASE (\E k \in Clearers : Clear(k)) \/ Sweep \/ Restart \/ UNCHANGED vars
  BY <1>2 DEF HeadsKept, Clear, ClearKnownIDs, ClearDelete, ClearReadDir, ClearRemove,
     ClearRemoveMissing, ClearFails, ClearPublish, Sweep, StaleIDs, SweepNext, Restart, vars
<1> QED
  BY <1>1, <1>2, RelayHeads, FinalizeHeads DEF Next

(***************************************************************************)
(* Every body buffer keeps the head of its body in memory, whatever is     *)
(* written to it, in whatever order, before or after Finalize closed it.   *)
(***************************************************************************)
THEOREM StoreHeadsKept == Spec => []HeadsKept
<1>1. Init => HeadsKept
  BY EmptyHead DEF Init, HeadsKept
<1> QED
  BY <1>1, NextHeads, AlwaysTyped, PTL DEF Spec

-------------------------------------------------------------------------------
(***************************************************************************)
(* HistoryFinished.  Finalize decides the outcome, then takes the snapshot *)
(* it will insert, with other calls in between: the status is never set    *)
(* back to pending, because Put is the first step of a relay, and the      *)
(* snapshot is compact because every buffer keeps its head.                *)
(***************************************************************************)
Deciding == {"fin_close", "fin_snap", "fin_insert"}

\* What a row must be.
FinishedRow(r) ==
    /\ r.status # "pending"
    /\ \A s \in Sides : ~r.body[s].path => r.body[s].size <= MaxInline

Decided ==
    /\ \A id \in Ids : pc[id] = "idle" => status[id] = "absent"
    /\ \A c \in Calls : pc[c] \in Deciding => status[Target(c)] # "pending"
    /\ \A c \in Calls : pc[c] = "fin_insert" => FinishedRow(snap[c])
    /\ \A id \in rows : FinishedRow(row[id])

\* A step that neither decides, takes a deciding snapshot nor writes a row.
LEMMA DecidedFrame ==
    ASSUME Typed, Decided,
           \A id \in Ids : \/ status'[id] = status[id]
                           \/ status[id] = "absent" /\ pc'[id] # "idle"
                           \/ status'[id] \in {"done", "error"},
           \A id \in Ids : pc'[id] = "idle" => pc[id] = "idle" /\ status'[id] = status[id],
           \A c \in Calls : pc'[c] \in Deciding =>
               /\ pc[c] = pc'[c] \/ (pc[c] = "fin_close" /\ pc'[c] = "fin_snap")
               /\ snap'[c] = snap[c] /\ Target(c)' = Target(c),
           rows' \subseteq rows, \A id \in rows' : row'[id] = row[id]
    PROVE  Decided'
<1>1. \A id \in Ids : pc'[id] = "idle" => status'[id] = "absent"
  BY DEF Decided
<1>2. \A c \in Calls : pc'[c] \in Deciding => pc[c] \in Deciding /\ status'[Target(c)'] # "pending"
  <2> SUFFICES ASSUME NEW c \in Calls, pc'[c] \in Deciding
               PROVE  pc[c] \in Deciding /\ status'[Target(c)'] # "pending"
    OBVIOUS
  <2>1. pc[c] \in Deciding /\ Target(c)' = Target(c)
    BY DEF Deciding
  <2>2. Target(c) \in Ids /\ status[Target(c)] # "absent"
    BY <2>1, TargetType DEF Deciding
  <2> QED
    BY <2>1, <2>2 DEF Decided
<1>3. \A c \in Calls : pc'[c] = "fin_insert" => FinishedRow(snap'[c])
  BY DEF Decided, Deciding
<1>4. \A id \in rows' : FinishedRow(row'[id])
  BY DEF Decided
<1> QED
  BY <1>1, <1>2, <1>3, <1>4 DEF Decided, FinishedRow

\* The steps of a relay: Put alone changes a status, of an entry nobody had.
LEMMA RelayDecided ==
    ASSUME Typed, Decided, NEW c \in Ids, Relay(c) \/ GoIdle(c) PROVE Decided'
<1> USE DEF Relay, Put, InitialStatus, PutSnapshot, PutPublish, RequestGet, RequestWrite,
     RequestWriteFails, Respond, RelayError, UpdateGet, UpdateApply, UpdateSnapshot,
     UpdatePublish, Read, AppendGet, AppendWrite, AppendWriteFails, CloseBody, GoIdle,
     At, Goto, memory, disk, locals, sweeping
<1>t. pc \in [Calls -> PCs] /\ status \in [Ids -> Status \cup {"absent"}] /\ c \in Calls
      /\ snap \in [Calls -> Row] /\ Ids \subseteq Calls
  BY DEF Typed, TypeOK, Calls
<1>1. rows' = rows /\ row' = row /\ target' = target
  OBVIOUS
<1>2. \A id \in Ids : \/ status'[id] = status[id]
                      \/ status[id] = "absent" /\ pc'[id] # "idle"
  BY <1>t DEF Decided
<1>3. \A id \in Ids : pc'[id] = "idle" => pc[id] = "idle" /\ status'[id] = status[id]
  BY <1>t DEF AfterUpdate
<1>4. \A d \in Calls : pc'[d] \in Deciding => pc[d] = pc'[d] /\ snap'[d] = snap[d]
  BY <1>t DEF AfterUpdate, Deciding, TakeSnapshot
<1> QED
  BY <1>1, <1>2, <1>3, <1>4, DecidedFrame DEF Target

\* The snapshot that will be inserted is that of a decided entry.
LEMMA SnapshotFinished ==
    ASSUME Typed, HeadsKept, NEW id \in Ids, status[id] # "pending"
    PROVE  FinishedRow(Snapshot(id))
<1> SUFFICES ASSUME NEW s \in Sides, ~buf[id][s].path PROVE buf[id][s].size <= MaxInline
  BY DEF FinishedRow, Snapshot, State
<1> QED
  BY MaxInlineAssumption DEF Typed, TypeOK, Buffer, HeadsKept, HeadKept, Least

\* The steps of Finalize.
LEMMA FinalizeDecided ==
    ASSUME Typed, Decided, HeadsKept, NEW c \in Calls, Finalize(c) PROVE Decided'
<1> USE DEF At, Goto, memory, disk, locals, sweeping
<1>t. pc \in [Calls -> PCs] /\ status \in [Ids -> Status \cup {"absent"}] /\ Ids \subseteq Calls
      /\ snap \in [Calls -> Row] /\ row \in [Ids -> Row] /\ Sweeper \notin Ids
  BY SweeperAssumption DEF Typed, TypeOK, Calls
<1>0. pc[c] # "idle" => Target(c) \in Ids /\ status[Target(c)] # "absent"
  BY TargetType
<1>1. CASE FinalizeApply(c)
  <2>1. FinalStatus(c, status[Target(c)]) \in {"done", "error"}
    BY <1>1, <1>0, <1>t DEF FinalizeApply, FinalStatus, Status
  <2>2. \A d \in Calls : pc'[d] \in Deciding => status'[Target(d)'] # "pending"
    <3> SUFFICES ASSUME NEW d \in Calls, pc'[d] \in Deciding
                 PROVE  status'[Target(d)] # "pending"
      BY <1>1 DEF FinalizeApply, Target
    <3>1. CASE Target(d) = Target(c)
      BY <1>1, <1>0, <1>t, <2>1, <3>1 DEF FinalizeApply
    <3>2. CASE Target(d) # Target(c)
      BY <1>1, <1>0, <1>t, <3>2 DEF FinalizeApply, Decided
    <3> QED
      BY <3>1, <3>2
  <2>3. \A id \in Ids : pc'[id] = "idle" => pc[id] = "idle" /\ status'[id] = status[id]
    BY <1>1, <1>0, <1>t DEF FinalizeApply, Decided
  <2> QED
    BY <1>1, <1>t, <2>2, <2>3 DEF FinalizeApply, Decided, FinishedRow
<1>2. CASE FinalizeSnapshot(c)
  <2>1. Target(c) \in Ids /\ FinishedRow(Snapshot(Target(c)))
    BY <1>2, <1>0, SnapshotFinished DEF FinalizeSnapshot, Decided, Deciding
  <2> QED
    BY <1>2, <1>t, <2>1 DEF FinalizeSnapshot, TakeSnapshot, Decided, Deciding, Target, FinishedRow
<1>3. CASE FinalizeInsert(c)
  <2>1. Target(c) \in Ids /\ FinishedRow(snap[c])
    BY <1>3, <1>0 DEF FinalizeInsert, Decided
  <2> QED
    BY <1>3, <1>t, <2>1 DEF FinalizeInsert, Decided, Deciding, Target, FinishedRow
<1>4. CASE \/ FinalizeGet(c) \/ FinalizeClose(c) \/ FinalizeInsertFails(c) \/ FinalizeDelete(c)
           \/ FinalizePublish(c) \/ OverflowIDs(c) \/ PurgeRow(c) \/ RetentionFails(c) \/ RemoveFor(c)
  <2> USE DEF FinalizeGet, FinalizeClose, FinalizeInsertFails, FinalizeDelete,
         FinalizePublish, OverflowIDs, PurgeRow, RetentionFails, RemoveFor, Return, Returned
  <2>1. status' = status /\ rows' \subseteq rows /\ target' = target
    BY <1>4
  <2>2. \A id \in rows' : row'[id] = row[id]
    BY <1>4, <1>t DEF Typed, TypeOK
  <2>3. \A id \in Ids : pc'[id] = "idle" => pc[id] = "idle"
    BY <1>4, <1>t
  <2>4. \A d \in Calls : pc'[d] \in Deciding =>
            /\ pc[d] = pc'[d] \/ (pc[d] = "fin_close" /\ pc'[d] = "fin_snap")
            /\ snap'[d] = snap[d]
    BY <1>4, <1>t DEF Deciding
  <2> QED
    BY <2>1, <2>2, <2>3, <2>4, DecidedFrame DEF Target
<1> QED
  BY <1>1, <1>2, <1>3, <1>4 DEF Finalize

\* Clear, the sweeper's own steps, a process stop and a restart.
LEMMA OthersDecided ==
    ASSUME Typed, Decided, (\E k \in Clearers : Clear(k)) \/ Sweep \/ Crash \/ Restart PROVE Decided'
<1>t. pc \in [Calls -> PCs] /\ Ids \subseteq Calls /\ Sweeper \in Calls /\ Sweeper \notin Ids
  BY SweeperAssumption DEF Typed, TypeOK, Calls
<1>1. CASE (\E k \in Clearers : Clear(k)) \/ StaleIDs \/ Restart
  <2>1. /\ status' = status /\ pc' = pc /\ snap' = snap /\ target' = target
        /\ rows' \subseteq rows /\ \A id \in rows' : row'[id] = row[id]
    BY <1>1 DEF Clear, ClearKnownIDs, ClearDelete, ClearReadDir, ClearRemove,
       ClearRemoveMissing, ClearFails, ClearPublish, StaleIDs, Restart,
       memory, disk, locals, sweeping
  <2> QED
    BY <2>1, DecidedFrame DEF Target
<1>2. CASE SweepNext
  <2>1. /\ status' = status /\ snap' = snap /\ rows' = rows /\ row' = row
        /\ \A id \in Ids : pc'[id] = pc[id]
        /\ \A d \in Calls : pc'[d] \in Deciding =>
              pc[d] = pc'[d] /\ d # Sweeper
    BY <1>2, <1>t DEF SweepNext, At, Goto, Deciding, memory, disk, locals
  <2> QED
    BY <2>1, DecidedFrame DEF Target
<1>3. CASE Crash
  <2>1. /\ status' = status /\ rows' = rows /\ row' = row
        /\ \A id \in Ids : pc'[id] = "idle" => pc[id] = "idle"
        /\ \A d \in Calls : pc'[d] \notin Deciding
    BY <1>3, <1>t DEF Crash, Deciding, disk
  <2> QED
    BY <2>1, DecidedFrame
<1> QED
  BY <1>1, <1>2, <1>3 DEF Sweep

\* Decided is an invariant.
LEMMA AlwaysDecided == Spec => []Decided
<1>1. Init => Decided
  BY SweeperAssumption DEF Init, Decided, Deciding, Calls
<1>2. Typed /\ HeadsKept /\ Decided /\ [Next]_vars => Decided'
  <2> SUFFICES ASSUME Typed, HeadsKept, Decided, [Next]_vars PROVE Decided'
    OBVIOUS
  <2>1. CASE Next
    BY <2>1, RelayDecided, FinalizeDecided, OthersDecided DEF Next
  <2>2. CASE UNCHANGED vars
    BY <2>2 DEF vars, Decided, Target, FinishedRow, memory, disk, locals, sweeping
  <2> QED
    BY <2>1, <2>2
<1> QED
  BY <1>1, <1>2, AlwaysTyped, StoreHeadsKept, PTL DEF Spec

(***************************************************************************)
(* The history holds finished exchanges only, each with its body in the    *)
(* row or in a file, although a sweep, a Clear, failures and stops may     *)
(* fall between the steps of Finalize.                                     *)
(***************************************************************************)
THEOREM StoreHistoryFinished == Spec => []HistoryFinished
<1>1. Decided => HistoryFinished
  BY DEF Decided, FinishedRow, HistoryFinished
<1> QED
  BY <1>1, AlwaysDecided, PTL
===============================================================================
