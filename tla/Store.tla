-------------------------------- MODULE Store ---------------------------------
(***************************************************************************)
(* The two-tier capture store of internal/store: pending exchanges live in *)
(* memory, finished ones in SQLite, oversized bodies in files, and every   *)
(* state change is published to the subscribers of the event stream.       *)
(*                                                                         *)
(* Four kinds of goroutine call the store: one relay per exchange (the     *)
(* proxy's ServeHTTP or a replay), the sweeper of cmd/debugproxy, the HTTP *)
(* handlers that clear the history, and nothing serialises them: the code  *)
(* holds a mutex only around one map access, one entry, one buffer or one  *)
(* SQL statement.  An action is therefore one critical section, one SQL    *)
(* statement or one file-system call, and the local variables a goroutine  *)
(* carries from one to the next are state (pc, snap, left, purged).        *)
(*                                                                         *)
(* The entry itself is abstracted to its status and its two body buffers.  *)
(* liveEntry.snapshot takes the entry's lock and then each buffer's: no    *)
(* property here relates what two of them return, so it is one read.       *)
(***************************************************************************)
EXTENDS BodyBuffer, FiniteSets

CONSTANTS
    Ids,            \* the exchanges, one relay goroutine each
    Sweeper,        \* the goroutine of sweepPending
    Clearers,       \* clear handlers, one call of Store.Clear each
    MaxEntries,     \* Options.MaxEntries
    Stamps,         \* the values StartedAt takes, in milliseconds
    ReqSizes,       \* lengths of request bodies
    ChunkSizes,     \* lengths of the fragments handed to AppendResponse
    MaxChunks,      \* bound: fragments of one response
    IdleAt,         \* where a relay may spend PENDING_TIMEOUT without activity
    MaxFaults,      \* bound: SQL statements and file-system calls that fail
    MaxCrashes      \* bound: process stops

ASSUME MaxEntriesAssumption == MaxEntries \in Nat \ {0}
ASSUME SweeperAssumption == Sweeper \notin Ids
ASSUME IdsAssumption == IsFiniteSet(Ids)
ASSUME SizesAssumption ==
    /\ Stamps \subseteq Nat /\ ReqSizes \subseteq Nat /\ ChunkSizes \subseteq Nat
    /\ MaxChunks \in Nat /\ MaxFaults \in Nat /\ MaxCrashes \in Nat

VARIABLES
    up,         \* is the process running?
    mem,        \* memStore.entries: the ids held in memory
    status,     \* liveEntry.entry.Status; "absent" before Put
    started,    \* StartedAt
    idle,       \* ids whose lastSeen is older than the pending timeout
    buf,        \* liveEntry.req and .resp
    blob,       \* the blobs directory: length of each body file
    rows,       \* the ids in the requests table
    row,        \* the columns of each row
    pc,         \* where each store call stands
    snap,       \* the snapshot a call holds
    left,       \* retention victims a call has still to DELETE
    purged,     \* victims a call has deleted, files not yet removed
    failed,     \* exchanges whose relay ended with an error
    nread,      \* chunks each relay has read
    target,     \* the entry the sweeper is finalizing
    stale,      \* ids staleIDs returned, not finalized yet
    cpc,        \* where each Clear call stands
    cids,       \* the ids a Clear call read before its DELETE
    cnames,     \* the file names a Clear call has still to remove
    view,       \* the list of a browser that applied every event so far
    faults, crashes,
    gone,       \* ids retention, Clear or a process stop removed
    slack       \* retention passes cut short by a failure or a stop

memory   == <<mem, status, started, idle>>
disk     == <<blob, rows, row>>
locals   == <<snap, left, purged>>
relays   == <<failed, nread>>
sweeping == <<target, stale>>
clearing == <<cpc, cids, cnames>>
bounds   == <<faults, crashes>>
ghosts   == <<gone, slack>>
vars     == <<up, memory, buf, disk, pc, locals, relays, sweeping, clearing,
              view, bounds, ghosts>>

-------------------------------------------------------------------------------
Sides  == {"req", "resp"}
Files  == Ids \X Sides
Calls  == Ids \cup {Sweeper}
Status == {"pending", "done", "error"}

Row == [status : Status, body : [Sides -> [path : BOOLEAN, size : Nat]]]

NoRow == [status |-> "pending", body |-> [s \in Sides |-> State(EmptyBuffer)]]

NoFiles == [s \in Sides |-> NoFile]

PCs == {"idle", "end", "put_snap", "put_pub", "req_get", "req_write", "relay",
        "upd_get", "upd_apply", "upd_snap", "upd_pub", "stream", "app_get", "app_write",
        "fin_get", "fin_apply", "fin_close", "fin_snap", "fin_insert",
        "fin_delete", "fin_pub", "fin_overflow", "fin_purge", "fin_remove"}

ClearPCs == {"idle", "delete", "readdir", "remove", "publish", "end"}

\* One type invariant.
TypeOK ==
    /\ up \in BOOLEAN
    /\ mem \subseteq Ids /\ idle \subseteq Ids /\ rows \subseteq Ids
    /\ status \in [Ids -> Status \cup {"absent"}]
    /\ started \in [Ids -> Nat]
    /\ buf \in [Ids -> [Sides -> Buffer]]
    /\ blob \in [Ids -> [Sides -> FileLen]]
    /\ row \in [Ids -> Row]
    /\ pc \in [Calls -> PCs]
    /\ snap \in [Calls -> Row]
    /\ left \in [Calls -> SUBSET Ids]
    /\ purged \in [Calls -> SUBSET Ids]
    /\ failed \subseteq Ids
    /\ nread \in [Ids -> Nat]
    /\ target \in Calls
    /\ stale \subseteq Ids
    /\ cpc \in [Clearers -> ClearPCs]
    /\ cids \in [Clearers -> SUBSET Ids]
    /\ cnames \in [Clearers -> SUBSET Files]
    /\ view \in [Ids -> Status \cup {"absent"}]
    /\ faults \in Nat /\ crashes \in Nat
    /\ gone \subseteq Ids /\ slack \in Nat

Init ==
    /\ up = TRUE
    /\ mem = {} /\ idle = {} /\ rows = {}
    /\ status = [i \in Ids |-> "absent"]
    /\ started = [i \in Ids |-> 0]
    /\ buf = [i \in Ids |-> [s \in Sides |-> EmptyBuffer]]
    /\ blob = [i \in Ids |-> NoFiles]
    /\ row = [i \in Ids |-> NoRow]
    /\ pc = [c \in Calls |-> "idle"]
    /\ snap = [c \in Calls |-> NoRow]
    /\ left = [c \in Calls |-> {}]
    /\ purged = [c \in Calls |-> {}]
    /\ failed = {}
    /\ nread = [i \in Ids |-> 0]
    /\ target = Sweeper
    /\ stale = {}
    /\ cpc = [k \in Clearers |-> "idle"]
    /\ cids = [k \in Clearers |-> {}]
    /\ cnames = [k \in Clearers |-> {}]
    /\ view = [i \in Ids |-> "absent"]
    /\ faults = 0 /\ crashes = 0
    /\ gone = {} /\ slack = 0

-------------------------------------------------------------------------------
(***************************************************************************)
(* Helpers.                                                                *)
(***************************************************************************)

\* The entry a call works on: its own, or the one the sweeper picked.
Target(c) == IF c = Sweeper THEN target ELSE c

At(c, label) == up /\ pc[c] = label

Goto(c, label) == pc' = [pc EXCEPT ![c] = label]

\* Where a call goes when the store method it is in returns.
Returned(c) == IF c = Sweeper THEN "idle" ELSE "end"

\* Finalize returns and its local variables die with it.
Return(c) ==
    /\ Goto(c, Returned(c))
    /\ snap' = [snap EXCEPT ![c] = NoRow]
    /\ left' = [left EXCEPT ![c] = {}]
    /\ purged' = [purged EXCEPT ![c] = {}]

Snapshot(id) == [status |-> status[id], body |-> [s \in Sides |-> State(buf[id][s])]]

TakeSnapshot(c) == snap' = [snap EXCEPT ![c] = Snapshot(Target(c))]

Fault == faults < MaxFaults /\ faults' = faults + 1

(***************************************************************************)
(* What app.js does with an event: "created" and "updated" merge a row,    *)
(* "updated" is ignored for an id that is not listed, "deleted" removes.   *)
(***************************************************************************)
OnCreated(id, st) == view' = [view EXCEPT ![id] = st]

\* Mutant: an update of an unknown id lists it.
OnUpdatedAlways(id, st) == view' = [view EXCEPT ![id] = st]

OnUpdated(id, st) == view' = IF view[id] = "absent" THEN view ELSE [view EXCEPT ![id] = st]
OnDeleted(ids)    == view' = [i \in Ids |-> IF i \in ids THEN "absent" ELSE view[i]]

-------------------------------------------------------------------------------
(***************************************************************************)
(* Put and SetRequestBody, as ServeHTTP and Replay call them.              *)
(***************************************************************************)
\* Mutant: the status Put defaults to is never set.
InitialStatusUnset == "absent"

InitialStatus == "pending"

Put(c) ==
    /\ At(c, "idle")
    /\ mem' = mem \cup {c}
    /\ status' = [status EXCEPT ![c] = InitialStatus]
    /\ \E t \in Stamps : started' = [started EXCEPT ![c] = t]
    /\ Goto(c, "put_snap")
    /\ UNCHANGED <<up, idle, buf, disk, locals, relays, sweeping, clearing, view, bounds, ghosts>>

PutSnapshot(c) ==
    /\ At(c, "put_snap")
    /\ TakeSnapshot(c)
    /\ Goto(c, "put_pub")
    /\ UNCHANGED <<up, memory, buf, disk, left, purged, relays, sweeping, clearing, view, bounds, ghosts>>

PutPublish(c) ==
    /\ At(c, "put_pub")
    /\ OnCreated(c, snap[c].status)
    /\ snap' = [snap EXCEPT ![c] = NoRow]
    /\ Goto(c, "req_get")
    /\ UNCHANGED <<up, memory, buf, disk, left, purged, relays, sweeping, clearing, bounds, ghosts>>

\* mem.get of SetRequestBody; a missing entry is only logged.
RequestGet(c) ==
    /\ At(c, "req_get")
    /\ Goto(c, IF c \in mem THEN "req_write" ELSE "relay")
    /\ UNCHANGED <<up, memory, buf, disk, locals, relays, sweeping, clearing, view, bounds, ghosts>>

\* The result of a Write is stored; w ranges over what the call can return.
Wrote(c, side, w) ==
    /\ buf' = [buf EXCEPT ![c][side] = w.buf]
    /\ blob' = [blob EXCEPT ![c][side] = w.len]

RequestWrite(c) ==
    /\ At(c, "req_write")
    /\ \E n \in ReqSizes : Wrote(c, "req", Write(buf[c].req, blob[c].req, n))
    /\ Goto(c, "relay")
    /\ UNCHANGED <<up, memory, rows, row, locals, relays, sweeping, clearing, view, bounds, ghosts>>

RequestWriteFails(c) ==
    /\ At(c, "req_write")
    /\ Fault
    /\ \E n \in ReqSizes :
          \E w \in WriteFailures(buf[c].req, blob[c].req, n) : Wrote(c, "req", w)
    /\ Goto(c, "relay")
    /\ UNCHANGED <<up, memory, rows, row, locals, relays, sweeping, clearing, view, crashes, ghosts>>

-------------------------------------------------------------------------------
(***************************************************************************)
(* The backend answers (modifyResponse) or the relay fails (handleError,   *)
(* the error returns of send).  ReverseProxy also fails a relay after      *)
(* modifyResponse, before any byte is read: a 101 answer needs a writable  *)
(* body, which the capture reader is not.                                  *)
(***************************************************************************)
Respond(c) ==
    /\ At(c, "relay")
    /\ Goto(c, "upd_get")
    /\ UNCHANGED <<up, memory, buf, disk, locals, relays, sweeping, clearing, view, bounds, ghosts>>

RelayError(c) ==
    /\ At(c, "relay") \/ (At(c, "stream") /\ nread[c] = 0)
    /\ failed' = failed \cup {c}
    /\ Goto(c, "fin_get")
    /\ UNCHANGED <<up, memory, buf, disk, locals, nread, sweeping, clearing, view, bounds, ghosts>>

(***************************************************************************)
(* Update: of the response head by modifyResponse, and of the format by    *)
(* the capture reader when it sniffs the first chunk, which it then        *)
(* appends.                                                                *)
(***************************************************************************)
AfterUpdate(c) == IF nread[c] > 0 THEN "app_get" ELSE "stream"

UpdateGet(c) ==
    /\ At(c, "upd_get")
    /\ Goto(c, IF c \in mem THEN "upd_apply" ELSE AfterUpdate(c))
    /\ UNCHANGED <<up, memory, buf, disk, locals, relays, sweeping, clearing, view, bounds, ghosts>>

UpdateApply(c) ==
    /\ At(c, "upd_apply")
    /\ idle' = idle \ {c}
    /\ Goto(c, "upd_snap")
    /\ UNCHANGED <<up, mem, status, started, buf, disk, locals, relays, sweeping, clearing, view, bounds, ghosts>>

UpdateSnapshot(c) ==
    /\ At(c, "upd_snap")
    /\ TakeSnapshot(c)
    /\ Goto(c, "upd_pub")
    /\ UNCHANGED <<up, memory, buf, disk, left, purged, relays, sweeping, clearing, view, bounds, ghosts>>

UpdatePublish(c) ==
    /\ At(c, "upd_pub")
    /\ OnUpdated(c, snap[c].status)
    /\ snap' = [snap EXCEPT ![c] = NoRow]
    /\ Goto(c, AfterUpdate(c))
    /\ UNCHANGED <<up, memory, buf, disk, left, purged, relays, sweeping, clearing, bounds, ghosts>>

(***************************************************************************)
(* The capture reader, cutting into lines aside (CaptureReader): a         *)
(* fragment arrives, the first one possibly sniffed, and is appended; the  *)
(* body is closed at its end, or early when the client or the backend goes *)
(* away.  Delta events leave the list alone.                               *)
(***************************************************************************)
Read(c) ==
    /\ At(c, "stream")
    /\ nread[c] < MaxChunks
    /\ nread' = [nread EXCEPT ![c] = nread[c] + 1]
    /\ \/ Goto(c, "app_get")
       \/ nread[c] = 0 /\ Goto(c, "upd_get")
    /\ UNCHANGED <<up, memory, buf, disk, locals, failed, sweeping, clearing, view, bounds, ghosts>>

\* mem.get of AppendResponse: the chunk of a finalized entry is dropped.
AppendGet(c) ==
    /\ At(c, "app_get")
    /\ Goto(c, IF c \in mem THEN "app_write" ELSE "stream")
    /\ UNCHANGED <<up, memory, buf, disk, locals, relays, sweeping, clearing, view, bounds, ghosts>>

\* resp.Write, then touch if it succeeded.
AppendWrite(c) ==
    /\ At(c, "app_write")
    /\ \E n \in ChunkSizes :
          LET w == Write(buf[c].resp, blob[c].resp, n) IN
          /\ Wrote(c, "resp", w)
          /\ idle' = IF w.ok THEN idle \ {c} ELSE idle
    /\ Goto(c, "stream")
    /\ UNCHANGED <<up, mem, status, started, rows, row, locals, relays, sweeping, clearing, view, bounds, ghosts>>

AppendWriteFails(c) ==
    /\ At(c, "app_write")
    /\ Fault
    /\ \E n \in ChunkSizes :
          \E w \in WriteFailures(buf[c].resp, blob[c].resp, n) : Wrote(c, "resp", w)
    /\ Goto(c, "stream")
    /\ UNCHANGED <<up, memory, rows, row, locals, relays, sweeping, clearing, view, crashes, ghosts>>

CloseBody(c) ==
    /\ At(c, "stream")
    /\ Goto(c, "fin_get")
    /\ UNCHANGED <<up, memory, buf, disk, locals, relays, sweeping, clearing, view, bounds, ghosts>>

-------------------------------------------------------------------------------
(***************************************************************************)
(* Finalize, by the relay of the entry or by the sweeper.                  *)
(***************************************************************************)
FinalizeGet(c) ==
    /\ At(c, "fin_get")
    /\ Goto(c, IF Target(c) \in mem THEN "fin_apply" ELSE Returned(c))
    /\ UNCHANGED <<up, memory, buf, disk, locals, relays, sweeping, clearing, view, bounds, ghosts>>

\* Mutant: a pending entry stays pending.
FinalStatusKept(c, st) == IF c = Sweeper \/ c \in failed THEN "error" ELSE st

\* The caller's fn, then pending becomes done.
FinalStatus(c, st) ==
    IF c = Sweeper \/ c \in failed THEN "error"
    ELSE IF st = "pending" THEN "done" ELSE st

FinalizeApply(c) ==
    /\ At(c, "fin_apply")
    /\ status' = [status EXCEPT ![Target(c)] = FinalStatus(c, status[Target(c)])]
    /\ idle' = idle \ {Target(c)}
    /\ Goto(c, "fin_close")
    /\ UNCHANGED <<up, mem, started, buf, disk, locals, relays, sweeping, clearing, view, bounds, ghosts>>

\* Mutant: the memory copy is dropped before the row is written.
FinalizeCloseDrops(c) ==
    /\ At(c, "fin_close")
    /\ mem' = mem \ {Target(c)}
    /\ idle' = idle \ {Target(c)}
    /\ buf' = [buf EXCEPT ![Target(c)] = [s \in Sides |-> Close(buf[Target(c)][s])]]
    /\ Goto(c, "fin_snap")
    /\ UNCHANGED <<up, status, started, disk, locals, relays, sweeping, clearing, view, bounds, ghosts>>

FinalizeClose(c) ==
    /\ At(c, "fin_close")
    /\ buf' = [buf EXCEPT ![Target(c)] = [s \in Sides |-> Close(buf[Target(c)][s])]]
    /\ Goto(c, "fin_snap")
    /\ UNCHANGED <<up, memory, disk, locals, relays, sweeping, clearing, view, bounds, ghosts>>

FinalizeSnapshot(c) ==
    /\ At(c, "fin_snap")
    /\ TakeSnapshot(c)
    /\ Goto(c, "fin_insert")
    /\ UNCHANGED <<up, memory, buf, disk, left, purged, relays, sweeping, clearing, view, bounds, ghosts>>

\* INSERT OR REPLACE of the snapshot.
FinalizeInsert(c) ==
    /\ At(c, "fin_insert")
    /\ rows' = rows \cup {Target(c)}
    /\ row' = [row EXCEPT ![Target(c)] = snap[c]]
    /\ Goto(c, "fin_delete")
    /\ UNCHANGED <<up, memory, buf, blob, locals, relays, sweeping, clearing, view, bounds, ghosts>>

\* Mutant: the memory copy is dropped although the insert failed.
FinalizeInsertFailsDrops(c) ==
    /\ At(c, "fin_insert")
    /\ Fault
    /\ mem' = mem \ {Target(c)}
    /\ idle' = idle \ {Target(c)}
    /\ Return(c)
    /\ UNCHANGED <<up, status, started, buf, disk, relays, sweeping, clearing, view, crashes, ghosts>>

\* The insert fails: the entry stays in memory, already closed.
FinalizeInsertFails(c) ==
    /\ At(c, "fin_insert")
    /\ Fault
    /\ Return(c)
    /\ UNCHANGED <<up, memory, buf, disk, relays, sweeping, clearing, view, crashes, ghosts>>

\* Mutant: the memory copy is not dropped.
FinalizeDeleteKeeps(c) ==
    /\ At(c, "fin_delete")
    /\ Goto(c, "fin_pub")
    /\ UNCHANGED <<up, memory, buf, disk, locals, relays, sweeping, clearing, view, bounds, ghosts>>

FinalizeDelete(c) ==
    /\ At(c, "fin_delete")
    /\ mem' = mem \ {Target(c)}
    /\ idle' = idle \ {Target(c)}
    /\ Goto(c, "fin_pub")
    /\ UNCHANGED <<up, status, started, buf, disk, locals, relays, sweeping, clearing, view, bounds, ghosts>>

FinalizePublish(c) ==
    /\ At(c, "fin_pub")
    /\ OnUpdated(Target(c), snap[c].status)
    /\ snap' = [snap EXCEPT ![c] = NoRow]
    /\ Goto(c, "fin_overflow")
    /\ UNCHANGED <<up, memory, buf, disk, left, purged, relays, sweeping, clearing, bounds, ghosts>>

-------------------------------------------------------------------------------
(***************************************************************************)
(* applyRetention: the rows beyond the cap are listed, newest first by     *)
(* StartedAt (equal stamps in any order), deleted one statement at a time, *)
(* and only when every DELETE succeeded are their files removed.           *)
(***************************************************************************)

\* Mutant: the offset is one too large.
IsOverflowByOne(V) ==
    /\ V \subseteq rows
    /\ Cardinality(rows \ V) <= MaxEntries + 1
    /\ V # {} => Cardinality(rows \ V) = MaxEntries + 1
    /\ \A v \in V, k \in rows \ V : started[k] >= started[v]

IsOverflow(V) ==
    /\ V \subseteq rows
    /\ Cardinality(rows \ V) <= MaxEntries
    /\ V # {} => Cardinality(rows \ V) = MaxEntries
    /\ \A v \in V, k \in rows \ V : started[k] >= started[v]

\* Mutant: the files of the victims go before their rows.
OverflowIDsUnlinks(c) ==
    /\ At(c, "fin_overflow")
    /\ \E V \in SUBSET rows :
          /\ IsOverflow(V)
          /\ left' = [left EXCEPT ![c] = V]
          /\ blob' = [i \in Ids |-> IF i \in V THEN NoFiles ELSE blob[i]]
          /\ Goto(c, IF V = {} THEN Returned(c) ELSE "fin_purge")
    /\ UNCHANGED <<up, memory, buf, rows, row, snap, purged, relays, sweeping, clearing, view, bounds, ghosts>>

OverflowIDs(c) ==
    /\ At(c, "fin_overflow")
    /\ \E V \in SUBSET rows :
          /\ IsOverflow(V)
          /\ left' = [left EXCEPT ![c] = V]
          /\ Goto(c, IF V = {} THEN Returned(c) ELSE "fin_purge")
    /\ UNCHANGED <<up, memory, buf, disk, snap, purged, relays, sweeping, clearing, view, bounds, ghosts>>

PurgeRow(c) ==
    /\ At(c, "fin_purge")
    /\ \E v \in left[c] :
          /\ rows' = rows \ {v}
          /\ row' = [row EXCEPT ![v] = NoRow]
          /\ gone' = gone \cup ({v} \cap rows)
          /\ left' = [left EXCEPT ![c] = left[c] \ {v}]
          /\ purged' = [purged EXCEPT ![c] = purged[c] \cup {v}]
          /\ Goto(c, IF left[c] = {v} THEN "fin_remove" ELSE "fin_purge")
    /\ UNCHANGED <<up, memory, buf, blob, snap, relays, sweeping, clearing, view, bounds, slack>>

\* The query or a DELETE fails: Finalize returns the error at once.
RetentionFails(c) ==
    /\ At(c, "fin_overflow") \/ At(c, "fin_purge")
    /\ Fault
    /\ slack' = slack + 1
    /\ Return(c)
    /\ UNCHANGED <<up, memory, buf, disk, relays, sweeping, clearing, view, crashes, gone>>

\* Mutant: the response file is forgotten.
RemovedRequest(v) == [blob EXCEPT ![v]["req"] = NoFile]

\* blobStore.removeFor: both body files of an entry.
Removed(v) == [blob EXCEPT ![v] = NoFiles]

\* removeFor and the deleted event of one victim.
RemoveFor(c) ==
    /\ At(c, "fin_remove")
    /\ \E v \in purged[c] :
          /\ blob' = Removed(v)
          /\ OnDeleted({v})
          /\ purged' = [purged EXCEPT ![c] = purged[c] \ {v}]
          /\ Goto(c, IF purged[c] = {v} THEN Returned(c) ELSE "fin_remove")
    /\ UNCHANGED <<up, memory, buf, rows, row, snap, left, relays, sweeping, clearing, bounds, ghosts>>

-------------------------------------------------------------------------------
(***************************************************************************)
(* The sweeper: staleIDs takes a snapshot of the idle ids, then each is    *)
(* finalized in turn.  An entry goes idle when PENDING_TIMEOUT passes      *)
(* without activity: once its relay has returned ("end"), while it waits   *)
(* for a slow backend ("relay", "stream"), or anywhere, as IdleAt says.    *)
(***************************************************************************)
GoIdle(id) ==
    /\ up
    /\ id \in mem \ idle
    /\ pc[id] \in IdleAt
    /\ idle' = idle \cup {id}
    /\ UNCHANGED <<up, mem, status, started, buf, disk, pc, locals, relays, sweeping, clearing, view, bounds, ghosts>>

\* Mutant: an entry that is finished but was never written is skipped.
StaleIDsPending ==
    /\ At(Sweeper, "idle")
    /\ stale = {} /\ \E i \in idle : status[i] = "pending"
    /\ stale' = {i \in idle : status[i] = "pending"}
    /\ UNCHANGED <<up, memory, buf, disk, pc, locals, relays, target, clearing, view, bounds, ghosts>>

StaleIDs ==
    /\ At(Sweeper, "idle")
    /\ stale = {} /\ idle # {}
    /\ stale' = idle
    /\ UNCHANGED <<up, memory, buf, disk, pc, locals, relays, target, clearing, view, bounds, ghosts>>

SweepNext ==
    /\ At(Sweeper, "idle")
    /\ \E id \in stale :
          /\ target' = id
          /\ stale' = stale \ {id}
    /\ Goto(Sweeper, "fin_get")
    /\ UNCHANGED <<up, memory, buf, disk, locals, relays, clearing, view, bounds, ghosts>>

-------------------------------------------------------------------------------
(***************************************************************************)
(* Clear: the ids are read, the rows deleted by a second statement, the    *)
(* blobs directory is listed and emptied file by file, and the deleted     *)
(* events published.  Any error, a file already gone included, ends it.    *)
(***************************************************************************)
ClearGoto(k, label) == cpc' = [cpc EXCEPT ![k] = label]

ClearReturn(k) ==
    /\ ClearGoto(k, "end")
    /\ cids' = [cids EXCEPT ![k] = {}]
    /\ cnames' = [cnames EXCEPT ![k] = {}]

ClearKnownIDs(k) ==
    /\ up /\ cpc[k] = "idle"
    /\ cids' = [cids EXCEPT ![k] = rows]
    /\ ClearGoto(k, "delete")
    /\ UNCHANGED <<up, memory, buf, disk, pc, locals, relays, sweeping, cnames, view, bounds, ghosts>>

ClearDelete(k) ==
    /\ up /\ cpc[k] = "delete"
    /\ rows' = {}
    /\ row' = [i \in Ids |-> NoRow]
    /\ gone' = gone \cup rows
    /\ ClearGoto(k, "readdir")
    /\ UNCHANGED <<up, memory, buf, blob, pc, locals, relays, sweeping, cids, cnames, view, bounds, slack>>

ClearReadDir(k) ==
    /\ up /\ cpc[k] = "readdir"
    /\ LET names == {f \in Files : blob[f[1]][f[2]] # NoFile} IN
          /\ cnames' = [cnames EXCEPT ![k] = names]
          /\ ClearGoto(k, IF names = {} THEN "publish" ELSE "remove")
    /\ UNCHANGED <<up, memory, buf, disk, pc, locals, relays, sweeping, cids, view, bounds, ghosts>>

ClearRemove(k) ==
    /\ up /\ cpc[k] = "remove"
    /\ \E f \in cnames[k] :
          /\ blob[f[1]][f[2]] # NoFile
          /\ blob' = [blob EXCEPT ![f[1]][f[2]] = NoFile]
          /\ cnames' = [cnames EXCEPT ![k] = cnames[k] \ {f}]
          /\ ClearGoto(k, IF cnames[k] = {f} THEN "publish" ELSE "remove")
    /\ UNCHANGED <<up, memory, buf, rows, row, pc, locals, relays, sweeping, cids, view, bounds, ghosts>>

\* os.Remove of a name another goroutine removed since the listing.
ClearRemoveMissing(k) ==
    /\ up /\ cpc[k] = "remove"
    /\ \E f \in cnames[k] : blob[f[1]][f[2]] = NoFile
    /\ ClearReturn(k)
    /\ UNCHANGED <<up, memory, buf, disk, pc, locals, relays, sweeping, view, bounds, ghosts>>

ClearFails(k) ==
    /\ up /\ cpc[k] \in {"idle", "delete", "readdir", "remove"}
    /\ Fault
    /\ ClearReturn(k)
    /\ UNCHANGED <<up, memory, buf, disk, pc, locals, relays, sweeping, view, crashes, ghosts>>

\* The events follow one another with no other effect in between.
ClearPublish(k) ==
    /\ up /\ cpc[k] = "publish"
    /\ OnDeleted(cids[k])
    /\ ClearReturn(k)
    /\ UNCHANGED <<up, memory, buf, disk, pc, locals, relays, sweeping, bounds, ghosts>>

-------------------------------------------------------------------------------
Trimming == {c \in Calls : pc[c] \in {"fin_delete", "fin_pub", "fin_overflow", "fin_purge"}}

(***************************************************************************)
(* The process stops, abruptly or because shutdown's deadline passed: what *)
(* is in memory is lost, what is in the database and on disk stays.  New   *)
(* opens both again and removes the files of unknown ids.                  *)
(***************************************************************************)
Crash ==
    /\ up /\ crashes < MaxCrashes
    /\ up' = FALSE
    /\ crashes' = crashes + 1
    /\ mem' = {} /\ idle' = {}
    /\ buf' = [i \in Ids |-> [s \in Sides |-> EmptyBuffer]]
    /\ pc' = [c \in Calls |-> IF c = Sweeper \/ pc[c] = "idle" THEN "idle" ELSE "end"]
    /\ snap' = [c \in Calls |-> NoRow]
    /\ left' = [c \in Calls |-> {}]
    /\ purged' = [c \in Calls |-> {}]
    /\ stale' = {}
    /\ cpc' = [k \in Clearers |-> IF cpc[k] = "idle" THEN "idle" ELSE "end"]
    /\ cids' = [k \in Clearers |-> {}]
    /\ cnames' = [k \in Clearers |-> {}]
    /\ gone' = gone \cup (mem \ rows)
    /\ slack' = slack + Cardinality(Trimming)
    /\ UNCHANGED <<status, started, disk, relays, target, view, faults>>

\* removeOrphans: the files of ids that have no row go.
OrphansRemoved == [i \in Ids |-> IF i \in rows THEN blob[i] ELSE NoFiles]

Restart ==
    /\ ~up
    /\ up' = TRUE
    /\ blob' = OrphansRemoved
    /\ UNCHANGED <<memory, buf, rows, row, pc, locals, relays, sweeping, clearing, view, bounds, ghosts>>

-------------------------------------------------------------------------------
Finalize(c) ==
    \/ FinalizeGet(c) \/ FinalizeApply(c) \/ FinalizeClose(c) \/ FinalizeSnapshot(c)
    \/ FinalizeInsert(c) \/ FinalizeInsertFails(c)
    \/ FinalizeDelete(c) \/ FinalizePublish(c)
    \/ OverflowIDs(c) \/ PurgeRow(c) \/ RetentionFails(c) \/ RemoveFor(c)

Relay(c) ==
    \/ Put(c) \/ PutSnapshot(c) \/ PutPublish(c)
    \/ RequestGet(c) \/ RequestWrite(c) \/ RequestWriteFails(c)
    \/ Respond(c) \/ RelayError(c)
    \/ UpdateGet(c) \/ UpdateApply(c) \/ UpdateSnapshot(c) \/ UpdatePublish(c)
    \/ Read(c) \/ AppendGet(c) \/ AppendWrite(c) \/ AppendWriteFails(c)
    \/ CloseBody(c)

Sweep == StaleIDs \/ SweepNext

Clear(k) ==
    \/ ClearKnownIDs(k) \/ ClearDelete(k) \/ ClearReadDir(k)
    \/ ClearRemove(k) \/ ClearRemoveMissing(k) \/ ClearFails(k) \/ ClearPublish(k)

Next ==
    \/ \E c \in Ids : Relay(c) \/ GoIdle(c)
    \/ \E c \in Calls : Finalize(c)
    \/ \E k \in Clearers : Clear(k)
    \/ Sweep \/ Crash \/ Restart

Spec == Init /\ [][Next]_vars
-------------------------------------------------------------------------------
(***************************************************************************)
(* What the store promises in every environment: slow backends, Clear,     *)
(* failing statements and process stops included.                          *)
(***************************************************************************)

(***************************************************************************)
(* Put ... Finalize never drops an exchange: from Put on it is in memory   *)
(* or in the database, across the move from one to the other and a failed  *)
(* insert, until retention, Clear or a process stop removes it.            *)
(***************************************************************************)
NeverLost ==
    \A id \in Ids : status[id] # "absent" /\ id \notin gone => id \in mem \cup rows

(***************************************************************************)
(* applyRetention runs after the insert, in several statements, for        *)
(* several Finalize calls at once.  The history still exceeds the cap by   *)
(* at most one row per call between its insert and its last DELETE, plus   *)
(* the passes that a failed statement or a process stop cut short.         *)
(***************************************************************************)
RetentionBound ==
    Cardinality(rows) <= MaxEntries + Cardinality(Trimming) + slack

(***************************************************************************)
(* A row is written only by Finalize: none is pending, and one without a   *)
(* path holds its body in the row, so it is no larger than the inline      *)
(* threshold.                                                              *)
(***************************************************************************)
HistoryFinished ==
    \A id \in rows :
        /\ row[id].status # "pending"
        /\ \A s \in Sides : ~row[id].body[s].path => row[id].body[s].size <= MaxInline

\* Every body buffer keeps the head of its body (bodyBuffer.Write, Close).
HeadsKept == \A id \in Ids, s \in Sides : HeadKept(buf[id][s])

-------------------------------------------------------------------------------
(***************************************************************************)
(* What it promises while no exchange outlives the pending timeout and     *)
(* nobody clears the history: a sweep of an exchange under way, or a Clear *)
(* beside one, breaks each of them.                                        *)
(***************************************************************************)

(***************************************************************************)
(* The file a row points to exists and holds the size the row states, as   *)
(* Body and getBody assume when they announce that size to the client; a   *)
(* failed write may leave bytes beyond it, never less.                     *)
(***************************************************************************)
RowBodyWhole ==
    \A id \in rows, s \in Sides :
        LET body == row[id].body[s] IN
        body.path =>
            /\ blob[id][s] >= body.size
            /\ faults = 0 => blob[id][s] = body.size

(***************************************************************************)
(* No body file outlives its entry: while the process runs, a file belongs *)
(* to a pending entry, to a row, or is about to be removed by a Finalize   *)
(* that deleted the row or by a Clear that emptied the table.              *)
(***************************************************************************)
NoOrphans ==
    up => \A id \in Ids, s \in Sides :
        blob[id][s] # NoFile => \/ id \in mem \cup rows
                                \/ \E c \in Calls : id \in purged[c]
                                \/ \E k \in Clearers :
                                      cpc[k] = "readdir" \/ <<id, s>> \in cnames[k]

(***************************************************************************)
(* The outcome of an exchange is decided once: a done entry is not turned  *)
(* into an error, nor the reverse.                                         *)
(***************************************************************************)
OutcomeIsFinal ==
    [][\A id \in Ids : status[id] \in {"done", "error"} => status'[id] = status[id]]_vars

\* No store call is under way, and the sweeper has nothing left to close.
Quiescent ==
    /\ up
    /\ \A c \in Ids : pc[c] \in {"idle", "relay", "end"}
    /\ pc[Sweeper] = "idle" /\ stale = {}
    /\ \A k \in Clearers : cpc[k] \in {"idle", "end"}

Stored(id) ==
    IF id \in mem THEN status[id] ELSE IF id \in rows THEN row[id].status ELSE "absent"

(***************************************************************************)
(* A browser that applied every event shows what the store holds whenever  *)
(* no call is under way, although each call publishes after the state it   *)
(* describes was readable and other calls publish in between.              *)
(***************************************************************************)
ViewConverges == Quiescent => \A id \in Ids : view[id] = Stored(id)

-------------------------------------------------------------------------------
(***************************************************************************)
(* Liveness.  Time passes, the sweep ticker fires, and a goroutine inside  *)
(* a store call is scheduled; nothing is assumed of the backends, which    *)
(* may never answer (Respond, RelayError, Read, CloseBody).                *)
(***************************************************************************)
InStore(c) ==
    \/ PutSnapshot(c) \/ PutPublish(c) \/ RequestGet(c) \/ RequestWrite(c)
    \/ UpdateGet(c) \/ UpdateApply(c) \/ UpdateSnapshot(c) \/ UpdatePublish(c)
    \/ AppendGet(c) \/ AppendWrite(c)

Fairness ==
    /\ \A id \in Ids : WF_vars(GoIdle(id)) /\ WF_vars(InStore(id) \/ Finalize(id))
    /\ WF_vars(Sweep \/ Finalize(Sweeper))

FairSpec == Spec /\ Fairness

(***************************************************************************)
(* SweepPending: every entry leaves memory, whether or not its backend     *)
(* answers and although inserts may fail.                                  *)
(***************************************************************************)
PendingDrains == \A id \in Ids : id \in mem ~> id \notin mem
===============================================================================
