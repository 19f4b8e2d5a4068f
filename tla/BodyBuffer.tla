------------------------------ MODULE BodyBuffer ------------------------------
(***************************************************************************)
(* The body buffer of internal/store/blobs.go: one side (request or        *)
(* response) of an exchange accumulates in memory and moves to a file once *)
(* it outgrows the inline threshold.                                       *)
(*                                                                         *)
(* Bodies are abstracted to their lengths.  A buffer's file is abstracted  *)
(* to the length found under the buffer's name in the blobs directory,     *)
(* NoFile when there is none.  An open handle whose file was unlinked is   *)
(* file = TRUE with length NoFile: what is written to it is seen by        *)
(* nobody.                                                                 *)
(***************************************************************************)
EXTENDS Integers

CONSTANT MaxInline      \* Options.MaxInlineBodySize, in bytes

ASSUME MaxInlineAssumption == MaxInline \in Nat \ {0}

NoFile == -1

FileLen == Nat \cup {NoFile}

(***************************************************************************)
(* preview is the length of the bytes kept in memory, size the number of   *)
(* bytes accepted, path whether the body was given a file name, file       *)
(* whether a handle is open, err the sticky error of a failed write.       *)
(***************************************************************************)
Buffer == [preview : Nat, size : Nat, path : BOOLEAN, file : BOOLEAN, err : BOOLEAN]

EmptyBuffer == [preview |-> 0, size |-> 0, path |-> FALSE, file |-> FALSE, err |-> FALSE]

Least(m, n) == IF m <= n THEN m ELSE n

\* A write that stays in memory.
Inline(b, n) == ~b.file /\ b.size + n <= MaxInline

\* Mutant: the preview is not cut at the threshold.
AcceptUncut(b, n) == [b EXCEPT !.size = b.size + n, !.preview = b.preview + n]

Accept(b, n) ==
    [b EXCEPT !.size = b.size + n, !.preview = Least(b.preview + n, MaxInline)]

\* The buffer has a file, open and named.
OnDisk(b) == [b EXCEPT !.path = TRUE, !.file = TRUE]

\* The error of a failed write sticks.
Failed(b) == [b EXCEPT !.err = TRUE]

\* Mutant: the file does not start with the preview.
SpilledBare(b, len) == IF b.file THEN len ELSE 0

\* os.Create truncates whatever the name held; the preview is written first.
Spilled(b, len) == IF b.file THEN len ELSE b.preview

\* Bytes appended through the handle, lost when the name was unlinked.
Extend(len, n) == IF len = NoFile THEN NoFile ELSE len + n

(***************************************************************************)
(* bodyBuffer.Write of n bytes when no system call fails: the buffer and   *)
(* the file length afterwards, and whether the call reports success.       *)
(***************************************************************************)
Write(b, len, n) ==
    IF n = 0 \/ b.err
    THEN [buf |-> b, len |-> len, ok |-> n = 0]
    ELSE IF Inline(b, n)
    THEN [buf |-> Accept(b, n), len |-> len, ok |-> TRUE]
    ELSE [buf |-> OnDisk(Accept(b, n)),
          len |-> Extend(Spilled(b, len), n),
          ok  |-> TRUE]

(***************************************************************************)
(* The outcomes of the same call when a system call fails: os.Create, the  *)
(* write of the preview (possibly short; the handle is closed and the name *)
(* forgotten, the file stays) or the write of the bytes (possibly short).  *)
(***************************************************************************)
WriteFailures(b, len, n) ==
    IF n = 0 \/ b.err \/ Inline(b, n)
    THEN {}
    ELSE {[buf |-> Failed(b), len |-> l, ok |-> FALSE] :
             l \in IF b.file THEN {} ELSE {len} \cup 0 .. b.preview}
         \cup
         {[buf |-> OnDisk(Failed(b)),
           len |-> Extend(Spilled(b, len), k),
           ok  |-> FALSE] : k \in 0 .. n - 1}

\* bodyBuffer.Close: sync and close the handle; the name is kept.
Close(b) == [b EXCEPT !.file = FALSE]

\* bodyBuffer.state, without the bytes.
State(b) == [path |-> b.path, size |-> b.size]

(***************************************************************************)
(* What every reachable buffer satisfies: the memory copy is the head of   *)
(* the accepted bytes, cut at the inline threshold, and a body that was    *)
(* never given a file is held in memory whole, so a row written without a  *)
(* path carries the entire body.                                           *)
(***************************************************************************)
HeadKept(b) ==
    /\ b.preview = Least(b.size, MaxInline)
    /\ ~b.path => b.preview = b.size
    /\ b.file => b.path
===============================================================================
