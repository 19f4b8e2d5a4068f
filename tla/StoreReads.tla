------------------------------ MODULE StoreReads ------------------------------
(***************************************************************************)
(* The reading half of internal/store: Get, List and Body, called by the   *)
(* handlers of internal/web while the calls of Store run.  A read takes    *)
(* no lock across its steps: the memory lookup, the SQL query, the opening *)
(* of a file and the copy of it are separate actions, and getBody looks    *)
(* the entry up twice.  One reader, one read at a time.                    *)
(***************************************************************************)
EXTENDS Store

VARIABLES
    rpc,        \* where the reader stands
    ask,        \* the read under way: its operation, id and side
    size,       \* Body: the size the entry states
    handle,     \* getBody: length of the opened file
    listed,     \* List: the ids the database returned
    due,        \* ids stored when the read began: it owes an answer for them
    answer      \* the last answer given

reader == <<rpc, ask, size, handle, listed, due, answer>>

(***************************************************************************)
(* "get" is the handler getRequest; "raw" is getBody in its first lookup   *)
(* and "body" from its second on; "list" is listRequests.                  *)
(***************************************************************************)
Ops == {"none", "get", "raw", "body", "list"}

NoAsk == [op |-> "none", id |-> Sweeper, side |-> "req"]

(***************************************************************************)
(* res is the status Get found, "missing" for the answer 404, "failed" for *)
(* 500 or "copied"; size is the Content-Length, len the bytes at hand.     *)
(* ids are the ids List returned, twice those it returned twice.           *)
(***************************************************************************)
Answer == [op : Ops, id : Calls,
           res : Status \cup {"none", "missing", "failed", "copied", "listed"},
           size : Nat, len : FileLen, ids : SUBSET Ids, twice : SUBSET Ids]

NoAnswer == [op |-> "none", id |-> Sweeper, res |-> "none",
             size |-> 0, len |-> 0, ids |-> {}, twice |-> {}]

ReadsInit ==
    /\ Init
    /\ rpc = "idle" /\ ask = NoAsk /\ size = 0 /\ handle = 0 /\ listed = {} /\ due = {}
    /\ answer = NoAnswer

-------------------------------------------------------------------------------
\* A handler is called; the last answer is forgotten.
Ask(op, id, s) ==
    /\ up /\ rpc = "idle"
    /\ ask' = [op |-> op, id |-> id, side |-> s]
    /\ due' = {i \in Ids : status[i] # "absent" /\ i \notin gone}
    /\ rpc' = IF op = "list" THEN "list_db" ELSE "get_mem"
    /\ answer' = NoAnswer
    /\ UNCHANGED <<size, handle, listed, vars>>

Reply(a) ==
    /\ answer' = a
    /\ rpc' = "idle" /\ ask' = NoAsk /\ size' = 0 /\ handle' = 0 /\ listed' = {}

(***************************************************************************)
(* The entry was found: getRequest returns it, getBody calls Body, which   *)
(* looks it up again and opens the file it names or serves the inline copy *)
(* of that snapshot.                                                       *)
(***************************************************************************)
Found(r) ==
    LET body == r.body[ask.side]
        a    == [NoAnswer EXCEPT !.op = ask.op, !.id = ask.id]
    IN \/ /\ ask.op = "get"
          /\ Reply([a EXCEPT !.res = r.status])
       \/ /\ ask.op = "raw"
          /\ ask' = [ask EXCEPT !.op = "body"] /\ rpc' = "get_mem"
          /\ UNCHANGED <<size, handle, listed, answer>>
       \/ /\ ask.op = "body" /\ ~body.path
          /\ Reply([a EXCEPT !.res = "copied", !.size = body.size, !.len = body.size])
       \/ /\ ask.op = "body" /\ body.path
          /\ rpc' = "body_open" /\ size' = body.size
          /\ UNCHANGED <<ask, handle, listed, answer>>

\* Get: memory first.
GetMem ==
    /\ up /\ rpc = "get_mem"
    /\ \/ ask.id \in mem /\ Found(Snapshot(ask.id))
       \/ ask.id \notin mem /\ rpc' = "get_db" /\ UNCHANGED <<ask, size, handle, listed, answer>>
    /\ UNCHANGED <<due, vars>>

\* Get: then the database.
GetDB ==
    /\ up /\ rpc = "get_db"
    /\ \/ ask.id \in rows /\ Found(row[ask.id])
       \/ /\ ask.id \notin rows
          /\ Reply([NoAnswer EXCEPT !.op = ask.op, !.id = ask.id,
                                    !.res = IF ask.op = "body" THEN "failed" ELSE "missing"])
    /\ UNCHANGED <<due, vars>>

\* Body: os.Open of the path the entry named.
BodyOpen ==
    /\ up /\ rpc = "body_open"
    /\ LET len == blob[ask.id][ask.side] IN
       \/ /\ len = NoFile
          /\ Reply([NoAnswer EXCEPT !.op = "body", !.id = ask.id, !.res = "failed"])
       \/ /\ len # NoFile
          /\ handle' = len /\ rpc' = "body_copy"
          /\ UNCHANGED <<ask, size, listed, answer>>
    /\ UNCHANGED <<due, vars>>

(***************************************************************************)
(* getBody: io.Copy of the file as it is by now behind a Content-Length of *)
(* the size stated before.  A file that was unlinked stays readable.       *)
(***************************************************************************)
BodyCopy ==
    /\ up /\ rpc = "body_copy"
    /\ LET now == blob[ask.id][ask.side] IN
       Reply([NoAnswer EXCEPT !.op = "body", !.id = ask.id, !.res = "copied", !.size = size,
                              !.len = IF now = NoFile THEN handle ELSE now])
    /\ UNCHANGED <<due, vars>>

\* List: the database first, then memory, the two concatenated and sorted.
ListDB ==
    /\ up /\ rpc = "list_db"
    /\ listed' = rows
    /\ rpc' = "list_mem"
    /\ UNCHANGED <<ask, size, handle, due, answer, vars>>

ListMem ==
    /\ up /\ rpc = "list_mem"
    /\ Reply([NoAnswer EXCEPT !.op = "list", !.res = "listed",
                              !.ids = mem \cup listed, !.twice = mem \cap listed])
    /\ UNCHANGED <<due, vars>>

\* A process stop takes the reader with it.
Lost ==
    /\ Crash
    /\ rpc' = "idle" /\ ask' = NoAsk /\ size' = 0 /\ handle' = 0 /\ listed' = {} /\ due' = {}
    /\ answer' = NoAnswer

ReadsNext ==
    \/ \E id \in Ids : Ask("get", id, "req")
    \/ \E id \in Ids, s \in Sides : Ask("raw", id, s)
    \/ Ask("list", Sweeper, "req")
    \/ GetMem \/ GetDB \/ BodyOpen \/ BodyCopy \/ ListDB \/ ListMem
    \/ Lost
    \/ Next /\ up' = up /\ UNCHANGED reader
    \/ Restart /\ UNCHANGED reader

ReadsSpec == ReadsInit /\ [][ReadsNext]_<<vars, reader>>

-------------------------------------------------------------------------------
(***************************************************************************)
(* Get looks in memory and then in the database, while Finalize moves the  *)
(* entry the other way: it never misses an entry that was stored when it   *)
(* began and was not removed meanwhile.                                    *)
(***************************************************************************)
GetFinds ==
    answer.op = "get" /\ answer.res = "missing" => answer.id \notin due \ gone

(***************************************************************************)
(* getBody serves what it announces: the raw body of an entry that was     *)
(* stored when it was asked for and was not removed is found by both       *)
(* lookups, can be opened, and fills its Content-Length, although the      *)
(* response streams into the file or moves to the database meanwhile.      *)
(* While no exchange outlives the pending timeout and nobody clears.       *)
(***************************************************************************)
BodyServed ==
    answer.op \in {"raw", "body"} /\ answer.id \in due \ gone =>
        answer.res = "copied" /\ answer.len >= answer.size

(***************************************************************************)
(* List returns every entry that was stored when it began and still is,    *)
(* once, wherever the entry is when its two halves are read.               *)
(***************************************************************************)
ListExact ==
    answer.op = "list" => due \ gone \subseteq answer.ids /\ answer.twice = {}
===============================================================================
