------------------------------- MODULE LogStorage -------------------------------
(***************************************************************************)
(* The log: a ring of the last N messages (static_ring_buffer in           *)
(* src/include/static_types.h, log_storage in src/include/log_storage.h).  *)
(* Every task writes into it and web server and console print it, and      *)
(* nobody takes a lock.  A push is a sequence of loads and stores of the   *)
(* ring's two indices and flag, then the entry is filled in.               *)
(***************************************************************************)
EXTENDS Naturals, Sequences

CONSTANTS
  Tasks,      \* the tasks that log
  Severities, \* log_severity
  N,          \* MAX_LOGS
  MaxPushes   \* bound on the number of messages

ASSUME SizesAssumption ==
  N \in Nat \ {0} /\ Severities \subseteq Nat /\ 0 \in Severities /\ MaxPushes \in Nat

VARIABLES
  storage, cur_start, cur_write, full,  \* static_ring_buffer
  cur_severity,                         \* what is logged at all
  task,    \* the push each task is in: the statement, the slot it found in
           \* cur_write, the cur_start it found, and what it logs
  reader,  \* the walk: the statement, its iterators, and the entries seen
  \* history
  said,    \* the severities of all messages; a message is its number
  alone,   \* no two pushes overlapped so far
  quiet    \* no push was going on since the walk began

ring == <<storage, cur_start, cur_write, full>>
vars == <<ring, cur_severity, task, reader, said, alone, quiet>>

Index == 0 .. N - 1
Entry == [severity : Severities, message : 0 .. MaxPushes]
next(i) == (i + 1) % N
Busy == {t \in Tasks : task[t].at # "idle"}
At(t, here) == task[t].at = here
Pushing ==
  [at : {"idle", "test", "start", "write", "full", "severity", "message"},
   slot : Index, start : Index, severity : Severities, message : 0 .. MaxPushes]
NoPush == [at |-> "idle", slot |-> 0, start |-> 0, severity |-> 0, message |-> 0]
Goto(t, there) == task' = [task EXCEPT ![t].at = there]

-------------------------------------------------------------------------------
(* A push.  cur_write and cur_start are used several times; a value that    *)
(* was loaded may be used again or loaded again.                            *)

Push(t, severity) ==
  /\ At(t, "idle")
  /\ severity >= cur_severity
  /\ Len(said) < MaxPushes
  /\ task' = [task EXCEPT ![t] =
       [at |-> "test", slot |-> cur_write, start |-> 0,
        severity |-> severity, message |-> Len(said) + 1]]
  /\ said' = Append(said, severity)
  /\ alone' = (alone /\ Busy = {})
  /\ quiet' = FALSE
  /\ UNCHANGED <<ring, cur_severity, reader>>

Test(t) ==
  /\ At(t, "test")
  /\ \E w \in {task[t].slot, cur_write} :
       task' = [task EXCEPT ![t] =
         [@ EXCEPT !.start = cur_start,
                   !.at = IF cur_start = w /\ full THEN "start" ELSE "write"]]
  /\ UNCHANGED <<ring, cur_severity, reader, said, alone, quiet>>

(* Fault: the oldest entry is kept. *)
StoreStart_Keep(t) ==
  /\ At(t, "start") /\ Goto(t, "write")
  /\ UNCHANGED <<ring, cur_severity, reader, said, alone, quiet>>

StoreStart(t) ==
  /\ At(t, "start")
  /\ cur_start' = next(task[t].start)
  /\ task' = [task EXCEPT ![t] = [@ EXCEPT !.start = cur_start', !.at = "write"]]
  /\ UNCHANGED <<storage, cur_write, full, cur_severity, reader, said, alone, quiet>>

StoreWrite(t) ==
  /\ At(t, "write") /\ Goto(t, "full")
  /\ \E w \in {task[t].slot, cur_write} : cur_write' = next(w)
  /\ UNCHANGED <<storage, cur_start, full, cur_severity, reader, said, alone, quiet>>

StoreFull(t) ==
  /\ At(t, "full")
  /\ task' = [task EXCEPT ![t] = [@ EXCEPT !.start = 0, !.at = "severity"]]
  /\ \E s \in {task[t].start, cur_start}, w \in {next(task[t].slot), cur_write} :
       full' = (s = w)
  /\ UNCHANGED <<storage, cur_start, cur_write, cur_severity, reader, said, alone, quiet>>

SetSeverity(t) ==
  /\ At(t, "severity") /\ Goto(t, "message")
  /\ storage' = [storage EXCEPT ![task[t].slot].severity = task[t].severity]
  /\ UNCHANGED <<cur_start, cur_write, full, cur_severity, reader, said, alone, quiet>>

SetMessage(t) ==
  /\ At(t, "message")
  /\ task' = [task EXCEPT ![t] = NoPush]
  /\ storage' = [storage EXCEPT ![task[t].slot].message = task[t].message]
  /\ UNCHANGED <<cur_start, cur_write, full, cur_severity, reader, said, alone, quiet>>

(* PUT /set_log_level and the command of the console. *)
SetLevel ==
  /\ cur_severity' \in Severities \ {cur_severity}
  /\ UNCHANGED <<ring, task, reader, said, alone, quiet>>

-------------------------------------------------------------------------------
(* The walk of print_errors and of the console; its iterators mean nothing  *)
(* when it is done.                                                         *)

Begin ==
  /\ reader.at = "done"
  /\ reader' = [at |-> "end", cur |-> cur_start, stop |-> 0, first |-> TRUE, seen |-> <<>>]
  /\ quiet' = (Busy = {})
  /\ UNCHANGED <<ring, cur_severity, task, said, alone>>

End ==
  /\ reader.at = "end"
  /\ reader' = [reader EXCEPT !.stop = cur_write, !.at = "visit"]
  /\ UNCHANGED <<ring, cur_severity, task, said, alone, quiet>>

(* Fault: the iterator never forgets that it is at the beginning. *)
AtEnd_Start == ~full /\ reader.cur = reader.stop

(* Begin and end of a full ring are the same index. *)
AtEnd == (~full \/ ~reader.first) /\ reader.cur = reader.stop

Visit ==
  /\ reader.at = "visit" /\ ~AtEnd
  /\ reader' = [reader EXCEPT !.seen = Append(@, storage[reader.cur]),
                              !.cur = next(@), !.first = FALSE]
  /\ UNCHANGED <<ring, cur_severity, task, said, alone, quiet>>

Finish ==
  /\ reader.at = "visit" /\ AtEnd
  /\ reader' = [reader EXCEPT !.at = "done", !.cur = 0, !.stop = 0, !.first = TRUE]
  /\ UNCHANGED <<ring, cur_severity, task, said, alone, quiet>>

Init ==
  /\ storage = [i \in Index |-> [severity |-> 0, message |-> 0]]
  /\ cur_start = 0 /\ cur_write = 0 /\ full = FALSE
  /\ cur_severity = 0
  /\ task = [t \in Tasks |-> NoPush]
  /\ reader = [at |-> "done", cur |-> 0, stop |-> 0, first |-> TRUE, seen |-> <<>>]
  /\ said = <<>> /\ alone = TRUE /\ quiet = FALSE

Next ==
  \/ \E t \in Tasks :
       \/ \E severity \in Severities : Push(t, severity)
       \/ Test(t) \/ StoreStart(t) \/ StoreWrite(t) \/ StoreFull(t)
       \/ SetSeverity(t) \/ SetMessage(t)
  \/ SetLevel
  \/ Begin \/ End \/ Visit \/ Finish

Spec == Init /\ [][Next]_vars

-------------------------------------------------------------------------------
(* Properties.                                                              *)

(* The last N messages, oldest first, each under its severity. *)
Latest ==
  LET count == IF Len(said) < N THEN Len(said) ELSE N
      old == Len(said) - count
  IN [k \in 1 .. count |-> [severity |-> said[old + k], message |-> old + k]]

(* What is printed while nobody logs are the last N messages in their       *)
(* order, as long as the tasks never logged at the same time: start, write  *)
(* and flag tell a full ring from an empty one, and the walk's flag tells   *)
(* its begin from its end (static_types.h:112 to 130).                      *)
ReadsLatest ==
  reader.at = "done" /\ alone /\ quiet => reader.seen = Latest

(* However the pushes overlap each other and the walk, it comes to its end: *)
(* no entry is printed twice, and no more than fit into the response        *)
(* (static_types.h:130, log_storage.h:7).                                   *)
WalkEnds == Len(reader.seen) <= N

(* Every variable has a value of its type: whatever overlaps, all indices   *)
(* are in the ring.                                                         *)
TypeOK ==
  /\ storage \in [Index -> Entry]
  /\ cur_start \in Index /\ cur_write \in Index /\ full \in BOOLEAN
  /\ cur_severity \in Severities
  /\ task \in [Tasks -> Pushing]
  /\ reader \in [at : {"end", "visit", "done"}, cur : Index, stop : Index,
                 first : BOOLEAN, seen : Seq(Entry)]
  /\ said \in Seq(Severities) /\ Len(said) <= MaxPushes
  /\ alone \in BOOLEAN /\ quiet \in BOOLEAN
===============================================================================
