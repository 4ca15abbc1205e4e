-------------------------- MODULE SharedEventFile --------------------------
(***************************************************************************)
(* events.py: _open_descriptor, _write_record and _write_all, one system   *)
(* call per action, for several sinks that append to the same file (one in *)
(* each process of a deployment).  The records come from each sink's       *)
(* queue (EventSink); here a sink may start a record whenever it is idle.  *)
(*                                                                         *)
(* The file is a sequence of cells.  A record is one to MaxRecordCells     *)
(* cells, the last of which holds its newline; os.write appends some cells *)
(* or fails, and every other system call may fail too.  A process may die  *)
(* between any two calls, which closes its descriptor.                     *)
(*                                                                         *)
(* A flock belongs to the opened file: unlocking it anywhere releases it,  *)
(* closing releases it only once a forked child has closed its copy too,   *)
(* which the plugin's hook does.                                           *)
(***************************************************************************)
EXTENDS Integers, Sequences, FiniteSets

CONSTANTS
  Sink,
  NoSink,
  MaxRecordCells,  \* max_record_bytes
  MaxFileCells,    \* max_file_bytes
  MaxWrites,       \* bounds of the model: records each sink starts,
  MaxForks         \* and forks of their processes

ASSUME FileAssumption ==
  /\ NoSink \notin Sink
  /\ MaxRecordCells \in Nat \ {0}
  /\ MaxFileCells \in Nat /\ MaxFileCells >= MaxRecordCells
  /\ MaxWrites \in Nat
  /\ MaxForks \in Nat

VARIABLES
  file,      \* cells: [sink, number, last]
  lock,      \* the sink that holds the flock, or NoSink
  at,        \* where each sink is in _write_record
  number,    \* number of the record each sink is writing
  left,      \* cells of it still to write
  start,     \* start_size
  result,    \* what the call will return or raise
  opened,    \* _file_descriptor is not None
  copied,    \* sinks whose opened file a forked child has a copy of
  forks,     \* history: forks so far
  written,   \* history: records counted as written, as <<sink, number>>
  torn       \* history: a fragment was left in the file

local == <<number, left, start, result>>
children == <<copied, forks>>
vars == <<file, lock, at, local, opened, children, written, torn>>

Init ==
  /\ file = <<>>
  /\ lock = NoSink
  /\ at = [s \in Sink |-> "idle"]
  /\ number = [s \in Sink |-> 0]
  /\ left = [s \in Sink |-> 0]
  /\ start = [s \in Sink |-> 0]
  /\ result = [s \in Sink |-> "none"]
  /\ opened = [s \in Sink |-> FALSE]
  /\ copied = {}
  /\ forks = 0
  /\ written = {}
  /\ torn = FALSE

Goto(s, place) == at' = [at EXCEPT ![s] = place]
Returns(s, what) == result' = [result EXCEPT ![s] = what]

\* The places where s holds the lock; elsewhere a lock of s is kept by a copy.
Locked == {"check", "write", "rollback", "unlock"}

\* os.close: a copy matters from then on only if it keeps the lock.
Closes(s) ==
  /\ opened' = [opened EXCEPT ![s] = FALSE]
  /\ copied' = IF lock = s THEN copied ELSE copied \ {s}

ClosesLocked(s) ==
  /\ Closes(s)
  /\ lock' = IF lock = s /\ s \notin copied THEN NoSink ELSE lock

-----------------------------------------------------------------------------
Begin(s, cells) ==
  /\ at[s] = "idle"
  /\ number[s] < MaxWrites
  /\ number' = [number EXCEPT ![s] = @ + 1]
  /\ left' = [left EXCEPT ![s] = cells]
  /\ Goto(s, IF opened[s] THEN "lock" ELSE "open")
  /\ UNCHANGED <<file, lock, start, result, opened, children, written, torn>>

\* os.open, the regular-file test and the assignment to _file_descriptor in one
\* step.  When the fstat between them fails the code drops the descriptor
\* without closing it; it has no lock yet, and here it counts as never opened.
Open(s) ==
  /\ at[s] = "open"
  /\ opened' = [opened EXCEPT ![s] = TRUE]
  /\ Goto(s, "lock")
  /\ UNCHANGED <<file, lock, local, children, written, torn>>

\* Mutant of Lockable: no locking (fcntl is None).
AlwaysLockable == TRUE

Lockable == lock = NoSink

Lock(s) ==
  /\ at[s] = "lock"
  /\ Lockable
  /\ lock' = s
  /\ Goto(s, "check")
  /\ UNCHANGED <<file, local, opened, children, written, torn>>

\* An error before the lock is held: the descriptor, if any, is closed.
FailsUnlocked(s) ==
  /\ at[s] \in {"open", "lock"}
  /\ Closes(s)
  /\ Goto(s, "idle")
  /\ UNCHANGED <<file, lock, local, forks, written, torn>>

\* Mutant of Fits: a record may end one cell past the limit.
FitsLate(s) == Len(file) + left[s] <= MaxFileCells + 1

Fits(s) == Len(file) + left[s] <= MaxFileCells

Check(s) ==
  /\ at[s] = "check"
  /\ start' = [start EXCEPT ![s] = Len(file)]
  /\ IF Fits(s)
       THEN Goto(s, "write") /\ UNCHANGED result
       ELSE Goto(s, "unlock") /\ Returns(s, "capacity")
  /\ UNCHANGED <<file, lock, number, left, opened, children, written, torn>>

Cell(s) == [sink |-> s, number |-> number[s], last |-> left[s] = 1]

\* os.write appends a part of what is left; _write_all calls it again for the
\* rest.
Write(s) ==
  /\ at[s] = "write"
  /\ file' = Append(file, Cell(s))
  /\ left' = [left EXCEPT ![s] = @ - 1]
  /\ IF left[s] = 1
       THEN Goto(s, "unlock") /\ Returns(s, "written")
       ELSE UNCHANGED <<at, result>>
  /\ UNCHANGED <<lock, number, start, opened, children, written, torn>>

\* Mutant of AfterError: no rollback.
SkipRollback == [check |-> "unlock", write |-> "unlock"]

AfterError == [check |-> "unlock", write |-> "rollback"]

\* An error while the lock is held.
FailsLocked(s) ==
  /\ at[s] \in DOMAIN AfterError
  /\ Goto(s, AfterError[at[s]])
  /\ Returns(s, "error")
  /\ UNCHANGED <<file, lock, number, left, start, opened, children, written, torn>>

Rollback(s) ==
  /\ at[s] = "rollback"
  /\ file' = SubSeq(file, 1, start[s])
  /\ Goto(s, "unlock")
  /\ UNCHANGED <<lock, local, opened, children, written, torn>>

\* ftruncate failed and the failure is suppressed.
RollbackFails(s) ==
  /\ at[s] = "rollback"
  /\ torn' = (torn \/ Len(file) > start[s])
  /\ Goto(s, "unlock")
  /\ UNCHANGED <<file, lock, local, opened, children, written>>

Unlock(s) ==
  /\ at[s] = "unlock"
  /\ lock' = NoSink
  /\ IF result[s] = "error"
       THEN opened' = [opened EXCEPT ![s] = FALSE] /\ copied' = copied \ {s}
       ELSE UNCHANGED <<opened, copied>>
  /\ written' = IF result[s] = "written"
                  THEN written \cup {<<s, number[s]>>} ELSE written
  /\ Goto(s, "idle")
  /\ UNCHANGED <<file, local, forks, torn>>

\* LOCK_UN failed: counted as an I/O error whatever happened before; closing
\* the descriptor frees the lock, unless a child has a copy.
UnlockFails(s) ==
  /\ at[s] = "unlock"
  /\ ClosesLocked(s)
  /\ Goto(s, "idle")
  /\ UNCHANGED <<file, local, forks, written, torn>>

Midway(s) == at[s] \in {"write", "rollback"} /\ Len(file) > start[s]

Crash(s) ==
  /\ at[s] # "dead"
  /\ torn' = (torn \/ Midway(s))
  /\ ClosesLocked(s)
  /\ Goto(s, "dead")
  /\ UNCHANGED <<file, local, forks, written>>

Fork(s) ==
  /\ forks < MaxForks
  /\ opened[s] /\ s \notin copied
  /\ copied' = copied \cup {s}
  /\ forks' = forks + 1
  /\ UNCHANGED <<file, lock, at, local, opened, written, torn>>

\* Mutant of Abandon: the child's copies stay open.
AbandonNothing(s) == UNCHANGED <<copied, lock>>

\* _abandon_after_fork in the child: closing the last copy of an opened file
\* that is locked releases the lock.
Abandon(s) ==
  /\ copied' = copied \ {s}
  /\ lock' = IF lock = s /\ at[s] \notin Locked THEN NoSink ELSE lock

AfterFork(s) ==
  /\ s \in copied
  /\ Abandon(s)
  /\ UNCHANGED <<file, at, local, opened, forks, written, torn>>

-----------------------------------------------------------------------------
Step(s) ==
  \/ Open(s) \/ Lock(s) \/ FailsUnlocked(s)
  \/ Check(s) \/ Write(s) \/ FailsLocked(s)
  \/ Rollback(s) \/ RollbackFails(s)
  \/ Unlock(s) \/ UnlockFails(s)

Next ==
  \E s \in Sink :
    \/ \E cells \in 1 .. MaxRecordCells : Begin(s, cells)
    \/ Step(s)
    \/ Crash(s)
    \/ Fork(s)
    \/ AfterFork(s)

\* A writer that is inside _write_record goes on: its system calls return.  A
\* forked child runs its hook (and the hook knows the adapter: PluginFork).
Fairness == \A s \in Sink : WF_vars(Step(s)) /\ WF_vars(AfterFork(s))

Spec == Init /\ [][Next]_vars /\ Fairness

-----------------------------------------------------------------------------
Place == {"idle", "open", "lock", "check", "write", "rollback", "unlock", "dead"}

\* The variables of each _write_record call and the file have the right shape.
TypeOK ==
  /\ file \in Seq([sink : Sink, number : 1 .. MaxWrites, last : BOOLEAN])
  /\ lock \in Sink \cup {NoSink}
  /\ at \in [Sink -> Place]
  /\ number \in [Sink -> 0 .. MaxWrites]
  /\ left \in [Sink -> 0 .. MaxRecordCells]
  /\ start \in [Sink -> 0 .. MaxFileCells]
  /\ result \in [Sink -> {"none", "written", "capacity", "error"}]
  /\ opened \in [Sink -> BOOLEAN]
  /\ copied \subseteq Sink /\ forks \in 0 .. MaxForks
  /\ written \subseteq Sink \X (1 .. MaxWrites)
  /\ torn \in BOOLEAN

\* max_file_bytes bounds the file however many processes append to it: the size
\* is read and the record written under one lock.
FileBounded == Len(file) <= MaxFileCells

CellsOf(s, n) == {k \in DOMAIN file : file[k].sink = s /\ file[k].number = n}

\* A record counted as written is in the file, once, in one piece that ends
\* with its newline: no other process wrote or truncated in between, then or
\* later.
WrittenIntact ==
  \A w \in written : \E m \in DOMAIN file : \E k \in 1 .. m :
    /\ CellsOf(w[1], w[2]) = k .. m
    /\ \A c \in k .. m : file[c].last = (c = m)

\* Unless a rollback failed or a process died in the middle of a record, each
\* written record is a line of its own: the cell before it ends a line.
LinesSeparate ==
  ~torn =>
    \A w \in written : \A k \in CellsOf(w[1], w[2]) :
      k = 1 \/ file[k - 1].last \/ k - 1 \in CellsOf(w[1], w[2])

\* The lock is not kept: errors, crashes and full files all release it, also when
\* the process was forked with the lock held and then died or failed to unlock.
LockFreed == \A s \in Sink : (lock = s) ~> (lock # s)
=============================================================================
