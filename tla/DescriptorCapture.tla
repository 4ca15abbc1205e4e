-------------------------- MODULE DescriptorCapture --------------------------
(***************************************************************************)
(* descriptors.py: AsyncDescriptorLayoutCapture and the publication of one *)
(* inventory by DescriptorLayoutCapture, for several captures (one in each *)
(* process) that share a directory.                                        *)
(*                                                                         *)
(* capture() and the entry of close() hold the condition's lock, so each   *)
(* is one action.  The writer publishes outside that lock, one system call *)
(* per action; each call may fail, and the process may die between two.    *)
(*                                                                         *)
(* Data abstraction: an inventory is the name of its file (rank,           *)
(* generation, direction and job), so submitting it twice, or to two       *)
(* captures, competes for one name.  Temporary names are random and never  *)
(* collide.  A file's content is only complete or not.                     *)
(***************************************************************************)
EXTENDS Integers, Sequences

CONSTANTS
  Capture, NoCapture,
  Inventory, NoInventory,
  MaxPending,   \* capacity of the queue
  MaxSubmits    \* bound of the model: capture() calls each capture accepts

ASSUME CaptureAssumption ==
  /\ NoCapture \notin Capture
  /\ NoInventory \notin Inventory
  /\ MaxPending \in Nat \ {0}
  /\ MaxSubmits \in Nat

VARIABLES
  queue,      \* capture -> inventories waiting
  closing,    \* capture -> _closing
  at,         \* capture -> where its writer is
  item,       \* capture -> the inventory being published
  published,  \* capture -> the link to the final name was made
  temporary,  \* capture -> its temporary file: "none", "partial", "complete"
  final,      \* directory: inventory -> who linked its file, and is it complete
  counts,     \* capture -> accepted, written, failed
  closer,     \* capture -> where its close() is
  written,    \* history: <<capture, inventory>> counted as written
  stuck       \* history: captures one of whose unlink() calls failed

admission == <<queue, closing, closer>>
publication == <<item, published, temporary, final>>
vars == <<admission, at, publication, counts, written, stuck>>

Absent == [by |-> NoCapture, complete |-> FALSE]

Init ==
  /\ queue = [c \in Capture |-> <<>>]
  /\ closing = [c \in Capture |-> FALSE]
  /\ at = [c \in Capture |-> "loop"]
  /\ item = [c \in Capture |-> NoInventory]
  /\ published = [c \in Capture |-> FALSE]
  /\ temporary = [c \in Capture |-> "none"]
  /\ final = [i \in Inventory |-> Absent]
  /\ counts = [c \in Capture |-> [accepted |-> 0, written |-> 0, failed |-> 0]]
  /\ closer = [c \in Capture |-> "idle"]
  /\ written = {}
  /\ stuck = {}

Goto(c, place) == at' = [at EXCEPT ![c] = place]

-----------------------------------------------------------------------------
(* capture(): refused when closing, invalid or full; those only count.     *)
\* Mutant of HasRoom: one inventory too many.
HasRoomLate(c) == Len(queue[c]) <= MaxPending

HasRoom(c) == Len(queue[c]) < MaxPending

\* notify(): a waiting writer tests its condition again.
Wake(c) == Goto(c, IF at[c] = "waiting" THEN "loop" ELSE at[c])

\* Mutant of NotifyClose: _closing is set without notify_all().
NoNotify(c) == UNCHANGED at

NotifyClose(c) == Wake(c)

Submit(c, i) ==
  /\ at[c] # "dead"
  /\ counts[c].accepted < MaxSubmits
  /\ ~closing[c]
  /\ HasRoom(c)
  /\ queue' = [queue EXCEPT ![c] = Append(@, i)]
  /\ counts' = [counts EXCEPT ![c].accepted = @ + 1]
  /\ Wake(c)
  /\ UNCHANGED <<closing, closer, publication, written, stuck>>

(* close() may be called again after it returned False.                    *)
CloseBegins(c) ==
  /\ at[c] # "dead"
  /\ closer[c] \in {"idle", "false"}
  /\ closing' = [closing EXCEPT ![c] = TRUE]
  /\ NotifyClose(c)
  /\ closer' = [closer EXCEPT ![c] = "joining"]
  /\ UNCHANGED <<queue, publication, counts, written, stuck>>

CloseReturns(c) ==
  /\ closer[c] = "joining" /\ at[c] # "dead"
  /\ closer' = [closer EXCEPT ![c] = IF at[c] = "exited" THEN "true" ELSE "false"]
  /\ UNCHANGED <<queue, closing, at, publication, counts, written, stuck>>

-----------------------------------------------------------------------------
(* _run                                                                    *)
\* Mutant of LeavesLoop: closing ends the loop at once.
LeavesWhenClosing(c) == closing[c]

LeavesLoop(c) == closing[c] /\ queue[c] = <<>>

Exit(c) ==
  /\ at[c] = "loop" /\ LeavesLoop(c)
  /\ Goto(c, "exited")
  /\ UNCHANGED <<admission, publication, counts, written, stuck>>

Wait(c) ==
  /\ at[c] = "loop" /\ queue[c] = <<>> /\ ~closing[c]
  /\ Goto(c, "waiting")
  /\ UNCHANGED <<admission, publication, counts, written, stuck>>

TakeItem(c) ==
  /\ at[c] = "loop" /\ ~LeavesLoop(c) /\ queue[c] # <<>>
  /\ item' = [item EXCEPT ![c] = Head(queue[c])]
  /\ queue' = [queue EXCEPT ![c] = Tail(@)]
  /\ Goto(c, "create")
  /\ UNCHANGED <<closing, closer, published, temporary, final, counts, written, stuck>>

(* _capture_locked                                                         *)
Create(c) ==
  /\ at[c] = "create"
  /\ temporary' = [temporary EXCEPT ![c] = "partial"]
  /\ Goto(c, "write")
  /\ UNCHANGED <<admission, item, published, final, counts, written, stuck>>

Write(c) ==
  /\ at[c] = "write"
  /\ temporary' = [temporary EXCEPT ![c] = "complete"]
  /\ Goto(c, "link")
  /\ UNCHANGED <<admission, item, published, final, counts, written, stuck>>

Link(c) ==
  /\ at[c] = "link"
  /\ final[item[c]] = Absent
  /\ final' = [final EXCEPT ![item[c]] =
                 [by |-> c, complete |-> temporary[c] = "complete"]]
  /\ published' = [published EXCEPT ![c] = TRUE]
  /\ Goto(c, "unlink")
  /\ UNCHANGED <<admission, item, temporary, counts, written, stuck>>

UnlinkTemporary(c) ==
  /\ at[c] = "unlink"
  /\ temporary' = [temporary EXCEPT ![c] = "none"]
  /\ Goto(c, "sync")
  /\ UNCHANGED <<admission, item, published, final, counts, written, stuck>>

SyncDirectory(c) ==
  /\ at[c] = "sync"
  /\ Goto(c, "written")
  /\ UNCHANGED <<admission, publication, counts, written, stuck>>

\* Mutants of AfterFailure: an incomplete file is published all the same; a
\* name that is taken is rolled back like an I/O error after the link.
PublishAnyway ==
  [create |-> "failed", write |-> "link", link |-> "cleanup",
   unlink |-> "rollback", sync |-> "rollback"]
RollbackConflict ==
  [create |-> "failed", write |-> "cleanup", link |-> "rollback",
   unlink |-> "rollback", sync |-> "rollback"]

\* Where a failed call leads: before the link the temporary file is removed,
\* after it the link is taken back first.
AfterFailure ==
  [create |-> "failed", write |-> "cleanup", link |-> "cleanup",
   unlink |-> "rollback", sync |-> "rollback"]

\* A system call fails.  "create" stands for the tests before it as well (the
\* directory moved, the record is too large), "write" for fsync() and close(),
\* and "link" fails in particular when the name is taken.
CallFails(c) ==
  /\ at[c] \in DOMAIN AfterFailure
  /\ Goto(c, AfterFailure[at[c]])
  /\ UNCHANGED <<admission, publication, counts, written, stuck>>

Rollback(c) ==
  /\ at[c] = "rollback"
  /\ final' = [final EXCEPT ![item[c]] = Absent]
  /\ Goto(c, "cleanup")
  /\ UNCHANGED <<admission, item, published, temporary, counts, written, stuck>>

RollbackFails(c) ==
  /\ at[c] = "rollback"
  /\ stuck' = stuck \cup {c}
  /\ Goto(c, "cleanup")
  /\ UNCHANGED <<admission, publication, counts, written>>

\* Mutant of Removed: the finally block forgets the temporary file.
NotRemoved(c) == temporary' = temporary

Removed(c) == temporary' = [temporary EXCEPT ![c] = "none"]

Cleanup(c) ==
  /\ at[c] = "cleanup"
  /\ Removed(c)
  /\ Goto(c, "failed")
  /\ UNCHANGED <<admission, item, published, final, counts, written, stuck>>

CleanupFails(c) ==
  /\ at[c] = "cleanup" /\ temporary[c] # "none"
  /\ stuck' = stuck \cup {c}
  /\ Goto(c, "failed")
  /\ UNCHANGED <<admission, publication, counts, written>>

\* The writer counts the result and reports it.
Settle(c) ==
  /\ at[c] \in {"written", "failed"}
  /\ counts' = IF at[c] = "written" THEN [counts EXCEPT ![c].written = @ + 1]
                                    ELSE [counts EXCEPT ![c].failed = @ + 1]
  /\ written' = IF at[c] = "written" THEN written \cup {<<c, item[c]>>} ELSE written
  /\ item' = [item EXCEPT ![c] = NoInventory]
  /\ published' = [published EXCEPT ![c] = FALSE]
  /\ Goto(c, "loop")
  /\ UNCHANGED <<admission, temporary, final, stuck>>

Crash(c) ==
  /\ at[c] \notin {"exited", "dead"}
  /\ Goto(c, "dead")
  /\ UNCHANGED <<admission, publication, counts, written, stuck>>

-----------------------------------------------------------------------------
Writer(c) ==
  \/ Exit(c) \/ Wait(c) \/ TakeItem(c)
  \/ Create(c) \/ Write(c) \/ Link(c) \/ UnlinkTemporary(c) \/ SyncDirectory(c)
  \/ CallFails(c)
  \/ Rollback(c) \/ RollbackFails(c)
  \/ Cleanup(c) \/ CleanupFails(c)
  \/ Settle(c)

Next ==
  \E c \in Capture :
    \/ \E i \in Inventory : Submit(c, i)
    \/ CloseBegins(c) \/ CloseReturns(c)
    \/ Writer(c)
    \/ Crash(c)

\* A live writer thread keeps running and its system calls return.
Fairness == \A c \in Capture : WF_vars(Writer(c))

Spec == Init /\ [][Next]_vars /\ Fairness

-----------------------------------------------------------------------------
Publishing == {"create", "write", "link", "unlink", "sync", "rollback", "cleanup",
               "written", "failed"}
Place == Publishing \cup {"loop", "waiting", "exited", "dead"}

\* The queue is bounded and the writer's variables follow its place.
TypeOK ==
  /\ queue \in [Capture -> Seq(Inventory)]
  /\ \A c \in Capture : Len(queue[c]) <= MaxPending
  /\ closing \in [Capture -> BOOLEAN]
  /\ at \in [Capture -> Place]
  /\ item \in [Capture -> Inventory \cup {NoInventory}]
  /\ temporary \in [Capture -> {"none", "partial", "complete"}]
  /\ final \in [Inventory -> [by : Capture \cup {NoCapture}, complete : BOOLEAN]]
  /\ closer \in [Capture -> {"idle", "joining", "true", "false"}]

\* A final name never shows an incomplete file, whichever call fails and
\* wherever the process dies.
FinalComplete == \A i \in Inventory : final[i] # Absent => final[i].complete

\* An inventory counted as written stays published as that capture wrote it: no
\* conflict, rollback or crash of another capture replaces or removes it.
WrittenStays == \A w \in written : final[w[2]] = [by |-> w[1], complete |-> TRUE]

\* What a failed publication leaves in the directory is explained by a failed
\* unlink or a death: a live writer between inventories has no temporary file,
\* and every published file but a written one is somebody's work in progress.
LeftoversExplained ==
  /\ \A c \in Capture \ stuck :
       at[c] \in {"loop", "waiting", "exited"} => temporary[c] = "none"
  /\ \A i \in Inventory : LET c == final[i].by IN
       c \in Capture \ stuck /\ at[c] # "dead" =>
         <<c, i>> \in written \/ (item[c] = i /\ published[c])

InFlight(c) == IF item[c] = NoInventory THEN 0 ELSE 1

\* close() returns True only when every accepted inventory has been published
\* or counted as failed, and the accepted ones are never lost from the counts.
Drained ==
  \A c \in Capture :
    /\ counts[c].accepted =
         counts[c].written + counts[c].failed + InFlight(c) + Len(queue[c])
    /\ closer[c] = "true" => counts[c].accepted = counts[c].written + counts[c].failed

\* After close() the writer drains and exits, unless the process dies first.
CloseEnds == \A c \in Capture : closing[c] ~> (at[c] \in {"exited", "dead"})
=============================================================================
