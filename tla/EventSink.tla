----------------------------- MODULE EventSink -----------------------------
(***************************************************************************)
(* events.py: JsonlKVTransferEventSink, an enabled sink and its writer     *)
(* thread.                                                                 *)
(*                                                                         *)
(* Threads: any number of callers of emit(), the callers of close() in     *)
(* Closer, the callers of flush() in Flusher, and the writer.  emit() and  *)
(* the first half of close() hold _state_lock, so each is one action; the  *)
(* writer and flush() read the queue and the stop event without it, one    *)
(* read per action.  The names Sink... and Queue... leave room for         *)
(* SharedEventFile, which is proved about in the same module.              *)
(*                                                                         *)
(* Data abstraction: a record is its number in the order of acceptance.    *)
(* What _write_record does to the shared file is abstracted to its three   *)
(* results; another process may have filled the file, and any system call  *)
(* may fail, so each result is possible for each record.                   *)
(***************************************************************************)
EXTENDS Integers, Sequences

CONSTANTS
  Closer,              \* threads that call close()
  Flusher,             \* threads that call flush()
  MaxPendingRecords,   \* capacity of the queue
  MaxEmits,            \* bound of the model: calls of emit()
  MaxTimeouts          \* bound of the model: close() calls that time out

ASSUME SinkAssumption ==
  /\ MaxPendingRecords \in Nat \ {0}
  /\ MaxEmits \in Nat
  /\ MaxTimeouts \in Nat

VARIABLES
  records,      \* queue.Queue: numbers of the records waiting
  unfinished,   \* Queue.unfinished_tasks
  stop,         \* the stop event
  closed,       \* _closed
  worker,       \* where the writer is in _run
  current,      \* the record the writer holds, 0 if none
  counters,     \* EventSinkCounters
  order,        \* numbers of the records in the file, in file order
  emits,        \* number of emit() calls so far
  closer,       \* where each caller of close() is
  flusher,      \* where each caller of flush() is
  mark          \* records accepted when each flush() was called (history)

queue == <<records, unfinished>>
callers == <<closer, flusher, mark>>
sinkVars == <<queue, stop, closed, worker, current, counters, order, emits, callers>>

Result == {"written", "file_capacity_dropped", "io_errors"}
Refusal == {"serialization_errors", "record_size_dropped"}
Counter == Result \cup Refusal \cup
           {"enqueued", "queue_dropped", "closed_dropped", "shutdown_timeouts"}

Count(name) == counters' = [counters EXCEPT ![name] = @ + 1]

Settled == counters["written"] + counters["file_capacity_dropped"]
             + counters["io_errors"]
InFlight == IF current = 0 THEN 0 ELSE 1

-----------------------------------------------------------------------------
SinkInit ==
  /\ records = <<>> /\ unfinished = 0
  /\ stop = FALSE /\ closed = FALSE
  /\ worker = "test_stop" /\ current = 0
  /\ counters = [name \in Counter |-> 0]
  /\ order = <<>>
  /\ emits = 0
  /\ closer = [c \in Closer |-> "idle"]
  /\ flusher = [f \in Flusher |-> "idle"]
  /\ mark = [f \in Flusher |-> 0]

(* emit(): a record that cannot be serialized or is too long never reaches *)
(* the queue.                                                              *)
EmitRefused(why) ==
  /\ emits < MaxEmits
  /\ emits' = emits + 1
  /\ Count(why)
  /\ UNCHANGED <<queue, stop, closed, worker, current, order, callers>>

\* Mutant of Admission: a full queue is noticed one record late.
AdmissionLate ==
  IF closed THEN "closed_dropped"
  ELSE IF Len(records) > MaxPendingRecords THEN "queue_dropped" ELSE "enqueued"

\* The counter emit() increments under _state_lock.
Admission ==
  IF closed THEN "closed_dropped"
  ELSE IF Len(records) >= MaxPendingRecords THEN "queue_dropped" ELSE "enqueued"

Emit ==
  /\ emits < MaxEmits
  /\ emits' = emits + 1
  /\ Count(Admission)
  /\ IF Admission = "enqueued"
       THEN /\ records' = Append(records, counters["enqueued"] + 1)
            /\ unfinished' = unfinished + 1
       ELSE UNCHANGED queue
  /\ UNCHANGED <<stop, closed, worker, current, order, callers>>

-----------------------------------------------------------------------------
(* The loop condition of _run reads the stop event and then the queue.     *)

\* Mutants of LoopTest: the two reads in the other order; the queue not read.
LoopTestEmptyFirst ==
  \/ /\ worker = "test_stop"
     /\ worker' = IF records = <<>> THEN "test_empty" ELSE "get"
  \/ /\ worker = "test_empty"
     /\ worker' = IF stop THEN "done" ELSE "get"
LoopTestStopOnly ==
  worker = "test_stop" /\ worker' = IF stop THEN "done" ELSE "get"

LoopTest ==
  \/ /\ worker = "test_stop"
     /\ worker' = IF stop THEN "test_empty" ELSE "get"
  \/ /\ worker = "test_empty"
     /\ worker' = IF records = <<>> THEN "done" ELSE "get"

WorkerTest ==
  /\ LoopTest
  /\ UNCHANGED <<queue, stop, closed, current, counters, order, emits, callers>>

\* get(timeout=0.05) raises Empty only if the queue is empty at its deadline.
WorkerGetTimesOut ==
  /\ worker = "get"
  /\ records = <<>>
  /\ worker' = "test_stop"
  /\ UNCHANGED <<queue, stop, closed, current, counters, order, emits, callers>>

\* Mutant of Take: the most recent record first.
TakeNewest ==
  /\ current' = records[Len(records)]
  /\ records' = SubSeq(records, 1, Len(records) - 1)

Take == current' = Head(records) /\ records' = Tail(records)

WorkerGet ==
  /\ worker = "get"
  /\ records # <<>>
  /\ Take
  /\ worker' = "write"
  /\ UNCHANGED <<unfinished, stop, closed, counters, order, emits, callers>>

\* Mutant of Settle: an I/O error falls through and is counted twice.
SettleTwice(result) ==
  counters' = [counters EXCEPT ![result] = @ + 1,
                               !["file_capacity_dropped"] =
                                  IF result = "io_errors" THEN @ + 1 ELSE @]

Settle(result) == Count(result)

\* _write_record has returned or raised; its result is counted.
WorkerWrite(result) ==
  /\ worker = "write"
  /\ order' = IF result = "written" THEN Append(order, current) ELSE order
  /\ Settle(result)
  /\ current' = 0
  /\ worker' = "task_done"
  /\ UNCHANGED <<queue, stop, closed, emits, callers>>

WorkerTaskDone ==
  /\ worker = "task_done"
  /\ unfinished' = unfinished - 1
  /\ worker' = "test_stop"
  /\ UNCHANGED <<records, stop, closed, current, counters, order, emits, callers>>

-----------------------------------------------------------------------------
\* Mutant of StopWriter: the stop event is not set.
CloseOnly == closed' = TRUE /\ stop' = stop

StopWriter == closed' = TRUE /\ stop' = TRUE

\* close() may be called again after it returned, by any thread.
CloseBegins(c) ==
  /\ closer[c] # "joining"
  /\ counters["shutdown_timeouts"] < MaxTimeouts
  /\ IF closed THEN UNCHANGED <<closed, stop>> ELSE StopWriter
  /\ closer' = [closer EXCEPT ![c] = "joining"]
  /\ UNCHANGED <<queue, worker, current, counters, order, emits, flusher, mark>>

CloseReturnsTrue(c) ==
  /\ closer[c] = "joining"
  /\ worker = "done"
  /\ closer' = [closer EXCEPT ![c] = "true"]
  /\ UNCHANGED <<queue, stop, closed, worker, current, counters, order, emits,
                 flusher, mark>>

\* join(timeout) gave up and the writer is still alive.
CloseTimesOut(c) ==
  /\ closer[c] = "joining"
  /\ worker # "done"
  /\ counters["shutdown_timeouts"] < MaxTimeouts
  /\ closer' = [closer EXCEPT ![c] = "false"]
  /\ Count("shutdown_timeouts")
  /\ UNCHANGED <<queue, stop, closed, worker, current, order, emits, flusher, mark>>

FlushBegins(f) ==
  /\ flusher[f] # "polling"
  /\ flusher' = [flusher EXCEPT ![f] = "polling"]
  /\ mark' = [mark EXCEPT ![f] = counters["enqueued"]]
  /\ UNCHANGED <<queue, stop, closed, worker, current, counters, order, emits, closer>>

\* Mutant of Drained: polls the queue instead of the unfinished tasks.
QueueEmpty == records = <<>>

Drained == unfinished = 0

FlushReturnsTrue(f) ==
  /\ flusher[f] = "polling"
  /\ Drained
  /\ flusher' = [flusher EXCEPT ![f] = "true"]
  /\ UNCHANGED <<queue, stop, closed, worker, current, counters, order, emits,
                 closer, mark>>

\* The deadline has passed with tasks unfinished.
FlushTimesOut(f) ==
  /\ flusher[f] = "polling"
  /\ ~Drained
  /\ flusher' = [flusher EXCEPT ![f] = "false"]
  /\ UNCHANGED <<queue, stop, closed, worker, current, counters, order, emits,
                 closer, mark>>

-----------------------------------------------------------------------------
Writer ==
  \/ WorkerTest
  \/ WorkerGetTimesOut
  \/ WorkerGet
  \/ \E result \in Result : WorkerWrite(result)
  \/ WorkerTaskDone

SinkNext ==
  \/ \E why \in Refusal : EmitRefused(why)
  \/ Emit
  \/ Writer
  \/ \E c \in Closer : CloseBegins(c) \/ CloseReturnsTrue(c) \/ CloseTimesOut(c)
  \/ \E f \in Flusher : FlushBegins(f) \/ FlushReturnsTrue(f) \/ FlushTimesOut(f)

\* The writer thread keeps running and its system calls return; nobody is
\* obliged to emit, close or flush.
WriterFairness == WF_sinkVars(Writer)

SinkSpec == SinkInit /\ [][SinkNext]_sinkVars /\ WriterFairness

-----------------------------------------------------------------------------
\* The queue is bounded and every variable has the values _run, emit, close and
\* flush give it.
QueueTypeOK ==
  /\ records \in Seq(Nat) /\ Len(records) <= MaxPendingRecords
  /\ unfinished \in Nat
  /\ stop \in BOOLEAN /\ closed \in BOOLEAN
  /\ worker \in {"test_stop", "test_empty", "get", "write", "task_done", "done"}
  /\ current \in Nat
  /\ counters \in [Counter -> Nat]
  /\ order \in Seq(Nat)
  /\ emits \in Nat
  /\ closer \in [Closer -> {"idle", "joining", "true", "false"}]
  /\ flusher \in [Flusher -> {"idle", "polling", "true", "false"}]
  /\ mark \in [Flusher -> Nat]

\* Every record emit() accepted is settled, held by the writer or queued, and
\* counted once, at every moment of the writer's loop.
Accounted == counters["enqueued"] = Settled + InFlight + Len(records)

\* The writer does not exit with an accepted record left behind, although it
\* reads the stop event and the queue in two steps while emit() and close() run.
NothingStranded ==
  worker = "done" => /\ closed
                     /\ records = <<>>
                     /\ counters["enqueued"] = Settled

\* The file holds accepted records in the order of acceptance, none twice, and
\* everything still waiting comes after everything in the file.
FileInOrder ==
  LET line == order \o (IF current = 0 THEN <<>> ELSE <<current>>) \o records
  IN  \A m, n \in DOMAIN line : m < n => line[m] < line[n]

\* flush() returns True only when every record accepted before the call has
\* been written or counted as lost.
FlushHonest == \A f \in Flusher : flusher[f] = "true" => mark[f] <= Settled

\* After the first close() the writer drains the queue and exits.
CloseDrains == closed ~> (worker = "done")

\* Each accepted record is eventually written or counted as lost, whether or
\* not the sink is closed meanwhile.
AcceptedSettles ==
  \A n \in 1 .. MaxEmits : (counters["enqueued"] >= n) ~> (Settled >= n)
=============================================================================
