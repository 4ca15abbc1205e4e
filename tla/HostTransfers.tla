--------------------------- MODULE HostTransfers ---------------------------
(***************************************************************************)
(* The transfer path of one registration: the host's callbacks, the        *)
(* binding of native.py, KVTransferHostAdapter.observe, the normalizer and *)
(* the bounded queue of the sink.                                          *)
(*                                                                         *)
(* VllmOffloadingObserverBinding._observe_host holds the binding's lock    *)
(* from the look-up in its own _pending to the return of the callback, and *)
(* unregister() takes the same lock, so a callback is one action: the      *)
(* binding's tests, normalize(), emit() and the binding's bookkeeping.     *)
(* The normalizer's handlers are LifecycleNormalizer's; the sink is        *)
(* reduced to the number of records waiting in its queue, which other      *)
(* callbacks fill and the writer empties at any time.                      *)
(*                                                                         *)
(* The host is external: a job is submitted once, then ends once, with the *)
(* identity and operation of its submission and not before it.             *)
(***************************************************************************)
EXTENDS Integers, FiniteSets, Sequences

CONSTANTS
  Transfer,             \* jobs of this process: one transfer identity each
  Identity, Epoched, Process, Operation, ProcessOf, Time, NoReceipt,
  MaxCorrelatedTransfers, MaxRecoveryAdmissions, RetainRestoreReceipts,
  MaxRecords,
  MinDuration,          \* least time from a submission to its end: 0 or 1
  MalformedEnds,        \* may the report of an end be one the binding rejects?
  BytesReported,        \* may a successful completion come without bytes?
  MaxBindingTransfers,  \* MAX_BINDING_TRANSFERS
  MaxPendingRecords     \* capacity of the sink's queue

ASSUME PipelineAssumption ==
  /\ Operation \subseteq {"d2h_preserve", "h2d_restore"}
  /\ ProcessOf \in [Transfer -> Process]
  /\ Time \subseteq Nat
  /\ RetainRestoreReceipts \in BOOLEAN
  /\ MaxBindingTransfers \in Nat \ {0}
  /\ MaxPendingRecords \in Nat \ {0}
  /\ MinDuration \in Nat
  /\ MalformedEnds \in BOOLEAN
  /\ BytesReported \subseteq BOOLEAN

VARIABLES
  pending, completed_restores, admissions, evidence_valid, closed, counted,
  emitted,        \* of the normalizer
  active,         \* AdapterState.ACTIVE
  registered,     \* the binding has callbacks
  binding,        \* the binding's _pending: job -> identity and operation
  backlog,        \* records waiting in the sink's queue
  recorded,       \* history: transfer records the sink accepted
  refused,        \* history: jobs one of whose callbacks returned False
  host            \* external: job -> "new", or its submission, or "ended"

Normalizer == INSTANCE LifecycleNormalizer

normalizer == <<pending, completed_restores, admissions, evidence_valid, closed,
                counted, emitted>>
vars == <<normalizer, active, registered, binding, backlog, recorded, refused, host>>

Job == Transfer
Live == {j \in Job : host[j].state = "live"}

Init ==
  /\ Normalizer!Init
  /\ active = TRUE
  /\ registered = TRUE
  /\ binding = Normalizer!Nothing
  /\ backlog = 0
  /\ recorded = <<>>
  /\ refused = {}
  /\ host = [j \in Job |-> [state |-> "new"]]

-----------------------------------------------------------------------------
(* KVTransferHostAdapter.observe after normalize(): a canonical record is  *)
(* offered to the sink, and True is returned only if the sink takes it.    *)
\* Mutant of Forwarded: the queue is taken to have room.
ForwardedUnbounded == counted' = "accepted"

Forwarded == counted' = "accepted" /\ backlog < MaxPendingRecords

Forward ==
  IF Forwarded
    THEN /\ backlog' = backlog + 1
         /\ recorded' = Append(recorded, emitted'[Len(emitted')])
    ELSE UNCHANGED <<backlog, recorded>>

Refuse(j) == refused' = IF Forwarded THEN refused ELSE refused \cup {j}

\* Mutant of Remember: the binding keeps the job whatever the callback answered.
RememberAlways(j, i, op) ==
  binding' = Normalizer!Put(binding, j, [identity |-> i, op |-> op])

Remember(j, i, op) ==
  binding' = IF Forwarded
               THEN Normalizer!Put(binding, j, [identity |-> i, op |-> op])
               ELSE binding

HostSubmits(j, i, op, at) ==
  /\ host[j].state = "new"
  /\ host' = [host EXCEPT ![j] =
                [state |-> "live", identity |-> i, op |-> op, at |-> at]]
  /\ \/ /\ registered /\ active
        /\ Cardinality(DOMAIN binding) < MaxBindingTransfers
        /\ Normalizer!TransferSubmitted(i, j, op, at)
        /\ Forward
        /\ Refuse(j)
        /\ Remember(j, i, op)
     \/ /\ ~registered \/ ~active \/ Cardinality(DOMAIN binding) >= MaxBindingTransfers
        /\ refused' = refused \cup {j}
        /\ UNCHANGED <<normalizer, binding, backlog, recorded>>
     \/ /\ registered /\ active
        /\ Cardinality(DOMAIN binding) < MaxBindingTransfers
        /\ Normalizer!DropDisabled
        /\ refused' = refused \cup {j}
        /\ UNCHANGED <<binding, backlog, recorded>>
  /\ UNCHANGED <<active, registered>>

\* The source record the binding builds from the host's record of an end.
Report(j, end, at, bytes) ==
  LET receipt == IF host[j].op = "h2d_restore" THEN ProcessOf[j] ELSE NoReceipt
  IN  \/ end = "succeeded" /\ Normalizer!TransferSucceeded(j, at, bytes, receipt)
      \/ end = "failed" /\ Normalizer!TransferFailed(j, at, FALSE, NoReceipt)
      \/ end = "host_shutdown" /\ Normalizer!TransferCancelled(j, at)
      \/ Normalizer!DropDisabled

\* Mutant of Forget: the binding forgets a job only if its end was forwarded.
ForgetForwarded(j) ==
  binding' = IF Forwarded THEN Normalizer!Drop(binding, {j}) ELSE binding

Forget(j) == binding' = Normalizer!Drop(binding, {j})

HostEnds(j, end, at, bytes) ==
  /\ host[j].state = "live"
  /\ at >= host[j].at + MinDuration
  /\ host' = [host EXCEPT ![j] = [state |-> "ended"]]
  /\ \/ /\ registered /\ active /\ j \in DOMAIN binding
        /\ Report(j, end, at, bytes)
        /\ Forward
        /\ Refuse(j)
        /\ Forget(j)
     \/ /\ registered /\ ~active /\ j \in DOMAIN binding
        /\ refused' = refused \cup {j}
        /\ binding' = Normalizer!Drop(binding, {j})
        /\ UNCHANGED <<normalizer, backlog, recorded>>
     \/ /\ ~registered \/ j \notin DOMAIN binding
        /\ refused' = refused \cup {j}
        /\ UNCHANGED <<normalizer, binding, backlog, recorded>>
  /\ UNCHANGED <<active, registered>>

\* A report without the expected fields, with values the source record refuses
\* (bytes_moved = 0), or that contradicts its submission in request, rank or
\* operation, is dropped and the job stays in the binding.
HostEndsMalformed(j) ==
  /\ MalformedEnds
  /\ host[j].state = "live"
  /\ host' = [host EXCEPT ![j] = [state |-> "ended"]]
  /\ refused' = refused \cup {j}
  /\ UNCHANGED <<normalizer, active, registered, binding, backlog, recorded>>

-----------------------------------------------------------------------------
\* A host fact or a correlated record is queued beside the transfers.
OtherRecordQueued ==
  /\ active
  /\ backlog < MaxPendingRecords
  /\ backlog' = backlog + 1
  /\ UNCHANGED <<normalizer, active, registered, binding, recorded, refused, host>>

WriterTakes ==
  /\ backlog > 0
  /\ backlog' = backlog - 1
  /\ UNCHANGED <<normalizer, active, registered, binding, recorded, refused, host>>

(* KVTransferHostAdapter.stop(): inert, then unregistered, then closed.    *)
StopBegins ==
  /\ active
  /\ active' = FALSE
  /\ UNCHANGED <<normalizer, registered, binding, backlog, recorded, refused, host>>

Unregister ==
  /\ ~active /\ registered
  /\ registered' = FALSE
  /\ binding' = Normalizer!Nothing
  /\ UNCHANGED <<normalizer, active, backlog, recorded, refused, host>>

CloseNormalizer ==
  /\ ~registered
  /\ Normalizer!Close
  /\ UNCHANGED <<active, registered, binding, backlog, recorded, refused, host>>

Next ==
  \/ \E j \in Job, i \in Identity, op \in Operation, at \in Time :
       HostSubmits(j, i, op, at)
  \/ \E j \in Job, at \in Time, end \in {"succeeded", "failed", "host_shutdown"},
        bytes \in BytesReported :
       HostEnds(j, end, at, bytes)
  \/ \E j \in Job : HostEndsMalformed(j)
  \/ OtherRecordQueued
  \/ WriterTakes
  \/ StopBegins
  \/ Unregister
  \/ CloseNormalizer

Spec == Init /\ [][Next]_vars

-----------------------------------------------------------------------------
\* The composition keeps the types of its parts.
TypeOK ==
  /\ Normalizer!TypeOK
  /\ active \in BOOLEAN /\ registered \in BOOLEAN
  /\ DOMAIN binding \subseteq Job
  /\ Cardinality(DOMAIN binding) <= MaxBindingTransfers
  /\ backlog \in 0 .. MaxPendingRecords
  /\ refused \subseteq Job

\* The two tables of the path, the binding's and the normalizer's, are edited
\* by different rules; a job the binding still follows is always one the
\* normalizer still correlates, under the same identity and operation.
BindingWithinNormalizer ==
  \A j \in DOMAIN binding :
    /\ j \in DOMAIN pending
    /\ binding[j].identity = pending[j].identity
    /\ binding[j].op = pending[j].op

\* What reaches the file: an end record comes after the start record of the
\* same transfer, identity and operation, although the queue may have refused
\* any record in between, and no transfer starts or ends twice.
EndsFollowStarts ==
  \A n \in DOMAIN recorded :
    LET r == recorded[n]
        Same(m) == recorded[m].transfers = r.transfers
        Start(m) == recorded[m].event \in {"preserve_started", "restore_started"}
    IN  IF Start(n)
          THEN \A m \in 1 .. (n - 1) : ~Same(m)
          ELSE \E m \in 1 .. (n - 1) :
                 /\ Same(m) /\ Start(m)
                 /\ recorded[m].identity = r.identity
                 /\ recorded[m].op = r.op
                 /\ \A k \in (m + 1) .. (n - 1) : ~Same(k)

\* A normalizer entry without a live job the binding follows is explained by a
\* callback that returned False for that job.
LeftoversExplained ==
  \A j \in DOMAIN pending : j \in DOMAIN binding \/ j \in refused \/ ~registered

\* Driven by host callbacks, with ends the binding never forwards, records the
\* sink refuses, evidence lost at a table limit and stop() in between, the
\* normalizer still returns a stream CanonicalStream allows.
StreamContract == Normalizer!ImplementsStream

\* docs/plugin_adapter.md says of the native entry point, which does not retain
\* receipts: "This avoids eventual table exhaustion during long-running
\* transfer-only observation."  Read as: evidence is only lost to capacity
\* while the host has a table full of transfers in flight.
LossNeedsFullHost ==
  [][evidence_valid /\ ~evidence_valid' =>
       Cardinality(Live) >= MaxCorrelatedTransfers]_vars
=============================================================================
