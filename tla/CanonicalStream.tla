--------------------------- MODULE CanonicalStream ---------------------------
(***************************************************************************)
(* What LifecycleNormalizer promises to whoever reads the records it       *)
(* returns.  The only state is the stream of canonical records returned so *)
(* far and whether evidence is still being produced; which record may come *)
(* next is decided by looking back over the stream, not by the tables the  *)
(* implementation keeps.                                                   *)
(*                                                                         *)
(* A canonical record (KVTransferObservation) is abstracted to its event,  *)
(* identity, operation, the transfers it names and its timestamp.  A       *)
(* transfer event names exactly one transfer; an admission or a first      *)
(* compute names a roster.  Byte counts, durations and receipts are not    *)
(* part of the ordering contract, and neither are requeue records, which   *)
(* are returned whenever they carry an epoch.                              *)
(***************************************************************************)
EXTENDS Integers, Sequences

CONSTANTS
  Transfer,               \* transfer identities (process_uuid:t:sequence)
  Identity,               \* (request, generation, rank, epoch) identities
  Epoched,                \* the identities that carry a recovery epoch
  Operation,              \* "d2h_preserve", "h2d_restore" or both
  Time,                   \* the monotonic timestamps a host may report
  RetainRestoreReceipts   \* keep receipts of completed restores?

VARIABLES
  stream,   \* canonical records, in the order normalize() returned them
  live      \* evidence is still produced: neither invalidated nor closed

vars == <<stream, live>>

NoOperation == "none"

StartedEvent(op) ==
  IF op = "d2h_preserve" THEN "preserve_started" ELSE "restore_started"
CompletedEvent(op) ==
  IF op = "d2h_preserve" THEN "preserve_completed" ELSE "restore_completed"

StartEvents == {"preserve_started", "restore_started"}

TransferRecord(e, i, op, t, at) ==
  [event |-> e, identity |-> i, op |-> op, transfers |-> {t}, at |-> at]
RecoveryRecord(e, i, roster, at) ==
  [event |-> e, identity |-> i, op |-> NoOperation, transfers |-> roster, at |-> at]

-----------------------------------------------------------------------------
(* Looking back over a stream s.                                           *)

\* Record r is a lifecycle event of transfer t itself.
Touches(r, t) == r.op # NoOperation /\ t \in r.transfers

\* Record r is the first compute that consumed the restore of t.
Consumes(r, t) == r.event = "first_compute" /\ t \in r.transfers

\* s[k] started t and t has not ended since.
Open(s, k, t) ==
  /\ s[k].event \in StartEvents
  /\ t \in s[k].transfers
  /\ \A m \in (k + 1) .. Len(s) : ~Touches(s[m], t)

\* s[k] is a completed restore of t that no first compute has used.
Usable(s, k, t) ==
  /\ s[k].event = "restore_completed"
  /\ t \in s[k].transfers
  /\ \A m \in (k + 1) .. Len(s) : ~Touches(s[m], t) /\ ~Consumes(s[m], t)

\* s[k] admitted the recovery of i, which has not computed since.
Outstanding(s, k, i) ==
  /\ s[k].event = "recovery_admitted"
  /\ s[k].identity = i
  /\ \A m \in (k + 1) .. Len(s) :
        ~(s[m].event = "first_compute" /\ s[m].identity = i)

-----------------------------------------------------------------------------
Init == stream = <<>> /\ live = TRUE

Return(r) == live /\ live' = live /\ stream' = Append(stream, r)

\* A transfer starts only if it is not in flight, and not while an unused
\* restore of it is retained.
Start(i, t, op, at) ==
  /\ Return(TransferRecord(StartedEvent(op), i, op, t, at))
  /\ \A k \in DOMAIN stream : ~Open(stream, k, t)
  /\ RetainRestoreReceipts => \A k \in DOMAIN stream : ~Usable(stream, k, t)

\* A transfer ends once per start, under the identity and operation of its
\* start and not before it.  Completions, and any completion report of a
\* preserve, are strictly later than the start.
Finish(e, i, t, op, at) ==
  /\ Return(TransferRecord(e, i, op, t, at))
  /\ \E k \in DOMAIN stream :
       /\ Open(stream, k, t)
       /\ stream[k].identity = i
       /\ stream[k].op = op
       /\ stream[k].at <= at
       /\ \/ stream[k].at < at
          \/ e = "transfer_cancelled"
          \/ e = "transfer_failed" /\ op = "h2d_restore"

\* An admission names unused restores completed for the same identity.
Admit(i, roster, at) ==
  /\ Return(RecoveryRecord("recovery_admitted", i, roster, at))
  /\ roster # {}
  /\ \A k \in DOMAIN stream : ~Outstanding(stream, k, i)
  /\ \A t \in roster : \E k \in DOMAIN stream :
       /\ Usable(stream, k, t)
       /\ stream[k].identity = i
       /\ stream[k].at <= at

\* A first compute answers the outstanding admission of its identity, with
\* the roster that was admitted.
Compute(i, roster, at) ==
  /\ Return(RecoveryRecord("first_compute", i, roster, at))
  /\ \E k \in DOMAIN stream :
       /\ Outstanding(stream, k, i)
       /\ stream[k].transfers = roster
       /\ stream[k].at <= at

\* Evidence ends for good: capacity loss, roster mismatch or close.
EndOfEvidence == live /\ live' = FALSE /\ UNCHANGED stream

\* The new record is one of the above.  (The first conjunct is implied; it lets
\* TLC judge a step that returns no record without trying every record.)
Extend ==
  /\ stream' # stream
  /\ \/ \E i \in Identity, t \in Transfer, op \in Operation, at \in Time :
          \/ Start(i, t, op, at)
          \/ \E e \in {CompletedEvent(op), "transfer_failed", "transfer_cancelled"} :
               Finish(e, i, t, op, at)
     \/ \E i \in Epoched, at \in Time, roster \in SUBSET Transfer :
          Admit(i, roster, at) \/ Compute(i, roster, at)

Next == Extend \/ EndOfEvidence

Spec == Init /\ [][Next]_vars

-----------------------------------------------------------------------------
\* What an auditor of the stream relies on: each first compute at f is
\* preceded by an admission a of the same identity and roster, not yet used,
\* and each transfer of the roster by a restore c completed for that identity
\* no later than the admission and used by no other first compute.
ChainBacked ==
  \A f \in DOMAIN stream : stream[f].event = "first_compute" =>
    \E a \in 1 .. (f - 1) :
      /\ stream[a].event = "recovery_admitted"
      /\ stream[a].identity = stream[f].identity
      /\ stream[a].transfers = stream[f].transfers
      /\ stream[a].at <= stream[f].at
      /\ \A m \in (a + 1) .. (f - 1) :
           ~(stream[m].event = "first_compute" /\ stream[m].identity = stream[f].identity)
      /\ \A t \in stream[f].transfers : \E c \in 1 .. (a - 1) :
           /\ stream[c].event = "restore_completed"
           /\ stream[c].transfers = {t}
           /\ stream[c].identity = stream[f].identity
           /\ stream[c].at <= stream[a].at
           /\ \A m \in (c + 1) .. (f - 1) :
                ~Touches(stream[m], t) /\ ~Consumes(stream[m], t)
=============================================================================
