------------------------ MODULE LifecycleNormalizer ------------------------
(***************************************************************************)
(* normalization.py: LifecycleNormalizer.                                  *)
(*                                                                         *)
(* Every call of normalize() and close() runs under one lock, so a call is *)
(* one atomic action and concurrent callers are an interleaving of calls.  *)
(* The source records are inputs: any typed record may arrive at any time, *)
(* in any order and with any timestamp.                                    *)
(*                                                                         *)
(* Data abstraction: a transfer, an identity and a process uuid are model  *)
(* values; a receipt is its process uuid (the only part that is compared); *)
(* of the byte count only its presence matters.  Of the counters the model *)
(* keeps the one the last call incremented.                                *)
(***************************************************************************)
EXTENDS Integers, FiniteSets, Sequences, Functions

CONSTANTS
  Transfer, Identity, Epoched, Process,
  Operation,                \* the operations the host performs
  ProcessOf,                \* the process uuid a transfer identity carries
  Time,
  NoReceipt,
  MaxCorrelatedTransfers, MaxRecoveryAdmissions,
  RetainRestoreReceipts,
  MaxRecords                \* bound of the model: records kept in the history

ASSUME ConstantsAssumption ==
  /\ Epoched \subseteq Identity
  /\ Operation \subseteq {"d2h_preserve", "h2d_restore"}
  /\ ProcessOf \in [Transfer -> Process]
  /\ Time \subseteq Nat
  /\ NoReceipt \notin Process
  /\ MaxCorrelatedTransfers \in Nat \ {0}
  /\ MaxRecoveryAdmissions \in Nat \ {0}
  /\ RetainRestoreReceipts \in BOOLEAN
  /\ MaxRecords \in Nat

VARIABLES
  pending,             \* TransferIdentity -> submission awaiting its end
  completed_restores,  \* TransferIdentity -> restore awaiting first compute
  admissions,          \* ObservationIdentity -> admission awaiting compute
  evidence_valid,
  closed,
  counted,             \* the counter the last call incremented
  emitted              \* history: the records normalize() has returned,
                       \* requeues apart (nothing is correlated with them)

tables == <<pending, completed_restores, admissions>>
vars == <<tables, evidence_valid, closed, counted, emitted>>

Stream == INSTANCE CanonicalStream
  WITH stream <- emitted, live <- evidence_valid /\ ~closed

Counter == {"none", "accepted", "invalid", "capacity_dropped",
            "evidence_disabled_dropped", "closed_dropped"}

Put(f, x, v) == [y \in DOMAIN f \cup {x} |-> IF y = x THEN v ELSE f[y]]
Drop(f, S) == Restrict(f, DOMAIN f \ S)
Nothing == [x \in {} |-> x]

-----------------------------------------------------------------------------
Init ==
  /\ pending = Nothing
  /\ completed_restores = Nothing
  /\ admissions = Nothing
  /\ evidence_valid = TRUE
  /\ closed = FALSE
  /\ counted = "none"
  /\ emitted = <<>>

(* The prologue of normalize(): closed and invalidated normalizers count   *)
(* and drop.                                                               *)
Serving == ~closed /\ evidence_valid

DropClosed ==
  /\ closed
  /\ counted' = "closed_dropped"
  /\ UNCHANGED <<tables, evidence_valid, closed, emitted>>

DropDisabled ==
  /\ ~closed /\ ~evidence_valid
  /\ counted' = "evidence_disabled_dropped"
  /\ UNCHANGED <<tables, evidence_valid, closed, emitted>>

(* The three ways a handler ends: a ValueError that normalize() counts, a  *)
(* loss of capacity that ends all evidence, or a canonical record.         *)
Reject ==
  /\ counted' = "invalid"
  /\ UNCHANGED <<tables, evidence_valid, closed, emitted>>

DisableForCapacity ==
  /\ evidence_valid' = FALSE
  /\ counted' = "capacity_dropped"
  /\ UNCHANGED <<completed_restores, admissions, closed, emitted>>

Accept(record) ==
  /\ Len(emitted) < MaxRecords
  /\ emitted' = Append(emitted, record)
  /\ counted' = "accepted"
  /\ UNCHANGED <<evidence_valid, closed>>

-----------------------------------------------------------------------------
\* Mutant of Duplicate: forgets that a restored transfer is still correlated.
DuplicateWhilePending(t) == t \in DOMAIN pending

Duplicate(t) == t \in DOMAIN pending \cup DOMAIN completed_restores

PendingFull == Cardinality(DOMAIN pending) >= MaxCorrelatedTransfers

TransferSubmitted(i, t, op, at) ==
  /\ Serving
  /\ \/ Duplicate(t) /\ Reject
     \/ /\ ~Duplicate(t)
        /\ PendingFull
        /\ DisableForCapacity
        /\ UNCHANGED pending
     \/ /\ ~Duplicate(t)
        /\ ~PendingFull
        /\ pending' = Put(pending, t, [identity |-> i, op |-> op, at |-> at])
        /\ Accept(Stream!TransferRecord(Stream!StartedEvent(op), i, op, t, at))
        /\ UNCHANGED <<completed_restores, admissions>>

\* Mutant of EndPending: the submission outlives its end.
KeepPending(t) == UNCHANGED pending

EndPending(t) == pending' = Drop(pending, {t})

\* Mutants of MatchesSubmission: no order between submission and end; a preserve
\* may end at the instant it was submitted.
MatchesPending(t, at) == t \in DOMAIN pending
MatchesNotEarlier(t, at) == t \in DOMAIN pending /\ at >= pending[t].at

\* A completion report names a submission that is not later; a preserve's
\* report is strictly later than its submission.
MatchesSubmission(t, at) ==
  /\ t \in DOMAIN pending
  /\ at >= pending[t].at
  /\ pending[t].op = "d2h_preserve" => at # pending[t].at

\* The evidence a successful completion must carry.
CarriesSuccess(t, at, bytes, receipt) ==
  /\ bytes
  /\ at # pending[t].at
  /\ IF pending[t].op = "h2d_restore"
       THEN receipt # NoReceipt
       ELSE receipt = NoReceipt

Retains(t) == pending[t].op = "h2d_restore" /\ RetainRestoreReceipts

ReceiptTableFull == Cardinality(DOMAIN completed_restores) >= MaxCorrelatedTransfers

\* The closed schema refuses a receipt of another process.  Without retention
\* the capacity test is skipped, so this is also the last thing to fail.
ReceiptInScope(t, receipt) ==
  pending[t].op = "h2d_restore" => receipt = ProcessOf[t]

\* Mutant of RejectForeignReceipt: the submission is deleted before the record
\* is built.
DropForeignReceipt(t) ==
  /\ pending' = Drop(pending, {t})
  /\ counted' = "invalid"
  /\ UNCHANGED <<completed_restores, admissions, evidence_valid, closed, emitted>>

RejectForeignReceipt(t) == Reject

TransferSucceeded(t, at, bytes, receipt) ==
  /\ Serving
  /\ \/ /\ ~(MatchesSubmission(t, at) /\ CarriesSuccess(t, at, bytes, receipt))
        /\ Reject
     \/ /\ MatchesSubmission(t, at) /\ CarriesSuccess(t, at, bytes, receipt)
        /\ Retains(t) /\ ReceiptTableFull
        /\ EndPending(t)
        /\ DisableForCapacity
     \/ /\ MatchesSubmission(t, at) /\ CarriesSuccess(t, at, bytes, receipt)
        /\ ~(Retains(t) /\ ReceiptTableFull)
        /\ ~ReceiptInScope(t, receipt)
        /\ RejectForeignReceipt(t)
     \/ /\ MatchesSubmission(t, at) /\ CarriesSuccess(t, at, bytes, receipt)
        /\ ~(Retains(t) /\ ReceiptTableFull)
        /\ ReceiptInScope(t, receipt)
        /\ completed_restores' =
             IF Retains(t)
               THEN Put(completed_restores, t,
                        [identity |-> pending[t].identity, at |-> at])
               ELSE completed_restores
        /\ EndPending(t)
        /\ Accept(Stream!TransferRecord(Stream!CompletedEvent(pending[t].op),
                    pending[t].identity, pending[t].op, t, at))
        /\ UNCHANGED admissions

TransferFailed(t, at, bytes, receipt) ==
  /\ Serving
  /\ \/ /\ ~(MatchesSubmission(t, at) /\ ~bytes /\ receipt = NoReceipt)
        /\ Reject
     \/ /\ MatchesSubmission(t, at) /\ ~bytes /\ receipt = NoReceipt
        /\ EndPending(t)
        /\ Accept(Stream!TransferRecord("transfer_failed",
                    pending[t].identity, pending[t].op, t, at))
        /\ UNCHANGED <<completed_restores, admissions>>

TransferCancelled(t, at) ==
  /\ Serving
  /\ \/ /\ ~(t \in DOMAIN pending /\ at >= pending[t].at)
        /\ Reject
     \/ /\ t \in DOMAIN pending /\ at >= pending[t].at
        /\ EndPending(t)
        /\ Accept(Stream!TransferRecord("transfer_cancelled",
                    pending[t].identity, pending[t].op, t, at))
        /\ UNCHANGED <<completed_restores, admissions>>

RecoveryRequeued(i) ==
  /\ Serving
  /\ \/ i \notin Epoched /\ Reject
     \/ /\ i \in Epoched
        /\ counted' = "accepted"
        /\ UNCHANGED <<tables, evidence_valid, closed, emitted>>

\* Every transfer of the roster has a restore completed for this identity and
\* not after the admission.
RosterRestored(i, roster, at) ==
  \A t \in roster :
    /\ t \in DOMAIN completed_restores
    /\ completed_restores[t].identity = i
    /\ completed_restores[t].at <= at

RecoveryAdmitted(i, roster, at) ==
  /\ Serving
  /\ \/ (i \notin Epoched \/ i \in DOMAIN admissions) /\ Reject
     \/ /\ i \in Epoched \ DOMAIN admissions
        /\ Cardinality(DOMAIN admissions) >= MaxRecoveryAdmissions
        /\ DisableForCapacity
        /\ UNCHANGED pending
     \/ /\ i \in Epoched \ DOMAIN admissions
        /\ Cardinality(DOMAIN admissions) < MaxRecoveryAdmissions
        /\ ~RosterRestored(i, roster, at)
        /\ Reject
     \/ /\ i \in Epoched \ DOMAIN admissions
        /\ Cardinality(DOMAIN admissions) < MaxRecoveryAdmissions
        /\ RosterRestored(i, roster, at)
        /\ admissions' = Put(admissions, i, [transfers |-> roster, at |-> at])
        /\ Accept(Stream!RecoveryRecord("recovery_admitted", i, roster, at))
        /\ UNCHANGED <<pending, completed_restores>>

MatchesAdmission(i, roster, receipt, at) ==
  /\ i \in DOMAIN admissions
  /\ admissions[i].transfers = roster
  /\ at >= admissions[i].at
  /\ \A t \in roster : ProcessOf[t] = receipt

\* Mutant of ConsumeRestores: the receipts outlive their first compute.
KeepRestores(roster) == UNCHANGED completed_restores

ConsumeRestores(roster) == completed_restores' = Drop(completed_restores, roster)

FirstCompute(i, roster, receipt, at) ==
  /\ Serving
  /\ \/ /\ ~MatchesAdmission(i, roster, receipt, at)
        /\ evidence_valid' = FALSE
        /\ counted' = "invalid"
        /\ UNCHANGED <<tables, closed, emitted>>
     \/ /\ MatchesAdmission(i, roster, receipt, at)
        /\ admissions' = Drop(admissions, {i})
        /\ ConsumeRestores(roster)
        /\ Accept(Stream!RecoveryRecord("first_compute", i, roster, at))
        /\ UNCHANGED pending

Close ==
  /\ ~closed
  /\ closed' = TRUE
  /\ pending' = Nothing
  /\ completed_restores' = Nothing
  /\ admissions' = Nothing
  /\ counted' = "none"
  /\ UNCHANGED <<evidence_valid, emitted>>

\* Mutant of Roster: the constructors accept an empty roster.
AnyRoster == SUBSET Transfer

Roster == (SUBSET Transfer) \ {{}}

Normalize ==
  \/ DropClosed
  \/ DropDisabled
  \/ \E i \in Identity, t \in Transfer, op \in Operation, at \in Time :
       TransferSubmitted(i, t, op, at)
  \/ \E t \in Transfer, at \in Time, bytes \in BOOLEAN,
        receipt \in Process \cup {NoReceipt} :
       \/ TransferSucceeded(t, at, bytes, receipt)
       \/ TransferFailed(t, at, bytes, receipt)
  \/ \E t \in Transfer, at \in Time : TransferCancelled(t, at)
  \/ \E i \in Identity : RecoveryRequeued(i)
  \/ \E i \in Identity, roster \in Roster, at \in Time :
       RecoveryAdmitted(i, roster, at)
  \/ \E i \in Identity, roster \in Roster, receipt \in Process, at \in Time :
       FirstCompute(i, roster, receipt, at)

Next == Normalize \/ Close

Spec == Init /\ [][Next]_vars

-----------------------------------------------------------------------------
Submission == [identity : Identity, op : Operation, at : Time]
CompletedRestore == [identity : Identity, at : Time]
Admission == [transfers : (SUBSET Transfer) \ {{}}, at : Time]
Event == {"preserve_started", "preserve_completed", "restore_started",
          "restore_completed", "transfer_failed", "transfer_cancelled",
          "recovery_admitted", "first_compute"}
Record == [event : Event, identity : Identity, op : Operation \cup {"none"},
           transfers : SUBSET Transfer, at : Time]

\* The three tables are dictionaries over the right identities, the flags are
\* Booleans and the history is a sequence of canonical records.
TypeOK ==
  /\ DOMAIN pending \subseteq Transfer
  /\ pending \in [DOMAIN pending -> Submission]
  /\ DOMAIN completed_restores \subseteq Transfer
  /\ completed_restores \in [DOMAIN completed_restores -> CompletedRestore]
  /\ DOMAIN admissions \subseteq Epoched
  /\ admissions \in [DOMAIN admissions -> Admission]
  /\ evidence_valid \in BOOLEAN
  /\ closed \in BOOLEAN
  /\ counted \in Counter
  /\ emitted \in Seq(Record)

\* _admissions and _completed_restores are separate dictionaries that only
\* _first_compute edits together: every outstanding admission must still find
\* all its restores, completed for its own identity and no later than it.
AdmissionsBacked ==
  \A i \in DOMAIN admissions :
    RosterRestored(i, admissions[i].transfers, admissions[i].at)

\* The duplicate test of _transfer_submitted keeps an identity out of a second
\* table: a transfer is never both awaiting its end and awaiting compute.
NeverPendingAndRestored == DOMAIN pending \cap DOMAIN completed_restores = {}

\* The three dictionaries are within the limits of the constructor.
WithinCapacity ==
  /\ Cardinality(DOMAIN pending) <= MaxCorrelatedTransfers
  /\ Cardinality(DOMAIN completed_restores) <= MaxCorrelatedTransfers
  /\ Cardinality(DOMAIN admissions) <= MaxRecoveryAdmissions

\* What the stream of returned records leaves unanswered: transfers started and
\* not ended, restores not used, admissions without their first compute.
InFlight == {t \in Transfer : \E k \in DOMAIN emitted : Stream!Open(emitted, k, t)}
Unused == {t \in Transfer : \E k \in DOMAIN emitted : Stream!Usable(emitted, k, t)}
Awaiting ==
  {i \in Epoched : \E k \in DOMAIN emitted : Stream!Outstanding(emitted, k, i)}

AtLeast(n, S) == \E T \in SUBSET S : IsFiniteSet(T) /\ Cardinality(T) >= n

\* The limits are exact, whatever the order of submissions, completions,
\* admissions and computes.  No table outgrows its limit; and since
\* _disable_for_capacity ends evidence for good, it is called only when a
\* consumer of the records could itself count as many unanswered transfers,
\* restores or admissions as a limit allows: an entry that outlived its answer
\* would end evidence under less load than that.
CapacityExact ==
  [][/\ WithinCapacity'
     /\ counted' = "capacity_dropped" =>
          \/ AtLeast(MaxCorrelatedTransfers, InFlight)
          \/ AtLeast(MaxCorrelatedTransfers, Unused)
          \/ AtLeast(MaxRecoveryAdmissions, Awaiting)]_vars

\* No first_compute record without a matching unused admission and, for each
\* transfer it names, a restore of the same identity used by nobody else.
FirstComputeBacked == Stream!ChainBacked

\* The records normalize() returns are a stream CanonicalStream allows, with
\* evidence ending at a capacity loss, a roster mismatch or close().
ImplementsStream == Stream!Spec

\* docs/normalization.md, Mapping: recovery_admitted stands for an "admission
\* with an exact completed-restore roster".  Read as: the roster is all the
\* restores completed and unused for that identity.
ExactRoster ==
  [][\A i \in DOMAIN admissions' \ DOMAIN admissions :
       admissions'[i].transfers =
         {t \in DOMAIN completed_restores : completed_restores[t].identity = i}]_vars

\* An invalid record is rejected before any table is edited: a handler that
\* raises leaves no half-made correlation behind.
InvalidLeavesTables == [][counted' = "invalid" => UNCHANGED tables]_vars
=============================================================================
