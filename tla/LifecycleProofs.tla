-------------------------- MODULE LifecycleProofs --------------------------
(***************************************************************************)
(* Proofs about LifecycleNormalizer, for any sets of transfers, identities *)
(* and processes, any timestamps and any limits.                           *)
(*                                                                         *)
(* The inductive invariant IInv joins the types, the disjointness of the   *)
(* two transfer tables, the backing of admissions, the limits and the      *)
(* finiteness of the tables.  Disjointness is what keeps a completion from *)
(* overwriting a receipt an admission relies on; backing is what shows     *)
(* that one identity's first compute cannot consume another's receipts.    *)
(***************************************************************************)
EXTENDS LifecycleNormalizer, FiniteSetTheorems, TLAPS

FiniteTables ==
  /\ IsFiniteSet(DOMAIN pending)
  /\ IsFiniteSet(DOMAIN completed_restores)
  /\ IsFiniteSet(DOMAIN admissions)

TablesTyped ==
  /\ DOMAIN pending \subseteq Transfer
  /\ pending \in [DOMAIN pending -> Submission]
  /\ DOMAIN completed_restores \subseteq Transfer
  /\ completed_restores \in [DOMAIN completed_restores -> CompletedRestore]
  /\ DOMAIN admissions \subseteq Epoched
  /\ admissions \in [DOMAIN admissions -> Admission]

FlagsTyped ==
  /\ evidence_valid \in BOOLEAN
  /\ closed \in BOOLEAN
  /\ counted \in Counter
  /\ emitted \in Seq(Record)

TablesInv ==
  /\ TablesTyped
  /\ FiniteTables
  /\ NeverPendingAndRestored
  /\ AdmissionsBacked
  /\ WithinCapacity

IInv == TablesInv /\ FlagsTyped

-----------------------------------------------------------------------------
(* Dictionaries.                                                           *)

\* Storing a value adds its key and changes no other entry.
LEMMA PutFacts ==
  ASSUME NEW f, NEW x, NEW v
  PROVE  /\ DOMAIN Put(f, x, v) = DOMAIN f \cup {x}
         /\ Put(f, x, v)[x] = v
         /\ \A y \in DOMAIN f \ {x} : Put(f, x, v)[y] = f[y]
BY DEF Put

\* Storing a value of the right type keeps the dictionary typed.
LEMMA PutType ==
  ASSUME NEW f, NEW x, NEW R, NEW v \in R, f \in [DOMAIN f -> R]
  PROVE  Put(f, x, v) \in [DOMAIN Put(f, x, v) -> R]
BY DEF Put

\* Deleting keys removes them and changes no other entry.
LEMMA DropFacts ==
  ASSUME NEW f, NEW S
  PROVE  /\ DOMAIN Drop(f, S) = DOMAIN f \ S
         /\ \A y \in DOMAIN f \ S : Drop(f, S)[y] = f[y]
BY DEF Drop, Restrict

\* Deleting keys keeps the dictionary typed.
LEMMA DropType ==
  ASSUME NEW f, NEW S, NEW R, f \in [DOMAIN f -> R]
  PROVE  Drop(f, S) \in [DOMAIN Drop(f, S) -> R]
BY DEF Drop, Restrict

\* The empty dictionary has every type.
LEMMA NothingFacts ==
  ASSUME NEW R
  PROVE  /\ DOMAIN Nothing = {}
         /\ Nothing \in [DOMAIN Nothing -> R]
BY DEF Nothing

\* Deleting keys keeps the set of keys finite and within its limit.
LEMMA DropSize ==
  ASSUME NEW f, NEW S, IsFiniteSet(DOMAIN f), NEW n \in Nat, Cardinality(DOMAIN f) <= n
  PROVE  /\ IsFiniteSet(DOMAIN Drop(f, S))
         /\ Cardinality(DOMAIN Drop(f, S)) <= n
<1>1. DOMAIN Drop(f, S) = DOMAIN f \ S
  BY DropFacts
<1>2. /\ IsFiniteSet(DOMAIN f \ S)
      /\ Cardinality(DOMAIN f \ S) <= Cardinality(DOMAIN f)
  BY FS_Subset
<1>3. Cardinality(DOMAIN f) \in Nat /\ Cardinality(DOMAIN f \ S) \in Nat
  BY <1>2, FS_CardinalityType
<1>. QED  BY <1>1, <1>2, <1>3

\* Storing an entry in a dictionary below its limit keeps it within the limit.
LEMMA PutSize ==
  ASSUME NEW f, NEW x, NEW v, IsFiniteSet(DOMAIN f), NEW n \in Nat,
         Cardinality(DOMAIN f) < n
  PROVE  /\ IsFiniteSet(DOMAIN Put(f, x, v))
         /\ Cardinality(DOMAIN Put(f, x, v)) <= n
<1>1. DOMAIN Put(f, x, v) = DOMAIN f \cup {x}
  BY PutFacts
<1>2. Cardinality(DOMAIN f) \in Nat
  BY FS_CardinalityType
<1>3. /\ IsFiniteSet(DOMAIN f \cup {x})
      /\ Cardinality(DOMAIN f \cup {x}) =
           IF x \in DOMAIN f THEN Cardinality(DOMAIN f) ELSE Cardinality(DOMAIN f) + 1
  BY FS_AddElement
<1>. QED  BY <1>1, <1>2, <1>3

-----------------------------------------------------------------------------
(* The ways a call changes the tables, each preserving TablesInv.          *)

\* A rejected or dropped call, and a requeue, leave the tables alone.
LEMMA SameTables == TablesInv /\ UNCHANGED tables => TablesInv'
BY DEF TablesInv, TablesTyped, FiniteTables, NeverPendingAndRestored,
       AdmissionsBacked, RosterRestored, WithinCapacity, tables

\* _transfer_submitted stores an unknown transfer below the limit.
LEMMA AddPending ==
  ASSUME TablesInv, NEW t \in Transfer, NEW v \in Submission,
         ~Duplicate(t), ~PendingFull,
         pending' = Put(pending, t, v),
         UNCHANGED <<completed_restores, admissions>>
  PROVE  TablesInv'
<1>. USE DEF TablesInv
<1>1. DOMAIN pending' = DOMAIN pending \cup {t}
  BY PutFacts
<1>2. TablesTyped'
  BY <1>1, PutType DEF TablesTyped
<1>3. NeverPendingAndRestored'
  BY <1>1 DEF NeverPendingAndRestored, Duplicate
<1>4. AdmissionsBacked'
  BY DEF AdmissionsBacked, RosterRestored
<1>5. FiniteTables' /\ WithinCapacity'
  <2>1. Cardinality(DOMAIN pending) \in Nat
    BY FS_CardinalityType DEF FiniteTables
  <2>2. Cardinality(DOMAIN pending) < MaxCorrelatedTransfers
    BY <2>1, ConstantsAssumption DEF PendingFull
  <2>. QED
    BY <2>2, PutSize, ConstantsAssumption DEF FiniteTables, WithinCapacity
<1>. QED  BY <1>2, <1>3, <1>4, <1>5

\* An end without a retained receipt removes the submission.
LEMMA RemovePending ==
  ASSUME TablesInv, NEW t,
         pending' = Drop(pending, {t}),
         UNCHANGED <<completed_restores, admissions>>
  PROVE  TablesInv'
<1>. USE DEF TablesInv
<1>1. DOMAIN pending' = DOMAIN pending \ {t}
  BY DropFacts
<1>2. TablesTyped'
  BY <1>1, DropType DEF TablesTyped
<1>3. NeverPendingAndRestored'
  BY <1>1 DEF NeverPendingAndRestored
<1>4. AdmissionsBacked'
  BY DEF AdmissionsBacked, RosterRestored
<1>5. FiniteTables' /\ WithinCapacity'
  BY DropSize, ConstantsAssumption DEF FiniteTables, WithinCapacity
<1>. QED  BY <1>2, <1>3, <1>4, <1>5

\* A restore that completes moves from one table to the other.  Being pending,
\* it had no receipt that an admission could rely on.
LEMMA MoveToRestored ==
  ASSUME TablesInv, NEW t \in DOMAIN pending, NEW v \in CompletedRestore,
         ~ReceiptTableFull,
         pending' = Drop(pending, {t}),
         completed_restores' = Put(completed_restores, t, v),
         UNCHANGED admissions
  PROVE  TablesInv'
<1>. USE DEF TablesInv
<1>a. DOMAIN pending' = DOMAIN pending \ {t}
  BY DropFacts
<1>b. DOMAIN completed_restores' = DOMAIN completed_restores \cup {t}
  BY PutFacts
<1>c. \A u \in DOMAIN completed_restores \ {t} :
        completed_restores'[u] = completed_restores[u]
  BY DEF Put
<1>2. t \in Transfer /\ t \notin DOMAIN completed_restores
  BY DEF TablesTyped, NeverPendingAndRestored
<1>3. TablesTyped'
  BY <1>a, <1>b, <1>2, DropType, PutType DEF TablesTyped
<1>4. NeverPendingAndRestored'
  BY <1>a, <1>b DEF NeverPendingAndRestored
<1>5. AdmissionsBacked'
  BY <1>b, <1>c, <1>2 DEF AdmissionsBacked, RosterRestored
<1>6. FiniteTables' /\ WithinCapacity'
  <2>1. Cardinality(DOMAIN completed_restores) \in Nat
    BY FS_CardinalityType DEF FiniteTables
  <2>2. Cardinality(DOMAIN completed_restores) < MaxCorrelatedTransfers
    BY <2>1, ConstantsAssumption DEF ReceiptTableFull
  <2>. QED
    BY <2>2, PutSize, DropSize, ConstantsAssumption DEF FiniteTables, WithinCapacity
<1>. QED  BY <1>3, <1>4, <1>5, <1>6

\* _recovery_admitted stores an admission whose roster it has just looked up.
LEMMA AddAdmission ==
  ASSUME TablesInv, NEW i \in Epoched, NEW roster \in Roster, NEW at \in Time,
         Cardinality(DOMAIN admissions) < MaxRecoveryAdmissions,
         RosterRestored(i, roster, at),
         admissions' = Put(admissions, i, [transfers |-> roster, at |-> at]),
         UNCHANGED <<pending, completed_restores>>
  PROVE  TablesInv'
<1>. USE DEF TablesInv
<1>a. DOMAIN admissions' = DOMAIN admissions \cup {i}
  BY PutFacts
<1>b. admissions'[i] = [transfers |-> roster, at |-> at]
  BY DEF Put
<1>c. \A j \in DOMAIN admissions \ {i} : admissions'[j] = admissions[j]
  BY DEF Put
<1>2. [transfers |-> roster, at |-> at] \in Admission
  BY DEF Admission, Roster
<1>3. TablesTyped'
  BY <1>a, <1>2, PutType DEF TablesTyped
<1>4. NeverPendingAndRestored'
  BY DEF NeverPendingAndRestored
<1>5. AdmissionsBacked'
  BY <1>a, <1>b, <1>c DEF AdmissionsBacked, RosterRestored
<1>6. FiniteTables' /\ WithinCapacity'
  BY PutSize, ConstantsAssumption DEF FiniteTables, WithinCapacity
<1>. QED  BY <1>3, <1>4, <1>5, <1>6

\* _first_compute removes its admission and the receipts it used.  They carry
\* its own identity, so no other admission relies on them.
LEMMA ConsumeAdmission ==
  ASSUME TablesInv, NEW i \in DOMAIN admissions,
         admissions' = Drop(admissions, {i}),
         completed_restores' = Drop(completed_restores, admissions[i].transfers),
         UNCHANGED pending
  PROVE  TablesInv'
<1>. USE DEF TablesInv
<1>a. DOMAIN admissions' = DOMAIN admissions \ {i}
  BY DropFacts
<1>b. \A j \in DOMAIN admissions \ {i} : admissions'[j] = admissions[j]
  BY DropFacts
<1>c. DOMAIN completed_restores' = DOMAIN completed_restores \ admissions[i].transfers
  BY DropFacts
<1>d. \A u \in DOMAIN completed_restores \ admissions[i].transfers :
        completed_restores'[u] = completed_restores[u]
  BY DropFacts
<1>2. TablesTyped'
  BY <1>a, <1>c, DropType DEF TablesTyped
<1>3. NeverPendingAndRestored'
  BY <1>c DEF NeverPendingAndRestored
<1>4. AdmissionsBacked'
  <2>1. ASSUME NEW j \in DOMAIN admissions', NEW t \in admissions[j].transfers
        PROVE  /\ t \in DOMAIN completed_restores'
               /\ completed_restores'[t].identity = j
               /\ completed_restores'[t].at <= admissions[j].at
    <3>1. /\ t \in DOMAIN completed_restores
          /\ completed_restores[t].identity = j
          /\ completed_restores[t].at <= admissions[j].at
      BY <1>a, <2>1 DEF AdmissionsBacked, RosterRestored
    <3>2. t \notin admissions[i].transfers
      BY <1>a, <2>1, <3>1 DEF AdmissionsBacked, RosterRestored
    <3>. QED  BY <1>c, <1>d, <3>1, <3>2
  <2>2. \A j \in DOMAIN admissions' : admissions'[j] = admissions[j]
    BY <1>a, <1>b
  <2>. QED  BY <2>1, <2>2 DEF AdmissionsBacked, RosterRestored
<1>5. FiniteTables' /\ WithinCapacity'
  BY DropSize, ConstantsAssumption DEF FiniteTables, WithinCapacity
<1>. QED  BY <1>2, <1>3, <1>4, <1>5

NoTables ==
  /\ pending = Nothing
  /\ completed_restores = Nothing
  /\ admissions = Nothing

\* Empty tables satisfy everything: the first state, and close().
LEMMA EmptyTables == NoTables => TablesInv
<1>. SUFFICES ASSUME NoTables  PROVE TablesInv
  OBVIOUS
<1>. USE DEF NoTables
<1>1. /\ DOMAIN pending = {} /\ DOMAIN completed_restores = {}
      /\ DOMAIN admissions = {}
  BY NothingFacts
<1>2. TablesTyped
  BY <1>1, NothingFacts DEF TablesTyped
<1>3. FiniteTables /\ WithinCapacity
  BY <1>1, FS_EmptySet, ConstantsAssumption DEF FiniteTables, WithinCapacity
<1>4. NeverPendingAndRestored /\ AdmissionsBacked
  BY <1>1 DEF NeverPendingAndRestored, AdmissionsBacked
<1>. QED  BY <1>2, <1>3, <1>4 DEF TablesInv

-----------------------------------------------------------------------------
(* The ways a call ends, each keeping the flags and the history typed.     *)

\* A call that returns no record keeps the flags typed: whatever it counts is
\* a counter and evidence_valid is at most cleared.
LEMMA NoRecordFlags ==
  ASSUME FlagsTyped, counted' \in Counter, evidence_valid' \in BOOLEAN,
         closed' \in BOOLEAN, UNCHANGED emitted
  PROVE  FlagsTyped'
BY DEF FlagsTyped

\* A returned record extends the history.
LEMMA AcceptFlags ==
  ASSUME FlagsTyped, NEW r \in Record, Accept(r)
  PROVE  FlagsTyped'
BY DEF FlagsTyped, Accept, Counter

\* A rejected call preserves the invariant.
LEMMA RejectInv == IInv /\ Reject => IInv'
<1>. SUFFICES ASSUME IInv, Reject  PROVE IInv'
  OBVIOUS
<1>1. TablesInv'
  BY SameTables DEF IInv, Reject
<1>2. FlagsTyped'
  BY NoRecordFlags DEF IInv, Reject, FlagsTyped, Counter
<1>. QED  BY <1>1, <1>2 DEF IInv

\* A capacity loss keeps the flags typed.
LEMMA CapacityFlags == FlagsTyped /\ DisableForCapacity => FlagsTyped'
BY NoRecordFlags DEF DisableForCapacity, FlagsTyped, Counter

\* The event of a transfer record is a name, whatever the operation.
LEMMA EventType ==
  ASSUME NEW op
  PROVE  /\ Stream!StartedEvent(op) \in Event
         /\ Stream!CompletedEvent(op) \in Event
BY DEF Stream!StartedEvent, Stream!CompletedEvent, Event

\* The records of a transfer's start and end are canonical records.
LEMMA TransferRecordType ==
  ASSUME NEW e \in Event, NEW i \in Identity, NEW op \in Operation,
         NEW t \in Transfer, NEW at \in Time
  PROVE  Stream!TransferRecord(e, i, op, t, at) \in Record
BY DEF Stream!TransferRecord, Record

\* The records of an admission and of a first compute are canonical records.
LEMMA RecoveryRecordType ==
  ASSUME NEW e \in Event, NEW i \in Identity, NEW roster \in Roster, NEW at \in Time
  PROVE  Stream!RecoveryRecord(e, i, roster, at) \in Record
BY DEF Stream!RecoveryRecord, Stream!NoOperation, Record, Roster

-----------------------------------------------------------------------------
(* One lemma per handler.                                                  *)

\* _transfer_submitted preserves the invariant.
LEMMA SubmittedInv ==
  ASSUME IInv, NEW i \in Identity, NEW t \in Transfer, NEW op \in Operation,
         NEW at \in Time, TransferSubmitted(i, t, op, at)
  PROVE  IInv'
<1>1. CASE Duplicate(t) /\ Reject
  BY <1>1, RejectInv
<1>2. CASE DisableForCapacity /\ UNCHANGED pending
  <2>1. UNCHANGED tables
    BY <1>2 DEF DisableForCapacity, tables
  <2>. QED  BY <1>2, <2>1, SameTables, CapacityFlags DEF IInv
<1>3. CASE /\ ~Duplicate(t)
           /\ ~PendingFull
           /\ pending' = Put(pending, t, [identity |-> i, op |-> op, at |-> at])
           /\ Accept(Stream!TransferRecord(Stream!StartedEvent(op), i, op, t, at))
           /\ UNCHANGED <<completed_restores, admissions>>
  <2>1. [identity |-> i, op |-> op, at |-> at] \in Submission
    BY DEF Submission
  <2>2. TablesInv'
    BY <1>3, <2>1, AddPending DEF IInv
  <2>3. Stream!StartedEvent(op) \in Event
    BY EventType
  <2>4. FlagsTyped'
    BY <1>3, <2>3, TransferRecordType, AcceptFlags DEF IInv
  <2>. QED  BY <2>2, <2>4 DEF IInv
<1>. QED  BY <1>1, <1>2, <1>3 DEF TransferSubmitted

\* A pending submission has the type of one.
LEMMA PendingType ==
  ASSUME IInv, NEW t \in DOMAIN pending
  PROVE  /\ t \in Transfer
         /\ pending[t].identity \in Identity
         /\ pending[t].op \in Operation
         /\ pending[t].at \in Time
BY DEF IInv, TablesInv, TablesTyped, Submission

\* An end that returns its record and retains nothing preserves the invariant.
LEMMA EndInv ==
  ASSUME IInv, NEW t \in DOMAIN pending, NEW e \in Event, NEW at \in Time,
         EndPending(t),
         Accept(Stream!TransferRecord(e, pending[t].identity, pending[t].op, t, at)),
         UNCHANGED <<completed_restores, admissions>>
  PROVE  IInv'
<1>1. TablesInv'
  BY RemovePending DEF IInv, EndPending
<1>2. FlagsTyped'
  BY PendingType, TransferRecordType, AcceptFlags DEF IInv
<1>. QED  BY <1>1, <1>2 DEF IInv

\* _transfer_completed with success preserves the invariant: the submission is
\* dropped, or moves to the receipts.
LEMMA SucceededInv ==
  ASSUME IInv, NEW t \in Transfer, NEW at \in Time, NEW bytes \in BOOLEAN,
         NEW receipt \in Process \cup {NoReceipt},
         TransferSucceeded(t, at, bytes, receipt)
  PROVE  IInv'
<1>1. CASE Reject
  BY <1>1, RejectInv
<1>2. CASE EndPending(t) /\ DisableForCapacity
  <2>1. TablesInv'
    BY <1>2, RemovePending DEF IInv, EndPending, DisableForCapacity
  <2>. QED  BY <1>2, <2>1, CapacityFlags DEF IInv
<1>3. CASE /\ t \in DOMAIN pending
           /\ ~(Retains(t) /\ ReceiptTableFull)
           /\ completed_restores' =
                IF Retains(t)
                  THEN Put(completed_restores, t,
                           [identity |-> pending[t].identity, at |-> at])
                  ELSE completed_restores
           /\ EndPending(t)
           /\ Accept(Stream!TransferRecord(Stream!CompletedEvent(pending[t].op),
                       pending[t].identity, pending[t].op, t, at))
           /\ UNCHANGED admissions
  <2>1. Stream!CompletedEvent(pending[t].op) \in Event
    BY EventType
  <2>2. CASE ~Retains(t)
    BY <1>3, <2>1, <2>2, EndInv
  <2>3. CASE Retains(t)
    <3>1. [identity |-> pending[t].identity, at |-> at] \in CompletedRestore
      BY <1>3, PendingType DEF CompletedRestore
    <3>2. TablesInv'
      BY <1>3, <2>3, <3>1, MoveToRestored DEF IInv, EndPending
    <3>3. FlagsTyped'
      BY <1>3, <2>1, PendingType, TransferRecordType, AcceptFlags DEF IInv
    <3>. QED  BY <3>2, <3>3 DEF IInv
  <2>. QED  BY <2>2, <2>3
<1>. QED
  BY <1>1, <1>2, <1>3 DEF TransferSucceeded, RejectForeignReceipt, MatchesSubmission

\* _transfer_completed with failure preserves the invariant.
LEMMA FailedInv ==
  ASSUME IInv, NEW t \in Transfer, NEW at \in Time, NEW bytes \in BOOLEAN,
         NEW receipt \in Process \cup {NoReceipt},
         TransferFailed(t, at, bytes, receipt)
  PROVE  IInv'
<1>1. CASE Reject
  BY <1>1, RejectInv
<1>2. CASE /\ t \in DOMAIN pending
           /\ EndPending(t)
           /\ Accept(Stream!TransferRecord("transfer_failed",
                       pending[t].identity, pending[t].op, t, at))
           /\ UNCHANGED <<completed_restores, admissions>>
  <2>1. "transfer_failed" \in Event
    BY DEF Event
  <2>. QED  BY <1>2, <2>1, EndInv
<1>. QED  BY <1>1, <1>2 DEF TransferFailed, MatchesSubmission

\* _transfer_cancelled preserves the invariant.
LEMMA CancelledInv ==
  ASSUME IInv, NEW t \in Transfer, NEW at \in Time, TransferCancelled(t, at)
  PROVE  IInv'
<1>1. CASE Reject
  BY <1>1, RejectInv
<1>2. CASE /\ t \in DOMAIN pending
           /\ EndPending(t)
           /\ Accept(Stream!TransferRecord("transfer_cancelled",
                       pending[t].identity, pending[t].op, t, at))
           /\ UNCHANGED <<completed_restores, admissions>>
  <2>1. "transfer_cancelled" \in Event
    BY DEF Event
  <2>. QED  BY <1>2, <2>1, EndInv
<1>. QED  BY <1>1, <1>2 DEF TransferCancelled

\* _recovery_admitted preserves the invariant.
LEMMA AdmittedInv ==
  ASSUME IInv, NEW i \in Identity, NEW roster \in Roster, NEW at \in Time,
         RecoveryAdmitted(i, roster, at)
  PROVE  IInv'
<1>1. CASE Reject
  BY <1>1, RejectInv
<1>2. CASE DisableForCapacity /\ UNCHANGED pending
  <2>1. UNCHANGED tables
    BY <1>2 DEF DisableForCapacity, tables
  <2>. QED  BY <1>2, <2>1, SameTables, CapacityFlags DEF IInv
<1>3. CASE /\ i \in Epoched
           /\ Cardinality(DOMAIN admissions) < MaxRecoveryAdmissions
           /\ RosterRestored(i, roster, at)
           /\ admissions' = Put(admissions, i, [transfers |-> roster, at |-> at])
           /\ Accept(Stream!RecoveryRecord("recovery_admitted", i, roster, at))
           /\ UNCHANGED <<pending, completed_restores>>
  <2>1. TablesInv'
    BY <1>3, AddAdmission DEF IInv
  <2>2. Stream!RecoveryRecord("recovery_admitted", i, roster, at) \in Record
    BY RecoveryRecordType DEF Event
  <2>3. FlagsTyped'
    BY <1>3, <2>2, AcceptFlags DEF IInv
  <2>. QED  BY <2>1, <2>3 DEF IInv
<1>. QED  BY <1>1, <1>2, <1>3 DEF RecoveryAdmitted

\* _first_compute preserves the invariant.
LEMMA FirstComputeInv ==
  ASSUME IInv, NEW i \in Identity, NEW roster \in Roster, NEW receipt \in Process,
         NEW at \in Time, FirstCompute(i, roster, receipt, at)
  PROVE  IInv'
<1>1. CASE /\ evidence_valid' = FALSE
           /\ counted' = "invalid"
           /\ UNCHANGED <<tables, closed, emitted>>
  <2>1. TablesInv'
    BY <1>1, SameTables DEF IInv
  <2>2. FlagsTyped'
    BY <1>1, NoRecordFlags DEF IInv, FlagsTyped, Counter
  <2>. QED  BY <2>1, <2>2 DEF IInv
<1>2. CASE /\ MatchesAdmission(i, roster, receipt, at)
           /\ admissions' = Drop(admissions, {i})
           /\ ConsumeRestores(roster)
           /\ Accept(Stream!RecoveryRecord("first_compute", i, roster, at))
           /\ UNCHANGED pending
  <2>1. i \in DOMAIN admissions /\ admissions[i].transfers = roster
    BY <1>2 DEF MatchesAdmission
  <2>2. TablesInv'
    BY <1>2, <2>1, ConsumeAdmission DEF IInv, ConsumeRestores
  <2>3. Stream!RecoveryRecord("first_compute", i, roster, at) \in Record
    BY RecoveryRecordType DEF Event
  <2>4. FlagsTyped'
    BY <1>2, <2>3, AcceptFlags DEF IInv
  <2>. QED  BY <2>2, <2>4 DEF IInv
<1>. QED  BY <1>1, <1>2 DEF FirstCompute

\* close() preserves the invariant: it clears the tables.
LEMMA CloseInv == IInv /\ Close => IInv'
<1>0. NoTables' => TablesInv'
  BY EmptyTables, PTL
<1>. SUFFICES ASSUME IInv, Close  PROVE IInv'
  OBVIOUS
<1>1. TablesInv'
  BY <1>0 DEF Close, NoTables, Nothing
<1>2. FlagsTyped'
  BY NoRecordFlags DEF Close, IInv, FlagsTyped, Counter
<1>. QED  BY <1>1, <1>2 DEF IInv

-----------------------------------------------------------------------------
(* The theorems.                                                           *)

\* The first state satisfies the invariant.
LEMMA InitInv == Init => IInv
<1>. SUFFICES ASSUME Init  PROVE IInv
  OBVIOUS
<1>1. TablesInv
  BY EmptyTables DEF Init, NoTables
<1>2. FlagsTyped
  <2>1. emitted \in Seq(Record)
    BY DEF Init
  <2>. QED  BY <2>1 DEF Init, FlagsTyped, Counter
<1>. QED  BY <1>1, <1>2 DEF IInv

\* Every call, whatever its arguments and whoever makes it, preserves the
\* invariant.
LEMMA StepInv == IInv /\ [Next]_vars => IInv'
<1>. SUFFICES ASSUME IInv, [Next]_vars  PROVE IInv'
  OBVIOUS
<1>1. CASE DropClosed \/ DropDisabled
  <2>1. TablesInv'
    BY <1>1, SameTables DEF IInv, DropClosed, DropDisabled
  <2>2. FlagsTyped'
    BY <1>1 DEF DropClosed, DropDisabled, IInv, FlagsTyped, Counter
  <2>. QED  BY <2>1, <2>2 DEF IInv
<1>2. ASSUME NEW i \in Identity, NEW t \in Transfer, NEW op \in Operation,
             NEW at \in Time, TransferSubmitted(i, t, op, at)
      PROVE  IInv'
  BY <1>2, SubmittedInv
<1>3. ASSUME NEW t \in Transfer, NEW at \in Time, NEW bytes \in BOOLEAN,
             NEW receipt \in Process \cup {NoReceipt},
             \/ TransferSucceeded(t, at, bytes, receipt)
             \/ TransferFailed(t, at, bytes, receipt)
      PROVE  IInv'
  BY <1>3, SucceededInv, FailedInv
<1>4. ASSUME NEW t \in Transfer, NEW at \in Time, TransferCancelled(t, at)
      PROVE  IInv'
  BY <1>4, CancelledInv
<1>5. ASSUME NEW i \in Identity, RecoveryRequeued(i)
      PROVE  IInv'
  <2>1. CASE Reject
    BY <2>1, RejectInv
  <2>2. CASE counted' = "accepted" /\ UNCHANGED <<tables, evidence_valid, closed, emitted>>
    <3>1. TablesInv'
      BY <2>2, SameTables DEF IInv
    <3>2. FlagsTyped'
      BY <2>2 DEF IInv, FlagsTyped, Counter
    <3>. QED  BY <3>1, <3>2 DEF IInv
  <2>. QED  BY <1>5, <2>1, <2>2 DEF RecoveryRequeued
<1>6. ASSUME NEW i \in Identity, NEW roster \in Roster, NEW at \in Time,
             RecoveryAdmitted(i, roster, at)
      PROVE  IInv'
  BY <1>6, AdmittedInv
<1>7. ASSUME NEW i \in Identity, NEW roster \in Roster, NEW receipt \in Process,
             NEW at \in Time, FirstCompute(i, roster, receipt, at)
      PROVE  IInv'
  BY <1>7, FirstComputeInv
<1>8. CASE Close
  BY <1>8, CloseInv
<1>9. CASE UNCHANGED vars
  <2>1. TablesInv'
    BY <1>9, SameTables DEF IInv, vars
  <2>2. FlagsTyped'
    BY <1>9 DEF IInv, FlagsTyped, vars
  <2>. QED  BY <2>1, <2>2 DEF IInv
<1>. QED
  BY <1>1, <1>2, <1>3, <1>4, <1>5, <1>6, <1>7, <1>8, <1>9 DEF Next, Normalize

\* IInv holds after any sequence of calls.
THEOREM Invariance == Spec => []IInv
BY InitInv, StepInv, PTL DEF Spec

\* The tables, flags and returned records of normalization.py keep their types.
THEOREM TypeCorrect == Spec => []TypeOK
<1>1. IInv => TypeOK
  BY DEF IInv, TablesInv, TablesTyped, FlagsTyped, TypeOK
<1>. QED  BY Invariance, <1>1, PTL

\* Every outstanding admission finds all its restores still retained, completed
\* for its own identity and not after it, however calls interleave.
THEOREM AdmissionsStayBacked == Spec => []AdmissionsBacked
<1>1. IInv => AdmissionsBacked
  BY DEF IInv, TablesInv
<1>. QED  BY Invariance, <1>1, PTL

\* A transfer never awaits its end while a receipt of it awaits compute.
THEOREM TablesStayDisjoint == Spec => []NeverPendingAndRestored
<1>1. IInv => NeverPendingAndRestored
  BY DEF IInv, TablesInv
<1>. QED  BY Invariance, <1>1, PTL

\* The tables never exceed the limits given to the constructor.
THEOREM TablesStayBounded == Spec => []WithinCapacity
<1>1. IInv => WithinCapacity
  BY DEF IInv, TablesInv
<1>. QED  BY Invariance, <1>1, PTL

\* A call that counts an invalid record edits no table: whatever the handler,
\* it raises before its first assignment.
THEOREM InvalidIsAtomic == Spec => InvalidLeavesTables
<1>1. ASSUME [Next]_vars  PROVE [counted' = "invalid" => UNCHANGED tables]_vars
  <2>. SUFFICES ASSUME Next, counted' = "invalid"  PROVE UNCHANGED tables
    BY <1>1
  <2>. QED
    BY DEF Next, Normalize, DropClosed, DropDisabled, TransferSubmitted,
           TransferSucceeded, TransferFailed, TransferCancelled, RecoveryRequeued,
           RecoveryAdmitted, FirstCompute, Close, Accept, Reject,
           DisableForCapacity, RejectForeignReceipt
<1>. QED  BY <1>1, PTL DEF Spec, InvalidLeavesTables

-----------------------------------------------------------------------------
(***************************************************************************)
(* The promise of CanonicalStream: the refinement, and the chain behind    *)
(* each first compute.                                                     *)
(*                                                                         *)
(* The abstract stream decides what may come next by looking back over the *)
(* records; the normalizer decides by its tables.  Linked says that, while *)
(* evidence is produced, the two agree: an entry of a table is a record of *)
(* the stream nothing has answered yet.                                    *)
(***************************************************************************)

\* The record of the submission of t, which has not ended.
SubmissionRecorded(t) ==
  \E k \in DOMAIN emitted :
    /\ Stream!Open(emitted, k, t)
    /\ emitted[k].identity = pending[t].identity
    /\ emitted[k].op = pending[t].op
    /\ emitted[k].at = pending[t].at

\* The record of the completed restore of t, which nobody has used.
RestoreRecorded(t) ==
  \E k \in DOMAIN emitted :
    /\ Stream!Usable(emitted, k, t)
    /\ emitted[k].transfers = {t}
    /\ emitted[k].identity = completed_restores[t].identity
    /\ emitted[k].at = completed_restores[t].at

\* The record of the admission of i and, before it, of the restores it names.
AdmissionRecorded(i) ==
  \E a \in DOMAIN emitted :
    /\ Stream!Outstanding(emitted, a, i)
    /\ emitted[a].transfers = admissions[i].transfers
    /\ emitted[a].at = admissions[i].at
    /\ \A t \in emitted[a].transfers : \E c \in 1 .. (a - 1) :
         /\ Stream!Usable(emitted, c, t)
         /\ emitted[c].transfers = {t}
         /\ emitted[c].identity = i
         /\ emitted[c].at <= emitted[a].at

EntriesRecorded ==
  /\ \A t \in DOMAIN pending : SubmissionRecorded(t)
  /\ \A t \in DOMAIN completed_restores : RestoreRecorded(t)
  /\ \A i \in DOMAIN admissions : AdmissionRecorded(i)

\* No record awaits an answer without an entry in the table of its kind.
RecordsEntered ==
  \A k \in DOMAIN emitted :
    /\ \A t \in Transfer : Stream!Open(emitted, k, t) => t \in DOMAIN pending
    /\ RetainRestoreReceipts =>
         \A t \in Transfer :
           Stream!Usable(emitted, k, t) => t \in DOMAIN completed_restores
    /\ \A i \in Identity :
         Stream!Outstanding(emitted, k, i) => i \in DOMAIN admissions

Linked == EntriesRecorded /\ RecordsEntered

StreamInv == IInv /\ (Serving => Linked) /\ FirstComputeBacked
-----------------------------------------------------------------------------
(* Looking back over a history that has grown by one record.               *)

\* What normalize() does to the history when it returns a record.
LEMMA AcceptFacts ==
  ASSUME emitted \in Seq(Record), NEW r \in Record, Accept(r)
  PROVE  /\ emitted' = Append(emitted, r)
         /\ Len(emitted) \in Nat /\ Len(emitted') = Len(emitted) + 1
         /\ DOMAIN emitted = 1 .. Len(emitted)
         /\ DOMAIN emitted' = 1 .. (Len(emitted) + 1)
         /\ \A k \in DOMAIN emitted : emitted'[k] = emitted[k]
         /\ emitted'[Len(emitted) + 1] = r
BY DEF Accept

\* An earlier record keeps its standing unless the new record answers it.
LEMMA OldRecord ==
  ASSUME emitted \in Seq(Record), NEW r \in Record, Accept(r),
         NEW k \in DOMAIN emitted
  PROVE  /\ \A t : Stream!Open(emitted', k, t)
                     <=> Stream!Open(emitted, k, t) /\ ~Stream!Touches(r, t)
         /\ \A t : Stream!Usable(emitted', k, t)
                     <=> /\ Stream!Usable(emitted, k, t)
                         /\ ~Stream!Touches(r, t) /\ ~Stream!Consumes(r, t)
         /\ \A i : Stream!Outstanding(emitted', k, i)
                     <=> /\ Stream!Outstanding(emitted, k, i)
                         /\ ~(r.event = "first_compute" /\ r.identity = i)
<1>1. /\ emitted'[k] = emitted[k]
      /\ \A m : m \in (k + 1) .. Len(emitted')
                  <=> m \in (k + 1) .. Len(emitted) \/ m = Len(emitted) + 1
      /\ \A m \in (k + 1) .. Len(emitted) : emitted'[m] = emitted[m]
      /\ emitted'[Len(emitted) + 1] = r
  BY AcceptFacts
<1>. QED  BY <1>1 DEF Stream!Open, Stream!Usable, Stream!Outstanding

\* The standing of the new record itself.
LEMMA NewRecord ==
  ASSUME emitted \in Seq(Record), NEW r \in Record, Accept(r),
         NEW k, k = Len(emitted) + 1
  PROVE  /\ emitted'[k] = r
         /\ \A t : Stream!Open(emitted', k, t)
                     <=> r.event \in Stream!StartEvents /\ t \in r.transfers
         /\ \A t : Stream!Usable(emitted', k, t)
                     <=> r.event = "restore_completed" /\ t \in r.transfers
         /\ \A i : Stream!Outstanding(emitted', k, i)
                     <=> r.event = "recovery_admitted" /\ r.identity = i
<1>1. emitted'[k] = r /\ \A m : m \notin (k + 1) .. Len(emitted')
  BY AcceptFacts
<1>. QED  BY <1>1 DEF Stream!Open, Stream!Usable, Stream!Outstanding

\* A transfer's record is about that transfer only; it consumes nothing.
LEMMA TransferRecordFacts ==
  ASSUME NEW r, NEW t, r.op \in Operation, r.transfers = {t},
         r.event # "first_compute"
  PROVE  /\ \A u : Stream!Touches(r, u) <=> u = t
         /\ \A u : ~Stream!Consumes(r, u)
BY ConstantsAssumption DEF Stream!Touches, Stream!Consumes, Stream!NoOperation

\* A recovery record is no event of a transfer; a first compute consumes.
LEMMA RecoveryRecordFacts ==
  ASSUME NEW e, NEW i, NEW roster, NEW at, NEW r,
         r = Stream!RecoveryRecord(e, i, roster, at)
  PROVE  /\ r.event = e /\ r.identity = i /\ r.at = at /\ r.transfers = roster
         /\ \A u : ~Stream!Touches(r, u)
         /\ \A u : Stream!Consumes(r, u) <=> e = "first_compute" /\ u \in roster
BY DEF Stream!RecoveryRecord, Stream!Touches, Stream!Consumes, Stream!NoOperation

-----------------------------------------------------------------------------
(* What a new record leaves linked.                                        *)

\* A submission stays recorded when the new record is not about its transfer.
LEMMA KeepsSubmission ==
  ASSUME emitted \in Seq(Record), NEW r \in Record, Accept(r),
         NEW t, SubmissionRecorded(t),
         ~Stream!Touches(r, t), pending'[t] = pending[t]
  PROVE  SubmissionRecorded(t)'
<1>1. PICK k \in DOMAIN emitted :
        /\ Stream!Open(emitted, k, t)
        /\ emitted[k].identity = pending[t].identity
        /\ emitted[k].op = pending[t].op
        /\ emitted[k].at = pending[t].at
  BY DEF SubmissionRecorded
<1>2. k \in DOMAIN emitted' /\ emitted'[k] = emitted[k]
  BY AcceptFacts
<1>3. Stream!Open(emitted', k, t)
  BY <1>1, OldRecord
<1>. QED  BY <1>1, <1>2, <1>3 DEF SubmissionRecorded

\* A receipt stays recorded when the new record neither touches nor uses it.
LEMMA KeepsRestore ==
  ASSUME emitted \in Seq(Record), NEW r \in Record, Accept(r),
         NEW t, RestoreRecorded(t),
         ~Stream!Touches(r, t), ~Stream!Consumes(r, t),
         completed_restores'[t] = completed_restores[t]
  PROVE  RestoreRecorded(t)'
<1>1. PICK k \in DOMAIN emitted :
        /\ Stream!Usable(emitted, k, t)
        /\ emitted[k].transfers = {t}
        /\ emitted[k].identity = completed_restores[t].identity
        /\ emitted[k].at = completed_restores[t].at
  BY DEF RestoreRecorded
<1>2. k \in DOMAIN emitted' /\ emitted'[k] = emitted[k]
  BY AcceptFacts
<1>3. Stream!Usable(emitted', k, t)
  BY <1>1, OldRecord
<1>. QED  BY <1>1, <1>2, <1>3 DEF RestoreRecorded

\* An admission stays recorded, with its restores, when the new record neither
\* touches nor uses them and is not its own first compute.
LEMMA KeepsAdmission ==
  ASSUME emitted \in Seq(Record), NEW r \in Record, Accept(r),
         NEW i, AdmissionRecorded(i), admissions'[i] = admissions[i],
         ~(r.event = "first_compute" /\ r.identity = i),
         \A t \in admissions[i].transfers :
            ~Stream!Touches(r, t) /\ ~Stream!Consumes(r, t)
  PROVE  AdmissionRecorded(i)'
<1>1. PICK a \in DOMAIN emitted :
        /\ Stream!Outstanding(emitted, a, i)
        /\ emitted[a].transfers = admissions[i].transfers
        /\ emitted[a].at = admissions[i].at
        /\ \A t \in emitted[a].transfers : \E c \in 1 .. (a - 1) :
             /\ Stream!Usable(emitted, c, t)
             /\ emitted[c].transfers = {t}
             /\ emitted[c].identity = i
             /\ emitted[c].at <= emitted[a].at
  BY DEF AdmissionRecorded
<1>2. a \in DOMAIN emitted' /\ emitted'[a] = emitted[a]
  BY AcceptFacts
<1>3. Stream!Outstanding(emitted', a, i)
  BY <1>1, OldRecord
<1>4. ASSUME NEW t \in emitted'[a].transfers
      PROVE  \E c \in 1 .. (a - 1) :
               /\ Stream!Usable(emitted', c, t)
               /\ emitted'[c].transfers = {t}
               /\ emitted'[c].identity = i
               /\ emitted'[c].at <= emitted'[a].at
  <2>1. PICK c \in 1 .. (a - 1) :
          /\ Stream!Usable(emitted, c, t)
          /\ emitted[c].transfers = {t}
          /\ emitted[c].identity = i
          /\ emitted[c].at <= emitted[a].at
    BY <1>1, <1>2
  <2>2. c \in DOMAIN emitted /\ emitted'[c] = emitted[c]
    BY AcceptFacts
  <2>3. Stream!Usable(emitted', c, t)
    BY <1>1, <1>2, <2>1, <2>2, OldRecord
  <2>. QED  BY <1>2, <2>1, <2>2, <2>3
<1>. QED  BY <1>1, <1>2, <1>3, <1>4 DEF AdmissionRecorded

\* Records stay entered when every entry a call removes is answered by its
\* record, and a record that awaits an answer is entered.
LEMMA KeepsEntered ==
  ASSUME emitted \in Seq(Record), NEW r \in Record, Accept(r), RecordsEntered,
         r.event \in Stream!StartEvents => r.transfers \subseteq DOMAIN pending',
         \A t \in DOMAIN pending \ DOMAIN pending' : Stream!Touches(r, t),
         RetainRestoreReceipts /\ r.event = "restore_completed"
           => r.transfers \subseteq DOMAIN completed_restores',
         \A t \in DOMAIN completed_restores \ DOMAIN completed_restores' :
           Stream!Touches(r, t) \/ Stream!Consumes(r, t),
         r.event = "recovery_admitted" => r.identity \in DOMAIN admissions',
         \A i \in DOMAIN admissions \ DOMAIN admissions' :
           r.event = "first_compute" /\ r.identity = i
  PROVE  RecordsEntered'
<1>1. ASSUME NEW k \in DOMAIN emitted
      PROVE  /\ \A t \in Transfer :
                  Stream!Open(emitted', k, t) => t \in DOMAIN pending'
             /\ RetainRestoreReceipts => \A t \in Transfer :
                  Stream!Usable(emitted', k, t) => t \in DOMAIN completed_restores'
             /\ \A i \in Identity :
                  Stream!Outstanding(emitted', k, i) => i \in DOMAIN admissions'
  BY OldRecord DEF RecordsEntered
<1>2. ASSUME NEW k, k = Len(emitted) + 1
      PROVE  /\ \A t \in Transfer :
                  Stream!Open(emitted', k, t) => t \in DOMAIN pending'
             /\ RetainRestoreReceipts => \A t \in Transfer :
                  Stream!Usable(emitted', k, t) => t \in DOMAIN completed_restores'
             /\ \A i \in Identity :
                  Stream!Outstanding(emitted', k, i) => i \in DOMAIN admissions'
  BY <1>2, NewRecord
<1>3. \A k \in DOMAIN emitted' : k \in DOMAIN emitted \/ k = Len(emitted) + 1
  BY AcceptFacts
<1>. QED  BY <1>1, <1>2, <1>3 DEF RecordsEntered

-----------------------------------------------------------------------------
(* One lemma per record normalize() returns.                               *)

\* The transfers an admission relies on are retained, hence not pending.
LEMMA RosterRetained ==
  ASSUME IInv, NEW i \in DOMAIN admissions, NEW t \in admissions[i].transfers
  PROVE  /\ t \in DOMAIN completed_restores
         /\ t \notin DOMAIN pending
         /\ completed_restores[t].identity = i
BY DEF IInv, TablesInv, AdmissionsBacked, RosterRestored, NeverPendingAndRestored

\* The event of a start is a start event, and the events of ends are not.
LEMMA StartEventFacts ==
  ASSUME NEW op
  PROVE  /\ Stream!StartedEvent(op) \in Stream!StartEvents
         /\ Stream!StartedEvent(op) \in Event \ {"first_compute", "recovery_admitted"}
         /\ Stream!StartedEvent(op) # "restore_completed"
         /\ Stream!CompletedEvent(op) \in Event \ {"first_compute", "recovery_admitted"}
         /\ Stream!CompletedEvent(op) \notin Stream!StartEvents
BY DEF Stream!StartedEvent, Stream!CompletedEvent, Stream!StartEvents, Event

\* A submission that is stored links its record.
LEMMA StartLinked ==
  ASSUME IInv, Linked, NEW i \in Identity, NEW t \in Transfer,
         NEW op \in Operation, NEW at \in Time, NEW r \in Record,
         r = Stream!TransferRecord(Stream!StartedEvent(op), i, op, t, at),
         ~Duplicate(t),
         pending' = Put(pending, t, [identity |-> i, op |-> op, at |-> at]),
         Accept(r), UNCHANGED <<completed_restores, admissions>>
  PROVE  Linked'
<1>0. emitted \in Seq(Record)
  BY DEF IInv, FlagsTyped
<1>1. /\ r.event \in Stream!StartEvents /\ r.event # "restore_completed"
      /\ r.event # "recovery_admitted" /\ r.event # "first_compute"
      /\ r.identity = i /\ r.op = op /\ r.at = at /\ r.transfers = {t}
      /\ \A u : Stream!Touches(r, u) <=> u = t
      /\ \A u : ~Stream!Consumes(r, u)
  <2>. DEFINE e == Stream!StartedEvent(op)
  <2>1. /\ e \in Stream!StartEvents /\ e # "restore_completed"
        /\ e \in Event \ {"first_compute", "recovery_admitted"}
    BY StartEventFacts
  <2>2. r = Stream!TransferRecord(e, i, op, t, at)
    OBVIOUS
  <2>. HIDE DEF e
  <2>3. /\ r.event = e /\ r.identity = i /\ r.op = op /\ r.at = at
        /\ r.transfers = {t}
    BY <2>2 DEF Stream!TransferRecord
  <2>4. e # "recovery_admitted" /\ e # "first_compute"
    BY <2>1
  <2>. QED  BY <2>1, <2>3, <2>4, TransferRecordFacts
<1>2. /\ DOMAIN pending' = DOMAIN pending \cup {t}
      /\ pending'[t] = [identity |-> i, op |-> op, at |-> at]
      /\ \A u \in DOMAIN pending \ {t} : pending'[u] = pending[u]
  BY DEF Put
<1>3. t \notin DOMAIN pending /\ t \notin DOMAIN completed_restores
  BY DEF Duplicate
<1>4. ASSUME NEW u \in DOMAIN pending'  PROVE SubmissionRecorded(u)'
  <2>1. CASE u = t
    <3>. DEFINE k == Len(emitted) + 1
    <3>1. k \in DOMAIN emitted' /\ emitted'[k] = r
      BY <1>0, AcceptFacts
    <3>2. Stream!Open(emitted', k, t)
      BY <1>0, <1>1, NewRecord
    <3>. QED  BY <1>1, <1>2, <2>1, <3>1, <3>2 DEF SubmissionRecorded
  <2>2. CASE u # t
    BY <1>0, <1>1, <1>2, <1>4, <2>2, KeepsSubmission DEF Linked, EntriesRecorded
  <2>. QED  BY <2>1, <2>2
<1>5. ASSUME NEW u \in DOMAIN completed_restores'  PROVE RestoreRecorded(u)'
  BY <1>0, <1>1, <1>3, <1>5, KeepsRestore DEF Linked, EntriesRecorded
<1>6. ASSUME NEW j \in DOMAIN admissions'  PROVE AdmissionRecorded(j)'
  BY <1>0, <1>1, <1>3, <1>6, RosterRetained, KeepsAdmission DEF Linked, EntriesRecorded
<1>7. RecordsEntered'
  BY <1>0, <1>1, <1>2, KeepsEntered DEF Linked
<1>. QED  BY <1>4, <1>5, <1>6, <1>7 DEF Linked, EntriesRecorded

\* An end that retains no receipt leaves the other entries linked.
LEMMA EndLinked ==
  ASSUME IInv, Linked, NEW t \in DOMAIN pending,
         NEW e \in Event \ {"first_compute", "recovery_admitted"},
         e \notin Stream!StartEvents,
         e = "restore_completed" => ~RetainRestoreReceipts,
         NEW at \in Time, NEW r \in Record,
         r = Stream!TransferRecord(e, pending[t].identity, pending[t].op, t, at),
         EndPending(t), Accept(r), UNCHANGED <<completed_restores, admissions>>
  PROVE  Linked'
<1>0. emitted \in Seq(Record)
  BY DEF IInv, FlagsTyped
<1>1. /\ r.event = e /\ r.transfers = {t}
      /\ \A u : Stream!Touches(r, u) <=> u = t
      /\ \A u : ~Stream!Consumes(r, u)
  <2>1. pending[t].op \in Operation
    BY PendingType
  <2>2. r.event = e /\ r.op = pending[t].op /\ r.transfers = {t}
    BY DEF Stream!TransferRecord
  <2>. QED  BY <2>1, <2>2, TransferRecordFacts
<1>2. /\ DOMAIN pending' = DOMAIN pending \ {t}
      /\ \A u \in DOMAIN pending \ {t} : pending'[u] = pending[u]
  BY DropFacts DEF EndPending
<1>3. t \notin DOMAIN completed_restores
  BY DEF IInv, TablesInv, NeverPendingAndRestored
<1>4. ASSUME NEW u \in DOMAIN pending'  PROVE SubmissionRecorded(u)'
  BY <1>0, <1>1, <1>2, <1>4, KeepsSubmission DEF Linked, EntriesRecorded
<1>5. ASSUME NEW u \in DOMAIN completed_restores'  PROVE RestoreRecorded(u)'
  BY <1>0, <1>1, <1>3, <1>5, KeepsRestore DEF Linked, EntriesRecorded
<1>6. ASSUME NEW j \in DOMAIN admissions'  PROVE AdmissionRecorded(j)'
  BY <1>0, <1>1, <1>6, RosterRetained, KeepsAdmission DEF Linked, EntriesRecorded
<1>7. RecordsEntered'
  BY <1>0, <1>1, <1>2, KeepsEntered DEF Linked
<1>. QED  BY <1>4, <1>5, <1>6, <1>7 DEF Linked, EntriesRecorded

\* A completion whose receipt is retained links the receipt with its record.
LEMMA CompleteLinked ==
  ASSUME IInv, Linked, NEW t \in DOMAIN pending, Retains(t),
         NEW at \in Time, NEW r \in Record,
         r = Stream!TransferRecord(Stream!CompletedEvent(pending[t].op),
               pending[t].identity, pending[t].op, t, at),
         EndPending(t),
         completed_restores' = Put(completed_restores, t,
                                   [identity |-> pending[t].identity, at |-> at]),
         Accept(r), UNCHANGED admissions
  PROVE  Linked'
<1>0. emitted \in Seq(Record)
  BY DEF IInv, FlagsTyped
<1>1. /\ r.event = "restore_completed" /\ r.identity = pending[t].identity
      /\ r.at = at /\ r.transfers = {t}
      /\ \A u : Stream!Touches(r, u) <=> u = t
      /\ \A u : ~Stream!Consumes(r, u)
  <2>. DEFINE e == Stream!CompletedEvent(pending[t].op)
  <2>1. e = "restore_completed" /\ e \in Event \ {"first_compute", "recovery_admitted"}
    BY DEF Retains, Stream!CompletedEvent, Event
  <2>2. pending[t].op \in Operation
    BY PendingType
  <2>3. r = Stream!TransferRecord(e, pending[t].identity, pending[t].op, t, at)
    OBVIOUS
  <2>. HIDE DEF e
  <2>4. /\ r.event = e /\ r.identity = pending[t].identity
        /\ r.op = pending[t].op /\ r.at = at /\ r.transfers = {t}
    BY <2>3 DEF Stream!TransferRecord
  <2>. QED  BY <2>1, <2>2, <2>4, TransferRecordFacts
<1>2. /\ DOMAIN pending' = DOMAIN pending \ {t}
      /\ \A u \in DOMAIN pending \ {t} : pending'[u] = pending[u]
  BY DropFacts DEF EndPending
<1>3. /\ DOMAIN completed_restores' = DOMAIN completed_restores \cup {t}
      /\ completed_restores'[t] = [identity |-> pending[t].identity, at |-> at]
      /\ \A u \in DOMAIN completed_restores \ {t} :
           completed_restores'[u] = completed_restores[u]
  BY DEF Put
<1>4. ASSUME NEW u \in DOMAIN pending'  PROVE SubmissionRecorded(u)'
  BY <1>0, <1>1, <1>2, <1>4, KeepsSubmission DEF Linked, EntriesRecorded
<1>5. ASSUME NEW u \in DOMAIN completed_restores'  PROVE RestoreRecorded(u)'
  <2>1. CASE u = t
    <3>. DEFINE k == Len(emitted) + 1
    <3>1. k \in DOMAIN emitted' /\ emitted'[k] = r
      BY <1>0, AcceptFacts
    <3>2. Stream!Usable(emitted', k, t)
      BY <1>0, <1>1, NewRecord
    <3>. QED  BY <1>1, <1>3, <2>1, <3>1, <3>2 DEF RestoreRecorded
  <2>2. CASE u # t
    BY <1>0, <1>1, <1>3, <1>5, <2>2, KeepsRestore DEF Linked, EntriesRecorded
  <2>. QED  BY <2>1, <2>2
<1>6. ASSUME NEW j \in DOMAIN admissions'  PROVE AdmissionRecorded(j)'
  BY <1>0, <1>1, <1>6, RosterRetained, KeepsAdmission DEF Linked, EntriesRecorded
<1>7. RecordsEntered'
  BY <1>0, <1>1, <1>2, <1>3, KeepsEntered DEF Linked, Stream!StartEvents
<1>. QED  BY <1>4, <1>5, <1>6, <1>7 DEF Linked, EntriesRecorded

\* An admission links its record with those of the restores it names.
LEMMA AdmitLinked ==
  ASSUME IInv, Linked, NEW i \in Epoched, i \notin DOMAIN admissions,
         NEW roster \in Roster, NEW at \in Time, NEW r \in Record,
         r = Stream!RecoveryRecord("recovery_admitted", i, roster, at),
         RosterRestored(i, roster, at),
         admissions' = Put(admissions, i, [transfers |-> roster, at |-> at]),
         Accept(r), UNCHANGED <<pending, completed_restores>>
  PROVE  Linked'
<1>0. emitted \in Seq(Record)
  BY DEF IInv, FlagsTyped
<1>1. /\ r.event = "recovery_admitted" /\ r.identity = i
      /\ r.at = at /\ r.transfers = roster
      /\ \A u : ~Stream!Touches(r, u) /\ ~Stream!Consumes(r, u)
  BY RecoveryRecordFacts
<1>2. /\ DOMAIN admissions' = DOMAIN admissions \cup {i}
      /\ admissions'[i] = [transfers |-> roster, at |-> at]
      /\ \A j \in DOMAIN admissions \ {i} : admissions'[j] = admissions[j]
  BY DEF Put
<1>4. ASSUME NEW u \in DOMAIN pending'  PROVE SubmissionRecorded(u)'
  BY <1>0, <1>1, <1>4, KeepsSubmission DEF Linked, EntriesRecorded
<1>5. ASSUME NEW u \in DOMAIN completed_restores'  PROVE RestoreRecorded(u)'
  BY <1>0, <1>1, <1>5, KeepsRestore DEF Linked, EntriesRecorded
<1>6. ASSUME NEW j \in DOMAIN admissions'  PROVE AdmissionRecorded(j)'
  <2>1. CASE j = i
    <3>. DEFINE a == Len(emitted) + 1
    <3>1. a \in DOMAIN emitted' /\ emitted'[a] = r
      BY <1>0, AcceptFacts
    <3>2. Stream!Outstanding(emitted', a, i)
      BY <1>0, <1>1, NewRecord
    <3>3. ASSUME NEW t \in roster
          PROVE  \E c \in 1 .. (a - 1) :
                   /\ Stream!Usable(emitted', c, t)
                   /\ emitted'[c].transfers = {t}
                   /\ emitted'[c].identity = i
                   /\ emitted'[c].at <= at
      <4>1. /\ t \in DOMAIN completed_restores
            /\ completed_restores[t].identity = i
            /\ completed_restores[t].at <= at
        BY DEF RosterRestored
      <4>2. RestoreRecorded(t)'
        BY <1>5, <4>1
      <4>3. PICK c \in DOMAIN emitted' :
              /\ Stream!Usable(emitted', c, t)
              /\ emitted'[c].transfers = {t}
              /\ emitted'[c].identity = i
              /\ emitted'[c].at <= at
        BY <4>1, <4>2 DEF RestoreRecorded
      <4>4. c # a
        BY <1>0, <1>1, <4>3, NewRecord
      <4>5. c \in 1 .. (a - 1)
        BY <1>0, <4>4, AcceptFacts
      <4>. QED  BY <4>3, <4>5
    <3>4. /\ emitted'[a].transfers = admissions'[i].transfers
          /\ emitted'[a].at = admissions'[i].at
          /\ emitted'[a].transfers = roster /\ emitted'[a].at = at
      BY <1>1, <1>2, <3>1
    <3>. HIDE DEF a
    <3>. QED  BY <2>1, <3>1, <3>2, <3>3, <3>4 DEF AdmissionRecorded
  <2>2. CASE j # i
    BY <1>0, <1>1, <1>2, <1>6, <2>2, KeepsAdmission DEF Linked, EntriesRecorded
  <2>. QED  BY <2>1, <2>2
<1>7. RecordsEntered'
  BY <1>0, <1>1, <1>2, KeepsEntered DEF Linked, Stream!StartEvents
<1>. QED  BY <1>4, <1>5, <1>6, <1>7 DEF Linked, EntriesRecorded

\* A first compute answers its admission and the restores it names; they carry
\* its own identity, so no other admission loses one.
LEMMA ComputeLinked ==
  ASSUME IInv, Linked, NEW i \in DOMAIN admissions, NEW roster,
         admissions[i].transfers = roster, NEW at \in Time, NEW r \in Record,
         r = Stream!RecoveryRecord("first_compute", i, roster, at),
         admissions' = Drop(admissions, {i}), ConsumeRestores(roster),
         Accept(r), UNCHANGED pending
  PROVE  Linked'
<1>0. emitted \in Seq(Record)
  BY DEF IInv, FlagsTyped
<1>1. /\ r.event = "first_compute" /\ r.identity = i
      /\ \A u : ~Stream!Touches(r, u)
      /\ \A u : Stream!Consumes(r, u) <=> u \in roster
  BY RecoveryRecordFacts
<1>2. /\ DOMAIN admissions' = DOMAIN admissions \ {i}
      /\ \A j \in DOMAIN admissions \ {i} : admissions'[j] = admissions[j]
  BY DropFacts
<1>3. /\ DOMAIN completed_restores' = DOMAIN completed_restores \ roster
      /\ \A u \in DOMAIN completed_restores \ roster :
           completed_restores'[u] = completed_restores[u]
  <2>1. completed_restores' = Drop(completed_restores, roster)
    BY DEF ConsumeRestores
  <2>2. DOMAIN completed_restores' = DOMAIN completed_restores \ roster
    BY <2>1, DropFacts
  <2>3. \A u \in DOMAIN completed_restores \ roster :
          completed_restores'[u] = completed_restores[u]
    BY <2>1 DEF Drop, Restrict
  <2>. QED  BY <2>2, <2>3
<1>4. ASSUME NEW u \in DOMAIN pending'  PROVE SubmissionRecorded(u)'
  BY <1>0, <1>1, <1>4, KeepsSubmission DEF Linked, EntriesRecorded
<1>5. ASSUME NEW u \in DOMAIN completed_restores'  PROVE RestoreRecorded(u)'
  BY <1>0, <1>1, <1>3, <1>5, KeepsRestore DEF Linked, EntriesRecorded
<1>6. ASSUME NEW j \in DOMAIN admissions'  PROVE AdmissionRecorded(j)'
  <2>1. j \in DOMAIN admissions /\ j # i
    BY <1>2, <1>6
  <2>2. ASSUME NEW t \in admissions[j].transfers  PROVE t \notin roster
    BY <2>1, <2>2, RosterRetained
  <2>. QED
    BY <1>0, <1>1, <1>2, <2>1, <2>2, KeepsAdmission DEF Linked, EntriesRecorded
<1>7. RecordsEntered'
  BY <1>0, <1>1, <1>2, <1>3, KeepsEntered DEF Linked, Stream!StartEvents
<1>. QED  BY <1>4, <1>5, <1>6, <1>7 DEF Linked, EntriesRecorded

-----------------------------------------------------------------------------
(* The chain behind each first compute.                                    *)

\* The record at a is the admission the first compute at f answers.
AdmissionOf(a, f) ==
  /\ emitted[a].event = "recovery_admitted"
  /\ emitted[a].identity = emitted[f].identity
  /\ emitted[a].transfers = emitted[f].transfers
  /\ emitted[a].at <= emitted[f].at
  /\ \A m \in (a + 1) .. (f - 1) :
       ~(emitted[m].event = "first_compute" /\ emitted[m].identity = emitted[f].identity)

\* The record at c is the restore of t that the admission at a names and the
\* first compute at f consumes.
RestoreOf(c, t, a, f) ==
  /\ emitted[c].event = "restore_completed"
  /\ emitted[c].transfers = {t}
  /\ emitted[c].identity = emitted[f].identity
  /\ emitted[c].at <= emitted[a].at
  /\ \A m \in (c + 1) .. (f - 1) :
       ~Stream!Touches(emitted[m], t) /\ ~Stream!Consumes(emitted[m], t)

ChainBehind(f) ==
  \E a \in 1 .. (f - 1) :
    /\ AdmissionOf(a, f)
    /\ \A t \in emitted[f].transfers : \E c \in 1 .. (a - 1) : RestoreOf(c, t, a, f)

\* What an auditor relies on, first compute by first compute.
LEMMA ChainMeaning ==
  FirstComputeBacked
    <=> \A f \in DOMAIN emitted : emitted[f].event = "first_compute" => ChainBehind(f)
BY DEF FirstComputeBacked, Stream!ChainBacked, ChainBehind, AdmissionOf, RestoreOf

\* Earlier first computes keep their chain: it lies before them.
LEMMA KeepsChain ==
  ASSUME emitted \in Seq(Record), NEW r \in Record, Accept(r),
         NEW f \in DOMAIN emitted, ChainBehind(f)
  PROVE  ChainBehind(f)'
<1>1. f \in Nat \ {0} /\ \A m \in 1 .. f : emitted'[m] = emitted[m]
  BY AcceptFacts
<1>2. PICK a \in 1 .. (f - 1) :
        /\ AdmissionOf(a, f)
        /\ \A t \in emitted[f].transfers : \E c \in 1 .. (a - 1) : RestoreOf(c, t, a, f)
  BY DEF ChainBehind
<1>3. AdmissionOf(a, f)'
  <2>1. \A m \in (a + 1) .. (f - 1) : emitted'[m] = emitted[m]
    BY <1>1
  <2>2. emitted'[a] = emitted[a] /\ emitted'[f] = emitted[f]
    BY <1>1
  <2>. QED  BY <1>2, <2>1, <2>2 DEF AdmissionOf
<1>4. ASSUME NEW t \in emitted'[f].transfers
      PROVE  \E c \in 1 .. (a - 1) : RestoreOf(c, t, a, f)'
  <2>1. t \in emitted[f].transfers
    BY <1>1
  <2>2. PICK c \in 1 .. (a - 1) : RestoreOf(c, t, a, f)
    BY <1>2, <2>1
  <2>3. /\ \A m \in (c + 1) .. (f - 1) : emitted'[m] = emitted[m]
        /\ emitted'[c] = emitted[c] /\ emitted'[a] = emitted[a]
        /\ emitted'[f] = emitted[f]
    BY <1>1
  <2>4. RestoreOf(c, t, a, f)'
    BY <2>2, <2>3 DEF RestoreOf
  <2>. QED  BY <2>4
<1>. QED  BY <1>3, <1>4 DEF ChainBehind

\* The chain holds of the grown history if it holds of a new first compute.
LEMMA ChainKept ==
  ASSUME emitted \in Seq(Record), NEW r \in Record, Accept(r), FirstComputeBacked,
         NEW last, last = Len(emitted) + 1,
         r.event = "first_compute" => ChainBehind(last)'
  PROVE  FirstComputeBacked'
<1>1. \A f \in DOMAIN emitted' : f \in DOMAIN emitted \/ f = last
  BY AcceptFacts
<1>2. ASSUME NEW f \in DOMAIN emitted', emitted'[f].event = "first_compute"
      PROVE  ChainBehind(f)'
  <2>1. CASE f \in DOMAIN emitted
    BY <1>2, <2>1, AcceptFacts, ChainMeaning, KeepsChain
  <2>2. CASE f = last
    BY <1>2, <2>2, AcceptFacts
  <2>. QED  BY <1>1, <2>1, <2>2
<1>3. (\A f \in DOMAIN emitted : emitted[f].event = "first_compute" => ChainBehind(f))'
        => FirstComputeBacked'
  BY ChainMeaning, PTL
<1>. QED  BY <1>2, <1>3

\* A first compute finds its chain in the record of its admission.
LEMMA ChainExtended ==
  ASSUME emitted \in Seq(Record),
         NEW i \in DOMAIN admissions, AdmissionRecorded(i),
         NEW at \in Time, admissions[i].at <= at, NEW r \in Record,
         r.identity = i, r.at = at, r.transfers = admissions[i].transfers,
         Accept(r), NEW last, last = Len(emitted) + 1
  PROVE  ChainBehind(last)'
<1>1. PICK a \in DOMAIN emitted :
        /\ Stream!Outstanding(emitted, a, i)
        /\ emitted[a].transfers = admissions[i].transfers
        /\ emitted[a].at = admissions[i].at
        /\ \A t \in emitted[a].transfers : \E c \in 1 .. (a - 1) :
             /\ Stream!Usable(emitted, c, t)
             /\ emitted[c].transfers = {t}
             /\ emitted[c].identity = i
             /\ emitted[c].at <= emitted[a].at
  BY DEF AdmissionRecorded
<1>2. /\ a \in 1 .. (last - 1) /\ last \in Nat
      /\ emitted'[last] = r
      /\ \A m \in 1 .. (last - 1) : emitted'[m] = emitted[m]
      /\ last - 1 = Len(emitted)
  BY AcceptFacts
<1>3. AdmissionOf(a, last)'
  <2>1. \A m \in (a + 1) .. (last - 1) : emitted'[m] = emitted[m]
    BY <1>2
  <2>2. emitted'[a] = emitted[a]
    BY <1>2
  <2>. QED  BY <1>1, <1>2, <2>1, <2>2 DEF AdmissionOf, Stream!Outstanding
<1>4. ASSUME NEW t \in emitted'[last].transfers
      PROVE  \E c \in 1 .. (a - 1) : RestoreOf(c, t, a, last)'
  <2>1. PICK c \in 1 .. (a - 1) :
          /\ Stream!Usable(emitted, c, t)
          /\ emitted[c].transfers = {t}
          /\ emitted[c].identity = i
          /\ emitted[c].at <= emitted[a].at
    BY <1>1, <1>2
  <2>2. /\ emitted'[c] = emitted[c] /\ emitted'[a] = emitted[a]
        /\ \A m \in (c + 1) .. (last - 1) : emitted'[m] = emitted[m]
    BY <1>2
  <2>3. RestoreOf(c, t, a, last)'
    BY <1>2, <2>1, <2>2 DEF RestoreOf, Stream!Usable
  <2>. QED  BY <2>3
<1>. QED  BY <1>2, <1>3, <1>4 DEF ChainBehind

-----------------------------------------------------------------------------
(* One lemma per way a call ends: it keeps Linked and the chain, and is a  *)
(* step of the abstract stream or none.                                    *)

Kept ==
  /\ Serving' => Linked'
  /\ FirstComputeBacked'
  /\ [Stream!Next]_(Stream!vars)

\* A call that changes no table, no flag and no record.
LEMMA QuietKept ==
  ASSUME StreamInv, UNCHANGED <<tables, evidence_valid, closed, emitted>>
  PROVE  Kept
<1>0. /\ pending' = pending /\ completed_restores' = completed_restores
      /\ admissions' = admissions /\ emitted' = emitted
      /\ evidence_valid' = evidence_valid /\ closed' = closed
  BY DEF tables
<1>1. Serving' => Linked'
  <2>1. EntriesRecorded => EntriesRecorded'
    <3>1. ASSUME NEW t, SubmissionRecorded(t)  PROVE SubmissionRecorded(t)'
      BY <1>0, <3>1 DEF SubmissionRecorded
    <3>2. ASSUME NEW t, RestoreRecorded(t)  PROVE RestoreRecorded(t)'
      BY <1>0, <3>2 DEF RestoreRecorded
    <3>3. ASSUME NEW i, AdmissionRecorded(i)  PROVE AdmissionRecorded(i)'
      BY <1>0, <3>3 DEF AdmissionRecorded
    <3>. QED  BY <1>0, <3>1, <3>2, <3>3 DEF EntriesRecorded
  <2>2. RecordsEntered => RecordsEntered'
    BY <1>0 DEF RecordsEntered
  <2>3. Serving' => Serving
    BY <1>0 DEF Serving
  <2>. QED  BY <2>1, <2>2, <2>3 DEF StreamInv, Linked
<1>2. FirstComputeBacked'
  BY <1>0 DEF StreamInv, FirstComputeBacked, Stream!ChainBacked
<1>3. UNCHANGED Stream!vars
  BY DEF Stream!vars
<1>. QED  BY <1>1, <1>2, <1>3 DEF Kept

\* A call after which no evidence is produced: a capacity loss, a mismatch of
\* the roster or close().  The tables no longer matter.
LEMMA EndedKept ==
  ASSUME StreamInv, FlagsTyped', ~Serving', UNCHANGED emitted
  PROVE  Kept
<1>1. FirstComputeBacked'
  BY DEF StreamInv, FirstComputeBacked, Stream!ChainBacked
<1>2. CASE Serving
  <2>1. Stream!EndOfEvidence
    BY <1>2 DEF Stream!EndOfEvidence, Serving
  <2>. QED  BY <1>1, <2>1 DEF Kept, Stream!Next
<1>3. CASE ~Serving
  <2>1. UNCHANGED Stream!vars
    BY <1>3 DEF Stream!vars, Serving
  <2>. QED  BY <1>1, <2>1 DEF Kept
<1>. QED  BY <1>2, <1>3

\* A call that returns a record.
LEMMA RecordFacts ==
  ASSUME IInv, Serving, NEW r \in Record, Accept(r)
  PROVE  /\ emitted \in Seq(Record) /\ emitted' # emitted
         /\ Stream!Return(r)
<1>1. emitted \in Seq(Record)
  BY DEF IInv, FlagsTyped
<1>2. emitted' # emitted
  BY <1>1, AcceptFacts
<1>3. Stream!Return(r)
  BY DEF Stream!Return, Accept, Serving
<1>. QED  BY <1>1, <1>2, <1>3

\* _transfer_submitted returns a record the stream allows: the transfer is in
\* neither table, so no start of it is open and no restore usable.
LEMMA StartKept ==
  ASSUME StreamInv, Serving, NEW i \in Identity, NEW t \in Transfer,
         NEW op \in Operation, NEW at \in Time, ~Duplicate(t),
         pending' = Put(pending, t, [identity |-> i, op |-> op, at |-> at]),
         Accept(Stream!TransferRecord(Stream!StartedEvent(op), i, op, t, at)),
         UNCHANGED <<completed_restores, admissions>>
  PROVE  Kept
<1>. DEFINE r == Stream!TransferRecord(Stream!StartedEvent(op), i, op, t, at)
<1>1. r \in Record
  BY EventType, TransferRecordType
<1>2. IInv /\ Linked /\ FirstComputeBacked
  BY DEF StreamInv
<1>3. Linked'
  BY <1>1, <1>2, StartLinked
<1>4. emitted \in Seq(Record) /\ emitted' # emitted /\ Stream!Return(r)
  BY <1>1, <1>2, RecordFacts
<1>5. FirstComputeBacked'
  <2>1. r.event # "first_compute"
    BY DEF Stream!TransferRecord, Stream!StartedEvent
  <2>. QED  BY <1>1, <1>2, <1>4, <2>1, ChainKept
<1>6. \A k \in DOMAIN emitted :
        /\ ~Stream!Open(emitted, k, t)
        /\ RetainRestoreReceipts => ~Stream!Usable(emitted, k, t)
  BY <1>2 DEF Linked, RecordsEntered, Duplicate
<1>7. Stream!Start(i, t, op, at)
  BY <1>4, <1>6 DEF Stream!Start
<1>. QED  BY <1>3, <1>4, <1>5, <1>7 DEF Kept, Stream!Next, Stream!Extend

\* An end is one the stream allows: the submission is the open start.
LEMMA FinishStep ==
  ASSUME IInv, Linked, Serving, NEW t \in DOMAIN pending, NEW at \in Time,
         NEW e, NEW r \in Record,
         r = Stream!TransferRecord(e, pending[t].identity, pending[t].op, t, at),
         Accept(r),
         e \in {Stream!CompletedEvent(pending[t].op), "transfer_failed",
                "transfer_cancelled"},
         pending[t].at <= at,
         \/ pending[t].at < at
         \/ e = "transfer_cancelled"
         \/ e = "transfer_failed" /\ pending[t].op = "h2d_restore"
  PROVE  Stream!Next
<1>. DEFINE i == pending[t].identity
            op == pending[t].op
<1>1. t \in Transfer /\ i \in Identity /\ op \in Operation
  BY PendingType
<1>2. PICK k \in DOMAIN emitted :
        /\ Stream!Open(emitted, k, t)
        /\ emitted[k].identity = i
        /\ emitted[k].op = op
        /\ emitted[k].at = pending[t].at
  BY DEF Linked, EntriesRecorded, SubmissionRecorded
<1>3. emitted' # emitted /\ Stream!Return(r)
  BY RecordFacts
<1>4. Stream!Finish(e, i, t, op, at)
  BY <1>2, <1>3 DEF Stream!Finish
<1>. HIDE DEF i, op
<1>5. e \in {Stream!CompletedEvent(op), "transfer_failed", "transfer_cancelled"}
  BY DEF op
<1>. QED  BY <1>1, <1>3, <1>4, <1>5 DEF Stream!Next, Stream!Extend

\* A failure or a cancellation, and a completion whose receipt is not retained.
LEMMA EndKept ==
  ASSUME StreamInv, Serving, NEW t \in DOMAIN pending, NEW at \in Time,
         NEW e \in {Stream!CompletedEvent(pending[t].op), "transfer_failed",
                    "transfer_cancelled"},
         e = Stream!CompletedEvent(pending[t].op) => ~Retains(t),
         pending[t].at <= at,
         \/ pending[t].at < at
         \/ e = "transfer_cancelled"
         \/ e = "transfer_failed" /\ pending[t].op = "h2d_restore",
         EndPending(t),
         Accept(Stream!TransferRecord(e, pending[t].identity, pending[t].op, t, at)),
         UNCHANGED <<completed_restores, admissions>>
  PROVE  Kept
<1>. DEFINE r == Stream!TransferRecord(e, pending[t].identity, pending[t].op, t, at)
<1>0. /\ e \in Event \ {"first_compute", "recovery_admitted"}
      /\ e \notin Stream!StartEvents
  BY StartEventFacts DEF Event, Stream!StartEvents
<1>1. r \in Record
  BY <1>0, PendingType, TransferRecordType DEF StreamInv
<1>2. IInv /\ Linked /\ FirstComputeBacked /\ emitted \in Seq(Record)
  BY DEF StreamInv, IInv, FlagsTyped
<1>3. e = "restore_completed" => ~RetainRestoreReceipts
  <2>1. pending[t].op \in {"d2h_preserve", "h2d_restore"}
    BY <1>2, PendingType, ConstantsAssumption
  <2>. QED  BY <2>1 DEF Stream!CompletedEvent, Retains
<1>4. Linked'
  BY <1>0, <1>1, <1>2, <1>3, EndLinked
<1>5. FirstComputeBacked'
  <2>1. r.event # "first_compute"
    BY <1>0 DEF Stream!TransferRecord
  <2>. QED  BY <1>1, <1>2, <2>1, ChainKept
<1>6. Stream!Next
  BY <1>1, <1>2, FinishStep
<1>. QED  BY <1>4, <1>5, <1>6 DEF Kept

\* A completed restore whose receipt is retained.
LEMMA CompleteKept ==
  ASSUME StreamInv, Serving, NEW t \in DOMAIN pending, NEW at \in Time,
         Retains(t), pending[t].at < at,
         EndPending(t),
         completed_restores' = Put(completed_restores, t,
                                   [identity |-> pending[t].identity, at |-> at]),
         Accept(Stream!TransferRecord(Stream!CompletedEvent(pending[t].op),
                  pending[t].identity, pending[t].op, t, at)),
         UNCHANGED admissions
  PROVE  Kept
<1>. DEFINE e == Stream!CompletedEvent(pending[t].op)
            r == Stream!TransferRecord(e, pending[t].identity, pending[t].op, t, at)
<1>1. r \in Record
  BY EventType, PendingType, TransferRecordType DEF StreamInv
<1>2. IInv /\ Linked /\ FirstComputeBacked /\ emitted \in Seq(Record)
  BY DEF StreamInv, IInv, FlagsTyped
<1>6. pending[t].at <= at
  <2>1. pending[t].at \in Nat /\ at \in Nat
    BY <1>2, PendingType, ConstantsAssumption
  <2>. QED  BY <2>1
<1>3. Linked'
  BY <1>1, <1>2, CompleteLinked
<1>4. FirstComputeBacked'
  <2>1. r.event # "first_compute"
    BY DEF Stream!TransferRecord, Stream!CompletedEvent
  <2>. QED  BY <1>1, <1>2, <2>1, ChainKept
<1>5. Stream!Next
  BY <1>1, <1>2, <1>6, FinishStep
<1>. QED  BY <1>3, <1>4, <1>5 DEF Kept

\* An admission is one the stream allows: its roster is retained, hence usable,
\* and its identity has no admission outstanding.
LEMMA AdmitKept ==
  ASSUME StreamInv, Serving, NEW i \in Epoched \ DOMAIN admissions,
         NEW roster \in Roster, NEW at \in Time, RosterRestored(i, roster, at),
         admissions' = Put(admissions, i, [transfers |-> roster, at |-> at]),
         Accept(Stream!RecoveryRecord("recovery_admitted", i, roster, at)),
         UNCHANGED <<pending, completed_restores>>
  PROVE  Kept
<1>. DEFINE r == Stream!RecoveryRecord("recovery_admitted", i, roster, at)
<1>0. i \in Identity /\ roster \in SUBSET Transfer /\ roster # {}
  <2>1. i \in Identity
    BY ConstantsAssumption
  <2>2. roster \in SUBSET Transfer /\ roster # {}
    BY DEF Roster
  <2>. QED  BY <2>1, <2>2
<1>1. r \in Record
  BY <1>0, RecoveryRecordType DEF Event
<1>2. IInv /\ Linked /\ FirstComputeBacked
  BY DEF StreamInv
<1>3. Linked'
  BY <1>1, <1>2, AdmitLinked
<1>4. emitted \in Seq(Record) /\ emitted' # emitted /\ Stream!Return(r)
  BY <1>1, <1>2, RecordFacts
<1>5. FirstComputeBacked'
  <2>1. r.event # "first_compute"
    BY DEF Stream!RecoveryRecord
  <2>. QED  BY <1>1, <1>2, <1>4, <2>1, ChainKept
<1>6. \A k \in DOMAIN emitted : ~Stream!Outstanding(emitted, k, i)
  BY <1>0, <1>2 DEF Linked, RecordsEntered
<1>7. ASSUME NEW t \in roster
      PROVE  \E k \in DOMAIN emitted :
               /\ Stream!Usable(emitted, k, t)
               /\ emitted[k].identity = i
               /\ emitted[k].at <= at
  <2>1. /\ t \in DOMAIN completed_restores
        /\ completed_restores[t].identity = i
        /\ completed_restores[t].at <= at
    BY DEF RosterRestored
  <2>2. RestoreRecorded(t)
    BY <1>2, <2>1 DEF Linked, EntriesRecorded
  <2>. QED  BY <2>1, <2>2 DEF RestoreRecorded
<1>8. Stream!Admit(i, roster, at)
  BY <1>0, <1>4, <1>6, <1>7 DEF Stream!Admit
<1>. QED  BY <1>0, <1>3, <1>4, <1>5, <1>8 DEF Kept, Stream!Next, Stream!Extend

\* A first compute is one the stream allows: it answers the admission recorded
\* for its identity, with its roster.
LEMMA ComputeKept ==
  ASSUME StreamInv, Serving, NEW i \in Identity, NEW roster \in Roster,
         NEW receipt, NEW at \in Time, MatchesAdmission(i, roster, receipt, at),
         admissions' = Drop(admissions, {i}), ConsumeRestores(roster),
         Accept(Stream!RecoveryRecord("first_compute", i, roster, at)),
         UNCHANGED pending
  PROVE  Kept
<1>. DEFINE r == Stream!RecoveryRecord("first_compute", i, roster, at)
<1>0. /\ i \in DOMAIN admissions /\ i \in Epoched
      /\ admissions[i].transfers = roster
      /\ admissions[i].at \in Nat /\ at \in Nat /\ admissions[i].at <= at
      /\ roster \in SUBSET Transfer
  BY ConstantsAssumption
     DEF MatchesAdmission, StreamInv, IInv, TablesInv, TablesTyped, Admission, Roster
<1>1. r \in Record
  BY RecoveryRecordType DEF Event
<1>2. IInv /\ Linked /\ FirstComputeBacked
  BY DEF StreamInv
<1>3. Linked'
  BY <1>0, <1>1, <1>2, ComputeLinked
<1>4. emitted \in Seq(Record) /\ emitted' # emitted /\ Stream!Return(r)
  BY <1>1, <1>2, RecordFacts
<1>5. AdmissionRecorded(i)
  BY <1>0, <1>2 DEF Linked, EntriesRecorded
<1>6. FirstComputeBacked'
  <2>1. r.identity = i /\ r.at = at /\ r.transfers = admissions[i].transfers
    BY <1>0 DEF Stream!RecoveryRecord
  <2>2. ASSUME NEW last, last = Len(emitted) + 1  PROVE ChainBehind(last)'
    BY <1>0, <1>1, <1>4, <1>5, <2>1, <2>2, ChainExtended
  <2>. QED  BY <1>1, <1>2, <1>4, <2>2, ChainKept
<1>7. \E k \in DOMAIN emitted :
        /\ Stream!Outstanding(emitted, k, i)
        /\ emitted[k].transfers = roster
        /\ emitted[k].at <= at
  BY <1>0, <1>5 DEF AdmissionRecorded
<1>8. Stream!Compute(i, roster, at)
  BY <1>4, <1>7 DEF Stream!Compute
<1>. QED  BY <1>0, <1>3, <1>4, <1>6, <1>8 DEF Kept, Stream!Next, Stream!Extend

-----------------------------------------------------------------------------
(* The theorems.                                                           *)

\* _transfer_completed with success ends in one of the ways above.
LEMMA SucceededKept ==
  ASSUME StreamInv, FlagsTyped', NEW t \in Transfer, NEW at \in Time,
         NEW bytes \in BOOLEAN, NEW receipt \in Process \cup {NoReceipt},
         TransferSucceeded(t, at, bytes, receipt)
  PROVE  Kept
<1>1. CASE Reject
  BY <1>1, QuietKept DEF Reject
<1>2. CASE DisableForCapacity
  BY <1>2, EndedKept DEF DisableForCapacity, Serving
<1>3. CASE /\ MatchesSubmission(t, at) /\ CarriesSuccess(t, at, bytes, receipt)
           /\ completed_restores' =
                IF Retains(t)
                  THEN Put(completed_restores, t,
                           [identity |-> pending[t].identity, at |-> at])
                  ELSE completed_restores
           /\ EndPending(t)
           /\ Accept(Stream!TransferRecord(Stream!CompletedEvent(pending[t].op),
                       pending[t].identity, pending[t].op, t, at))
           /\ UNCHANGED admissions
  <2>1. t \in DOMAIN pending /\ pending[t].at <= at /\ pending[t].at < at
    <3>1. t \in DOMAIN pending /\ at >= pending[t].at /\ at # pending[t].at
      BY <1>3 DEF MatchesSubmission, CarriesSuccess
    <3>2. at \in Nat /\ pending[t].at \in Nat
      BY <3>1, PendingType, ConstantsAssumption DEF StreamInv
    <3>. QED  BY <3>1, <3>2
  <2>2. Serving
    BY DEF TransferSucceeded
  <2>3. CASE Retains(t)
    BY <1>3, <2>1, <2>2, <2>3, CompleteKept
  <2>4. CASE ~Retains(t)
    <3>. DEFINE e == Stream!CompletedEvent(pending[t].op)
    <3>1. /\ Accept(Stream!TransferRecord(e, pending[t].identity, pending[t].op, t, at))
          /\ EndPending(t) /\ UNCHANGED <<completed_restores, admissions>>
          /\ e \in {Stream!CompletedEvent(pending[t].op), "transfer_failed",
                    "transfer_cancelled"}
      BY <1>3, <2>4
    <3>. HIDE DEF e
    <3>. QED  BY <2>1, <2>2, <2>4, <3>1, EndKept
  <2>. QED  BY <2>3, <2>4
<1>. QED
  BY <1>1, <1>2, <1>3 DEF TransferSucceeded, RejectForeignReceipt

\* _transfer_completed with failure: a preserve's report is strictly later.
LEMMA FailedKept ==
  ASSUME StreamInv, NEW t \in Transfer, NEW at \in Time,
         NEW bytes \in BOOLEAN, NEW receipt \in Process \cup {NoReceipt},
         TransferFailed(t, at, bytes, receipt)
  PROVE  Kept
<1>1. CASE Reject
  BY <1>1, QuietKept DEF Reject
<1>2. CASE /\ MatchesSubmission(t, at)
           /\ EndPending(t)
           /\ Accept(Stream!TransferRecord("transfer_failed",
                       pending[t].identity, pending[t].op, t, at))
           /\ UNCHANGED <<completed_restores, admissions>>
  <2>1. /\ t \in DOMAIN pending /\ pending[t].at <= at
        /\ pending[t].at < at \/ pending[t].op = "h2d_restore"
    <3>1. /\ t \in DOMAIN pending /\ at >= pending[t].at
          /\ pending[t].op = "d2h_preserve" => at # pending[t].at
      BY <1>2 DEF MatchesSubmission
    <3>2. /\ at \in Nat /\ pending[t].at \in Nat
          /\ pending[t].op \in {"d2h_preserve", "h2d_restore"}
      BY <3>1, PendingType, ConstantsAssumption DEF StreamInv
    <3>. QED  BY <3>1, <3>2
  <2>2. Serving
    BY DEF TransferFailed
  <2>3. "transfer_failed" # Stream!CompletedEvent(pending[t].op)
    BY DEF Stream!CompletedEvent
  <2>. QED  BY <1>2, <2>1, <2>2, <2>3, EndKept
<1>. QED  BY <1>1, <1>2 DEF TransferFailed

\* _transfer_cancelled may come at the instant of the submission.
LEMMA CancelledKept ==
  ASSUME StreamInv, NEW t \in Transfer, NEW at \in Time, TransferCancelled(t, at)
  PROVE  Kept
<1>1. CASE Reject
  BY <1>1, QuietKept DEF Reject
<1>2. CASE /\ t \in DOMAIN pending /\ at >= pending[t].at
           /\ EndPending(t)
           /\ Accept(Stream!TransferRecord("transfer_cancelled",
                       pending[t].identity, pending[t].op, t, at))
           /\ UNCHANGED <<completed_restores, admissions>>
  <2>1. pending[t].at <= at
    <3>1. at \in Nat /\ pending[t].at \in Nat
      BY <1>2, PendingType, ConstantsAssumption DEF StreamInv
    <3>. QED  BY <1>2, <3>1
  <2>2. Serving
    BY DEF TransferCancelled
  <2>3. "transfer_cancelled" # Stream!CompletedEvent(pending[t].op)
    BY DEF Stream!CompletedEvent
  <2>. QED  BY <1>2, <2>1, <2>2, <2>3, EndKept
<1>. QED  BY <1>1, <1>2 DEF TransferCancelled

\* Every call keeps the two views of the lifecycle linked and is a step of the
\* abstract stream or invisible in it.
LEMMA StepKept == StreamInv /\ IInv' /\ [Next]_vars => Kept
<1>. SUFFICES ASSUME StreamInv, IInv', [Next]_vars  PROVE Kept
  OBVIOUS
<1>0. FlagsTyped'
  BY DEF IInv
<1>1. CASE DropClosed \/ DropDisabled
  BY <1>1, QuietKept DEF DropClosed, DropDisabled
<1>2. ASSUME NEW i \in Identity, NEW t \in Transfer, NEW op \in Operation,
             NEW at \in Time, TransferSubmitted(i, t, op, at)
      PROVE  Kept
  <2>1. CASE Reject
    BY <2>1, QuietKept DEF Reject
  <2>2. CASE DisableForCapacity
    BY <1>0, <2>2, EndedKept DEF DisableForCapacity, Serving
  <2>. QED  BY <1>2, <2>1, <2>2, StartKept DEF TransferSubmitted
<1>3. ASSUME NEW t \in Transfer, NEW at \in Time, NEW bytes \in BOOLEAN,
             NEW receipt \in Process \cup {NoReceipt},
             \/ TransferSucceeded(t, at, bytes, receipt)
             \/ TransferFailed(t, at, bytes, receipt)
      PROVE  Kept
  BY <1>0, <1>3, SucceededKept, FailedKept
<1>4. ASSUME NEW t \in Transfer, NEW at \in Time, TransferCancelled(t, at)
      PROVE  Kept
  BY <1>4, CancelledKept
<1>5. ASSUME NEW i \in Identity, RecoveryRequeued(i)
      PROVE  Kept
  BY <1>5, QuietKept DEF RecoveryRequeued, Reject
<1>6. ASSUME NEW i \in Identity, NEW roster \in Roster, NEW at \in Time,
             RecoveryAdmitted(i, roster, at)
      PROVE  Kept
  <2>1. CASE Reject
    BY <2>1, QuietKept DEF Reject
  <2>2. CASE DisableForCapacity
    BY <1>0, <2>2, EndedKept DEF DisableForCapacity, Serving
  <2>. QED  BY <1>6, <2>1, <2>2, AdmitKept DEF RecoveryAdmitted
<1>7. ASSUME NEW i \in Identity, NEW roster \in Roster, NEW receipt \in Process,
             NEW at \in Time, FirstCompute(i, roster, receipt, at)
      PROVE  Kept
  <2>1. CASE evidence_valid' = FALSE /\ UNCHANGED emitted
    BY <1>0, <2>1, EndedKept DEF Serving
  <2>. QED  BY <1>7, <2>1, ComputeKept DEF FirstCompute
<1>8. CASE Close
  BY <1>0, <1>8, EndedKept DEF Close, Serving
<1>9. CASE UNCHANGED vars
  BY <1>9, QuietKept DEF vars
<1>. QED
  BY <1>1, <1>2, <1>3, <1>4, <1>5, <1>6, <1>7, <1>8, <1>9 DEF Next, Normalize

\* Nothing is recorded and no table has an entry before the first call.
LEMMA InitStreamInv == Init => StreamInv
<1>. SUFFICES ASSUME Init  PROVE StreamInv
  OBVIOUS
<1>1. /\ DOMAIN pending = {} /\ DOMAIN completed_restores = {}
      /\ DOMAIN admissions = {}
  BY NothingFacts DEF Init
<1>2. DOMAIN emitted = {}
  BY DEF Init
<1>3. Linked
  BY <1>1, <1>2 DEF Linked, EntriesRecorded, RecordsEntered
<1>4. FirstComputeBacked
  BY <1>2 DEF FirstComputeBacked, Stream!ChainBacked
<1>. QED  BY <1>3, <1>4, InitInv DEF StreamInv

LEMMA StepStreamInv == StreamInv /\ [Next]_vars => StreamInv'
BY StepInv, StepKept DEF StreamInv, Kept

\* StreamInv holds after any sequence of calls.
THEOREM StreamInvariance == Spec => []StreamInv
BY InitStreamInv, StepStreamInv, PTL DEF Spec

\* Behind every first_compute record lie its own unused admission and, for each
\* transfer of the roster, a restore of the same identity used by nobody else.
THEOREM ChainStaysBacked == Spec => []FirstComputeBacked
<1>1. StreamInv => FirstComputeBacked
  BY DEF StreamInv
<1>. QED  BY StreamInvariance, <1>1, PTL

\* The normalizer implements CanonicalStream: each record it returns, decided
\* by its tables, is one the stream's own past allows.
THEOREM Refinement == Spec => ImplementsStream
<1>1. Init => Stream!Init
  BY DEF Init, Stream!Init
<1>2. StreamInv /\ [Next]_vars => [Stream!Next]_(Stream!vars)
  BY StepInv, StepKept DEF StreamInv, Kept
<1>. QED
  BY <1>1, <1>2, StreamInvariance, PTL DEF Spec, ImplementsStream, Stream!Spec
\* A finite set of at least n elements, all of them in S, shows n of S.
LEMMA AtLeastOf ==
  ASSUME NEW S, NEW T, T \subseteq S, IsFiniteSet(T), NEW n, Cardinality(T) >= n
  PROVE  AtLeast(n, S)
BY DEF AtLeast

\* Each entry of a table has its unanswered record, so the tables are no larger
\* than what the stream leaves unanswered.
LEMMA EntriesUnanswered ==
  ASSUME StreamInv, Serving
  PROVE  /\ DOMAIN pending \subseteq InFlight
         /\ DOMAIN completed_restores \subseteq Unused
         /\ DOMAIN admissions \subseteq Awaiting
<1>1. EntriesRecorded /\ TablesTyped
  BY DEF StreamInv, Linked, IInv, TablesInv
<1>2. DOMAIN pending \subseteq InFlight
  BY <1>1 DEF EntriesRecorded, SubmissionRecorded, TablesTyped, InFlight
<1>3. DOMAIN completed_restores \subseteq Unused
  BY <1>1 DEF EntriesRecorded, RestoreRecorded, TablesTyped, Unused
<1>4. DOMAIN admissions \subseteq Awaiting
  BY <1>1 DEF EntriesRecorded, AdmissionRecorded, TablesTyped, Awaiting
<1>. QED  BY <1>2, <1>3, <1>4

\* A table never outgrows its limit, and evidence is not disabled for capacity
\* before the stream itself shows a limit reached, whatever the limits and
\* however calls interleave.
THEOREM LimitsAreExact == Spec => CapacityExact
<1> DEFINE LimitReached ==
      \/ AtLeast(MaxCorrelatedTransfers, InFlight)
      \/ AtLeast(MaxCorrelatedTransfers, Unused)
      \/ AtLeast(MaxRecoveryAdmissions, Awaiting)
<1>1. StreamInv /\ Next /\ counted' = "capacity_dropped" => LimitReached
  <2>. SUFFICES ASSUME StreamInv, Next, counted' = "capacity_dropped"
                PROVE  LimitReached
    OBVIOUS
  <2>1. /\ Serving
        /\ \/ PendingFull
           \/ ReceiptTableFull
           \/ Cardinality(DOMAIN admissions) >= MaxRecoveryAdmissions
    BY DEF Next, Normalize, DropClosed, DropDisabled, TransferSubmitted,
           TransferSucceeded, TransferFailed, TransferCancelled, RecoveryRequeued,
           RecoveryAdmitted, FirstCompute, Close, Accept, Reject,
           RejectForeignReceipt
  <2>2. FiniteTables
    BY DEF StreamInv, IInv, TablesInv
  <2>. QED
    BY <2>1, <2>2, EntriesUnanswered, AtLeastOf
       DEF FiniteTables, PendingFull, ReceiptTableFull
<1>2. StreamInv /\ [Next]_vars
        => [/\ WithinCapacity'
            /\ counted' = "capacity_dropped" => LimitReached]_vars
  <2>1. StreamInv /\ [Next]_vars => WithinCapacity'
    BY StepInv DEF StreamInv, IInv, TablesInv
  <2>. QED  BY <1>1, <2>1
<1>. QED  BY <1>2, StreamInvariance, PTL DEF Spec, CapacityExact
=============================================================================
