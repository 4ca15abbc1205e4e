------------------------ MODULE HostTransfersProofs ------------------------
(***************************************************************************)
(* Proofs about HostTransfers, for any jobs, limits and settings: how the  *)
(* binding's table, the normalizer's table and the queued records agree.   *)
(*                                                                         *)
(* The heart of the invariant is Followed: the last queued record of a job *)
(* the binding follows is the start that it remembers.  With the agreement *)
(* of the two tables it makes the record of an end fit that start.         *)
(* The last part shows that the composition only makes calls that          *)
(* LifecycleNormalizer allows, and that the records it gets back are a     *)
(* stream CanonicalStream allows.                                          *)
(***************************************************************************)
EXTENDS HostTransfers, FiniteSetTheorems, TLAPS

HostState == [state : {"new", "ended"}]
               \cup [state : {"live"}, identity : Identity, op : Operation, at : Time]

IsStart(r) == r.event \in {"preserve_started", "restore_started"}

\* What the type invariant leaves out.
Shape ==
  /\ host \in [Job -> HostState]
  /\ IsFiniteSet(DOMAIN binding)
  /\ ~registered => DOMAIN binding = {}
  /\ recorded \in Seq(Normalizer!Record)

\* The queue holds records of submitted jobs only, one job each.
Submitted ==
  \A n \in 1 .. Len(recorded) : \E j \in Job :
    recorded[n].transfers = {j} /\ host[j].state # "new"

\* The last record of job j in the queue q is its start, with that identity and
\* operation.
StartIsLast(q, j, i, op) ==
  \E m \in 1 .. Len(q) :
    /\ q[m].transfers = {j} /\ IsStart(q[m])
    /\ q[m].identity = i /\ q[m].op = op
    /\ \A k \in (m + 1) .. Len(q) : q[k].transfers # {j}

\* It is for a job the binding follows, as the binding remembers it.
Followed ==
  \A j \in DOMAIN binding :
    StartIsLast(recorded, j, binding[j].identity, binding[j].op)

IInv ==
  /\ TypeOK /\ Shape
  /\ BindingWithinNormalizer /\ LeftoversExplained
  /\ EndsFollowStarts /\ Submitted /\ Followed

-----------------------------------------------------------------------------
(* Dictionaries of the binding and of the normalizer.                      *)

LEMMA PutFacts ==
  ASSUME NEW f, NEW x, NEW v
  PROVE  /\ DOMAIN Normalizer!Put(f, x, v) = DOMAIN f \cup {x}
         /\ Normalizer!Put(f, x, v)[x] = v
         /\ \A y \in DOMAIN f \ {x} : Normalizer!Put(f, x, v)[y] = f[y]
BY DEF Normalizer!Put

LEMMA PutType ==
  ASSUME NEW f, NEW x, NEW R, NEW v \in R, f \in [DOMAIN f -> R]
  PROVE  Normalizer!Put(f, x, v) \in [DOMAIN Normalizer!Put(f, x, v) -> R]
BY DEF Normalizer!Put

LEMMA DropFacts ==
  ASSUME NEW f, NEW S
  PROVE  /\ DOMAIN Normalizer!Drop(f, S) = DOMAIN f \ S
         /\ \A y \in DOMAIN f \ S : Normalizer!Drop(f, S)[y] = f[y]
BY DEF Normalizer!Drop, Normalizer!Restrict

LEMMA DropType ==
  ASSUME NEW f, NEW S, NEW R, f \in [DOMAIN f -> R]
  PROVE  Normalizer!Drop(f, S) \in [DOMAIN Normalizer!Drop(f, S) -> R]
BY DEF Normalizer!Drop, Normalizer!Restrict

LEMMA NothingFacts ==
  ASSUME NEW R
  PROVE  /\ DOMAIN Normalizer!Nothing = {}
         /\ Normalizer!Nothing \in [DOMAIN Normalizer!Nothing -> R]
BY DEF Normalizer!Nothing

-----------------------------------------------------------------------------
(* What a call of normalize() does.                                        *)

\* The call returned a record of job j with that identity and operation.
Returned(j, i, op, starts) ==
  LET r == emitted'[Len(emitted')] IN
  /\ r \in Normalizer!Record
  /\ r.transfers = {j} /\ r.identity = i /\ r.op = op
  /\ IsStart(r) <=> starts

\* An accepted record is the last one of the normalizer's history.
LEMMA AcceptFacts ==
  ASSUME Normalizer!TypeOK, NEW r \in Normalizer!Record, Normalizer!Accept(r)
  PROVE  /\ emitted' \in Seq(Normalizer!Record)
         /\ emitted'[Len(emitted')] = r
         /\ counted' = "accepted"
         /\ UNCHANGED <<evidence_valid, closed>>
<1>1. emitted \in Seq(Normalizer!Record) /\ emitted' = Append(emitted, r)
      /\ counted' = "accepted" /\ UNCHANGED <<evidence_valid, closed>>
  BY DEF Normalizer!TypeOK, Normalizer!Accept
<1>2. Len(emitted') = Len(emitted) + 1 /\ Len(emitted) \in Nat
  BY <1>1
<1>. QED  BY <1>1, <1>2

\* A call that returns nothing keeps the normalizer typed when its tables are.
LEMMA NothingReturned ==
  ASSUME Normalizer!TypeOK, counted' \in Normalizer!Counter,
         UNCHANGED <<completed_restores, admissions, closed, emitted>>,
         evidence_valid' \in BOOLEAN,
         pending' = pending \/ \E j : pending' = Normalizer!Drop(pending, {j})
  PROVE  Normalizer!TypeOK'
<1>1. /\ DOMAIN pending' \subseteq Transfer
      /\ pending' \in [DOMAIN pending' -> Normalizer!Submission]
  <2>1. DOMAIN pending \subseteq Transfer
        /\ pending \in [DOMAIN pending -> Normalizer!Submission]
    BY DEF Normalizer!TypeOK
  <2>2. CASE pending' = pending
    BY <2>1, <2>2
  <2>3. ASSUME NEW j, pending' = Normalizer!Drop(pending, {j})
        PROVE  /\ DOMAIN pending' \subseteq Transfer
               /\ pending' \in [DOMAIN pending' -> Normalizer!Submission]
    <3>1. DOMAIN pending' = DOMAIN pending \ {j}
      BY <2>3, DropFacts
    <3>2. pending' \in [DOMAIN pending' -> Normalizer!Submission]
      BY <2>1, <2>3, DropType
    <3>. QED  BY <2>1, <3>1, <3>2
  <2>. QED  BY <2>2, <2>3
<1>. QED  BY <1>1 DEF Normalizer!TypeOK

LEMMA TransferRecordFacts ==
  ASSUME NEW e \in Normalizer!Event, NEW i \in Identity, NEW op \in Operation,
         NEW j \in Job, NEW at \in Time,
         NEW r, r = Normalizer!Stream!TransferRecord(e, i, op, j, at)
  PROVE  /\ r \in Normalizer!Record
         /\ r.event = e /\ r.transfers = {j} /\ r.identity = i /\ r.op = op
BY DEF Normalizer!Stream!TransferRecord, Normalizer!Record, Job

LEMMA SubmittedEffect ==
  ASSUME Normalizer!TypeOK, NEW j \in Job, NEW i \in Identity, NEW op \in Operation,
         NEW at \in Time, Normalizer!TransferSubmitted(i, j, op, at)
  PROVE  /\ Normalizer!TypeOK'
         /\ \/ counted' # "accepted" /\ UNCHANGED pending
            \/ /\ counted' = "accepted" /\ j \notin DOMAIN pending
               /\ pending' = Normalizer!Put(pending, j, [identity |-> i, op |-> op, at |-> at])
               /\ Returned(j, i, op, TRUE)
<1>1. CASE Normalizer!Reject
  <2>1. counted' = "invalid" /\ UNCHANGED pending
        /\ UNCHANGED <<completed_restores, admissions, evidence_valid, closed, emitted>>
    BY <1>1 DEF Normalizer!Reject, Normalizer!tables
  <2>2. Normalizer!TypeOK'
    BY <2>1, NothingReturned DEF Normalizer!Counter, Normalizer!TypeOK
  <2>. QED  BY <2>1, <2>2
<1>2. CASE Normalizer!DisableForCapacity /\ UNCHANGED pending
  <2>1. counted' = "capacity_dropped" /\ UNCHANGED pending /\ evidence_valid' = FALSE
        /\ UNCHANGED <<completed_restores, admissions, closed, emitted>>
    BY <1>2 DEF Normalizer!DisableForCapacity
  <2>2. Normalizer!TypeOK'
    BY <2>1, NothingReturned DEF Normalizer!Counter
  <2>. QED  BY <2>1, <2>2
<1>3. CASE /\ ~Normalizer!Duplicate(j)
           /\ pending' = Normalizer!Put(pending, j, [identity |-> i, op |-> op, at |-> at])
           /\ Normalizer!Accept(Normalizer!Stream!TransferRecord(
                Normalizer!Stream!StartedEvent(op), i, op, j, at))
           /\ UNCHANGED <<completed_restores, admissions>>
  <2>. DEFINE e == Normalizer!Stream!StartedEvent(op)
              r == Normalizer!Stream!TransferRecord(e, i, op, j, at)
  <2>1. e \in Normalizer!Event /\ e \in {"preserve_started", "restore_started"}
    BY DEF Normalizer!Stream!StartedEvent, Normalizer!Event
  <2>2. /\ r \in Normalizer!Record
        /\ r.event = e /\ r.transfers = {j} /\ r.identity = i /\ r.op = op
    BY <2>1, TransferRecordFacts
  <2>. HIDE DEF r, e
  <2>3. Normalizer!Accept(r)
    BY <1>3 DEF r, e
  <2>4. /\ emitted' \in Seq(Normalizer!Record) /\ emitted'[Len(emitted')] = r
        /\ counted' = "accepted" /\ UNCHANGED <<evidence_valid, closed>>
    BY <2>2, <2>3, AcceptFacts
  <2>5. Returned(j, i, op, TRUE)
    BY <2>1, <2>2, <2>4 DEF Returned, IsStart
  <2>6. /\ DOMAIN pending' \subseteq Transfer
        /\ pending' \in [DOMAIN pending' -> Normalizer!Submission]
    <3>1. [identity |-> i, op |-> op, at |-> at] \in Normalizer!Submission
      BY DEF Normalizer!Submission
    <3>2. DOMAIN pending \subseteq Transfer /\ j \in Transfer
          /\ pending \in [DOMAIN pending -> Normalizer!Submission]
      BY DEF Normalizer!TypeOK, Job
    <3>3. DOMAIN pending' = DOMAIN pending \cup {j}
      BY <1>3, PutFacts
    <3>4. pending' \in [DOMAIN pending' -> Normalizer!Submission]
      BY <1>3, <3>1, <3>2, PutType
    <3>. QED  BY <3>2, <3>3, <3>4
  <2>7. Normalizer!TypeOK'
    BY <1>3, <2>4, <2>6 DEF Normalizer!TypeOK, Normalizer!Counter
  <2>8. j \notin DOMAIN pending
    BY <1>3 DEF Normalizer!Duplicate
  <2>. QED  BY <1>3, <2>4, <2>5, <2>7, <2>8
<1>. QED  BY <1>1, <1>2, <1>3 DEF Normalizer!TransferSubmitted

\* What the binding reports of an end is accepted, with a record that fits the
\* submission and ends it, or it is not; its submission may be lost then too.
ReportedEffect(j) ==
  /\ Normalizer!TypeOK'
  /\ pending' = pending \/ pending' = Normalizer!Drop(pending, {j})
  /\ \/ counted' # "accepted"
     \/ /\ counted' = "accepted"
        /\ j \in DOMAIN pending /\ pending' = Normalizer!Drop(pending, {j})
        /\ Returned(j, pending[j].identity, pending[j].op, FALSE)

LEMMA RejectEffect ==
  ASSUME Normalizer!TypeOK, NEW j, Normalizer!Reject \/ Normalizer!DropDisabled
  PROVE  ReportedEffect(j)
<1>1. /\ counted' \in {"invalid", "evidence_disabled_dropped"}
      /\ UNCHANGED <<pending, completed_restores, admissions, evidence_valid, closed,
                     emitted>>
  BY DEF Normalizer!Reject, Normalizer!DropDisabled, Normalizer!tables
<1>2. Normalizer!TypeOK'
  BY <1>1, NothingReturned DEF Normalizer!Counter, Normalizer!TypeOK
<1>. QED  BY <1>1, <1>2 DEF ReportedEffect

\* The ways an end is accepted.
LEMMA EndEffect ==
  ASSUME Normalizer!TypeOK, NEW j \in DOMAIN pending, NEW at \in Time,
         NEW e \in Normalizer!Event \ {"preserve_started", "restore_started"},
         Normalizer!EndPending(j),
         Normalizer!Accept(Normalizer!Stream!TransferRecord(e,
           pending[j].identity, pending[j].op, j, at)),
         DOMAIN completed_restores' \subseteq Transfer,
         completed_restores' \in [DOMAIN completed_restores' -> Normalizer!CompletedRestore],
         UNCHANGED admissions
  PROVE  ReportedEffect(j)
<1>1. /\ j \in Job /\ pending[j].identity \in Identity /\ pending[j].op \in Operation
      /\ DOMAIN pending \subseteq Transfer
      /\ pending \in [DOMAIN pending -> Normalizer!Submission]
  BY DEF Normalizer!TypeOK, Normalizer!Submission, Job
<1>. DEFINE r == Normalizer!Stream!TransferRecord(e, pending[j].identity,
                   pending[j].op, j, at)
<1>2. /\ r \in Normalizer!Record /\ r.event = e /\ r.transfers = {j}
      /\ r.identity = pending[j].identity /\ r.op = pending[j].op
  BY <1>1, TransferRecordFacts
<1>. HIDE DEF r
<1>3. Normalizer!Accept(r)
  BY DEF r
<1>4. /\ emitted' \in Seq(Normalizer!Record) /\ emitted'[Len(emitted')] = r
      /\ counted' = "accepted" /\ UNCHANGED <<evidence_valid, closed>>
  BY <1>2, <1>3, AcceptFacts
<1>5. Returned(j, pending[j].identity, pending[j].op, FALSE)
  BY <1>2, <1>4 DEF Returned, IsStart
<1>6. pending' = Normalizer!Drop(pending, {j})
  BY DEF Normalizer!EndPending
<1>7. DOMAIN pending' = DOMAIN pending \ {j}
  BY <1>6, DropFacts
<1>8. pending' \in [DOMAIN pending' -> Normalizer!Submission]
  BY <1>1, <1>6, DropType
<1>9. Normalizer!TypeOK'
  BY <1>1, <1>4, <1>7, <1>8 DEF Normalizer!TypeOK, Normalizer!Counter
<1>. QED  BY <1>4, <1>5, <1>6, <1>9 DEF ReportedEffect

LEMMA SucceededEffect ==
  ASSUME Normalizer!TypeOK, NEW j \in Job, NEW at \in Time, NEW bytes, NEW receipt,
         Normalizer!TransferSucceeded(j, at, bytes, receipt)
  PROVE  ReportedEffect(j)
<1>1. CASE Normalizer!Reject \/ Normalizer!RejectForeignReceipt(j)
  BY <1>1, RejectEffect DEF Normalizer!RejectForeignReceipt
<1>2. CASE Normalizer!EndPending(j) /\ Normalizer!DisableForCapacity
  <2>1. /\ counted' = "capacity_dropped" /\ evidence_valid' = FALSE
        /\ pending' = Normalizer!Drop(pending, {j})
        /\ UNCHANGED <<completed_restores, admissions, closed, emitted>>
    BY <1>2 DEF Normalizer!DisableForCapacity, Normalizer!EndPending
  <2>2. Normalizer!TypeOK'
    BY <2>1, NothingReturned DEF Normalizer!Counter
  <2>. QED  BY <2>1, <2>2 DEF ReportedEffect
<1>3. CASE /\ Normalizer!MatchesSubmission(j, at)
           /\ completed_restores' =
                IF Normalizer!Retains(j)
                  THEN Normalizer!Put(completed_restores, j,
                         [identity |-> pending[j].identity, at |-> at])
                  ELSE completed_restores
           /\ Normalizer!EndPending(j)
           /\ Normalizer!Accept(Normalizer!Stream!TransferRecord(
                Normalizer!Stream!CompletedEvent(pending[j].op),
                pending[j].identity, pending[j].op, j, at))
           /\ UNCHANGED admissions
  <2>1. j \in DOMAIN pending
    BY <1>3 DEF Normalizer!MatchesSubmission
  <2>2. Normalizer!Stream!CompletedEvent(pending[j].op)
          \in Normalizer!Event \ {"preserve_started", "restore_started"}
    BY DEF Normalizer!Stream!CompletedEvent, Normalizer!Event
  <2>3. /\ DOMAIN completed_restores \subseteq Transfer /\ j \in Transfer
        /\ completed_restores \in [DOMAIN completed_restores -> Normalizer!CompletedRestore]
        /\ [identity |-> pending[j].identity, at |-> at] \in Normalizer!CompletedRestore
    BY <2>1 DEF Normalizer!TypeOK, Normalizer!Submission, Normalizer!CompletedRestore, Job
  <2>4. /\ DOMAIN completed_restores' \subseteq Transfer
        /\ completed_restores'
             \in [DOMAIN completed_restores' -> Normalizer!CompletedRestore]
    <3>1. CASE Normalizer!Retains(j)
      <4>1. completed_restores' = Normalizer!Put(completed_restores, j,
              [identity |-> pending[j].identity, at |-> at])
        BY <1>3, <3>1
      <4>2. DOMAIN completed_restores' = DOMAIN completed_restores \cup {j}
        BY <4>1, PutFacts
      <4>3. completed_restores'
              \in [DOMAIN completed_restores' -> Normalizer!CompletedRestore]
        BY <2>3, <4>1, PutType
      <4>. QED  BY <2>3, <4>2, <4>3
    <3>2. CASE ~Normalizer!Retains(j)
      BY <1>3, <2>3, <3>2
    <3>. QED  BY <3>1, <3>2
  <2>. QED  BY <1>3, <2>1, <2>2, <2>4, EndEffect
<1>. QED  BY <1>1, <1>2, <1>3 DEF Normalizer!TransferSucceeded

LEMMA ReportEffect ==
  ASSUME Normalizer!TypeOK, NEW j \in Job, NEW end, NEW at \in Time, NEW bytes,
         Report(j, end, at, bytes)
  PROVE  ReportedEffect(j)
<1>1. CASE Normalizer!DropDisabled
  BY <1>1, RejectEffect
<1>2. CASE \E receipt : Normalizer!TransferSucceeded(j, at, bytes, receipt)
  BY <1>2, SucceededEffect
<1>3. CASE Normalizer!TransferFailed(j, at, FALSE, NoReceipt)
  <2>1. CASE Normalizer!Reject
    BY <2>1, RejectEffect
  <2>2. CASE /\ j \in DOMAIN pending /\ Normalizer!EndPending(j)
             /\ Normalizer!Accept(Normalizer!Stream!TransferRecord("transfer_failed",
                  pending[j].identity, pending[j].op, j, at))
             /\ UNCHANGED <<completed_restores, admissions>>
    <3>1. "transfer_failed" \in Normalizer!Event \ {"preserve_started", "restore_started"}
      BY DEF Normalizer!Event
    <3>2. /\ DOMAIN completed_restores' \subseteq Transfer
          /\ completed_restores'
               \in [DOMAIN completed_restores' -> Normalizer!CompletedRestore]
      BY <2>2 DEF Normalizer!TypeOK
    <3>. QED  BY <2>2, <3>1, <3>2, EndEffect
  <2>. QED  BY <1>3, <2>1, <2>2
            DEF Normalizer!TransferFailed, Normalizer!MatchesSubmission
<1>4. CASE Normalizer!TransferCancelled(j, at)
  <2>1. CASE Normalizer!Reject
    BY <2>1, RejectEffect
  <2>2. CASE /\ j \in DOMAIN pending /\ Normalizer!EndPending(j)
             /\ Normalizer!Accept(Normalizer!Stream!TransferRecord("transfer_cancelled",
                  pending[j].identity, pending[j].op, j, at))
             /\ UNCHANGED <<completed_restores, admissions>>
    <3>1. "transfer_cancelled" \in Normalizer!Event \ {"preserve_started", "restore_started"}
      BY DEF Normalizer!Event
    <3>2. /\ DOMAIN completed_restores' \subseteq Transfer
          /\ completed_restores'
               \in [DOMAIN completed_restores' -> Normalizer!CompletedRestore]
      BY <2>2 DEF Normalizer!TypeOK
    <3>. QED  BY <2>2, <3>1, <3>2, EndEffect
  <2>. QED  BY <1>4, <2>1, <2>2 DEF Normalizer!TransferCancelled
<1>. QED  BY <1>1, <1>2, <1>3, <1>4 DEF Report

-----------------------------------------------------------------------------
(* The queue of records.                                                   *)

\* What EndsFollowStarts says of the record at n.
Fits(q, n) ==
  IF IsStart(q[n])
    THEN \A m \in 1 .. (n - 1) : q[m].transfers # q[n].transfers
    ELSE \E m \in 1 .. (n - 1) :
           /\ q[m].transfers = q[n].transfers /\ IsStart(q[m])
           /\ q[m].identity = q[n].identity /\ q[m].op = q[n].op
           /\ \A k \in (m + 1) .. (n - 1) : q[k].transfers # q[n].transfers

LEMMA RecordsFit ==
  ASSUME recorded \in Seq(Normalizer!Record)
  PROVE  EndsFollowStarts <=> \A n \in 1 .. Len(recorded) : Fits(recorded, n)
<1>1. DOMAIN recorded = 1 .. Len(recorded)
  OBVIOUS
<1>. QED  BY <1>1 DEF EndsFollowStarts, Fits, IsStart

\* A longer queue keeps its records.
LEMMA AppendFacts ==
  ASSUME NEW R, NEW q \in Seq(R), NEW r \in R, NEW s, s = Append(q, r)
  PROVE  /\ s \in Seq(R) /\ Len(q) \in Nat /\ Len(s) = Len(q) + 1
         /\ s[Len(q) + 1] = r
         /\ \A n \in 1 .. Len(q) : s[n] = q[n]
OBVIOUS

LEMMA FitsAppended ==
  ASSUME NEW R, NEW q \in Seq(R), NEW r \in R, NEW s, s = Append(q, r),
         \A n \in 1 .. Len(q) : Fits(q, n),
         Fits(s, Len(q) + 1)
  PROVE  \A n \in 1 .. Len(s) : Fits(s, n)
<1>1. /\ Len(q) \in Nat /\ Len(s) = Len(q) + 1
      /\ \A n \in 1 .. Len(q) : s[n] = q[n]
  BY AppendFacts
<1>2. ASSUME NEW n \in 1 .. Len(q)
      PROVE  Fits(s, n)
  <2>1. n \in Nat /\ \A m \in 1 .. n : s[m] = q[m]
    BY <1>1
  <2>2. Fits(q, n)
    OBVIOUS
  <2>3. CASE IsStart(q[n])
    BY <2>1, <2>2, <2>3 DEF Fits, IsStart
  <2>4. CASE ~IsStart(q[n])
    <3>1. PICK m \in 1 .. (n - 1) :
            /\ q[m].transfers = q[n].transfers /\ IsStart(q[m])
            /\ q[m].identity = q[n].identity /\ q[m].op = q[n].op
            /\ \A k \in (m + 1) .. (n - 1) : q[k].transfers # q[n].transfers
      BY <2>2, <2>4 DEF Fits
    <3>2. s[m] = q[m] /\ s[n] = q[n] /\ \A k \in (m + 1) .. (n - 1) : s[k] = q[k]
      BY <2>1
    <3>3. /\ ~IsStart(s[n])
          /\ s[m].transfers = s[n].transfers /\ IsStart(s[m])
          /\ s[m].identity = s[n].identity /\ s[m].op = s[n].op
      BY <2>4, <3>1, <3>2
    <3>4. \A k \in (m + 1) .. (n - 1) : s[k].transfers # s[n].transfers
      BY <3>1, <3>2
    <3>. QED  BY <3>3, <3>4 DEF Fits
  <2>. QED  BY <2>3, <2>4
<1>. QED  BY <1>1, <1>2

\* A record of another job does not touch the last record of a job.
LEMMA StartStaysLast ==
  ASSUME NEW R, NEW q \in Seq(R), NEW r \in R, NEW s, s = Append(q, r),
         NEW j, NEW i, NEW op, StartIsLast(q, j, i, op), r.transfers # {j}
  PROVE  StartIsLast(s, j, i, op)
<1>1. /\ Len(q) \in Nat /\ Len(s) = Len(q) + 1 /\ s[Len(q) + 1] = r
      /\ \A n \in 1 .. Len(q) : s[n] = q[n]
  BY AppendFacts
<1>2. PICK m \in 1 .. Len(q) :
        /\ q[m].transfers = {j} /\ IsStart(q[m])
        /\ q[m].identity = i /\ q[m].op = op
        /\ \A k \in (m + 1) .. Len(q) : q[k].transfers # {j}
  BY DEF StartIsLast
<1>3. m \in 1 .. Len(s) /\ s[m] = q[m]
  BY <1>1
<1>4. ASSUME NEW k \in (m + 1) .. Len(s)
      PROVE  s[k].transfers # {j}
  BY <1>1, <1>2
<1>. QED  BY <1>2, <1>3, <1>4 DEF StartIsLast

\* The record of a start is the first of its job, and then the last.
LEMMA StartAppended ==
  ASSUME NEW R, NEW q \in Seq(R), NEW r \in R, NEW s, s = Append(q, r),
         NEW j, r.transfers = {j}, IsStart(r),
         \A m \in 1 .. Len(q) : q[m].transfers # {j}
  PROVE  /\ Fits(s, Len(q) + 1)
         /\ StartIsLast(s, j, r.identity, r.op)
<1>1. /\ Len(q) \in Nat /\ Len(s) = Len(q) + 1 /\ s[Len(q) + 1] = r
      /\ \A n \in 1 .. Len(q) : s[n] = q[n]
  BY AppendFacts
<1>2. Fits(s, Len(q) + 1)
  BY <1>1 DEF Fits
<1>3. StartIsLast(s, j, r.identity, r.op)
  <2>1. Len(q) + 1 \in 1 .. Len(s)
    BY <1>1
  <2>2. \A k \in ((Len(q) + 1) + 1) .. Len(s) : FALSE
    BY <1>1
  <2>. QED  BY <1>1, <2>1, <2>2 DEF StartIsLast
<1>. QED  BY <1>2, <1>3

\* The record of an end fits when the last record of its job is its start.
LEMMA EndAppended ==
  ASSUME NEW R, NEW q \in Seq(R), NEW r \in R, NEW s, s = Append(q, r),
         NEW j, r.transfers = {j}, ~IsStart(r),
         StartIsLast(q, j, r.identity, r.op)
  PROVE  Fits(s, Len(q) + 1)
<1>1. /\ Len(q) \in Nat /\ Len(s) = Len(q) + 1 /\ s[Len(q) + 1] = r
      /\ \A n \in 1 .. Len(q) : s[n] = q[n]
  BY AppendFacts
<1>2. PICK m \in 1 .. Len(q) :
        /\ q[m].transfers = {j} /\ IsStart(q[m])
        /\ q[m].identity = r.identity /\ q[m].op = r.op
        /\ \A k \in (m + 1) .. Len(q) : q[k].transfers # {j}
  BY DEF StartIsLast
<1>. PICK n \in Nat : n = Len(q) + 1
  BY <1>1
<1>3. n - 1 = Len(q) /\ s[n] = r /\ s[m] = q[m]
  BY <1>1
<1>4. /\ ~IsStart(s[n])
      /\ s[m].transfers = s[n].transfers /\ IsStart(s[m])
      /\ s[m].identity = s[n].identity /\ s[m].op = s[n].op
  BY <1>2, <1>3
<1>5. \A k \in (m + 1) .. (n - 1) : s[k].transfers # s[n].transfers
  BY <1>1, <1>2, <1>3
<1>6. Fits(s, n)
  BY <1>2, <1>3, <1>4, <1>5 DEF Fits
<1>. QED  BY <1>6

-----------------------------------------------------------------------------
(* One lemma for each kind of step.                                        *)

\* The host's history of job j goes on.
HostMoves(j) ==
  \E h \in HostState : h.state # "new" /\ host' = [host EXCEPT ![j] = h]

LEMMA HostFacts ==
  ASSUME Shape, NEW j \in Job, HostMoves(j)
  PROVE  /\ host' \in [Job -> HostState]
         /\ host'[j].state # "new"
         /\ \A k \in Job : host[k].state # "new" => host'[k].state # "new"
<1>1. host \in [Job -> HostState]
  BY DEF Shape
<1>2. PICK h \in HostState : h.state # "new" /\ host' = [host EXCEPT ![j] = h]
  BY DEF HostMoves
<1>. QED  BY <1>1, <1>2

\* Only job j changes in the normalizer's table.
OthersPending(j) ==
  /\ DOMAIN pending' \subseteq DOMAIN pending \cup {j}
  /\ \A k \in DOMAIN pending \ {j} : k \in DOMAIN pending' /\ pending'[k] = pending[k]

\* A callback that returns False queues nothing; the binding forgets the job, or
\* the normalizer's entry of it is as before.
LEMMA RefusedInv ==
  ASSUME IInv, NEW j \in Job, Normalizer!TypeOK', OthersPending(j), HostMoves(j),
         UNCHANGED <<active, registered, backlog, recorded>>,
         refused' = refused \cup {j},
         \/ binding' = Normalizer!Drop(binding, {j})
         \/ /\ binding' = binding
            /\ j \in DOMAIN binding => j \in DOMAIN pending' /\ pending'[j] = pending[j]
  PROVE  IInv'
<1>1. /\ DOMAIN binding' \subseteq DOMAIN binding
      /\ \A k \in DOMAIN binding' : binding'[k] = binding[k]
      /\ DOMAIN binding \ {j} \subseteq DOMAIN binding'
      /\ j \in DOMAIN binding' => j \in DOMAIN pending' /\ pending'[j] = pending[j]
  <2>1. CASE binding' = Normalizer!Drop(binding, {j})
    <3>1. /\ DOMAIN binding' = DOMAIN binding \ {j}
          /\ \A k \in DOMAIN binding \ {j} : binding'[k] = binding[k]
      BY <2>1, DropFacts
    <3>. QED  BY <3>1
  <2>2. CASE /\ binding' = binding
             /\ j \in DOMAIN binding => j \in DOMAIN pending' /\ pending'[j] = pending[j]
    BY <2>2
  <2>. QED  BY <2>1, <2>2
<1>2. /\ IsFiniteSet(DOMAIN binding')
      /\ Cardinality(DOMAIN binding') <= MaxBindingTransfers
  <2>1. IsFiniteSet(DOMAIN binding) /\ Cardinality(DOMAIN binding) <= MaxBindingTransfers
    BY DEF IInv, Shape, TypeOK
  <2>2. /\ IsFiniteSet(DOMAIN binding')
        /\ Cardinality(DOMAIN binding') <= Cardinality(DOMAIN binding)
    BY <1>1, <2>1, FS_Subset
  <2>3. Cardinality(DOMAIN binding) \in Nat /\ Cardinality(DOMAIN binding') \in Nat
    BY <2>1, <2>2, FS_CardinalityType
  <2>. QED  BY <2>1, <2>2, <2>3, PipelineAssumption
<1>3. TypeOK'
  BY <1>1, <1>2 DEF IInv, TypeOK
<1>4. Shape'
  BY <1>1, <1>2, HostFacts DEF IInv, Shape
<1>5. BindingWithinNormalizer'
  <2>. SUFFICES ASSUME NEW k \in DOMAIN binding'
                PROVE  /\ k \in DOMAIN pending'
                       /\ binding'[k].identity = pending'[k].identity
                       /\ binding'[k].op = pending'[k].op
    BY DEF BindingWithinNormalizer
  <2>1. /\ k \in DOMAIN pending /\ binding'[k] = binding[k]
        /\ binding[k].identity = pending[k].identity
        /\ binding[k].op = pending[k].op
    BY <1>1 DEF IInv, BindingWithinNormalizer
  <2>2. k \in DOMAIN pending' /\ pending'[k] = pending[k]
    BY <1>1, <2>1 DEF OthersPending
  <2>. QED  BY <2>1, <2>2
<1>6. LeftoversExplained'
  BY <1>1 DEF IInv, LeftoversExplained, OthersPending
<1>7. EndsFollowStarts'
  BY DEF IInv, EndsFollowStarts
<1>8. Submitted'
  BY HostFacts DEF IInv, Submitted
<1>9. Followed'
  BY <1>1 DEF IInv, Followed
<1>. QED  BY <1>3, <1>4, <1>5, <1>6, <1>7, <1>8, <1>9 DEF IInv

\* What queueing the record of job j needs and gives.
LEMMA QueuedRecords ==
  ASSUME IInv, NEW j \in Job, HostMoves(j),
         NEW r \in Normalizer!Record, r.transfers = {j},
         recorded' = Append(recorded, r),
         Fits(recorded', Len(recorded) + 1)
  PROVE  recorded' \in Seq(Normalizer!Record) /\ EndsFollowStarts' /\ Submitted'
<1>1. recorded \in Seq(Normalizer!Record)
  BY DEF IInv, Shape
<1>2. /\ recorded' \in Seq(Normalizer!Record)
      /\ Len(recorded) \in Nat /\ Len(recorded') = Len(recorded) + 1
      /\ recorded'[Len(recorded) + 1] = r
      /\ \A n \in 1 .. Len(recorded) : recorded'[n] = recorded[n]
  BY <1>1, AppendFacts
<1>3. \A n \in 1 .. Len(recorded') : Fits(recorded', n)
  <2>1. \A n \in 1 .. Len(recorded) : Fits(recorded, n)
    BY <1>1, RecordsFit DEF IInv
  <2>. QED  BY <1>1, <2>1, FitsAppended
<1>4. EndsFollowStarts'
  <2>1. DOMAIN recorded' = 1 .. Len(recorded')
    BY <1>2
  <2>. QED  BY <1>3, <2>1 DEF EndsFollowStarts, Fits, IsStart
<1>5. Submitted'
  <2>. SUFFICES ASSUME NEW n \in 1 .. Len(recorded')
                PROVE  \E k \in Job : recorded'[n].transfers = {k} /\ host'[k].state # "new"
    BY DEF Submitted
  <2>1. CASE n \in 1 .. Len(recorded)
    <3>1. PICK k \in Job : recorded[n].transfers = {k} /\ host[k].state # "new"
      BY <2>1 DEF IInv, Submitted
    <3>2. host'[k].state # "new"
      BY <3>1, HostFacts DEF IInv
    <3>. QED  BY <1>2, <2>1, <3>1, <3>2
  <2>2. CASE n = Len(recorded) + 1
    <3>1. host'[j].state # "new"
      BY HostFacts DEF IInv
    <3>. QED  BY <1>2, <2>2, <3>1
  <2>. QED  BY <1>2, <2>1, <2>2
<1>. QED  BY <1>2, <1>4, <1>5

\* A record of job j does not touch what the binding remembers of the others.
LEMMA FollowedKept ==
  ASSUME IInv, NEW j, NEW r \in Normalizer!Record, r.transfers = {j},
         recorded' = Append(recorded, r),
         NEW k \in DOMAIN binding \ {j}, binding'[k] = binding[k]
  PROVE  StartIsLast(recorded', k, binding'[k].identity, binding'[k].op)
<1>1. recorded \in Seq(Normalizer!Record)
  BY DEF IInv, Shape
<1>2. StartIsLast(recorded, k, binding[k].identity, binding[k].op)
  BY DEF IInv, Followed
<1>3. r.transfers # {k}
  OBVIOUS
<1>. DEFINE q == recorded
            s == recorded'
            i == binding[k].identity
            op == binding[k].op
<1>4. /\ q \in Seq(Normalizer!Record) /\ s = Append(q, r)
      /\ StartIsLast(q, k, i, op) /\ r.transfers # {k}
  BY <1>1, <1>2, <1>3
<1>. HIDE DEF q, s, i, op
<1>5. StartIsLast(s, k, i, op)
  BY <1>4, StartStaysLast
<1>. QED  BY <1>5 DEF s, i, op

\* A submission that is forwarded enters both tables and is the first record of
\* its job.
LEMMA StartQueuedInv ==
  ASSUME IInv, NEW j \in Job, NEW i \in Identity, NEW op \in Operation, NEW at,
         host[j].state = "new", HostMoves(j),
         registered, Cardinality(DOMAIN binding) < MaxBindingTransfers,
         Normalizer!TypeOK', j \notin DOMAIN pending,
         pending' = Normalizer!Put(pending, j, [identity |-> i, op |-> op, at |-> at]),
         binding' = Normalizer!Put(binding, j, [identity |-> i, op |-> op]),
         Returned(j, i, op, TRUE), recorded' = Append(recorded, emitted'[Len(emitted')]),
         backlog < MaxPendingRecords, backlog' = backlog + 1,
         UNCHANGED <<active, registered, refused>>
  PROVE  IInv'
<1>1. PICK r \in Normalizer!Record :
        /\ r.transfers = {j} /\ r.identity = i /\ r.op = op /\ IsStart(r)
        /\ recorded' = Append(recorded, r)
  BY DEF Returned
<1>2. recorded \in Seq(Normalizer!Record)
  BY DEF IInv, Shape
<1>3. \A m \in 1 .. Len(recorded) : recorded[m].transfers # {j}
  BY DEF IInv, Submitted
<1>4. Fits(recorded', Len(recorded) + 1) /\ StartIsLast(recorded', j, r.identity, r.op)
  BY <1>1, <1>2, <1>3, StartAppended
<1>5. /\ DOMAIN binding' = DOMAIN binding \cup {j}
      /\ binding'[j] = [identity |-> i, op |-> op]
      /\ \A k \in DOMAIN binding \ {j} : binding'[k] = binding[k]
  BY DEF Normalizer!Put
<1>6. /\ DOMAIN pending' = DOMAIN pending \cup {j}
      /\ pending'[j] = [identity |-> i, op |-> op, at |-> at]
      /\ \A k \in DOMAIN pending \ {j} : pending'[k] = pending[k]
  BY DEF Normalizer!Put
<1>7. /\ IsFiniteSet(DOMAIN binding')
      /\ Cardinality(DOMAIN binding') <= MaxBindingTransfers
  <2>1. IsFiniteSet(DOMAIN binding)
    BY DEF IInv, Shape
  <2>2. Cardinality(DOMAIN binding) \in Nat
    BY <2>1, FS_CardinalityType
  <2>3. /\ IsFiniteSet(DOMAIN binding')
        /\ Cardinality(DOMAIN binding') =
             IF j \in DOMAIN binding THEN Cardinality(DOMAIN binding)
                                     ELSE Cardinality(DOMAIN binding) + 1
    BY <1>5, <2>1, FS_AddElement
  <2>. QED  BY <2>2, <2>3, PipelineAssumption
<1>8. recorded' \in Seq(Normalizer!Record) /\ EndsFollowStarts' /\ Submitted'
  BY <1>1, <1>4, QueuedRecords
<1>9. TypeOK'
  <2>1. backlog' \in 0 .. MaxPendingRecords
    BY PipelineAssumption DEF IInv, TypeOK
  <2>. QED  BY <1>5, <1>7, <2>1 DEF IInv, TypeOK
<1>10. Shape'
  BY <1>7, <1>8, HostFacts DEF IInv, Shape
<1>11. BindingWithinNormalizer'
  <2>1. \A k \in DOMAIN binding \ {j} :
          /\ k \in DOMAIN pending
          /\ binding[k].identity = pending[k].identity /\ binding[k].op = pending[k].op
    BY DEF IInv, BindingWithinNormalizer
  <2>2. binding'[j].identity = pending'[j].identity /\ binding'[j].op = pending'[j].op
    BY <1>5, <1>6
  <2>3. \A k \in DOMAIN binding \ {j} :
          /\ k \in DOMAIN pending'
          /\ binding'[k].identity = pending'[k].identity
          /\ binding'[k].op = pending'[k].op
    BY <1>5, <1>6, <2>1
  <2>. QED  BY <1>5, <1>6, <2>2, <2>3 DEF BindingWithinNormalizer
<1>12. LeftoversExplained'
  BY <1>5, <1>6 DEF IInv, LeftoversExplained
<1>13. Followed'
  <2>1. ASSUME NEW k \in DOMAIN binding \ {j}
        PROVE  StartIsLast(recorded', k, binding'[k].identity, binding'[k].op)
    <3>1. r.transfers = {j} /\ recorded' = Append(recorded, r) /\ binding'[k] = binding[k]
      BY <1>1, <1>5
    <3>. QED  BY <3>1, FollowedKept
  <2>2. StartIsLast(recorded', j, binding'[j].identity, binding'[j].op)
    <3>1. binding'[j].identity = r.identity /\ binding'[j].op = r.op
      BY <1>1, <1>5
    <3>. QED  BY <1>4, <3>1
  <2>. QED  BY <1>5, <2>1, <2>2 DEF Followed
<1>. QED  BY <1>8, <1>9, <1>10, <1>11, <1>12, <1>13 DEF IInv

\* An end that is forwarded ends the start both tables remember.
LEMMA EndQueuedInv ==
  ASSUME IInv, NEW j \in DOMAIN binding, HostMoves(j), ReportedEffect(j),
         counted' = "accepted",
         binding' = Normalizer!Drop(binding, {j}),
         recorded' = Append(recorded, emitted'[Len(emitted')]),
         backlog < MaxPendingRecords, backlog' = backlog + 1,
         UNCHANGED <<active, registered, refused>>
  PROVE  IInv'
<1>0. j \in Job /\ j \in DOMAIN pending
      /\ binding[j].identity = pending[j].identity /\ binding[j].op = pending[j].op
  BY DEF IInv, TypeOK, BindingWithinNormalizer
<1>1. PICK r \in Normalizer!Record :
        /\ r.transfers = {j} /\ ~IsStart(r)
        /\ r.identity = pending[j].identity /\ r.op = pending[j].op
        /\ recorded' = Append(recorded, r)
  BY DEF ReportedEffect, Returned
<1>2. recorded \in Seq(Normalizer!Record)
  BY DEF IInv, Shape
<1>3. StartIsLast(recorded, j, r.identity, r.op)
  BY <1>0, <1>1 DEF IInv, Followed
<1>4. Fits(recorded', Len(recorded) + 1)
  BY <1>1, <1>2, <1>3, EndAppended
<1>5. recorded' \in Seq(Normalizer!Record) /\ EndsFollowStarts' /\ Submitted'
  BY <1>0, <1>1, <1>4, QueuedRecords
<1>6. /\ DOMAIN binding' = DOMAIN binding \ {j}
      /\ \A k \in DOMAIN binding \ {j} : binding'[k] = binding[k]
  BY DropFacts
<1>7. /\ DOMAIN pending' = DOMAIN pending \ {j}
      /\ \A k \in DOMAIN pending \ {j} : pending'[k] = pending[k]
  <2>1. pending' = Normalizer!Drop(pending, {j})
    BY <1>0 DEF ReportedEffect
  <2>. QED  BY <2>1, DropFacts
<1>8. /\ IsFiniteSet(DOMAIN binding')
      /\ Cardinality(DOMAIN binding') <= MaxBindingTransfers
  <2>1. IsFiniteSet(DOMAIN binding) /\ Cardinality(DOMAIN binding) <= MaxBindingTransfers
    BY DEF IInv, Shape, TypeOK
  <2>2. /\ IsFiniteSet(DOMAIN binding')
        /\ Cardinality(DOMAIN binding') <= Cardinality(DOMAIN binding)
    BY <1>6, <2>1, FS_Subset
  <2>3. Cardinality(DOMAIN binding) \in Nat /\ Cardinality(DOMAIN binding') \in Nat
    BY <2>1, <2>2, FS_CardinalityType
  <2>. QED  BY <2>1, <2>2, <2>3, PipelineAssumption
<1>9. TypeOK'
  <2>1. backlog' \in 0 .. MaxPendingRecords
    BY PipelineAssumption DEF IInv, TypeOK
  <2>. QED  BY <1>6, <1>8, <2>1 DEF IInv, TypeOK, ReportedEffect
<1>10. Shape'
  BY <1>0, <1>5, <1>6, <1>8, HostFacts DEF IInv, Shape
<1>11. BindingWithinNormalizer'
  BY <1>6, <1>7 DEF IInv, BindingWithinNormalizer
<1>12. LeftoversExplained'
  BY <1>6, <1>7 DEF IInv, LeftoversExplained
<1>13. Followed'
  <2>1. ASSUME NEW k \in DOMAIN binding \ {j}
        PROVE  StartIsLast(recorded', k, binding'[k].identity, binding'[k].op)
    <3>1. r.transfers = {j} /\ recorded' = Append(recorded, r) /\ binding'[k] = binding[k]
      BY <1>1, <1>6
    <3>. QED  BY <3>1, FollowedKept
  <2>. QED  BY <1>6, <2>1 DEF Followed
<1>. QED  BY <1>5, <1>9, <1>10, <1>11, <1>12, <1>13 DEF IInv

-----------------------------------------------------------------------------
(* The actions.                                                            *)

\* VllmOffloadingObserverBinding of a submission.
LEMMA HostSubmitsInv ==
  ASSUME IInv, NEW j \in Job, NEW i \in Identity, NEW op \in Operation, NEW at \in Time,
         HostSubmits(j, i, op, at)
  PROVE  IInv'
<1>1. HostMoves(j) /\ host[j].state = "new" /\ UNCHANGED <<active, registered>>
  <2>1. [state |-> "live", identity |-> i, op |-> op, at |-> at] \in HostState
    BY DEF HostState
  <2>. QED  BY <2>1 DEF HostMoves, HostSubmits
<1>2. CASE /\ registered
           /\ Cardinality(DOMAIN binding) < MaxBindingTransfers
           /\ Normalizer!TransferSubmitted(i, j, op, at)
           /\ Forward /\ Refuse(j) /\ Remember(j, i, op)
  <2>1. /\ Normalizer!TypeOK'
        /\ \/ counted' # "accepted" /\ UNCHANGED pending
           \/ /\ counted' = "accepted" /\ j \notin DOMAIN pending
              /\ pending' = Normalizer!Put(pending, j,
                   [identity |-> i, op |-> op, at |-> at])
              /\ Returned(j, i, op, TRUE)
    BY <1>2, SubmittedEffect DEF IInv, TypeOK
  <2>2. CASE Forwarded
    <3>1. /\ backlog < MaxPendingRecords /\ backlog' = backlog + 1
          /\ recorded' = Append(recorded, emitted'[Len(emitted')])
          /\ refused' = refused
          /\ binding' = Normalizer!Put(binding, j, [identity |-> i, op |-> op])
      BY <1>2, <2>2 DEF Forwarded, Forward, Refuse, Remember
    <3>2. /\ j \notin DOMAIN pending
          /\ pending' = Normalizer!Put(pending, j,
               [identity |-> i, op |-> op, at |-> at])
          /\ Returned(j, i, op, TRUE)
      BY <2>1, <2>2 DEF Forwarded
    <3>. QED  BY <1>1, <1>2, <2>1, <3>1, <3>2, StartQueuedInv
  <2>3. CASE ~Forwarded
    <3>1. /\ UNCHANGED <<backlog, recorded>> /\ binding' = binding
          /\ refused' = refused \cup {j}
      BY <1>2, <2>3 DEF Forward, Refuse, Remember
    <3>2. /\ OthersPending(j)
          /\ j \in DOMAIN binding => j \in DOMAIN pending' /\ pending'[j] = pending[j]
      <4>1. CASE UNCHANGED pending
        BY <4>1 DEF OthersPending, IInv, BindingWithinNormalizer
      <4>2. CASE /\ j \notin DOMAIN pending
                 /\ pending' = Normalizer!Put(pending, j,
                      [identity |-> i, op |-> op, at |-> at])
        <5>1. /\ DOMAIN pending' = DOMAIN pending \cup {j}
              /\ \A k \in DOMAIN pending \ {j} : pending'[k] = pending[k]
          BY <4>2 DEF Normalizer!Put
        <5>. QED  BY <4>2, <5>1 DEF OthersPending, IInv, BindingWithinNormalizer
      <4>. QED  BY <2>1, <4>1, <4>2
    <3>. QED  BY <1>1, <2>1, <3>1, <3>2, RefusedInv
  <2>. QED  BY <2>2, <2>3
<1>3. CASE /\ refused' = refused \cup {j}
           /\ UNCHANGED <<binding, backlog, recorded>>
           /\ UNCHANGED normalizer \/ Normalizer!DropDisabled
  <2>1. Normalizer!TypeOK' /\ UNCHANGED pending
    <3>1. CASE UNCHANGED normalizer
      BY <3>1 DEF IInv, TypeOK, Normalizer!TypeOK, normalizer
    <3>2. CASE Normalizer!DropDisabled
      <4>1. ReportedEffect(j)
        BY <3>2, RejectEffect DEF IInv, TypeOK
      <4>. QED  BY <3>2, <4>1
                DEF ReportedEffect, Normalizer!DropDisabled, Normalizer!tables
    <3>. QED  BY <1>3, <3>1, <3>2
  <2>2. /\ OthersPending(j)
        /\ j \in DOMAIN binding => j \in DOMAIN pending' /\ pending'[j] = pending[j]
    BY <2>1 DEF OthersPending, IInv, BindingWithinNormalizer
  <2>. QED  BY <1>1, <1>3, <2>1, <2>2, RefusedInv
<1>. QED  BY <1>2, <1>3 DEF HostSubmits

\* A callback that leaves the normalizer alone and returns False.
LEMMA IgnoredInv ==
  ASSUME IInv, NEW j \in Job, HostMoves(j),
         UNCHANGED <<normalizer, active, registered, backlog, recorded>>,
         refused' = refused \cup {j},
         binding' = binding \/ binding' = Normalizer!Drop(binding, {j})
  PROVE  IInv'
<1>1. Normalizer!TypeOK' /\ UNCHANGED pending
  BY DEF IInv, TypeOK, Normalizer!TypeOK, normalizer
<1>2. /\ OthersPending(j)
      /\ j \in DOMAIN binding => j \in DOMAIN pending' /\ pending'[j] = pending[j]
  BY <1>1 DEF OthersPending, IInv, BindingWithinNormalizer
<1>. QED  BY <1>1, <1>2, RefusedInv

\* VllmOffloadingObserverBinding of an end.
LEMMA HostEndsInv ==
  ASSUME IInv, NEW j \in Job, NEW end, NEW at \in Time, NEW bytes,
         HostEnds(j, end, at, bytes)
  PROVE  IInv'
<1>1. HostMoves(j) /\ UNCHANGED <<active, registered>>
  <2>1. [state |-> "ended"] \in HostState
    BY DEF HostState
  <2>. QED  BY <2>1 DEF HostMoves, HostEnds
<1>2. CASE /\ j \in DOMAIN binding
           /\ Report(j, end, at, bytes)
           /\ Forward /\ Refuse(j) /\ Forget(j)
  <2>1. ReportedEffect(j)
    BY <1>2, ReportEffect DEF IInv, TypeOK
  <2>2. binding' = Normalizer!Drop(binding, {j})
    BY <1>2 DEF Forget
  <2>3. CASE Forwarded
    <3>1. /\ backlog < MaxPendingRecords /\ backlog' = backlog + 1
          /\ recorded' = Append(recorded, emitted'[Len(emitted')])
          /\ refused' = refused /\ counted' = "accepted"
      BY <1>2, <2>3 DEF Forwarded, Forward, Refuse
    <3>. QED  BY <1>1, <1>2, <2>1, <2>2, <3>1, EndQueuedInv
  <2>4. CASE ~Forwarded
    <3>1. UNCHANGED <<backlog, recorded>> /\ refused' = refused \cup {j}
      BY <1>2, <2>4 DEF Forward, Refuse
    <3>2. Normalizer!TypeOK' /\ OthersPending(j)
      <4>1. CASE pending' = pending
        BY <2>1, <4>1 DEF OthersPending, ReportedEffect
      <4>2. CASE pending' = Normalizer!Drop(pending, {j})
        <5>1. /\ DOMAIN pending' = DOMAIN pending \ {j}
              /\ \A k \in DOMAIN pending \ {j} : pending'[k] = pending[k]
          BY <4>2, DropFacts
        <5>. QED  BY <2>1, <5>1 DEF OthersPending, ReportedEffect
      <4>. QED  BY <2>1, <4>1, <4>2 DEF ReportedEffect
    <3>. QED  BY <1>1, <2>2, <3>1, <3>2, RefusedInv
  <2>. QED  BY <2>3, <2>4
<1>3. CASE /\ refused' = refused \cup {j}
           /\ binding' = binding \/ binding' = Normalizer!Drop(binding, {j})
           /\ UNCHANGED <<normalizer, backlog, recorded>>
  BY <1>1, <1>3, IgnoredInv
<1>. QED  BY <1>2, <1>3 DEF HostEnds

LEMMA HostEndsMalformedInv ==
  ASSUME IInv, NEW j \in Job, HostEndsMalformed(j)
  PROVE  IInv'
<1>1. [state |-> "ended"] \in HostState
  BY DEF HostState
<1>2. HostMoves(j)
  BY <1>1 DEF HostMoves, HostEndsMalformed
<1>. QED  BY <1>2, IgnoredInv DEF HostEndsMalformed

\* The queue's other users and the beginning of stop().
LEMMA BesideInv ==
  ASSUME IInv, active' \in BOOLEAN, backlog' \in 0 .. MaxPendingRecords,
         UNCHANGED <<normalizer, registered, binding, recorded, refused, host>>
  PROVE  IInv'
<1>1. Normalizer!TypeOK'
  BY DEF IInv, TypeOK, Normalizer!TypeOK, normalizer
<1>2. TypeOK'
  BY <1>1 DEF IInv, TypeOK
<1>3. Shape' /\ BindingWithinNormalizer' /\ LeftoversExplained'
  BY DEF IInv, Shape, BindingWithinNormalizer, LeftoversExplained, normalizer
<1>4. EndsFollowStarts' /\ Submitted' /\ Followed'
  BY DEF IInv, EndsFollowStarts, Submitted, Followed
<1>. QED  BY <1>2, <1>3, <1>4 DEF IInv

\* unregister() and close() empty the tables; nothing is queued.
LEMMA EmptiedInv ==
  ASSUME IInv, Normalizer!TypeOK', registered' = FALSE, DOMAIN binding' = {},
         UNCHANGED <<active, backlog, recorded, refused, host>>
  PROVE  IInv'
<1>1. IsFiniteSet(DOMAIN binding') /\ Cardinality(DOMAIN binding') = 0
  BY FS_EmptySet
<1>2. TypeOK'
  <2>1. Cardinality(DOMAIN binding') <= MaxBindingTransfers
    BY <1>1, PipelineAssumption
  <2>2. DOMAIN binding' \subseteq Job /\ registered' \in BOOLEAN
    OBVIOUS
  <2>. QED  BY <2>1, <2>2 DEF IInv, TypeOK
<1>3. Shape' /\ BindingWithinNormalizer' /\ LeftoversExplained'
  BY <1>1 DEF IInv, Shape, BindingWithinNormalizer, LeftoversExplained
<1>4. EndsFollowStarts' /\ Submitted' /\ Followed'
  BY DEF IInv, EndsFollowStarts, Submitted, Followed
<1>. QED  BY <1>2, <1>3, <1>4 DEF IInv

LEMMA UnregisterInv == IInv /\ Unregister => IInv'
<1>. SUFFICES ASSUME IInv, Unregister  PROVE IInv'
  OBVIOUS
<1>1. DOMAIN binding' = {}
  BY NothingFacts DEF Unregister
<1>2. Normalizer!TypeOK'
  BY DEF IInv, TypeOK, Normalizer!TypeOK, Unregister, normalizer
<1>. QED  BY <1>1, <1>2, EmptiedInv DEF Unregister

LEMMA CloseNormalizerInv == IInv /\ CloseNormalizer => IInv'
<1>. SUFFICES ASSUME IInv, CloseNormalizer  PROVE IInv'
  OBVIOUS
<1>1. DOMAIN binding' = {} /\ registered' = FALSE
  BY DEF IInv, Shape, TypeOK, CloseNormalizer
<1>2. Normalizer!TypeOK'
  BY NothingFacts DEF IInv, TypeOK, Normalizer!TypeOK, CloseNormalizer,
     Normalizer!Close, Normalizer!Counter
<1>. QED  BY <1>1, <1>2, EmptiedInv DEF CloseNormalizer

LEMMA InitInv == Init => IInv
<1>. SUFFICES ASSUME Init  PROVE IInv
  OBVIOUS
<1>1. DOMAIN binding = {} /\ DOMAIN pending = {} /\ recorded = <<>>
  BY NothingFacts DEF Init, Normalizer!Init
<1>2. IsFiniteSet(DOMAIN binding) /\ Cardinality(DOMAIN binding) = 0
  BY <1>1, FS_EmptySet
<1>3. Normalizer!TypeOK
  <2>1. /\ pending \in [DOMAIN pending -> Normalizer!Submission]
        /\ completed_restores \in [DOMAIN completed_restores -> Normalizer!CompletedRestore]
        /\ admissions \in [DOMAIN admissions -> Normalizer!Admission]
    BY NothingFacts DEF Init, Normalizer!Init
  <2>2. /\ DOMAIN completed_restores = {} /\ DOMAIN admissions = {}
        /\ evidence_valid = TRUE /\ closed = FALSE /\ counted = "none" /\ emitted = <<>>
    BY NothingFacts DEF Init, Normalizer!Init
  <2>3. emitted \in Seq(Normalizer!Record)
    BY <2>2
  <2>4. counted \in Normalizer!Counter
    BY <2>2 DEF Normalizer!Counter
  <2>5. /\ DOMAIN pending \subseteq Transfer
        /\ DOMAIN completed_restores \subseteq Transfer /\ DOMAIN admissions \subseteq Epoched
    BY <1>1, <2>2
  <2>. QED  BY <2>1, <2>2, <2>3, <2>4, <2>5 DEF Normalizer!TypeOK
<1>4. TypeOK
  BY <1>1, <1>2, <1>3, PipelineAssumption DEF Init, TypeOK
<1>5. Shape
  <2>1. [state |-> "new"] \in HostState
    BY DEF HostState
  <2>. QED  BY <1>1, <1>2, <2>1 DEF Init, Shape
<1>6. BindingWithinNormalizer /\ LeftoversExplained /\ Followed
  BY <1>1 DEF BindingWithinNormalizer, LeftoversExplained, Followed
<1>7. EndsFollowStarts /\ Submitted
  BY <1>1 DEF EndsFollowStarts, Submitted
<1>. QED  BY <1>4, <1>5, <1>6, <1>7 DEF IInv

LEMMA NextInv == IInv /\ [Next]_vars => IInv'
<1>. SUFFICES ASSUME IInv, [Next]_vars  PROVE IInv'
  OBVIOUS
<1>0. active \in BOOLEAN /\ backlog \in 0 .. MaxPendingRecords /\ MaxPendingRecords \in Nat
  BY PipelineAssumption DEF IInv, TypeOK
<1>1. ASSUME NEW j \in Job, NEW i \in Identity, NEW op \in Operation, NEW at \in Time,
             HostSubmits(j, i, op, at)
      PROVE  IInv'
  BY <1>1, HostSubmitsInv
<1>2. ASSUME NEW j \in Job, NEW at \in Time,
             NEW end \in {"succeeded", "failed", "host_shutdown"},
             NEW bytes \in BytesReported, HostEnds(j, end, at, bytes)
      PROVE  IInv'
  BY <1>2, HostEndsInv
<1>3. ASSUME NEW j \in Job, HostEndsMalformed(j)
      PROVE  IInv'
  BY <1>3, HostEndsMalformedInv
<1>4. CASE OtherRecordQueued \/ WriterTakes
  <2>1. backlog' \in 0 .. MaxPendingRecords
    BY <1>0, <1>4 DEF OtherRecordQueued, WriterTakes
  <2>. QED  BY <1>0, <1>4, <2>1, BesideInv DEF OtherRecordQueued, WriterTakes
<1>5. CASE StopBegins
  BY <1>0, <1>5, BesideInv DEF StopBegins
<1>6. CASE Unregister
  BY <1>6, UnregisterInv
<1>7. CASE CloseNormalizer
  BY <1>7, CloseNormalizerInv
<1>8. CASE UNCHANGED vars
  BY <1>0, <1>8, BesideInv DEF vars
<1>. QED  BY <1>1, <1>2, <1>3, <1>4, <1>5, <1>6, <1>7, <1>8 DEF Next

-----------------------------------------------------------------------------
\* Whatever the host reports, the writer takes and stop() interrupts, the
\* binding's table, the normalizer's and the queued records stay related.
THEOREM Invariance == Spec => []IInv
<1>. QED  BY InitInv, NextInv, PTL DEF Spec

\* _observe_host keeps _pending within MAX_BINDING_TRANSFERS and the sink its
\* queue within the capacity, for any limits.
THEOREM TypeCorrect == Spec => []TypeOK
<1>1. IInv => TypeOK
  BY DEF IInv
<1>. QED  BY <1>1, Invariance, PTL

\* A job in the binding's _pending is always one the normalizer's _pending
\* holds, under the same identity and operation.
THEOREM BindingAgrees == Spec => []BindingWithinNormalizer
<1>1. IInv => BindingWithinNormalizer
  BY DEF IInv
<1>. QED  BY <1>1, Invariance, PTL

\* A normalizer entry the binding does not follow is left by a callback that
\* returned False for its job, or by unregister().
THEOREM LeftoversAreExplained == Spec => []LeftoversExplained
<1>1. IInv => LeftoversExplained
  BY DEF IInv
<1>. QED  BY <1>1, Invariance, PTL

\* The records KVTransferHostAdapter.observe queues hold an end only after the
\* start of the same job, identity and operation, and each at most once.
THEOREM EndsFollow == Spec => []EndsFollowStarts
<1>1. IInv => EndsFollowStarts
  BY DEF IInv
<1>. QED  BY <1>1, Invariance, PTL
-----------------------------------------------------------------------------
(* The composition is a use of the normalizer.                             *)

\* Every report of an end is a call of normalize() with values it accepts.
LEMMA ReportNormalizes ==
  ASSUME NEW j \in Job, NEW at \in Time, NEW bytes \in BOOLEAN,
         NEW end, Report(j, end, at, bytes)
  PROVE  Normalizer!Normalize
<1>1. ProcessOf[j] \in Process
  BY PipelineAssumption DEF Job
<1>2. ASSUME NEW receipt \in Process \cup {NoReceipt},
             Normalizer!TransferSucceeded(j, at, bytes, receipt)
      PROVE  Normalizer!Normalize
  BY <1>2 DEF Normalizer!Normalize, Job
<1>3. CASE Normalizer!TransferFailed(j, at, FALSE, NoReceipt)
  BY <1>3 DEF Normalizer!Normalize, Job
<1>4. CASE Normalizer!TransferCancelled(j, at)
  BY <1>4 DEF Normalizer!Normalize, Job
<1>5. CASE Normalizer!DropDisabled
  BY <1>5 DEF Normalizer!Normalize
<1>. QED  BY <1>1, <1>2, <1>3, <1>4, <1>5 DEF Report

LEMMA StepNormalizes == [Next]_vars => [Normalizer!Next]_(Normalizer!vars)
<1>. SUFFICES ASSUME [Next]_vars  PROVE Normalizer!Next \/ UNCHANGED Normalizer!vars
  OBVIOUS
<1>1. ASSUME UNCHANGED normalizer
      PROVE  UNCHANGED Normalizer!vars
  BY <1>1 DEF normalizer, Normalizer!vars, Normalizer!tables
<1>2. ASSUME NEW j \in Job, NEW i \in Identity, NEW op \in Operation, NEW at \in Time,
             HostSubmits(j, i, op, at)
      PROVE  Normalizer!Next \/ UNCHANGED Normalizer!vars
  <2>1. CASE Normalizer!TransferSubmitted(i, j, op, at)
    BY <2>1 DEF Normalizer!Next, Normalizer!Normalize, Job
  <2>2. CASE Normalizer!DropDisabled
    BY <2>2 DEF Normalizer!Next, Normalizer!Normalize
  <2>3. CASE UNCHANGED normalizer
    BY <1>1, <2>3
  <2>. QED  BY <1>2, <2>1, <2>2, <2>3 DEF HostSubmits
<1>3. ASSUME NEW j \in Job, NEW at \in Time, NEW end,
             NEW bytes \in BytesReported, HostEnds(j, end, at, bytes)
      PROVE  Normalizer!Next \/ UNCHANGED Normalizer!vars
  <2>1. CASE Report(j, end, at, bytes)
    <3>1. bytes \in BOOLEAN
      BY PipelineAssumption
    <3>. QED  BY <2>1, <3>1, ReportNormalizes DEF Normalizer!Next
  <2>2. CASE UNCHANGED normalizer
    BY <1>1, <2>2
  <2>. QED  BY <1>3, <2>1, <2>2 DEF HostEnds
<1>4. CASE CloseNormalizer
  BY <1>4 DEF CloseNormalizer, Normalizer!Next
<1>5. CASE \/ \E j \in Job : HostEndsMalformed(j)
           \/ OtherRecordQueued \/ WriterTakes \/ StopBegins \/ Unregister
           \/ UNCHANGED vars
  <2>1. UNCHANGED normalizer
    BY <1>5 DEF HostEndsMalformed, OtherRecordQueued, WriterTakes, StopBegins,
                Unregister, vars
  <2>. QED  BY <1>1, <2>1
<1>. QED  BY <1>2, <1>3, <1>4, <1>5 DEF Next

\* Whatever the binding, stop() and the sink do, they use the normalizer only
\* through the calls LifecycleNormalizer allows: the composition refines it, so
\* what is proved of every use of a normalizer holds of this one.
THEOREM DrivesNormalizer == Spec => Normalizer!Spec
<1>1. Init => Normalizer!Init
  BY DEF Init
<1>. QED  BY <1>1, StepNormalizes, PTL DEF Spec, Normalizer!Spec

-----------------------------------------------------------------------------
(* The records the normalizer returns are a stream CanonicalStream allows. *)
(*                                                                         *)
(* CanonicalStream looks back over the records, the normalizer into its    *)
(* tables.  Linked says that the two agree while evidence is produced.     *)
(* The host makes no recovery calls, so a completed restore is never       *)
(* consumed; it matters only because its transfer may not start again.     *)

\* The submission of j is a start that nothing has answered.
StartRecorded(j) ==
  \E k \in DOMAIN emitted :
    /\ Normalizer!Stream!Open(emitted, k, j)
    /\ emitted[k].identity = pending[j].identity
    /\ emitted[k].op = pending[j].op
    /\ emitted[k].at = pending[j].at

\* A start that nothing has answered is in the table of submissions, a
\* completed restore in that of receipts, if those are kept.
RecordsEntered ==
  \A k \in DOMAIN emitted : \A j \in Job :
    /\ Normalizer!Stream!Open(emitted, k, j) => j \in DOMAIN pending
    /\ RetainRestoreReceipts /\ Normalizer!Stream!Usable(emitted, k, j)
         => j \in DOMAIN completed_restores

Linked ==
  Normalizer!Serving =>
    /\ \A j \in DOMAIN pending : StartRecorded(j)
    /\ RecordsEntered

\* What a step must show: it keeps the agreement and is a step of the abstract
\* stream or none.
Kept ==
  /\ Linked'
  /\ Normalizer!Stream!Next \/ UNCHANGED Normalizer!Stream!vars

\* A call that changes no table and no record, and ends no evidence.
LEMMA QuietKept ==
  ASSUME Linked,
         UNCHANGED <<pending, completed_restores, emitted, evidence_valid, closed>>
  PROVE  Kept
<1>1. UNCHANGED Normalizer!Stream!vars
  BY DEF Normalizer!Stream!vars
<1>2. \A j : StartRecorded(j) => StartRecorded(j)'
  BY DEF StartRecorded
<1>3. RecordsEntered => RecordsEntered'
  BY DEF RecordsEntered
<1>. QED  BY <1>1, <1>2, <1>3 DEF Kept, Linked, Normalizer!Serving

\* After a capacity loss or close() the tables no longer matter.
LEMMA EndedKept ==
  ASSUME ~Normalizer!Serving', UNCHANGED emitted
  PROVE  Kept
<1>1. Linked'
  BY DEF Linked
<1>2. CASE Normalizer!Serving
  <2>1. Normalizer!Stream!EndOfEvidence
    BY <1>2 DEF Normalizer!Stream!EndOfEvidence, Normalizer!Serving
  <2>. QED  BY <1>1, <2>1 DEF Kept, Normalizer!Stream!Next
<1>3. CASE ~Normalizer!Serving
  <2>1. UNCHANGED Normalizer!Stream!vars
    BY <1>3 DEF Normalizer!Stream!vars, Normalizer!Serving
  <2>. QED  BY <1>1, <2>1 DEF Kept
<1>. QED  BY <1>2, <1>3

\* The history has grown by a record r of transfer j, at n: looking back, r
\* answers what awaited an answer for j, and nothing else.
Grown(r, j, n) ==
  /\ emitted' # emitted
  /\ DOMAIN emitted' = DOMAIN emitted \cup {n}
  /\ emitted'[n] = r
  /\ \A k \in DOMAIN emitted :
       /\ emitted'[k] = emitted[k]
       /\ \A u : Normalizer!Stream!Open(emitted', k, u)
                   <=> Normalizer!Stream!Open(emitted, k, u) /\ u # j
       /\ \A u : Normalizer!Stream!Usable(emitted', k, u)
                   <=> Normalizer!Stream!Usable(emitted, k, u) /\ u # j
  /\ \A u : Normalizer!Stream!Open(emitted', n, u)
              <=> r.event \in Normalizer!Stream!StartEvents /\ u = j
  /\ \A u : Normalizer!Stream!Usable(emitted', n, u)
              <=> r.event = "restore_completed" /\ u = j

LEMMA GrownHistory ==
  ASSUME emitted \in Seq(Normalizer!Record), NEW r \in Normalizer!Record, NEW j,
         r.transfers = {j}, r.op \in Operation, r.event # "first_compute",
         emitted' = Append(emitted, r), NEW n, n = Len(emitted) + 1
  PROVE  Grown(r, j, n)
<1>1. /\ Len(emitted) \in Nat /\ Len(emitted') = n
      /\ DOMAIN emitted = 1 .. Len(emitted) /\ DOMAIN emitted' = 1 .. n
      /\ \A k \in 1 .. Len(emitted) : emitted'[k] = emitted[k]
      /\ emitted'[n] = r
  BY AppendFacts
<1>2. \A u : /\ Normalizer!Stream!Touches(r, u) <=> u = j
             /\ ~Normalizer!Stream!Consumes(r, u)
  BY PipelineAssumption DEF Normalizer!Stream!Touches, Normalizer!Stream!Consumes,
                            Normalizer!Stream!NoOperation
<1>3. ASSUME NEW k \in DOMAIN emitted
      PROVE  /\ emitted'[k] = emitted[k]
             /\ \A u : Normalizer!Stream!Open(emitted', k, u)
                         <=> Normalizer!Stream!Open(emitted, k, u) /\ u # j
             /\ \A u : Normalizer!Stream!Usable(emitted', k, u)
                         <=> Normalizer!Stream!Usable(emitted, k, u) /\ u # j
  <2>1. /\ emitted'[k] = emitted[k]
        /\ \A m : m \in (k + 1) .. Len(emitted')
                    <=> m \in (k + 1) .. Len(emitted) \/ m = n
        /\ \A m \in (k + 1) .. Len(emitted) : emitted'[m] = emitted[m]
        /\ emitted'[n] = r
    BY <1>1
  <2>. QED  BY <1>2, <2>1 DEF Normalizer!Stream!Open, Normalizer!Stream!Usable
<1>4. /\ \A u : Normalizer!Stream!Open(emitted', n, u)
                  <=> r.event \in Normalizer!Stream!StartEvents /\ u = j
      /\ \A u : Normalizer!Stream!Usable(emitted', n, u)
                  <=> r.event = "restore_completed" /\ u = j
  <2>1. emitted'[n] = r /\ \A m : m \notin (n + 1) .. Len(emitted')
    BY <1>1
  <2>. QED  BY <2>1 DEF Normalizer!Stream!Open, Normalizer!Stream!Usable
<1>5. emitted' # emitted
  <2>. SUFFICES ASSUME emitted' = emitted  PROVE FALSE
    OBVIOUS
  <2>1. Len(emitted') = Len(emitted)
    OBVIOUS
  <2>. QED  BY <1>1, <2>1
<1>6. DOMAIN emitted' = DOMAIN emitted \cup {n}
  BY <1>1
<1>7. emitted'[n] = r
  BY <1>1
<1>. QED  BY <1>3, <1>4, <1>5, <1>6, <1>7 DEF Grown

\* A returned record extends the stream while evidence is produced.
LEMMA ReturnFacts ==
  ASSUME Normalizer!Serving, NEW r, Normalizer!Accept(r)
  PROVE  /\ emitted' = Append(emitted, r)
         /\ Normalizer!Stream!Return(r)
         /\ Normalizer!Serving'
BY DEF Normalizer!Accept, Normalizer!Stream!Return, Normalizer!Serving

\* A submission that is stored: its transfer is in neither table, so no start of
\* it is open and no restore usable.
LEMMA StartKept ==
  ASSUME Normalizer!TypeOK, Linked, Normalizer!Serving,
         NEW j \in Job, NEW i \in Identity, NEW op \in Operation, NEW at \in Time,
         ~Normalizer!Duplicate(j),
         pending' = Normalizer!Put(pending, j, [identity |-> i, op |-> op, at |-> at]),
         Normalizer!Accept(Normalizer!Stream!TransferRecord(
           Normalizer!Stream!StartedEvent(op), i, op, j, at)),
         UNCHANGED completed_restores
  PROVE  Kept
<1>. DEFINE e == Normalizer!Stream!StartedEvent(op)
            r == Normalizer!Stream!TransferRecord(e, i, op, j, at)
            n == Len(emitted) + 1
<1>1. /\ e \in Normalizer!Event /\ e \in Normalizer!Stream!StartEvents
      /\ e # "first_compute" /\ e # "restore_completed"
  BY DEF Normalizer!Stream!StartedEvent, Normalizer!Event, Normalizer!Stream!StartEvents
<1>. HIDE DEF e
<1>2. /\ r \in Normalizer!Record
      /\ r.event = e /\ r.transfers = {j} /\ r.identity = i /\ r.op = op /\ r.at = at
  BY <1>1, TransferRecordFacts DEF Normalizer!Stream!TransferRecord
<1>3. Normalizer!Accept(r)
  BY DEF r, e
<1>4. /\ emitted' = Append(emitted, r) /\ Normalizer!Stream!Return(r)
      /\ Normalizer!Serving'
  BY <1>3, ReturnFacts
<1>5. emitted \in Seq(Normalizer!Record)
  BY DEF Normalizer!TypeOK
<1>6. j \notin DOMAIN pending /\ j \notin DOMAIN completed_restores
  BY DEF Normalizer!Duplicate
<1>7. /\ \A u \in DOMAIN pending : StartRecorded(u)
      /\ RecordsEntered
  BY DEF Linked
<1>. HIDE DEF r, n
<1>8. Grown(r, j, n)
  <2>1. /\ r.transfers = {j} /\ r.op \in Operation /\ r.event # "first_compute"
        /\ r.event # "restore_completed" /\ r.event \in Normalizer!Stream!StartEvents
        /\ n = Len(emitted) + 1
    BY <1>1, <1>2 DEF n
  <2>. QED  BY <1>2, <1>4, <1>5, <2>1, GrownHistory
<1>9. /\ DOMAIN pending' = DOMAIN pending \cup {j}
      /\ pending'[j] = [identity |-> i, op |-> op, at |-> at]
      /\ \A u \in DOMAIN pending \ {j} : pending'[u] = pending[u]
  BY DEF Normalizer!Put
<1>10. \A u \in DOMAIN pending' : StartRecorded(u)'
  <2>1. StartRecorded(j)'
    BY <1>1, <1>2, <1>8, <1>9 DEF StartRecorded, Grown
  <2>2. ASSUME NEW u \in DOMAIN pending \ {j}  PROVE StartRecorded(u)'
    BY <1>7, <1>8, <1>9 DEF StartRecorded, Grown
  <2>. QED  BY <1>9, <2>1, <2>2
<1>11. RecordsEntered'
  BY <1>1, <1>2, <1>7, <1>8, <1>9 DEF RecordsEntered, Grown
<1>12. Normalizer!Stream!Start(i, j, op, at)
  <2>1. \A k \in DOMAIN emitted :
          /\ ~Normalizer!Stream!Open(emitted, k, j)
          /\ RetainRestoreReceipts => ~Normalizer!Stream!Usable(emitted, k, j)
    BY <1>6, <1>7 DEF RecordsEntered
  <2>. QED  BY <1>4, <2>1 DEF Normalizer!Stream!Start, r, e
<1>. QED  BY <1>8, <1>10, <1>11, <1>12
          DEF Kept, Linked, Grown, Normalizer!Stream!Next, Normalizer!Stream!Extend, Job

\* An end that is accepted: the submission is the open start, and a restore
\* whose receipt is kept is in the other table now.
LEMMA EndKept ==
  ASSUME Normalizer!TypeOK, Linked, Normalizer!Serving,
         NEW j \in DOMAIN pending, NEW at \in Time,
         NEW e \in {Normalizer!Stream!CompletedEvent(pending[j].op),
                    "transfer_failed", "transfer_cancelled"},
         pending[j].at <= at,
         \/ pending[j].at < at
         \/ e = "transfer_cancelled"
         \/ e = "transfer_failed" /\ pending[j].op = "h2d_restore",
         Normalizer!EndPending(j),
         Normalizer!Accept(Normalizer!Stream!TransferRecord(e,
           pending[j].identity, pending[j].op, j, at)),
         DOMAIN completed_restores \subseteq DOMAIN completed_restores',
         RetainRestoreReceipts /\ e = "restore_completed"
           => j \in DOMAIN completed_restores'
  PROVE  Kept
<1>. DEFINE i == pending[j].identity
            op == pending[j].op
            r == Normalizer!Stream!TransferRecord(e, i, op, j, at)
            n == Len(emitted) + 1
<1>0. j \in Job /\ i \in Identity /\ op \in Operation
      /\ emitted \in Seq(Normalizer!Record)
  BY DEF Normalizer!TypeOK, Normalizer!Submission, Job
<1>1. /\ e \in Normalizer!Event /\ e \notin Normalizer!Stream!StartEvents
      /\ e # "first_compute"
  BY DEF Normalizer!Stream!CompletedEvent, Normalizer!Event,
         Normalizer!Stream!StartEvents
<1>2. /\ r \in Normalizer!Record
      /\ r.event = e /\ r.transfers = {j} /\ r.identity = i /\ r.op = op /\ r.at = at
  BY <1>0, <1>1, TransferRecordFacts DEF Normalizer!Stream!TransferRecord
<1>3. /\ emitted' = Append(emitted, r) /\ Normalizer!Stream!Return(r)
      /\ Normalizer!Serving'
  BY ReturnFacts
<1>4. /\ \A u \in DOMAIN pending : StartRecorded(u)
      /\ RecordsEntered
  BY DEF Linked
<1>5. PICK k \in DOMAIN emitted :
        /\ Normalizer!Stream!Open(emitted, k, j)
        /\ emitted[k].identity = i /\ emitted[k].op = op
        /\ emitted[k].at = pending[j].at
  BY <1>4 DEF StartRecorded
<1>6. Normalizer!Stream!Finish(e, i, j, op, at)
  BY <1>3, <1>5 DEF Normalizer!Stream!Finish
<1>7. e \in {Normalizer!Stream!CompletedEvent(op), "transfer_failed",
             "transfer_cancelled"}
  OBVIOUS
<1>. HIDE DEF r, n, i, op
<1>8. Grown(r, j, n)
  <2>1. /\ r.transfers = {j} /\ r.op \in Operation /\ r.event = e
        /\ r.event # "first_compute" /\ r.event \notin Normalizer!Stream!StartEvents
        /\ n = Len(emitted) + 1
    BY <1>0, <1>1, <1>2 DEF n
  <2>. QED  BY <1>0, <1>2, <1>3, <2>1, GrownHistory
<1>9. /\ DOMAIN pending' = DOMAIN pending \ {j}
      /\ \A u \in DOMAIN pending \ {j} : pending'[u] = pending[u]
  BY DropFacts DEF Normalizer!EndPending
<1>10. \A u \in DOMAIN pending' : StartRecorded(u)'
  BY <1>4, <1>8, <1>9 DEF StartRecorded, Grown
<1>11. RecordsEntered'
  BY <1>1, <1>2, <1>4, <1>8, <1>9 DEF RecordsEntered, Grown
<1>12. Normalizer!Stream!Next
  BY <1>0, <1>6, <1>7, <1>8
     DEF Grown, Normalizer!Stream!Next, Normalizer!Stream!Extend, Job
<1>. QED  BY <1>10, <1>11, <1>12 DEF Kept, Linked

-----------------------------------------------------------------------------
(* The calls the host makes.                                               *)

\* A call that is rejected or dropped.
LEMMA RejectKept ==
  ASSUME Linked, Normalizer!Reject \/ Normalizer!DropDisabled
  PROVE  Kept
BY QuietKept DEF Normalizer!Reject, Normalizer!DropDisabled, Normalizer!tables

\* A loss of capacity.
LEMMA CapacityKept ==
  ASSUME Normalizer!DisableForCapacity
  PROVE  Kept
BY EndedKept DEF Normalizer!DisableForCapacity, Normalizer!Serving

LEMMA SubmittedKept ==
  ASSUME Normalizer!TypeOK, Linked, NEW j \in Job, NEW i \in Identity,
         NEW op \in Operation, NEW at \in Time,
         Normalizer!TransferSubmitted(i, j, op, at)
  PROVE  Kept
<1>1. CASE Normalizer!Reject
  BY <1>1, RejectKept
<1>2. CASE Normalizer!DisableForCapacity
  BY <1>2, CapacityKept
<1>3. CASE /\ ~Normalizer!Duplicate(j)
           /\ pending' = Normalizer!Put(pending, j, [identity |-> i, op |-> op, at |-> at])
           /\ Normalizer!Accept(Normalizer!Stream!TransferRecord(
                Normalizer!Stream!StartedEvent(op), i, op, j, at))
           /\ UNCHANGED <<completed_restores, admissions>>
  <2>1. Normalizer!Serving
    BY DEF Normalizer!TransferSubmitted
  <2>. QED  BY <1>3, <2>1, StartKept
<1>. QED  BY <1>1, <1>2, <1>3 DEF Normalizer!TransferSubmitted

\* What the completed end of a submission tells of time.
LEMMA PendingFacts ==
  ASSUME Normalizer!TypeOK, NEW j \in DOMAIN pending
  PROVE  /\ pending[j].op \in {"d2h_preserve", "h2d_restore"}
         /\ pending[j].at \in Nat
         /\ \A at \in Time : at \in Nat
BY PipelineAssumption DEF Normalizer!TypeOK, Normalizer!Submission

LEMMA SucceededKept ==
  ASSUME Normalizer!TypeOK, Linked, NEW j \in Job, NEW at \in Time, NEW bytes,
         NEW receipt, Normalizer!TransferSucceeded(j, at, bytes, receipt)
  PROVE  Kept
<1>1. CASE Normalizer!Reject \/ Normalizer!RejectForeignReceipt(j)
  BY <1>1, RejectKept DEF Normalizer!RejectForeignReceipt
<1>2. CASE Normalizer!DisableForCapacity
  BY <1>2, CapacityKept
<1>3. CASE /\ Normalizer!MatchesSubmission(j, at)
           /\ Normalizer!CarriesSuccess(j, at, bytes, receipt)
           /\ completed_restores' =
                IF Normalizer!Retains(j)
                  THEN Normalizer!Put(completed_restores, j,
                         [identity |-> pending[j].identity, at |-> at])
                  ELSE completed_restores
           /\ Normalizer!EndPending(j)
           /\ Normalizer!Accept(Normalizer!Stream!TransferRecord(
                Normalizer!Stream!CompletedEvent(pending[j].op),
                pending[j].identity, pending[j].op, j, at))
  <2>. DEFINE e == Normalizer!Stream!CompletedEvent(pending[j].op)
  <2>1. /\ j \in DOMAIN pending /\ pending[j].at <= at /\ at # pending[j].at
    BY <1>3 DEF Normalizer!MatchesSubmission, Normalizer!CarriesSuccess
  <2>2. pending[j].at < at
    BY <2>1, PendingFacts
  <2>3. /\ DOMAIN completed_restores \subseteq DOMAIN completed_restores'
        /\ Normalizer!Retains(j) => j \in DOMAIN completed_restores'
    <3>1. CASE Normalizer!Retains(j)
      <4>1. DOMAIN completed_restores' = DOMAIN completed_restores \cup {j}
        BY <1>3, <3>1, PutFacts
      <4>. QED  BY <4>1
    <3>2. CASE ~Normalizer!Retains(j)
      BY <1>3, <3>2
    <3>. QED  BY <3>1, <3>2
  <2>4. e = "restore_completed" => pending[j].op = "h2d_restore"
    BY <2>1, PendingFacts DEF Normalizer!Stream!CompletedEvent
  <2>5. RetainRestoreReceipts /\ e = "restore_completed"
          => j \in DOMAIN completed_restores'
    BY <2>3, <2>4 DEF Normalizer!Retains
  <2>6. Normalizer!Serving
    BY DEF Normalizer!TransferSucceeded
  <2>7. e \in {e, "transfer_failed", "transfer_cancelled"}
    OBVIOUS
  <2>. QED  BY <1>3, <2>1, <2>2, <2>3, <2>5, <2>6, <2>7, EndKept
<1>. QED  BY <1>1, <1>2, <1>3 DEF Normalizer!TransferSucceeded

LEMMA FailedKept ==
  ASSUME Normalizer!TypeOK, Linked, NEW j \in Job, NEW at \in Time,
         Normalizer!TransferFailed(j, at, FALSE, NoReceipt)
  PROVE  Kept
<1>1. CASE Normalizer!Reject
  BY <1>1, RejectKept
<1>2. CASE /\ Normalizer!MatchesSubmission(j, at) /\ Normalizer!EndPending(j)
           /\ Normalizer!Accept(Normalizer!Stream!TransferRecord("transfer_failed",
                pending[j].identity, pending[j].op, j, at))
           /\ UNCHANGED <<completed_restores, admissions>>
  <2>1. /\ j \in DOMAIN pending /\ pending[j].at <= at
        /\ pending[j].op = "d2h_preserve" => at # pending[j].at
    BY <1>2 DEF Normalizer!MatchesSubmission
  <2>2. pending[j].at < at \/ pending[j].op = "h2d_restore"
    BY <2>1, PendingFacts
  <2>3. Normalizer!Serving
    BY DEF Normalizer!TransferFailed
  <2>. QED  BY <1>2, <2>1, <2>2, <2>3, EndKept
<1>. QED  BY <1>1, <1>2 DEF Normalizer!TransferFailed

LEMMA CancelledKept ==
  ASSUME Normalizer!TypeOK, Linked, NEW j \in Job, NEW at \in Time,
         Normalizer!TransferCancelled(j, at)
  PROVE  Kept
<1>1. CASE Normalizer!Reject
  BY <1>1, RejectKept
<1>2. CASE /\ j \in DOMAIN pending /\ at >= pending[j].at /\ Normalizer!EndPending(j)
           /\ Normalizer!Accept(Normalizer!Stream!TransferRecord("transfer_cancelled",
                pending[j].identity, pending[j].op, j, at))
           /\ UNCHANGED <<completed_restores, admissions>>
  <2>1. pending[j].at <= at
    BY <1>2
  <2>2. Normalizer!Serving
    BY DEF Normalizer!TransferCancelled
  <2>. QED  BY <1>2, <2>1, <2>2, EndKept
<1>. QED  BY <1>1, <1>2 DEF Normalizer!TransferCancelled

\* One case per way an action of the host, of stop() or of the sink uses the
\* normalizer.
LEMMA StepKept ==
  ASSUME Normalizer!TypeOK, Linked, [Next]_vars
  PROVE  Kept
<1>1. ASSUME UNCHANGED normalizer  PROVE Kept
  BY <1>1, QuietKept DEF normalizer
<1>2. ASSUME NEW j \in Job, NEW i \in Identity, NEW op \in Operation, NEW at \in Time,
             HostSubmits(j, i, op, at)
      PROVE  Kept
  <2>1. CASE Normalizer!TransferSubmitted(i, j, op, at)
    BY <2>1, SubmittedKept
  <2>2. CASE Normalizer!DropDisabled
    BY <2>2, RejectKept
  <2>3. CASE UNCHANGED normalizer
    BY <1>1, <2>3
  <2>. QED  BY <1>2, <2>1, <2>2, <2>3 DEF HostSubmits
<1>3. ASSUME NEW j \in Job, NEW at \in Time, NEW end, NEW bytes,
             HostEnds(j, end, at, bytes)
      PROVE  Kept
  <2>1. CASE Report(j, end, at, bytes)
    <3>1. CASE \E receipt : Normalizer!TransferSucceeded(j, at, bytes, receipt)
      BY <3>1, SucceededKept
    <3>2. CASE Normalizer!TransferFailed(j, at, FALSE, NoReceipt)
      BY <3>2, FailedKept
    <3>3. CASE Normalizer!TransferCancelled(j, at)
      BY <3>3, CancelledKept
    <3>4. CASE Normalizer!DropDisabled
      BY <3>4, RejectKept
    <3>. QED  BY <2>1, <3>1, <3>2, <3>3, <3>4 DEF Report
  <2>2. CASE UNCHANGED normalizer
    BY <1>1, <2>2
  <2>. QED  BY <1>3, <2>1, <2>2 DEF HostEnds
<1>4. CASE CloseNormalizer
  BY <1>4, EndedKept DEF CloseNormalizer, Normalizer!Close, Normalizer!Serving
<1>5. CASE \/ \E j \in Job : HostEndsMalformed(j)
           \/ OtherRecordQueued \/ WriterTakes \/ StopBegins \/ Unregister
           \/ UNCHANGED vars
  <2>1. UNCHANGED normalizer
    BY <1>5 DEF HostEndsMalformed, OtherRecordQueued, WriterTakes, StopBegins,
                Unregister, vars
  <2>. QED  BY <1>1, <2>1
<1>. QED  BY <1>2, <1>3, <1>4, <1>5 DEF Next

LEMMA InitLinked ==
  ASSUME Init
  PROVE  Linked /\ Normalizer!Stream!Init
<1>1. /\ DOMAIN pending = {} /\ emitted = <<>> /\ DOMAIN emitted = {}
      /\ evidence_valid = TRUE /\ closed = FALSE
  BY NothingFacts DEF Init, Normalizer!Init
<1>2. Linked
  BY <1>1 DEF Linked, RecordsEntered
<1>3. Normalizer!Stream!Init
  BY <1>1 DEF Normalizer!Stream!Init
<1>. QED  BY <1>2, <1>3

\* The records returned to the host's callbacks are a stream CanonicalStream
\* allows, whatever the binding drops, the sink refuses or stop() cuts off:
\* transfers start once at a time, end once and not before their start, and no
\* transfer starts again while its restore waits for a compute.
THEOREM StreamIsCanonical == Spec => StreamContract
<1>1. Init => Linked /\ Normalizer!Stream!Init
  BY InitLinked
<1>2. IInv => Normalizer!TypeOK
  BY DEF IInv, TypeOK
<1>3. IInv /\ Linked /\ [Next]_vars
        => Linked' /\ [Normalizer!Stream!Next]_(Normalizer!Stream!vars)
  BY <1>2, StepKept DEF Kept
<1>. QED  BY <1>1, <1>3, Invariance, PTL
          DEF Spec, StreamContract, Normalizer!ImplementsStream, Normalizer!Stream!Spec
=============================================================================
