------------------------- MODULE RestoreChainProofs -------------------------
(***************************************************************************)
(* Proofs about RestoreChain, for any finite sets of transfers and         *)
(* identities, any timestamps and any artifact.                            *)
(*                                                                         *)
(* The judge decides by what it remembers, WellPlaced speaks of the        *)
(* records.  Following, the inductive part of IInv, says that while the    *)
(* judge reads the two agree: the summary of each episode, the transfers   *)
(* and receipts it has seen, and the tables of the replayed normalizer say *)
(* of the records read what was in them.  MayFollow is WellPlaced of the   *)
(* record to be read next.  From the agreement, Decision shows that the    *)
(* checks and the replay together accept a record exactly when it may      *)
(* follow; Judgement, which is about the log alone, then stands.           *)
(***************************************************************************)
EXTENDS RestoreChain, FiniteSetTheorems, TLAPS

-----------------------------------------------------------------------------
(* The records and their places.                                           *)

FactEvent == {"recovery_requeued", "restore_started", "transfer_failed",
              "restore_completed", "recovery_admitted", "first_compute"}

\* What the closed schema says of a record.
SchemaRecord(f) ==
  /\ f.event \in FactEvent /\ f.identity \in Identity /\ f.at \in Nat /\ f.at \in Time
  /\ f.duration \in Nat
  /\ f.transfers \in SUBSET Transfer
  /\ f.event \in {"recovery_requeued", "recovery_admitted", "first_compute"}
       => f.identity \in Epoched
  /\ f.event \in {"restore_started", "restore_completed"}
       => \E t \in Transfer : f.transfers = {t}
  /\ f.event \in {"restore_completed", "first_compute"} =>
       /\ f.receipt \in Receipt
       /\ \A t \in f.transfers : ProcessOf[t] = ReceiptProcess[f.receipt]
  /\ f.event \notin {"restore_completed", "first_compute"} => f.receipt = NoReceipt

LEMMA FactMeaning ==
  ASSUME NEW f \in Facts
  PROVE  SchemaRecord(f)
<1>0. /\ \A i \in Epoched : i \in Identity
      /\ \A at \in Time : at \in Nat
      /\ \A ts \in Single \cup Roster \cup {{}} : ts \in SUBSET Transfer
      /\ 0 \in Nat
  BY ChainAssumption DEF Single, Roster
<1>1. CASE f \in FactsOf("recovery_requeued", Epoched, {{}}, {NoReceipt}, {0})
  <2>1. /\ f.event = "recovery_requeued" /\ f.identity \in Epoched /\ f.transfers \in {{}}
        /\ f.receipt \in {NoReceipt} /\ f.duration \in {0} /\ f.at \in Time
    BY <1>1 DEF FactsOf
  <2>. QED  BY <1>0, <2>1 DEF SchemaRecord, FactEvent
<1>2. CASE f \in FactsOf("restore_started", Identity, Single, {NoReceipt}, {0})
  <2>1. /\ f.event = "restore_started" /\ f.identity \in Identity /\ f.transfers \in Single
        /\ f.receipt \in {NoReceipt} /\ f.duration \in {0} /\ f.at \in Time
    BY <1>2 DEF FactsOf
  <2>3. \E t \in Transfer : f.transfers = {t}
    BY <2>1 DEF Single
  <2>. QED  BY <1>0, <2>1, <2>3 DEF SchemaRecord, FactEvent
<1>3. CASE f \in FactsOf("transfer_failed", Identity, Single, {NoReceipt}, {0})
  <2>1. /\ f.event = "transfer_failed" /\ f.identity \in Identity /\ f.transfers \in Single
        /\ f.receipt \in {NoReceipt} /\ f.duration \in {0} /\ f.at \in Time
    BY <1>3 DEF FactsOf
  <2>3. \E t \in Transfer : f.transfers = {t}
    BY <2>1 DEF Single
  <2>. QED  BY <1>0, <2>1, <2>3 DEF SchemaRecord, FactEvent
<1>4. CASE f \in FactsOf("restore_completed", Identity, Single, Receipt, Time) /\ ReceiptInScope(f)
  <2>1. /\ f.event = "restore_completed" /\ f.identity \in Identity /\ f.transfers \in Single
        /\ f.receipt \in Receipt /\ f.duration \in Time /\ f.at \in Time
    BY <1>4 DEF FactsOf
  <2>2. \A t \in f.transfers : ProcessOf[t] = ReceiptProcess[f.receipt]
    BY <1>4 DEF ReceiptInScope
  <2>3. \E t \in Transfer : f.transfers = {t}
    BY <2>1 DEF Single
  <2>. QED  BY <1>0, <2>1, <2>2, <2>3 DEF SchemaRecord, FactEvent
<1>5. CASE f \in FactsOf("recovery_admitted", Epoched, Roster, {NoReceipt}, {0})
  <2>1. /\ f.event = "recovery_admitted" /\ f.identity \in Epoched /\ f.transfers \in Roster
        /\ f.receipt \in {NoReceipt} /\ f.duration \in {0} /\ f.at \in Time
    BY <1>5 DEF FactsOf
  <2>. QED  BY <1>0, <2>1 DEF SchemaRecord, FactEvent
<1>6. CASE f \in FactsOf("first_compute", Epoched, Roster, Receipt, {0}) /\ ReceiptInScope(f)
  <2>1. /\ f.event = "first_compute" /\ f.identity \in Epoched /\ f.transfers \in Roster
        /\ f.receipt \in Receipt /\ f.duration \in {0} /\ f.at \in Time
    BY <1>6 DEF FactsOf
  <2>2. \A t \in f.transfers : ProcessOf[t] = ReceiptProcess[f.receipt]
    BY <1>6 DEF ReceiptInScope
  <2>. QED  BY <1>0, <2>1, <2>2 DEF SchemaRecord, FactEvent
<1>. QED  BY <1>1, <1>2, <1>3, <1>4, <1>5, <1>6 DEF Facts

\* f may follow the first k - 1 records of s: WellPlaced, spelled out for a
\* record that has not been read yet.
MayFollow(s, k, f) ==
  LET Earlier == 1 .. (k - 1)
      Own == {m \in Earlier : s[m].identity = f.identity}
      Is(m, e) == s[m].event = e
  IN
  /\ f.event \in FactEvent \ {"transfer_failed"}
  /\ f.event = "recovery_requeued" => \A m \in Earlier : m \notin Own
  /\ f.event # "recovery_requeued" => \E m \in Earlier : m \in Own
  /\ \A m \in Own : ~Is(m, "first_compute") /\ s[m].at <= f.at
  /\ f.receipt # NoReceipt => \A m \in Earlier : s[m].receipt # f.receipt
  /\ f.event \in {"restore_started", "restore_completed", "recovery_admitted"} =>
       \A m \in Own : ~Is(m, "recovery_admitted")
  /\ f.event = "restore_started" =>
       \A m \in Earlier : Is(m, "restore_started") =>
         \A t \in s[m].transfers : t \notin f.transfers
  /\ f.event = "restore_completed" =>
       /\ \A m \in Own : Is(m, "restore_completed") =>
            \A t \in s[m].transfers : t \notin f.transfers
       /\ \E m \in Own : /\ Is(m, "restore_started") /\ s[m].transfers = f.transfers
                         /\ s[m].at < f.at /\ f.duration = f.at - s[m].at
  /\ f.event = "recovery_admitted" => \A t \in Transfer :
       /\ t \in f.transfers <=>
            \E m \in Own : Is(m, "restore_started") /\ t \in s[m].transfers
       /\ t \in f.transfers <=>
            \E m \in Own : Is(m, "restore_completed") /\ t \in s[m].transfers
  /\ f.event = "first_compute" =>
       \E m \in Own : Is(m, "recovery_admitted") /\ s[m].transfers = f.transfers

\* A sequence of records of the closed schema.
LEMMA LogTyped ==
  ASSUME NEW s \in Seq(Facts)
  PROVE  /\ Len(s) \in Nat /\ DOMAIN s = 1 .. Len(s)
         /\ \A m \in 1 .. Len(s) : s[m] \in Facts /\ SchemaRecord(s[m])
<1>1. /\ Len(s) \in Nat /\ DOMAIN s = 1 .. Len(s)
      /\ \A m \in 1 .. Len(s) : s[m] \in Facts
  OBVIOUS
<1>. QED  BY <1>1, FactMeaning

LEMMA PlacedMeaning ==
  ASSUME log \in Seq(Facts), NEW k \in 1 .. Len(log)
  PROVE  WellPlaced(k) <=> MayFollow(log, k, log[k])
<1>1. /\ Len(log) \in Nat
      /\ \A m \in 1 .. Len(log) : SchemaRecord(log[m])
  BY LogTyped
<1>2. \A m \in 1 .. (k - 1) : m \in 1 .. Len(log)
  BY <1>1
<1>. DEFINE f == log[k]
<1>3. SchemaRecord(f)
  BY <1>1
<1>4. \A i, e, t : t \in Moved(k, i, e) <=>
        \E m \in 1 .. (k - 1) : /\ log[m].identity = i /\ log[m].event = e
                               /\ t \in log[m].transfers
  BY DEF Moved, Before
<1>5. \A i, e, m : m \in Before(k, i, e)
        <=> m \in 1 .. (k - 1) /\ log[m].identity = i /\ log[m].event = e
  BY DEF Before
<1>6. \A m \in 1 .. (k - 1) : log[m].identity \in Identity
  BY <1>1, <1>2 DEF SchemaRecord
<1>. DEFINE Common ==
              /\ f.event = "recovery_requeued"
                   <=> \A m \in 1 .. (k - 1) : log[m].identity # f.identity
              /\ \A m \in 1 .. (k - 1) : log[m].identity = f.identity =>
                   log[m].event # "first_compute" /\ log[m].at <= f.at
              /\ f.receipt # NoReceipt =>
                   \A m \in 1 .. (k - 1) : log[m].receipt # f.receipt
            NotAdmitted ==
              \A m \in 1 .. (k - 1) :
                log[m].identity = f.identity => log[m].event # "recovery_admitted"
<1>7. Before(k, f.identity, "recovery_admitted") = {} <=> NotAdmitted
  BY DEF Before
<1>8. /\ f.event = "recovery_requeued"
           <=> {m \in 1 .. (k - 1) : log[m].identity = f.identity} = {}
      /\ Before(k, f.identity, "first_compute") = {}
      /\ \A m \in {n \in 1 .. (k - 1) : log[n].identity = f.identity} : log[m].at <= f.at
      /\ \A m \in 1 .. (k - 1) : f.receipt # NoReceipt => log[m].receipt # f.receipt
      <=> Common
  <2>1. {m \in 1 .. (k - 1) : log[m].identity = f.identity} = {}
          <=> \A m \in 1 .. (k - 1) : log[m].identity # f.identity
    OBVIOUS
  <2>2. Before(k, f.identity, "first_compute") = {}
          <=> \A m \in 1 .. (k - 1) :
                log[m].identity = f.identity => log[m].event # "first_compute"
    BY DEF Before
  <2>. QED  BY <2>1, <2>2
<1>9. CASE f.event \in {"recovery_requeued", "transfer_failed"}
  <2>1. WellPlaced(k) <=> Common /\ f.event # "transfer_failed"
    BY <1>8, <1>9 DEF WellPlaced
  <2>. QED  BY <1>9, <2>1 DEF MayFollow, FactEvent
<1>10. CASE f.event = "restore_started"
  <2>1. (\A j \in Identity : f.transfers \cap Moved(k, j, "restore_started") = {})
          <=> \A m \in 1 .. (k - 1) : log[m].event = "restore_started" =>
                \A t \in log[m].transfers : t \notin f.transfers
    <3>. HIDE DEF f
    <3>. QED  BY <1>4, <1>6
  <2>2. WellPlaced(k) <=>
          /\ Common /\ NotAdmitted
          /\ \A j \in Identity : f.transfers \cap Moved(k, j, "restore_started") = {}
    BY <1>7, <1>8, <1>10 DEF WellPlaced
  <2>. QED  BY <1>10, <2>1, <2>2 DEF MayFollow, FactEvent
<1>11. CASE f.event = "restore_completed"
  <2>1. f.transfers \cap Moved(k, f.identity, "restore_completed") = {}
          <=> \A m \in 1 .. (k - 1) :
                log[m].identity = f.identity /\ log[m].event = "restore_completed" =>
                \A t \in log[m].transfers : t \notin f.transfers
    <3>. HIDE DEF f
    <3>. QED  BY <1>4
  <2>2. WellPlaced(k) <=>
          /\ Common /\ NotAdmitted
          /\ f.transfers \cap Moved(k, f.identity, "restore_completed") = {}
          /\ \E m \in Before(k, f.identity, "restore_started") :
               /\ log[m].transfers = f.transfers
               /\ log[m].at < f.at
               /\ f.duration = f.at - log[m].at
    BY <1>7, <1>8, <1>11 DEF WellPlaced
  <2>. QED  BY <1>5, <1>11, <2>1, <2>2 DEF MayFollow, FactEvent
<1>12. CASE f.event = "recovery_admitted"
  <2>1. ASSUME NEW e
        PROVE  f.transfers = Moved(k, f.identity, e) <=> \A t \in Transfer :
                 t \in f.transfers <=> \E m \in 1 .. (k - 1) :
                   log[m].identity = f.identity /\ log[m].event = e /\ t \in log[m].transfers
    <3>1. \A t \in Moved(k, f.identity, e) : t \in Transfer
      BY <1>1, <1>2, <1>4 DEF SchemaRecord
    <3>2. \A t \in f.transfers : t \in Transfer
      BY <1>3 DEF SchemaRecord
    <3>3. ASSUME NEW A, NEW B, A \subseteq Transfer, B \subseteq Transfer
          PROVE  A = B <=> \A t \in Transfer : t \in A <=> t \in B
      BY <3>3
    <3>4. f.transfers = Moved(k, f.identity, e) <=>
            \A t \in Transfer : t \in f.transfers <=> t \in Moved(k, f.identity, e)
      <4>. HIDE DEF f
      <4>. QED  BY <3>1, <3>2, <3>3
    <3>. HIDE DEF f
    <3>. QED  BY <1>4, <3>4
  <2>2. WellPlaced(k) <=>
          /\ Common /\ NotAdmitted
          /\ f.transfers = Moved(k, f.identity, "restore_started")
          /\ f.transfers = Moved(k, f.identity, "restore_completed")
    BY <1>7, <1>8, <1>12 DEF WellPlaced
  <2>. QED  BY <1>12, <2>1, <2>2 DEF MayFollow, FactEvent
<1>13. CASE f.event = "first_compute"
  <2>1. WellPlaced(k) <=>
          /\ Common
          /\ \E m \in Before(k, f.identity, "recovery_admitted") :
               log[m].transfers = f.transfers
    BY <1>8, <1>13 DEF WellPlaced
  <2>. QED  BY <1>5, <1>13, <2>1 DEF MayFollow, FactEvent
<1>. QED  BY <1>3, <1>9, <1>10, <1>11, <1>12, <1>13 DEF SchemaRecord, FactEvent

\* The same at the end of a step.
PlacesMean ==
  log \in Seq(Facts) =>
    \A k \in 1 .. Len(log) : WellPlaced(k) <=> MayFollow(log, k, log[k])

LEMMA PlacesMeanAlways == PlacesMean /\ PlacesMean'
<1>1. PlacesMean
  BY PlacedMeaning DEF PlacesMean
<1>. QED  BY <1>1, PTL

-----------------------------------------------------------------------------
(* What the judge remembers, in terms of the records it has read.          *)

Summary == [started : SUBSET Transfer, completed : SUBSET Transfer,
            admitted : BOOLEAN, computed : BOOLEAN, last_ns : Nat]

\* Record m has the event e, and belongs to i or names t.
Own(m, i, e) == log[m].identity = i /\ log[m].event = e
Names(m, t, e) == log[m].event = e /\ t \in log[m].transfers

Has(i, e) == \E m \in DOMAIN log : Own(m, i, e)

\* The summary of an episode says what its records say.
EpisodeAgrees(i) ==
  LET e == episodes[i] IN
  /\ e \in Summary
  /\ \A t \in Transfer :
       /\ t \in e.started <=>
            \E m \in DOMAIN log : Own(m, i, "restore_started") /\ t \in log[m].transfers
       /\ t \in e.completed <=>
            \E m \in DOMAIN log : Own(m, i, "restore_completed") /\ t \in log[m].transfers
  /\ e.admitted <=> Has(i, "recovery_admitted")
  /\ e.computed <=> Has(i, "first_compute")
  /\ \A m \in DOMAIN log : log[m].identity = i => log[m].at <= e.last_ns
  /\ \E m \in DOMAIN log : log[m].identity = i /\ log[m].at = e.last_ns

EpisodesAgree ==
  /\ \A i \in Identity :
       i \in DOMAIN episodes <=> \E m \in DOMAIN log : log[m].identity = i
  /\ DOMAIN episodes \subseteq Identity
  /\ \A i \in DOMAIN episodes : EpisodeAgrees(i)

SeenAgrees ==
  /\ \A t \in Transfer :
       t \in seen_transfers <=> \E m \in DOMAIN log : Names(m, t, "restore_started")
  /\ \A k \in Receipt : k \in seen_receipts <=> \E m \in DOMAIN log : log[m].receipt = k

\* A transfer is pending in the replay from its start to its completion.
PendingAgrees ==
  /\ DOMAIN pending \subseteq Transfer
  /\ \A t \in DOMAIN pending :
       /\ pending[t].op = "h2d_restore"
       /\ \E m \in DOMAIN log : /\ Names(m, t, "restore_started")
                                /\ log[m].identity = pending[t].identity
                                /\ log[m].at = pending[t].at
       /\ \A m \in DOMAIN log : ~Names(m, t, "restore_completed")
  /\ \A t \in Transfer, m \in DOMAIN log : Names(m, t, "restore_started") =>
       \/ t \in DOMAIN pending
       \/ \E n \in DOMAIN log : Names(n, t, "restore_completed")

\* A completed restore is kept until its identity computes.
RestoresAgree ==
  /\ DOMAIN completed_restores \subseteq Transfer
  /\ \A t \in DOMAIN completed_restores :
       \E m \in DOMAIN log : Names(m, t, "restore_completed")
  /\ \A t \in Transfer, m \in DOMAIN log : Names(m, t, "restore_completed") =>
       \/ Has(log[m].identity, "first_compute")
       \/ /\ t \in DOMAIN completed_restores
          /\ completed_restores[t].identity = log[m].identity
          /\ completed_restores[t].at = log[m].at

\* So is an admission.
AdmissionsAgree ==
  /\ DOMAIN admissions \subseteq Identity
  /\ \A i \in DOMAIN admissions :
       \E m \in DOMAIN log : /\ Own(m, i, "recovery_admitted")
                             /\ log[m].transfers = admissions[i].transfers
                             /\ log[m].at = admissions[i].at
  /\ \A m \in DOMAIN log : log[m].event = "recovery_admitted" =>
       \/ Has(log[m].identity, "first_compute")
       \/ log[m].identity \in DOMAIN admissions

Sound == \A k \in 1 .. Len(log) : WellPlaced(k)

\* While it reads, the judge has found nothing wrong and forgotten nothing.
Following ==
  /\ Sound
  /\ EpisodesAgree /\ SeenAgrees
  /\ evidence_valid /\ ~closed /\ emitted \in Seq(N!Record)
  /\ PendingAgrees /\ RestoresAgree /\ AdmissionsAgree

\* What the verdict says of the records, by the places they may take.
InPlace(k) == MayFollow(log, k, log[k])

Judgement ==
  /\ verdict # "rejected" => \A k \in DOMAIN log : InPlace(k)
  /\ verdict = "rejected" =>
       /\ log # <<>>
       /\ \A k \in 1 .. (Len(log) - 1) : InPlace(k)
       /\ ~InPlace(Len(log))
  /\ verdict = "accepted" =>
       log # <<>> /\ \A k \in DOMAIN log : Has(log[k].identity, "first_compute")
  /\ verdict = "incomplete" =>
       log = <<>> \/ \E k \in DOMAIN log : ~Has(log[k].identity, "first_compute")

IInv ==
  /\ log \in Seq(Facts)
  /\ verdict \in {"reading", "accepted", "rejected", "incomplete"}
  /\ verdict = "reading" => Following
  /\ verdict # "reading" => Judgement

-----------------------------------------------------------------------------
(* A log of well placed records.                                           *)

\* No transfer starts twice, no identity is admitted twice, and a completion
\* has its start under the same identity.
LEMMA SoundLog ==
  ASSUME log \in Seq(Facts), Sound
  PROVE  /\ \A m, n \in DOMAIN log : \A t \in Transfer :
              Names(m, t, "restore_started") /\ Names(n, t, "restore_started") => m = n
         /\ \A m, n \in DOMAIN log :
              /\ log[m].event = "recovery_admitted" /\ log[n].event = "recovery_admitted"
              /\ log[m].identity = log[n].identity
              => m = n
         /\ \A n \in DOMAIN log : \A t \in Transfer : Names(n, t, "restore_completed") =>
              \E m \in DOMAIN log : /\ Names(m, t, "restore_started")
                                    /\ log[m].identity = log[n].identity
         /\ \A n \in DOMAIN log : log[n].event = "recovery_admitted" =>
              \A t \in log[n].transfers : \E m \in DOMAIN log :
                Names(m, t, "restore_started") /\ log[m].identity = log[n].identity
<1>1. /\ Len(log) \in Nat /\ DOMAIN log = 1 .. Len(log)
      /\ \A m \in 1 .. Len(log) : SchemaRecord(log[m])
  BY LogTyped
<1>2. \A k \in DOMAIN log : MayFollow(log, k, log[k])
  BY <1>1, PlacedMeaning DEF Sound
<1>3. \A k \in DOMAIN log : \A m \in 1 .. (k - 1) : m \in DOMAIN log
  BY <1>1
<1>4. \A m, n \in DOMAIN log : m = n \/ m \in 1 .. (n - 1) \/ n \in 1 .. (m - 1)
  BY <1>1
<1>5. ASSUME NEW n \in DOMAIN log, NEW m \in 1 .. (n - 1), NEW t \in Transfer,
             Names(m, t, "restore_started"), Names(n, t, "restore_started")
      PROVE  FALSE
  BY <1>2, <1>5 DEF MayFollow, Names
<1>6. ASSUME NEW n \in DOMAIN log, NEW m \in 1 .. (n - 1),
             log[m].event = "recovery_admitted", log[n].event = "recovery_admitted",
             log[m].identity = log[n].identity
      PROVE  FALSE
  BY <1>2, <1>6 DEF MayFollow
<1>7. ASSUME NEW n \in DOMAIN log, NEW t \in Transfer, Names(n, t, "restore_completed")
      PROVE  \E m \in DOMAIN log : /\ Names(m, t, "restore_started")
                                   /\ log[m].identity = log[n].identity
  BY <1>2, <1>3, <1>7 DEF MayFollow, Names
<1>8. ASSUME NEW n \in DOMAIN log, log[n].event = "recovery_admitted",
             NEW t \in log[n].transfers
      PROVE  \E m \in DOMAIN log : /\ Names(m, t, "restore_started")
                                   /\ log[m].identity = log[n].identity
  <2>1. t \in Transfer
    BY <1>1, <1>8 DEF SchemaRecord
  <2>. QED  BY <1>2, <1>3, <1>8, <2>1 DEF MayFollow, Names
<1>. QED  BY <1>4, <1>5, <1>6, <1>7, <1>8

\* What reading a record does to the log.
LEMMA LogGrows ==
  ASSUME log \in Seq(Facts), NEW f \in Facts, log' = Append(log, f)
  PROVE  /\ log' \in Seq(Facts)
         /\ Len(log) \in Nat /\ Len(log') = Len(log) + 1
         /\ DOMAIN log = 1 .. Len(log) /\ DOMAIN log' = 1 .. (Len(log) + 1)
         /\ \A m : m \in DOMAIN log' <=> m \in DOMAIN log \/ m = Len(log) + 1
         /\ \A m \in DOMAIN log : log'[m] = log[m]
         /\ log'[Len(log) + 1] = f
<1>1. Len(log) \in Nat /\ DOMAIN log = 1 .. Len(log)
  BY LogTyped
<1>. QED  BY <1>1

\* MayFollow looks at the earlier records only.
LEMMA FollowKept ==
  ASSUME NEW s, NEW u, NEW k, NEW f, \A m \in 1 .. (k - 1) : s[m] = u[m]
  PROVE  MayFollow(s, k, f) <=> MayFollow(u, k, f)
BY DEF MayFollow

\* A record that may follow keeps the log sound; one that may not is the first
\* that is not well placed.
LEMMA SoundGrows ==
  ASSUME log \in Seq(Facts), Sound, NEW f \in Facts, log' = Append(log, f),
         NEW n, n = Len(log) + 1
  PROVE  /\ \A k \in 1 .. Len(log) : WellPlaced(k)'
         /\ WellPlaced(n)' <=> MayFollow(log, n, f)
<1>1. /\ log' \in Seq(Facts) /\ Len(log) \in Nat /\ Len(log') = Len(log) + 1
      /\ DOMAIN log = 1 .. Len(log)
      /\ \A m \in DOMAIN log : log'[m] = log[m]
      /\ log'[Len(log) + 1] = f
  BY LogGrows
<1>2. \A k \in 1 .. Len(log') : WellPlaced(k)' <=> MayFollow(log', k, log'[k])
  BY <1>1, PlacesMeanAlways DEF PlacesMean
<1>3. ASSUME NEW k \in 1 .. Len(log)
      PROVE  WellPlaced(k)'
  <2>1. MayFollow(log, k, log[k])
    BY PlacedMeaning DEF Sound
  <2>2. \A m \in 1 .. (k - 1) : log'[m] = log[m]
    BY <1>1
  <2>3. MayFollow(log', k, log'[k])
    BY <1>1, <2>1, <2>2, FollowKept
  <2>. QED  BY <1>1, <1>2, <2>3
<1>4. WellPlaced(n)' <=> MayFollow(log, n, f)
  <2>1. \A m \in 1 .. (n - 1) : log'[m] = log[m]
    BY <1>1
  <2>2. MayFollow(log', n, f) <=> MayFollow(log, n, f)
    BY <2>1, FollowKept
  <2>. QED  BY <1>1, <1>2, <2>2
<1>. QED  BY <1>3, <1>4

-----------------------------------------------------------------------------
(* The checks against the summaries, in terms of the log.                  *)

\* MayFollow for the next record, in two parts: the checks that every record
\* passes, and those of its event.
InOrder(f) ==
  /\ f.event = "recovery_requeued" => \A m \in DOMAIN log : log[m].identity # f.identity
  /\ f.event # "recovery_requeued" => \E m \in DOMAIN log : log[m].identity = f.identity
  /\ \A m \in DOMAIN log : log[m].identity = f.identity =>
       log[m].event # "first_compute" /\ log[m].at <= f.at
  /\ f.receipt # NoReceipt => \A m \in DOMAIN log : log[m].receipt # f.receipt

NotAdmitted(f) == ~Has(f.identity, "recovery_admitted")

StartFits(f) ==
  \A m \in DOMAIN log, t \in Transfer :
    Names(m, t, "restore_started") => t \notin f.transfers

CompletionFits(f) ==
  /\ \A m \in DOMAIN log, t \in Transfer :
       Own(m, f.identity, "restore_completed") /\ t \in log[m].transfers =>
         t \notin f.transfers
  /\ \E m \in DOMAIN log :
       /\ Own(m, f.identity, "restore_started") /\ log[m].transfers = f.transfers
       /\ log[m].at < f.at /\ f.duration = f.at - log[m].at

AdmissionFits(f) == \A t \in Transfer :
  /\ t \in f.transfers <=> \E m \in DOMAIN log :
       Own(m, f.identity, "restore_started") /\ t \in log[m].transfers
  /\ t \in f.transfers <=> \E m \in DOMAIN log :
       Own(m, f.identity, "restore_completed") /\ t \in log[m].transfers

ComputeFits(f) == \E m \in DOMAIN log :
  Own(m, f.identity, "recovery_admitted") /\ log[m].transfers = f.transfers

LEMMA NextMeaning ==
  ASSUME log \in Seq(Facts), NEW f \in Facts, NEW n, n = Len(log) + 1
  PROVE  MayFollow(log, n, f) <=>
           /\ InOrder(f)
           /\ \/ f.event = "recovery_requeued"
              \/ f.event = "restore_started" /\ NotAdmitted(f) /\ StartFits(f)
              \/ f.event = "restore_completed" /\ NotAdmitted(f) /\ CompletionFits(f)
              \/ f.event = "recovery_admitted" /\ NotAdmitted(f) /\ AdmissionFits(f)
              \/ f.event = "first_compute" /\ ComputeFits(f)
<1>1. /\ 1 .. (n - 1) = DOMAIN log
      /\ \A m \in DOMAIN log : \A t \in log[m].transfers : t \in Transfer
  BY LogTyped DEF SchemaRecord
<1>2. SchemaRecord(f)
  BY FactMeaning
<1>3. CASE f.event \in {"recovery_requeued", "transfer_failed"}
  BY <1>1, <1>3 DEF MayFollow, InOrder, FactEvent
<1>4. CASE f.event = "restore_started"
  BY <1>1, <1>4 DEF MayFollow, InOrder, FactEvent, NotAdmitted, Has, Own, Names, StartFits
<1>5. CASE f.event = "restore_completed"
  BY <1>1, <1>5 DEF MayFollow, InOrder, FactEvent, NotAdmitted, Has, Own, CompletionFits
<1>6. CASE f.event = "recovery_admitted"
  BY <1>1, <1>6 DEF MayFollow, InOrder, FactEvent, NotAdmitted, Has, Own, AdmissionFits
<1>7. CASE f.event = "first_compute"
  BY <1>1, <1>7 DEF MayFollow, InOrder, FactEvent, Own, ComputeFits
<1>. QED  BY <1>2, <1>3, <1>4, <1>5, <1>6, <1>7 DEF SchemaRecord, FactEvent

LEMMA OrderedMeaning ==
  ASSUME log \in Seq(Facts), EpisodesAgree, SeenAgrees, NEW f \in Facts
  PROVE  /\ Ordered(f) <=> InOrder(f)
         /\ InOrder(f) /\ f.event # "recovery_requeued" =>
              f.identity \in DOMAIN episodes /\ EpisodeAgrees(f.identity)
<1>1. SchemaRecord(f) /\ \A m \in DOMAIN log : SchemaRecord(log[m])
  BY FactMeaning, LogTyped
<1>. DEFINE i == f.identity
<1>2. /\ i \in DOMAIN episodes <=> \E m \in DOMAIN log : log[m].identity = i
      /\ i \in DOMAIN episodes => EpisodeAgrees(i)
  BY <1>1 DEF EpisodesAgree, SchemaRecord
<1>3. f.receipt # NoReceipt =>
        (f.receipt \notin seen_receipts <=> \A m \in DOMAIN log : log[m].receipt # f.receipt)
  BY <1>1 DEF SeenAgrees, SchemaRecord
<1>4. CASE f.event = "recovery_requeued"
  BY <1>2, <1>3, <1>4 DEF Ordered, InOrder
<1>5. CASE f.event # "recovery_requeued"
  <2>1. ASSUME i \in DOMAIN episodes
        PROVE  ~episodes[i].computed /\ f.at >= episodes[i].last_ns
                 <=> \A m \in DOMAIN log : log[m].identity = i =>
                       log[m].event # "first_compute" /\ log[m].at <= f.at
    <3>1. EpisodeAgrees(i)
      BY <1>2, <2>1
    <3>2. episodes[i].last_ns \in Nat /\ f.at \in Nat /\ \A m \in DOMAIN log : log[m].at \in Nat
      BY <1>1, <3>1 DEF EpisodeAgrees, Summary, SchemaRecord
    <3>3. episodes[i].computed <=> \E m \in DOMAIN log : Own(m, i, "first_compute")
      BY <3>1 DEF EpisodeAgrees, Has
    <3>4. f.at >= episodes[i].last_ns
            <=> \A m \in DOMAIN log : log[m].identity = i => log[m].at <= f.at
      <4>1. PICK m \in DOMAIN log : log[m].identity = i /\ log[m].at = episodes[i].last_ns
        BY <3>1 DEF EpisodeAgrees
      <4>2. \A p \in DOMAIN log : log[p].identity = i => log[p].at <= episodes[i].last_ns
        BY <3>1 DEF EpisodeAgrees
      <4>. HIDE DEF i
      <4>. QED  BY <3>2, <4>1, <4>2
    <3>. QED  BY <3>3, <3>4 DEF Own
  <2>. QED  BY <1>2, <1>3, <1>5, <2>1 DEF Ordered, InOrder
<1>. QED  BY <1>2, <1>4, <1>5 DEF InOrder

LEMMA FitsMeaning ==
  ASSUME log \in Seq(Facts), EpisodesAgree, SeenAgrees, NEW f \in Facts,
         InOrder(f), f.event # "recovery_requeued"
  PROVE  /\ f.event = "restore_started" =>
              (FitsEpisode(f) <=> NotAdmitted(f) /\ StartFits(f))
         /\ f.event = "restore_completed" => (FitsEpisode(f) <=> NotAdmitted(f))
         /\ f.event = "recovery_admitted" =>
              (FitsEpisode(f) <=> NotAdmitted(f) /\ AdmissionFits(f))
         /\ f.event \in {"first_compute", "transfer_failed"} => FitsEpisode(f)
<1>1. SchemaRecord(f)
  BY FactMeaning
<1>. DEFINE e == episodes[f.identity]
<1>2. EpisodeAgrees(f.identity)
  BY OrderedMeaning
<1>3. e.admitted <=> ~NotAdmitted(f)
  BY <1>2 DEF EpisodeAgrees, NotAdmitted
<1>4. \A t \in f.transfers : t \in Transfer
  BY <1>1 DEF SchemaRecord
<1>5. f.transfers \cap seen_transfers = {} <=> StartFits(f)
  BY <1>4 DEF SeenAgrees, StartFits
<1>6. f.transfers = e.started /\ f.transfers = e.completed <=> AdmissionFits(f)
  <2>1. e.started \subseteq Transfer /\ e.completed \subseteq Transfer
    BY <1>2 DEF EpisodeAgrees, Summary
  <2>2. /\ f.transfers = e.started <=> \A t \in Transfer : t \in f.transfers <=> t \in e.started
        /\ f.transfers = e.completed
             <=> \A t \in Transfer : t \in f.transfers <=> t \in e.completed
    <3>. HIDE DEF e
    <3>. QED  BY <1>4, <2>1
  <2>. QED  BY <1>2, <2>2 DEF EpisodeAgrees, AdmissionFits
<1>7. CASE f.event = "restore_started"
  BY <1>3, <1>5, <1>7 DEF FitsEpisode
<1>8. CASE f.event = "restore_completed"
  BY <1>3, <1>8 DEF FitsEpisode
<1>9. CASE f.event = "recovery_admitted"
  BY <1>3, <1>6, <1>9 DEF FitsEpisode
<1>10. CASE f.event \in {"first_compute", "transfer_failed"}
  BY <1>10 DEF FitsEpisode
<1>. QED  BY <1>7, <1>8, <1>9, <1>10

-----------------------------------------------------------------------------
(* The replay.  Each lemma says when the normalizer's answer is the record *)
(* read, and what the call then does to its tables.                        *)

Accepted(f) == counted' = "accepted" /\ SameRecord(f)

\* The instance counts as this module does.
LEMMA SameCardinality ==
  ASSUME NEW S
  PROVE  N!Cardinality(S) = Cardinality(S)
BY DEF N!Cardinality, Cardinality

\* The limits given to the private normalizer are never reached.
LEMMA NeverFull ==
  ASSUME Following
  PROVE  ~N!PendingFull /\ ~N!ReceiptTableFull
           /\ Cardinality(DOMAIN admissions) < Cardinality(Identity) + 1
<1>1. /\ DOMAIN pending \subseteq Transfer /\ DOMAIN completed_restores \subseteq Transfer
      /\ DOMAIN admissions \subseteq Identity
  BY DEF Following, PendingAgrees, RestoresAgree, AdmissionsAgree
<1>2. IsFiniteSet(Transfer) /\ IsFiniteSet(Identity)
  BY ChainAssumption
<1>3. /\ Cardinality(DOMAIN pending) <= Cardinality(Transfer)
      /\ Cardinality(DOMAIN completed_restores) <= Cardinality(Transfer)
      /\ Cardinality(DOMAIN admissions) <= Cardinality(Identity)
  BY <1>1, <1>2, FS_Subset
<1>4. /\ Cardinality(DOMAIN pending) \in Nat /\ Cardinality(Transfer) \in Nat
      /\ Cardinality(DOMAIN completed_restores) \in Nat
      /\ Cardinality(DOMAIN admissions) \in Nat /\ Cardinality(Identity) \in Nat
  BY <1>1, <1>2, FS_Subset, FS_CardinalityType
<1>. QED  BY <1>3, <1>4, SameCardinality DEF N!PendingFull, N!ReceiptTableFull

\* The record at the end of the history.
LEMMA LastEmitted ==
  ASSUME Following, NEW r \in N!Record, N!Accept(r)
  PROVE  /\ counted' = "accepted" /\ emitted' \in Seq(N!Record)
         /\ emitted'[Len(emitted')] = r
         /\ evidence_valid' /\ ~closed'
BY DEF Following, N!Accept

LEMMA RequeueReplay ==
  ASSUME Following, NEW f \in Facts, f.event = "recovery_requeued", Replay(f)
  PROVE  /\ Accepted(f)
         /\ UNCHANGED <<pending, completed_restores, admissions>>
         /\ evidence_valid' /\ ~closed' /\ emitted' \in Seq(N!Record)
<1>1. f.identity \in Epoched
  BY FactMeaning DEF SchemaRecord
<1>2. N!RecoveryRequeued(f.identity)
  BY DEF Replay
<1>3. /\ counted' = "accepted"
      /\ UNCHANGED <<pending, completed_restores, admissions>>
      /\ UNCHANGED <<evidence_valid, closed, emitted>>
  BY <1>1, <1>2 DEF N!RecoveryRequeued, N!tables
<1>4. evidence_valid' /\ ~closed' /\ emitted' \in Seq(N!Record)
  BY <1>3 DEF Following
<1>. QED  BY <1>3, <1>4 DEF Accepted, SameRecord

LEMMA StartReplay ==
  ASSUME log \in Seq(Facts), Following, NEW f \in Facts,
         f.event = "restore_started",
         StartFits(f), Replay(f), NEW t \in Transfer, f.transfers = {t}
  PROVE  /\ Accepted(f)
         /\ pending' = N!Put(pending, t,
                         [identity |-> f.identity, op |-> "h2d_restore", at |-> f.at])
         /\ UNCHANGED <<completed_restores, admissions>>
         /\ evidence_valid' /\ ~closed' /\ emitted' \in Seq(N!Record)
<1>. DEFINE r == N!Stream!TransferRecord(N!Stream!StartedEvent("h2d_restore"),
                   f.identity, "h2d_restore", t, f.at)
<1>1. SchemaRecord(f)
  BY FactMeaning
<1>2. N!TransferSubmitted(f.identity, t, "h2d_restore", f.at)
  BY DEF Replay, Only
<1>3. ~N!Duplicate(t)
  <2>1. \A m \in DOMAIN log : ~Names(m, t, "restore_started")
    BY DEF StartFits
  <2>2. t \notin DOMAIN pending
    BY <2>1 DEF Following, PendingAgrees
  <2>3. \A n \in DOMAIN log : ~Names(n, t, "restore_completed")
    BY <2>1, SoundLog DEF Following
  <2>4. t \notin DOMAIN completed_restores
    BY <2>3 DEF Following, RestoresAgree
  <2>. QED  BY <2>2, <2>4 DEF N!Duplicate
<1>4. /\ pending' = N!Put(pending, t,
                      [identity |-> f.identity, op |-> "h2d_restore", at |-> f.at])
      /\ N!Accept(r)
      /\ UNCHANGED <<completed_restores, admissions>>
  BY <1>2, <1>3, NeverFull DEF N!TransferSubmitted
<1>5. /\ r \in N!Record /\ r.event = "restore_started" /\ r.identity = f.identity
      /\ r.transfers = {t} /\ r.at = f.at
  BY <1>1 DEF SchemaRecord, N!Stream!TransferRecord, N!Stream!StartedEvent,
              N!Record, N!Event
<1>6. Accepted(f)
  BY <1>4, <1>5, LastEmitted DEF Accepted, SameRecord
<1>. QED  BY <1>4, <1>5, <1>6, LastEmitted

\* A completion that fits is the end of the pending submission.
LEMMA CompletionMeaning ==
  ASSUME log \in Seq(Facts), Following, NEW f \in Facts,
         f.event = "restore_completed", NEW t \in Transfer, f.transfers = {t}
  PROVE  CompletionFits(f) <=>
           /\ t \in DOMAIN pending
           /\ pending[t].identity = f.identity
           /\ pending[t].at < f.at
           /\ f.duration = f.at - pending[t].at
<1>1. \A m \in DOMAIN log : SchemaRecord(log[m])
  BY LogTyped
<1>2. \A m \in DOMAIN log : Names(m, t, "restore_started") => log[m].transfers = {t}
  BY <1>1 DEF Names, SchemaRecord
<1>3. \A m, n \in DOMAIN log :
        Names(m, t, "restore_started") /\ Names(n, t, "restore_started") => m = n
  BY SoundLog DEF Following
<1>4. PendingAgrees
  BY DEF Following
<1>5. ASSUME CompletionFits(f)
      PROVE  /\ t \in DOMAIN pending /\ pending[t].identity = f.identity
             /\ pending[t].at < f.at /\ f.duration = f.at - pending[t].at
  <2>1. PICK m \in DOMAIN log :
          /\ Own(m, f.identity, "restore_started") /\ log[m].transfers = f.transfers
          /\ log[m].at < f.at /\ f.duration = f.at - log[m].at
    BY <1>5 DEF CompletionFits
  <2>2. Names(m, t, "restore_started")
    BY <2>1 DEF Own, Names
  <2>3. ASSUME NEW n \in DOMAIN log, Names(n, t, "restore_completed")
        PROVE  FALSE
    <3>1. log[n].identity = f.identity
      BY <1>3, <2>1, <2>2, <2>3, SoundLog DEF Following, Own
    <3>. QED  BY <1>5, <2>3, <3>1 DEF CompletionFits, Own, Names
  <2>4. t \in DOMAIN pending
    BY <1>4, <2>2, <2>3 DEF PendingAgrees
  <2>5. PICK n \in DOMAIN log : /\ Names(n, t, "restore_started")
                                /\ log[n].identity = pending[t].identity
                                /\ log[n].at = pending[t].at
    BY <1>4, <2>4 DEF PendingAgrees
  <2>6. n = m
    BY <1>3, <2>2, <2>5
  <2>. QED  BY <2>1, <2>4, <2>5, <2>6 DEF Own
<1>6. ASSUME t \in DOMAIN pending, pending[t].identity = f.identity,
             pending[t].at < f.at, f.duration = f.at - pending[t].at
      PROVE  CompletionFits(f)
  <2>1. PICK m \in DOMAIN log : /\ Names(m, t, "restore_started")
                                /\ log[m].identity = pending[t].identity
                                /\ log[m].at = pending[t].at
    BY <1>4, <1>6 DEF PendingAgrees
  <2>2. \A n \in DOMAIN log : ~Names(n, t, "restore_completed")
    BY <1>4, <1>6 DEF PendingAgrees
  <2>3. \A u \in f.transfers : u = t
    OBVIOUS
  <2>. QED  BY <1>2, <1>6, <2>1, <2>2, <2>3 DEF CompletionFits, Own, Names
<1>. QED  BY <1>5, <1>6

LEMMA CompletionReplay ==
  ASSUME log \in Seq(Facts), Following, NEW f \in Facts,
         f.event = "restore_completed", Replay(f), NEW t \in Transfer, f.transfers = {t}
  PROVE  /\ Accepted(f) <=> CompletionFits(f)
         /\ CompletionFits(f) =>
              /\ pending' = N!Drop(pending, {t})
              /\ completed_restores' =
                   N!Put(completed_restores, t, [identity |-> f.identity, at |-> f.at])
              /\ UNCHANGED admissions
              /\ evidence_valid' /\ ~closed' /\ emitted' \in Seq(N!Record)
<1>. DEFINE k == ReceiptProcess[f.receipt]
            Fits == N!MatchesSubmission(t, f.at) /\ N!CarriesSuccess(t, f.at, TRUE, k)
            r == N!Stream!TransferRecord(N!Stream!CompletedEvent(pending[t].op),
                   pending[t].identity, pending[t].op, t, f.at)
<1>1. SchemaRecord(f) /\ \A m \in DOMAIN log : SchemaRecord(log[m])
  BY FactMeaning, LogTyped
<1>2. N!TransferSucceeded(t, f.at, TRUE, k)
  BY DEF Replay, Only
<1>3. k # NoReceipt /\ k = ProcessOf[t]
  BY <1>1, ChainAssumption DEF SchemaRecord
<1>4. t \in DOMAIN pending =>
        /\ pending[t].op = "h2d_restore"
        /\ pending[t].identity \in Identity /\ pending[t].at \in Nat /\ f.at \in Nat
  BY <1>1 DEF Following, PendingAgrees, SchemaRecord
<1>5. Fits <=> t \in DOMAIN pending /\ pending[t].at < f.at
  BY <1>3, <1>4 DEF N!MatchesSubmission, N!CarriesSuccess
<1>6. ~Fits => counted' = "invalid"
  BY <1>2 DEF N!TransferSucceeded, N!Reject
<1>7. Fits =>
        /\ pending' = N!Drop(pending, {t})
        /\ completed_restores' =
             N!Put(completed_restores, t, [identity |-> pending[t].identity, at |-> f.at])
        /\ UNCHANGED admissions
        /\ N!Accept(r)
  <2>. HIDE DEF r
  <2>1. ASSUME Fits
        PROVE  N!Retains(t) /\ N!ReceiptInScope(t, k)
    BY <1>3, <1>4, <1>5, <2>1 DEF N!Retains, N!ReceiptInScope
  <2>. HIDE DEF k
  <2>. QED  BY <1>2, <2>1, NeverFull DEF N!TransferSucceeded, N!EndPending, r
<1>8. Fits => /\ r \in N!Record /\ r.event = "restore_completed" /\ r.transfers = {t}
              /\ r.identity = pending[t].identity /\ r.at = f.at
  BY <1>1, <1>4, <1>5 DEF SchemaRecord, N!Stream!TransferRecord,
                          N!Stream!CompletedEvent, N!Record, N!Event
<1>9. Fits => /\ counted' = "accepted" /\ emitted'[Len(emitted')] = r
              /\ evidence_valid' /\ ~closed' /\ emitted' \in Seq(N!Record)
  <2>. HIDE DEF r, Fits
  <2>. QED  BY <1>7, <1>8, LastEmitted
<1>10. Only(f.transfers) = t
  BY DEF Only
<1>11. Fits => (SameRecord(f) <=> /\ pending[t].identity = f.identity
                                 /\ f.duration = f.at - pending[t].at)
  <2>. HIDE DEF r, Fits
  <2>. QED  BY <1>8, <1>9, <1>10 DEF SameRecord
<1>12. CompletionFits(f) <=> Fits /\ /\ pending[t].identity = f.identity
                                    /\ f.duration = f.at - pending[t].at
  BY <1>5, CompletionMeaning
<1>. HIDE DEF InPlace, r
<1>13. Accepted(f) <=> CompletionFits(f)
  BY <1>6, <1>9, <1>11, <1>12 DEF Accepted
<1>. QED  BY <1>7, <1>9, <1>12, <1>13

LEMMA AdmissionReplay ==
  ASSUME log \in Seq(Facts), Following, NEW f \in Facts,
         f.event = "recovery_admitted", InOrder(f), NotAdmitted(f), AdmissionFits(f),
         Replay(f)
  PROVE  /\ Accepted(f)
         /\ admissions' = N!Put(admissions, f.identity,
                            [transfers |-> f.transfers, at |-> f.at])
         /\ UNCHANGED <<pending, completed_restores>>
         /\ evidence_valid' /\ ~closed' /\ emitted' \in Seq(N!Record)
<1>. DEFINE i == f.identity
            r == N!Stream!RecoveryRecord("recovery_admitted", i, f.transfers, f.at)
<1>1. SchemaRecord(f)
  BY FactMeaning
<1>2. N!RecoveryAdmitted(i, f.transfers, f.at)
  BY DEF Replay
<1>3. i \in Epoched \ DOMAIN admissions
  BY <1>1 DEF SchemaRecord, NotAdmitted, Has, Following, AdmissionsAgree
<1>4. N!RosterRestored(i, f.transfers, f.at)
  <2>. SUFFICES ASSUME NEW t \in f.transfers
                PROVE  /\ t \in DOMAIN completed_restores
                       /\ completed_restores[t].identity = i
                       /\ completed_restores[t].at <= f.at
    BY DEF N!RosterRestored
  <2>1. t \in Transfer
    BY <1>1 DEF SchemaRecord
  <2>2. PICK m \in DOMAIN log : Own(m, i, "restore_completed") /\ t \in log[m].transfers
    BY <2>1 DEF AdmissionFits
  <2>3. ~Has(i, "first_compute") /\ log[m].at <= f.at
    BY <2>2 DEF InOrder, Has, Own
  <2>. QED  BY <2>1, <2>2, <2>3 DEF Following, RestoresAgree, Own, Names
<1>5. /\ admissions' = N!Put(admissions, i, [transfers |-> f.transfers, at |-> f.at])
      /\ N!Accept(r)
      /\ UNCHANGED <<pending, completed_restores>>
  <2>1. ~(N!Cardinality(DOMAIN admissions) >= Cardinality(Identity) + 1)
    <3>1. /\ Cardinality(DOMAIN admissions) \in Nat /\ Cardinality(Identity) \in Nat
      BY FS_Subset, FS_CardinalityType, ChainAssumption DEF Following, AdmissionsAgree
    <3>. QED  BY <3>1, NeverFull, SameCardinality
  <2>. QED  BY <1>2, <1>3, <1>4, <2>1 DEF N!RecoveryAdmitted
<1>6. /\ r \in N!Record /\ r.event = "recovery_admitted" /\ r.identity = i
      /\ r.transfers = f.transfers /\ r.at = f.at
  BY <1>1 DEF SchemaRecord, N!Stream!RecoveryRecord, N!Stream!NoOperation,
              N!Record, N!Event
<1>7. Accepted(f)
  BY <1>5, <1>6, LastEmitted DEF Accepted, SameRecord
<1>. QED  BY <1>5, <1>6, <1>7, LastEmitted

\* A first compute that fits answers the outstanding admission.
LEMMA ComputeMeaning ==
  ASSUME log \in Seq(Facts), Following, NEW f \in Facts,
         f.event = "first_compute", InOrder(f)
  PROVE  ComputeFits(f) <=>
           N!MatchesAdmission(f.identity, f.transfers, ReceiptProcess[f.receipt], f.at)
<1>. DEFINE i == f.identity
<1>1. SchemaRecord(f)
  BY FactMeaning
<1>2. AdmissionsAgree
  BY DEF Following
<1>3. \A m, n \in DOMAIN log :
        Own(m, i, "recovery_admitted") /\ Own(n, i, "recovery_admitted") => m = n
  BY SoundLog DEF Following, Own
<1>4. \A t \in f.transfers : ProcessOf[t] = ReceiptProcess[f.receipt]
  BY <1>1 DEF SchemaRecord
<1>5. ASSUME ComputeFits(f)
      PROVE  /\ i \in DOMAIN admissions /\ admissions[i].transfers = f.transfers
             /\ f.at >= admissions[i].at
  <2>1. PICK m \in DOMAIN log :
          Own(m, i, "recovery_admitted") /\ log[m].transfers = f.transfers
    BY <1>5 DEF ComputeFits
  <2>2. ~Has(i, "first_compute")
    BY DEF InOrder, Has, Own
  <2>3. i \in DOMAIN admissions
    BY <1>2, <2>1, <2>2 DEF AdmissionsAgree, Own
  <2>4. PICK n \in DOMAIN log : /\ Own(n, i, "recovery_admitted")
                                /\ log[n].transfers = admissions[i].transfers
                                /\ log[n].at = admissions[i].at
    BY <1>2, <2>3 DEF AdmissionsAgree
  <2>5. n = m /\ log[n].at <= f.at
    BY <1>3, <2>1, <2>4 DEF InOrder, Own
  <2>6. f.at \in Nat /\ log[n].at \in Nat
    BY <1>1, LogTyped DEF SchemaRecord
  <2>. QED  BY <2>1, <2>3, <2>4, <2>5, <2>6
<1>6. ASSUME i \in DOMAIN admissions, admissions[i].transfers = f.transfers
      PROVE  ComputeFits(f)
  BY <1>2, <1>6 DEF AdmissionsAgree, ComputeFits
<1>. QED  BY <1>4, <1>5, <1>6 DEF N!MatchesAdmission

LEMMA ComputeReplay ==
  ASSUME log \in Seq(Facts), Following, NEW f \in Facts,
         f.event = "first_compute", InOrder(f), Replay(f)
  PROVE  /\ Accepted(f) <=> ComputeFits(f)
         /\ ComputeFits(f) =>
              /\ admissions' = N!Drop(admissions, {f.identity})
              /\ completed_restores' = N!Drop(completed_restores, f.transfers)
              /\ UNCHANGED pending
              /\ evidence_valid' /\ ~closed' /\ emitted' \in Seq(N!Record)
<1>. DEFINE i == f.identity
            r == N!Stream!RecoveryRecord("first_compute", i, f.transfers, f.at)
<1>1. SchemaRecord(f)
  BY FactMeaning
<1>2. N!FirstCompute(i, f.transfers, ReceiptProcess[f.receipt], f.at)
  BY DEF Replay
<1>3. ~ComputeFits(f) => counted' = "invalid"
  BY <1>2, ComputeMeaning DEF N!FirstCompute
<1>4. ComputeFits(f) => /\ admissions' = N!Drop(admissions, {i})
                        /\ completed_restores' = N!Drop(completed_restores, f.transfers)
                        /\ UNCHANGED pending
                        /\ N!Accept(r)
  BY <1>2, ComputeMeaning DEF N!FirstCompute, N!ConsumeRestores
<1>5. /\ r \in N!Record /\ r.event = "first_compute" /\ r.identity = i
      /\ r.transfers = f.transfers /\ r.at = f.at
  BY <1>1 DEF SchemaRecord, N!Stream!RecoveryRecord, N!Stream!NoOperation,
              N!Record, N!Event
<1>6. ComputeFits(f) => Accepted(f)
  BY <1>4, <1>5, LastEmitted DEF Accepted, SameRecord
<1>. QED  BY <1>3, <1>4, <1>5, <1>6, LastEmitted DEF Accepted

-----------------------------------------------------------------------------
(* Reading on.                                                             *)

\* The judge goes on exactly when the record may follow.
LEMMA Decision ==
  ASSUME log \in Seq(Facts), Following, NEW f \in Facts,
         NEW n, n = Len(log) + 1
  PROVE  /\ MayFollow(log, n, f) => Passes(f)
         /\ Passes(f) /\ Replay(f) => (Accepted(f) <=> MayFollow(log, n, f))
<1>1. SchemaRecord(f)
  BY FactMeaning
<1>2. EpisodesAgree /\ SeenAgrees
  BY DEF Following
<1>3. Ordered(f) <=> InOrder(f)
  BY <1>2, OrderedMeaning
<1>4. CASE ~InOrder(f) \/ f.event = "transfer_failed"
  BY <1>3, <1>4, NextMeaning DEF Passes
<1>5. CASE InOrder(f) /\ f.event = "recovery_requeued"
  BY <1>3, <1>5, NextMeaning, RequeueReplay DEF Passes, FitsEpisode
<1>6. CASE InOrder(f) /\ f.event = "restore_started"
  <2>1. PICK t \in Transfer : f.transfers = {t}
    BY <1>1, <1>6 DEF SchemaRecord
  <2>2. Passes(f) <=> NotAdmitted(f) /\ StartFits(f)
    BY <1>2, <1>3, <1>6, FitsMeaning DEF Passes
  <2>. QED  BY <1>6, <2>1, <2>2, NextMeaning, StartReplay
<1>7. CASE InOrder(f) /\ f.event = "restore_completed"
  <2>1. PICK t \in Transfer : f.transfers = {t}
    BY <1>1, <1>7 DEF SchemaRecord
  <2>2. Passes(f) <=> NotAdmitted(f)
    BY <1>2, <1>3, <1>7, FitsMeaning DEF Passes
  <2>. QED  BY <1>7, <2>1, <2>2, NextMeaning, CompletionReplay
<1>8. CASE InOrder(f) /\ f.event = "recovery_admitted"
  <2>1. Passes(f) <=> NotAdmitted(f) /\ AdmissionFits(f)
    BY <1>2, <1>3, <1>8, FitsMeaning DEF Passes
  <2>. QED  BY <1>8, <2>1, NextMeaning, AdmissionReplay
<1>9. CASE InOrder(f) /\ f.event = "first_compute"
  <2>1. Passes(f)
    BY <1>2, <1>3, <1>9, FitsMeaning DEF Passes
  <2>. QED  BY <1>9, <2>1, NextMeaning, ComputeReplay
<1>. QED  BY <1>1, <1>4, <1>5, <1>6, <1>7, <1>8, <1>9 DEF SchemaRecord, FactEvent

\* The records after one more has been read.
LEMMA ReadFacts ==
  ASSUME log \in Seq(Facts), NEW f \in Facts, log' = Append(log, f),
         NEW n, n = Len(log) + 1
  PROVE  /\ n \in DOMAIN log' /\ n \notin DOMAIN log /\ log'[n] = f
         /\ \A m : m \in DOMAIN log' <=> m \in DOMAIN log \/ m = n
         /\ \A m \in DOMAIN log : log'[m] = log[m]
         /\ \A m \in DOMAIN log : \A i, e : Own(m, i, e)' <=> Own(m, i, e)
         /\ \A m \in DOMAIN log : \A t, e : Names(m, t, e)' <=> Names(m, t, e)
         /\ \A i, e : Own(n, i, e)' <=> f.identity = i /\ f.event = e
         /\ \A t, e : Names(n, t, e)' <=> f.event = e /\ t \in f.transfers
         /\ \A i, e : Has(i, e)' <=> Has(i, e) \/ (f.identity = i /\ f.event = e)
<1>1. /\ n \in DOMAIN log' /\ n \notin DOMAIN log /\ log'[n] = f
      /\ \A m : m \in DOMAIN log' <=> m \in DOMAIN log \/ m = n
      /\ \A m \in DOMAIN log : log'[m] = log[m]
  BY LogGrows
<1>2. \A m \in DOMAIN log : \A i, e : Own(m, i, e)' <=> Own(m, i, e)
  BY <1>1 DEF Own
<1>3. \A m \in DOMAIN log : \A t, e : Names(m, t, e)' <=> Names(m, t, e)
  BY <1>1 DEF Names
<1>4. \A i, e : Own(n, i, e)' <=> f.identity = i /\ f.event = e
  BY <1>1 DEF Own
<1>5. \A t, e : Names(n, t, e)' <=> f.event = e /\ t \in f.transfers
  BY <1>1 DEF Names
<1>6. \A i, e : Has(i, e)' <=> Has(i, e) \/ (f.identity = i /\ f.event = e)
  BY <1>1, <1>2, <1>4 DEF Has
<1>. QED  BY <1>1, <1>2, <1>3, <1>4, <1>5, <1>6

\* Storing and deleting in a dictionary.
LEMMA TableFacts ==
  ASSUME NEW d, NEW x, NEW v, NEW S
  PROVE  /\ DOMAIN N!Put(d, x, v) = DOMAIN d \cup {x}
         /\ N!Put(d, x, v)[x] = v
         /\ \A y \in DOMAIN d \ {x} : N!Put(d, x, v)[y] = d[y]
         /\ DOMAIN N!Drop(d, S) = DOMAIN d \ S
         /\ \A y \in DOMAIN d \ S : N!Drop(d, S)[y] = d[y]
BY DEF N!Put, N!Drop, N!Restrict

\* The summary after a record: what its event adds.
LEMMA NotedFacts ==
  ASSUME NEW f, SchemaRecord(f), f.event # "transfer_failed",
         f.event # "recovery_requeued" => episodes[f.identity] \in Summary
  PROVE  LET e == IF f.event = "recovery_requeued" THEN Fresh(f.at)
                  ELSE episodes[f.identity]
             u == Noted(f)
         IN  /\ u \in Summary
             /\ u.started = IF f.event = "restore_started"
                              THEN e.started \cup f.transfers ELSE e.started
             /\ u.completed = IF f.event = "restore_completed"
                                THEN e.completed \cup f.transfers ELSE e.completed
             /\ u.admitted <=> e.admitted \/ f.event = "recovery_admitted"
             /\ u.computed <=> e.computed \/ f.event = "first_compute"
             /\ u.last_ns = f.at
<1>1. CASE f.event = "recovery_requeued"
  BY <1>1 DEF Noted, Fresh, Summary, SchemaRecord
<1>2. CASE f.event = "restore_started"
  BY <1>2 DEF Noted, Summary, SchemaRecord
<1>3. CASE f.event = "restore_completed"
  BY <1>3 DEF Noted, Summary, SchemaRecord
<1>4. CASE f.event = "recovery_admitted"
  BY <1>4 DEF Noted, Summary, SchemaRecord
<1>5. CASE f.event = "first_compute"
  BY <1>5 DEF Noted, Summary, SchemaRecord
<1>. QED  BY <1>1, <1>2, <1>3, <1>4, <1>5 DEF SchemaRecord, FactEvent

\* A summary that agreed before the record agrees after it.
LEMMA EpisodesKept ==
  ASSUME log \in Seq(Facts), EpisodesAgree, NEW f \in Facts, InOrder(f),
         f.event # "transfer_failed",
         f.event # "recovery_requeued" => EpisodeAgrees(f.identity),
         log' = Append(log, f), episodes' = N!Put(episodes, f.identity, Noted(f))
  PROVE  EpisodesAgree'
<1>. PICK n : n = Len(log) + 1
  OBVIOUS
<1>. DEFINE i == f.identity
<1>1. SchemaRecord(f)
  BY FactMeaning
<1>2. i \in Identity /\ f.transfers \in SUBSET Transfer /\ f.at \in Nat
  BY <1>1 DEF SchemaRecord
<1>3. /\ DOMAIN episodes' = DOMAIN episodes \cup {i}
      /\ episodes'[i] = Noted(f)
      /\ \A j \in DOMAIN episodes \ {i} : episodes'[j] = episodes[j]
  BY DEF N!Put
<1>4. /\ n \in DOMAIN log' /\ n \notin DOMAIN log /\ log'[n] = f
      /\ \A m : m \in DOMAIN log' <=> m \in DOMAIN log \/ m = n
      /\ \A m \in DOMAIN log : log'[m] = log[m]
      /\ \A m \in DOMAIN log : \A j, e : Own(m, j, e)' <=> Own(m, j, e)
      /\ \A j, e : Own(n, j, e)' <=> f.identity = j /\ f.event = e
      /\ \A j, e : Has(j, e)' <=> Has(j, e) \/ (f.identity = j /\ f.event = e)
  BY ReadFacts
<1>5. ASSUME NEW j \in DOMAIN episodes \ {i}
      PROVE  EpisodeAgrees(j)'
  <2>1. EpisodeAgrees(j) /\ episodes'[j] = episodes[j]
    BY <1>3 DEF EpisodesAgree
  <2>. QED  BY <1>4, <2>1 DEF EpisodeAgrees
<1>6. EpisodeAgrees(i)'
  <2>. DEFINE u == episodes'[i]
              e == IF f.event = "recovery_requeued" THEN Fresh(f.at) ELSE episodes[i]
  <2>1. /\ u \in Summary
        /\ u.started = IF f.event = "restore_started"
                         THEN e.started \cup f.transfers ELSE e.started
        /\ u.completed = IF f.event = "restore_completed"
                           THEN e.completed \cup f.transfers ELSE e.completed
        /\ u.admitted <=> e.admitted \/ f.event = "recovery_admitted"
        /\ u.computed <=> e.computed \/ f.event = "first_compute"
        /\ u.last_ns = f.at
    <3>1. f.event # "recovery_requeued" => episodes[i] \in Summary
      BY DEF EpisodeAgrees
    <3>. QED  BY <1>1, <1>3, <3>1, NotedFacts
  <2>2. /\ \A t \in Transfer :
             /\ t \in e.started <=>
                  \E m \in DOMAIN log : Own(m, i, "restore_started") /\ t \in log[m].transfers
             /\ t \in e.completed <=>
                  \E m \in DOMAIN log : Own(m, i, "restore_completed") /\ t \in log[m].transfers
        /\ e.admitted <=> Has(i, "recovery_admitted")
        /\ e.computed <=> Has(i, "first_compute")
    <3>1. CASE f.event = "recovery_requeued"
      BY <3>1 DEF InOrder, Fresh, Has, Own
    <3>2. CASE f.event # "recovery_requeued"
      BY <3>2 DEF EpisodeAgrees
    <3>. QED  BY <3>1, <3>2
  <2>. HIDE DEF u, e
  <2>3. \A t \in Transfer :
          /\ t \in u.started <=> \E m \in DOMAIN log' :
               Own(m, i, "restore_started")' /\ t \in log'[m].transfers
          /\ t \in u.completed <=> \E m \in DOMAIN log' :
               Own(m, i, "restore_completed")' /\ t \in log'[m].transfers
    BY <1>4, <2>1, <2>2
  <2>4. /\ u.admitted <=> Has(i, "recovery_admitted")'
        /\ u.computed <=> Has(i, "first_compute")'
    BY <1>4, <2>1, <2>2
  <2>5. /\ \A m \in DOMAIN log' : log'[m].identity = i => log'[m].at <= u.last_ns
        /\ \E m \in DOMAIN log' : log'[m].identity = i /\ log'[m].at = u.last_ns
    BY <1>2, <1>4, <2>1 DEF InOrder
  <2>. QED  BY <2>1, <2>3, <2>4, <2>5 DEF EpisodeAgrees, u
<1>7. \A j \in Identity :
        j \in DOMAIN episodes' <=> \E m \in DOMAIN log' : log'[m].identity = j
  BY <1>3, <1>4 DEF EpisodesAgree
<1>8. DOMAIN episodes' \subseteq Identity
  BY <1>2, <1>3 DEF EpisodesAgree
<1>. QED  BY <1>3, <1>5, <1>6, <1>7, <1>8 DEF EpisodesAgree

LEMMA SeenKept ==
  ASSUME log \in Seq(Facts), SeenAgrees, NEW f \in Facts,
         log' = Append(log, f),
         seen_transfers' = IF f.event = "restore_started"
                             THEN seen_transfers \cup f.transfers ELSE seen_transfers,
         seen_receipts' = seen_receipts \cup Receipts(f)
  PROVE  SeenAgrees'
<1>. PICK n : n = Len(log) + 1
  OBVIOUS
<1>1. /\ n \in DOMAIN log' /\ log'[n] = f
      /\ \A m : m \in DOMAIN log' <=> m \in DOMAIN log \/ m = n
      /\ \A m \in DOMAIN log : log'[m] = log[m]
      /\ \A m \in DOMAIN log : \A t, e : Names(m, t, e)' <=> Names(m, t, e)
      /\ \A t, e : Names(n, t, e)' <=> f.event = e /\ t \in f.transfers
  BY ReadFacts
<1>2. \A t \in Transfer :
        t \in seen_transfers' <=> \E m \in DOMAIN log' : Names(m, t, "restore_started")'
  BY <1>1 DEF SeenAgrees
<1>3. \A k \in Receipt : k \in Receipts(f) <=> k = f.receipt
  BY ChainAssumption DEF Receipts
<1>4. \A k \in Receipt : k \in seen_receipts' <=> \E m \in DOMAIN log' : log'[m].receipt = k
  BY <1>1, <1>3 DEF SeenAgrees
<1>. QED  BY <1>2, <1>4 DEF SeenAgrees

-----------------------------------------------------------------------------
(* The tables of the replay, event by event.                               *)

Tables == PendingAgrees /\ RestoresAgree /\ AdmissionsAgree

LEMMA RequeueTables ==
  ASSUME log \in Seq(Facts), Tables, NEW f \in Facts, log' = Append(log, f),
         f.event = "recovery_requeued",
         UNCHANGED <<pending, completed_restores, admissions>>
  PROVE  Tables'
<1>. PICK n : n = Len(log) + 1
  OBVIOUS
<1>1. /\ n \in DOMAIN log' /\ n \notin DOMAIN log /\ log'[n] = f
      /\ \A m : m \in DOMAIN log' <=> m \in DOMAIN log \/ m = n
      /\ \A m \in DOMAIN log : log'[m] = log[m]
      /\ \A m \in DOMAIN log : \A i, e : Own(m, i, e)' <=> Own(m, i, e)
      /\ \A m \in DOMAIN log : \A t, e : Names(m, t, e)' <=> Names(m, t, e)
      /\ \A i, e : Own(n, i, e)' <=> f.identity = i /\ f.event = e
      /\ \A t, e : Names(n, t, e)' <=> f.event = e /\ t \in f.transfers
      /\ \A i, e : Has(i, e)' <=> Has(i, e) \/ (f.identity = i /\ f.event = e)
  BY ReadFacts
<1>2. PendingAgrees'
  BY <1>1 DEF Tables, PendingAgrees
<1>3. RestoresAgree'
  BY <1>1 DEF Tables, RestoresAgree
<1>4. AdmissionsAgree'
  BY <1>1 DEF Tables, AdmissionsAgree
<1>. QED  BY <1>2, <1>3, <1>4 DEF Tables

LEMMA StartTables ==
  ASSUME log \in Seq(Facts), Sound, Tables, NEW f \in Facts, log' = Append(log, f),
         f.event = "restore_started", StartFits(f),
         NEW t \in Transfer, f.transfers = {t},
         pending' = N!Put(pending, t,
                      [identity |-> f.identity, op |-> "h2d_restore", at |-> f.at]),
         UNCHANGED <<completed_restores, admissions>>
  PROVE  Tables'
<1>. PICK n : n = Len(log) + 1
  OBVIOUS
<1>1. /\ n \in DOMAIN log' /\ n \notin DOMAIN log /\ log'[n] = f
      /\ \A m : m \in DOMAIN log' <=> m \in DOMAIN log \/ m = n
      /\ \A m \in DOMAIN log : log'[m] = log[m]
      /\ \A m \in DOMAIN log : \A i, e : Own(m, i, e)' <=> Own(m, i, e)
      /\ \A m \in DOMAIN log : \A u, e : Names(m, u, e)' <=> Names(m, u, e)
      /\ \A u, e : Names(n, u, e)' <=> f.event = e /\ u = t
      /\ \A i, e : Has(i, e)' <=> Has(i, e) \/ (f.identity = i /\ f.event = e)
  BY ReadFacts
<1>2. PendingAgrees'
  <2>. DEFINE s == [identity |-> f.identity, op |-> "h2d_restore", at |-> f.at]
  <2>1. /\ DOMAIN pending' = DOMAIN pending \cup {t}
        /\ pending'[t] = s
        /\ \A u \in DOMAIN pending \ {t} : pending'[u] = pending[u]
    BY DEF N!Put
  <2>2. \A m \in DOMAIN log' : ~Names(m, t, "restore_completed")'
    <3>1. \A m \in DOMAIN log : ~Names(m, t, "restore_completed")
      BY SoundLog DEF StartFits
    <3>. QED  BY <1>1, <3>1
  <2>3. DOMAIN pending' \subseteq Transfer
    BY <2>1 DEF Tables, PendingAgrees
  <2>4. ASSUME NEW u \in DOMAIN pending'
        PROVE  /\ pending'[u].op = "h2d_restore"
               /\ \E m \in DOMAIN log' : /\ Names(m, u, "restore_started")'
                                         /\ log'[m].identity = pending'[u].identity
                                         /\ log'[m].at = pending'[u].at
               /\ \A m \in DOMAIN log' : ~Names(m, u, "restore_completed")'
    <3>1. CASE u = t
      <4>1. /\ pending'[u].op = "h2d_restore" /\ pending'[u].identity = f.identity
            /\ pending'[u].at = f.at
        BY <2>1, <3>1
      <4>. QED  BY <1>1, <2>2, <3>1, <4>1
    <3>2. CASE u # t
      <4>1. u \in DOMAIN pending /\ pending'[u] = pending[u]
        BY <2>1, <3>2
      <4>. QED  BY <1>1, <3>2, <4>1 DEF Tables, PendingAgrees
    <3>. QED  BY <3>1, <3>2
  <2>5. \A u \in Transfer, m \in DOMAIN log' : Names(m, u, "restore_started")' =>
          \/ u \in DOMAIN pending'
          \/ \E p \in DOMAIN log' : Names(p, u, "restore_completed")'
    BY <1>1, <2>1 DEF Tables, PendingAgrees
  <2>. QED  BY <2>3, <2>4, <2>5 DEF PendingAgrees
<1>3. RestoresAgree'
  BY <1>1 DEF Tables, RestoresAgree
<1>4. AdmissionsAgree'
  BY <1>1 DEF Tables, AdmissionsAgree
<1>. QED  BY <1>2, <1>3, <1>4 DEF Tables

LEMMA CompletionTables ==
  ASSUME log \in Seq(Facts), Tables, NEW f \in Facts, log' = Append(log, f),
         f.event = "restore_completed",
         NEW t \in Transfer, f.transfers = {t}, t \in DOMAIN pending,
         pending' = N!Drop(pending, {t}),
         completed_restores' =
           N!Put(completed_restores, t, [identity |-> f.identity, at |-> f.at]),
         UNCHANGED admissions
  PROVE  Tables'
<1>. PICK n : n = Len(log) + 1
  OBVIOUS
<1>1. /\ n \in DOMAIN log' /\ n \notin DOMAIN log /\ log'[n] = f
      /\ \A m : m \in DOMAIN log' <=> m \in DOMAIN log \/ m = n
      /\ \A m \in DOMAIN log : log'[m] = log[m]
      /\ \A m \in DOMAIN log : \A i, e : Own(m, i, e)' <=> Own(m, i, e)
      /\ \A m \in DOMAIN log : \A u, e : Names(m, u, e)' <=> Names(m, u, e)
      /\ \A u, e : Names(n, u, e)' <=> f.event = e /\ u = t
      /\ \A i, e : Has(i, e)' <=> Has(i, e) \/ (f.identity = i /\ f.event = e)
  BY ReadFacts
<1>2. PendingAgrees'
  <2>1. /\ DOMAIN pending' = DOMAIN pending \ {t}
        /\ \A u \in DOMAIN pending \ {t} : pending'[u] = pending[u]
    BY DEF N!Drop, N!Restrict
  <2>2. ASSUME NEW u \in DOMAIN pending'
        PROVE  /\ pending'[u].op = "h2d_restore"
               /\ \E m \in DOMAIN log' : /\ Names(m, u, "restore_started")'
                                         /\ log'[m].identity = pending'[u].identity
                                         /\ log'[m].at = pending'[u].at
               /\ \A m \in DOMAIN log' : ~Names(m, u, "restore_completed")'
    <3>1. u \in DOMAIN pending /\ u # t /\ pending'[u] = pending[u]
      BY <2>1
    <3>2. /\ pending[u].op = "h2d_restore"
          /\ \E m \in DOMAIN log : /\ Names(m, u, "restore_started")
                                   /\ log[m].identity = pending[u].identity
                                   /\ log[m].at = pending[u].at
          /\ \A m \in DOMAIN log : ~Names(m, u, "restore_completed")
      BY <3>1 DEF Tables, PendingAgrees
    <3>3. PICK m \in DOMAIN log : /\ Names(m, u, "restore_started")
                                  /\ log[m].identity = pending[u].identity
                                  /\ log[m].at = pending[u].at
      BY <3>2
    <3>4. /\ m \in DOMAIN log' /\ Names(m, u, "restore_started")'
          /\ log'[m].identity = pending'[u].identity
          /\ log'[m].at = pending'[u].at
      BY <1>1, <3>1, <3>3
    <3>5. \A p \in DOMAIN log' : ~Names(p, u, "restore_completed")'
      BY <1>1, <3>1, <3>2
    <3>. QED  BY <3>1, <3>2, <3>4, <3>5
  <2>3. ASSUME NEW u \in Transfer, NEW m \in DOMAIN log', Names(m, u, "restore_started")'
        PROVE  \/ u \in DOMAIN pending'
               \/ \E p \in DOMAIN log' : Names(p, u, "restore_completed")'
    <3>1. m \in DOMAIN log /\ Names(m, u, "restore_started")
      BY <1>1, <2>3
    <3>. QED  BY <1>1, <2>1, <3>1 DEF Tables, PendingAgrees
  <2>4. DOMAIN pending' \subseteq Transfer
    BY <2>1 DEF Tables, PendingAgrees
  <2>. QED  BY <2>2, <2>3, <2>4 DEF PendingAgrees
<1>3. RestoresAgree'
  <2>1. /\ DOMAIN completed_restores' = DOMAIN completed_restores \cup {t}
        /\ completed_restores'[t] = [identity |-> f.identity, at |-> f.at]
        /\ \A u \in DOMAIN completed_restores \ {t} :
             completed_restores'[u] = completed_restores[u]
    BY DEF N!Put
  <2>2. /\ completed_restores'[t].identity = f.identity
        /\ completed_restores'[t].at = f.at
    BY <2>1
  <2>3. \A m \in DOMAIN log : ~Names(m, t, "restore_completed")
    BY DEF Tables, PendingAgrees
  <2>4. DOMAIN completed_restores' \subseteq Transfer
    BY <2>1 DEF Tables, RestoresAgree
  <2>5. \A u \in DOMAIN completed_restores' :
          \E m \in DOMAIN log' : Names(m, u, "restore_completed")'
    BY <1>1, <2>1 DEF Tables, RestoresAgree
  <2>6. ASSUME NEW u \in Transfer, NEW m \in DOMAIN log', Names(m, u, "restore_completed")'
        PROVE  \/ Has(log[m].identity, "first_compute")'
               \/ /\ u \in DOMAIN completed_restores'
                  /\ completed_restores'[u].identity = log'[m].identity
                  /\ completed_restores'[u].at = log'[m].at
    <3>1. CASE m = n
      BY <1>1, <2>1, <2>2, <2>6, <3>1
    <3>2. CASE m # n
      <4>1. m \in DOMAIN log /\ Names(m, u, "restore_completed") /\ u # t
        BY <1>1, <2>3, <2>6, <3>2
      <4>. QED  BY <1>1, <2>1, <4>1 DEF Tables, RestoresAgree
    <3>. QED  BY <3>1, <3>2
  <2>. QED  BY <2>4, <2>5, <2>6 DEF RestoresAgree
<1>4. AdmissionsAgree'
  BY <1>1 DEF Tables, AdmissionsAgree
<1>. QED  BY <1>2, <1>3, <1>4 DEF Tables

LEMMA AdmissionTables ==
  ASSUME log \in Seq(Facts), Tables, NEW f \in Facts, log' = Append(log, f),
         f.event = "recovery_admitted",
         admissions' = N!Put(admissions, f.identity,
                         [transfers |-> f.transfers, at |-> f.at]),
         UNCHANGED <<pending, completed_restores>>
  PROVE  Tables'
<1>. PICK n : n = Len(log) + 1
  OBVIOUS
<1>1. /\ n \in DOMAIN log' /\ n \notin DOMAIN log /\ log'[n] = f
      /\ \A m : m \in DOMAIN log' <=> m \in DOMAIN log \/ m = n
      /\ \A m \in DOMAIN log : log'[m] = log[m]
      /\ \A m \in DOMAIN log : \A i, e : Own(m, i, e)' <=> Own(m, i, e)
      /\ \A m \in DOMAIN log : \A u, e : Names(m, u, e)' <=> Names(m, u, e)
      /\ \A i, e : Own(n, i, e)' <=> f.identity = i /\ f.event = e
      /\ \A u, e : Names(n, u, e)' <=> f.event = e /\ u \in f.transfers
      /\ \A i, e : Has(i, e)' <=> Has(i, e) \/ (f.identity = i /\ f.event = e)
  BY ReadFacts
<1>2. PendingAgrees'
  BY <1>1 DEF Tables, PendingAgrees
<1>3. RestoresAgree'
  BY <1>1 DEF Tables, RestoresAgree
<1>4. AdmissionsAgree'
  <2>1. /\ DOMAIN admissions' = DOMAIN admissions \cup {f.identity}
        /\ admissions'[f.identity] = [transfers |-> f.transfers, at |-> f.at]
        /\ \A i \in DOMAIN admissions \ {f.identity} : admissions'[i] = admissions[i]
    BY DEF N!Put
  <2>2. /\ admissions'[f.identity].transfers = f.transfers
        /\ admissions'[f.identity].at = f.at
    BY <2>1
  <2>3. DOMAIN admissions' \subseteq Identity
    BY <2>1, FactMeaning DEF Tables, AdmissionsAgree, SchemaRecord
  <2>4. \A i \in DOMAIN admissions' :
          \E m \in DOMAIN log' : /\ Own(m, i, "recovery_admitted")'
                                 /\ log'[m].transfers = admissions'[i].transfers
                                 /\ log'[m].at = admissions'[i].at
    BY <1>1, <2>1, <2>2 DEF Tables, AdmissionsAgree
  <2>5. \A m \in DOMAIN log' : log'[m].event = "recovery_admitted" =>
          \/ Has(log[m].identity, "first_compute")'
          \/ log'[m].identity \in DOMAIN admissions'
    BY <1>1, <2>1 DEF Tables, AdmissionsAgree
  <2>. QED  BY <2>3, <2>4, <2>5 DEF AdmissionsAgree
<1>. QED  BY <1>2, <1>3, <1>4 DEF Tables

\* The first compute forgets the restores of its roster: all of them are its own.
LEMMA ComputeTables ==
  ASSUME log \in Seq(Facts), Sound, Tables, NEW f \in Facts, log' = Append(log, f),
         f.event = "first_compute", ComputeFits(f),
         admissions' = N!Drop(admissions, {f.identity}),
         completed_restores' = N!Drop(completed_restores, f.transfers),
         UNCHANGED pending
  PROVE  Tables'
<1>. PICK n : n = Len(log) + 1
  OBVIOUS
<1>1. /\ n \in DOMAIN log' /\ n \notin DOMAIN log /\ log'[n] = f
      /\ \A m : m \in DOMAIN log' <=> m \in DOMAIN log \/ m = n
      /\ \A m \in DOMAIN log : log'[m] = log[m]
      /\ \A m \in DOMAIN log : \A i, e : Own(m, i, e)' <=> Own(m, i, e)
      /\ \A m \in DOMAIN log : \A u, e : Names(m, u, e)' <=> Names(m, u, e)
      /\ \A i, e : Own(n, i, e)' <=> f.identity = i /\ f.event = e
      /\ \A u, e : Names(n, u, e)' <=> f.event = e /\ u \in f.transfers
      /\ \A i, e : Has(i, e)' <=> Has(i, e) \/ (f.identity = i /\ f.event = e)
  BY ReadFacts
<1>2. PendingAgrees'
  BY <1>1 DEF Tables, PendingAgrees
<1>3. RestoresAgree'
  <2>1. /\ DOMAIN completed_restores' = DOMAIN completed_restores \ f.transfers
        /\ \A u \in DOMAIN completed_restores \ f.transfers :
             completed_restores'[u] = completed_restores[u]
    BY DEF N!Drop, N!Restrict
  <2>2. ASSUME NEW u \in f.transfers, u \in Transfer,
               NEW m \in DOMAIN log, Names(m, u, "restore_completed")
        PROVE  log[m].identity = f.identity
    <3>1. PICK a \in DOMAIN log :
            Own(a, f.identity, "recovery_admitted") /\ log[a].transfers = f.transfers
      BY DEF ComputeFits
    <3>2. PICK p \in DOMAIN log :
            Names(p, u, "restore_started") /\ log[p].identity = f.identity
      BY <2>2, <3>1, SoundLog DEF Own
    <3>3. PICK q \in DOMAIN log :
            Names(q, u, "restore_started") /\ log[q].identity = log[m].identity
      BY <2>2, SoundLog
    <3>4. p = q
      BY <2>2, <3>2, <3>3, SoundLog
    <3>. QED  BY <3>2, <3>3, <3>4
  <2>3. DOMAIN completed_restores' \subseteq Transfer
    BY <2>1 DEF Tables, RestoresAgree
  <2>4. \A u \in DOMAIN completed_restores' :
          \E m \in DOMAIN log' : Names(m, u, "restore_completed")'
    BY <1>1, <2>1 DEF Tables, RestoresAgree
  <2>5. ASSUME NEW u \in Transfer, NEW m \in DOMAIN log', Names(m, u, "restore_completed")'
        PROVE  \/ Has(log[m].identity, "first_compute")'
               \/ /\ u \in DOMAIN completed_restores'
                  /\ completed_restores'[u].identity = log'[m].identity
                  /\ completed_restores'[u].at = log'[m].at
    <3>1. m \in DOMAIN log /\ Names(m, u, "restore_completed") /\ log'[m] = log[m]
      BY <1>1, <2>5
    <3>2. CASE u \in f.transfers
      BY <1>1, <2>2, <3>1, <3>2
    <3>3. CASE u \notin f.transfers
      BY <1>1, <2>1, <3>1, <3>3 DEF Tables, RestoresAgree
    <3>. QED  BY <3>2, <3>3
  <2>. QED  BY <2>3, <2>4, <2>5 DEF RestoresAgree
<1>4. AdmissionsAgree'
  <2>1. /\ DOMAIN admissions' = DOMAIN admissions \ {f.identity}
        /\ \A i \in DOMAIN admissions \ {f.identity} : admissions'[i] = admissions[i]
    BY DEF N!Drop, N!Restrict
  <2>2. DOMAIN admissions' \subseteq Identity
    BY <2>1 DEF Tables, AdmissionsAgree
  <2>3. ASSUME NEW i \in DOMAIN admissions'
        PROVE  \E m \in DOMAIN log' : /\ Own(m, i, "recovery_admitted")'
                                      /\ log'[m].transfers = admissions'[i].transfers
                                      /\ log'[m].at = admissions'[i].at
    <3>1. i \in DOMAIN admissions /\ admissions'[i] = admissions[i]
      BY <2>1
    <3>2. PICK m \in DOMAIN log : /\ Own(m, i, "recovery_admitted")
                                  /\ log[m].transfers = admissions[i].transfers
                                  /\ log[m].at = admissions[i].at
      BY <3>1 DEF Tables, AdmissionsAgree
    <3>. QED  BY <1>1, <3>1, <3>2
  <2>4. ASSUME NEW m \in DOMAIN log', log'[m].event = "recovery_admitted"
        PROVE  \/ Has(log[m].identity, "first_compute")'
               \/ log'[m].identity \in DOMAIN admissions'
    <3>1. m \in DOMAIN log /\ log'[m] = log[m]
      BY <1>1, <2>4
    <3>. QED  BY <1>1, <2>1, <2>4, <3>1 DEF Tables, AdmissionsAgree
  <2>. QED  BY <2>2, <2>3, <2>4 DEF AdmissionsAgree
<1>. QED  BY <1>2, <1>3, <1>4 DEF Tables

-----------------------------------------------------------------------------
(* The steps of the judge.                                                 *)

\* A record that may follow leaves the judge as well informed as before.
LEMMA FollowingKept ==
  ASSUME log \in Seq(Facts), Following, NEW f \in Facts,
         NEW n, n = Len(log) + 1, MayFollow(log, n, f), ReadAndReplay(f)
  PROVE  Following'
<1>1. SchemaRecord(f)
  BY FactMeaning
<1>2. /\ Passes(f) /\ Replay(f) /\ log' = Append(log, f)
      /\ episodes' = N!Put(episodes, f.identity, Noted(f))
      /\ seen_transfers' = IF f.event = "restore_started"
                             THEN seen_transfers \cup f.transfers ELSE seen_transfers
      /\ seen_receipts' = seen_receipts \cup Receipts(f)
  BY DEF ReadAndReplay
<1>3. InOrder(f) /\ f.event # "transfer_failed"
  BY <1>2, NextMeaning DEF Passes
<1>4. EpisodesAgree /\ SeenAgrees /\ Sound /\ Tables
  BY DEF Following, Tables
<1>5. Sound'
  <2>1. \A k \in 1 .. Len(log) : WellPlaced(k)'
    BY <1>2, <1>4, SoundGrows
  <2>2. WellPlaced(n)'
    BY <1>2, <1>4, SoundGrows
  <2>3. Len(log') = n /\ Len(log) \in Nat
    BY <1>2, LogGrows
  <2>4. \A k \in 1 .. Len(log') : WellPlaced(k)'
    BY <2>1, <2>2, <2>3
  <2>. QED  BY <2>4 DEF Sound
<1>6. EpisodesAgree'
  <2>1. f.event # "recovery_requeued" => EpisodeAgrees(f.identity)
    BY <1>3, <1>4, OrderedMeaning
  <2>. QED  BY <1>2, <1>3, <1>4, <2>1, EpisodesKept
<1>7. SeenAgrees'
  BY <1>2, <1>4, SeenKept
<1>8. Tables' /\ evidence_valid' /\ ~closed' /\ emitted' \in Seq(N!Record)
  <2>1. CASE f.event = "recovery_requeued"
    BY <1>2, <1>4, <2>1, RequeueReplay, RequeueTables
  <2>2. CASE f.event = "restore_started"
    <3>1. PICK t \in Transfer : f.transfers = {t}
      BY <1>1, <2>2 DEF SchemaRecord
    <3>2. StartFits(f)
      BY <2>2, NextMeaning
    <3>. QED  BY <1>2, <1>4, <2>2, <3>1, <3>2, StartReplay, StartTables
  <2>3. CASE f.event = "restore_completed"
    <3>1. PICK t \in Transfer : f.transfers = {t}
      BY <1>1, <2>3 DEF SchemaRecord
    <3>2. CompletionFits(f)
      BY <2>3, NextMeaning
    <3>3. t \in DOMAIN pending
      BY <2>3, <3>1, <3>2, CompletionMeaning
    <3>. QED  BY <1>2, <1>4, <2>3, <3>1, <3>2, <3>3, CompletionReplay, CompletionTables
  <2>4. CASE f.event = "recovery_admitted"
    <3>1. NotAdmitted(f) /\ AdmissionFits(f)
      BY <2>4, NextMeaning
    <3>. QED  BY <1>2, <1>3, <1>4, <2>4, <3>1, AdmissionReplay, AdmissionTables
  <2>5. CASE f.event = "first_compute"
    <3>1. ComputeFits(f)
      BY <2>5, NextMeaning
    <3>. QED  BY <1>2, <1>3, <1>4, <2>5, <3>1, ComputeReplay, ComputeTables
  <2>. QED  BY <1>1, <1>3, <2>1, <2>2, <2>3, <2>4, <2>5 DEF SchemaRecord, FactEvent
<1>. QED  BY <1>5, <1>6, <1>7, <1>8 DEF Following, Tables

\* A record that may not follow is the one the judge refuses.
LEMMA Refused ==
  ASSUME log \in Seq(Facts), Sound, NEW f \in Facts, NEW n, n = Len(log) + 1,
         ~MayFollow(log, n, f), log' = Append(log, f), verdict' = "rejected"
  PROVE  Judgement'
<1>1. /\ Len(log) \in Nat /\ Len(log') = n
      /\ DOMAIN log = 1 .. Len(log)
      /\ \A m \in DOMAIN log : log'[m] = log[m]
      /\ log'[n] = f
  BY LogGrows
<1>2. log' # <<>>
  BY <1>1
<1>3. ASSUME NEW k \in 1 .. (Len(log') - 1)
      PROVE  InPlace(k)'
  <2>1. k \in 1 .. Len(log) /\ k \in DOMAIN log
    BY <1>1
  <2>2. MayFollow(log, k, log[k])
    BY <2>1, PlacedMeaning DEF Sound
  <2>3. \A m \in 1 .. (k - 1) : log'[m] = log[m]
    BY <1>1, <2>1
  <2>4. MayFollow(log', k, log[k])
    BY <2>2, <2>3, FollowKept
  <2>. QED  BY <1>1, <2>1, <2>4 DEF InPlace
<1>4. ~MayFollow(log', n, f)
  <2>1. \A m \in 1 .. (n - 1) : log'[m] = log[m]
    BY <1>1
  <2>. QED  BY <2>1, FollowKept
<1>5. ~MayFollow(log', Len(log'), log'[Len(log')])
  BY <1>1, <1>4
<1>. QED  BY <1>2, <1>3, <1>5 DEF Judgement, InPlace

LEMMA ReplayInv ==
  ASSUME IInv, NEW f \in Facts, ReadAndReplay(f)
  PROVE  IInv'
<1>. PICK n : n = Len(log) + 1
  OBVIOUS
<1>1. /\ log \in Seq(Facts) /\ Following /\ Sound
      /\ Passes(f) /\ Replay(f) /\ log' = Append(log, f)
  BY DEF IInv, ReadAndReplay, Following
<1>2. log' \in Seq(Facts)
  BY <1>1, LogGrows
<1>3. verdict' = IF Accepted(f) THEN "reading" ELSE "rejected"
  BY DEF ReadAndReplay, Accepted
<1>4. Accepted(f) <=> MayFollow(log, n, f)
  BY <1>1, Decision
<1>5. CASE Accepted(f)
  <2>1. Following'
    BY <1>1, <1>4, <1>5, FollowingKept
  <2>. QED  BY <1>2, <1>3, <1>5, <2>1 DEF IInv
<1>6. CASE ~Accepted(f)
  <2>1. Judgement'
    BY <1>1, <1>3, <1>4, <1>6, Refused
  <2>. QED  BY <1>2, <1>3, <1>6, <2>1 DEF IInv
<1>. QED  BY <1>5, <1>6

LEMMA RaiseInv ==
  ASSUME IInv, NEW f \in Facts, ReadAndRaise(f)
  PROVE  IInv'
<1>. PICK n : n = Len(log) + 1
  OBVIOUS
<1>1. /\ log \in Seq(Facts) /\ Following /\ Sound
      /\ ~Passes(f) /\ log' = Append(log, f) /\ verdict' = "rejected"
  BY DEF IInv, ReadAndRaise, Following
<1>2. log' \in Seq(Facts)
  BY <1>1, LogGrows
<1>3. ~MayFollow(log, n, f)
  BY <1>1, Decision
<1>4. Judgement'
  BY <1>1, <1>3, Refused
<1>. QED  BY <1>1, <1>2, <1>4 DEF IInv

\* Every open episode is a request that has not computed.
LEMMA CompleteMeaning ==
  ASSUME log \in Seq(Facts), EpisodesAgree
  PROVE  Complete <=> /\ log # <<>>
                      /\ \A k \in DOMAIN log : Has(log[k].identity, "first_compute")
<1>1. /\ \A m \in DOMAIN log : log[m].identity \in Identity
      /\ log # <<>> <=> \E m \in DOMAIN log : TRUE
  BY LogTyped DEF SchemaRecord
<1>2. \A i \in DOMAIN episodes : /\ \E m \in DOMAIN log : log[m].identity = i
                                 /\ episodes[i].computed <=> Has(i, "first_compute")
  BY DEF EpisodesAgree, EpisodeAgrees
<1>3. \A m \in DOMAIN log : log[m].identity \in DOMAIN episodes
  BY <1>1 DEF EpisodesAgree
<1>4. DOMAIN episodes # {} <=> log # <<>>
  BY <1>1, <1>2, <1>3
<1>5. (\A i \in DOMAIN episodes : episodes[i].computed)
        <=> \A k \in DOMAIN log : Has(log[k].identity, "first_compute")
  BY <1>2, <1>3
<1>. QED  BY <1>4, <1>5 DEF Complete

LEMMA ConcludeInv ==
  ASSUME IInv, Conclude
  PROVE  IInv'
<1>1. /\ log \in Seq(Facts) /\ Sound /\ EpisodesAgree /\ log' = log
      /\ verdict' = IF Complete THEN "accepted" ELSE "incomplete"
  BY DEF IInv, Conclude, Following
<1>2. \A k \in DOMAIN log : MayFollow(log, k, log[k])
  BY <1>1, PlacedMeaning, LogTyped DEF Sound
<1>3. \A k \in DOMAIN log' : InPlace(k)'
  BY <1>1, <1>2 DEF InPlace
<1>4. \A i, e : Has(i, e)' <=> Has(i, e)
  BY <1>1 DEF Has, Own
<1>5. /\ verdict' = "accepted" =>
           log' # <<>> /\ \A k \in DOMAIN log' : Has(log[k].identity, "first_compute")'
      /\ verdict' = "incomplete" =>
           log' = <<>> \/ \E k \in DOMAIN log' : ~Has(log[k].identity, "first_compute")'
  BY <1>1, <1>4, CompleteMeaning
<1>6. Judgement'
  BY <1>1, <1>3, <1>5 DEF Judgement
<1>. QED  BY <1>1, <1>6 DEF IInv

\* The verdict stands.
LEMMA JudgementKept ==
  ASSUME Judgement, UNCHANGED <<log, verdict>>
  PROVE  Judgement'
<1>1. \A k : InPlace(k)' <=> InPlace(k)
  BY DEF InPlace
<1>2. \A i, e : Has(i, e)' <=> Has(i, e)
  BY DEF Has, Own
<1>3. ~InPlace(Len(log)) => ~InPlace(Len(log))'
  BY DEF InPlace
<1>4. (\A k \in DOMAIN log : Has(log[k].identity, "first_compute"))
        => \A k \in DOMAIN log' : Has(log[k].identity, "first_compute")'
  BY <1>2
<1>5. (\E k \in DOMAIN log : ~Has(log[k].identity, "first_compute"))
        => \E k \in DOMAIN log' : ~Has(log[k].identity, "first_compute")'
  BY <1>2
<1>. QED  BY <1>1, <1>3, <1>4, <1>5 DEF Judgement

LEMMA LeaveInv ==
  ASSUME IInv, Leave
  PROVE  IInv'
<1>1. /\ verdict # "reading" /\ Judgement
      /\ UNCHANGED <<log, verdict>>
  BY DEF IInv, Leave
<1>2. Judgement'
  BY <1>1, JudgementKept
<1>. QED  BY <1>1, <1>2 DEF IInv

LEMMA StutterInv ==
  ASSUME IInv, UNCHANGED vars
  PROVE  IInv'
<1>1. /\ log' = log /\ verdict' = verdict
      /\ episodes' = episodes /\ seen_transfers' = seen_transfers
      /\ seen_receipts' = seen_receipts
      /\ pending' = pending /\ completed_restores' = completed_restores
      /\ admissions' = admissions /\ evidence_valid' = evidence_valid
      /\ closed' = closed /\ emitted' = emitted
  BY DEF vars, judge, norm
<1>2. ASSUME Following
      PROVE  Following'
  <2>1. /\ log \in Seq(Facts)
        /\ Sound /\ EpisodesAgree /\ SeenAgrees
        /\ PendingAgrees /\ RestoresAgree /\ AdmissionsAgree
    BY <1>2 DEF IInv, Following
  <2>2. Sound'
    <3>1. \A k \in 1 .. Len(log) : WellPlaced(k) <=> MayFollow(log, k, log[k])
      BY <2>1, PlacesMeanAlways DEF PlacesMean
    <3>2. \A k \in 1 .. Len(log') : WellPlaced(k)' <=> MayFollow(log', k, log'[k])
      BY <1>1, <2>1, PlacesMeanAlways DEF PlacesMean
    <3>3. \A k \in 1 .. Len(log') : WellPlaced(k)'
      BY <1>1, <2>1, <3>1, <3>2 DEF Sound
    <3>. QED  BY <3>3 DEF Sound
  <2>3. EpisodesAgree'
    BY <1>1, <2>1 DEF EpisodesAgree, EpisodeAgrees, Has, Own
  <2>4. SeenAgrees'
    BY <1>1, <2>1 DEF SeenAgrees, Names
  <2>5. PendingAgrees'
    BY <1>1, <2>1 DEF PendingAgrees, Names
  <2>6. RestoresAgree'
    BY <1>1, <2>1 DEF RestoresAgree, Names, Has, Own
  <2>7. AdmissionsAgree'
    BY <1>1, <2>1 DEF AdmissionsAgree, Has, Own
  <2>. QED  BY <1>1, <1>2, <2>2, <2>3, <2>4, <2>5, <2>6, <2>7 DEF Following
<1>3. Judgement => Judgement'
  BY <1>1, JudgementKept
<1>. QED  BY <1>1, <1>2, <1>3 DEF IInv

LEMMA InitInv ==
  ASSUME Init
  PROVE  IInv
<1>1. /\ log = <<>> /\ verdict = "reading" /\ DOMAIN episodes = {}
      /\ seen_transfers = {} /\ seen_receipts = {}
      /\ DOMAIN pending = {} /\ DOMAIN completed_restores = {} /\ DOMAIN admissions = {}
      /\ evidence_valid /\ ~closed /\ emitted = <<>>
  BY DEF Init, N!Init, N!Nothing
<1>2. log \in Seq(Facts) /\ Len(log) = 0 /\ DOMAIN log = {} /\ emitted \in Seq(N!Record)
  BY <1>1
<1>3. Sound
  BY <1>2 DEF Sound
<1>4. EpisodesAgree /\ SeenAgrees
  BY <1>1, <1>2 DEF EpisodesAgree, SeenAgrees
<1>5. PendingAgrees /\ RestoresAgree /\ AdmissionsAgree
  BY <1>1, <1>2 DEF PendingAgrees, RestoresAgree, AdmissionsAgree
<1>. QED  BY <1>1, <1>2, <1>3, <1>4, <1>5 DEF IInv, Following

LEMMA NextInv ==
  ASSUME IInv, [Next]_vars
  PROVE  IInv'
<1>1. CASE \E f \in Facts : ReadAndReplay(f)
  BY <1>1, ReplayInv
<1>2. CASE \E f \in Facts : ReadAndRaise(f)
  BY <1>2, RaiseInv
<1>3. CASE Conclude
  BY <1>3, ConcludeInv
<1>4. CASE Leave
  BY <1>4, LeaveInv
<1>5. CASE UNCHANGED vars
  BY <1>5, StutterInv
<1>. QED  BY <1>1, <1>2, <1>3, <1>4, <1>5 DEF Next

LEMMA ExactlyJudged ==
  ASSUME IInv
  PROVE  JudgesExactly
<1>1. /\ log \in Seq(Facts) /\ Len(log) \in Nat /\ DOMAIN log = 1 .. Len(log)
      /\ verdict \in {"reading", "accepted", "rejected", "incomplete"}
  BY LogTyped DEF IInv
<1>2. \A k \in 1 .. Len(log) : WellPlaced(k) <=> InPlace(k)
  BY <1>1, PlacedMeaning DEF InPlace
<1>3. ASSUME NEW i
      PROVE  Before(Len(log) + 1, i, "first_compute") = {} <=> ~Has(i, "first_compute")
  <2>1. 1 .. ((Len(log) + 1) - 1) = DOMAIN log
    BY <1>1
  <2>. QED  BY <2>1 DEF Before, Has, Own
<1>. DEFINE Unfinished == {k \in DOMAIN log :
              Before(Len(log) + 1, log[k].identity, "first_compute") = {}}
            AllBut(m) == \A k \in 1 .. (Len(log) - m) : WellPlaced(k)
<1>4. Unfinished = {} <=> \A k \in DOMAIN log : Has(log[k].identity, "first_compute")
  BY <1>3
<1>5. verdict # "rejected" => AllBut(0)
  <2>1. ASSUME verdict # "rejected"
        PROVE  \A k \in 1 .. Len(log) : WellPlaced(k)
    BY <1>1, <1>2, <2>1 DEF IInv, Following, Sound, Judgement
  <2>. QED  BY <1>1, <2>1
<1>6. verdict = "rejected" => AllBut(1) /\ ~WellPlaced(Len(log))
  <2>1. ASSUME verdict = "rejected"
        PROVE  /\ Len(log) \in 1 .. Len(log) /\ ~InPlace(Len(log))
               /\ \A k \in 1 .. (Len(log) - 1) : InPlace(k)
    BY <1>1, <2>1 DEF IInv, Judgement
  <2>. QED  BY <1>1, <1>2, <2>1
<1>7. /\ verdict = "accepted" => Unfinished = {} /\ log # <<>>
      /\ verdict = "incomplete" => (Unfinished # {} \/ log = <<>>)
  <2>. HIDE DEF Unfinished
  <2>. QED  BY <1>4 DEF IInv, Judgement
<1>8. CASE verdict = "reading"
  BY <1>5, <1>8 DEF JudgesExactly
<1>9. CASE verdict = "rejected"
  BY <1>6, <1>9 DEF JudgesExactly
<1>10. CASE verdict = "accepted"
  BY <1>5, <1>7, <1>10 DEF JudgesExactly
<1>11. CASE verdict = "incomplete"
  BY <1>5, <1>7, <1>11 DEF JudgesExactly
<1>. QED  BY <1>1, <1>8, <1>9, <1>10, <1>11

\* While it reads, every summary and every table agrees with the records read;
\* afterwards the verdict says how the records stand.
THEOREM Invariance == Spec => []IInv
<1>1. Init => IInv
  BY InitInv
<1>2. IInv /\ [Next]_vars => IInv'
  BY NextInv
<1>. QED  BY <1>1, <1>2, PTL DEF Spec

\* validate_restore_chain refuses exactly the records out of place, whatever the
\* artifact, and says exactly of the finished ones that they are.
THEOREM ExactJudge == Spec => []JudgesExactly
<1>1. IInv => JudgesExactly
  BY ExactlyJudged
<1>. QED  BY <1>1, Invariance, PTL
=============================================================================
