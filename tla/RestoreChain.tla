---------------------------- MODULE RestoreChain ----------------------------
(***************************************************************************)
(* validation.py: validate_restore_chain, the offline judge of one         *)
(* request's recovery.  It reads the records of an artifact in file order, *)
(* keeps a summary of each episode and replays every record into a private *)
(* LifecycleNormalizer, whose answer must be the record itself.            *)
(*                                                                         *)
(* The artifact is an input: any records the closed schema admits, in any  *)
(* order.  Records of other requests, host facts and preserve events are   *)
(* skipped without a state change and are not enumerated; a failed         *)
(* transfer stands for every restore event that is not a success.  Block   *)
(* counts, compared as durations are, are left out.  The limits of the     *)
(* normalizer are assumed large enough for the artifact's transfers.       *)
(***************************************************************************)
EXTENDS Integers, Sequences, FiniteSets

CONSTANTS Transfer, Identity, Epoched, Process, ProcessOf, Time, NoReceipt,
          Receipt, ReceiptProcess,   \* receipts and the process they belong to
          MaxLog                     \* bound of the model: records in the artifact

ASSUME ChainAssumption ==
  /\ IsFiniteSet(Transfer) /\ IsFiniteSet(Identity)
  /\ Epoched \subseteq Identity
  /\ ProcessOf \in [Transfer -> Process]
  /\ Time \subseteq Nat
  /\ ReceiptProcess \in [Receipt -> Process]
  /\ NoReceipt \notin Receipt \cup Process
  /\ MaxLog \in Nat

VARIABLES
  log,             \* history: the records read so far
  verdict,         \* "reading", then "accepted" (returns), "rejected" (raises at
                   \* a record) or "incomplete" (raises at the end)
  episodes, seen_transfers, seen_receipts,
  pending, completed_restores, admissions, evidence_valid, closed, counted, emitted

judge == <<episodes, seen_transfers, seen_receipts>>
norm == <<pending, completed_restores, admissions, evidence_valid, closed,
          counted, emitted>>
vars == <<log, verdict, judge, norm>>

N == INSTANCE LifecycleNormalizer
  WITH Operation <- {"h2d_restore"}, RetainRestoreReceipts <- TRUE,
       MaxCorrelatedTransfers <- Cardinality(Transfer) + 1,
       MaxRecoveryAdmissions <- Cardinality(Identity) + 1,
       MaxRecords <- MaxLog

-----------------------------------------------------------------------------
(* The records the closed schema admits.                                   *)

FactsOf(e, identities, rosters, receipts, durations) ==
  [event : {e}, identity : identities, transfers : rosters, receipt : receipts,
   duration : durations, at : Time]

Single == {{t} : t \in Transfer}
Roster == (SUBSET Transfer) \ {{}}

ReceiptInScope(f) == \A t \in f.transfers : ProcessOf[t] = ReceiptProcess[f.receipt]

Facts ==
  FactsOf("recovery_requeued", Epoched, {{}}, {NoReceipt}, {0})
    \cup FactsOf("restore_started", Identity, Single, {NoReceipt}, {0})
    \cup FactsOf("transfer_failed", Identity, Single, {NoReceipt}, {0})
    \cup {f \in FactsOf("restore_completed", Identity, Single, Receipt, Time) :
            ReceiptInScope(f)}
    \cup FactsOf("recovery_admitted", Epoched, Roster, {NoReceipt}, {0})
    \cup {f \in FactsOf("first_compute", Epoched, Roster, Receipt, {0}) :
            ReceiptInScope(f)}

Only(S) == CHOOSE t \in S : TRUE

-----------------------------------------------------------------------------
Init ==
  /\ log = <<>>
  /\ verdict = "reading"
  /\ episodes = N!Nothing
  /\ seen_transfers = {}
  /\ seen_receipts = {}
  /\ N!Init

Fresh(at) == [started |-> {}, completed |-> {}, admitted |-> FALSE,
              computed |-> FALSE, last_ns |-> at]

\* The checks that precede the dispatch on the event; a requeue has just
\* opened its own episode.
Ordered(f) ==
  /\ IF f.event = "recovery_requeued"
       THEN f.identity \notin DOMAIN episodes
       ELSE /\ f.identity \in DOMAIN episodes
            /\ ~episodes[f.identity].computed
            /\ f.at >= episodes[f.identity].last_ns
  /\ f.receipt # NoReceipt => f.receipt \notin seen_receipts

\* The checks of each branch, before the record is replayed.
FitsEpisode(f) ==
  LET e == episodes[f.identity] IN
  CASE f.event = "restore_started" ->
         ~e.admitted /\ f.transfers \cap seen_transfers = {}
    [] f.event = "restore_completed" -> ~e.admitted
    [] f.event = "recovery_admitted" ->
         /\ ~e.admitted
         /\ f.transfers = e.started
         /\ f.transfers = e.completed
    [] OTHER -> TRUE

Passes(f) == f.event # "transfer_failed" /\ Ordered(f) /\ FitsEpisode(f)

Receipts(f) == {f.receipt} \ {NoReceipt}

\* The episode after its record passed the checks.
Noted(f) ==
  IF f.event = "recovery_requeued" THEN Fresh(f.at)
  ELSE LET e == [episodes[f.identity] EXCEPT !.last_ns = f.at] IN
       CASE f.event = "restore_started" -> [e EXCEPT !.started = @ \cup f.transfers]
         [] f.event = "restore_completed" -> [e EXCEPT !.completed = @ \cup f.transfers]
         [] f.event = "recovery_admitted" -> [e EXCEPT !.admitted = TRUE]
         [] f.event = "first_compute" -> [e EXCEPT !.computed = TRUE]

\* normalizer.normalize(source): the call the record is projected to.
Replay(f) ==
  \/ /\ f.event = "recovery_requeued"
     /\ N!RecoveryRequeued(f.identity)
  \/ /\ f.event = "restore_started"
     /\ N!TransferSubmitted(f.identity, Only(f.transfers), "h2d_restore", f.at)
  \/ /\ f.event = "restore_completed"
     /\ N!TransferSucceeded(Only(f.transfers), f.at, TRUE, ReceiptProcess[f.receipt])
  \/ /\ f.event = "recovery_admitted"
     /\ N!RecoveryAdmitted(f.identity, f.transfers, f.at)
  \/ /\ f.event = "first_compute"
     /\ N!FirstCompute(f.identity, f.transfers, ReceiptProcess[f.receipt], f.at)

\* Mutant of SameRecord: any answer of the normalizer will do.
AnyRecord(f) == TRUE

\* The record the normalizer just returned is the one that was read.
SameRecord(f) ==
  f.event # "recovery_requeued" =>
    LET r == emitted'[Len(emitted')] IN
    /\ r.event = f.event
    /\ r.identity = f.identity
    /\ r.transfers = f.transfers
    /\ r.at = f.at
    /\ f.event = "restore_completed" =>
         f.duration = f.at - pending[Only(f.transfers)].at

ReadAndReplay(f) ==
  /\ verdict = "reading" /\ Len(log) < MaxLog
  /\ Passes(f)
  /\ Replay(f)
  /\ log' = Append(log, f)
  /\ episodes' = N!Put(episodes, f.identity, Noted(f))
  /\ seen_transfers' = IF f.event = "restore_started"
                         THEN seen_transfers \cup f.transfers ELSE seen_transfers
  /\ seen_receipts' = seen_receipts \cup Receipts(f)
  /\ verdict' = IF counted' = "accepted" /\ SameRecord(f) THEN "reading" ELSE "rejected"

ReadAndRaise(f) ==
  /\ verdict = "reading" /\ Len(log) < MaxLog
  /\ ~Passes(f)
  /\ log' = Append(log, f)
  /\ verdict' = "rejected"
  /\ UNCHANGED <<judge, norm>>

Complete == DOMAIN episodes # {} /\ \A i \in DOMAIN episodes : episodes[i].computed

\* The end of the artifact.
Conclude ==
  /\ verdict = "reading"
  /\ verdict' = IF Complete THEN "accepted" ELSE "incomplete"
  /\ UNCHANGED <<log, judge, norm>>

\* finally: normalizer.close()
Leave ==
  /\ verdict # "reading"
  /\ N!Close
  /\ UNCHANGED <<log, verdict, judge>>

Next ==
  \/ \E f \in Facts : ReadAndReplay(f) \/ ReadAndRaise(f)
  \/ Conclude
  \/ Leave

Spec == Init /\ [][Next]_vars

-----------------------------------------------------------------------------
(* What the records of one request must look like, stated over the log     *)
(* alone.                                                                  *)

Before(k, i, e) == {m \in 1 .. (k - 1) : log[m].identity = i /\ log[m].event = e}
Moved(k, i, e) == UNION {log[m].transfers : m \in Before(k, i, e)}

\* The k-th record may stand where it stands.
WellPlaced(k) ==
  LET f == log[k]
      i == f.identity
      earlier == {m \in 1 .. (k - 1) : log[m].identity = i}
  IN
  /\ (f.event = "recovery_requeued") <=> (earlier = {})
  /\ Before(k, i, "first_compute") = {}
  /\ \A m \in earlier : log[m].at <= f.at
  /\ \A m \in 1 .. (k - 1) : f.receipt # NoReceipt => log[m].receipt # f.receipt
  /\ CASE f.event = "recovery_requeued" -> TRUE
       [] f.event = "restore_started" ->
            /\ Before(k, i, "recovery_admitted") = {}
            /\ \A j \in Identity : f.transfers \cap Moved(k, j, "restore_started") = {}
       [] f.event = "restore_completed" ->
            /\ Before(k, i, "recovery_admitted") = {}
            /\ f.transfers \cap Moved(k, i, "restore_completed") = {}
            /\ \E m \in Before(k, i, "restore_started") :
                 /\ log[m].transfers = f.transfers
                 /\ log[m].at < f.at
                 /\ f.duration = f.at - log[m].at
       [] f.event = "recovery_admitted" ->
            /\ Before(k, i, "recovery_admitted") = {}
            /\ f.transfers = Moved(k, i, "restore_started")
            /\ f.transfers = Moved(k, i, "restore_completed")
       [] f.event = "first_compute" ->
            \E m \in Before(k, i, "recovery_admitted") : log[m].transfers = f.transfers
       [] OTHER -> FALSE

\* validate_restore_chain judges each record by its episode's summary and by the
\* replay; together they refuse exactly the records that are not well placed:
\* nothing out of order, reused, missing or of another identity passes, nothing
\* well placed is refused, and only unfinished chains are called incomplete.
JudgesExactly ==
  LET AllBut(n) == \A k \in 1 .. (Len(log) - n) : WellPlaced(k)
      Unfinished == {k \in DOMAIN log :
                       Before(Len(log) + 1, log[k].identity, "first_compute") = {}}
  IN
  CASE verdict = "reading" -> AllBut(0)
    [] verdict = "rejected" -> AllBut(1) /\ ~WellPlaced(Len(log))
    [] verdict = "accepted" -> AllBut(0) /\ Unfinished = {} /\ log # <<>>
    [] verdict = "incomplete" -> AllBut(0) /\ (Unfinished # {} \/ log = <<>>)

=============================================================================
