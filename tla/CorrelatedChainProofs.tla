----------------------- MODULE CorrelatedChainProofs ------------------------
(***************************************************************************)
(* Proofs about CorrelatedChain, for any ranks and jobs and any bounds of  *)
(* the model.                                                              *)
(*                                                                         *)
(* The judge sees records, not what happened.  IInv ties the two: what a   *)
(* record says has happened in its episode (Witnessed), and the records a  *)
(* worker made before it computed stand for restores it had completed then *)
(* (Earned), since its clock never runs backwards.  Coherent is what the   *)
(* host guarantees of an episode, Numbered that no identity is used twice. *)
(* The second half is the converse: while nothing is lost, repeated or     *)
(* restarted the records of an episode are exactly its deeds (Exact), in   *)
(* the order and the shape that the judge demands.                         *)
(***************************************************************************)
EXTENDS CorrelatedChain, FiniteSetTheorems, TLAPS

Incarnation == Rank \X (1 .. 2)
Confirmation == [job : Job, workers : SUBSET Incarnation]
Episode ==
  [jobs : SUBSET Job, submitted : SUBSET (Job \X Incarnation),
   completed : SUBSET (Job \X Incarnation), receipts : SUBSET Confirmation,
   admitted : BOOLEAN, roster : SUBSET Confirmation,
   computed : SUBSET [worker : Incarnation, backed : BOOLEAN]]
Lines == BagToSet(artifact)

TypeOK ==
  /\ generation \in 1 .. 2
  /\ incarnation \in [Rank -> 1 .. 2]
  /\ clock \in [Rank \cup {Scheduler} -> Nat]
  /\ episodes \in [Begun -> Episode]
  /\ faults \in Nat

\* The episodes of each scheduler are counted from 1.
Numbered ==
  \E count \in [1 .. 2 -> Nat] :
    /\ \A g \in 1 .. 2 : g > generation => count[g] = 0
    /\ Begun = {id \in (1 .. 2) \X Nat : id[2] \in 1 .. count[id[1]]}

\* What the host guarantees of an episode.
CoherentEpisode(h) ==
  /\ \A k \in h.receipts \cup h.roster : {w[1] : w \in k.workers} = Rank
  /\ h.admitted => {k.job : k \in h.roster} = h.jobs
  /\ h.computed # {} => h.admitted
  /\ \A c, d \in h.computed : c.worker[1] = d.worker[1] => c = d

Coherent == \A id \in Begun : CoherentEpisode(episodes[id])

\* The records of restores that the worker of x had completed before x.
Held(x) ==
  /\ x.roster = episodes[x.id].roster
  /\ \A j \in episodes[x.id].jobs :
       \E y \in Group(x.id, "restore_completed") :
         Key(y) = <<j, x.worker>> /\ After(x, y)

Timed(x) == x.worker \in Incarnation /\ x.at <= clock[x.worker[1]]

WitnessedCompletion(x) ==
  Timed(x) /\ <<x.job, x.worker>> \in episodes[x.id].completed

WitnessedAdmission(x) ==
  /\ episodes[x.id].admitted
  /\ x.roster = episodes[x.id].roster
  /\ x.roster # {}

WitnessedCompute(x) ==
  /\ Timed(x)
  /\ \E c \in episodes[x.id].computed :
       c.worker = x.worker /\ (Held(x) => c.backed)

\* What a record of an event that the judge draws on says, happened.
Witnessed ==
  \A x \in Lines :
    /\ x.id \in Begun
    /\ x.at \in Nat
    /\ x.event = "restore_completed" => WitnessedCompletion(x)
    /\ x.event = "recovery_admitted" => WitnessedAdmission(x)
    /\ x.event = "first_compute" => WitnessedCompute(x)

IInv == TypeOK /\ Numbered /\ Coherent /\ Witnessed
-----------------------------------------------------------------------------
(* A report.                                                               *)

\* The record x that a report of the event offers.
Offered(x, process, event, id, fields) ==
  /\ x = Line(event, id, clock'[process], fields)
  /\ clock' \in [Rank \cup {Scheduler} -> Nat]
  /\ clock'[process] >= clock[process]
  /\ \A p \in Rank \cup {Scheduler} : p # process => clock'[p] = clock[p]
  /\ \/ Lines' = Lines
     \/ WellFormed(x) /\ Lines' = Lines \cup {x}
  /\ faults' \in Nat

\* A report moves the clock of its process and adds the record or nothing.
LEMMA ReportEffect ==
  ASSUME TypeOK, NEW process \in Rank \cup {Scheduler}, NEW err \in Nat, NEW event, NEW id,
         NEW fields, Report(process, err, event, id, fields)
  PROVE  \E x : Offered(x, process, event, id, fields)
<1>1. PICK tick \in 0 .. 1, lines \in 0 .. 2 :
        LET x == Line(event, id, clock[process] + tick, fields)
        IN  /\ clock' = [clock EXCEPT ![process] = @ + tick]
            /\ artifact' = IF WellFormed(x) /\ lines > 0
                             THEN artifact (+) [y \in {x} |-> lines] ELSE artifact
            /\ faults' = faults + err + (1 - tick) + (IF lines = 1 THEN 0 ELSE 1)
  BY DEF Report
<1>2. /\ clock' \in [Rank \cup {Scheduler} -> Nat]
      /\ clock'[process] = clock[process] + tick
      /\ clock'[process] >= clock[process]
      /\ \A p \in Rank \cup {Scheduler} : p # process => clock'[p] = clock[p]
      /\ faults' \in Nat
  BY <1>1 DEF TypeOK
<1>. DEFINE x == Line(event, id, clock'[process], fields)
<1>4. artifact' = IF WellFormed(x) /\ lines > 0
                    THEN artifact (+) [y \in {x} |-> lines] ELSE artifact
  BY <1>1, <1>2
<1>. HIDE DEF x
<1>5. ASSUME artifact' = artifact (+) [y \in {x} |-> lines]
      PROVE  Lines' = Lines \cup {x}
  BY <1>5 DEF (+), Lines, BagToSet
<1>6. \/ Lines' = Lines
      \/ WellFormed(x) /\ Lines' = Lines \cup {x}
  BY <1>4, <1>5 DEF Lines
<1>. QED  BY <1>2, <1>6 DEF Offered, x

\* An episode goes on: what has happened stays, an admission is final.
Grows(h, g) ==
  /\ g.jobs = h.jobs
  /\ h.completed \subseteq g.completed
  /\ h.computed \subseteq g.computed
  /\ h.admitted => g.admitted /\ g.roster = h.roster

EpisodesGrow ==
  /\ Begun \subseteq Begun'
  /\ \A i \in Begun : Grows(episodes[i], episodes'[i])

ClocksGrow ==
  /\ clock' \in [Rank \cup {Scheduler} -> Nat]
  /\ \A p \in Rank \cup {Scheduler} : clock'[p] >= clock[p]

\* The completions that count for the compute of x do not become more, if a
\* new one is stamped by the clock of its worker.
LEMMA HeldBefore ==
  ASSUME IInv, EpisodesGrow, NEW x \in Lines, x.event = "first_compute", Held(x)',
         \A y \in Lines' \ Lines :
           y.event = "restore_completed" =>
             y.worker[1] \in Rank \cup {Scheduler} /\ y.at >= clock[y.worker[1]]
             /\ y.at \in Nat
  PROVE  Held(x)
<1>1. x.id \in Begun /\ x.at \in Nat /\ WitnessedCompute(x)
  BY DEF IInv, Witnessed
<1>2. Timed(x) /\ episodes[x.id].computed # {}
  BY <1>1 DEF WitnessedCompute
<1>3. episodes[x.id].admitted
  BY <1>1, <1>2 DEF IInv, Coherent, CoherentEpisode
<1>4. episodes'[x.id].roster = episodes[x.id].roster /\ episodes'[x.id].jobs = episodes[x.id].jobs
  BY <1>1, <1>3 DEF EpisodesGrow, Grows
<1>5. ASSUME NEW j \in episodes[x.id].jobs
      PROVE  \E y \in Group(x.id, "restore_completed") :
               Key(y) = <<j, x.worker>> /\ After(x, y)
  <2>1. PICK y \in Group(x.id, "restore_completed")' : Key(y) = <<j, x.worker>> /\ After(x, y)
    BY <1>4 DEF Held
  <2>2. y \in Lines' /\ y.id = x.id /\ y.event = "restore_completed"
        /\ y.worker = x.worker /\ x.at > y.at
    BY <2>1 DEF Group, Lines, Key, After
  <2>3. y \in Lines
    <3>. SUFFICES ASSUME y \notin Lines  PROVE FALSE
      OBVIOUS
    <3>1. y.at \in Nat /\ y.at >= clock[x.worker[1]]
          /\ x.worker[1] \in Rank \cup {Scheduler}
      BY <2>2
    <3>2. x.at <= clock[x.worker[1]] /\ clock[x.worker[1]] \in Nat
      BY <1>2, <3>1 DEF Timed, IInv, TypeOK
    <3>. QED  BY <1>1, <2>2, <3>1, <3>2
  <2>. QED  BY <2>1, <2>2, <2>3 DEF Group, Lines
<1>. QED  BY <1>4, <1>5 DEF Held

\* What old records say, stays true.
LEMMA OldWitnessed ==
  ASSUME IInv, EpisodesGrow, ClocksGrow, NEW x \in Lines,
         x.event = "first_compute" => (Held(x)' => Held(x))
  PROVE  /\ x.id \in Begun'
         /\ x.at \in Nat
         /\ x.event = "restore_completed" => WitnessedCompletion(x)'
         /\ x.event = "recovery_admitted" => WitnessedAdmission(x)'
         /\ x.event = "first_compute" => WitnessedCompute(x)'
<1>1. /\ x.id \in Begun /\ x.at \in Nat
      /\ x.event = "restore_completed" => WitnessedCompletion(x)
      /\ x.event = "recovery_admitted" => WitnessedAdmission(x)
      /\ x.event = "first_compute" => WitnessedCompute(x)
  BY DEF IInv, Witnessed
<1>2. Grows(episodes[x.id], episodes'[x.id]) /\ x.id \in Begun'
  BY <1>1 DEF EpisodesGrow
<1>3. ASSUME Timed(x)  PROVE Timed(x)'
  <2>1. x.worker[1] \in Rank
    BY <1>3 DEF Timed, Incarnation
  <2>2. clock[x.worker[1]] \in Nat /\ clock'[x.worker[1]] \in Nat
        /\ clock'[x.worker[1]] >= clock[x.worker[1]]
    BY <2>1 DEF ClocksGrow, IInv, TypeOK
  <2>. QED  BY <1>1, <1>3, <2>2 DEF Timed
<1>4. x.event = "restore_completed" => WitnessedCompletion(x)'
  BY <1>1, <1>2, <1>3 DEF WitnessedCompletion, Grows
<1>5. x.event = "recovery_admitted" => WitnessedAdmission(x)'
  BY <1>1, <1>2 DEF WitnessedAdmission, Grows
<1>6. x.event = "first_compute" => WitnessedCompute(x)'
  BY <1>1, <1>2, <1>3 DEF WitnessedCompute, Grows
<1>. QED  BY <1>1, <1>2, <1>4, <1>5, <1>6

\* A report keeps the records truthful if its own record is.
LEMMA ReportWitnessed ==
  ASSUME IInv, EpisodesGrow,
         NEW process \in Rank \cup {Scheduler}, NEW event, NEW id \in Begun',
         NEW fields, NEW x, Offered(x, process, event, id, fields),
         event = "restore_completed" =>
           x.worker[1] = process /\ WitnessedCompletion(x)',
         event = "recovery_admitted" /\ WellFormed(x) => WitnessedAdmission(x)',
         event = "first_compute" => WitnessedCompute(x)'
  PROVE  Witnessed'
<1>1. x.event = event /\ x.id = id /\ x.at = clock'[process]
  BY DEF Offered, Line
<1>2. x.at \in Nat /\ clock[process] \in Nat /\ x.at >= clock[process]
  BY <1>1 DEF Offered, IInv, TypeOK
<1>3. ClocksGrow
  BY DEF Offered, ClocksGrow, IInv, TypeOK
<1>4. ASSUME NEW y \in Lines' \ Lines, y.event = "restore_completed"
      PROVE  y.worker[1] \in Rank \cup {Scheduler} /\ y.at >= clock[y.worker[1]]
             /\ y.at \in Nat
  <2>1. y = x
    BY DEF Offered
  <2>. QED  BY <1>1, <1>2, <1>4, <2>1
<1>5. ASSUME NEW y \in Lines'
      PROVE  /\ y.id \in Begun'
             /\ y.at \in Nat
             /\ y.event = "restore_completed" => WitnessedCompletion(y)'
             /\ y.event = "recovery_admitted" => WitnessedAdmission(y)'
             /\ y.event = "first_compute" => WitnessedCompute(y)'
  <2>1. CASE y \in Lines
    <3>1. y.event = "first_compute" => (Held(y)' => Held(y))
      BY <1>4, <2>1, HeldBefore
    <3>. QED  BY <1>3, <2>1, <3>1, OldWitnessed
  <2>2. CASE y \notin Lines
    <3>1. y = x /\ WellFormed(x)
      BY <2>2 DEF Offered
    <3>. QED  BY <1>1, <1>2, <3>1
  <2>. QED  BY <2>1, <2>2
<1>. QED  BY <1>5 DEF Witnessed
-----------------------------------------------------------------------------
(* The steps of the host.                                                  *)

\* An episode of the host moves on.
LEMMA Progress ==
  ASSUME IInv, NEW id \in Begun, NEW g \in Episode, Changes(id, g),
         Grows(episodes[id], g), CoherentEpisode(g),
         UNCHANGED <<generation, incarnation>>
  PROVE  /\ EpisodesGrow /\ Begun' = Begun
         /\ episodes'[id] = g
         /\ episodes' \in [Begun' -> Episode]
         /\ Numbered' /\ Coherent'
<1>1. episodes \in [Begun -> Episode]
  BY DEF IInv, TypeOK
<1>2. /\ Begun' = Begun /\ episodes' \in [Begun' -> Episode]
      /\ episodes'[id] = g /\ \A i \in Begun : i # id => episodes'[i] = episodes[i]
  BY <1>1 DEF Changes, Begun
<1>3. EpisodesGrow
  BY <1>1, <1>2 DEF EpisodesGrow, Grows
<1>4. Numbered'
  BY <1>2 DEF IInv, Numbered
<1>5. Coherent'
  <2>1. \A i \in Begun : CoherentEpisode(episodes'[i])
    BY <1>2 DEF IInv, Coherent
  <2>. QED  BY <1>2, <2>1 DEF Coherent
<1>. QED  BY <1>2, <1>3, <1>4, <1>5

\* An episode moves on and is reported.
LEMMA ReportedProgress ==
  ASSUME IInv, NEW id \in Begun, NEW g \in Episode, Changes(id, g),
         Grows(episodes[id], g), CoherentEpisode(g),
         UNCHANGED <<generation, incarnation>>,
         NEW process \in Rank \cup {Scheduler}, NEW err \in Nat, NEW event, NEW fields,
         Report(process, err, event, id, fields),
         \A x : Offered(x, process, event, id, fields) =>
           /\ event = "restore_completed" =>
                x.worker[1] = process /\ WitnessedCompletion(x)'
           /\ event = "recovery_admitted" /\ WellFormed(x) => WitnessedAdmission(x)'
           /\ event = "first_compute" => WitnessedCompute(x)'
  PROVE  IInv'
<1>1. TypeOK
  BY DEF IInv
<1>2. PICK x : Offered(x, process, event, id, fields)
  BY <1>1, ReportEffect
<1>3. /\ EpisodesGrow /\ Begun' = Begun
      /\ episodes' \in [Begun' -> Episode]
      /\ Numbered' /\ Coherent'
  BY Progress
<1>4. TypeOK'
  BY <1>1, <1>2, <1>3 DEF TypeOK, Offered
<1>5. Witnessed'
  BY <1>2, <1>3, ReportWitnessed
<1>. QED  BY <1>3, <1>4, <1>5 DEF IInv

\* The episode and the worker an action speaks of.
LEMMA EpisodeFacts ==
  ASSUME IInv, NEW id \in Begun
  PROVE  episodes[id] \in Episode /\ CoherentEpisode(episodes[id])
BY DEF IInv, TypeOK, Coherent

LEMMA WorkerFacts ==
  ASSUME IInv, NEW r \in Rank
  PROVE  Worker(r) \in Incarnation /\ Worker(r)[1] = r
BY DEF IInv, TypeOK, Worker, Incarnation

LEMMA SubmitInv ==
  ASSUME IInv, NEW id \in Begun, NEW j \in Job, NEW r \in Rank, Submit(id, j, r)
  PROVE  IInv'
<1>. DEFINE h == episodes[id]
            g == [h EXCEPT !.submitted = @ \cup {<<j, Worker(r)>>}]
<1>1. h \in Episode /\ CoherentEpisode(h) /\ Worker(r) \in Incarnation
  BY EpisodeFacts, WorkerFacts
<1>2. g \in Episode /\ Grows(h, g) /\ CoherentEpisode(g)
  BY <1>1 DEF Episode, Grows, CoherentEpisode
<1>3. Changes(id, g) /\ UNCHANGED <<generation, incarnation>>
      /\ Report(r, 0, "restore_submitted", id,
                [Blank EXCEPT !.job = j, !.worker = Worker(r)])
  BY DEF Submit
<1>. HIDE DEF g
<1>. QED  BY <1>2, <1>3, ReportedProgress

LEMMA CompleteInv ==
  ASSUME IInv, NEW id \in Begun, NEW j \in Job, NEW r \in Rank, Complete(id, j, r)
  PROVE  IInv'
<1>. DEFINE h == episodes[id]
            g == [h EXCEPT !.completed = @ \cup {<<j, Worker(r)>>}]
            fields == [Blank EXCEPT !.job = j, !.worker = Worker(r)]
<1>1. h \in Episode /\ CoherentEpisode(h) /\ Worker(r) \in Incarnation
      /\ Worker(r)[1] = r
  BY EpisodeFacts, WorkerFacts
<1>2. g \in Episode /\ Grows(h, g) /\ CoherentEpisode(g)
      /\ <<j, Worker(r)>> \in g.completed
  BY <1>1 DEF Episode, Grows, CoherentEpisode
<1>3. Changes(id, g) /\ UNCHANGED <<generation, incarnation>>
      /\ Report(r, 0, "restore_completed", id, fields)
  BY DEF Complete
<1>4. fields.job = j /\ fields.worker = Worker(r)
  BY DEF Blank
<1>. HIDE DEF g, fields
<1>5. episodes'[id] = g
  BY <1>2, <1>3, Progress
<1>6. ASSUME NEW x, Offered(x, r, "restore_completed", id, fields)
      PROVE  x.worker[1] = r /\ WitnessedCompletion(x)'
  <2>1. x.id = id /\ x.job = j /\ x.worker = Worker(r) /\ x.at = clock'[r]
        /\ clock'[r] \in Nat
    BY <1>4, <1>6 DEF Offered, Line
  <2>. QED  BY <1>1, <1>2, <1>5, <2>1 DEF WitnessedCompletion, Timed
<1>. QED  BY <1>2, <1>3, <1>6, ReportedProgress

LEMMA ReceiptInv ==
  ASSUME IInv, NEW id \in Begun, NEW j \in Job, Receipt(id, j)
  PROVE  IInv'
<1>. DEFINE h == episodes[id]
            done == {w \in Rank \X (1 .. 2) : <<j, w>> \in h.completed}
<1>1. h \in Episode /\ CoherentEpisode(h)
  BY EpisodeFacts
<1>2. PICK workers \in SUBSET Incarnation, err \in {0, 1} :
        /\ {w[1] : w \in workers} = Rank
        /\ Changes(id, [h EXCEPT !.receipts = @ \cup {[job |-> j, workers |-> workers]}])
        /\ Report(Scheduler, err, "transfer_receipt", id,
                  [Blank EXCEPT !.job = j, !.workers = workers])
  <2>1. CASE \E workers \in SUBSET done :
               /\ {w[1] : w \in workers} = Rank
               /\ Changes(id, [h EXCEPT !.receipts = @ \cup {[job |-> j, workers |-> workers]}])
               /\ Report(Scheduler, 0, "transfer_receipt", id,
                         [Blank EXCEPT !.job = j, !.workers = workers])
    <3>1. done \subseteq Incarnation
      BY DEF Incarnation
    <3>. QED  BY <2>1, <3>1
  <2>2. CASE LET workers == {Worker(r) : r \in Rank} IN
               /\ Changes(id, [h EXCEPT !.receipts = @ \cup {[job |-> j, workers |-> workers]}])
               /\ Report(Scheduler, 1, "transfer_receipt", id,
                         [Blank EXCEPT !.job = j, !.workers = workers])
    <3>. DEFINE workers == {Worker(r) : r \in Rank}
    <3>1. workers \in SUBSET Incarnation /\ {w[1] : w \in workers} = Rank
      BY WorkerFacts
    <3>. QED  BY <2>2, <3>1
  <2>. QED  BY <2>1, <2>2 DEF Receipt
<1>. DEFINE k == [job |-> j, workers |-> workers]
            g == [h EXCEPT !.receipts = @ \cup {k}]
<1>3. ~h.admitted /\ UNCHANGED <<generation, incarnation>>
  BY DEF Receipt
<1>4. g \in Episode /\ Grows(h, g) /\ CoherentEpisode(g)
  BY <1>1, <1>2, <1>3 DEF Episode, Grows, CoherentEpisode, Confirmation
<1>. HIDE DEF g
<1>. QED  BY <1>2, <1>3, <1>4, ReportedProgress DEF g

LEMMA AdmitInv ==
  ASSUME IInv, NEW id \in Begun, Admit(id)
  PROVE  IInv'
<1>. DEFINE h == episodes[id]
            g == [h EXCEPT !.admitted = TRUE, !.roster = h.receipts]
            fields == [Blank EXCEPT !.roster = h.receipts]
<1>1. h \in Episode /\ CoherentEpisode(h)
  BY EpisodeFacts
<1>2. /\ ~h.admitted /\ {k.job : k \in h.receipts} = h.jobs
      /\ Changes(id, g) /\ UNCHANGED <<generation, incarnation>>
      /\ Report(Scheduler, 0, "recovery_admitted", id, fields)
  BY DEF Admit
<1>3. g \in Episode /\ Grows(h, g) /\ CoherentEpisode(g)
      /\ g.admitted /\ g.roster = h.receipts
  BY <1>1, <1>2 DEF Episode, Grows, CoherentEpisode
<1>4. fields.roster = h.receipts
  BY DEF Blank
<1>. HIDE DEF g, fields
<1>5. episodes'[id] = g
  BY <1>2, <1>3, Progress
<1>6. ASSUME NEW x, Offered(x, Scheduler, "recovery_admitted", id, fields), WellFormed(x)
      PROVE  WitnessedAdmission(x)'
  <2>1. x.id = id /\ x.roster = h.receipts /\ x.event = "recovery_admitted"
    BY <1>4, <1>6 DEF Offered, Line
  <2>2. x.roster # {}
    BY <1>6, <2>1 DEF WellFormed, Fields, Required, Blank
  <2>. QED  BY <1>3, <1>5, <2>1, <2>2 DEF WitnessedAdmission
<1>. QED  BY <1>2, <1>3, <1>6, ReportedProgress

LEMMA ComputeInv ==
  ASSUME IInv, NEW id \in Begun, NEW r \in Rank, Compute(id, r)
  PROVE  IInv'
<1>. DEFINE h == episodes[id]
<1>1. h \in Episode /\ CoherentEpisode(h) /\ Worker(r) \in Incarnation
      /\ Worker(r)[1] = r
  BY EpisodeFacts, WorkerFacts
<1>2. PICK roster \in SUBSET h.roster :
        /\ Changes(id, [h EXCEPT !.computed = @ \cup
              {[worker |-> Worker(r),
                backed |-> roster = h.roster
                             /\ \A j \in h.jobs : <<j, Worker(r)>> \in h.completed]}])
        /\ Report(r, IF roster = h.roster THEN 0 ELSE 1, "first_compute", id,
                  [Blank EXCEPT !.worker = Worker(r), !.roster = roster])
  BY DEF Compute
<1>3. h.admitted /\ (\A c \in h.computed : c.worker[1] # r)
      /\ UNCHANGED <<generation, incarnation>>
  BY DEF Compute
<1>. DEFINE holds == roster = h.roster /\ \A j \in h.jobs : <<j, Worker(r)>> \in h.completed
            c == [worker |-> Worker(r), backed |-> holds]
            g == [h EXCEPT !.computed = @ \cup {c}]
            fields == [Blank EXCEPT !.worker = Worker(r), !.roster = roster]
<1>4. c \in [worker : Incarnation, backed : BOOLEAN] /\ c.worker = Worker(r) /\ c.backed = holds
  BY <1>1
<1>5. g \in Episode /\ Grows(h, g) /\ CoherentEpisode(g)
      /\ c \in g.computed /\ g.roster = h.roster /\ g.jobs = h.jobs
  <2>. HIDE DEF c
  <2>. QED  BY <1>1, <1>3, <1>4 DEF Episode, Grows, CoherentEpisode
<1>6. fields.worker = Worker(r) /\ fields.roster = roster
  BY DEF Blank
<1>7. Changes(id, g)
      /\ Report(r, IF roster = h.roster THEN 0 ELSE 1, "first_compute", id, fields)
  BY <1>2
<1>. HIDE DEF g, fields, c
<1>8. episodes'[id] = g
  BY <1>3, <1>5, <1>7, Progress
<1>9. ASSUME NEW x, Offered(x, r, "first_compute", id, fields)
      PROVE  WitnessedCompute(x)'
  <2>1. x.id = id /\ x.worker = Worker(r) /\ x.roster = roster /\ x.at = clock'[r]
        /\ clock'[r] \in Nat /\ x.event = "first_compute"
    BY <1>6, <1>9 DEF Offered, Line
  <2>2. Timed(x)'
    BY <1>1, <2>1 DEF Timed
  <2>3. ASSUME Held(x)'  PROVE c.backed
    <3>1. roster = h.roster
      BY <1>5, <1>8, <2>1, <2>3 DEF Held
    <3>2. ASSUME NEW j \in h.jobs  PROVE <<j, Worker(r)>> \in h.completed
      <4>1. PICK y \in Group(id, "restore_completed")' : Key(y) = <<j, Worker(r)>>
        BY <1>5, <1>8, <2>1, <2>3 DEF Held
      <4>2. y \in Lines' /\ y.id = id /\ y.event = "restore_completed"
            /\ y.job = j /\ y.worker = Worker(r)
        BY <4>1 DEF Group, Lines, Key
      <4>3. y \in Lines
        BY <1>9, <2>1, <4>2 DEF Offered
      <4>. QED  BY <4>2, <4>3 DEF IInv, Witnessed, WitnessedCompletion
    <3>. QED  BY <1>4, <3>1, <3>2
  <2>. QED  BY <1>4, <1>5, <1>8, <2>1, <2>2, <2>3 DEF WitnessedCompute
<1>. QED  BY <1>3, <1>5, <1>7, <1>9, ReportedProgress

\* Counting the episodes of a generation numbers the next one.
LEMMA EpisodeCount ==
  ASSUME NEW g, NEW n \in Nat
  PROVE  Cardinality({g} \X (1 .. n)) = n
<1>. DEFINE F == [k \in 1 .. n |-> <<g, k>>]
<1>1. F \in Bijection(1 .. n, {g} \X (1 .. n))
  <2>1. F \in [1 .. n -> {g} \X (1 .. n)]
    OBVIOUS
  <2>2. \A a, b \in 1 .. n : F[a] = F[b] => a = b
    OBVIOUS
  <2>3. \A t \in {g} \X (1 .. n) : \E k \in 1 .. n : F[k] = t
    OBVIOUS
  <2>. HIDE DEF F
  <2>. QED  BY <2>1, <2>2, <2>3 DEF Bijection, Injection, Surjection, IsInjective
<1>2. ExistsBijection(1 .. n, {g} \X (1 .. n))
  BY <1>1 DEF ExistsBijection
<1>. QED  BY <1>2, FS_CountingElements

LEMMA RequeueInv ==
  ASSUME IInv, Requeue
  PROVE  IInv'
<1>. DEFINE earlier == {i \in Begun : i[1] = generation}
            id == <<generation, Cardinality(earlier) + 1>>
            used == UNION {episodes[i].jobs : i \in earlier}
<1>1. PICK jobs \in SUBSET Job :
        /\ episodes' = [i \in Begun \cup {id} |->
                          IF i = id THEN NewEpisode(jobs) ELSE episodes[i]]
        /\ Report(Scheduler, IF jobs \cap used = {} THEN 0 ELSE 1,
                  "recovery_requeued", id, Blank)
  BY DEF Requeue
<1>2. UNCHANGED <<generation, incarnation>>
  BY DEF Requeue
<1>3. PICK count \in [1 .. 2 -> Nat] :
        /\ \A g \in 1 .. 2 : g > generation => count[g] = 0
        /\ Begun = {i \in (1 .. 2) \X Nat : i[2] \in 1 .. count[i[1]]}
  BY DEF IInv, Numbered
<1>4. generation \in 1 .. 2
  BY DEF IInv, TypeOK
<1>5. Cardinality(earlier) = count[generation] /\ id = <<generation, count[generation] + 1>>
  <2>1. earlier = {generation} \X (1 .. count[generation])
    BY <1>3, <1>4
  <2>2. Cardinality({generation} \X (1 .. count[generation])) = count[generation]
    BY <1>3, <1>4, EpisodeCount
  <2>. HIDE DEF earlier
  <2>. QED  BY <2>1, <2>2
<1>. HIDE DEF id, earlier, used
<1>6. id \notin Begun
  BY <1>3, <1>4, <1>5
<1>7. /\ Begun' = Begun \cup {id} /\ episodes'[id] = NewEpisode(jobs)
      /\ \A i \in Begun : episodes'[i] = episodes[i]
  BY <1>1, <1>6 DEF Begun
<1>8. Numbered'
  <2>. DEFINE next == [count EXCEPT ![generation] = count[generation] + 1]
  <2>1. next \in [1 .. 2 -> Nat] /\ \A g \in 1 .. 2 : g > generation => next[g] = 0
    BY <1>3, <1>4
  <2>2. Begun' = {i \in (1 .. 2) \X Nat : i[2] \in 1 .. next[i[1]]}
    <3>1. ASSUME NEW g \in 1 .. 2, NEW k \in Nat
          PROVE  k \in 1 .. next[g] <=> k \in 1 .. count[g] \/ <<g, k>> = id
      BY <1>3, <1>4, <1>5
    <3>. HIDE DEF next
    <3>2. id \in (1 .. 2) \X Nat
      BY <1>3, <1>4, <1>5
    <3>. QED  BY <1>3, <1>7, <3>1, <3>2
  <2>. QED  BY <1>2, <2>1, <2>2 DEF Numbered
<1>9. NewEpisode(jobs) \in Episode /\ CoherentEpisode(NewEpisode(jobs))
  BY DEF NewEpisode, Episode, CoherentEpisode
<1>10. PICK x : Offered(x, Scheduler, "recovery_requeued", id, Blank)
  BY <1>1, ReportEffect DEF IInv
<1>11. EpisodesGrow
  BY <1>7 DEF EpisodesGrow, Grows
<1>12. Coherent'
  BY <1>7, <1>9 DEF IInv, Coherent
<1>13. TypeOK'
  <2>1. episodes' \in [Begun' -> Episode]
    BY <1>1, <1>7, <1>9 DEF IInv, TypeOK
  <2>. QED  BY <1>2, <1>10, <2>1 DEF IInv, TypeOK, Offered
<1>14. Witnessed'
  BY <1>7, <1>10, <1>11, ReportWitnessed
<1>. QED  BY <1>8, <1>12, <1>13, <1>14 DEF IInv

\* A step that touches neither episodes nor records.
LEMMA NothingHappens ==
  ASSUME IInv, UNCHANGED <<clock, episodes, artifact>>, TypeOK',
         generation' >= generation
  PROVE  IInv'
<1>1. Begun' = Begun /\ Lines' = Lines
  BY DEF Begun, Lines, BagToSet
<1>2. Numbered'
  BY <1>1 DEF IInv, Numbered, TypeOK
<1>3. Coherent'
  BY <1>1 DEF IInv, Coherent
<1>4. ASSUME NEW x \in Lines
      PROVE  /\ WitnessedCompletion(x)' <=> WitnessedCompletion(x)
             /\ WitnessedAdmission(x)' <=> WitnessedAdmission(x)
             /\ WitnessedCompute(x)' <=> WitnessedCompute(x)
  BY DEF WitnessedCompletion, WitnessedAdmission, WitnessedCompute, Timed, Held, Group
<1>5. Witnessed'
  BY <1>1, <1>4 DEF IInv, Witnessed
<1>. QED  BY <1>2, <1>3, <1>5 DEF IInv

LEMMA InitInv == Init => IInv
<1>. SUFFICES ASSUME Init  PROVE IInv
  OBVIOUS
<1>1. Begun = {} /\ Lines = {}
  BY DEF Init, Begun, Lines, EmptyBag, SetToBag, BagToSet
<1>2. TypeOK
  BY <1>1 DEF Init, TypeOK
<1>3. Numbered
  <2>. DEFINE none == [g \in 1 .. 2 |-> 0]
  <2>1. none \in [1 .. 2 -> Nat]
    OBVIOUS
  <2>2. {id \in (1 .. 2) \X Nat : id[2] \in 1 .. none[id[1]]} = {}
    OBVIOUS
  <2>3. \A g \in 1 .. 2 : none[g] = 0
    OBVIOUS
  <2>. HIDE DEF none
  <2>. QED  BY <1>1, <2>1, <2>2, <2>3 DEF Numbered
<1>. QED  BY <1>1, <1>2, <1>3 DEF IInv, Coherent, Witnessed

LEMMA StepInv == IInv /\ [Next]_vars => IInv'
<1>. SUFFICES ASSUME IInv, [Next]_vars  PROVE IInv'
  OBVIOUS
<1>1. CASE Requeue
  BY <1>1, RequeueInv
<1>2. CASE SchedulerRestarts
  <2>1. TypeOK' /\ generation' >= generation
    BY <1>2 DEF SchedulerRestarts, IInv, TypeOK, Begun
  <2>. QED  BY <1>2, <2>1, NothingHappens DEF SchedulerRestarts
<1>3. ASSUME NEW r \in Rank, WorkerRestarts(r)  PROVE IInv'
  <2>1. UNCHANGED <<generation, clock, episodes, artifact>>
        /\ incarnation' = [incarnation EXCEPT ![r] = 2]
            /\ faults' = faults + 1
    BY <1>3 DEF WorkerRestarts
  <2>2. TypeOK' /\ generation' >= generation
    BY <2>1 DEF IInv, TypeOK, Begun
  <2>. QED  BY <2>1, <2>2, NothingHappens
<1>4. ASSUME NEW id \in Begun, Admit(id)  PROVE IInv'
  BY <1>4, AdmitInv
<1>5. ASSUME NEW id \in Begun, NEW j \in Job, Receipt(id, j)  PROVE IInv'
  BY <1>5, ReceiptInv
<1>6. ASSUME NEW id \in Begun, NEW r \in Rank, Compute(id, r)  PROVE IInv'
  BY <1>6, ComputeInv
<1>7. ASSUME NEW id \in Begun, NEW j \in Job, NEW r \in Rank,
             Submit(id, j, r) \/ Complete(id, j, r)
      PROVE  IInv'
  BY <1>7, SubmitInv, CompleteInv
<1>8. CASE UNCHANGED vars
  <2>1. TypeOK' /\ generation' >= generation
    BY <1>8 DEF vars, IInv, TypeOK, Begun
  <2>. QED  BY <1>8, <2>1, NothingHappens DEF vars
<1>. QED  BY <1>1, <1>2, <1>3, <1>4, <1>5, <1>6, <1>7, <1>8 DEF Next

\* IInv holds in every state of the host and its records.
THEOREM Invariance == Spec => []IInv
BY InitInv, StepInv, PTL DEF Spec
-----------------------------------------------------------------------------
(* What an accepted artifact proves.                                       *)

\* The admission the judge found, and the episode it belongs to.
LEMMA ProvenAdmission ==
  ASSUME IInv, NEW id \in Recorded, Proven(id)
  PROVE  /\ id \in Begun /\ episodes[id].admitted
         /\ episodes[id].roster # {}
         /\ {k.job : k \in episodes[id].roster} = episodes[id].jobs
         /\ \E admitted \in Group(id, "recovery_admitted") :
              /\ admitted.roster = episodes[id].roster
              /\ StagesMatch(id, admitted) /\ ComputesMatch(id, admitted)
<1>1. PICK admitted \in Group(id, "recovery_admitted") :
        StagesMatch(id, admitted) /\ ComputesMatch(id, admitted)
  BY DEF Proven
<1>2. admitted \in Lines /\ admitted.id = id /\ admitted.event = "recovery_admitted"
  BY DEF Group, Lines
<1>3. id \in Begun /\ WitnessedAdmission(admitted)
  BY <1>2 DEF IInv, Witnessed
<1>4. CoherentEpisode(episodes[id])
  BY <1>3, EpisodeFacts
<1>. QED  BY <1>1, <1>2, <1>3, <1>4 DEF WitnessedAdmission, CoherentEpisode

\* A worker of the roster computed, and its record agrees with the roster.
LEMMA RosterWorkerComputed ==
  ASSUME IInv, NEW id \in Begun, NEW admitted,
         admitted.roster = episodes[id].roster, ComputesMatch(id, admitted),
         NEW k \in episodes[id].roster, NEW w \in k.workers
  PROVE  \E z \in Group(id, "first_compute"), c \in episodes[id].computed :
           /\ z.worker = w /\ z.roster = episodes[id].roster
           /\ \A y \in Group(id, "restore_completed") :
                y.worker = w => After(z, y)
           /\ c.worker = w /\ (Held(z) => c.backed)
<1>1. <<k.job, w>> \in Pairs(admitted.roster)
  BY DEF Pairs
<1>2. w \in {p[2] : p \in Pairs(admitted.roster)}
  BY <1>1
<1>3. PICK z \in Group(id, "first_compute") : z.worker = w
  BY <1>2 DEF ComputesMatch
<1>4. z \in Lines /\ z.id = id /\ z.event = "first_compute"
  BY DEF Group, Lines
<1>5. WitnessedCompute(z)
  BY <1>4 DEF IInv, Witnessed
<1>6. PICK c \in episodes[id].computed : c.worker = w /\ (Held(z) => c.backed)
  BY <1>3, <1>4, <1>5 DEF WitnessedCompute
<1>. QED  BY <1>3, <1>6 DEF ComputesMatch

\* An episode the judge takes for proven went as recorded.
LEMMA ProvenHappened ==
  ASSUME IInv, NEW id \in Recorded, Proven(id)
  PROVE  Finished(id) /\ \A c \in episodes[id].computed : c.backed
<1>. DEFINE h == episodes[id]
<1>1. /\ id \in Begun /\ h.admitted /\ h.roster # {}
      /\ {k.job : k \in h.roster} = h.jobs
  BY ProvenAdmission
<1>2. PICK admitted \in Group(id, "recovery_admitted") :
        /\ admitted.roster = h.roster
        /\ StagesMatch(id, admitted) /\ ComputesMatch(id, admitted)
  BY ProvenAdmission
<1>3. h \in Episode /\ CoherentEpisode(h)
  BY <1>1, EpisodeFacts
<1>4. \A k \in h.roster : {w[1] : w \in k.workers} = Rank
  BY <1>3 DEF CoherentEpisode
<1>5. \A c, d \in h.computed : c.worker[1] = d.worker[1] => c = d
  BY <1>3 DEF CoherentEpisode
<1>6. \A c \in h.computed : c.worker[1] \in Rank
  BY <1>3 DEF Episode, Incarnation
<1>. HIDE DEF h
<1>7. ASSUME NEW r \in Rank, NEW k \in h.roster
      PROVE  \E w \in k.workers, z \in Group(id, "first_compute"), c \in h.computed :
               /\ w[1] = r /\ z.worker = w /\ z.roster = h.roster
               /\ \A y \in Group(id, "restore_completed") : y.worker = w => After(z, y)
               /\ c.worker = w /\ (Held(z) => c.backed)
  <2>1. PICK w \in k.workers : w[1] = r
    BY <1>4
  <2>. QED  BY <1>1, <1>2, <2>1, RosterWorkerComputed DEF h
<1>8. {c.worker[1] : c \in h.computed} = Rank
  <2>1. ASSUME NEW r \in Rank  PROVE \E c \in h.computed : c.worker[1] = r
    BY <1>1, <1>7
  <2>. QED  BY <1>6, <2>1
<1>9. ASSUME NEW c \in h.computed  PROVE c.backed
  <2>1. PICK k \in h.roster : TRUE
    BY <1>1
  <2>2. PICK w \in k.workers, z \in Group(id, "first_compute"), d \in h.computed :
          /\ w[1] = c.worker[1] /\ z.worker = w /\ z.roster = h.roster
          /\ \A y \in Group(id, "restore_completed") : y.worker = w => After(z, y)
          /\ d.worker = w /\ (Held(z) => d.backed)
    BY <1>6, <1>7
  <2>3. d = c
    BY <1>5, <2>2
  <2>4. z.id = id
    BY DEF Group
  <2>5. ASSUME NEW j \in h.jobs
        PROVE  \E y \in Group(id, "restore_completed") :
                 Key(y) = <<j, z.worker>> /\ After(z, y)
    <3>1. PICK l \in h.roster : l.job = j
      BY <1>1
    <3>2. PICK v \in l.workers, d2 \in h.computed : v[1] = c.worker[1] /\ d2.worker = v
      BY <1>6, <1>7
    <3>3. d2 = c /\ v = w
      BY <1>5, <2>2, <2>3, <3>2
    <3>4. <<j, w>> \in Pairs(admitted.roster)
      BY <1>2, <3>1, <3>2, <3>3 DEF Pairs
    <3>5. <<j, w>> \in {Key(y) : y \in Group(id, "restore_completed")}
      BY <1>2, <3>4 DEF StagesMatch
    <3>6. PICK y \in Group(id, "restore_completed") : Key(y) = <<j, w>>
      BY <3>5
    <3>7. y.worker = w
      BY <3>6 DEF Key
    <3>. QED  BY <2>2, <3>6, <3>7
  <2>6. Held(z)
    BY <2>2, <2>4, <2>5 DEF Held, h
  <2>. QED  BY <2>2, <2>3, <2>6
<1>. QED  BY <1>1, <1>8, <1>9 DEF Finished, h

\* Two recorded episodes of one generation share no job.
LEMMA JobsDisjoint ==
  ASSUME IInv, Accepted, NEW id \in Recorded, NEW other \in Recorded,
         other # id, other[1] = id[1]
  PROVE  episodes[id].jobs \cap episodes[other].jobs = {}
<1>1. JobsOwned /\ Proven(id) /\ Proven(other)
  BY DEF Accepted
<1>2. PICK x \in Group(id, "recovery_admitted") : x.roster = episodes[id].roster
  BY <1>1, ProvenAdmission
<1>3. PICK y \in Group(other, "recovery_admitted") : y.roster = episodes[other].roster
  BY <1>1, ProvenAdmission
<1>4. x \in BagToSet(artifact) /\ x.id = id /\ y \in BagToSet(artifact) /\ y.id = other
  BY DEF Group
<1>5. /\ {k.job : k \in x.roster} = episodes[id].jobs
      /\ {k.job : k \in y.roster} = episodes[other].jobs
  BY <1>1, <1>2, <1>3, ProvenAdmission
<1>6. JobsNamed(x) \cap JobsNamed(y) = {}
  BY <1>1, <1>4 DEF JobsOwned
<1>7. episodes[id].jobs \subseteq JobsNamed(x) /\ episodes[other].jobs \subseteq JobsNamed(y)
  BY <1>5 DEF JobsNamed
<1>. QED  BY <1>6, <1>7

\* Whatever is lost, repeated, tied, restarted or done in error, however often,
\* an artifact that validate_correlated_restore_chain accepts is true.
THEOREM AcceptedIsTrue == Spec => []AcceptedHappened
<1>1. ASSUME IInv, Accepted, NEW id \in Recorded
      PROVE  /\ Finished(id)
             /\ \A c \in episodes[id].computed : c.backed
             /\ \A other \in Recorded \ {id} :
                  other[1] = id[1] => episodes[id].jobs \cap episodes[other].jobs = {}
  <2>1. Proven(id)
    BY <1>1 DEF Accepted
  <2>. QED  BY <1>1, <2>1, ProvenHappened, JobsDisjoint
<1>2. IInv => AcceptedHappened
  BY <1>1 DEF AcceptedHappened
<1>. QED  BY Invariance, <1>2, PTL
-----------------------------------------------------------------------------
(* A host that makes no mistake and an observer that loses nothing.        *)

First == Rank \X {1}

\* The episodes whose rosters fit a record.
Small(h) == Cardinality(h.jobs) * Cardinality(Rank) \in 1 .. MaxRoster

About(j, w) == [Blank EXCEPT !.job = j, !.worker = w]
Confirms(k) == [Blank EXCEPT !.job = k.job, !.workers = k.workers]
Computes(w, roster) == [Blank EXCEPT !.worker = w, !.roster = roster]
Admits(roster) == [Blank EXCEPT !.roster = roster]

\* A record without its time.
Deed(event, id, fields) == Line(event, id, 0, fields)
Bare(x) == Deed(x.event, x.id, x)

\* What the records of an episode should say.
Deeds(id, h) ==
  {Deed("recovery_requeued", id, Blank)}
    \cup {Deed("restore_submitted", id, About(p[1], p[2])) : p \in h.submitted}
    \cup {Deed("restore_completed", id, About(p[1], p[2])) : p \in h.completed}
    \cup {Deed("transfer_receipt", id, Confirms(k)) : k \in h.receipts}
    \cup (IF h.admitted THEN {Deed("recovery_admitted", id, Admits(h.roster))} ELSE {})
    \cup {Deed("first_compute", id, Computes(c.worker, h.roster)) : c \in h.computed}

\* The process whose clock stamped x.
Origin(x) ==
  IF x.event \in {"restore_submitted", "restore_completed", "first_compute"}
    THEN x.worker[1] ELSE Scheduler

\* The judge wants x before y.
Precedes(x, y) ==
  \/ x.event = "recovery_requeued" /\ y.event \in {"transfer_receipt", "recovery_admitted"}
  \/ x.event = "transfer_receipt" /\ y.event = "recovery_admitted"
  \/ x.event = "restore_submitted" /\ y.event = "restore_completed" /\ Key(x) = Key(y)
  \/ x.event = "restore_completed" /\ y.event = "first_compute" /\ x.worker = y.worker

LinesOf(id) == {x \in Lines : x.id = id}

\* The records of an episode tell what happened, once and in order.
Faithful(id) ==
  /\ {Bare(x) : x \in LinesOf(id)} = Deeds(id, episodes[id])
  /\ \A x, y \in LinesOf(id) : Bare(x) = Bare(y) => x = y
  /\ \A x, y \in LinesOf(id) : Precedes(x, y) => After(y, x)

\* What a host without mistakes or restarts guarantees of an episode.
Orderly(h) ==
  /\ h.submitted \subseteq h.jobs \X First
  /\ h.completed \subseteq h.submitted
  /\ \A k \in h.receipts :
       k.job \in h.jobs /\ k.workers = First /\ {k.job} \X First \subseteq h.completed
  /\ \A k, l \in h.receipts : k.job = l.job => k = l
  /\ h.admitted => h.roster = h.receipts
  /\ \A c \in h.computed : c.worker \in First

JobsApart ==
  \A i, o \in Begun :
    i # o /\ i[1] = o[1] => episodes[i].jobs \cap episodes[o].jobs = {}

Stamped ==
  \A x \in Lines :
    Origin(x) \in Rank \cup {Scheduler} /\ x.at <= clock[Origin(x)]

Exact ==
  /\ \A r \in Rank : incarnation[r] = 1
  /\ \A x \in Lines : artifact[x] = 1 /\ JobsNamed(x) \subseteq episodes[x.id].jobs
  /\ JobsApart
  /\ \A id \in Begun :
       Orderly(episodes[id]) /\ (Small(episodes[id]) => Faithful(id))

Healthy == IInv /\ Stamped /\ (faults = 0 => Exact)

\* A report without a mistake stamps a new time and is recorded once.
LEMMA ExactReport ==
  ASSUME TypeOK, NEW process \in Rank \cup {Scheduler}, NEW err \in Nat,
         NEW event, NEW id, NEW fields, Report(process, err, event, id, fields),
         faults' = 0
  PROVE  LET x == Line(event, id, clock[process] + 1, fields) IN
         /\ faults = 0 /\ err = 0
         /\ clock' = [clock EXCEPT ![process] = clock[process] + 1]
         /\ artifact' = IF WellFormed(x) THEN artifact (+) [y \in {x} |-> 1] ELSE artifact
<1>1. PICK tick \in 0 .. 1, lines \in 0 .. 2 :
        LET x == Line(event, id, clock[process] + tick, fields)
        IN  /\ faults' = faults + err + (1 - tick) + (IF lines = 1 THEN 0 ELSE 1)
            /\ clock' = [clock EXCEPT ![process] = @ + tick]
            /\ artifact' = IF WellFormed(x) /\ lines > 0
                             THEN artifact (+) [y \in {x} |-> lines] ELSE artifact
  BY DEF Report
<1>2. faults = 0 /\ err = 0 /\ tick = 1 /\ lines = 1
  BY <1>1 DEF TypeOK
<1>. QED  BY <1>1, <1>2

\* A record that was not there is there once.
LEMMA RecordedOnce ==
  ASSUME NEW x, x \notin Lines, \A y \in Lines : artifact[y] = 1,
         artifact' = artifact (+) [y \in {x} |-> 1]
  PROVE  Lines' = Lines \cup {x} /\ \A y \in Lines' : artifact'[y] = 1
BY DEF Lines, BagToSet, (+)

LEMMA BareFacts ==
  ASSUME NEW x, NEW y
  PROVE  Precedes(Bare(x), Bare(y)) <=> Precedes(x, y)
BY DEF Precedes, Bare, Deed, Line, Key

LEMMA LineFacts ==
  ASSUME NEW event, NEW id, NEW at, NEW fields
  PROVE  LET x == Line(event, id, at, fields)
             b == Deed(event, id, fields) IN
         /\ Bare(x) = b /\ x.id = id /\ x.at = at /\ x.event = event
         /\ Origin(x) = Origin(b) /\ JobsNamed(x) = JobsNamed(b)
         /\ \A y : Precedes(x, y) <=> Precedes(b, y)
BY DEF Bare, Deed, Line, Origin, JobsNamed, Precedes, Key

LEMMA FieldsMeaning ==
  ASSUME NEW x
  PROVE  Fields(x) = (IF x.job # None THEN {"job"} ELSE {})
                       \cup (IF x.worker # None THEN {"worker"} ELSE {})
                       \cup (IF x.workers # {} THEN {"workers"} ELSE {})
                       \cup (IF x.roster # {} THEN {"roster"} ELSE {})
BY DEF Fields, Blank

LEMMA SameShape ==
  ASSUME NEW event, NEW id, NEW at, NEW fields
  PROVE  WellFormed(Line(event, id, at, fields)) <=> WellFormed(Deed(event, id, fields))
<1>. DEFINE x == Line(event, id, at, fields)
            b == Deed(event, id, fields)
<1>1. x.event = b.event /\ x.job = b.job /\ x.worker = b.worker
      /\ x.workers = b.workers /\ x.roster = b.roster
  BY DEF Deed, Line
<1>. HIDE DEF x, b
<1>2. Fields(x) = Fields(b)
  BY <1>1, FieldsMeaning
<1>3. WellFormed(x) <=> WellFormed(b)
  BY <1>1, <1>2 DEF WellFormed, FitsRoster
<1>. QED  BY <1>3 DEF x, b

\* Clocks never run backwards, so stamps stay in the past.
LEMMA StampedKept ==
  ASSUME IInv, Stamped, NEW process \in Rank \cup {Scheduler}, NEW event, NEW id,
         NEW fields, Origin(Deed(event, id, fields)) = process,
         NEW x, Offered(x, process, event, id, fields)
  PROVE  Stamped'
<1>1. Origin(x) = process /\ x.at = clock'[process]
  BY LineFacts DEF Offered
<1>2. clock' \in [Rank \cup {Scheduler} -> Nat]
      /\ \A p \in Rank \cup {Scheduler} : clock'[p] >= clock[p] /\ clock[p] \in Nat
  BY DEF Offered, IInv, TypeOK
<1>3. ASSUME NEW y \in Lines'
      PROVE  Origin(y) \in Rank \cup {Scheduler} /\ y.at <= clock'[Origin(y)]
  <2>1. CASE y = x
    BY <1>1, <1>2, <2>1
  <2>2. CASE y \in Lines
    <3>1. Origin(y) \in Rank \cup {Scheduler} /\ y.at <= clock[Origin(y)] /\ y.at \in Nat
      BY <2>2 DEF Stamped, IInv, Witnessed
    <3>. QED  BY <1>2, <3>1
  <2>. QED  BY <2>1, <2>2 DEF Offered
<1>. QED  BY <1>3 DEF Stamped

\* The new record of an episode comes last.
LEMMA FaithfulAdd ==
  ASSUME NEW id, Faithful(id), NEW x, x.id = id, LinesOf(id)' = LinesOf(id) \cup {x},
         Deeds(id, episodes[id])' = Deeds(id, episodes[id]) \cup {Bare(x)},
         Bare(x) \notin Deeds(id, episodes[id]),
         \A d \in Deeds(id, episodes[id]) : ~Precedes(Bare(x), d),
         \A y \in LinesOf(id) : Precedes(y, x) => After(x, y)
  PROVE  Faithful(id)'
<1>1. {Bare(y) : y \in LinesOf(id)'} = Deeds(id, episodes[id])'
  BY DEF Faithful
<1>2. \A y \in LinesOf(id) : Bare(y) # Bare(x) /\ ~Precedes(x, y)
  BY BareFacts DEF Faithful
<1>3. ~Precedes(x, x)
  BY DEF Precedes
<1>4. ASSUME NEW y \in LinesOf(id)', NEW z \in LinesOf(id)', Bare(y) = Bare(z)
      PROVE  y = z
  BY <1>2, <1>4 DEF Faithful
<1>5. ASSUME NEW y \in LinesOf(id)', NEW z \in LinesOf(id)', Precedes(y, z)
      PROVE  After(z, y)
  BY <1>2, <1>3, <1>5 DEF Faithful
<1>. QED  BY <1>1, <1>4, <1>5 DEF Faithful

\* A new time is nobody's: the record is not there yet, and comes after what its
\* process stamped before.
LEMMA NewStamp ==
  ASSUME IInv, Stamped, NEW process \in Rank \cup {Scheduler}, NEW x,
         Origin(x) = process, x.at = clock[process] + 1
  PROVE  /\ x \notin Lines
         /\ \A y \in Lines : Origin(y) = process => After(x, y)
<1>1. clock[process] \in Nat
  BY DEF IInv, TypeOK
<1>2. ASSUME NEW y \in Lines, Origin(y) = process  PROVE x.at > y.at
  BY <1>1, <1>2 DEF Stamped, IInv, Witnessed
<1>3. x \notin Lines
  BY <1>1, <1>2
<1>. QED  BY <1>2, <1>3 DEF After

LEMMA OneClock ==
  ASSUME NEW x, NEW y, Precedes(x, y)
  PROVE  Origin(x) = Origin(y)
BY DEF Precedes, Origin, Key

\* What a reported step of an episode must be for the records to stay exact.
Fitting(id, h, g, b) ==
  /\ Orderly(g)
  /\ JobsNamed(b) \subseteq g.jobs
  /\ Small(g) =>
       /\ WellFormed(b)
       /\ b \notin Deeds(id, h)
       /\ Deeds(id, g) = Deeds(id, h) \cup {b}
       /\ \A d \in Deeds(id, h) : ~Precedes(b, d)

LEMMA HealthyProgress ==
  ASSUME Healthy, IInv', NEW id \in Begun, NEW g \in Episode, Changes(id, g),
         Grows(episodes[id], g), CoherentEpisode(g),
         UNCHANGED <<generation, incarnation>>,
         NEW process \in Rank \cup {Scheduler}, NEW err \in Nat, NEW event, NEW fields,
         Report(process, err, event, id, fields),
         Origin(Deed(event, id, fields)) = process,
         Exact /\ err = 0 => Fitting(id, episodes[id], g, Deed(event, id, fields))
  PROVE  Healthy'
<1>1. IInv /\ TypeOK /\ Stamped
  BY DEF Healthy, IInv
<1>2. Stamped'
  <2>1. PICK x : Offered(x, process, event, id, fields)
    BY <1>1, ReportEffect
  <2>. QED  BY <1>1, <2>1, StampedKept
<1>3. SUFFICES ASSUME faults' = 0  PROVE Exact'
  BY <1>2 DEF Healthy
<1>. DEFINE x == Line(event, id, clock[process] + 1, fields)
            b == Deed(event, id, fields)
<1>4. /\ faults = 0 /\ err = 0
      /\ artifact' = IF WellFormed(x) THEN artifact (+) [y \in {x} |-> 1] ELSE artifact
  BY <1>1, <1>3, ExactReport
<1>5. Exact /\ Fitting(id, episodes[id], g, b)
  BY <1>4 DEF Healthy
<1>6. /\ Bare(x) = b /\ x.id = id /\ x.at = clock[process] + 1
      /\ Origin(x) = process /\ JobsNamed(x) = JobsNamed(b)
      /\ WellFormed(x) <=> WellFormed(b)
  BY LineFacts, SameShape
<1>. HIDE DEF x, b
<1>7. x \notin Lines /\ \A y \in Lines : Origin(y) = process => After(x, y)
  BY <1>1, <1>6, NewStamp
<1>8. /\ EpisodesGrow /\ Begun' = Begun /\ episodes'[id] = g
  BY <1>1, Progress
<1>9. \A i \in Begun : i # id => episodes'[i] = episodes[i]
  BY <1>1 DEF Changes, Begun, TypeOK
<1>10. /\ Lines' = IF WellFormed(x) THEN Lines \cup {x} ELSE Lines
       /\ \A y \in Lines' : artifact'[y] = 1
  <2>1. CASE WellFormed(x)
    BY <1>4, <1>5, <1>7, <2>1, RecordedOnce DEF Exact
  <2>2. CASE ~WellFormed(x)
    BY <1>4, <1>5, <2>2 DEF Exact, Lines
  <2>. QED  BY <2>1, <2>2
<1>11. \A i \in Begun : episodes'[i].jobs = episodes[i].jobs
  BY <1>8 DEF EpisodesGrow, Grows
<1>12. \A y \in Lines' : JobsNamed(y) \subseteq episodes'[y.id].jobs
  <2>1. ASSUME NEW y \in Lines  PROVE JobsNamed(y) \subseteq episodes'[y.id].jobs
    BY <1>1, <1>5, <1>11 DEF Exact, IInv, Witnessed
  <2>2. JobsNamed(x) \subseteq episodes'[x.id].jobs
    BY <1>5, <1>6, <1>8 DEF Fitting
  <2>. QED  BY <1>10, <2>1, <2>2
<1>13. JobsApart'
  BY <1>5, <1>8, <1>11 DEF Exact, JobsApart
<1>14. ASSUME NEW i \in Begun
       PROVE  Orderly(episodes'[i]) /\ (Small(episodes'[i]) => Faithful(i)')
  <2>1. CASE i # id
    <3>1. LinesOf(i)' = LinesOf(i) /\ episodes'[i] = episodes[i]
      BY <1>6, <1>9, <1>10, <2>1 DEF LinesOf
    <3>. QED  BY <1>5, <3>1 DEF Exact, Faithful
  <2>2. CASE i = id
    <3>1. SUFFICES ASSUME Small(g)  PROVE Faithful(id)'
      BY <1>5, <1>8, <2>2 DEF Fitting
    <3>2. Faithful(id)
      BY <1>5, <1>8, <1>11, <3>1 DEF Exact, Small
    <3>3. LinesOf(id)' = LinesOf(id) \cup {x}
      BY <1>5, <1>6, <1>10, <3>1 DEF Fitting, LinesOf
    <3>4. \A y \in LinesOf(id) : Precedes(y, x) => After(x, y)
      BY <1>6, <1>7, OneClock DEF LinesOf
    <3>5. /\ Deeds(id, episodes[id])' = Deeds(id, episodes[id]) \cup {Bare(x)}
          /\ Bare(x) \notin Deeds(id, episodes[id])
          /\ \A d \in Deeds(id, episodes[id]) : ~Precedes(Bare(x), d)
      BY <1>5, <1>6, <1>8, <3>1 DEF Fitting
    <3>. QED  BY <1>6, <3>2, <3>3, <3>4, <3>5, FaithfulAdd
  <2>. QED  BY <2>1, <2>2
<1>15. \A r \in Rank : incarnation'[r] = 1
  BY <1>5 DEF Exact
<1>. QED  BY <1>8, <1>10, <1>12, <1>13, <1>14, <1>15 DEF Exact
-----------------------------------------------------------------------------
(* The shapes of the records: CorrelatedHostObservation refuses none.      *)

\* The fields of a record, by its kind.
LEMMA DeedFields ==
  /\ \A e, i, f : LET b == Deed(e, i, f) IN
       /\ b.event = e /\ b.id = i /\ b.at = 0 /\ b.job = f.job
       /\ b.worker = f.worker /\ b.workers = f.workers /\ b.roster = f.roster
  /\ \A j, w : LET f == About(j, w) IN
       f.job = j /\ f.worker = w /\ f.workers = {} /\ f.roster = {}
  /\ \A k : LET f == Confirms(k) IN
       f.job = k.job /\ f.worker = None /\ f.workers = k.workers /\ f.roster = {}
  /\ \A w, roster : LET f == Computes(w, roster) IN
       f.job = None /\ f.worker = w /\ f.workers = {} /\ f.roster = roster
  /\ \A roster : LET f == Admits(roster) IN
       f.job = None /\ f.worker = None /\ f.workers = {} /\ f.roster = roster
  /\ Blank.job = None /\ Blank.worker = None /\ Blank.workers = {} /\ Blank.roster = {}
BY DEF Deed, Line, About, Confirms, Computes, Admits, Blank

\* The roster of a small episode, and each of its receipts, is within the limit.
LEMMA SmallFacts ==
  ASSUME NEW h, h.jobs \subseteq Job, Small(h)
  PROVE  /\ Rank # {} /\ First # {} /\ h.jobs # {}
         /\ Cardinality(First) <= MaxRoster
         /\ Cardinality(h.jobs \X First) <= MaxRoster
<1>1. IsFiniteSet(Rank) /\ IsFiniteSet(h.jobs) /\ MaxRoster \in Nat
  BY ChainAssumption, FS_Subset
<1>2. IsFiniteSet({1}) /\ Cardinality({1}) = 1
  BY FS_Singleton
<1>3. IsFiniteSet(First) /\ Cardinality(First) = Cardinality(Rank) * 1
  BY <1>1, <1>2, FS_Product DEF First
<1>4. Cardinality(h.jobs \X First) = Cardinality(h.jobs) * Cardinality(First)
  BY <1>1, <1>3, FS_Product
<1>5. Cardinality(Rank) \in Nat /\ Cardinality(h.jobs) \in Nat
  BY <1>1, FS_CardinalityType
<1>6. Cardinality(First) = Cardinality(Rank)
  BY <1>3, <1>5
<1>7. Cardinality(h.jobs) * Cardinality(Rank) \in 1 .. MaxRoster
  BY DEF Small
<1>8. Cardinality(h.jobs) # 0 /\ Cardinality(Rank) # 0
  <2>1. \A n \in Nat : 0 * n = 0 /\ n * 0 = 0
    OBVIOUS
  <2>. QED  BY <1>5, <1>7, <2>1
<1>9. Cardinality(Rank) <= MaxRoster
  <2>1. \A m, n \in Nat : m # 0 => n <= m * n
    OBVIOUS
  <2>. QED  BY <1>1, <1>5, <1>7, <1>8, <2>1
<1>10. Rank # {} /\ h.jobs # {}
  BY <1>8, FS_EmptySet
<1>11. First # {}
  <2>1. PICK r \in Rank : TRUE
    BY <1>10
  <2>2. <<r, 1>> \in First
    BY DEF First
  <2>. QED  BY <2>2
<1>. QED  BY <1>4, <1>6, <1>7, <1>9, <1>10, <1>11

\* The required fields are there and the rosters exact and within the limit.
LEMMA Shaped ==
  ASSUME NEW x, Fields(x) = Required[x.event], ExactWorkers(x.workers),
         \A j \in x.roster : j.workers # {} /\ ExactWorkers(j.workers),
         ExactJobs(x.roster),
         Cardinality(x.workers) <= MaxRoster, Cardinality(Pairs(x.roster)) <= MaxRoster
  PROVE  WellFormed(x)
BY DEF WellFormed, FitsRoster

LEMMA NothingFits ==
  /\ ExactWorkers({}) /\ ExactJobs({}) /\ Pairs({}) = {}
  /\ Cardinality({}) <= MaxRoster
BY FS_EmptySet, ChainAssumption DEF ExactWorkers, ExactJobs, Pairs

LEMMA FirstExact == ExactWorkers(First)
BY DEF ExactWorkers, First

LEMMA RequeueShaped ==
  ASSUME NEW id
  PROVE  WellFormed(Deed("recovery_requeued", id, Blank))
<1>. DEFINE b == Deed("recovery_requeued", id, Blank)
<1>1. b.event = "recovery_requeued" /\ b.job = None /\ b.worker = None
      /\ b.workers = {} /\ b.roster = {}
  BY DeedFields
<1>. HIDE DEF b
<1>2. Fields(b) = Required[b.event]
  BY <1>1, FieldsMeaning DEF Required
<1>3. WellFormed(b)
  BY <1>1, <1>2, NothingFits, Shaped
<1>. QED  BY <1>3 DEF b

LEMMA RestoreShaped ==
  ASSUME NEW id, NEW event \in {"restore_submitted", "restore_completed"},
         NEW j \in Job, NEW w \in Incarnation
  PROVE  WellFormed(Deed(event, id, About(j, w)))
<1>. DEFINE b == Deed(event, id, About(j, w))
<1>1. b.event = event /\ b.job = j /\ b.worker = w /\ b.workers = {} /\ b.roster = {}
  BY DeedFields
<1>2. j # None /\ w # None
  BY ChainAssumption DEF Incarnation
<1>. HIDE DEF b
<1>3. Fields(b) = Required[b.event]
  BY <1>1, <1>2, FieldsMeaning DEF Required
<1>4. WellFormed(b)
  BY <1>1, <1>3, NothingFits, Shaped
<1>. QED  BY <1>4 DEF b

LEMMA ReceiptShaped ==
  ASSUME NEW id, NEW h, h.jobs \subseteq Job, Small(h),
         NEW k, k.job \in Job, k.workers = First
  PROVE  WellFormed(Deed("transfer_receipt", id, Confirms(k)))
<1>. DEFINE b == Deed("transfer_receipt", id, Confirms(k))
<1>1. b.event = "transfer_receipt" /\ b.job = k.job /\ b.worker = None
      /\ b.workers = First /\ b.roster = {}
  BY DeedFields
<1>2. k.job # None /\ First # {} /\ Cardinality(First) <= MaxRoster
  BY ChainAssumption, SmallFacts
<1>. HIDE DEF b
<1>3. Fields(b) = Required[b.event]
  BY <1>1, <1>2, FieldsMeaning DEF Required
<1>4. WellFormed(b)
  BY <1>1, <1>2, <1>3, NothingFits, FirstExact, Shaped
<1>. QED  BY <1>4 DEF b

\* A complete roster of first incarnations.
FullRoster(h, roster) ==
  /\ {k.job : k \in roster} = h.jobs
  /\ \A k \in roster : k.workers = First
  /\ ExactJobs(roster)

LEMMA FullRosterFacts ==
  ASSUME NEW h, h.jobs \subseteq Job, Small(h), NEW roster, FullRoster(h, roster)
  PROVE  /\ roster # {} /\ Pairs(roster) = h.jobs \X First
         /\ \A k \in roster : k.workers # {} /\ ExactWorkers(k.workers)
         /\ ExactJobs(roster)
         /\ Cardinality(Pairs(roster)) <= MaxRoster
<1>1. Pairs(roster) = h.jobs \X First
  <2>1. ASSUME NEW p \in Pairs(roster)  PROVE p \in h.jobs \X First
    BY DEF Pairs, FullRoster
  <2>2. ASSUME NEW j \in h.jobs, NEW w \in First  PROVE <<j, w>> \in Pairs(roster)
    <3>1. PICK k \in roster : k.job = j
      BY DEF FullRoster
    <3>. QED  BY <3>1 DEF Pairs, FullRoster
  <2>. QED  BY <2>1, <2>2
<1>. QED  BY <1>1, SmallFacts, FirstExact DEF FullRoster

LEMMA AdmitShaped ==
  ASSUME NEW id, NEW h, h.jobs \subseteq Job, Small(h), NEW roster, FullRoster(h, roster)
  PROVE  WellFormed(Deed("recovery_admitted", id, Admits(roster)))
<1>. DEFINE b == Deed("recovery_admitted", id, Admits(roster))
<1>1. b.event = "recovery_admitted" /\ b.job = None /\ b.worker = None
      /\ b.workers = {} /\ b.roster = roster
  BY DeedFields
<1>. HIDE DEF b
<1>2. Fields(b) = Required[b.event]
  BY <1>1, FieldsMeaning, FullRosterFacts DEF Required
<1>3. WellFormed(b)
  BY <1>1, <1>2, NothingFits, FullRosterFacts, Shaped
<1>. QED  BY <1>3 DEF b

LEMMA ComputeShaped ==
  ASSUME NEW id, NEW h, h.jobs \subseteq Job, Small(h), NEW roster, FullRoster(h, roster),
         NEW w \in Incarnation
  PROVE  WellFormed(Deed("first_compute", id, Computes(w, roster)))
<1>. DEFINE b == Deed("first_compute", id, Computes(w, roster))
<1>1. b.event = "first_compute" /\ b.job = None /\ b.worker = w
      /\ b.workers = {} /\ b.roster = roster
  BY DeedFields
<1>2. w # None
  BY ChainAssumption DEF Incarnation
<1>. HIDE DEF b
<1>3. Fields(b) = Required[b.event]
  BY <1>1, <1>2, FieldsMeaning, FullRosterFacts DEF Required
<1>4. WellFormed(b)
  BY <1>1, <1>3, NothingFits, FullRosterFacts, Shaped
<1>. QED  BY <1>4 DEF b
-----------------------------------------------------------------------------
(* The steps of a host that makes no mistake.                              *)

LEMMA ExactWorker ==
  ASSUME Exact, NEW r \in Rank
  PROVE  Worker(r) = <<r, 1>> /\ Worker(r) \in First
BY DEF Exact, Worker, First

LEMMA FirstWorkers == First \subseteq Incarnation
BY DEF First, Incarnation

\* What is recorded of an admitted episode, and of one that is not.
LEMMA AdmittedMeans ==
  ASSUME NEW h \in Episode, CoherentEpisode(h), Orderly(h)
  PROVE  /\ h.admitted => /\ FullRoster(h, h.roster)
                          /\ h.completed = h.submitted /\ h.submitted = h.jobs \X First
         /\ ~h.admitted => h.computed = {}
<1>1. ASSUME h.admitted  PROVE FullRoster(h, h.roster)
  BY <1>1 DEF CoherentEpisode, Orderly, FullRoster, ExactJobs
<1>2. ASSUME h.admitted  PROVE h.jobs \X First \subseteq h.completed
  <2>1. ASSUME NEW j \in h.jobs, NEW w \in First  PROVE <<j, w>> \in h.completed
    <3>1. PICK k \in h.receipts : k.job = j
      BY <1>2 DEF CoherentEpisode, Orderly
    <3>. QED  BY <3>1 DEF Orderly
  <2>. QED  BY <2>1
<1>. QED  BY <1>1, <1>2 DEF Orderly, CoherentEpisode

\* What stands behind a record of each event.
Behind(id, h, d) ==
  /\ d.id = id /\ d.event \in DOMAIN Required
  /\ d.event = "restore_submitted" =>
       \E p \in h.submitted : d.job = p[1] /\ d.worker = p[2]
  /\ d.event = "restore_completed" =>
       \E p \in h.completed : d.job = p[1] /\ d.worker = p[2]
  /\ d.event = "transfer_receipt" =>
       \E k \in h.receipts : d.job = k.job /\ d.workers = k.workers /\ d.worker = None
  /\ d.event = "recovery_admitted" =>
       h.admitted /\ d.roster = h.roster /\ d.job = None /\ d.worker = None
  /\ d.event = "first_compute" =>
       \E c \in h.computed : d.worker = c.worker /\ d.roster = h.roster /\ d.job = None

LEMMA DeedBehind ==
  ASSUME NEW id, NEW h, NEW d \in Deeds(id, h)
  PROVE  Behind(id, h, d)
<1>. USE DEF Behind, Required
<1>1. CASE d = Deed("recovery_requeued", id, Blank)
  BY <1>1, DeedFields
<1>2. ASSUME NEW p \in h.submitted, d = Deed("restore_submitted", id, About(p[1], p[2]))
      PROVE  Behind(id, h, d)
  BY <1>2, DeedFields
<1>3. ASSUME NEW p \in h.completed, d = Deed("restore_completed", id, About(p[1], p[2]))
      PROVE  Behind(id, h, d)
  BY <1>3, DeedFields
<1>4. ASSUME NEW k \in h.receipts, d = Deed("transfer_receipt", id, Confirms(k))
      PROVE  Behind(id, h, d)
  BY <1>4, DeedFields
<1>5. ASSUME h.admitted, d = Deed("recovery_admitted", id, Admits(h.roster))
      PROVE  Behind(id, h, d)
  BY <1>5, DeedFields
<1>6. ASSUME NEW c \in h.computed,
             d = Deed("first_compute", id, Computes(c.worker, h.roster))
      PROVE  Behind(id, h, d)
  BY <1>6, DeedFields
<1>. HIDE DEF Behind
<1>. QED  BY <1>1, <1>2, <1>3, <1>4, <1>5, <1>6, Zenon DEF Deeds

LEMMA SubmitFits ==
  ASSUME NEW id, NEW h \in Episode, CoherentEpisode(h), Orderly(h),
         ~h.admitted, NEW j \in h.jobs, NEW w \in First, <<j, w>> \notin h.submitted,
         NEW g, g = [h EXCEPT !.submitted = @ \cup {<<j, w>>}]
  PROVE  Fitting(id, h, g, Deed("restore_submitted", id, About(j, w)))
<1>. DEFINE b == Deed("restore_submitted", id, About(j, w))
<1>1. /\ g.submitted = h.submitted \cup {<<j, w>>} /\ g.completed = h.completed
      /\ g.receipts = h.receipts /\ g.admitted = h.admitted /\ g.roster = h.roster
      /\ g.computed = h.computed /\ g.jobs = h.jobs
  BY DEF Episode
<1>2. Orderly(g)
  BY <1>1 DEF Orderly
<1>3. b.event = "restore_submitted" /\ b.job = j /\ b.worker = w /\ b.roster = {}
  BY DeedFields
<1>4. WellFormed(b)
  <2>1. j \in Job /\ w \in Incarnation
    BY FirstWorkers DEF Episode
  <2>. QED  BY <2>1, RestoreShaped
<1>5. JobsNamed(b) \subseteq g.jobs
  BY <1>1, <1>3 DEF JobsNamed
<1>6. Deeds(id, g) = Deeds(id, h) \cup {b}
  BY <1>1 DEF Deeds
<1>. HIDE DEF b
<1>7. ASSUME NEW d \in Deeds(id, h)  PROVE d # b /\ ~Precedes(b, d)
  <2>1. ASSUME d.event = "restore_submitted"  PROVE <<d.job, d.worker>> \in h.submitted
    BY <2>1, DeedBehind DEF Behind, Episode
  <2>2. ASSUME d.event = "restore_completed"  PROVE <<d.job, d.worker>> \in h.completed
    BY <2>2, DeedBehind DEF Behind, Episode
  <2>. QED  BY <1>3, <2>1, <2>2 DEF Precedes, Key, Orderly
<1>. QED  BY <1>2, <1>4, <1>5, <1>6, <1>7 DEF Fitting, b

LEMMA CompleteFits ==
  ASSUME NEW id, NEW h \in Episode, CoherentEpisode(h), Orderly(h),
         NEW j, NEW w, <<j, w>> \in h.submitted \ h.completed,
         NEW g, g = [h EXCEPT !.completed = @ \cup {<<j, w>>}]
  PROVE  Fitting(id, h, g, Deed("restore_completed", id, About(j, w)))
<1>. DEFINE b == Deed("restore_completed", id, About(j, w))
<1>1. /\ g.completed = h.completed \cup {<<j, w>>} /\ g.submitted = h.submitted
      /\ g.receipts = h.receipts /\ g.admitted = h.admitted /\ g.roster = h.roster
      /\ g.computed = h.computed /\ g.jobs = h.jobs
  BY DEF Episode
<1>2. Orderly(g) /\ j \in h.jobs /\ w \in First
  BY <1>1 DEF Orderly
<1>3. b.event = "restore_completed" /\ b.job = j /\ b.worker = w /\ b.roster = {}
  BY DeedFields
<1>4. WellFormed(b)
  <2>1. j \in Job /\ w \in Incarnation
    BY <1>2, FirstWorkers DEF Episode
  <2>. QED  BY <2>1, RestoreShaped
<1>5. JobsNamed(b) \subseteq g.jobs
  BY <1>1, <1>2, <1>3 DEF JobsNamed
<1>6. Deeds(id, g) = Deeds(id, h) \cup {b}
  BY <1>1 DEF Deeds
<1>7. h.computed = {}
  BY AdmittedMeans
<1>. HIDE DEF b
<1>8. ASSUME NEW d \in Deeds(id, h)  PROVE d # b /\ ~Precedes(b, d)
  <2>1. ASSUME d.event = "restore_completed"  PROVE <<d.job, d.worker>> \in h.completed
    BY <2>1, DeedBehind DEF Behind, Episode
  <2>2. d.event # "first_compute"
    BY <1>7, DeedBehind DEF Behind
  <2>. QED  BY <1>3, <2>1, <2>2 DEF Precedes
<1>. QED  BY <1>2, <1>4, <1>5, <1>6, <1>8 DEF Fitting, b

LEMMA ReceiptFits ==
  ASSUME NEW id, NEW h \in Episode, CoherentEpisode(h), Orderly(h),
         ~h.admitted, NEW k, k.job \in h.jobs, k.workers = First,
         {k.job} \X First \subseteq h.completed, \A l \in h.receipts : l.job # k.job,
         NEW g, g = [h EXCEPT !.receipts = @ \cup {k}]
  PROVE  Fitting(id, h, g, Deed("transfer_receipt", id, Confirms(k)))
<1>. DEFINE b == Deed("transfer_receipt", id, Confirms(k))
<1>1. /\ g.receipts = h.receipts \cup {k} /\ g.submitted = h.submitted
      /\ g.completed = h.completed /\ g.admitted = h.admitted /\ g.roster = h.roster
      /\ g.computed = h.computed /\ g.jobs = h.jobs
  BY DEF Episode
<1>2. Orderly(g)
  BY <1>1 DEF Orderly
<1>3. b.event = "transfer_receipt" /\ b.job = k.job /\ b.workers = k.workers
      /\ b.roster = {}
  BY DeedFields
<1>4. ASSUME Small(g)  PROVE WellFormed(b)
  <2>1. h.jobs \subseteq Job /\ Small(h)
    BY <1>1, <1>4 DEF Episode, Small
  <2>. QED  BY <2>1, ReceiptShaped
<1>5. JobsNamed(b) \subseteq g.jobs
  BY <1>1, <1>3 DEF JobsNamed
<1>6. Deeds(id, g) = Deeds(id, h) \cup {b}
  BY <1>1 DEF Deeds
<1>. HIDE DEF b
<1>7. ASSUME NEW d \in Deeds(id, h)  PROVE d # b /\ ~Precedes(b, d)
  <2>1. ASSUME d.event = "transfer_receipt"  PROVE \E l \in h.receipts : l.job = d.job
    BY <2>1, DeedBehind DEF Behind
  <2>2. d.event # "recovery_admitted"
    BY DeedBehind DEF Behind
  <2>. QED  BY <1>3, <2>1, <2>2 DEF Precedes
<1>. QED  BY <1>2, <1>4, <1>5, <1>6, <1>7 DEF Fitting, b

LEMMA AdmitFits ==
  ASSUME NEW id, NEW h \in Episode, CoherentEpisode(h), Orderly(h),
         ~h.admitted, {k.job : k \in h.receipts} = h.jobs,
         NEW g, g = [h EXCEPT !.admitted = TRUE, !.roster = h.receipts]
  PROVE  Fitting(id, h, g, Deed("recovery_admitted", id, Admits(h.receipts)))
<1>. DEFINE b == Deed("recovery_admitted", id, Admits(h.receipts))
<1>1. /\ g.receipts = h.receipts /\ g.submitted = h.submitted
      /\ g.completed = h.completed /\ g.admitted /\ g.roster = h.receipts
      /\ g.computed = h.computed /\ g.jobs = h.jobs
  BY DEF Episode
<1>2. Orderly(g) /\ h.computed = {}
  BY <1>1, AdmittedMeans DEF Orderly
<1>3. b.event = "recovery_admitted" /\ b.job = None /\ b.roster = h.receipts
  BY DeedFields
<1>4. ASSUME Small(g)  PROVE WellFormed(b)
  <2>1. h.jobs \subseteq Job /\ Small(h) /\ FullRoster(h, h.receipts)
    BY <1>1, <1>4 DEF Episode, Small, FullRoster, ExactJobs, Orderly
  <2>. QED  BY <2>1, AdmitShaped
<1>5. JobsNamed(b) \subseteq g.jobs
  BY <1>1, <1>3 DEF JobsNamed
<1>6. Deeds(id, g) = Deeds(id, h) \cup {b}
  BY <1>1, <1>2 DEF Deeds
<1>. HIDE DEF b
<1>7. ASSUME NEW d \in Deeds(id, h)  PROVE d # b /\ ~Precedes(b, d)
  <2>1. d.event # "recovery_admitted"
    BY DeedBehind DEF Behind
  <2>. QED  BY <1>3, <2>1 DEF Precedes
<1>. QED  BY <1>2, <1>4, <1>5, <1>6, <1>7 DEF Fitting, b

LEMMA ComputeFits ==
  ASSUME NEW id, NEW h \in Episode, CoherentEpisode(h), Orderly(h),
         h.admitted, NEW w \in First, \A c \in h.computed : c.worker # w,
         NEW new, new.worker = w,
         NEW g, g = [h EXCEPT !.computed = @ \cup {new}]
  PROVE  Fitting(id, h, g, Deed("first_compute", id, Computes(w, h.roster)))
<1>. DEFINE b == Deed("first_compute", id, Computes(w, h.roster))
<1>1. /\ g.receipts = h.receipts /\ g.submitted = h.submitted
      /\ g.completed = h.completed /\ g.admitted = h.admitted /\ g.roster = h.roster
      /\ g.computed = h.computed \cup {new} /\ g.jobs = h.jobs
  BY DEF Episode
<1>2. Orderly(g) /\ FullRoster(h, h.roster)
  BY <1>1, AdmittedMeans DEF Orderly
<1>3. b.event = "first_compute" /\ b.job = None /\ b.worker = w /\ b.roster = h.roster
  BY DeedFields
<1>4. ASSUME Small(g)  PROVE WellFormed(b)
  <2>1. h.jobs \subseteq Job /\ Small(h) /\ w \in Incarnation
    BY <1>1, <1>4, FirstWorkers DEF Episode, Small
  <2>. QED  BY <1>2, <2>1, ComputeShaped
<1>5. JobsNamed(b) \subseteq g.jobs
  BY <1>1, <1>2, <1>3 DEF JobsNamed, FullRoster
<1>6. Deeds(id, g) = Deeds(id, h) \cup {b}
  BY <1>1 DEF Deeds
<1>. HIDE DEF b
<1>7. ASSUME NEW d \in Deeds(id, h)  PROVE d # b /\ ~Precedes(b, d)
  <2>1. ASSUME d.event = "first_compute"  PROVE \E c \in h.computed : d.worker = c.worker
    BY <2>1, DeedBehind DEF Behind
  <2>. QED  BY <1>3, <2>1 DEF Precedes
<1>. QED  BY <1>2, <1>4, <1>5, <1>6, <1>7 DEF Fitting, b

LEMMA RestoreOrigin ==
  ASSUME NEW event \in {"restore_submitted", "restore_completed"}, NEW id, NEW j,
         NEW r, NEW n
  PROVE  Origin(Deed(event, id, About(j, <<r, n>>))) = r
BY DeedFields DEF Origin

LEMMA SubmitHealthy ==
  ASSUME Healthy, IInv', NEW id \in Begun, NEW j \in Job, NEW r \in Rank, Submit(id, j, r)
  PROVE  Healthy'
<1>. DEFINE h == episodes[id]
            g == [h EXCEPT !.submitted = @ \cup {<<j, Worker(r)>>}]
<1>1. IInv /\ h \in Episode /\ CoherentEpisode(h) /\ Worker(r) \in Incarnation
  BY EpisodeFacts, WorkerFacts DEF Healthy
<1>2. g \in Episode /\ Grows(h, g) /\ CoherentEpisode(g)
  BY <1>1 DEF Episode, Grows, CoherentEpisode
<1>3. /\ j \in h.jobs /\ ~h.admitted /\ <<j, Worker(r)>> \notin h.submitted
      /\ Changes(id, g) /\ UNCHANGED <<generation, incarnation>>
      /\ Report(r, 0, "restore_submitted", id, About(j, Worker(r)))
  BY DEF Submit, About
<1>4. Origin(Deed("restore_submitted", id, About(j, Worker(r)))) = r
  BY RestoreOrigin DEF Worker
<1>5. ASSUME Exact
      PROVE  Fitting(id, h, g, Deed("restore_submitted", id, About(j, Worker(r))))
  <2>1. Orderly(h) /\ Worker(r) \in First
    BY <1>5, ExactWorker DEF Exact
  <2>. QED  BY <1>1, <1>3, <2>1, SubmitFits
<1>. HIDE DEF g
<1>. QED  BY <1>2, <1>3, <1>4, <1>5, HealthyProgress

LEMMA CompleteHealthy ==
  ASSUME Healthy, IInv', NEW id \in Begun, NEW j \in Job, NEW r \in Rank, Complete(id, j, r)
  PROVE  Healthy'
<1>. DEFINE h == episodes[id]
            g == [h EXCEPT !.completed = @ \cup {<<j, Worker(r)>>}]
<1>1. IInv /\ h \in Episode /\ CoherentEpisode(h) /\ Worker(r) \in Incarnation
  BY EpisodeFacts, WorkerFacts DEF Healthy
<1>2. g \in Episode /\ Grows(h, g) /\ CoherentEpisode(g)
  BY <1>1 DEF Episode, Grows, CoherentEpisode
<1>3. /\ <<j, Worker(r)>> \in h.submitted \ h.completed
      /\ Changes(id, g) /\ UNCHANGED <<generation, incarnation>>
      /\ Report(r, 0, "restore_completed", id, About(j, Worker(r)))
  BY DEF Complete, About
<1>4. Origin(Deed("restore_completed", id, About(j, Worker(r)))) = r
  BY RestoreOrigin DEF Worker
<1>5. ASSUME Exact
      PROVE  Fitting(id, h, g, Deed("restore_completed", id, About(j, Worker(r))))
  <2>1. Orderly(h)
    BY <1>5 DEF Exact
  <2>. QED  BY <1>1, <1>3, <2>1, CompleteFits
<1>. HIDE DEF g
<1>. QED  BY <1>2, <1>3, <1>4, <1>5, HealthyProgress

LEMMA ReceiptHealthy ==
  ASSUME Healthy, IInv', NEW id \in Begun, NEW j \in Job, Receipt(id, j)
  PROVE  Healthy'
<1>. DEFINE h == episodes[id]
            done == {w \in Rank \X (1 .. 2) : <<j, w>> \in h.completed}
            With(k) == [h EXCEPT !.receipts = @ \cup {k}]
<1>1. IInv /\ h \in Episode /\ CoherentEpisode(h)
  BY EpisodeFacts DEF Healthy
<1>2. /\ j \in h.jobs /\ ~h.admitted /\ \A k \in h.receipts : k.job # j
      /\ UNCHANGED <<generation, incarnation>>
  BY DEF Receipt
<1>3. PICK workers \in SUBSET Incarnation, err \in {0, 1} :
        /\ {w[1] : w \in workers} = Rank
        /\ err = 0 => workers \subseteq done
        /\ Changes(id, With([job |-> j, workers |-> workers]))
        /\ Report(Scheduler, err, "transfer_receipt", id,
                  Confirms([job |-> j, workers |-> workers]))
  <2>1. CASE \E workers \in SUBSET done :
               /\ {w[1] : w \in workers} = Rank
               /\ Changes(id, With([job |-> j, workers |-> workers]))
               /\ Report(Scheduler, 0, "transfer_receipt", id,
                         Confirms([job |-> j, workers |-> workers]))
    <3>1. done \subseteq Incarnation
      BY DEF Incarnation
    <3>. QED  BY <2>1, <3>1
  <2>2. CASE LET workers == {Worker(r) : r \in Rank} IN
               /\ Changes(id, With([job |-> j, workers |-> workers]))
               /\ Report(Scheduler, 1, "transfer_receipt", id,
                         Confirms([job |-> j, workers |-> workers]))
    <3>. DEFINE workers == {Worker(r) : r \in Rank}
    <3>1. workers \in SUBSET Incarnation /\ {w[1] : w \in workers} = Rank
      BY <1>1, WorkerFacts
    <3>2. /\ Changes(id, With([job |-> j, workers |-> workers]))
          /\ Report(Scheduler, 1, "transfer_receipt", id,
                    Confirms([job |-> j, workers |-> workers]))
      BY <2>2
    <3>. HIDE DEF With, done, workers, h
    <3>3. (1 = 0 => workers \subseteq done) /\ 1 \in {0, 1}
      OBVIOUS
    <3>. QED  BY <3>1, <3>2, <3>3, Zenon
  <2>. QED  BY <2>1, <2>2 DEF Receipt, Confirms
<1>. DEFINE k == [job |-> j, workers |-> workers]
<1>4. With(k) \in Episode /\ Grows(h, With(k)) /\ CoherentEpisode(With(k))
  BY <1>1, <1>2, <1>3 DEF Episode, Grows, CoherentEpisode, Confirmation
<1>5. Origin(Deed("transfer_receipt", id, Confirms(k))) = Scheduler
  BY DeedFields DEF Origin
<1>6. ASSUME Exact, err = 0
      PROVE  Fitting(id, h, With(k), Deed("transfer_receipt", id, Confirms(k)))
  <2>1. Orderly(h)
    BY <1>6 DEF Exact
  <2>2. \A w \in workers : <<j, w>> \in h.completed /\ w \in First
    BY <1>3, <1>6, <2>1 DEF Orderly
  <2>3. First \subseteq workers
    <3>1. ASSUME NEW r \in Rank  PROVE <<r, 1>> \in workers
      <4>1. PICK w \in workers : w[1] = r
        BY <1>3
      <4>2. w \in First
        BY <2>2
      <4>3. w = <<r, 1>>
        BY <4>1, <4>2 DEF First
      <4>. QED  BY <4>3
    <3>. QED  BY <3>1 DEF First
  <2>4. k.workers = First /\ k.job = j /\ {k.job} \X First \subseteq h.completed
    <3>1. k.workers = First /\ k.job = j
      BY <2>2, <2>3
    <3>2. \A w \in First : <<j, w>> \in h.completed
      BY <2>2, <2>3
    <3>. HIDE DEF k, h
    <3>. QED  BY <3>1, <3>2
  <2>. HIDE DEF k
  <2>. QED  BY <1>1, <1>2, <2>1, <2>4, ReceiptFits
<1>. HIDE DEF With, k, h
<1>7. Scheduler \in Rank \cup {Scheduler} /\ err \in Nat
  OBVIOUS
<1>. QED  BY <1>2, <1>3, <1>4, <1>5, <1>6, <1>7, HealthyProgress DEF h, k

LEMMA AdmitHealthy ==
  ASSUME Healthy, IInv', NEW id \in Begun, Admit(id)
  PROVE  Healthy'
<1>. DEFINE h == episodes[id]
            g == [h EXCEPT !.admitted = TRUE, !.roster = h.receipts]
            fields == Admits(h.receipts)
<1>1. IInv /\ h \in Episode /\ CoherentEpisode(h)
  BY EpisodeFacts DEF Healthy
<1>2. /\ ~h.admitted /\ {k.job : k \in h.receipts} = h.jobs
      /\ Changes(id, g) /\ UNCHANGED <<generation, incarnation>>
      /\ Report(Scheduler, 0, "recovery_admitted", id, fields)
  BY DEF Admit, Admits
<1>3. g \in Episode /\ Grows(h, g) /\ CoherentEpisode(g)
  BY <1>1, <1>2 DEF Episode, Grows, CoherentEpisode
<1>4. Origin(Deed("recovery_admitted", id, fields)) = Scheduler
  BY DeedFields DEF Origin
<1>5. ASSUME Exact
      PROVE  Fitting(id, h, g, Deed("recovery_admitted", id, fields))
  <2>1. Orderly(h)
    BY <1>5 DEF Exact
  <2>. QED  BY <1>1, <1>2, <2>1, AdmitFits
<1>. HIDE DEF g, fields
<1>. QED  BY <1>2, <1>3, <1>4, <1>5, HealthyProgress

LEMMA ComputeHealthy ==
  ASSUME Healthy, IInv', NEW id \in Begun, NEW r \in Rank, Compute(id, r)
  PROVE  Healthy'
<1>. DEFINE h == episodes[id]
            With(c) == [h EXCEPT !.computed = @ \cup {c}]
<1>1. IInv /\ h \in Episode /\ CoherentEpisode(h) /\ Worker(r) \in Incarnation
      /\ Worker(r)[1] = r
  BY EpisodeFacts, WorkerFacts DEF Healthy
<1>2. h.admitted /\ (\A c \in h.computed : c.worker[1] # r)
      /\ UNCHANGED <<generation, incarnation>>
  BY DEF Compute
<1>3. PICK roster \in SUBSET h.roster, backed \in BOOLEAN :
        /\ Changes(id, With([worker |-> Worker(r), backed |-> backed]))
        /\ Report(r, IF roster = h.roster THEN 0 ELSE 1, "first_compute", id,
                  Computes(Worker(r), roster))
  BY Zenon DEF Compute, Computes
<1>. DEFINE c == [worker |-> Worker(r), backed |-> backed]
            err == IF roster = h.roster THEN 0 ELSE 1
            fields == Computes(Worker(r), roster)
<1>4. c \in [worker : Incarnation, backed : BOOLEAN] /\ c.worker = Worker(r)
  BY <1>1
<1>. HIDE DEF c
<1>5. With(c) \in Episode /\ Grows(h, With(c)) /\ CoherentEpisode(With(c))
  BY <1>1, <1>2, <1>4 DEF Episode, Grows, CoherentEpisode
<1>6. Origin(Deed("first_compute", id, fields)) = r
  BY <1>1, DeedFields DEF Origin
<1>7. ASSUME Exact, err = 0
      PROVE  Fitting(id, h, With(c), Deed("first_compute", id, fields))
  <2>1. Orderly(h) /\ Worker(r) \in First /\ roster = h.roster
    BY <1>7, ExactWorker DEF Exact
  <2>2. \A d \in h.computed : d.worker # Worker(r)
    BY <1>1, <1>2
  <2>. QED  BY <1>1, <1>2, <1>4, <2>1, <2>2, ComputeFits
<1>8. Changes(id, With(c)) /\ Report(r, err, "first_compute", id, fields) /\ err \in Nat
  BY <1>3 DEF c
<1>. HIDE DEF With, h, err, fields
<1>. QED  BY <1>2, <1>5, <1>6, <1>7, <1>8, HealthyProgress DEF h

\* The next number of a generation is free.
LEMMA FreshId ==
  ASSUME IInv
  PROVE  <<generation, Cardinality({i \in Begun : i[1] = generation}) + 1>> \notin Begun
<1>. DEFINE earlier == {i \in Begun : i[1] = generation}
<1>1. PICK count \in [1 .. 2 -> Nat] :
        Begun = {i \in (1 .. 2) \X Nat : i[2] \in 1 .. count[i[1]]}
  BY DEF IInv, Numbered
<1>2. generation \in 1 .. 2
  BY DEF IInv, TypeOK
<1>3. earlier = {generation} \X (1 .. count[generation])
  BY <1>1, <1>2
<1>4. Cardinality({generation} \X (1 .. count[generation])) = count[generation]
  BY <1>1, <1>2, EpisodeCount
<1>. HIDE DEF earlier
<1>5. Cardinality(earlier) = count[generation]
  BY <1>3, <1>4
<1>6. <<generation, Cardinality(earlier) + 1>> \notin Begun
  BY <1>1, <1>2, <1>5
<1>. QED  BY <1>6 DEF earlier

LEMMA RequeueHealthy ==
  ASSUME Healthy, IInv', Requeue
  PROVE  Healthy'
<1>. DEFINE earlier == {i \in Begun : i[1] = generation}
            used == UNION {episodes[i].jobs : i \in earlier}
<1>0. PICK id : id = <<generation, Cardinality(earlier) + 1>>
  OBVIOUS
<1>1. PICK jobs \in SUBSET Job :
        /\ episodes' = [i \in Begun \cup {id} |->
                          IF i = id THEN NewEpisode(jobs) ELSE episodes[i]]
        /\ Report(Scheduler, IF jobs \cap used = {} THEN 0 ELSE 1,
                  "recovery_requeued", id, Blank)
  BY <1>0 DEF Requeue
<1>2. UNCHANGED <<generation, incarnation>>
  BY DEF Requeue
<1>3. IInv /\ TypeOK /\ Stamped
  BY DEF Healthy, IInv
<1>4. id \notin Begun /\ id[1] = generation
  BY <1>0, <1>3, FreshId
<1>5. \A i \in Begun : i[1] = generation => episodes[i].jobs \subseteq used
  OBVIOUS
<1>. DEFINE err == IF jobs \cap used = {} THEN 0 ELSE 1
<1>6. err \in Nat /\ Report(Scheduler, err, "recovery_requeued", id, Blank)
      /\ (err = 0 => jobs \cap used = {})
  BY <1>1
<1>. HIDE DEF earlier, used, err
<1>7. /\ Begun' = Begun \cup {id} /\ episodes'[id] = NewEpisode(jobs)
      /\ \A i \in Begun : episodes'[i] = episodes[i]
  BY <1>1, <1>4 DEF Begun
<1>8. Stamped'
  <2>1. PICK x : Offered(x, Scheduler, "recovery_requeued", id, Blank)
    BY <1>3, <1>6, ReportEffect
  <2>2. Origin(Deed("recovery_requeued", id, Blank)) = Scheduler
    BY DeedFields DEF Origin
  <2>. QED  BY <1>3, <2>1, <2>2, StampedKept
<1>9. SUFFICES ASSUME faults' = 0  PROVE Exact'
  BY <1>8 DEF Healthy
<1>. DEFINE x == Line("recovery_requeued", id, clock[Scheduler] + 1, Blank)
            b == Deed("recovery_requeued", id, Blank)
<1>10. /\ faults = 0 /\ err = 0
       /\ artifact' = IF WellFormed(x) THEN artifact (+) [y \in {x} |-> 1] ELSE artifact
  BY <1>3, <1>6, <1>9, ExactReport
<1>11. Exact
  BY <1>10 DEF Healthy
<1>12. /\ Bare(x) = b /\ x.id = id /\ x.at = clock[Scheduler] + 1
       /\ Origin(x) = Scheduler /\ JobsNamed(x) = {} /\ WellFormed(x)
  <2>1. JobsNamed(b) = {} /\ Origin(b) = Scheduler
    BY DeedFields DEF JobsNamed, Origin
  <2>. QED  BY <2>1, LineFacts, SameShape, RequeueShaped
<1>. HIDE DEF x, b
<1>13. x \notin Lines
  BY <1>3, <1>12, NewStamp
<1>14. Lines' = Lines \cup {x} /\ \A y \in Lines' : artifact'[y] = 1
  BY <1>10, <1>11, <1>12, <1>13, RecordedOnce DEF Exact
<1>15. \A y \in Lines : y.id \in Begun
  BY <1>3 DEF IInv, Witnessed
<1>16. \A y \in Lines' : JobsNamed(y) \subseteq episodes'[y.id].jobs
  BY <1>7, <1>11, <1>12, <1>14, <1>15 DEF Exact
<1>17. JobsApart'
  <2>1. episodes'[id].jobs = jobs
    BY <1>7 DEF NewEpisode
  <2>2. ASSUME NEW i \in Begun, i[1] = id[1]  PROVE episodes'[i].jobs \cap jobs = {}
    BY <1>4, <1>5, <1>6, <1>7, <1>10, <2>2
  <2>3. ASSUME NEW i \in Begun, NEW o \in Begun, i # o, i[1] = o[1]
        PROVE  episodes'[i].jobs \cap episodes'[o].jobs = {}
    BY <1>7, <1>11, <2>3 DEF Exact, JobsApart
  <2>. QED  BY <1>7, <2>1, <2>2, <2>3 DEF JobsApart
<1>18. ASSUME NEW i \in Begun'
       PROVE  Orderly(episodes'[i]) /\ (Small(episodes'[i]) => Faithful(i)')
  <2>1. CASE i \in Begun
    <3>1. LinesOf(i)' = LinesOf(i) /\ episodes'[i] = episodes[i]
      BY <1>4, <1>7, <1>12, <1>14, <2>1 DEF LinesOf
    <3>. QED  BY <1>11, <2>1, <3>1 DEF Exact, Faithful
  <2>2. CASE i = id
    <3>1. Orderly(NewEpisode(jobs))
      BY DEF Orderly, NewEpisode
    <3>2. LinesOf(id)' = {x}
      BY <1>4, <1>12, <1>14, <1>15 DEF LinesOf
    <3>3. Deeds(id, episodes[id])' = {b}
      BY <1>7 DEF Deeds, NewEpisode, b
    <3>4. ~Precedes(x, x)
      BY DEF Precedes
    <3>5. Faithful(id)'
      BY <1>12, <3>2, <3>3, <3>4 DEF Faithful
    <3>. QED  BY <1>7, <2>2, <3>1, <3>5
  <2>. QED  BY <1>7, <2>1, <2>2
<1>19. \A r \in Rank : incarnation'[r] = 1
  BY <1>2, <1>11 DEF Exact
<1>. QED  BY <1>14, <1>16, <1>17, <1>18, <1>19 DEF Exact

LEMMA NothingHealthy ==
  ASSUME Healthy, IInv', UNCHANGED <<clock, episodes, artifact>>,
         UNCHANGED <<incarnation, faults>> \/ faults' # 0
  PROVE  Healthy'
<1>1. Begun' = Begun /\ Lines' = Lines /\ \A i : LinesOf(i)' = LinesOf(i)
  BY DEF Begun, Lines, BagToSet, LinesOf
<1>2. Stamped'
  BY <1>1 DEF Healthy, Stamped
<1>3. ASSUME faults' = 0  PROVE Exact'
  <2>1. Exact /\ UNCHANGED incarnation
    BY <1>3 DEF Healthy
  <2>2. \A i : Faithful(i) <=> Faithful(i)'
    BY <1>1 DEF Faithful
  <2>3. JobsApart'
    BY <1>1, <2>1 DEF Exact, JobsApart
  <2>. QED  BY <1>1, <2>1, <2>2, <2>3 DEF Exact
<1>. QED  BY <1>2, <1>3 DEF Healthy

LEMMA InitHealthy == Init => Healthy
<1>. SUFFICES ASSUME Init  PROVE Healthy
  OBVIOUS
<1>1. Begun = {} /\ Lines = {}
  BY DEF Init, Begun, Lines, EmptyBag, SetToBag, BagToSet
<1>2. \A r \in Rank : incarnation[r] = 1
  BY DEF Init
<1>. QED  BY <1>1, <1>2, InitInv DEF Healthy, Stamped, Exact, JobsApart

LEMMA StepHealthy == Healthy /\ [Next]_vars => Healthy'
<1>. SUFFICES ASSUME Healthy, [Next]_vars  PROVE Healthy'
  OBVIOUS
<1>1. IInv /\ IInv'
  BY StepInv DEF Healthy
<1>2. CASE Requeue
  BY <1>1, <1>2, RequeueHealthy
<1>3. CASE SchedulerRestarts
  BY <1>1, <1>3, NothingHealthy DEF SchedulerRestarts
<1>4. ASSUME NEW r \in Rank, WorkerRestarts(r)  PROVE Healthy'
  <2>1. UNCHANGED <<clock, episodes, artifact>> /\ faults' = faults + 1
    BY <1>4 DEF WorkerRestarts
  <2>2. faults' # 0
    BY <1>1, <2>1 DEF IInv, TypeOK
  <2>. QED  BY <1>1, <2>1, <2>2, NothingHealthy
<1>5. ASSUME NEW id \in Begun, Admit(id)  PROVE Healthy'
  BY <1>1, <1>5, AdmitHealthy
<1>6. ASSUME NEW id \in Begun, NEW j \in Job, Receipt(id, j)  PROVE Healthy'
  BY <1>1, <1>6, ReceiptHealthy
<1>7. ASSUME NEW id \in Begun, NEW r \in Rank, Compute(id, r)  PROVE Healthy'
  BY <1>1, <1>7, ComputeHealthy
<1>8. ASSUME NEW id \in Begun, NEW j \in Job, NEW r \in Rank,
             Submit(id, j, r) \/ Complete(id, j, r)
      PROVE  Healthy'
  BY <1>1, <1>8, SubmitHealthy, CompleteHealthy
<1>9. CASE UNCHANGED vars
  BY <1>1, <1>9, NothingHealthy DEF vars
<1>. QED  BY <1>2, <1>3, <1>4, <1>5, <1>6, <1>7, <1>8, <1>9 DEF Next

\* Healthy holds in every state of the host and its records.
THEOREM HealthyInvariance == Spec => []Healthy
BY InitHealthy, StepHealthy, PTL DEF Spec
-----------------------------------------------------------------------------
(* What the judge finds of episodes that went well.                        *)

\* A record of an episode is told apart by its event and its key.
LEMMA DeedUnique ==
  ASSUME NEW id, NEW h, Orderly(h), NEW d \in Deeds(id, h), NEW e \in Deeds(id, h),
         d.event = e.event, Key(d) = Key(e)
  PROVE  d = e
<1>. DEFINE Exactly(x) ==
       \/ x = Deed("recovery_requeued", id, Blank)
       \/ x = Deed("restore_submitted", id, About(x.job, x.worker))
       \/ x = Deed("restore_completed", id, About(x.job, x.worker))
       \/ \E k \in h.receipts : x = Deed("transfer_receipt", id, Confirms(k)) /\ x.job = k.job
       \/ x = Deed("recovery_admitted", id, Admits(h.roster))
       \/ x = Deed("first_compute", id, Computes(x.worker, h.roster))
<1>1. ASSUME NEW x \in Deeds(id, h)  PROVE Exactly(x)
  <2>1. ASSUME NEW p \in h.submitted, x = Deed("restore_submitted", id, About(p[1], p[2]))
        PROVE  Exactly(x)
    BY <2>1, DeedFields
  <2>2. ASSUME NEW p \in h.completed, x = Deed("restore_completed", id, About(p[1], p[2]))
        PROVE  Exactly(x)
    BY <2>2, DeedFields
  <2>3. ASSUME NEW k \in h.receipts, x = Deed("transfer_receipt", id, Confirms(k))
        PROVE  Exactly(x)
    BY <2>3, DeedFields
  <2>4. ASSUME NEW c \in h.computed,
               x = Deed("first_compute", id, Computes(c.worker, h.roster))
        PROVE  Exactly(x)
    BY <2>4, DeedFields
  <2>. QED  BY <2>1, <2>2, <2>3, <2>4, Zenon DEF Deeds
<1>2. d.job = e.job /\ d.worker = e.worker
  BY DEF Key
<1>3. Exactly(d) /\ Exactly(e)
  BY <1>1
<1>4. CASE d.event = "transfer_receipt"
  <2>1. ASSUME NEW x, Exactly(x), x.event = "transfer_receipt"
        PROVE  \E k \in h.receipts :
                 x = Deed("transfer_receipt", id, Confirms(k)) /\ x.job = k.job
    BY <2>1, DeedFields
  <2>. HIDE DEF Exactly
  <2>2. PICK k \in h.receipts : d = Deed("transfer_receipt", id, Confirms(k)) /\ d.job = k.job
    BY <1>3, <1>4, <2>1
  <2>3. e.event = "transfer_receipt"
    BY <1>4
  <2>4. PICK l \in h.receipts : e = Deed("transfer_receipt", id, Confirms(l)) /\ e.job = l.job
    BY <1>3, <2>1, <2>3
  <2>. QED  BY <1>2, <2>2, <2>4 DEF Orderly
<1>5. CASE d.event # "transfer_receipt"
  <2>1. ASSUME NEW x, Exactly(x), x.event # "transfer_receipt"
        PROVE  \/ x.event = "recovery_requeued" /\ x = Deed("recovery_requeued", id, Blank)
               \/ x.event \in {"restore_submitted", "restore_completed"}
                    /\ x = Deed(x.event, id, About(x.job, x.worker))
               \/ x.event = "recovery_admitted"
                    /\ x = Deed("recovery_admitted", id, Admits(h.roster))
               \/ x.event = "first_compute"
                    /\ x = Deed("first_compute", id, Computes(x.worker, h.roster))
    BY <2>1, DeedFields
  <2>. HIDE DEF Exactly
  <2>2. e.event # "transfer_receipt"
    BY <1>5
  <2>3. \/ d.event = "recovery_requeued" /\ d = Deed("recovery_requeued", id, Blank)
        \/ d.event \in {"restore_submitted", "restore_completed"}
             /\ d = Deed(d.event, id, About(d.job, d.worker))
        \/ d.event = "recovery_admitted" /\ d = Deed("recovery_admitted", id, Admits(h.roster))
        \/ d.event = "first_compute"
             /\ d = Deed("first_compute", id, Computes(d.worker, h.roster))
    BY <1>3, <1>5, <2>1
  <2>4. \/ e.event = "recovery_requeued" /\ e = Deed("recovery_requeued", id, Blank)
        \/ e.event \in {"restore_submitted", "restore_completed"}
             /\ e = Deed(e.event, id, About(e.job, e.worker))
        \/ e.event = "recovery_admitted" /\ e = Deed("recovery_admitted", id, Admits(h.roster))
        \/ e.event = "first_compute"
             /\ e = Deed("first_compute", id, Computes(e.worker, h.roster))
    BY <1>3, <2>1, <2>2
  <2>. QED  BY <1>2, <2>3, <2>4
<1>. QED  BY <1>4, <1>5

\* A finished episode of a healthy run: its records, one by one.
Recounted(id) ==
  /\ \A x \in LinesOf(id) : Behind(id, episodes[id], x) /\ artifact[x] = 1
  /\ \A x, y \in LinesOf(id) : x.event = y.event /\ Key(x) = Key(y) => x = y
  /\ \A d \in Deeds(id, episodes[id]) : \E x \in LinesOf(id) :
       /\ x.event = d.event /\ Key(x) = Key(d)
       /\ x.workers = d.workers /\ x.roster = d.roster
  /\ \A x, y \in LinesOf(id) : Precedes(x, y) => After(y, x)

LEMMA HealthyRecounted ==
  ASSUME Healthy, faults = 0, NEW id \in Begun, Small(episodes[id])
  PROVE  Recounted(id)
<1>. DEFINE h == episodes[id]
<1>1. Faithful(id) /\ Orderly(h)
  BY DEF Healthy, Exact
<1>2. ASSUME NEW x
      PROVE  LET b == Bare(x) IN
             /\ b.id = x.id /\ b.event = x.event /\ b.job = x.job /\ b.worker = x.worker
             /\ b.workers = x.workers /\ b.roster = x.roster /\ Key(b) = Key(x)
  BY DeedFields DEF Bare, Key
<1>3. ASSUME NEW x \in LinesOf(id)  PROVE Behind(id, h, x) /\ artifact[x] = 1
  <2>1. Bare(x) \in Deeds(id, h)
    BY <1>1 DEF Faithful
  <2>2. Behind(id, h, Bare(x))
    BY <2>1, DeedBehind
  <2>3. artifact[x] = 1
    BY DEF Healthy, Exact, LinesOf
  <2>. QED  BY <1>2, <2>2, <2>3 DEF Behind
<1>4. ASSUME NEW x \in LinesOf(id), NEW y \in LinesOf(id), x.event = y.event, Key(x) = Key(y)
      PROVE  x = y
  <2>1. Bare(x) \in Deeds(id, h) /\ Bare(y) \in Deeds(id, h)
    BY <1>1 DEF Faithful
  <2>2. Bare(x) = Bare(y)
    BY <1>1, <1>2, <1>4, <2>1, DeedUnique
  <2>. QED  BY <1>1, <2>2 DEF Faithful
<1>5. ASSUME NEW d \in Deeds(id, h)
      PROVE  \E x \in LinesOf(id) :
               /\ x.event = d.event /\ Key(x) = Key(d)
               /\ x.workers = d.workers /\ x.roster = d.roster
  <2>1. PICK x \in LinesOf(id) : Bare(x) = d
    BY <1>1 DEF Faithful
  <2>. QED  BY <1>2, <2>1
<1>. QED  BY <1>1, <1>3, <1>4, <1>5 DEF Recounted, Faithful

\* A recorded line of each kind that a deed calls for.
LEMMA DeedsToldOf ==
  ASSUME NEW id, Recounted(id)
  PROVE  LET h == episodes[id] IN
         /\ \E x \in LinesOf(id) : x.event = "recovery_requeued"
         /\ \A p \in h.submitted : \E x \in LinesOf(id) :
              x.event = "restore_submitted" /\ Key(x) = <<p[1], p[2]>>
         /\ \A p \in h.completed : \E x \in LinesOf(id) :
              x.event = "restore_completed" /\ Key(x) = <<p[1], p[2]>>
         /\ \A k \in h.receipts : \E x \in LinesOf(id) :
              x.event = "transfer_receipt" /\ x.job = k.job
         /\ h.admitted => \E x \in LinesOf(id) : x.event = "recovery_admitted"
         /\ \A c \in h.computed : \E x \in LinesOf(id) :
              x.event = "first_compute" /\ x.worker = c.worker
<1>. DEFINE h == episodes[id]
            Told(d) == \E x \in LinesOf(id) : x.event = d.event /\ Key(x) = Key(d)
<1>1. \A d \in Deeds(id, h) : Told(d)
  BY DEF Recounted
<1>2. \E x \in LinesOf(id) : x.event = "recovery_requeued"
  <2>1. Told(Deed("recovery_requeued", id, Blank))
    BY <1>1 DEF Deeds
  <2>. QED  BY <2>1, DeedFields
<1>3. ASSUME NEW p \in h.submitted
      PROVE  \E x \in LinesOf(id) :
               x.event = "restore_submitted" /\ Key(x) = <<p[1], p[2]>>
  <2>1. Told(Deed("restore_submitted", id, About(p[1], p[2])))
    BY <1>1 DEF Deeds
  <2>. QED  BY <2>1, DeedFields DEF Key
<1>4. ASSUME NEW p \in h.completed
      PROVE  \E x \in LinesOf(id) :
               x.event = "restore_completed" /\ Key(x) = <<p[1], p[2]>>
  <2>1. Told(Deed("restore_completed", id, About(p[1], p[2])))
    BY <1>1 DEF Deeds
  <2>. QED  BY <2>1, DeedFields DEF Key
<1>5. ASSUME NEW k \in h.receipts
      PROVE  \E x \in LinesOf(id) : x.event = "transfer_receipt" /\ x.job = k.job
  <2>1. Told(Deed("transfer_receipt", id, Confirms(k)))
    BY <1>1 DEF Deeds
  <2>. QED  BY <2>1, DeedFields DEF Key
<1>6. ASSUME h.admitted
      PROVE  \E x \in LinesOf(id) : x.event = "recovery_admitted"
  <2>1. Told(Deed("recovery_admitted", id, Admits(h.roster)))
    BY <1>1, <1>6 DEF Deeds
  <2>. QED  BY <2>1, DeedFields
<1>7. ASSUME NEW c \in h.computed
      PROVE  \E x \in LinesOf(id) : x.event = "first_compute" /\ x.worker = c.worker
  <2>1. Told(Deed("first_compute", id, Computes(c.worker, h.roster)))
    BY <1>1 DEF Deeds
  <2>. QED  BY <2>1, DeedFields DEF Key
<1>. QED  BY <1>2, <1>3, <1>4, <1>5, <1>6, <1>7

LEMMA HealthyProven ==
  ASSUME Healthy, faults = 0, NEW id \in Begun, Small(episodes[id]), Finished(id)
  PROVE  Proven(id)
<1>. DEFINE h == episodes[id]
<1>1. /\ h \in Episode /\ CoherentEpisode(h) /\ Orderly(h) /\ Recounted(id)
      /\ h.admitted
  BY EpisodeFacts, HealthyRecounted DEF Healthy, Exact, Finished
<1>2. /\ FullRoster(h, h.roster) /\ h.roster = h.receipts
      /\ h.submitted = h.jobs \X First /\ h.completed = h.jobs \X First
      /\ h.jobs # {} /\ Pairs(h.roster) = h.jobs \X First
  BY <1>1, AdmittedMeans, SmallFacts, FullRosterFacts DEF Orderly, Episode
<1>3. \A e : Group(id, e) = {x \in LinesOf(id) : x.event = e}
  BY DEF Group, LinesOf, Lines
<1>4. \A e : OnePerKey(Group(id, e))
  BY <1>1, <1>3 DEF OnePerKey, Recounted
<1>5. \A x \in LinesOf(id) : Behind(id, h, x)
  BY <1>1 DEF Recounted
<1>6. \A x, y \in LinesOf(id) : Precedes(x, y) => After(y, x)
  BY <1>1 DEF Recounted
<1>7. PICK requeued \in LinesOf(id) : requeued.event = "recovery_requeued"
  BY <1>1, DeedsToldOf
<1>8. PICK admitted \in LinesOf(id) : admitted.event = "recovery_admitted"
  BY <1>1, DeedsToldOf
<1>9. admitted.roster = h.roster
  BY <1>5, <1>8 DEF Behind
<1>10. After(admitted, requeued)
  BY <1>6, <1>7, <1>8 DEF Precedes
<1>11. ReceiptsMatch(id, requeued, admitted)
  <2>. DEFINE receipts == Group(id, "transfer_receipt")
  <2>1. ASSUME NEW x \in receipts
        PROVE  /\ [job |-> x.job, workers |-> x.workers] \in admitted.roster
               /\ x.job \in {k.job : k \in admitted.roster}
               /\ After(x, requeued) /\ After(admitted, x)
    <3>1. x \in LinesOf(id) /\ x.event = "transfer_receipt"
      BY <1>3
    <3>2. PICK k \in h.receipts : x.job = k.job /\ x.workers = k.workers
      BY <1>5, <3>1 DEF Behind
    <3>3. k \in Confirmation
      BY <1>1 DEF Episode
    <3>4. [job |-> x.job, workers |-> x.workers] = k
      BY <3>2, <3>3 DEF Confirmation
    <3>5. Precedes(requeued, x) /\ Precedes(x, admitted)
      BY <1>7, <1>8, <3>1 DEF Precedes
    <3>. QED  BY <1>2, <1>6, <1>9, <3>1, <3>2, <3>4, <3>5
  <2>2. ASSUME NEW k \in admitted.roster  PROVE k.job \in {x.job : x \in receipts}
    <3>1. \E x \in LinesOf(id) : x.event = "transfer_receipt" /\ x.job = k.job
      BY <1>1, <1>2, <1>9, DeedsToldOf
    <3>. QED  BY <1>3, <3>1
  <2>. QED  BY <1>4, <2>1, <2>2 DEF ReceiptsMatch
<1>12. StagesMatch(id, admitted)
  <2>. DEFINE submitted == Group(id, "restore_submitted")
              completed == Group(id, "restore_completed")
  <2>1. {Key(x) : x \in submitted} = Pairs(admitted.roster)
    <3>1. ASSUME NEW x \in submitted  PROVE Key(x) \in h.jobs \X First
      <4>1. PICK p \in h.submitted : x.job = p[1] /\ x.worker = p[2]
        BY <1>3, <1>5 DEF Behind
      <4>. QED  BY <1>2, <4>1 DEF Key
    <3>2. ASSUME NEW p \in h.jobs \X First  PROVE p \in {Key(x) : x \in submitted}
      <4>1. PICK x \in LinesOf(id) : x.event = "restore_submitted" /\ Key(x) = <<p[1], p[2]>>
        BY <1>1, <1>2, DeedsToldOf
      <4>. QED  BY <1>3, <4>1
    <3>. QED  BY <1>2, <1>9, <3>1, <3>2
  <2>2. {Key(x) : x \in completed} = Pairs(admitted.roster)
    <3>1. ASSUME NEW x \in completed  PROVE Key(x) \in h.jobs \X First
      <4>1. PICK p \in h.completed : x.job = p[1] /\ x.worker = p[2]
        BY <1>3, <1>5 DEF Behind
      <4>. QED  BY <1>2, <4>1 DEF Key
    <3>2. ASSUME NEW p \in h.jobs \X First  PROVE p \in {Key(x) : x \in completed}
      <4>1. PICK x \in LinesOf(id) : x.event = "restore_completed" /\ Key(x) = <<p[1], p[2]>>
        BY <1>1, <1>2, DeedsToldOf
      <4>. QED  BY <1>3, <4>1
    <3>. QED  BY <1>2, <1>9, <3>1, <3>2
  <2>3. ASSUME NEW x \in submitted, NEW y \in completed, Key(x) = Key(y)  PROVE After(y, x)
    BY <1>3, <1>6, <2>3 DEF Precedes
  <2>. QED  BY <1>4, <2>1, <2>2, <2>3 DEF StagesMatch
<1>13. ComputesMatch(id, admitted)
  <2>. DEFINE first == Group(id, "first_compute")
  <2>1. {p[2] : p \in Pairs(admitted.roster)} = First
    <3>1. PICK j \in h.jobs : TRUE
      BY <1>2
    <3>2. Pairs(admitted.roster) = h.jobs \X First
      BY <1>2, <1>9
    <3>. HIDE DEF h
    <3>3. \A p \in h.jobs \X First : p[2] \in First
      OBVIOUS
    <3>4. ASSUME NEW w \in First
          PROVE  \E p \in h.jobs \X First : w = p[2]
      <4>1. <<j, w>> \in h.jobs \X First /\ w = <<j, w>>[2]
        OBVIOUS
      <4>. QED  BY <4>1
    <3>. QED  BY <3>2, <3>3, <3>4
  <2>2. ASSUME NEW x \in first
        PROVE  /\ x.worker \in First /\ x.roster = admitted.roster
               /\ \A y \in Group(id, "restore_completed") :
                    y.worker = x.worker => After(x, y)
    <3>1. PICK c \in h.computed : x.worker = c.worker /\ x.roster = h.roster
      BY <1>3, <1>5 DEF Behind
    <3>2. ASSUME NEW y \in Group(id, "restore_completed"), y.worker = x.worker
          PROVE  After(x, y)
      BY <1>3, <1>6, <3>2 DEF Precedes
    <3>. QED  BY <1>1, <1>9, <3>1, <3>2 DEF Orderly
  <2>3. ASSUME NEW w \in First  PROVE w \in {x.worker : x \in first}
    <3>1. w[1] \in Rank /\ w = <<w[1], 1>>
      BY DEF First
    <3>2. PICK c \in h.computed : c.worker[1] = w[1]
      BY <3>1 DEF Finished
    <3>3. c.worker \in First
      BY <1>1 DEF Orderly
    <3>4. c.worker = w
      BY <3>1, <3>2, <3>3 DEF First
    <3>5. PICK x \in LinesOf(id) : x.event = "first_compute" /\ x.worker = w
      BY <1>1, <3>4, DeedsToldOf
    <3>. QED  BY <1>3, <3>5
  <2>. QED  BY <1>4, <2>1, <2>2, <2>3 DEF ComputesMatch
<1>. QED  BY <1>3, <1>4, <1>7, <1>8, <1>10, <1>11, <1>12, <1>13 DEF Proven

\* A recovery that went well, recorded without a loss by workers that did not
\* restart, is not refused by validate_correlated_restore_chain, whatever the
\* interleaving of workers and scheduler and whatever their clocks.
THEOREM HealthyIsAccepted == Spec => []HealthyAccepted
<1>1. ASSUME Healthy, faults = 0, Begun # {},
             \A id \in Begun : Finished(id) /\ Small(episodes[id])
      PROVE  Accepted
  <2>1. Exact /\ \A x \in Lines : x.id \in Begun
    BY <1>1 DEF Healthy, IInv, Witnessed
  <2>2. \A id \in Recorded : Proven(id)
    BY <1>1, <2>1, HealthyProven DEF Recorded, Lines
  <2>3. JobsOwned
    BY <2>1 DEF JobsOwned, Exact, JobsApart, Lines
  <2>4. Recorded # {}
    <3>1. PICK id \in Begun : TRUE
      BY <1>1
    <3>2. PICK x \in LinesOf(id) : TRUE
      BY <1>1, HealthyRecounted, DeedsToldOf
    <3>. QED  BY <3>2 DEF Recorded, LinesOf, Lines
  <2>. QED  BY <2>2, <2>3, <2>4 DEF Accepted
<1>2. Healthy => HealthyAccepted
  BY <1>1 DEF HealthyAccepted, Small
<1>. QED  BY HealthyInvariance, <1>2, PTL
=============================================================================
