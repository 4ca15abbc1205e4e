-------------------------- MODULE CorrelatedChain ---------------------------
(***************************************************************************)
(* validation.py: validate_correlated_restore_chain, the offline judge of  *)
(* one request's recovery across processes, and correlated.py, the shapes  *)
(* it relies on.                                                           *)
(*                                                                         *)
(* The host is external: a scheduler that requeues a request, hears of its *)
(* restores from the workers, admits it and has every worker compute; each *)
(* process stamps its reports with a clock of its own.  The host errs, the *)
(* observer loses reports, workers restart: what happened is in `episodes',*)
(* what was recorded in `artifact'.  The judge sees the artifact only, at  *)
(* any moment, and reads it in any order.                                  *)
(***************************************************************************)
EXTENDS Integers, FiniteSets, Bags

CONSTANTS
  Rank, Job, Scheduler, None,
  MaxRoster,      \* MAX_CORRELATED_ROSTER
  MaxEpisodes, MaxRestores, MaxFaults, MaxTrouble  \* bounds of the model

ASSUME ChainAssumption ==
  /\ IsFiniteSet(Rank) /\ IsFiniteSet(Job)
  /\ Scheduler \notin Rank
  /\ None \notin Job /\ None \notin Rank \X (1 .. 2)
  /\ {MaxRoster, MaxEpisodes, MaxRestores, MaxFaults, MaxTrouble} \subseteq Nat

VARIABLES
  generation,   \* of the scheduler
  incarnation,  \* rank -> generation of its worker
  clock,        \* process -> its clock
  episodes,     \* history: episode -> what really happened in it
  artifact,     \* the bag of recorded lines
  faults        \* history: errors and losses so far

vars == <<generation, incarnation, clock, episodes, artifact, faults>>

Begun == DOMAIN episodes
Worker(r) == <<r, incarnation[r]>>

-----------------------------------------------------------------------------
(* The records, and which of them CorrelatedHostObservation admits.        *)

Blank == [job |-> None, worker |-> None, workers |-> {}, roster |-> {}]

Line(event, id, at, fields) ==
  [event |-> event, id |-> id, at |-> at, job |-> fields.job,
   worker |-> fields.worker, workers |-> fields.workers, roster |-> fields.roster]

Fields(x) ==
  {f \in DOMAIN Blank : x[f] # Blank[f]}

Required ==
  [recovery_requeued |-> {},
   restore_submitted |-> {"job", "worker"},
   restore_completed |-> {"job", "worker"},
   transfer_receipt |-> {"job", "workers"},
   recovery_admitted |-> {"roster"},
   first_compute |-> {"worker", "roster"}]

\* A rank has one worker in a roster.
ExactWorkers(workers) == \A v, w \in workers : v[1] = w[1] => v = w

\* A job has one entry in a roster.
ExactJobs(roster) == \A j, k \in roster : j.job = k.job => j = k

\* The (job, worker) pairs of a roster.
Pairs(roster) == UNION {{<<j.job, w>> : w \in j.workers} : j \in roster}

\* Mutant of FitsRoster: the limit itself is refused.
FitsRosterStrictly(x) ==
  Cardinality(x.workers) < MaxRoster /\ Cardinality(Pairs(x.roster)) < MaxRoster

FitsRoster(x) ==
  Cardinality(x.workers) <= MaxRoster /\ Cardinality(Pairs(x.roster)) <= MaxRoster

WellFormed(x) ==
  /\ Fields(x) = Required[x.event]
  /\ ExactWorkers(x.workers)
  /\ \A j \in x.roster : j.workers # {} /\ ExactWorkers(j.workers)
  /\ ExactJobs(x.roster)
  /\ FitsRoster(x)

-----------------------------------------------------------------------------
Init ==
  /\ generation = 1
  /\ incarnation = [r \in Rank |-> 1]
  /\ clock = [p \in Rank \cup {Scheduler} |-> 0]
  /\ episodes = [id \in {} |-> None]
  /\ artifact = EmptyBag
  /\ faults = 0

Finished(id) ==
  /\ episodes[id].admitted
  /\ {c.worker[1] : c \in episodes[id].computed} = Rank

Restores == UNION {{<<i, j>> : j \in episodes[i].jobs} : i \in Begun}

\* Two faults with one restore, or one fault with two.
Bounded == faults' <= MaxFaults /\ faults' + Cardinality(Restores') <= MaxTrouble

\* A malformed record is refused by the binding; any record may be lost at
\* the sink (0 lines) or reported twice (2), and a clock may stand still.
Report(process, err, event, id, fields) ==
  \E tick \in 0 .. 1, lines \in 0 .. 2 :
    LET x == Line(event, id, clock[process] + tick, fields)
    IN  /\ faults' = faults + err + (1 - tick) + (IF lines = 1 THEN 0 ELSE 1)
        /\ Bounded
        /\ clock' = [clock EXCEPT ![process] = @ + tick]
        /\ artifact' = IF WellFormed(x) /\ lines > 0
                         THEN artifact (+) [y \in {x} |-> lines] ELSE artifact

Changes(id, h) == episodes' = [episodes EXCEPT ![id] = h]

NewEpisode(jobs) ==
  [jobs |-> jobs, submitted |-> {}, completed |-> {}, receipts |-> {},
   admitted |-> FALSE, roster |-> {}, computed |-> {}]

\* A preempted request has finished its earlier recovery.
Requeue ==
  LET earlier == {id \in Begun : id[1] = generation}
      id == <<generation, Cardinality(earlier) + 1>>
      used == UNION {episodes[i].jobs : i \in earlier}
  IN  /\ Cardinality(Begun) < MaxEpisodes
      /\ \A i \in earlier : Finished(i)
      /\ \E jobs \in SUBSET Job :
           /\ Cardinality(Restores) + Cardinality(jobs) <= MaxRestores
           /\ episodes' = [i \in Begun \cup {id} |->
                             IF i = id THEN NewEpisode(jobs) ELSE episodes[i]]
           /\ Report(Scheduler, IF jobs \cap used = {} THEN 0 ELSE 1,
                     "recovery_requeued", id, Blank)
      /\ UNCHANGED <<generation, incarnation>>

Submit(id, j, r) ==
  LET h == episodes[id] IN
  /\ j \in h.jobs /\ ~h.admitted
  /\ <<j, Worker(r)>> \notin h.submitted
  /\ Changes(id, [h EXCEPT !.submitted = @ \cup {<<j, Worker(r)>>}])
  /\ Report(r, 0, "restore_submitted", id,
            [Blank EXCEPT !.job = j, !.worker = Worker(r)])
  /\ UNCHANGED <<generation, incarnation>>

Complete(id, j, r) ==
  LET h == episodes[id] IN
  /\ <<j, Worker(r)>> \in h.submitted \ h.completed
  /\ Changes(id, [h EXCEPT !.completed = @ \cup {<<j, Worker(r)>>}])
  /\ Report(r, 0, "restore_completed", id,
            [Blank EXCEPT !.job = j, !.worker = Worker(r)])
  /\ UNCHANGED <<generation, incarnation>>

\* The scheduler names the workers that completed the job; in error, those
\* that should.
Receipt(id, j) ==
  LET h == episodes[id]
      done == {w \in Rank \X (1 .. 2) : <<j, w>> \in h.completed}
      Confirm(workers, err) ==
        /\ Changes(id, [h EXCEPT !.receipts = @ \cup {[job |-> j, workers |-> workers]}])
        /\ Report(Scheduler, err, "transfer_receipt", id,
                  [Blank EXCEPT !.job = j, !.workers = workers])
  IN  /\ j \in h.jobs /\ ~h.admitted
      /\ \A k \in h.receipts : k.job # j
      /\ \/ \E workers \in SUBSET done :
              {w[1] : w \in workers} = Rank /\ Confirm(workers, 0)
         \/ {w[1] : w \in done} # Rank /\ Confirm({Worker(r) : r \in Rank}, 1)
      /\ UNCHANGED <<generation, incarnation>>

Admit(id) ==
  LET h == episodes[id] IN
  /\ ~h.admitted
  /\ {k.job : k \in h.receipts} = h.jobs
  /\ Changes(id, [h EXCEPT !.admitted = TRUE, !.roster = h.receipts])
  /\ Report(Scheduler, 0, "recovery_admitted", id,
            [Blank EXCEPT !.roster = h.receipts])
  /\ UNCHANGED <<generation, incarnation>>

\* The worker computes on the roster it was sent; in error, on a part of it.
Compute(id, r) ==
  LET h == episodes[id] IN
  /\ h.admitted
  /\ \A c \in h.computed : c.worker[1] # r
  /\ \E roster \in SUBSET h.roster :
       /\ Changes(id, [h EXCEPT !.computed = @ \cup
            {[worker |-> Worker(r),
              backed |-> roster = h.roster
                           /\ \A j \in h.jobs : <<j, Worker(r)>> \in h.completed]}])
       /\ Report(r, IF roster = h.roster THEN 0 ELSE 1, "first_compute", id,
                 [Blank EXCEPT !.worker = Worker(r), !.roster = roster])
  /\ UNCHANGED <<generation, incarnation>>

WorkerRestarts(r) ==
  /\ incarnation[r] = 1
  /\ faults' = faults + 1
  /\ incarnation' = [incarnation EXCEPT ![r] = 2]
  /\ UNCHANGED <<generation, clock, episodes, artifact>>
  /\ Bounded

\* A new scheduler counts its epochs and jobs from the start.
SchedulerRestarts ==
  /\ generation = 1
  /\ Begun # {} /\ \A id \in Begun : Finished(id)
  /\ generation' = 2
  /\ UNCHANGED <<incarnation, clock, episodes, artifact, faults>>

Next ==
  \/ Requeue
  \/ SchedulerRestarts
  \/ \E r \in Rank : WorkerRestarts(r)
  \/ \E id \in Begun :
       \/ Admit(id)
       \/ \E j \in Job : Receipt(id, j)
       \/ \E r \in Rank : Compute(id, r)
       \/ \E j \in Job, r \in Rank : Submit(id, j, r) \/ Complete(id, j, r)

Spec == Init /\ [][Next]_vars

-----------------------------------------------------------------------------
(* validate_correlated_restore_chain                                       *)

Group(id, event) == {x \in BagToSet(artifact) : x.id = id /\ x.event = event}
Recorded == {x.id : x \in BagToSet(artifact)}

JobsNamed(x) == ({x.job} \ {None}) \cup {j.job : j \in x.roster}

\* Within a scheduler generation a job belongs to one episode.
JobsOwned ==
  \A x, y \in BagToSet(artifact) :
    x.id[1] = y.id[1] /\ JobsNamed(x) \cap JobsNamed(y) # {} => x.id = y.id

Key(x) == <<x.job, x.worker>>

\* No two lines, or copies of one, share the key of the code's dictionary.
OnePerKey(lines) ==
  \A x \in lines : artifact[x] = 1 /\ \A y \in lines : Key(x) = Key(y) => x = y

\* Mutant of After: a tie is taken for an order.
NotBefore(x, y) == x.at >= y.at

After(x, y) == x.at > y.at

ReceiptsMatch(id, requeued, admitted) ==
  LET receipts == Group(id, "transfer_receipt") IN
  /\ OnePerKey(receipts)
  /\ {x.job : x \in receipts} = {j.job : j \in admitted.roster}
  /\ \A x \in receipts :
       /\ [job |-> x.job, workers |-> x.workers] \in admitted.roster
       /\ After(x, requeued) /\ After(admitted, x)

StagesMatch(id, admitted) ==
  LET submitted == Group(id, "restore_submitted")
      completed == Group(id, "restore_completed")
  IN  /\ OnePerKey(submitted) /\ OnePerKey(completed)
      /\ {Key(x) : x \in submitted} = Pairs(admitted.roster)
      /\ {Key(x) : x \in completed} = Pairs(admitted.roster)
      /\ \A x \in submitted, y \in completed : Key(x) = Key(y) => After(y, x)

\* Mutant of ComputesMatch: the ranks are compared, not their incarnations.
ComputesMatchRanks(id, admitted) ==
  LET first == Group(id, "first_compute") IN
  /\ OnePerKey(first)
  /\ {x.worker[1] : x \in first} = {p[2][1] : p \in Pairs(admitted.roster)}
  /\ \A x \in first : x.roster = admitted.roster

ComputesMatch(id, admitted) ==
  LET first == Group(id, "first_compute") IN
  /\ OnePerKey(first)
  /\ {x.worker : x \in first} = {p[2] : p \in Pairs(admitted.roster)}
  /\ \A x \in first :
       /\ x.roster = admitted.roster
       /\ \A y \in Group(id, "restore_completed") : y.worker = x.worker => After(x, y)

Proven(id) ==
  /\ OnePerKey(Group(id, "recovery_requeued"))
  /\ OnePerKey(Group(id, "recovery_admitted"))
  /\ \E requeued \in Group(id, "recovery_requeued"),
        admitted \in Group(id, "recovery_admitted") :
       /\ After(admitted, requeued)
       /\ ReceiptsMatch(id, requeued, admitted)
       /\ StagesMatch(id, admitted)
       /\ ComputesMatch(id, admitted)

\* The function returns instead of raising.
Accepted ==
  Recorded # {} /\ JobsOwned /\ \A id \in Recorded : Proven(id)

-----------------------------------------------------------------------------
\* Whatever was lost, repeated, tied, restarted or done in error within the
\* bounds, an accepted artifact tells the truth: each recorded episode ended,
\* every worker computed in the incarnation that held all its restores, and
\* no restore counts for two episodes.
AcceptedHappened ==
  Accepted =>
    \A id \in Recorded :
      /\ Finished(id)
      /\ \A c \in episodes[id].computed : c.backed
      /\ \A other \in Recorded \ {id} :
           other[1] = id[1] => episodes[id].jobs \cap episodes[other].jobs = {}

\* Episodes that went well and were recorded are accepted, one or several, also
\* across a scheduler restart, up to the roster limit; an admission without
\* restores has no record, since its shape requires a roster.
HealthyAccepted ==
  (/\ faults = 0
   /\ Begun # {}
   /\ \A id \in Begun :
        /\ Finished(id)
        /\ Cardinality(episodes[id].jobs) * Cardinality(Rank) \in 1 .. MaxRoster)
  => Accepted
=============================================================================
