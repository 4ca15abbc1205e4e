-------------------------- MODULE PluginForkProofs --------------------------
(***************************************************************************)
(* Proofs about PluginFork, for any tree of processes, any reuse of pids   *)
(* and any number of adapters: which adapter serves a process.             *)
(*                                                                         *)
(* The argument rests on two facts.  A live process remembers its own pid  *)
(* or none, because a pid is not given to a child while its owner lives;   *)
(* so the hook in a child always drops what the parent had published.  And *)
(* what a process registered at its host it constructed itself, because    *)
(* the host's registries are not inherited.                                *)
(***************************************************************************)
EXTENDS PluginFork, FiniteSetTheorems, TLAPS

Registering == {"register_v1", "register_v2", "undo_v1", "start_failed",
                "connect", "activate", "publish"}
Stopping == {"disconnect", "unregister_v2", "unregister_v1", "close"}

Place ==
  {Idle} \cup [at : Registering \cup {"mark", "clear"}, a : Adapter]
         \cup [at : Stopping, a : Adapter, ok : BOOLEAN]

State == {"stopped", "starting", "active", "stopping"}

Types ==
  /\ alive \in SUBSET Process
  /\ pid \in [Process -> Pid]
  /\ _REGISTERED_PID \in [Process -> Pid \cup {None}]
  /\ _ADAPTER \in [Process -> Adapter \cup {None}]
  /\ place \in [Process -> Place]
  /\ adapter \in [Process -> [Adapter -> State]]
  /\ connected \in [Process -> SUBSET Adapter]
  /\ host \in [Process -> [Registry -> SUBSET Adapter]]
  /\ stopped \in [Process -> {"none", "true", "false"}]
  /\ \E n \in 0 .. MaxAdapters : owner \in [1 .. n -> Process]

\* Adapter a was constructed by process p.
Own(p, a) == a \in Constructed /\ owner[a] = p

\* What a process registers, works on and publishes it has constructed itself.
Owned(p) ==
  /\ \A r \in Registry : \A a \in host[p][r] : Own(p, a)
  /\ place[p].at # "idle" => Own(p, place[p].a)
  /\ _ADAPTER[p] # None => Own(p, _ADAPTER[p])

\* The globals say how far the process has come.
Named(p) ==
  /\ _REGISTERED_PID[p] \in {None, pid[p]}
  /\ place[p].at = "idle" => (_ADAPTER[p] = None <=> _REGISTERED_PID[p] = None)
  /\ place[p].at \in Registering => _ADAPTER[p] = None /\ _REGISTERED_PID[p] = None
  /\ place[p].at = "mark" => _ADAPTER[p] = place[p].a /\ _REGISTERED_PID[p] = None
  /\ place[p].at \in Stopping \cup {"clear"} =>
       _ADAPTER[p] = place[p].a /\ _REGISTERED_PID[p] = pid[p]

\* The one adapter of its own that may be active.
Single(p) ==
  /\ \A a \in Adapter : Own(p, a) /\ adapter[p][a] = "active" =>
       a = _ADAPTER[p] \/ (place[p].at = "publish" /\ place[p].a = a)
  /\ place[p].at = "clear" => adapter[p][place[p].a] = "stopped"

\* How far the adapter that register_plugin starts can be reached by callbacks.
Reached(p) ==
  /\ place[p].at \in {"register_v2", "connect", "activate", "publish", "mark"} =>
       place[p].a \in host[p]["v1"]
  /\ place[p].at \in {"activate", "publish", "mark"} => place[p].a \in connected[p]
  /\ place[p].at \in {"publish", "mark"} => adapter[p][place[p].a] = "active"
  /\ place[p].at = "idle" /\ _REGISTERED_PID[p] = pid[p] =>
       _ADAPTER[p] \in Serving(p) \/ stopped[p] = "false"

IInv ==
  /\ Types
  /\ \A p \in Process : Owned(p)
  /\ \A p \in alive : Named(p) /\ Single(p) /\ Reached(p)

-----------------------------------------------------------------------------
(* What the invariant says of the properties.                              *)

LEMMA ServingFollows ==
  ASSUME IInv
  PROVE  ServingIsOwned
<1>. SUFFICES ASSUME NEW p \in alive, NEW a \in Serving(p)
              PROVE  /\ owner[a] = p
                     /\ a = _ADAPTER[p] \/ (place[p].at = "publish" /\ place[p].a = a)
  BY DEF ServingIsOwned
<1>1. /\ p \in Process /\ a \in Adapter
      /\ a \in host[p]["v1"] \cup host[p]["v2"]
      /\ adapter[p][a] = "active"
  BY DEF IInv, Types, Serving, Registry
<1>2. Own(p, a)
  BY <1>1 DEF IInv, Owned, Registry
<1>. QED  BY <1>1, <1>2 DEF IInv, Single, Own

LEMMA RegisteredFollows ==
  ASSUME IInv
  PROVE  RegisteredServes
<1>. SUFFICES ASSUME NEW p \in alive, pid[p] = _REGISTERED_PID[p], place[p] = Idle
              PROVE  \/ _ADAPTER[p] \in Serving(p)
                     \/ stopped[p] = "false" /\ _ADAPTER[p] # None
  BY DEF RegisteredServes
<1>1. place[p].at = "idle"
  BY DEF Idle
<1>2. _REGISTERED_PID[p] # None
  BY PidAssumption DEF IInv, Types
<1>. QED  BY <1>1, <1>2 DEF IInv, Named, Reached

-----------------------------------------------------------------------------
(* Steps of one process leave the others as they are.                      *)

Same(r) ==
  /\ r \in alive' => r \in alive
  /\ pid'[r] = pid[r]
  /\ _REGISTERED_PID'[r] = _REGISTERED_PID[r] /\ _ADAPTER'[r] = _ADAPTER[r]
  /\ place'[r] = place[r] /\ stopped'[r] = stopped[r]
  /\ adapter'[r] = adapter[r] /\ connected'[r] = connected[r] /\ host'[r] = host[r]
  /\ \A a : Own(r, a)' <=> Own(r, a)

Facts(r) == Owned(r) /\ (r \in alive => Named(r) /\ Single(r) /\ Reached(r))

LEMMA SameFacts ==
  ASSUME IInv, NEW r \in Process, Same(r)
  PROVE  Facts(r)'
<1>1. Owned(r)'
  BY DEF IInv, Same, Owned
<1>2. ASSUME r \in alive'
      PROVE  Named(r)' /\ Single(r)' /\ Reached(r)'
  <2>1. Named(r) /\ Single(r) /\ Reached(r)
    BY <1>2 DEF IInv, Same
  <2>2. Named(r)'
    BY <2>1 DEF Same, Named
  <2>3. Single(r)'
    BY <2>1 DEF Same, Single
  <2>4. Reached(r)'
    BY <2>1 DEF Same, Reached, Serving
  <2>. QED  BY <2>2, <2>3, <2>4
<1>. QED  BY <1>1, <1>2 DEF Facts

\* So a step has to be examined at one process only.
LEMMA OneProcess ==
  ASSUME IInv, NEW p \in Process, Types', Facts(p)',
         \A r \in Process \ {p} : Same(r)
  PROVE  IInv'
<1>1. \A r \in Process : Facts(r)'
  BY SameFacts
<1>2. alive' \subseteq Process
  BY DEF Types
<1>. QED  BY <1>1, <1>2 DEF IInv, Facts

\* A process moves on in its call and keeps its adapter.
LEMMA GotoFacts ==
  ASSUME place \in [Process -> Place], NEW p \in Process, place[p].at # "idle",
         NEW step, Goto(p, step),
         \/ place[p].at \in Registering \cup {"mark", "clear"}
              /\ step \in Registering \cup {"mark", "clear"}
         \/ place[p].at \in Stopping /\ step \in Stopping
  PROVE  /\ place' \in [Process -> Place]
         /\ place'[p].at = step
         /\ place'[p].a = place[p].a
         /\ \A r \in Process \ {p} : place'[r] = place[r]
<1>0. place[p] \in Place
  OBVIOUS
<1>1. CASE place[p] \in [at : Registering \cup {"mark", "clear"}, a : Adapter]
  <2>1. place'[p] = [at |-> step, a |-> place[p].a]
    BY <1>1 DEF Goto
  <2>2. step \in Registering \cup {"mark", "clear"}
    BY <1>1 DEF Registering, Stopping
  <2>3. place'[p] \in Place
    BY <1>1, <2>1, <2>2 DEF Place
  <2>. QED  BY <2>1, <2>3 DEF Goto
<1>2. CASE place[p] \in [at : Stopping, a : Adapter, ok : BOOLEAN]
  <2>1. place'[p] = [at |-> step, a |-> place[p].a, ok |-> place[p].ok]
    BY <1>2 DEF Goto
  <2>2. step \in Stopping
    BY <1>2 DEF Registering, Stopping
  <2>3. place'[p] \in Place
    BY <1>2, <2>1, <2>2 DEF Place
  <2>. QED  BY <2>1, <2>3 DEF Goto
<1>. QED  BY <1>0, <1>1, <1>2 DEF Place, Idle

\* A busy process has an adapter in hand.
LEMMA HandFacts ==
  ASSUME IInv, NEW p \in Process, place[p].at # "idle"
  PROVE  /\ place[p].a \in Adapter
         /\ Own(p, place[p].a)
<1>1. place[p] \in Place
  BY DEF IInv, Types
<1>. QED  BY <1>1 DEF Place, Idle, IInv, Owned

-----------------------------------------------------------------------------
(* register_plugin                                                         *)

LEMMA RegisterPluginInv ==
  ASSUME IInv, NEW p \in Process, RegisterPlugin(p)
  PROVE  IInv'
<1>1. PICK n \in 0 .. MaxAdapters : owner \in [1 .. n -> Process]
  BY DEF IInv, Types
<1>2. Constructed = 1 .. n /\ Cardinality(Constructed) + 1 = n + 1 /\ n \in Nat
  BY <1>1, FS_Interval DEF Constructed
<1>. PICK a \in Nat : a = n + 1
  BY <1>2
<1>3. a \in Adapter /\ a <= MaxAdapters /\ a \notin Constructed
  BY <1>2, ForkAssumption DEF RegisterPlugin, Adapter
<1>4. /\ p \in alive /\ place[p].at = "idle" /\ pid[p] # _REGISTERED_PID[p]
      /\ owner' = [b \in Constructed \cup {a} |-> IF b = a THEN p ELSE owner[b]]
      /\ Becomes(p, a, "starting")
      /\ place' = [place EXCEPT ![p] = [at |-> "register_v1", a |-> a]]
      /\ UNCHANGED <<alive, pid, _REGISTERED_PID, _ADAPTER, connected, host, stopped>>
  BY <1>2 DEF RegisterPlugin, At, globals
<1>5. /\ Constructed' = 1 .. a /\ owner' \in [1 .. a -> Process]
      /\ a \in 0 .. MaxAdapters
  BY <1>1, <1>2, <1>3, <1>4 DEF Constructed
<1>6. /\ Own(p, a)'
      /\ \A r \in Process : \A b : Own(r, b) => Own(r, b)'
      /\ \A r \in Process \ {p} : \A b : Own(r, b)' <=> Own(r, b)
      /\ \A b : Own(p, b)' => Own(p, b) \/ b = a
  <2>1. Constructed' = Constructed \cup {a}
    BY <1>2, <1>5
  <2>2. owner'[a] = p
    BY <1>4
  <2>3. \A b \in Constructed : owner'[b] = owner[b]
    BY <1>3, <1>4
  <2>. QED  BY <1>3, <2>1, <2>2, <2>3 DEF Own
<1>7. Types'
  <2>1. place' \in [Process -> Place]
    BY <1>3, <1>4 DEF IInv, Types, Place, Registering
  <2>2. adapter' \in [Process -> [Adapter -> State]]
    BY <1>3, <1>4 DEF IInv, Types, Becomes, State
  <2>. QED  BY <1>4, <1>5, <2>1, <2>2 DEF IInv, Types
<1>8. /\ place'[p] = [at |-> "register_v1", a |-> a]
      /\ adapter'[p][a] = "starting"
      /\ \A b \in Adapter \ {a} : adapter'[p][b] = adapter[p][b]
      /\ \A r \in Process \ {p} : place'[r] = place[r] /\ adapter'[r] = adapter[r]
  BY <1>3, <1>4 DEF IInv, Types, Becomes
<1>9. \A r \in Process \ {p} : Same(r)
  BY <1>4, <1>6, <1>8 DEF Same
<1>10. Owned(p)'
  <2>1. Owned(p)
    BY DEF IInv
  <2>2. \A r \in Registry : \A b \in host'[p][r] : Own(p, b)'
    BY <1>4, <1>6, <2>1 DEF Owned
  <2>3. place'[p].a = a
    BY <1>8
  <2>4. Own(p, place[p].a)'
    BY <1>6, <2>3 DEF Own
  <2>5. _ADAPTER'[p] # None => Own(p, _ADAPTER[p])'
    BY <1>4, <1>6, <2>1 DEF Owned
  <2>. QED  BY <2>2, <2>4, <2>5 DEF Owned
<1>11. Named(p)'
  BY <1>4, <1>8 DEF IInv, Named, Registering, Stopping
<1>12. Single(p)'
  BY <1>4, <1>6, <1>8 DEF IInv, Single
<1>13. Reached(p)'
  BY <1>8 DEF Reached
<1>. QED  BY <1>7, <1>9, <1>10, <1>11, <1>12, <1>13, OneProcess DEF Facts

-----------------------------------------------------------------------------
(* What the steps of a call in process p have in common.                   *)

\* Others keep their state in a step of p that constructs nothing.
LEMMA OthersSame ==
  ASSUME IInv, NEW p \in Process, UNCHANGED <<alive, pid, owner>>,
         \A r \in Process \ {p} :
           /\ _REGISTERED_PID'[r] = _REGISTERED_PID[r] /\ _ADAPTER'[r] = _ADAPTER[r]
           /\ place'[r] = place[r] /\ stopped'[r] = stopped[r]
           /\ adapter'[r] = adapter[r] /\ connected'[r] = connected[r]
           /\ host'[r] = host[r]
  PROVE  \A r \in Process \ {p} : Same(r)
BY DEF Same, Own, Constructed

\* Nothing new comes into the hands of p but what it holds.
LEMMA OwnedKept ==
  ASSUME IInv, NEW p \in Process, UNCHANGED owner, place[p].at # "idle",
         \A r \in Registry : host'[p][r] \subseteq host[p][r] \cup {place[p].a},
         place'[p].at = "idle" \/ place'[p].a = place[p].a,
         _ADAPTER'[p] \in {None, _ADAPTER[p], place[p].a}
  PROVE  Owned(p)'
<1>1. Owned(p) /\ Own(p, place[p].a)
  BY HandFacts DEF IInv
<1>2. \A b : Own(p, b)' <=> Own(p, b)
  BY DEF Own, Constructed
<1>3. \A r \in Registry : \A b \in host'[p][r] : Own(p, b)
  BY <1>1 DEF Owned
<1>4. place'[p].at # "idle" => Own(p, place'[p].a)
  BY <1>1
<1>5. _ADAPTER'[p] # None => Own(p, _ADAPTER'[p])
  BY <1>1 DEF Owned
<1>. QED  BY <1>3, <1>4, <1>5 DEF Owned, Own, Constructed

\* A registry call adds or removes the adapter in hand.
LEMMA HostFacts ==
  ASSUME IInv, NEW p \in Process, place[p].at # "idle", NEW r \in Registry,
         Enrol(p, r) \/ Strike(p, r) \/ UNCHANGED host
  PROVE  /\ host' \in [Process -> [Registry -> SUBSET Adapter]]
         /\ \A q \in Process \ {p} : host'[q] = host[q]
         /\ \A t \in Registry : host'[p][t] \subseteq host[p][t] \cup {place[p].a}
         /\ \A t \in Registry \ {r} : host'[p][t] = host[p][t]
         /\ Enrol(p, r) => place[p].a \in host'[p][r]
         /\ UNCHANGED host \/ Enrol(p, r) => host[p][r] \subseteq host'[p][r]
<1>1. place[p].a \in Adapter /\ host \in [Process -> [Registry -> SUBSET Adapter]]
  BY HandFacts DEF IInv, Types
<1>. QED  BY <1>1 DEF Enrol, Strike

\* The adapter in hand changes its state.
LEMMA BecomesFacts ==
  ASSUME IInv, NEW p \in Process, NEW a \in Adapter, NEW s \in State, Becomes(p, a, s)
  PROVE  /\ adapter' \in [Process -> [Adapter -> State]]
         /\ \A q \in Process \ {p} : adapter'[q] = adapter[q]
         /\ adapter'[p][a] = s
         /\ \A b \in Adapter \ {a} : adapter'[p][b] = adapter[p][b]
<1>1. adapter \in [Process -> [Adapter -> State]]
  BY DEF IInv, Types
<1>. QED  BY <1>1 DEF Becomes

-----------------------------------------------------------------------------
(* The steps of KVTransferHostAdapter.start.                               *)

\* The calls at the two registries: the next step is "start_failed", "undo_v1"
\* or one that needs the v1 registration, which is there.
LEMMA RegistryInv ==
  ASSUME IInv, NEW p \in Process, NEW raises \in BOOLEAN,
         RegisterV1(p, raises) \/ RegisterV2(p, raises) \/ UndoV1(p, raises)
  PROVE  IInv'
<1>1. PICK r \in Registry, step \in {"start_failed", "undo_v1", "register_v2", "connect"} :
        /\ Goto(p, step)
        /\ Enrol(p, r) \/ Strike(p, r) \/ UNCHANGED host
        /\ step \in {"register_v2", "connect"} =>
             \/ Enrol(p, r) /\ (r = "v1" \/ place[p].at = "register_v2")
             \/ UNCHANGED host /\ place[p].at = "register_v2"
        /\ place[p].at \in {"register_v1", "register_v2", "undo_v1"}
  BY DEF RegisterV1, RegisterV2, UndoV1, At, Registry
<1>2. p \in alive /\ place[p].at \in Registering /\ step \in Registering
      /\ place[p].at # "idle"
      /\ UNCHANGED <<alive, pid, _REGISTERED_PID, _ADAPTER, adapter, connected,
                     owner, stopped>>
  BY <1>1 DEF RegisterV1, RegisterV2, UndoV1, At, Registering, globals, objects
<1>3. /\ place' \in [Process -> Place]
      /\ place'[p].at = step /\ place'[p].a = place[p].a
      /\ \A q \in Process \ {p} : place'[q] = place[q]
  BY <1>1, <1>2, GotoFacts DEF IInv, Types
<1>4. /\ host' \in [Process -> [Registry -> SUBSET Adapter]]
      /\ \A q \in Process \ {p} : host'[q] = host[q]
      /\ \A t \in Registry : host'[p][t] \subseteq host[p][t] \cup {place[p].a}
      /\ \A t \in Registry \ {r} : host'[p][t] = host[p][t]
      /\ Enrol(p, r) => place[p].a \in host'[p][r]
      /\ UNCHANGED host \/ Enrol(p, r) => host[p][r] \subseteq host'[p][r]
  BY <1>1, <1>2, HostFacts
<1>5. Types'
  BY <1>2, <1>3, <1>4 DEF IInv, Types
<1>6. \A q \in Process \ {p} : Same(q)
  BY <1>2, <1>3, <1>4, OthersSame
<1>7. Owned(p)'
  BY <1>2, <1>3, <1>4, OwnedKept
<1>8. Named(p)'
  BY <1>2, <1>3 DEF IInv, Named, Registering, Stopping
<1>9. Single(p)'
  BY <1>1, <1>2, <1>3 DEF IInv, Single, Own, Constructed
<1>10. Reached(p)'
  <2>1. step \in {"register_v2", "connect"} => place[p].a \in host'[p]["v1"]
    BY <1>1, <1>2, <1>4 DEF IInv, Reached, Registry
  <2>. QED  BY <1>3, <2>1 DEF Reached
<1>. QED  BY <1>5, <1>6, <1>7, <1>8, <1>9, <1>10, OneProcess DEF Facts

LEMMA ConnectInv ==
  ASSUME IInv, NEW p \in Process, Connect(p)
  PROVE  IInv'
<1>1. /\ p \in alive /\ place[p].at = "connect" /\ Goto(p, "activate")
      /\ connected' = [connected EXCEPT ![p] = @ \cup {place[p].a}]
      /\ UNCHANGED <<alive, pid, _REGISTERED_PID, _ADAPTER, adapter, host,
                     owner, stopped>>
  BY DEF Connect, At, globals
<1>2. /\ place' \in [Process -> Place]
      /\ place'[p].at = "activate" /\ place'[p].a = place[p].a
      /\ \A q \in Process \ {p} : place'[q] = place[q]
  BY <1>1, GotoFacts DEF IInv, Types, Registering
<1>3. /\ connected' \in [Process -> SUBSET Adapter]
      /\ connected'[p] = connected[p] \cup {place[p].a}
      /\ \A q \in Process \ {p} : connected'[q] = connected[q]
  BY <1>1, HandFacts DEF IInv, Types
<1>4. Types'
  BY <1>1, <1>2, <1>3 DEF IInv, Types
<1>5. \A q \in Process \ {p} : Same(q)
  BY <1>1, <1>2, <1>3, OthersSame
<1>6. Owned(p)'
  BY <1>1, <1>2, OwnedKept
<1>7. Named(p)'
  BY <1>1, <1>2 DEF IInv, Named, Registering, Stopping
<1>8. Single(p)'
  BY <1>1, <1>2 DEF IInv, Single, Own, Constructed
<1>9. Reached(p)'
  BY <1>1, <1>2, <1>3 DEF IInv, Reached
<1>. QED  BY <1>4, <1>5, <1>6, <1>7, <1>8, <1>9, OneProcess DEF Facts

LEMMA ActivateInv ==
  ASSUME IInv, NEW p \in Process, Activate(p)
  PROVE  IInv'
<1>1. /\ p \in alive /\ place[p].at = "activate" /\ Goto(p, "publish")
      /\ Becomes(p, place[p].a, "active")
      /\ UNCHANGED <<alive, pid, _REGISTERED_PID, _ADAPTER, connected, host,
                     owner, stopped>>
  BY DEF Activate, At, globals
<1>2. /\ place' \in [Process -> Place]
      /\ place'[p].at = "publish" /\ place'[p].a = place[p].a
      /\ \A q \in Process \ {p} : place'[q] = place[q]
  BY <1>1, GotoFacts DEF IInv, Types, Registering
<1>3. /\ adapter' \in [Process -> [Adapter -> State]]
      /\ \A q \in Process \ {p} : adapter'[q] = adapter[q]
      /\ adapter'[p][place[p].a] = "active"
      /\ \A b \in Adapter \ {place[p].a} : adapter'[p][b] = adapter[p][b]
  BY <1>1, HandFacts, BecomesFacts DEF State
<1>4. Types'
  BY <1>1, <1>2, <1>3 DEF IInv, Types
<1>5. \A q \in Process \ {p} : Same(q)
  BY <1>1, <1>2, <1>3, OthersSame
<1>6. Owned(p)'
  BY <1>1, <1>2, OwnedKept
<1>7. Named(p)'
  BY <1>1, <1>2 DEF IInv, Named, Registering, Stopping
<1>8. Single(p)'
  BY <1>1, <1>2, <1>3 DEF IInv, Single, Own, Constructed
<1>9. Reached(p)'
  BY <1>1, <1>2, <1>3 DEF IInv, Reached
<1>. QED  BY <1>4, <1>5, <1>6, <1>7, <1>8, <1>9, OneProcess DEF Facts

LEMMA StartFailedInv ==
  ASSUME IInv, NEW p \in Process, StartFailed(p)
  PROVE  IInv'
<1>1. /\ p \in alive /\ place[p].at = "start_failed"
      /\ place' = [place EXCEPT ![p] = Idle]
      /\ Becomes(p, place[p].a, "stopped")
      /\ UNCHANGED <<alive, pid, _REGISTERED_PID, _ADAPTER, connected, host,
                     owner, stopped>>
  BY DEF StartFailed, At, globals
<1>2. /\ place' \in [Process -> Place]
      /\ place'[p].at = "idle"
      /\ \A q \in Process \ {p} : place'[q] = place[q]
  BY <1>1 DEF IInv, Types, Place, Idle
<1>3. /\ adapter' \in [Process -> [Adapter -> State]]
      /\ \A q \in Process \ {p} : adapter'[q] = adapter[q]
      /\ adapter'[p][place[p].a] = "stopped"
      /\ \A b \in Adapter \ {place[p].a} : adapter'[p][b] = adapter[p][b]
  BY <1>1, HandFacts, BecomesFacts DEF State
<1>4. Types'
  BY <1>1, <1>2, <1>3 DEF IInv, Types
<1>5. \A q \in Process \ {p} : Same(q)
  BY <1>1, <1>2, <1>3, OthersSame
<1>6. Owned(p)'
  BY <1>1, <1>2, OwnedKept
<1>7. /\ _ADAPTER[p] = None /\ _REGISTERED_PID[p] = None
      /\ pid[p] # None
  BY <1>1, PidAssumption DEF IInv, Types, Named, Registering
<1>8. Named(p)'
  BY <1>1, <1>2, <1>7 DEF Named, Registering, Stopping
<1>9. Single(p)'
  BY <1>1, <1>2, <1>3 DEF IInv, Single, Own, Constructed
<1>10. Reached(p)'
  BY <1>1, <1>2, <1>7 DEF Reached
<1>. QED  BY <1>4, <1>5, <1>6, <1>8, <1>9, <1>10, OneProcess DEF Facts

-----------------------------------------------------------------------------
(* The globals of the module.                                              *)

LEMMA PublishInv ==
  ASSUME IInv, NEW p \in Process, Publish(p)
  PROVE  IInv'
<1>1. /\ p \in alive /\ place[p].at = "publish" /\ Goto(p, "mark")
      /\ _ADAPTER' = [_ADAPTER EXCEPT ![p] = place[p].a]
      /\ UNCHANGED <<alive, pid, _REGISTERED_PID, adapter, connected, host,
                     owner, stopped>>
  BY DEF Publish, At, objects
<1>2. /\ place' \in [Process -> Place]
      /\ place'[p].at = "mark" /\ place'[p].a = place[p].a
      /\ \A q \in Process \ {p} : place'[q] = place[q]
  BY <1>1, GotoFacts DEF IInv, Types, Registering
<1>3. /\ _ADAPTER' \in [Process -> Adapter \cup {None}]
      /\ _ADAPTER'[p] = place[p].a
      /\ \A q \in Process \ {p} : _ADAPTER'[q] = _ADAPTER[q]
  BY <1>1, HandFacts DEF IInv, Types
<1>4. Types'
  BY <1>1, <1>2, <1>3 DEF IInv, Types
<1>5. \A q \in Process \ {p} : Same(q)
  BY <1>1, <1>2, <1>3, OthersSame
<1>6. Owned(p)'
  BY <1>1, <1>2, <1>3, OwnedKept
<1>7. _ADAPTER[p] = None /\ _REGISTERED_PID[p] = None
  BY <1>1 DEF IInv, Named, Registering
<1>8. Named(p)'
  BY <1>1, <1>2, <1>3, <1>7 DEF Named, Registering, Stopping
<1>9. Single(p)'
  <2>1. ASSUME NEW b \in Adapter, Own(p, b), adapter[p][b] = "active"
        PROVE  b = place[p].a
    BY <1>1, <1>7, <2>1 DEF IInv, Single, None, Adapter
  <2>. QED  BY <1>1, <1>2, <1>3, <2>1 DEF Single, Own, Constructed
<1>10. Reached(p)'
  BY <1>1, <1>2 DEF IInv, Reached
<1>. QED  BY <1>4, <1>5, <1>6, <1>8, <1>9, <1>10, OneProcess DEF Facts

LEMMA MarkInv ==
  ASSUME IInv, NEW p \in Process, Mark(p)
  PROVE  IInv'
<1>1. /\ p \in alive /\ place[p].at = "mark"
      /\ place' = [place EXCEPT ![p] = Idle]
      /\ _REGISTERED_PID' = [_REGISTERED_PID EXCEPT ![p] = pid[p]]
      /\ stopped' = [stopped EXCEPT ![p] = "none"]
      /\ UNCHANGED <<alive, pid, _ADAPTER, adapter, connected, host, owner>>
  BY DEF Mark, RememberPid, At, objects
<1>2. /\ place' \in [Process -> Place]
      /\ place'[p].at = "idle"
      /\ \A q \in Process \ {p} : place'[q] = place[q]
  BY <1>1 DEF IInv, Types, Place, Idle
<1>3. /\ _REGISTERED_PID' \in [Process -> Pid \cup {None}]
      /\ _REGISTERED_PID'[p] = pid[p]
      /\ \A q \in Process \ {p} : _REGISTERED_PID'[q] = _REGISTERED_PID[q]
      /\ stopped' \in [Process -> {"none", "true", "false"}]
      /\ \A q \in Process \ {p} : stopped'[q] = stopped[q]
      /\ pid[p] # None
  BY <1>1, PidAssumption DEF IInv, Types
<1>4. Types'
  BY <1>1, <1>2, <1>3 DEF IInv, Types
<1>5. \A q \in Process \ {p} : Same(q)
  BY <1>1, <1>2, <1>3, OthersSame
<1>6. Owned(p)'
  BY <1>1, <1>2, OwnedKept
<1>7. _ADAPTER[p] = place[p].a /\ _ADAPTER[p] # None /\ place[p].a \in Adapter
  BY <1>1, HandFacts DEF IInv, Named, None, Adapter
<1>8. Named(p)'
  BY <1>1, <1>2, <1>3, <1>7 DEF Named, Registering, Stopping
<1>9. Single(p)'
  BY <1>1, <1>2 DEF IInv, Single, Own, Constructed
<1>10. Reached(p)'
  <2>1. _ADAPTER[p] \in Serving(p)
    BY <1>1, <1>7 DEF IInv, Reached, Serving
  <2>. QED  BY <1>1, <1>2, <2>1 DEF Reached, Serving
<1>. QED  BY <1>4, <1>5, <1>6, <1>8, <1>9, <1>10, OneProcess DEF Facts

-----------------------------------------------------------------------------
(* stop_plugin                                                             *)

LEMMA StopPluginInv ==
  ASSUME IInv, NEW p \in Process, StopPlugin(p)
  PROVE  IInv'
<1>. PICK a \in Adapter \cup {None} : a = _ADAPTER[p]
  BY DEF IInv, Types
<1>1. /\ p \in alive /\ place[p].at = "idle" /\ a # None /\ a \in Adapter
      /\ UNCHANGED <<alive, pid, _REGISTERED_PID, _ADAPTER, connected, host,
                     owner, stopped>>
  BY DEF StopPlugin, At, globals
<1>2. \/ /\ adapter[p][a] = "stopped" /\ UNCHANGED adapter
         /\ place' = [place EXCEPT ![p] = [at |-> "clear", a |-> a]]
      \/ /\ Becomes(p, a, "stopping")
         /\ \E step \in {"disconnect", "close"} :
              place' = [place EXCEPT ![p] = [at |-> step, a |-> a, ok |-> TRUE]]
  BY DEF StopPlugin
<1>3. /\ place' \in [Process -> Place]
      /\ place'[p].at \in {"clear", "disconnect", "close"} /\ place'[p].a = a
      /\ place'[p].at = "clear" => adapter[p][a] = "stopped" /\ UNCHANGED adapter
      /\ \A q \in Process \ {p} : place'[q] = place[q]
  <2>1. CASE /\ adapter[p][a] = "stopped" /\ UNCHANGED adapter
             /\ place' = [place EXCEPT ![p] = [at |-> "clear", a |-> a]]
    <3>1. [at |-> "clear", a |-> a] \in Place
      BY <1>1 DEF Place
    <3>. QED  BY <2>1, <3>1 DEF IInv, Types
  <2>2. CASE \E step \in {"disconnect", "close"} :
               place' = [place EXCEPT ![p] = [at |-> step, a |-> a, ok |-> TRUE]]
    <3>1. PICK step \in {"disconnect", "close"} :
            place' = [place EXCEPT ![p] = [at |-> step, a |-> a, ok |-> TRUE]]
      BY <2>2
    <3>2. [at |-> step, a |-> a, ok |-> TRUE] \in Place
      BY <1>1 DEF Place, Stopping
    <3>. QED  BY <3>1, <3>2 DEF IInv, Types
  <2>. QED  BY <1>2, <2>1, <2>2
<1>4. /\ adapter' \in [Process -> [Adapter -> State]]
      /\ \A q \in Process \ {p} : adapter'[q] = adapter[q]
      /\ \A b \in Adapter : adapter'[p][b] \in {adapter[p][b], "stopping"}
  <2>1. CASE UNCHANGED adapter
    BY <2>1 DEF IInv, Types
  <2>2. CASE Becomes(p, a, "stopping")
    <3>1. /\ adapter' \in [Process -> [Adapter -> State]]
          /\ \A q \in Process \ {p} : adapter'[q] = adapter[q]
          /\ adapter'[p][a] = "stopping"
          /\ \A b \in Adapter \ {a} : adapter'[p][b] = adapter[p][b]
      BY <1>1, <2>2, BecomesFacts DEF State
    <3>. QED  BY <3>1
  <2>. QED  BY <1>2, <2>1, <2>2
<1>5. Types'
  BY <1>1, <1>3, <1>4 DEF IInv, Types
<1>6. \A q \in Process \ {p} : Same(q)
  BY <1>1, <1>3, <1>4, OthersSame
<1>7. Owned(p)'
  <2>1. Owned(p) /\ Own(p, a)
    BY <1>1 DEF IInv, Owned
  <2>. QED  BY <1>1, <1>3, <2>1 DEF Owned, Own, Constructed
<1>8. Named(p)'
  BY <1>1, <1>3 DEF IInv, Named, Registering, Stopping
<1>9. Single(p)'
  <2>1. ASSUME NEW b \in Adapter, Own(p, b), adapter'[p][b] = "active"
        PROVE  b = _ADAPTER[p]
    BY <1>1, <1>4, <2>1 DEF IInv, Single
  <2>2. place'[p].at = "clear" => adapter'[p][a] = "stopped"
    BY <1>3
  <2>. QED  BY <1>1, <1>3, <2>1, <2>2 DEF Single, Own, Constructed
<1>10. Reached(p)'
  BY <1>3 DEF Reached
<1>. QED  BY <1>5, <1>6, <1>7, <1>8, <1>9, <1>10, OneProcess DEF Facts

\* The steps between StopPlugin and Close, which only take a registration or
\* the callbacks away.
LEMMA StoppingInv ==
  ASSUME IInv, NEW p \in Process, p \in alive, place[p].at \in Stopping,
         place' \in [Process -> Place],
         place'[p].at \in Stopping, place'[p].a = place[p].a,
         \A q \in Process \ {p} : place'[q] = place[q],
         connected' \in [Process -> SUBSET Adapter],
         \A q \in Process \ {p} : connected'[q] = connected[q],
         NEW r \in Registry, Strike(p, r) \/ UNCHANGED host,
         UNCHANGED <<alive, pid, _REGISTERED_PID, _ADAPTER, adapter, owner, stopped>>
  PROVE  IInv'
<1>1. place[p].at # "idle" /\ place[p].at # "publish"
      /\ place'[p].at # "idle" /\ place'[p].at # "clear"
  BY DEF Stopping
<1>2. /\ host' \in [Process -> [Registry -> SUBSET Adapter]]
      /\ \A q \in Process \ {p} : host'[q] = host[q]
      /\ \A t \in Registry : host'[p][t] \subseteq host[p][t] \cup {place[p].a}
  BY <1>1, HostFacts
<1>3. Types'
  BY <1>2 DEF IInv, Types
<1>4. \A q \in Process \ {p} : Same(q)
  BY <1>2, OthersSame
<1>5. Owned(p)'
  BY <1>1, <1>2, OwnedKept
<1>6. Named(p)'
  BY DEF IInv, Named, Registering, Stopping
<1>7. Single(p)'
  BY <1>1 DEF IInv, Single, Own, Constructed
<1>8. Reached(p)'
  BY <1>1 DEF Reached, Stopping
<1>. QED  BY <1>3, <1>4, <1>5, <1>6, <1>7, <1>8, OneProcess DEF Facts

LEMMA DisconnectInv ==
  ASSUME IInv, NEW p \in Process, Disconnect(p)
  PROVE  IInv'
<1>1. PICK step \in {"unregister_v2", "unregister_v1"} :
        /\ p \in alive /\ place[p].at = "disconnect" /\ Goto(p, step)
        /\ connected' = [connected EXCEPT ![p] = @ \ {place[p].a}]
        /\ UNCHANGED <<alive, pid, _REGISTERED_PID, _ADAPTER, adapter, host,
                       owner, stopped>>
  BY DEF Disconnect, At, globals
<1>2. /\ place' \in [Process -> Place]
      /\ place'[p].at = step /\ place'[p].a = place[p].a
      /\ \A q \in Process \ {p} : place'[q] = place[q]
  BY <1>1, GotoFacts DEF IInv, Types, Stopping
<1>3. /\ connected' \in [Process -> SUBSET Adapter]
      /\ \A q \in Process \ {p} : connected'[q] = connected[q]
  BY <1>1 DEF IInv, Types
<1>4. "v1" \in Registry
  BY DEF Registry
<1>. QED  BY <1>1, <1>2, <1>3, <1>4, StoppingInv DEF Stopping

LEMMA UnregisterInv ==
  ASSUME IInv, NEW p \in Process, NEW r \in Registry, NEW raises \in BOOLEAN,
         Unregister(p, r, raises)
  PROVE  IInv'
<1>1. PICK step \in {"unregister_v1", "close"} :
        /\ p \in alive /\ place[p].at \in {"unregister_v2", "unregister_v1"}
        /\ place' = [place EXCEPT ![p].at = step, ![p].ok = @ /\ ~raises]
        /\ Strike(p, r) \/ UNCHANGED host
        /\ UNCHANGED <<alive, pid, _REGISTERED_PID, _ADAPTER, adapter, connected,
                       owner, stopped>>
  BY DEF Unregister, At, globals, objects
<1>2. place[p] \in [at : Stopping, a : Adapter, ok : BOOLEAN]
  <2>1. place[p] \in Place
    BY DEF IInv, Types
  <2>. QED  BY <1>1, <2>1 DEF Place, Idle, Registering, Stopping
<1>3. place'[p] = [at |-> step, a |-> place[p].a, ok |-> place[p].ok /\ ~raises]
      /\ \A q \in Process \ {p} : place'[q] = place[q]
  BY <1>1, <1>2 DEF IInv, Types
<1>4. place' \in [Process -> Place]
  BY <1>1, <1>2, <1>3 DEF IInv, Types, Place, Stopping
<1>5. /\ place[p].at \in Stopping
      /\ place'[p].at \in Stopping /\ place'[p].a = place[p].a
  BY <1>1, <1>3 DEF Stopping
<1>6. connected' \in [Process -> SUBSET Adapter]
  BY <1>1 DEF IInv, Types
<1>. QED  BY <1>1, <1>3, <1>4, <1>5, <1>6, StoppingInv

LEMMA CloseInv ==
  ASSUME IInv, NEW p \in Process, NEW errs \in BOOLEAN, Close(p, errs)
  PROVE  IInv'
<1>. PICK a \in Adapter : a = place[p].a
  BY HandFacts DEF Close, At
<1>1. /\ p \in alive /\ place[p].at = "close"
      /\ UNCHANGED <<alive, pid, _REGISTERED_PID, _ADAPTER, connected, host, owner>>
  BY DEF Close, At, globals
<1>2. PICK s \in {"stopping", "stopped"} :
        /\ Becomes(p, a, s)
        /\ \/ /\ s = "stopped" /\ UNCHANGED stopped
              /\ place' = [place EXCEPT ![p] = [at |-> "clear", a |-> a]]
           \/ /\ place' = [place EXCEPT ![p] = Idle]
              /\ stopped' = [stopped EXCEPT ![p] = "false"]
  <2>1. CASE place[p].ok /\ ~errs /\ a \notin writing[p]
    BY <2>1 DEF Close, AfterClose, IInv, Types
  <2>2. CASE ~(place[p].ok /\ ~errs /\ a \notin writing[p])
    BY <2>2 DEF Close, AfterClose
  <2>. QED  BY <2>1, <2>2
<1>3. /\ place' \in [Process -> Place]
      /\ place'[p].at \in {"clear", "idle"}
      /\ place'[p].at = "clear" => s = "stopped" /\ place'[p].a = a
      /\ place'[p].at = "idle" => stopped'[p] = "false"
      /\ \A q \in Process \ {p} : place'[q] = place[q]
      /\ stopped' \in [Process -> {"none", "true", "false"}]
      /\ \A q \in Process \ {p} : stopped'[q] = stopped[q]
  <2>1. Idle \in Place /\ [at |-> "clear", a |-> a] \in Place
    BY DEF Place
  <2>2. place \in [Process -> Place] /\ stopped \in [Process -> {"none", "true", "false"}]
    BY DEF IInv, Types
  <2>3. CASE place' = [place EXCEPT ![p] = Idle]
    BY <1>2, <2>1, <2>2, <2>3 DEF Idle
  <2>4. CASE place' = [place EXCEPT ![p] = [at |-> "clear", a |-> a]]
    BY <1>2, <2>1, <2>2, <2>4 DEF Idle
  <2>. QED  BY <1>2, <2>3, <2>4
<1>4. /\ adapter' \in [Process -> [Adapter -> State]]
      /\ \A q \in Process \ {p} : adapter'[q] = adapter[q]
      /\ adapter'[p][a] = s
      /\ \A b \in Adapter \ {a} : adapter'[p][b] = adapter[p][b]
  BY <1>2, BecomesFacts DEF State
<1>5. Types'
  BY <1>1, <1>3, <1>4 DEF IInv, Types
<1>6. \A q \in Process \ {p} : Same(q)
  BY <1>1, <1>3, <1>4, OthersSame
<1>7. Owned(p)'
  BY <1>1, <1>3, OwnedKept
<1>8. /\ _ADAPTER[p] = a /\ _REGISTERED_PID[p] = pid[p]
      /\ a # None /\ pid[p] # None
  BY <1>1, PidAssumption DEF IInv, Types, Named, Stopping, None, Adapter
<1>9. Named(p)'
  BY <1>1, <1>3, <1>8 DEF Named, Registering, Stopping
<1>10. Single(p)'
  BY <1>1, <1>3, <1>4 DEF IInv, Single, Own, Constructed
<1>11. Reached(p)'
  BY <1>3 DEF Reached
<1>. QED  BY <1>5, <1>6, <1>7, <1>9, <1>10, <1>11, OneProcess DEF Facts

LEMMA ClearInv ==
  ASSUME IInv, NEW p \in Process, Clear(p)
  PROVE  IInv'
<1>1. /\ p \in alive /\ place[p].at = "clear"
      /\ place' = [place EXCEPT ![p] = Idle]
      /\ _ADAPTER' = [_ADAPTER EXCEPT ![p] = None]
      /\ _REGISTERED_PID' = [_REGISTERED_PID EXCEPT ![p] = None]
      /\ stopped' = [stopped EXCEPT ![p] = "true"]
      /\ UNCHANGED <<alive, pid, adapter, connected, host, owner>>
  BY DEF Clear, ClearGlobals, At, objects
<1>2. /\ place' \in [Process -> Place]
      /\ place'[p].at = "idle"
      /\ \A q \in Process \ {p} : place'[q] = place[q]
  BY <1>1 DEF IInv, Types, Place, Idle
<1>3. /\ _REGISTERED_PID' \in [Process -> Pid \cup {None}]
      /\ _REGISTERED_PID'[p] = None
      /\ \A q \in Process \ {p} : _REGISTERED_PID'[q] = _REGISTERED_PID[q]
      /\ _ADAPTER' \in [Process -> Adapter \cup {None}]
      /\ _ADAPTER'[p] = None
      /\ \A q \in Process \ {p} : _ADAPTER'[q] = _ADAPTER[q]
      /\ stopped' \in [Process -> {"none", "true", "false"}]
      /\ \A q \in Process \ {p} : stopped'[q] = stopped[q]
      /\ pid[p] # None
  BY <1>1, PidAssumption DEF IInv, Types
<1>4. Types'
  BY <1>1, <1>2, <1>3 DEF IInv, Types
<1>5. \A q \in Process \ {p} : Same(q)
  BY <1>1, <1>2, <1>3, OthersSame
<1>6. Owned(p)'
  BY <1>1, <1>2, <1>3, OwnedKept
<1>7. Named(p)'
  BY <1>1, <1>2, <1>3 DEF Named, Registering, Stopping
<1>8. Single(p)'
  <2>1. ASSUME NEW b \in Adapter, Own(p, b)
        PROVE  adapter[p][b] # "active"
    BY <1>1, <2>1 DEF IInv, Single, Named
  <2>. QED  BY <1>1, <1>2, <2>1 DEF Single, Own, Constructed
<1>9. Reached(p)'
  BY <1>1, <1>2, <1>3 DEF Reached
<1>. QED  BY <1>4, <1>5, <1>6, <1>7, <1>8, <1>9, OneProcess DEF Facts

-----------------------------------------------------------------------------
(* Processes come and go.                                                  *)

\* The writers and their descriptors are not part of the argument.
LEMMA QuietInv ==
  ASSUME IInv, alive' \subseteq alive,
         UNCHANGED <<pid, _REGISTERED_PID, _ADAPTER, place, adapter, connected, host,
                     owner, stopped>>
  PROVE  IInv'
<1>1. Types'
  BY DEF IInv, Types
<1>2. \A r \in Process : Same(r)
  BY DEF Same, Own, Constructed
<1>3. \A r \in Process : Facts(r)'
  BY <1>2, SameFacts
<1>. QED  BY <1>1, <1>3 DEF IInv, Facts, Types

\* The pid of the child is not the one its parent remembers, so the hook drops
\* what the parent published; what it had not published it has not registered
\* with the child's host.
LEMMA ForkInv ==
  ASSUME IInv, NEW p \in Process, NEW q \in Process, Fork(p, q)
  PROVE  IInv'
<1>1. PICK n \in Pid \ {pid[r] : r \in alive} : pid' = [pid EXCEPT ![q] = n]
  BY DEF Fork
<1>2. /\ p \in alive /\ q \notin alive /\ p # q
      /\ \A a \in Constructed : owner[a] # q
      /\ alive' = alive \cup {q}
      /\ connected' = [connected EXCEPT ![q] = connected[p]]
      /\ UNCHANGED <<place, host, owner, stopped>>
  BY DEF Fork
<1>3. /\ pid' \in [Process -> Pid] /\ pid'[q] = n
      /\ \A r \in Process \ {q} : pid'[r] = pid[r]
  BY <1>1 DEF IInv, Types
<1>4. n # pid[p] /\ n # None
  BY <1>1, <1>2, PidAssumption
<1>5. pid'[q] # _REGISTERED_PID[p]
  BY <1>2, <1>3, <1>4 DEF IInv, Named
<1>6. /\ _ADAPTER' = [_ADAPTER EXCEPT ![q] = None]
      /\ _REGISTERED_PID' = [_REGISTERED_PID EXCEPT ![q] = None]
      /\ \E child \in [Adapter -> State] : adapter' = [adapter EXCEPT ![q] = child]
  <2>1. AfterForkInChild(p, q)
    BY DEF Fork
  <2>2. \A a \in Adapter : adapter[p][a] \in State
    BY DEF IInv, Types
  <2>3. [a \in Adapter |-> IF a \in Inherited(p, q) THEN "stopped" ELSE adapter[p][a]]
          \in [Adapter -> State]
    BY <2>2 DEF State
  <2>. QED  BY <1>5, <2>1, <2>3 DEF AfterForkInChild
<1>7. Types'
  <2>1. adapter' \in [Process -> [Adapter -> State]]
    BY <1>6 DEF IInv, Types
  <2>2. connected' \in [Process -> SUBSET Adapter]
    BY <1>2 DEF IInv, Types
  <2>. QED  BY <1>2, <1>3, <1>6, <2>1, <2>2 DEF IInv, Types
<1>8. /\ _ADAPTER'[q] = None /\ _REGISTERED_PID'[q] = None
      /\ \A r \in Process \ {q} :
           /\ _ADAPTER'[r] = _ADAPTER[r] /\ _REGISTERED_PID'[r] = _REGISTERED_PID[r]
           /\ adapter'[r] = adapter[r] /\ connected'[r] = connected[r]
  BY <1>2, <1>6 DEF IInv, Types
<1>9. \A r \in Process \ {q} : Same(r)
  BY <1>2, <1>3, <1>8 DEF Same, Own, Constructed
<1>10. \A a : ~Own(q, a)
  BY <1>2 DEF Own
<1>11. place[q].at = "idle"
  BY <1>10 DEF IInv, Owned
<1>12. Owned(q)'
  <2>1. Owned(q)
    BY DEF IInv
  <2>. QED  BY <1>2, <1>8, <1>11, <2>1 DEF Owned, Own, Constructed
<1>13. Named(q)'
  BY <1>2, <1>8, <1>11 DEF Named, Registering, Stopping
<1>14. Single(q)'
  BY <1>2, <1>10, <1>11 DEF Single, Own, Constructed
<1>15. Reached(q)'
  BY <1>2, <1>3, <1>4, <1>8, <1>11 DEF Reached
<1>. QED  BY <1>7, <1>9, <1>12, <1>13, <1>14, <1>15, OneProcess DEF Facts

-----------------------------------------------------------------------------
LEMMA InitInv == Init => IInv
<1>. SUFFICES ASSUME Init PROVE IInv
  OBVIOUS
<1>1. \A p \in Process :
        /\ place[p].at = "idle" /\ _REGISTERED_PID[p] = None /\ _ADAPTER[p] = None
        /\ \A r \in Registry : host[p][r] = {}
        /\ \A a : ~Own(p, a)
  BY DEF Init, Idle, Own, Constructed
<1>2. Types
  <2>1. alive \in SUBSET Process
    BY ForkAssumption DEF Init
  <2>2. place \in [Process -> Place] /\ adapter \in [Process -> [Adapter -> State]]
    BY DEF Init, Place, State
  <2>3. owner \in [1 .. 0 -> Process] /\ 0 \in 0 .. MaxAdapters
    BY ForkAssumption DEF Init
  <2>4. /\ connected \in [Process -> SUBSET Adapter]
        /\ host \in [Process -> [Registry -> SUBSET Adapter]]
        /\ stopped \in [Process -> {"none", "true", "false"}]
        /\ pid \in [Process -> Pid]
        /\ _REGISTERED_PID \in [Process -> Pid \cup {None}]
        /\ _ADAPTER \in [Process -> Adapter \cup {None}]
    BY DEF Init
  <2>. QED  BY <2>1, <2>2, <2>3, <2>4 DEF Types
<1>3. \A p \in Process : Owned(p)
  BY <1>1 DEF Owned
<1>4. \A p \in alive : Named(p) /\ Single(p) /\ Reached(p)
  <2>. SUFFICES ASSUME NEW p \in alive PROVE Named(p) /\ Single(p) /\ Reached(p)
    OBVIOUS
  <2>1. p \in Process /\ pid[p] # None
    BY <1>2, PidAssumption DEF Types
  <2>. QED  BY <1>1, <2>1 DEF Named, Single, Reached, Registering, Stopping
<1>. QED  BY <1>2, <1>3, <1>4 DEF IInv

LEMMA NextInv == IInv /\ [Next]_vars => IInv'
<1>. SUFFICES ASSUME IInv, [Next]_vars PROVE IInv'
  OBVIOUS
<1>1. CASE UNCHANGED vars
  BY <1>1, QuietInv DEF vars, globals, objects
<1>2. CASE \E p, q \in Process : Fork(p, q)
  BY <1>2, ForkInv
<1>3. ASSUME NEW p \in Process, RegisterPlugin(p) \/ StopPlugin(p) \/ Proceed(p)
      PROVE  IInv'
  BY <1>3, RegisterPluginInv, StopPluginInv, RegistryInv, UnregisterInv, CloseInv,
     ConnectInv, ActivateInv, StartFailedInv, PublishInv, MarkInv, DisconnectInv,
     ClearInv DEF Proceed
<1>4. ASSUME NEW p \in Process, Dies(p) \/ \E a \in Adapter : WriterExits(p, a)
      PROVE  IInv'
  BY <1>4, QuietInv DEF Dies, WriterExits, globals, objects
<1>. QED  BY <1>1, <1>2, <1>3, <1>4 DEF Next

\* The inductive invariant: what a process owns, remembers and serves with, at
\* each step of its calls.
THEOREM Invariance == Spec => []IInv
BY InitInv, NextInv, PTL DEF Spec

\* Whatever fails and forks, the adapter that serves a process was constructed
\* by it and is the one that stop_plugin reaches.
THEOREM ServingAdapterIsOwn == Spec => []ServingIsOwned
BY ServingFollows, Invariance, PTL

\* A process that counts as registered is served, unless a stop_plugin failed
\* and was not repeated.
THEOREM RegisteredIsServed == Spec => []RegisteredServes
BY RegisteredFollows, Invariance, PTL
=============================================================================
