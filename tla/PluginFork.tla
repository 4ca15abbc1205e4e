----------------------------- MODULE PluginFork -----------------------------
(***************************************************************************)
(* plugin.py in a tree of processes: register_plugin, stop_plugin and the  *)
(* hook that runs in a forked child, together with what they drive:        *)
(* KVTransferHostAdapter.start and stop, and register and unregister of    *)
(* the binding at the host's two observer registries.                      *)
(*                                                                         *)
(* The loader, stop_plugin and atexit run in one thread of a process, so   *)
(* its calls follow each other; place[p] is where that thread is.  Another *)
(* thread of the host may fork at any moment.  The child has a copy of     *)
(* every object but only the forking thread; the host's registries discard *)
(* what they inherited (docs/current_host_compatibility.md).               *)
(*                                                                         *)
(* An adapter, its binding, its writers and their descriptors are one      *)
(* number; HostAdapter, EventSink and DescriptorCapture have the detail.   *)
(***************************************************************************)
EXTENDS Integers, FiniteSets

CONSTANTS
  Process,       \* process incarnations
  First,         \* the process that exists at the start
  Pid,           \* process ids, reused after a death
  Correlated,    \* does the host offer the correlated (v2) registry?
  MaxAdapters    \* bound of the model: adapters constructed

ASSUME ForkAssumption ==
  /\ First \in Process
  /\ Correlated \in BOOLEAN
  /\ MaxAdapters \in Nat

VARIABLES
  alive, pid,
  _REGISTERED_PID, _ADAPTER,   \* the module's globals, per process
  place,       \* the step of register_plugin or stop_plugin, and its locals
  adapter,     \* process -> adapter -> state of this process's copy
  bound,       \* process -> adapters whose _binding and _handle are set
  connected,   \* process -> bindings that have callbacks
  host,        \* external: process -> registry -> bindings registered there
  writing,     \* process -> adapters with a live writer thread
  held,        \* process -> adapters whose writer descriptors are open here
  owner,       \* history: adapter -> the process that constructed it
  stopped      \* history: what the last stop_plugin of this process returned

globals == <<_REGISTERED_PID, _ADAPTER>>
objects == <<adapter, bound, connected>>
threads == <<writing, held>>
vars == <<alive, pid, globals, place, objects, host, threads, owner, stopped>>

Adapter == 1 .. MaxAdapters
None == 0      \* no adapter, no registered pid
Registry == {"v1", "v2"}
Idle == [at |-> "idle"]

ASSUME PidAssumption == None \notin Pid

Constructed == DOMAIN owner

Init ==
  /\ alive = {First}
  /\ pid \in [Process -> Pid]
  /\ _REGISTERED_PID = [p \in Process |-> None]
  /\ _ADAPTER = [p \in Process |-> None]
  /\ place = [p \in Process |-> Idle]
  /\ adapter = [p \in Process |-> [a \in Adapter |-> "stopped"]]
  /\ bound = [p \in Process |-> {}]
  /\ connected = [p \in Process |-> {}]
  /\ host = [p \in Process |-> [r \in Registry |-> {}]]
  /\ writing = [p \in Process |-> {}]
  /\ held = [p \in Process |-> {}]
  /\ owner = [a \in {} |-> First]
  /\ stopped = [p \in Process |-> "none"]

At(p, step) == p \in alive /\ place[p].at = step
Goto(p, step) == place' = [place EXCEPT ![p].at = step]
Becomes(p, a, s) == adapter' = [adapter EXCEPT ![p][a] = s]

-----------------------------------------------------------------------------
(* register_plugin                                                         *)

\* (A call in a process that is registered returns at once; so does one
\* without activation, or one whose destinations cannot be opened.)
RegisterPlugin(p) ==
  LET a == Cardinality(Constructed) + 1 IN
  /\ At(p, "idle")
  /\ pid[p] # _REGISTERED_PID[p]
  /\ a \in Adapter
  /\ owner' = [b \in Constructed \cup {a} |-> IF b = a THEN p ELSE owner[b]]
  /\ Becomes(p, a, "starting")
  /\ writing' = [writing EXCEPT ![p] = @ \cup {a}]
  /\ held' = [held EXCEPT ![p] = @ \cup {a}]
  /\ place' = [place EXCEPT ![p] = [at |-> "register_v1", a |-> a]]
  /\ UNCHANGED <<alive, pid, globals, bound, connected, host, stopped>>

Enrol(p, r) == host' = [host EXCEPT ![p][r] = @ \cup {place[p].a}]
Strike(p, r) == host' = [host EXCEPT ![p][r] = @ \ {place[p].a}]

RegisterV1(p, raises) ==
  /\ At(p, "register_v1")
  /\ IF raises
       THEN Goto(p, "start_failed") /\ UNCHANGED host
       ELSE /\ Enrol(p, "v1")
            /\ Goto(p, IF Correlated THEN "register_v2" ELSE "connect")
  /\ UNCHANGED <<alive, pid, globals, objects, threads, owner, stopped>>

RegisterV2(p, raises) ==
  /\ At(p, "register_v2")
  /\ IF raises
       THEN Goto(p, "undo_v1") /\ UNCHANGED host
       ELSE Enrol(p, "v2") /\ Goto(p, "connect")
  /\ UNCHANGED <<alive, pid, globals, objects, threads, owner, stopped>>

\* unregister_kv_transfer_observer may raise too; start() fails either way.
UndoV1(p, raises) ==
  /\ At(p, "undo_v1")
  /\ IF raises THEN UNCHANGED host ELSE Strike(p, "v1")
  /\ Goto(p, "start_failed")
  /\ UNCHANGED <<alive, pid, globals, objects, threads, owner, stopped>>

Connect(p) ==
  /\ At(p, "connect")
  /\ connected' = [connected EXCEPT ![p] = @ \cup {place[p].a}]
  /\ Goto(p, "activate")
  /\ UNCHANGED <<alive, pid, globals, adapter, bound, host, threads, owner, stopped>>

Activate(p) ==
  /\ At(p, "activate")
  /\ Becomes(p, place[p].a, "active")
  /\ bound' = [bound EXCEPT ![p] = @ \cup {place[p].a}]
  /\ Goto(p, "publish")
  /\ UNCHANGED <<alive, pid, globals, connected, host, threads, owner, stopped>>

\* start() closes what it prepared and raises; its writers may outlive it.
StartFailed(p) ==
  /\ At(p, "start_failed")
  /\ Becomes(p, place[p].a, "stopped")
  /\ place' = [place EXCEPT ![p] = Idle]
  /\ UNCHANGED <<alive, pid, globals, bound, connected, host, threads, owner, stopped>>

Publish(p) ==
  /\ At(p, "publish")
  /\ _ADAPTER' = [_ADAPTER EXCEPT ![p] = place[p].a]
  /\ Goto(p, "mark")
  /\ UNCHANGED <<alive, pid, _REGISTERED_PID, objects, host, threads, owner, stopped>>

\* Mutant of RememberPid: a second call would register again.
RememberNothing(p) == UNCHANGED _REGISTERED_PID

RememberPid(p) == _REGISTERED_PID' = [_REGISTERED_PID EXCEPT ![p] = pid[p]]

Mark(p) ==
  /\ At(p, "mark")
  /\ RememberPid(p)
  /\ place' = [place EXCEPT ![p] = Idle]
  /\ stopped' = [stopped EXCEPT ![p] = "none"]
  /\ UNCHANGED <<alive, pid, _ADAPTER, objects, host, threads, owner>>

-----------------------------------------------------------------------------
(* stop_plugin                                                             *)

\* Without an adapter the call returns True; an adapter that is STOPPED
\* already makes stop() return True.
StopPlugin(p) ==
  LET a == _ADAPTER[p] IN
  /\ At(p, "idle")
  /\ a # None
  /\ IF adapter[p][a] = "stopped"
       THEN /\ place' = [place EXCEPT ![p] = [at |-> "clear", a |-> a]]
            /\ UNCHANGED adapter
       ELSE /\ place' = [place EXCEPT ![p] =
                 [at |-> IF a \in bound[p] THEN "disconnect" ELSE "close",
                  a |-> a, ok |-> TRUE]]
            /\ Becomes(p, a, "stopping")
  /\ UNCHANGED <<alive, pid, globals, bound, connected, host, threads, owner, stopped>>

Disconnect(p) ==
  /\ At(p, "disconnect")
  /\ connected' = [connected EXCEPT ![p] = @ \ {place[p].a}]
  /\ Goto(p, IF place[p].a \in host[p]["v2"] THEN "unregister_v2" ELSE "unregister_v1")
  /\ UNCHANGED <<alive, pid, globals, adapter, bound, host, threads, owner, stopped>>

\* The v1 registration is struck whether or not the v2 registry raises.
Unregister(p, r, raises) ==
  /\ At(p, IF r = "v2" THEN "unregister_v2" ELSE "unregister_v1")
  /\ IF raises THEN UNCHANGED host ELSE Strike(p, r)
  /\ place' = [place EXCEPT ![p].at = IF r = "v2" THEN "unregister_v1" ELSE "close",
                            ![p].ok = @ /\ ~raises]
  /\ UNCHANGED <<alive, pid, globals, objects, threads, owner, stopped>>

\* Mutant of AfterClose: the adapter is stopped only if nothing failed.
AfterCloseStrict(p, ok) == IF ok THEN "stopped" ELSE "stopping"

\* The adapter stays STOPPING only while a writer is in flight.
AfterClose(p, ok) == IF place[p].a \in writing[p] THEN "stopping" ELSE "stopped"

\* The resources are closed, within the timeout or not; a cleanup error makes
\* stop() return False although the writers are gone.
Close(p, errs) ==
  /\ At(p, "close")
  /\ LET a == place[p].a
         ok == place[p].ok /\ ~errs /\ a \notin writing[p]
     IN  /\ Becomes(p, a, AfterClose(p, ok))
         /\ bound' = [bound EXCEPT ![p] = @ \ {a}]
         /\ place' = [place EXCEPT ![p] = IF ok THEN [at |-> "clear", a |-> a] ELSE Idle]
         /\ stopped' = [stopped EXCEPT ![p] = IF ok THEN @ ELSE "false"]
  /\ UNCHANGED <<alive, pid, globals, connected, host, threads, owner>>

\* Mutant of ClearGlobals: the pid is kept.
ClearAdapter(p) ==
  _ADAPTER' = [_ADAPTER EXCEPT ![p] = None] /\ UNCHANGED _REGISTERED_PID

ClearGlobals(p) ==
  /\ _ADAPTER' = [_ADAPTER EXCEPT ![p] = None]
  /\ _REGISTERED_PID' = [_REGISTERED_PID EXCEPT ![p] = None]

Clear(p) ==
  /\ At(p, "clear")
  /\ ClearGlobals(p)
  /\ place' = [place EXCEPT ![p] = Idle]
  /\ stopped' = [stopped EXCEPT ![p] = "true"]
  /\ UNCHANGED <<alive, pid, objects, host, threads, owner>>

Unregistering(p, a) ==
  /\ place[p].at \in {"disconnect", "unregister_v2", "unregister_v1"}
  /\ place[p].a = a

\* A writer whose resources are being closed drains, exits and closes its
\* descriptors.
WriterExits(p, a) ==
  /\ p \in alive
  /\ a \in writing[p]
  /\ \/ At(p, "start_failed") /\ place[p].a = a
     \/ adapter[p][a] = "stopped"
     \/ adapter[p][a] = "stopping" /\ ~Unregistering(p, a)
  /\ writing' = [writing EXCEPT ![p] = @ \ {a}]
  /\ held' = [held EXCEPT ![p] = @ \ {a}]
  /\ UNCHANGED <<alive, pid, globals, place, objects, host, owner, stopped>>

-----------------------------------------------------------------------------
\* The adapters _after_fork_in_child abandons in q, forked from p.
Inherited(p, q) ==
  IF pid'[q] = _REGISTERED_PID[p] THEN {} ELSE {_ADAPTER[p]} \ {None}

\* The hook drops the globals and abandons the adapter they named.
AfterForkInChild(p, q) ==
  LET same == pid'[q] = _REGISTERED_PID[p] IN
  /\ _ADAPTER' = [_ADAPTER EXCEPT ![q] = IF same THEN _ADAPTER[p] ELSE None]
  /\ _REGISTERED_PID' =
       [_REGISTERED_PID EXCEPT ![q] = IF same THEN _REGISTERED_PID[p] ELSE None]
  /\ adapter' = [adapter EXCEPT ![q] =
       [a \in Adapter |-> IF a \in Inherited(p, q) THEN "stopped" ELSE adapter[p][a]]]
  /\ bound' = [bound EXCEPT ![q] = bound[p] \ Inherited(p, q)]
  /\ held' = [held EXCEPT ![q] = held[p] \ Inherited(p, q)]

Fork(p, q) ==
  /\ p \in alive /\ q \notin alive /\ q # First
  /\ \A a \in Constructed : owner[a] # q
  /\ held[q] = {}
  /\ alive' = alive \cup {q}
  /\ \E n \in Pid \ {pid[r] : r \in alive} : pid' = [pid EXCEPT ![q] = n]
  /\ connected' = [connected EXCEPT ![q] = connected[p]]
  /\ AfterForkInChild(p, q)
  /\ UNCHANGED <<place, host, writing, owner, stopped>>

\* A process ends without its atexit calls, or after them.
Dies(p) ==
  /\ p \in alive
  /\ alive' = alive \ {p}
  /\ UNCHANGED <<pid, globals, place, objects, host, threads, owner, stopped>>

-----------------------------------------------------------------------------
Proceed(p) ==
  \/ \E raises \in BOOLEAN :
       \/ RegisterV1(p, raises) \/ RegisterV2(p, raises) \/ UndoV1(p, raises)
       \/ \E r \in Registry : Unregister(p, r, raises)
       \/ Close(p, raises)
  \/ Connect(p) \/ Activate(p) \/ StartFailed(p) \/ Publish(p) \/ Mark(p)
  \/ Disconnect(p) \/ Clear(p)

Retry(p) == stopped[p] = "false" /\ StopPlugin(p)

Next ==
  \/ \E p \in Process :
       \/ RegisterPlugin(p) \/ StopPlugin(p) \/ Proceed(p) \/ Dies(p)
       \/ \E a \in Adapter : WriterExits(p, a)
  \/ \E p, q \in Process : Fork(p, q)

\* A call that began goes on, a writer told to stop exits, and whoever was
\* answered False asks again.
Fairness ==
  \A p \in Process :
    /\ WF_vars(Proceed(p))
    /\ WF_vars(Retry(p))
    /\ \A a \in Adapter : WF_vars(WriterExits(p, a))

Spec == Init /\ [][Next]_vars /\ Fairness

-----------------------------------------------------------------------------
\* The adapters that turn a host callback of process p into records.
Serving(p) ==
  {a \in host[p]["v1"] \cup host[p]["v2"] :
     a \in connected[p] /\ adapter[p][a] = "active"}

\* register_plugin in a parent, a child or both, with failed starts, failed
\* stops and forks in between: at most one adapter serves a process, the
\* process constructed it itself, and stop_plugin can reach it.
ServingIsOwned ==
  \A p \in alive : \A a \in Serving(p) :
    /\ owner[a] = p
    /\ a = _ADAPTER[p] \/ (place[p].at = "publish" /\ place[p].a = a)

\* register_plugin returns at once when _REGISTERED_PID is the process's own: then
\* an adapter serves, unless a stop_plugin has failed and not been repeated.
RegisteredServes ==
  \A p \in alive :
    pid[p] = _REGISTERED_PID[p] /\ place[p] = Idle =>
      \/ _ADAPTER[p] \in Serving(p)
      \/ stopped[p] = "false" /\ _ADAPTER[p] # None

\* stop_plugin keeps the adapter when it returns False, so the call can be
\* repeated; repeated calls do release the process.
FailedStopsRecover ==
  \A p \in Process :
    (p \in alive /\ stopped[p] = "false") ~> (p \notin alive \/ stopped[p] # "false")

\* docs/current_host_compatibility.md: "this plugin closes copied writer descriptors
\* ... before the child attaches its own adapter": a process that has attached an
\* adapter holds the descriptors of no other process.
AttachedHoldsOwn ==
  \A p \in alive :
    _REGISTERED_PID[p] = pid[p] => \A a \in held[p] : owner[a] = p
=============================================================================
