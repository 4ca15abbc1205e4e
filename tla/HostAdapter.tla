----------------------------- MODULE HostAdapter -----------------------------
(***************************************************************************)
(* adapter.py: the lifecycle of KVTransferHostAdapter and the callbacks    *)
(* that race with it.                                                      *)
(*                                                                         *)
(* start() and stop() hold _lifecycle_lock throughout, so their callers    *)
(* are one thread of control, call.  A callback holds _state_lock only     *)
(* while it reads the state and the resources of the moment; it then works *)
(* on that normalizer, sink or descriptor capture while stop() may be      *)
(* closing it, and increments its counter in a step of its own.            *)
(*                                                                         *)
(* The resources prepared by one start() are a generation.  The sink and   *)
(* the capture are reduced to a writer thread that accepts records until   *)
(* it is closed, then drains and exits (EventSink gives the sink's         *)
(* detail); join() may time out before that, since I/O may block.          *)
(* observe_correlated() is observe_host_fact() with other counters.        *)
(***************************************************************************)
EXTENDS Integers, FiniteSets

CONSTANTS
  Observer,     \* threads of the host that call the callbacks
  MaxPending,   \* capacity of a writer's queue and the record in its hands
  MaxStarts,    \* bound of the model: generations prepared
  MaxCalls      \* bound of the model: callbacks that pass the state test

ASSUME AdapterAssumption ==
  MaxPending \in Nat \ {0} /\ MaxStarts \in Nat /\ MaxCalls \in Nat

VARIABLES
  state,        \* AdapterState
  bound,        \* _binding and _handle are set
  current,      \* the generation in _normalizer, _sink, _descriptor_capture
  prepared,     \* generations prepared so far
  normalizing,  \* generation -> its normalizer is not closed
  writer,       \* generation -> resource -> state of the writer
  backlog,      \* generation -> resource -> records accepted, not settled
  call,         \* the start() or stop() in progress
  stopped,      \* what the last stop() returned; "none" after a start()
  observer,     \* where each callback is
  counters      \* AdapterCounters, callback_errors told apart by callback

lifecycle == <<state, bound, current, prepared, stopped>>
resources == <<normalizing, writer, backlog>>
vars == <<lifecycle, resources, call, observer, counters>>

Resource == {"sink", "capture"}
Generation == 1 .. MaxStarts
Kind == {"observation", "host_fact", "descriptor"}
Name == {"received", "normalization_dropped", "emitted", "dropped",
         "callback_errors", "queued", "written"} \X Kind

Count(name, kind) == counters' = [counters EXCEPT ![<<name, kind>>] = @ + 1]

Idle == [place |-> "idle"]
Returned == [place |-> "returned"]
Alive(g, r) == writer[g][r] \in {"accepting", "draining"}

Init ==
  /\ state = "stopped" /\ bound = FALSE /\ current = 0 /\ prepared = 0
  /\ normalizing = [g \in Generation |-> FALSE]
  /\ writer = [g \in Generation |-> [r \in Resource |-> "none"]]
  /\ backlog = [g \in Generation |-> [r \in Resource |-> 0]]
  /\ call = Returned
  /\ stopped = "none"
  /\ observer = [o \in Observer |-> Idle]
  /\ counters = [n \in Name |-> 0]

-----------------------------------------------------------------------------
(* start().  A call in another state than STOPPED, with a wrong contract or *)
(* with a sink that cannot be opened changes nothing.                      *)
Prepare(started) ==
  /\ call = Returned
  /\ state = "stopped"
  /\ prepared < MaxStarts
  /\ prepared' = prepared + 1
  /\ writer' = [writer EXCEPT ![prepared + 1] =
                  [r \in Resource |-> IF r \in started THEN "accepting" ELSE "none"]]
  /\ stopped' = "none"
  /\ UNCHANGED <<bound, backlog, observer, counters>>

StartPrepares ==
  /\ \E started \in {{"sink"}, Resource} : Prepare(started)
  /\ state' = "starting"
  /\ current' = prepared'
  /\ normalizing' = [normalizing EXCEPT ![prepared'] = TRUE]
  /\ call' = [place |-> "register", of |-> "start", g |-> prepared', ok |-> TRUE]

\* The descriptor capture cannot be initialized: _prepare_resources closes the
\* sink it has started, and start() raises.
PrepareFails ==
  /\ Prepare({"sink"})
  /\ call' = [place |-> "close_sink", of |-> "prepare", g |-> prepared', ok |-> TRUE]
  /\ UNCHANGED <<state, current, normalizing>>

RegisterSucceeds ==
  /\ call.place = "register"
  /\ bound' = TRUE
  /\ state' = "active"
  /\ call' = Returned
  /\ UNCHANGED <<current, prepared, stopped, resources, observer, counters>>

RegisterFails ==
  /\ call.place = "register"
  /\ call' = [call EXCEPT !.place = "close_normalizer"]
  /\ UNCHANGED <<lifecycle, resources, observer, counters>>

-----------------------------------------------------------------------------
(* stop()                                                                  *)
StopInStopped ==
  /\ call = Returned
  /\ state = "stopped"
  /\ stopped' = "true"
  /\ UNCHANGED <<state, bound, current, prepared, resources, call, observer, counters>>

StopBegins ==
  /\ call = Returned
  /\ state # "stopped"
  /\ state' = "stopping"
  /\ call' = [place |-> IF bound THEN "unregister" ELSE "close_normalizer",
              of |-> "stop", g |-> current, ok |-> TRUE]
  /\ UNCHANGED <<bound, current, prepared, stopped, resources, observer, counters>>

\* The binding may raise, which is counted and does not keep stop() from going
\* on.
Unregister(raises) ==
  /\ call.place = "unregister"
  /\ call' = [call EXCEPT !.place = "close_normalizer", !.ok = ~raises]
  /\ UNCHANGED <<lifecycle, resources, observer, counters>>

(* _close_prepared_resources: the normalizer, the capture, the sink.       *)
CloseNormalizer ==
  /\ call.place = "close_normalizer"
  /\ normalizing' = [normalizing EXCEPT ![call.g] = FALSE]
  /\ call' = [call EXCEPT !.place = IF writer[call.g]["capture"] = "none"
                                      THEN "close_sink" ELSE "close_capture"]
  /\ UNCHANGED <<lifecycle, writer, backlog, observer, counters>>

StopAccepting(r) ==
  writer' = [writer EXCEPT ![call.g][r] = IF @ = "accepting" THEN "draining" ELSE @]

CloseCapture ==
  /\ call.place = "close_capture"
  /\ StopAccepting("capture")
  /\ call' = [call EXCEPT !.place = "join_capture"]
  /\ UNCHANGED <<lifecycle, normalizing, backlog, observer, counters>>

AfterCapture(ok) == "close_sink"

\* join() saw the writer exit, or timed out, or the writer had exited and its
\* cleanup error was raised.
JoinCapture(ok) ==
  /\ call.place = "join_capture"
  /\ ok => ~Alive(call.g, "capture")
  /\ call' = [call EXCEPT !.place = AfterCapture(ok), !.ok = @ /\ ok]
  /\ UNCHANGED <<lifecycle, resources, observer, counters>>

CloseSink ==
  /\ call.place = "close_sink"
  /\ StopAccepting("sink")
  /\ call' = [call EXCEPT !.place = "join_sink"]
  /\ UNCHANGED <<lifecycle, normalizing, backlog, observer, counters>>

\* Mutant of JoinedSink: the result of join() is not looked at.
JoinIgnored == TRUE

JoinedSink == ~Alive(call.g, "sink")

\* The handler around sink.close() is left out: with the timeout it is given
\* here, a number that is not negative, EventSink's close has nothing to raise.
JoinSink ==
  /\ call.place = "join_sink"
  /\ \/ JoinedSink /\ call' = [call EXCEPT !.place = "finish"]
     \/ /\ Alive(call.g, "sink")
        /\ call' = [call EXCEPT !.place = "finish", !.ok = FALSE]
  /\ UNCHANGED <<lifecycle, resources, observer, counters>>

\* Mutant of WriterInFlight: only the sink is looked at.
OnlySinkInFlight == Alive(current, "sink")

WriterInFlight == \E r \in Resource : Alive(current, r)

FinishStart ==
  /\ call.place = "finish" /\ call.of # "stop"
  /\ state' = "stopped"
  /\ current' = 0
  /\ call' = Returned
  /\ UNCHANGED <<bound, prepared, stopped, resources, observer, counters>>

FinishStop ==
  /\ call.place = "finish" /\ call.of = "stop"
  /\ bound' = FALSE
  /\ IF WriterInFlight
       THEN UNCHANGED <<state, current>>
       ELSE state' = "stopped" /\ current' = 0
  /\ stopped' = IF call.ok THEN "true" ELSE "false"
  /\ call' = Returned
  /\ UNCHANGED <<prepared, resources, observer, counters>>

-----------------------------------------------------------------------------
(* Writers.                                                                *)
\* Mutant of CaptureReports: only publications are reported to the adapter.
CaptureReportsWritten(r, written) ==
  IF r = "capture" /\ written THEN Count("written", "descriptor") ELSE UNCHANGED counters

CaptureReports(r, written) ==
  IF r = "capture"
    THEN Count(IF written THEN "written" ELSE "dropped", "descriptor")
    ELSE UNCHANGED counters

WriterSettles(g, r, written) ==
  /\ Alive(g, r) /\ backlog[g][r] > 0
  /\ backlog' = [backlog EXCEPT ![g][r] = @ - 1]
  /\ CaptureReports(r, written)
  /\ UNCHANGED <<lifecycle, normalizing, writer, call, observer>>

WriterExits(g, r) ==
  /\ writer[g][r] = "draining" /\ backlog[g][r] = 0
  /\ writer' = [writer EXCEPT ![g][r] = "gone"]
  /\ UNCHANGED <<lifecycle, normalizing, backlog, call, observer, counters>>

-----------------------------------------------------------------------------
(* Callbacks.                                                              *)
Target(kind) == IF kind = "descriptor" THEN "capture" ELSE "sink"

Serving == state = "active"

Calls == counters[<<"received", "observation">>] + counters[<<"received", "host_fact">>]
           + counters[<<"received", "descriptor">>]

\* (A call in another state only counts inactive_dropped.)
CallbackBegins(o, kind) ==
  /\ observer[o] = Idle
  /\ Serving
  /\ Calls < MaxCalls
  /\ Count("received", kind)
  /\ observer' = [observer EXCEPT ![o] =
       [place |-> IF kind = "observation" THEN "normalize" ELSE "offer",
        kind |-> kind, g |-> current]]
  /\ UNCHANGED <<lifecycle, resources, call>>

Outcome(o, name) ==
  observer' = [observer EXCEPT ![o] =
                 [place |-> "count", kind |-> observer[o].kind, as |-> name]]

\* A record the normalizer drops, as it drops everything once it is closed.
NormalizesToNothing(o) ==
  /\ observer[o].place = "normalize"
  /\ Outcome(o, "normalization_dropped")
  /\ UNCHANGED <<lifecycle, resources, call, counters>>

Normalizes(o) ==
  /\ observer[o].place = "normalize"
  /\ normalizing[observer[o].g]
  /\ observer' = [observer EXCEPT ![o].place = "offer"]
  /\ UNCHANGED <<lifecycle, resources, call, counters>>

Accepts(g, r) == writer[g][r] = "accepting" /\ backlog[g][r] < MaxPending

\* emit() or capture(): refused when closed, absent or full.
Offers(o) ==
  /\ observer[o].place = "offer"
  /\ LET g == observer[o].g
         r == Target(observer[o].kind)
     IN  IF Accepts(g, r)
           THEN /\ backlog' = [backlog EXCEPT ![g][r] = @ + 1]
                /\ Outcome(o, IF r = "capture" THEN "queued" ELSE "emitted")
           ELSE Outcome(o, "dropped") /\ UNCHANGED backlog
  /\ UNCHANGED <<lifecycle, normalizing, writer, call, counters>>

\* Mutant of AfterError: an exception is counted as a drop of the sink as well.
AfterErrorBoth(o) == Count("callback_errors", observer[o].kind) /\ Outcome(o, "dropped")

\* An exception is contained and counted; a host fact is counted dropped too.
AfterError(o) ==
  IF observer[o].kind = "host_fact"
    THEN Count("callback_errors", "host_fact") /\ Outcome(o, "dropped")
    ELSE UNCHANGED counters /\ Outcome(o, "callback_errors")

Raises(o) ==
  /\ observer[o].place \in {"normalize", "offer"}
  /\ AfterError(o)
  /\ UNCHANGED <<lifecycle, resources, call>>

CallbackReturns(o) ==
  /\ observer[o].place = "count"
  /\ Count(observer[o].as, observer[o].kind)
  /\ observer' = [observer EXCEPT ![o] = Idle]
  /\ UNCHANGED <<lifecycle, resources, call>>

-----------------------------------------------------------------------------
Next ==
  \/ StartPrepares \/ PrepareFails \/ RegisterSucceeds \/ RegisterFails
  \/ StopInStopped \/ StopBegins
  \/ \E raises \in BOOLEAN : Unregister(raises)
  \/ CloseNormalizer \/ CloseCapture \/ CloseSink \/ JoinSink
  \/ \E ok \in BOOLEAN : JoinCapture(ok)
  \/ FinishStart \/ FinishStop
  \/ \E g \in Generation, r \in Resource :
       WriterExits(g, r) \/ \E written \in BOOLEAN : WriterSettles(g, r, written)
  \/ \E o \in Observer :
       \/ \E kind \in Kind : CallbackBegins(o, kind)
       \/ NormalizesToNothing(o) \/ Normalizes(o) \/ Offers(o) \/ Raises(o)
       \/ CallbackReturns(o)

Spec == Init /\ [][Next]_vars

-----------------------------------------------------------------------------
\* A failed start() gives up its resources without waiting for their writers,
\* and a later start() may use the same destinations.  That is harmless only
\* because a writer the adapter no longer owns has nothing left to write and
\* will accept nothing: in particular no callback still holds its sink open.
UnownedWritersIdle ==
  \A g \in Generation \ {current}, r \in Resource :
    Alive(g, r) =>
      /\ backlog[g][r] = 0
      /\ writer[g][r] = "draining" \/ (call.place # "returned" /\ call.g = g)

\* After stop() has returned True, and until the next start(), every record
\* accepted from any callback is settled and no writer will take another,
\* although callbacks that passed the state test may still be running.
StopHonest ==
  stopped = "true" /\ call = Returned =>
    \A g \in Generation, r \in Resource :
      backlog[g][r] = 0 /\ writer[g][r] # "accepting"

Busy(kind) ==
  Cardinality({o \in Observer : observer[o] # Idle /\ observer[o].kind = kind})

Total(names, kind) ==
  LET At(n) == IF n \in names THEN counters[<<n, kind>>] ELSE 0
  IN  At("normalization_dropped") + At("emitted") + At("dropped")
        + At("callback_errors") + At("written")

\* Every callback the adapter received ends in exactly one outcome counter,
\* however it ends and whatever stop() closes under it.
CallsAccounted ==
  /\ counters[<<"received", "observation">>] = Busy("observation")
       + Total({"normalization_dropped", "dropped", "emitted", "callback_errors"},
               "observation")
  /\ counters[<<"received", "host_fact">>] = Busy("host_fact")
       + Total({"dropped", "emitted"}, "host_fact")

\* docs/plugin_adapter.md on the descriptor counts: they "need not balance
\* while work is in flight, but do after a successful drain".
DescriptorsBalance ==
  stopped = "true" /\ call = Returned /\ Busy("descriptor") = 0 =>
    counters[<<"received", "descriptor">>] =
      Total({"written", "dropped", "callback_errors"}, "descriptor")
=============================================================================
