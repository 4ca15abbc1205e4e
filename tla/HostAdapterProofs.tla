------------------------- MODULE HostAdapterProofs -------------------------
(***************************************************************************)
(* Proofs about HostAdapter, for any threads of the host, queue capacity,  *)
(* number of starts and of calls.                                          *)
(*                                                                         *)
(* A callback works on the resources it read under _state_lock, at any     *)
(* later time.  The invariant that makes this harmless is Held: those      *)
(* resources are the adapter's current ones while it is ACTIVE or          *)
(* STOPPING, or their writers have exited.                                 *)
(***************************************************************************)
EXTENDS HostAdapter, FiniteSetTheorems, TLAPS

CallState ==
  {Returned}
    \cup [place : {"register", "unregister", "close_normalizer", "close_capture",
                   "join_capture", "close_sink", "join_sink", "finish"},
          of : {"start", "stop", "prepare"}, g : Generation, ok : BOOLEAN]

\* Where a callback may be, and the counters it may end in.
ObserverState ==
  {Idle}
    \cup [place : {"normalize"}, kind : {"observation"}, g : Generation]
    \cup [place : {"offer"}, kind : Kind, g : Generation]
    \cup [place : {"count"}, kind : {"observation"},
          as : {"normalization_dropped", "emitted", "dropped", "callback_errors"}]
    \cup [place : {"count"}, kind : {"host_fact"}, as : {"emitted", "dropped"}]
    \cup [place : {"count"}, kind : {"descriptor"},
          as : {"queued", "dropped", "callback_errors"}]

Types ==
  /\ state \in {"stopped", "starting", "active", "stopping"}
  /\ bound \in BOOLEAN
  /\ prepared \in 0 .. MaxStarts /\ current \in 0 .. prepared
  /\ normalizing \in [Generation -> BOOLEAN]
  /\ writer \in [Generation -> [Resource -> {"none", "accepting", "draining", "gone"}]]
  /\ backlog \in [Generation -> [Resource -> Nat]]
  /\ call \in CallState
  /\ stopped \in {"none", "true", "false"}
  /\ observer \in [Observer -> ObserverState]
  /\ counters \in [Name -> Nat]

InCall == call # Returned

\* How the state, the resources and the call in progress go together.
Phased ==
  /\ state = "stopped" <=> current = 0
  /\ state = "active" => ~InCall
  /\ state = "starting" => InCall /\ call.of = "start"
  /\ stopped = "true" => state = "stopped" /\ ~InCall
  /\ InCall =>
       /\ call.of = "start" => state = "starting" /\ call.g = current
       /\ call.of = "stop" => state = "stopping" /\ call.g = current
       /\ call.of = "prepare" =>
            state = "stopped" /\ call.place \in {"close_sink", "join_sink", "finish"}
       /\ call.place = "register" => call.of = "start"

\* What the steps of _close_prepared_resources have done so far.
Closing ==
  InCall =>
    /\ call.place \in {"join_capture", "close_sink", "join_sink", "finish"} =>
         writer[call.g]["capture"] # "accepting"
    /\ call.place \in {"join_sink", "finish"} => writer[call.g]["sink"] # "accepting"
    /\ call.ok /\ call.place \in {"close_sink", "join_sink", "finish"} =>
         ~Alive(call.g, "capture")
    /\ call.ok /\ call.place = "finish" => ~Alive(call.g, "sink")

\* Records wait only for a writer that is there, and for none of a start() that
\* has not yet succeeded; a generation not yet prepared has no writers.
Waiting ==
  /\ \A g \in Generation, r \in Resource : ~Alive(g, r) => backlog[g][r] = 0
  /\ \A g \in Generation, r \in Resource : g > prepared => writer[g][r] = "none"
  /\ InCall /\ call.of # "stop" => \A r \in Resource : backlog[call.g][r] = 0

\* What a callback in progress holds.
HeldBy(x) ==
  x.place \in {"normalize", "offer"} =>
    /\ x.g <= prepared
    /\ \/ x.g = current /\ state \in {"active", "stopping"}
       \/ \A r \in Resource : ~Alive(x.g, r)

Held == \A o \in Observer : HeldBy(observer[o])

Safe ==
  /\ Types /\ Phased /\ Closing /\ Waiting /\ Held
  /\ UnownedWritersIdle

-----------------------------------------------------------------------------
(* The counters.                                                           *)

Busily(x, kind) == x # Idle /\ x.kind = kind

InProgress(kind) == {o \in Observer : Busily(observer[o], kind)}

\* A descriptor callback whose submission is not in the capture's hands.
Open(x) == Busily(x, "descriptor") /\ ~(x.place = "count" /\ x.as = "queued")

Undecided == {o \in Observer : Open(observer[o])}

Unsettled == IF current = 0 THEN 0 ELSE backlog[current]["capture"]

\* Each callback received is in progress or counted once.
ObservationLedger ==
  counters[<<"received", "observation">>] =
    Cardinality(InProgress("observation"))
      + counters[<<"normalization_dropped", "observation">>]
      + counters[<<"emitted", "observation">>]
      + counters[<<"dropped", "observation">>]
      + counters[<<"callback_errors", "observation">>]

FactLedger ==
  counters[<<"received", "host_fact">>] =
    Cardinality(InProgress("host_fact"))
      + counters[<<"emitted", "host_fact">>] + counters[<<"dropped", "host_fact">>]

\* Each descriptor is with its callback, in the current capture's hands, or
\* counted.
DescriptorLedger ==
  counters[<<"received", "descriptor">>] =
    Cardinality(Undecided) + Unsettled
      + counters[<<"written", "descriptor">>] + counters[<<"dropped", "descriptor">>]
      + counters[<<"callback_errors", "descriptor">>]

Counted ==
  /\ \A kind \in Kind : IsFiniteSet(InProgress(kind))
  /\ ObservationLedger /\ FactLedger /\ DescriptorLedger

IInv == Safe /\ Counted

-----------------------------------------------------------------------------
(* Facts about the operators.                                              *)

\* One entry of a table by generation and resource changes.
LEMMA EntryChanged ==
  ASSUME NEW R, NEW f \in [Generation -> [Resource -> R]],
         NEW g \in Generation, NEW r \in Resource, NEW v \in R,
         NEW h, h = [f EXCEPT ![g][r] = v]
  PROVE  /\ h \in [Generation -> [Resource -> R]]
         /\ h[g][r] = v
         /\ \A a \in Generation, b \in Resource : a # g \/ b # r => h[a][b] = f[a][b]
OBVIOUS

\* The rows of a generation change.
LEMMA RowChanged ==
  ASSUME NEW R, NEW f \in [Generation -> R], NEW g \in Generation, NEW v \in R,
         NEW h, h = [f EXCEPT ![g] = v]
  PROVE  /\ h \in [Generation -> R]
         /\ h[g] = v
         /\ \A a \in Generation \ {g} : h[a] = f[a]
OBVIOUS

LEMMA WriterStates ==
  ASSUME Types, NEW g \in Generation, NEW r \in Resource
  PROVE  /\ writer[g][r] \in {"none", "accepting", "draining", "gone"}
         /\ backlog[g][r] \in Nat
BY DEF Types

LEMMA Bounds ==
  ASSUME Types
  PROVE  /\ MaxStarts \in Nat /\ prepared \in Nat /\ current \in Nat
         /\ prepared <= MaxStarts /\ current <= prepared
         /\ current # 0 => current \in Generation
         /\ \A g \in Generation : g \in Nat /\ g >= 1
BY AdapterAssumption DEF Types, Generation

\* The call in progress.
LEMMA CallFacts ==
  ASSUME Types, InCall
  PROVE  /\ call.g \in Generation
         /\ call.of \in {"start", "stop", "prepare"}
         /\ call.ok \in BOOLEAN
         /\ call.place # "returned"
BY DEF Types, InCall, CallState, Returned

CallGoes(p, k) == call' = [call EXCEPT !.place = p, !.ok = k]

LEMMA CallChanged ==
  ASSUME Types, InCall, NEW k \in BOOLEAN,
         NEW p \in {"register", "unregister", "close_normalizer", "close_capture",
                    "join_capture", "close_sink", "join_sink", "finish"},
         CallGoes(p, k)
  PROVE  /\ call' \in CallState /\ call' # Returned
         /\ call'.place = p /\ call'.ok = k /\ call'.g = call.g /\ call'.of = call.of
BY DEF CallGoes, Types, InCall, CallState, Returned

\* What a callback holds is a generation.
LEMMA HeldType ==
  ASSUME Types, NEW o \in Observer, observer[o].place \in {"normalize", "offer"}
  PROVE  observer[o].g \in Generation /\ observer[o].kind \in Kind
BY DEF Types, ObserverState, Idle, Kind

LEMMA InCallByPlace ==
  ASSUME Types
  PROVE  InCall <=> call.place # "returned"
BY DEF Types, InCall, CallState, Returned

-----------------------------------------------------------------------------
(* Steps of start() and stop().                                            *)

\* Writers go on as they are, or stop accepting.
Softened ==
  /\ writer' \in [Generation -> [Resource -> {"none", "accepting", "draining", "gone"}]]
  /\ \A g \in Generation, r \in Resource :
       \/ writer'[g][r] = writer[g][r]
       \/ writer[g][r] = "accepting" /\ writer'[g][r] = "draining"

LEMMA SoftenedFacts ==
  ASSUME Softened, NEW g \in Generation, NEW r \in Resource
  PROVE  /\ writer'[g][r] \in {"accepting", "draining"} <=> Alive(g, r)
         /\ writer[g][r] # "accepting" => writer'[g][r] # "accepting"
         /\ writer[g][r] = "draining" => writer'[g][r] = "draining"
         /\ writer[g][r] = "none" => writer'[g][r] = "none"
BY DEF Softened, Alive

\* The call in progress goes on to another of its steps.
LEMMA CallAdvances ==
  ASSUME Safe, InCall,
         NEW p \in {"unregister", "close_normalizer", "close_capture",
                    "join_capture", "close_sink", "join_sink", "finish"},
         NEW k \in BOOLEAN, CallGoes(p, k),
         call.of = "prepare" => p \in {"close_sink", "join_sink", "finish"},
         Softened, Closing', normalizing' \in [Generation -> BOOLEAN],
         UNCHANGED <<lifecycle, backlog, observer, counters>>
  PROVE  Safe'
<1>1. /\ call' \in CallState /\ call'.place = p /\ call'.g = call.g
      /\ call'.of = call.of /\ call' # Returned
      /\ call.g \in Generation
  BY CallFacts, CallChanged DEF Safe
<1>2. Types'
  BY <1>1 DEF Safe, Types, Softened, lifecycle
<1>3. Phased'
  BY <1>1 DEF Safe, Phased, InCall, lifecycle
<1>4. Waiting'
  BY <1>1, SoftenedFacts DEF Safe, Waiting, InCall, Alive, lifecycle
<1>5. Held'
  BY SoftenedFacts, HeldType DEF Safe, Held, HeldBy, Alive, lifecycle
<1>6. UnownedWritersIdle'
  BY <1>1, SoftenedFacts, InCallByPlace DEF Safe, UnownedWritersIdle, Alive, lifecycle
<1>. QED  BY <1>2, <1>3, <1>4, <1>5, <1>6 DEF Safe

LEMMA SameWriters == Types /\ UNCHANGED writer => Softened
BY DEF Types, Softened

LEMMA StopAcceptingFacts ==
  ASSUME Types, InCall, NEW r \in Resource, StopAccepting(r)
  PROVE  Softened /\ writer'[call.g][r] # "accepting"
<1>1. call.g \in Generation
  BY CallFacts
<1>. DEFINE v == IF writer[call.g][r] = "accepting" THEN "draining" ELSE writer[call.g][r]
            R == {"none", "accepting", "draining", "gone"}
<1>2. v \in R /\ v # "accepting"
  BY <1>1, WriterStates
<1>3. writer \in [Generation -> [Resource -> R]]
  BY DEF Types
<1>4. writer' = [writer EXCEPT ![call.g][r] = v]
  BY DEF StopAccepting
<1>. HIDE DEF R
<1>5. v = writer[call.g][r] \/ (writer[call.g][r] = "accepting" /\ v = "draining")
  OBVIOUS
<1>. HIDE DEF v
<1>6. /\ writer' \in [Generation -> [Resource -> R]]
      /\ writer'[call.g][r] = v
      /\ \A a \in Generation, b \in Resource :
           a # call.g \/ b # r => writer'[a][b] = writer[a][b]
  BY <1>1, <1>2, <1>3, <1>4, EntryChanged
<1>. QED  BY <1>2, <1>5, <1>6 DEF Softened, R

\* unregister(): the binding may raise.
LEMMA UnregisterSafe ==
  ASSUME Safe, NEW raises \in BOOLEAN, Unregister(raises)  PROVE Safe'
<1>1. InCall
  BY InCallByPlace DEF Safe, Unregister
<1>2. /\ CallGoes("close_normalizer", ~raises)
      /\ call.of # "prepare"
      /\ UNCHANGED <<lifecycle, resources, observer, counters>>
  BY <1>1 DEF Unregister, Safe, Phased, CallGoes
<1>3. call'.place = "close_normalizer"
  BY <1>1, <1>2, CallChanged DEF Safe
<1>4. Closing'
  BY <1>3 DEF Closing
<1>5. Softened /\ normalizing' \in [Generation -> BOOLEAN]
  BY <1>2, SameWriters DEF Safe, Types, resources
<1>. QED  BY <1>1, <1>2, <1>4, <1>5, CallAdvances DEF resources

\* A failed register() goes to the cleanup.
LEMMA RegisterFailsSafe == Safe /\ RegisterFails => Safe'
<1>. SUFFICES ASSUME Safe, RegisterFails  PROVE Safe'
  OBVIOUS
<1>1. InCall
  BY InCallByPlace DEF Safe, RegisterFails
<1>2. /\ CallGoes("close_normalizer", call.ok)
      /\ call.of # "prepare" /\ call.ok \in BOOLEAN
      /\ UNCHANGED <<lifecycle, resources, observer, counters>>
  BY <1>1, CallFacts DEF RegisterFails, Safe, Phased, CallGoes
<1>3. call'.place = "close_normalizer"
  BY <1>1, <1>2, CallChanged DEF Safe
<1>4. Closing'
  BY <1>3 DEF Closing
<1>5. Softened /\ normalizing' \in [Generation -> BOOLEAN]
  BY <1>2, SameWriters DEF Safe, Types, resources
<1>. QED  BY <1>1, <1>2, <1>4, <1>5, CallAdvances DEF resources

\* _close_prepared_resources, step by step.
LEMMA CloseNormalizerSafe == Safe /\ CloseNormalizer => Safe'
<1>. SUFFICES ASSUME Safe, CloseNormalizer  PROVE Safe'
  OBVIOUS
<1>1. InCall /\ call.of # "prepare" /\ call.ok \in BOOLEAN /\ call.g \in Generation
  BY InCallByPlace, CallFacts DEF Safe, CloseNormalizer, Phased
<1>. PICK p \in {"close_sink", "close_capture"} :
       p = IF writer[call.g]["capture"] = "none" THEN "close_sink" ELSE "close_capture"
  OBVIOUS
<1>2. /\ CallGoes(p, call.ok)
      /\ UNCHANGED <<lifecycle, writer, backlog, observer, counters>>
  BY DEF CloseNormalizer, CallGoes
<1>3. call'.place = p /\ call'.g = call.g /\ call'.ok = call.ok
  BY <1>1, <1>2, CallChanged DEF Safe
<1>4. Closing'
  BY <1>2, <1>3 DEF Closing, Alive
<1>5. Softened /\ normalizing' \in [Generation -> BOOLEAN]
  BY <1>2, SameWriters DEF Safe, Types, CloseNormalizer
<1>. QED  BY <1>1, <1>2, <1>4, <1>5, CallAdvances

LEMMA CloseCaptureSafe == Safe /\ CloseCapture => Safe'
<1>. SUFFICES ASSUME Safe, CloseCapture  PROVE Safe'
  OBVIOUS
<1>1. InCall /\ call.of # "prepare" /\ call.ok \in BOOLEAN /\ call.g \in Generation
  BY InCallByPlace, CallFacts DEF Safe, CloseCapture, Phased
<1>2. /\ CallGoes("join_capture", call.ok)
      /\ UNCHANGED <<lifecycle, normalizing, backlog, observer, counters>>
  BY <1>1 DEF CloseCapture, CallGoes, Safe, Types, CallState
<1>3. call'.place = "join_capture" /\ call'.g = call.g /\ call'.ok = call.ok
  BY <1>1, <1>2, CallChanged DEF Safe
<1>4. Softened /\ writer'[call.g]["capture"] # "accepting"
  BY <1>1, StopAcceptingFacts DEF Safe, CloseCapture, Resource
<1>5. Closing'
  BY <1>3, <1>4 DEF Closing
<1>6. normalizing' \in [Generation -> BOOLEAN]
  BY <1>2 DEF Safe, Types
<1>. QED  BY <1>1, <1>2, <1>4, <1>5, <1>6, CallAdvances

LEMMA JoinCaptureSafe ==
  ASSUME Safe, NEW ok \in BOOLEAN, JoinCapture(ok)  PROVE Safe'
<1>1. InCall /\ call.of # "prepare" /\ call.ok \in BOOLEAN /\ call.g \in Generation
  BY InCallByPlace, CallFacts DEF Safe, JoinCapture, Phased
<1>2. /\ CallGoes("close_sink", call.ok /\ ok)
      /\ UNCHANGED <<lifecycle, resources, observer, counters>>
  BY <1>1 DEF JoinCapture, AfterCapture, CallGoes
<1>3. /\ call'.place = "close_sink" /\ call'.g = call.g
      /\ call'.ok = (call.ok /\ ok)
  BY <1>1, <1>2, CallChanged DEF Safe
<1>4. /\ writer[call.g]["capture"] # "accepting"
      /\ ok => ~Alive(call.g, "capture")
  BY <1>1 DEF Safe, Closing, JoinCapture
<1>5. Closing'
  BY <1>2, <1>3, <1>4 DEF Closing, Alive, resources
<1>6. Softened /\ normalizing' \in [Generation -> BOOLEAN]
  BY <1>2, SameWriters DEF Safe, Types, resources
<1>7. (call.ok /\ ok) \in BOOLEAN
  OBVIOUS
<1>. QED  BY <1>1, <1>2, <1>5, <1>6, <1>7, CallAdvances DEF resources

LEMMA CloseSinkSafe == Safe /\ CloseSink => Safe'
<1>. SUFFICES ASSUME Safe, CloseSink  PROVE Safe'
  OBVIOUS
<1>1. InCall /\ call.ok \in BOOLEAN /\ call.g \in Generation
  BY InCallByPlace, CallFacts DEF Safe, CloseSink
<1>2. /\ CallGoes("join_sink", call.ok)
      /\ UNCHANGED <<lifecycle, normalizing, backlog, observer, counters>>
  BY <1>1 DEF CloseSink, CallGoes, Safe, Types, CallState
<1>3. call'.place = "join_sink" /\ call'.g = call.g /\ call'.ok = call.ok
  BY <1>1, <1>2, CallChanged DEF Safe
<1>4. Softened /\ writer'[call.g]["sink"] # "accepting"
  BY <1>1, StopAcceptingFacts DEF Safe, CloseSink, Resource
<1>5. Closing'
  <2>1. /\ writer[call.g]["capture"] # "accepting"
        /\ call.ok => ~Alive(call.g, "capture")
    BY <1>1 DEF Safe, Closing, CloseSink
  <2>2. /\ writer'[call.g]["capture"] # "accepting"
        /\ call.ok => ~(writer'[call.g]["capture"] \in {"accepting", "draining"})
    BY <1>1, <1>4, <2>1, SoftenedFacts DEF Resource
  <2>. QED  BY <1>3, <1>4, <2>2 DEF Closing, Alive
<1>6. normalizing' \in [Generation -> BOOLEAN]
  BY <1>2 DEF Safe, Types
<1>. QED  BY <1>1, <1>2, <1>4, <1>5, <1>6, CallAdvances

LEMMA JoinSinkSafe == Safe /\ JoinSink => Safe'
<1>. SUFFICES ASSUME Safe, JoinSink  PROVE Safe'
  OBVIOUS
<1>1. InCall /\ call.ok \in BOOLEAN /\ call.g \in Generation
  BY InCallByPlace, CallFacts DEF Safe, JoinSink
<1>2. UNCHANGED <<lifecycle, resources, observer, counters>>
  BY DEF JoinSink
<1>3. PICK k \in BOOLEAN :
        /\ CallGoes("finish", k)
        /\ k => call.ok /\ ~Alive(call.g, "sink")
  <2>1. CASE JoinedSink /\ call' = [call EXCEPT !.place = "finish"]
    <3>1. CallGoes("finish", call.ok)
      BY <1>1, <2>1 DEF CallGoes, Safe, Types, CallState
    <3>. QED  BY <1>1, <2>1, <3>1 DEF JoinedSink
  <2>2. CASE call' = [call EXCEPT !.place = "finish", !.ok = FALSE]
    BY <2>2 DEF CallGoes
  <2>. QED  BY <2>1, <2>2 DEF JoinSink
<1>4. call'.place = "finish" /\ call'.g = call.g /\ call'.ok = k
  BY <1>1, <1>3, CallChanged DEF Safe
<1>5. /\ writer[call.g]["capture"] # "accepting" /\ writer[call.g]["sink"] # "accepting"
      /\ call.ok => ~Alive(call.g, "capture")
  BY <1>1 DEF Safe, Closing, JoinSink
<1>6. Closing'
  BY <1>2, <1>3, <1>4, <1>5 DEF Closing, Alive, resources
<1>7. Softened /\ normalizing' \in [Generation -> BOOLEAN]
  BY <1>2, SameWriters DEF Safe, Types, resources
<1>. QED  BY <1>1, <1>2, <1>3, <1>6, <1>7, CallAdvances DEF resources

\* What preparing the resources of a generation does.
Fresh(n) ==
  /\ n \in Generation /\ n = prepared + 1 /\ prepared' = n
  /\ writer' \in [Generation -> [Resource -> {"none", "accepting", "draining", "gone"}]]
  /\ \A g \in Generation \ {n} : writer'[g] = writer[g]
  /\ \A r \in Resource : writer[n][r] = "none" /\ backlog[n][r] = 0
  /\ \A r \in Resource : writer'[n][r] \in {"none", "accepting"}

LEMMA PrepareFacts ==
  ASSUME Safe, NEW started \in {{"sink"}, Resource}, Prepare(started)
  PROVE  /\ \E n \in Generation : Fresh(n)
         /\ state = "stopped" /\ current = 0 /\ ~InCall
         /\ stopped' = "none"
         /\ UNCHANGED <<bound, backlog, observer, counters>>
<1>1. /\ state = "stopped" /\ current = 0 /\ ~InCall /\ prepared < MaxStarts
      /\ prepared' = prepared + 1 /\ stopped' = "none"
      /\ UNCHANGED <<bound, backlog, observer, counters>>
  BY DEF Prepare, Safe, Phased, InCall
<1>. PICK n \in Generation : n = prepared + 1
  BY <1>1, Bounds DEF Safe, Generation
<1>. DEFINE R == {"none", "accepting", "draining", "gone"}
<1>. PICK v \in [Resource -> R] :
       v = [r \in Resource |-> IF r \in started THEN "accepting" ELSE "none"]
  OBVIOUS
<1>2. /\ writer' \in [Generation -> [Resource -> R]]
      /\ writer'[n] = v
      /\ \A a \in Generation \ {n} : writer'[a] = writer[a]
  <2>1. writer \in [Generation -> [Resource -> R]]
    BY DEF Safe, Types
  <2>2. writer' = [writer EXCEPT ![n] = v]
    BY DEF Prepare
  <2>. HIDE DEF R
  <2>. QED  BY <2>1, <2>2, RowChanged
<1>3. \A r \in Resource : writer'[n][r] \in {"none", "accepting"}
  BY <1>2
<1>4. \A r \in Resource : writer[n][r] = "none" /\ backlog[n][r] = 0
  BY Bounds DEF Safe, Waiting, Alive
<1>5. Fresh(n)
  BY <1>1, <1>2, <1>3, <1>4 DEF Fresh
<1>. QED  BY <1>1, <1>5

\* A fresh generation disturbs no other.
LEMMA FreshFacts ==
  ASSUME Safe, NEW n \in Generation, Fresh(n), current = 0, ~InCall,
         UNCHANGED <<backlog, observer>>,
         current' \in {0, n}
  PROVE  /\ Held'
         /\ \A g \in Generation, r \in Resource :
              /\ ~(writer'[g][r] \in {"accepting", "draining"}) => backlog'[g][r] = 0
              /\ g > prepared' => writer'[g][r] = "none"
         /\ \A r \in Resource : backlog'[n][r] = 0
         /\ \A g \in Generation \ {n}, r \in Resource :
              writer'[g][r] \in {"accepting", "draining"} =>
                backlog'[g][r] = 0 /\ writer'[g][r] = "draining"
<1>0. /\ n = prepared + 1 /\ prepared' = n /\ prepared \in Nat
      /\ \A g \in Generation : g \in Nat /\ g >= 1
  BY Bounds DEF Fresh, Safe
<1>1. Held'
  <2>. SUFFICES ASSUME NEW o \in Observer,
                       observer[o].place \in {"normalize", "offer"}
                PROVE  /\ observer[o].g <= prepared'
                       /\ \A r \in Resource :
                            ~(writer'[observer[o].g][r] \in {"accepting", "draining"})
    BY DEF Held, HeldBy, Alive
  <2>1. /\ observer[o].g \in Generation /\ observer[o].g <= prepared
        /\ \A r \in Resource : ~Alive(observer[o].g, r)
    BY HeldType, Bounds DEF Safe, Held, HeldBy
  <2>2. observer[o].g # n /\ observer[o].g <= prepared'
    <3>. PICK h \in Nat : h = observer[o].g /\ h <= prepared
      BY <1>0, <2>1
    <3>. QED  BY <1>0
  <2>. QED  BY <2>1, <2>2 DEF Fresh, Alive
<1>2. \A g \in Generation, r \in Resource :
        /\ ~(writer'[g][r] \in {"accepting", "draining"}) => backlog'[g][r] = 0
        /\ g > prepared' => writer'[g][r] = "none"
  <2>. SUFFICES ASSUME NEW g \in Generation, NEW r \in Resource
                PROVE  /\ ~(writer'[g][r] \in {"accepting", "draining"}) => backlog[g][r] = 0
                       /\ g > prepared' => writer'[g][r] = "none"
    OBVIOUS
  <2>1. CASE g = n
    BY <1>0, <2>1 DEF Fresh
  <2>2. CASE g # n
    <3>1. writer'[g][r] = writer[g][r]
      BY <2>2 DEF Fresh
    <3>2. /\ ~Alive(g, r) => backlog[g][r] = 0
          /\ g > prepared => writer[g][r] = "none"
      BY DEF Safe, Waiting
    <3>3. g \in Nat /\ (g > prepared' => g > prepared)
      BY <1>0
    <3>. QED  BY <3>1, <3>2, <3>3 DEF Alive
  <2>. QED  BY <2>1, <2>2
<1>3. \A g \in Generation \ {n}, r \in Resource :
        writer'[g][r] \in {"accepting", "draining"} =>
          backlog'[g][r] = 0 /\ writer'[g][r] = "draining"
  <2>. SUFFICES ASSUME NEW g \in Generation \ {n}, NEW r \in Resource, Alive(g, r)
                PROVE  backlog[g][r] = 0 /\ writer[g][r] = "draining"
    BY DEF Fresh, Alive
  <2>1. g # current
    BY <1>0
  <2>2. /\ backlog[g][r] = 0
        /\ writer[g][r] = "draining" \/ call.place # "returned"
    BY <2>1 DEF Safe, UnownedWritersIdle
  <2>. QED  BY <2>2, InCallByPlace DEF Safe
<1>. QED  BY <1>1, <1>2, <1>3 DEF Fresh

LEMMA StartPreparesSafe == Safe /\ StartPrepares => Safe'
<1>. SUFFICES ASSUME Safe, StartPrepares  PROVE Safe'
  OBVIOUS
<1>1. /\ \E n \in Generation : Fresh(n)
      /\ current = 0 /\ ~InCall /\ stopped' = "none"
      /\ UNCHANGED <<bound, backlog, observer, counters>>
  BY PrepareFacts DEF StartPrepares
<1>. PICK n \in Generation : Fresh(n)
  BY <1>1
<1>2. /\ prepared' = n /\ current' = n /\ state' = "starting"
      /\ call' = [place |-> "register", of |-> "start", g |-> n, ok |-> TRUE]
      /\ normalizing' = [normalizing EXCEPT ![n] = TRUE]
  BY DEF StartPrepares, Fresh
<1>3. /\ Held'
      /\ \A g \in Generation, r \in Resource :
           /\ ~(writer'[g][r] \in {"accepting", "draining"}) => backlog'[g][r] = 0
           /\ g > prepared' => writer'[g][r] = "none"
      /\ \A r \in Resource : backlog'[n][r] = 0
      /\ \A g \in Generation \ {n}, r \in Resource :
           writer'[g][r] \in {"accepting", "draining"} =>
             backlog'[g][r] = 0 /\ writer'[g][r] = "draining"
  BY <1>1, <1>2, FreshFacts
<1>4. call' \in CallState /\ call' # Returned
  BY <1>2 DEF CallState, Returned
<1>5. Types'
  <2>1. prepared' \in 0 .. MaxStarts /\ current' \in 0 .. prepared' /\ current' # 0
    BY <1>2, Bounds DEF Safe, Generation
  <2>2. normalizing' \in [Generation -> BOOLEAN]
    BY <1>2 DEF Safe, Types
  <2>3. writer' \in [Generation -> [Resource -> {"none", "accepting", "draining", "gone"}]]
    BY DEF Fresh
  <2>. QED  BY <1>1, <1>2, <1>4, <2>1, <2>2, <2>3 DEF Safe, Types
<1>6. Phased'
  <2>1. current' # 0
    BY <1>2, Bounds DEF Safe
  <2>. QED  BY <1>1, <1>2, <1>4, <2>1 DEF Phased, InCall
<1>7. Closing'
  BY <1>2 DEF Closing
<1>8. Waiting'
  BY <1>2, <1>3 DEF Waiting, Alive
<1>9. UnownedWritersIdle'
  BY <1>2, <1>3 DEF UnownedWritersIdle, Alive
<1>. QED  BY <1>3, <1>5, <1>6, <1>7, <1>8, <1>9 DEF Safe

\* The descriptor capture cannot be initialized.
LEMMA PrepareFailsSafe == Safe /\ PrepareFails => Safe'
<1>. SUFFICES ASSUME Safe, PrepareFails  PROVE Safe'
  OBVIOUS
<1>1. /\ \E n \in Generation : Fresh(n)
      /\ state = "stopped" /\ current = 0 /\ ~InCall /\ stopped' = "none"
      /\ UNCHANGED <<bound, backlog, observer, counters>>
  BY PrepareFacts DEF PrepareFails
<1>. PICK n \in Generation : Fresh(n)
  BY <1>1
<1>2. /\ prepared' = n
      /\ call' = [place |-> "close_sink", of |-> "prepare", g |-> n, ok |-> TRUE]
      /\ UNCHANGED <<state, current, normalizing>>
  BY DEF PrepareFails, Fresh
<1>3. /\ Held'
      /\ \A g \in Generation, r \in Resource :
           /\ ~(writer'[g][r] \in {"accepting", "draining"}) => backlog'[g][r] = 0
           /\ g > prepared' => writer'[g][r] = "none"
      /\ \A r \in Resource : backlog'[n][r] = 0
      /\ \A g \in Generation \ {n}, r \in Resource :
           writer'[g][r] \in {"accepting", "draining"} =>
             backlog'[g][r] = 0 /\ writer'[g][r] = "draining"
  BY <1>1, <1>2, FreshFacts
<1>4. call' \in CallState /\ call' # Returned
  BY <1>2 DEF CallState, Returned
<1>5. Types'
  <2>1. prepared' \in 0 .. MaxStarts /\ current' \in 0 .. prepared'
    BY <1>1, <1>2, Bounds DEF Safe, Generation
  <2>3. writer' \in [Generation -> [Resource -> {"none", "accepting", "draining", "gone"}]]
    BY DEF Fresh
  <2>. QED  BY <1>1, <1>2, <1>4, <2>1, <2>3 DEF Safe, Types
<1>6. Phased'
  BY <1>1, <1>2, <1>4 DEF Phased, InCall
<1>7. Closing'
  <2>1. writer'[n]["capture"] = "none"
    BY DEF PrepareFails, Prepare, Fresh, Safe, Types, Resource
  <2>. QED  BY <1>2, <2>1 DEF Closing, Alive
<1>8. Waiting'
  BY <1>2, <1>3 DEF Waiting, Alive
<1>9. UnownedWritersIdle'
  BY <1>2, <1>3 DEF UnownedWritersIdle, Alive
<1>. QED  BY <1>3, <1>5, <1>6, <1>7, <1>8, <1>9 DEF Safe

\* The steps that begin or end a call and leave its resources alone.
LEMMA CallBoundary ==
  ASSUME Safe, UNCHANGED <<prepared, resources, observer, counters>>,
         bound' \in BOOLEAN, call' \in CallState,
         state' \in {"stopped", "starting", "active", "stopping"},
         stopped' \in {"none", "true", "false"}, current' \in 0 .. prepared,
         Phased', Closing', InCall' => call.place = "returned" /\ call'.of = "stop",
         \/ current' = current /\ state' \in {"active", "stopping"}
         \/ /\ current' = 0
            /\ state \in {"active", "stopping"} => \A r \in Resource : ~Alive(current, r)
         \/ UNCHANGED <<state, current>>,
         \A g \in Generation \ {current'}, r \in Resource :
           Alive(g, r) => backlog[g][r] = 0 /\ writer[g][r] = "draining"
  PROVE  Safe'
<1>1. Types'
  BY DEF Safe, Types, resources
<1>2. Waiting'
  BY DEF Safe, Waiting, Alive, resources
<1>3. Held'
  <2>. SUFFICES ASSUME NEW o \in Observer, observer[o].place \in {"normalize", "offer"}
                PROVE  HeldBy(observer[o])'
    BY DEF Held, resources, HeldBy
  <2>1. /\ observer[o].g \in Generation /\ HeldBy(observer[o])
    BY HeldType DEF Safe, Held
  <2>2. observer[o].g # 0
    BY <2>1, Bounds DEF Safe
  <2>. QED  BY <2>1, <2>2 DEF HeldBy, resources, Alive
<1>4. UnownedWritersIdle'
  BY DEF UnownedWritersIdle, resources, Alive
<1>. QED  BY <1>1, <1>2, <1>3, <1>4 DEF Safe

LEMMA ReturnedFacts == Returned \in CallState /\ Returned.place = "returned"
BY DEF CallState, Returned

LEMMA RegisterSucceedsSafe == Safe /\ RegisterSucceeds => Safe'
<1>. SUFFICES ASSUME Safe, RegisterSucceeds  PROVE Safe'
  OBVIOUS
<1>1. /\ InCall /\ call.of = "start" /\ state = "starting" /\ call.g = current
      /\ current # 0
  BY InCallByPlace DEF Safe, RegisterSucceeds, Phased
<1>2. /\ state' = "active" /\ bound' = TRUE /\ call' = Returned
      /\ UNCHANGED <<current, prepared, stopped, resources, observer, counters>>
  BY DEF RegisterSucceeds
<1>3. Phased' /\ Closing' /\ ~InCall'
  BY <1>1, <1>2 DEF Safe, Phased, Closing, InCall
<1>4. \A g \in Generation \ {current'}, r \in Resource :
        Alive(g, r) => backlog[g][r] = 0 /\ writer[g][r] = "draining"
  BY <1>1, <1>2 DEF Safe, UnownedWritersIdle
<1>5. /\ stopped' \in {"none", "true", "false"} /\ current' \in 0 .. prepared
      /\ call' \in CallState
  BY <1>2, ReturnedFacts DEF Safe, Types
<1>. QED  BY <1>2, <1>3, <1>4, <1>5, CallBoundary

LEMMA StopInStoppedSafe == Safe /\ StopInStopped => Safe'
<1>. SUFFICES ASSUME Safe, StopInStopped  PROVE Safe'
  OBVIOUS
<1>1. /\ ~InCall /\ state = "stopped" /\ stopped' = "true" /\ call = Returned
      /\ UNCHANGED <<state, bound, current, prepared, resources, call, observer, counters>>
  BY DEF StopInStopped, InCall
<1>2. Phased' /\ Closing' /\ ~InCall'
  BY <1>1 DEF Safe, Phased, Closing, InCall
<1>3. \A g \in Generation \ {current'}, r \in Resource :
        Alive(g, r) => backlog[g][r] = 0 /\ writer[g][r] = "draining"
  BY <1>1, ReturnedFacts DEF Safe, UnownedWritersIdle
<1>4. /\ bound' \in BOOLEAN /\ current' \in 0 .. prepared /\ call' \in CallState
      /\ state' \in {"stopped", "starting", "active", "stopping"}
  BY <1>1 DEF Safe, Types
<1>. QED  BY <1>1, <1>2, <1>3, <1>4, CallBoundary

LEMMA StopBeginsSafe == Safe /\ StopBegins => Safe'
<1>. SUFFICES ASSUME Safe, StopBegins  PROVE Safe'
  OBVIOUS
<1>1. /\ call = Returned /\ ~InCall /\ state # "stopped" /\ state' = "stopping"
      /\ UNCHANGED <<bound, current, prepared, stopped, resources, observer, counters>>
  BY DEF StopBegins, InCall
<1>2. current # 0 /\ current \in Generation /\ stopped # "true"
  BY <1>1, Bounds DEF Safe, Phased
<1>3. /\ call' \in CallState /\ call' # Returned /\ call'.of = "stop"
      /\ call'.g = current /\ call'.place \in {"unregister", "close_normalizer"}
  BY <1>2 DEF StopBegins, CallState, Returned
<1>4. Phased' /\ Closing'
  BY <1>1, <1>2, <1>3 DEF Phased, Closing, InCall
<1>5. \A g \in Generation \ {current'}, r \in Resource :
        Alive(g, r) => backlog[g][r] = 0 /\ writer[g][r] = "draining"
  BY <1>1, ReturnedFacts DEF Safe, UnownedWritersIdle
<1>6. /\ bound' \in BOOLEAN /\ current' \in 0 .. prepared
      /\ stopped' \in {"none", "true", "false"}
  BY <1>1 DEF Safe, Types
<1>. QED  BY <1>1, <1>3, <1>4, <1>5, <1>6, ReturnedFacts, CallBoundary

\* A failed start() gives its resources up; nothing was queued and nothing will be.
LEMMA FinishStartSafe == Safe /\ FinishStart => Safe'
<1>. SUFFICES ASSUME Safe, FinishStart  PROVE Safe'
  OBVIOUS
<1>1. /\ InCall /\ call.place = "finish" /\ call.of \in {"start", "prepare"}
      /\ call.g \in Generation
  BY InCallByPlace, CallFacts DEF Safe, FinishStart
<1>2. /\ state' = "stopped" /\ current' = 0 /\ call' = Returned
      /\ UNCHANGED <<bound, prepared, stopped, resources, observer, counters>>
  BY DEF FinishStart
<1>3. state \in {"starting", "stopped"} /\ stopped # "true"
  BY <1>1 DEF Safe, Phased
<1>4. Phased' /\ Closing' /\ ~InCall'
  BY <1>2, <1>3 DEF Phased, Closing, InCall
<1>5. \A r \in Resource : writer[call.g][r] # "accepting" /\ backlog[call.g][r] = 0
  BY <1>1 DEF Safe, Closing, Waiting, Resource
<1>6. \A g \in Generation \ {current'}, r \in Resource :
        Alive(g, r) => backlog[g][r] = 0 /\ writer[g][r] = "draining"
  <2>. SUFFICES ASSUME NEW g \in Generation, NEW r \in Resource, Alive(g, r)
                PROVE  backlog[g][r] = 0 /\ writer[g][r] = "draining"
    OBVIOUS
  <2>1. CASE g = call.g
    BY <1>5, <2>1 DEF Alive
  <2>2. CASE g # call.g /\ g # current
    BY <2>2 DEF Safe, UnownedWritersIdle
  <2>3. CASE g = current /\ g # call.g
    <3>1. current = 0
      BY <1>1, <2>3 DEF Safe, Phased
    <3>. QED  BY <2>3, <3>1, Bounds DEF Safe
  <2>. QED  BY <2>1, <2>2, <2>3
<1>7. /\ bound' \in BOOLEAN /\ current' \in 0 .. prepared
      /\ stopped' \in {"none", "true", "false"}
  BY <1>2, Bounds DEF Safe, Types
<1>. QED  BY <1>2, <1>3, <1>4, <1>6, <1>7, ReturnedFacts, CallBoundary

\* stop() forgets its resources only when their writers have exited.
LEMMA FinishStopSafe == Safe /\ FinishStop => Safe'
<1>. SUFFICES ASSUME Safe, FinishStop  PROVE Safe'
  OBVIOUS
<1>1. /\ InCall /\ call.place = "finish" /\ call.of = "stop"
      /\ call.g \in Generation /\ call.g = current /\ state = "stopping"
      /\ stopped # "true"
  BY InCallByPlace, CallFacts DEF Safe, FinishStop, Phased
<1>2. /\ bound' = FALSE /\ call' = Returned
      /\ stopped' \in {"true", "false"}
      /\ UNCHANGED <<prepared, resources, observer, counters>>
  BY DEF FinishStop
<1>3. \A r \in Resource : writer[current][r] # "accepting"
  BY <1>1 DEF Safe, Closing, Resource
<1>4. call.ok => ~WriterInFlight
  BY <1>1 DEF Safe, Closing, WriterInFlight, Resource
<1>5. \A g \in Generation \ {current}, r \in Resource :
        Alive(g, r) => backlog[g][r] = 0 /\ writer[g][r] = "draining"
  BY <1>1 DEF Safe, UnownedWritersIdle
<1>6. CASE WriterInFlight
  <2>1. UNCHANGED <<state, current>> /\ stopped' = "false"
    BY <1>4, <1>6 DEF FinishStop
  <2>2. Phased' /\ Closing' /\ ~InCall'
    BY <1>1, <1>2, <2>1, Bounds DEF Safe, Phased, Closing, InCall
  <2>3. current' \in 0 .. prepared
    BY <2>1 DEF Safe, Types
  <2>. QED  BY <1>1, <1>2, <1>5, <2>1, <2>2, <2>3, ReturnedFacts, CallBoundary
<1>7. CASE ~WriterInFlight
  <2>1. state' = "stopped" /\ current' = 0
    BY <1>7 DEF FinishStop
  <2>2. Phased' /\ Closing' /\ ~InCall'
    BY <1>2, <2>1 DEF Phased, Closing, InCall
  <2>3. \A r \in Resource : ~Alive(current, r)
    BY <1>7 DEF WriterInFlight
  <2>4. \A g \in Generation \ {current'}, r \in Resource :
          Alive(g, r) => backlog[g][r] = 0 /\ writer[g][r] = "draining"
    BY <1>5, <2>3
  <2>5. current' \in 0 .. prepared
    BY <2>1, Bounds DEF Safe
  <2>. QED  BY <1>2, <2>1, <2>2, <2>3, <2>4, <2>5, ReturnedFacts, CallBoundary
<1>. QED  BY <1>6, <1>7

-----------------------------------------------------------------------------
(* Steps of the writers and of the callbacks.                              *)

LEMMA CountFacts ==
  ASSUME counters \in [Name -> Nat], NEW n, NEW k, <<n, k>> \in Name, Count(n, k)
  PROVE  /\ counters' \in [Name -> Nat]
         /\ counters'[<<n, k>>] = counters[<<n, k>>] + 1
         /\ \A x \in Name \ {<<n, k>>} : counters'[x] = counters[x]
BY DEF Count

LEMMA ReportFacts ==
  ASSUME counters \in [Name -> Nat], NEW r \in Resource, NEW written \in BOOLEAN,
         CaptureReports(r, written)
  PROVE  counters' \in [Name -> Nat]
<1>1. CASE r = "capture"
  <2>. PICK n \in {"written", "dropped"} : Count(n, "descriptor")
    BY <1>1 DEF CaptureReports
  <2>1. <<n, "descriptor">> \in Name
    BY DEF Name, Kind
  <2>. QED  BY <2>1, CountFacts
<1>2. CASE r # "capture"
  BY <1>2 DEF CaptureReports
<1>. QED  BY <1>1, <1>2

LEMMA WriterSettlesSafe ==
  ASSUME Safe, NEW g \in Generation, NEW r \in Resource, NEW written \in BOOLEAN,
         WriterSettles(g, r, written)
  PROVE  Safe'
<1>1. /\ Alive(g, r) /\ backlog[g][r] \in Nat /\ backlog[g][r] > 0
      /\ UNCHANGED <<lifecycle, normalizing, writer, call, observer>>
  BY WriterStates DEF Safe, WriterSettles
<1>. PICK v \in Nat : v = backlog[g][r] - 1
  BY <1>1
<1>2. /\ backlog' \in [Generation -> [Resource -> Nat]]
      /\ backlog'[g][r] = v
      /\ \A a \in Generation, b \in Resource :
           a # g \/ b # r => backlog'[a][b] = backlog[a][b]
  <2>1. backlog \in [Generation -> [Resource -> Nat]]
        /\ backlog' = [backlog EXCEPT ![g][r] = v]
    BY DEF Safe, Types, WriterSettles
  <2>. QED  BY <2>1, EntryChanged
<1>3. \A a \in Generation, b \in Resource : backlog[a][b] = 0 => backlog'[a][b] = 0
  BY <1>1, <1>2
<1>4. Types'
  <2>1. counters' \in [Name -> Nat]
    BY ReportFacts DEF Safe, Types, WriterSettles
  <2>. QED  BY <1>1, <1>2, <2>1 DEF Safe, Types, lifecycle
<1>5. Phased' /\ Closing'
  BY <1>1 DEF Safe, Phased, Closing, InCall, Alive, lifecycle
<1>6. Waiting'
  <2>1. InCall => call.g \in Generation
    BY CallFacts DEF Safe
  <2>. QED  BY <1>1, <1>3, <2>1 DEF Safe, Waiting, InCall, Alive, lifecycle
<1>7. Held'
  BY <1>1 DEF Safe, Held, HeldBy, Alive, lifecycle
<1>8. UnownedWritersIdle'
  BY <1>1, <1>3 DEF Safe, UnownedWritersIdle, Alive, lifecycle
<1>. QED  BY <1>4, <1>5, <1>6, <1>7, <1>8 DEF Safe

LEMMA WriterExitsSafe ==
  ASSUME Safe, NEW g \in Generation, NEW r \in Resource, WriterExits(g, r)
  PROVE  Safe'
<1>1. /\ writer[g][r] = "draining" /\ backlog[g][r] = 0
      /\ UNCHANGED <<lifecycle, normalizing, backlog, call, observer, counters>>
  BY DEF WriterExits
<1>2. /\ writer' \in [Generation -> [Resource -> {"none", "accepting", "draining", "gone"}]]
      /\ writer'[g][r] = "gone"
      /\ \A a \in Generation, b \in Resource :
           a # g \/ b # r => writer'[a][b] = writer[a][b]
  <2>. DEFINE R == {"none", "accepting", "draining", "gone"}
  <2>1. writer \in [Generation -> [Resource -> R]] /\ "gone" \in R
        /\ writer' = [writer EXCEPT ![g][r] = "gone"]
    BY DEF Safe, Types, WriterExits
  <2>. HIDE DEF R
  <2>2. /\ writer' \in [Generation -> [Resource -> R]]
        /\ writer'[g][r] = "gone"
        /\ \A a \in Generation, b \in Resource :
             a # g \/ b # r => writer'[a][b] = writer[a][b]
    BY <2>1, EntryChanged
  <2>. QED  BY <2>2 DEF R
<1>3. \A a \in Generation, b \in Resource :
        /\ writer'[a][b] = writer[a][b] \/ (a = g /\ b = r /\ writer'[a][b] = "gone")
        /\ writer[a][b] = "none" => writer'[a][b] = "none"
  BY <1>1, <1>2
<1>4. Types'
  BY <1>1, <1>2 DEF Safe, Types, lifecycle
<1>5. Phased'
  BY <1>1 DEF Safe, Phased, InCall, lifecycle
<1>6. Closing'
  <2>1. InCall => call.g \in Generation
    BY CallFacts DEF Safe
  <2>. QED  BY <1>1, <1>3, <2>1 DEF Safe, Closing, InCall, Alive, Resource
<1>7. Waiting'
  BY <1>1, <1>3 DEF Safe, Waiting, InCall, Alive, lifecycle
<1>8. Held'
  BY <1>1, <1>3, HeldType DEF Safe, Held, HeldBy, Alive, lifecycle
<1>9. UnownedWritersIdle'
  BY <1>1, <1>3 DEF Safe, UnownedWritersIdle, Alive, lifecycle
<1>. QED  BY <1>4, <1>5, <1>6, <1>7, <1>8, <1>9 DEF Safe

\* Callback o goes on to x.
Moves(o, x) == x \in ObserverState /\ observer' = [observer EXCEPT ![o] = x]

\* A callback that goes on without queueing anything.
LEMMA CallbackSafe ==
  ASSUME Safe, NEW o \in Observer, NEW x, Moves(o, x), HeldBy(x),
         counters' \in [Name -> Nat], UNCHANGED <<lifecycle, resources, call>>
  PROVE  Safe'
<1>1. /\ observer' \in [Observer -> ObserverState] /\ observer'[o] = x
      /\ \A p \in Observer \ {o} : observer'[p] = observer[p]
  BY DEF Moves, Safe, Types
<1>2. Types'
  BY <1>1 DEF Safe, Types, lifecycle, resources
<1>3. Phased' /\ Closing' /\ Waiting' /\ UnownedWritersIdle'
  BY DEF Safe, Phased, Closing, Waiting, UnownedWritersIdle, InCall, Alive,
         lifecycle, resources
<1>4. Held'
  <2>. SUFFICES ASSUME NEW p \in Observer  PROVE HeldBy(observer'[p])
    BY DEF Held, HeldBy, Alive, lifecycle, resources
  <2>. QED  BY <1>1 DEF Safe, Held
<1>. QED  BY <1>2, <1>3, <1>4 DEF Safe

-----------------------------------------------------------------------------
(* The ledgers.                                                            *)

Weight(p) == IF p THEN 1 ELSE 0

LEMMA OneMember ==
  ASSUME NEW A, IsFiniteSet(A), NEW o, NEW B, NEW p \in BOOLEAN,
         B = IF p THEN A \cup {o} ELSE A \ {o}
  PROVE  /\ IsFiniteSet(B) /\ Cardinality(A) \in Nat /\ Cardinality(B) \in Nat
         /\ Cardinality(B) + Weight(o \in A) = Cardinality(A) + Weight(p)
<1>1. /\ IsFiniteSet(A \cup {o}) /\ IsFiniteSet(A \ {o})
      /\ Cardinality(A) \in Nat
      /\ Cardinality(A \cup {o}) = IF o \in A THEN Cardinality(A) ELSE Cardinality(A) + 1
      /\ Cardinality(A \ {o}) = IF o \in A THEN Cardinality(A) - 1 ELSE Cardinality(A)
  BY FS_AddElement, FS_RemoveElement, FS_CardinalityType
<1>2. IsFiniteSet(B) /\ Cardinality(B) \in Nat
  BY <1>1, FS_CardinalityType
<1>. QED  BY <1>1, <1>2 DEF Weight

\* How many callbacks are in progress after one has moved.
LEMMA BusyMoves ==
  ASSUME Types, NEW kind, IsFiniteSet(InProgress(kind)),
         NEW o \in Observer, NEW x, Moves(o, x)
  PROVE  /\ IsFiniteSet(InProgress(kind)')
         /\ Cardinality(InProgress(kind)) \in Nat /\ Cardinality(InProgress(kind)') \in Nat
         /\ Cardinality(InProgress(kind)') + Weight(Busily(observer[o], kind))
              = Cardinality(InProgress(kind)) + Weight(Busily(x, kind))
<1>1. /\ observer'[o] = x
      /\ \A p \in Observer \ {o} : observer'[p] = observer[p]
  BY DEF Moves, Types
<1>. DEFINE A == InProgress(kind)
            B == InProgress(kind)'
<1>. PICK p \in BOOLEAN : p <=> Busily(x, kind)
  OBVIOUS
<1>2. B = IF p THEN A \cup {o} ELSE A \ {o}
  BY <1>1 DEF InProgress
<1>3. (o \in A) <=> Busily(observer[o], kind)
  BY DEF InProgress
<1>. HIDE DEF A, B
<1>4. /\ IsFiniteSet(B) /\ Cardinality(A) \in Nat /\ Cardinality(B) \in Nat
      /\ Cardinality(B) + Weight(o \in A) = Cardinality(A) + Weight(p)
  BY <1>2, OneMember DEF A
<1>5. /\ Weight(o \in A) = Weight(Busily(observer[o], kind))
      /\ Weight(p) = Weight(Busily(x, kind))
  BY <1>3 DEF Weight
<1>6. /\ IsFiniteSet(B) /\ Cardinality(A) \in Nat /\ Cardinality(B) \in Nat
      /\ Cardinality(B) + Weight(Busily(observer[o], kind))
           = Cardinality(A) + Weight(Busily(x, kind))
  BY <1>4, <1>5
<1>. QED  BY <1>6 DEF A, B

LEMMA UndecidedFinite ==
  ASSUME IsFiniteSet(InProgress("descriptor"))
  PROVE  IsFiniteSet(Undecided)
<1>1. Undecided \subseteq InProgress("descriptor")
  BY DEF Undecided, InProgress, Open
<1>. QED  BY <1>1, FS_Subset

\* How many submissions are undecided after a callback has moved.
LEMMA UndecidedMoves ==
  ASSUME Types, IsFiniteSet(InProgress("descriptor")),
         NEW o \in Observer, NEW x, Moves(o, x)
  PROVE  /\ Cardinality(Undecided) \in Nat /\ Cardinality(Undecided') \in Nat
         /\ Cardinality(Undecided') + Weight(Open(observer[o]))
              = Cardinality(Undecided) + Weight(Open(x))
<1>1. /\ observer'[o] = x
      /\ \A p \in Observer \ {o} : observer'[p] = observer[p]
  BY DEF Moves, Types
<1>. DEFINE A == Undecided
            B == Undecided'
<1>. PICK p \in BOOLEAN : p <=> Open(x)
  OBVIOUS
<1>2. B = IF p THEN A \cup {o} ELSE A \ {o}
  BY <1>1 DEF Undecided
<1>3. (o \in A) <=> Open(observer[o])
  BY DEF Undecided
<1>4. IsFiniteSet(A)
  BY UndecidedFinite
<1>. HIDE DEF A, B
<1>5. /\ Cardinality(A) \in Nat /\ Cardinality(B) \in Nat
      /\ Cardinality(B) + Weight(o \in A) = Cardinality(A) + Weight(p)
  BY <1>2, <1>4, OneMember
<1>6. /\ Weight(o \in A) = Weight(Open(observer[o]))
      /\ Weight(p) = Weight(Open(x))
  BY <1>3 DEF Weight
<1>7. /\ Cardinality(A) \in Nat /\ Cardinality(B) \in Nat
      /\ Cardinality(B) + Weight(Open(observer[o])) = Cardinality(A) + Weight(Open(x))
  BY <1>5, <1>6
<1>. QED  BY <1>7 DEF A, B

LEMMA UnsettledType == Types => Unsettled \in Nat
<1>. SUFFICES ASSUME Types  PROVE Unsettled \in Nat
  OBVIOUS
<1>1. CASE current = 0
  BY <1>1 DEF Unsettled
<1>2. CASE current # 0
  <2>1. current \in Generation
    BY <1>2, Bounds
  <2>. QED  BY <1>2, <2>1, WriterStates DEF Unsettled, Resource
<1>. QED  BY <1>1, <1>2

\* The entries the ledgers are about.
Label == {"received", "normalization_dropped", "emitted", "dropped",
          "callback_errors", "queued", "written"}

LEMMA NameFacts == \A n \in Label, k \in Kind : <<n, k>> \in Name
BY DEF Label, Name

LEMMA CounterTypes ==
  ASSUME counters \in [Name -> Nat], NEW n \in Label, NEW k \in Kind
  PROVE  counters[<<n, k>>] \in Nat
BY NameFacts

\* Steps of no callback that count nothing and leave the capture's backlog.
LEMMA NothingCounted ==
  ASSUME Counted, UNCHANGED <<observer, counters>>, Unsettled' = Unsettled
  PROVE  Counted'
<1>1. \A kind \in Kind : InProgress(kind)' = InProgress(kind)
  BY DEF InProgress
<1>2. Undecided' = Undecided
  BY DEF Undecided
<1>3. InProgress("observation")' = InProgress("observation")
      /\ InProgress("host_fact")' = InProgress("host_fact")
  BY DEF InProgress
<1>. QED  BY <1>1, <1>2, <1>3
          DEF Counted, ObservationLedger, FactLedger, DescriptorLedger

\* The sets of callbacks stay finite.
LEMMA StillFinite ==
  ASSUME Types, \A kind \in Kind : IsFiniteSet(InProgress(kind)),
         NEW o \in Observer, NEW x, Moves(o, x)
  PROVE  \A kind \in Kind : IsFiniteSet(InProgress(kind)')
BY BusyMoves

\* What a move means for the numbers in the ledgers.
LEMMA NumbersMove ==
  ASSUME Types, Counted, NEW o \in Observer, NEW x, Moves(o, x)
  PROVE  \E a \in Nat, b \in Nat, c \in Nat, a2 \in Nat, b2 \in Nat, c2 \in Nat :
           /\ a = Cardinality(InProgress("observation"))
           /\ b = Cardinality(InProgress("host_fact"))
           /\ c = Cardinality(Undecided)
           /\ a2 = Cardinality(InProgress("observation")')
           /\ b2 = Cardinality(InProgress("host_fact")')
           /\ c2 = Cardinality(Undecided')
           /\ a2 + Weight(Busily(observer[o], "observation")) = a + Weight(Busily(x, "observation"))
           /\ b2 + Weight(Busily(observer[o], "host_fact")) = b + Weight(Busily(x, "host_fact"))
           /\ c2 + Weight(Open(observer[o])) = c + Weight(Open(x))
<1>1. /\ IsFiniteSet(InProgress("observation")) /\ IsFiniteSet(InProgress("host_fact"))
      /\ IsFiniteSet(InProgress("descriptor"))
  BY DEF Counted, Kind
<1>2. /\ Cardinality(InProgress("observation")) \in Nat
      /\ Cardinality(InProgress("observation")') \in Nat
      /\ Cardinality(InProgress("observation")') + Weight(Busily(observer[o], "observation"))
           = Cardinality(InProgress("observation")) + Weight(Busily(x, "observation"))
  BY <1>1, BusyMoves
<1>3. /\ Cardinality(InProgress("host_fact")) \in Nat
      /\ Cardinality(InProgress("host_fact")') \in Nat
      /\ Cardinality(InProgress("host_fact")') + Weight(Busily(observer[o], "host_fact"))
           = Cardinality(InProgress("host_fact")) + Weight(Busily(x, "host_fact"))
  BY <1>1, BusyMoves
<1>4. /\ Cardinality(Undecided) \in Nat /\ Cardinality(Undecided') \in Nat
      /\ Cardinality(Undecided') + Weight(Open(observer[o]))
           = Cardinality(Undecided) + Weight(Open(x))
  BY <1>1, UndecidedMoves
<1>. QED  BY <1>2, <1>3, <1>4

\* A callback in progress goes on.
LEMMA GoesOnCounted ==
  ASSUME Types, Counted, NEW o \in Observer, NEW x, Moves(o, x),
         \A kind \in Kind : Busily(x, kind) <=> Busily(observer[o], kind),
         Unsettled' \in Nat,
         Unsettled' + Weight(Open(x)) = Unsettled + Weight(Open(observer[o])),
         counters' \in [Name -> Nat],
         \A n \in Label, k \in Kind :
           n # "callback_errors" \/ k # "host_fact" =>
             counters'[<<n, k>>] = counters[<<n, k>>]
  PROVE  Counted'
<1>1. \A kind \in Kind : IsFiniteSet(InProgress(kind)')
  BY StillFinite DEF Counted
<1>2. PICK a \in Nat, b \in Nat, c \in Nat, a2 \in Nat, b2 \in Nat, c2 \in Nat :
        /\ a = Cardinality(InProgress("observation"))
        /\ b = Cardinality(InProgress("host_fact"))
        /\ c = Cardinality(Undecided)
        /\ a2 = Cardinality(InProgress("observation")')
        /\ b2 = Cardinality(InProgress("host_fact")')
        /\ c2 = Cardinality(Undecided')
        /\ a2 + Weight(Busily(observer[o], "observation")) = a + Weight(Busily(x, "observation"))
        /\ b2 + Weight(Busily(observer[o], "host_fact")) = b + Weight(Busily(x, "host_fact"))
        /\ c2 + Weight(Open(observer[o])) = c + Weight(Open(x))
  BY NumbersMove
<1>3. /\ Weight(Busily(observer[o], "observation")) = Weight(Busily(x, "observation"))
      /\ Weight(Busily(observer[o], "host_fact")) = Weight(Busily(x, "host_fact"))
  BY DEF Weight, Kind
<1>4. a2 = a /\ b2 = b
  BY <1>2, <1>3 DEF Weight
<1>5. c2 + Unsettled' = c + Unsettled
  <2>1. Unsettled \in Nat
    BY UnsettledType
  <2>. PICK v \in Nat, w \in Nat : v = Weight(Open(x)) /\ w = Weight(Open(observer[o]))
    BY DEF Weight
  <2>. PICK u \in Nat, u2 \in Nat : u = Unsettled /\ u2 = Unsettled'
    BY <2>1
  <2>2. c2 + w = c + v /\ u2 + v = u + w
    BY <1>2
  <2>. QED  BY <2>1, <2>2
<1>6. ObservationLedger'
  BY <1>2, <1>4 DEF Counted, ObservationLedger, Label, Kind
<1>7. FactLedger'
  BY <1>2, <1>4 DEF Counted, FactLedger, Label, Kind
<1>8. DescriptorLedger'
  <2>1. /\ counters'[<<"received", "descriptor">>] = counters[<<"received", "descriptor">>]
        /\ counters'[<<"written", "descriptor">>] = counters[<<"written", "descriptor">>]
        /\ counters'[<<"dropped", "descriptor">>] = counters[<<"dropped", "descriptor">>]
        /\ counters'[<<"callback_errors", "descriptor">>]
             = counters[<<"callback_errors", "descriptor">>]
    BY DEF Label, Kind
  <2>. QED  BY <1>2, <1>5, <2>1 DEF Counted, DescriptorLedger
<1>. QED  BY <1>1, <1>6, <1>7, <1>8 DEF Counted

\* The counters of the ledgers after one of them was incremented.
LEMMA OneCounted ==
  ASSUME Types, NEW n \in Label, NEW k \in Kind, Count(n, k)
  PROVE  /\ counters' \in [Name -> Nat]
         /\ \A m \in Label, l \in Kind :
              /\ counters[<<m, l>>] \in Nat
              /\ counters'[<<m, l>>] =
                   IF m = n /\ l = k THEN counters[<<m, l>>] + 1 ELSE counters[<<m, l>>]
<1>1. /\ counters \in [Name -> Nat] /\ <<n, k>> \in Name
      /\ counters' \in [Name -> Nat]
      /\ counters'[<<n, k>>] = counters[<<n, k>>] + 1
      /\ \A x \in Name \ {<<n, k>>} : counters'[x] = counters[x]
  BY NameFacts, CountFacts DEF Types
<1>2. \A m \in Label, l \in Kind : <<m, l>> \in Name
  BY NameFacts
<1>. QED  BY <1>1, <1>2

\* A callback begins, and is counted as received.
LEMMA BeginsCounted ==
  ASSUME Types, Counted, NEW o \in Observer, NEW x, Moves(o, x), observer[o] = Idle,
         NEW kind \in Kind, x # Idle, x.kind = kind, x.place # "count",
         Count("received", kind), Unsettled' = Unsettled
  PROVE  Counted'
<1>1. \A k \in Kind : IsFiniteSet(InProgress(k)')
  BY StillFinite DEF Counted
<1>2. PICK a \in Nat, b \in Nat, c \in Nat, a2 \in Nat, b2 \in Nat, c2 \in Nat :
        /\ a = Cardinality(InProgress("observation"))
        /\ b = Cardinality(InProgress("host_fact"))
        /\ c = Cardinality(Undecided)
        /\ a2 = Cardinality(InProgress("observation")')
        /\ b2 = Cardinality(InProgress("host_fact")')
        /\ c2 = Cardinality(Undecided')
        /\ a2 + Weight(Busily(observer[o], "observation")) = a + Weight(Busily(x, "observation"))
        /\ b2 + Weight(Busily(observer[o], "host_fact")) = b + Weight(Busily(x, "host_fact"))
        /\ c2 + Weight(Open(observer[o])) = c + Weight(Open(x))
  BY NumbersMove
<1>3. /\ a2 = IF kind = "observation" THEN a + 1 ELSE a
      /\ b2 = IF kind = "host_fact" THEN b + 1 ELSE b
      /\ c2 = IF kind = "descriptor" THEN c + 1 ELSE c
  BY <1>2 DEF Weight, Busily, Open
<1>4. \A m \in Label, l \in Kind :
        /\ counters[<<m, l>>] \in Nat
        /\ counters'[<<m, l>>] =
             IF m = "received" /\ l = kind THEN counters[<<m, l>>] + 1 ELSE counters[<<m, l>>]
  BY OneCounted DEF Label
<1>5. Unsettled \in Nat
  BY UnsettledType
<1>6. ObservationLedger'
  BY <1>2, <1>3, <1>4 DEF Counted, ObservationLedger, Label, Kind
<1>7. FactLedger'
  BY <1>2, <1>3, <1>4 DEF Counted, FactLedger, Label, Kind
<1>8. DescriptorLedger'
  BY <1>2, <1>3, <1>4, <1>5 DEF Counted, DescriptorLedger, Label, Kind
<1>. QED  BY <1>1, <1>6, <1>7, <1>8 DEF Counted

\* A callback returns, and is counted by its outcome.
LEMMA ReturnsCounted ==
  ASSUME Types, Counted, NEW o \in Observer, observer[o].place = "count",
         Moves(o, Idle), Count(observer[o].as, observer[o].kind), Unsettled' = Unsettled
  PROVE  Counted'
<1>1. \A k \in Kind : IsFiniteSet(InProgress(k)')
  BY StillFinite DEF Counted
<1>2. PICK a \in Nat, b \in Nat, c \in Nat, a2 \in Nat, b2 \in Nat, c2 \in Nat :
        /\ a = Cardinality(InProgress("observation"))
        /\ b = Cardinality(InProgress("host_fact"))
        /\ c = Cardinality(Undecided)
        /\ a2 = Cardinality(InProgress("observation")')
        /\ b2 = Cardinality(InProgress("host_fact")')
        /\ c2 = Cardinality(Undecided')
        /\ a2 + Weight(Busily(observer[o], "observation")) = a + Weight(Busily(Idle, "observation"))
        /\ b2 + Weight(Busily(observer[o], "host_fact")) = b + Weight(Busily(Idle, "host_fact"))
        /\ c2 + Weight(Open(observer[o])) = c + Weight(Open(Idle))
  BY NumbersMove
<1>. PICK n, k : n = observer[o].as /\ k = observer[o].kind
  OBVIOUS
<1>3. /\ observer[o] # Idle /\ n \in Label /\ k \in Kind
      /\ k = "observation" =>
           n \in {"normalization_dropped", "emitted", "dropped", "callback_errors"}
      /\ k = "host_fact" => n \in {"emitted", "dropped"}
      /\ k = "descriptor" => n \in {"queued", "dropped", "callback_errors"}
  BY DEF Types, ObserverState, Idle, Kind, Label
<1>4. /\ a = IF k = "observation" THEN a2 + 1 ELSE a2
      /\ b = IF k = "host_fact" THEN b2 + 1 ELSE b2
      /\ c = IF k = "descriptor" /\ n # "queued" THEN c2 + 1 ELSE c2
  BY <1>2, <1>3 DEF Weight, Busily, Open
<1>5. \A m \in Label, l \in Kind :
        /\ counters[<<m, l>>] \in Nat
        /\ counters'[<<m, l>>] =
             IF m = n /\ l = k THEN counters[<<m, l>>] + 1 ELSE counters[<<m, l>>]
  BY <1>3, OneCounted
<1>6. Unsettled \in Nat
  BY UnsettledType
<1>7. ObservationLedger'
  BY <1>2, <1>3, <1>4, <1>5 DEF Counted, ObservationLedger, Label, Kind
<1>8. FactLedger'
  BY <1>2, <1>3, <1>4, <1>5 DEF Counted, FactLedger, Label, Kind
<1>9. DescriptorLedger'
  BY <1>2, <1>3, <1>4, <1>5, <1>6 DEF Counted, DescriptorLedger, Label, Kind
<1>. QED  BY <1>1, <1>7, <1>8, <1>9 DEF Counted

-----------------------------------------------------------------------------
(* Every action keeps the invariant.                                       *)

LEMMA SameUnsettled == UNCHANGED <<current, backlog>> => Unsettled' = Unsettled
BY DEF Unsettled

\* Of start(), stop() and the writers' exits, only those that change the current
\* generation could lose count of a descriptor; then none waits.
LEMMA LifecycleCounted ==
  ASSUME IInv,
         \/ StartPrepares \/ PrepareFails \/ RegisterSucceeds \/ RegisterFails
         \/ StopInStopped \/ StopBegins
         \/ \E raises \in BOOLEAN : Unregister(raises)
         \/ CloseNormalizer \/ CloseCapture \/ CloseSink \/ JoinSink
         \/ \E ok \in BOOLEAN : JoinCapture(ok)
         \/ FinishStart \/ FinishStop
         \/ \E g \in Generation, r \in Resource : WriterExits(g, r)
  PROVE  Counted'
<1>0. Safe /\ Counted /\ Types
  BY DEF IInv, Safe
<1>1. CASE StartPrepares
  <2>1. /\ \E n \in Generation : Fresh(n)
        /\ current = 0
        /\ UNCHANGED <<backlog, observer, counters>>
    BY <1>0, <1>1, PrepareFacts DEF StartPrepares
  <2>. PICK n \in Generation : Fresh(n)
    BY <2>1
  <2>2. current' = n /\ backlog'[n]["capture"] = 0
    BY <1>1, <2>1 DEF StartPrepares, Fresh, Resource
  <2>3. Unsettled' = Unsettled
    BY <2>1, <2>2 DEF Unsettled
  <2>. QED  BY <1>0, <2>1, <2>3, NothingCounted
<1>2. CASE FinishStart
  <2>1. current' = 0 /\ UNCHANGED <<resources, observer, counters>>
    BY <1>2 DEF FinishStart
  <2>2. Unsettled = 0
    <3>1. InCall /\ call.of # "stop"
      BY <1>0, <1>2, InCallByPlace DEF FinishStart
    <3>2. call.of \in {"start", "prepare"}
      BY <1>0, <3>1, CallFacts
    <3>3. current = 0 \/ current = call.g
      BY <1>0, <3>1, <3>2 DEF Safe, Phased
    <3>4. backlog[call.g]["capture"] = 0
      BY <1>0, <3>1 DEF Safe, Waiting, Resource
    <3>. QED  BY <3>3, <3>4 DEF Unsettled
  <2>3. Unsettled' = Unsettled
    BY <2>1, <2>2 DEF Unsettled
  <2>. QED  BY <1>0, <2>1, <2>3, NothingCounted
<1>3. CASE FinishStop
  <2>1. UNCHANGED <<resources, observer, counters>>
    BY <1>3 DEF FinishStop
  <2>2. CASE WriterInFlight
    <3>1. UNCHANGED <<current, backlog>>
      BY <1>3, <2>2 DEF FinishStop, resources
    <3>. QED  BY <1>0, <2>1, <3>1, SameUnsettled, NothingCounted
  <2>3. CASE ~WriterInFlight
    <3>1. current' = 0
      BY <1>3, <2>3 DEF FinishStop
    <3>2. current = 0 \/ current \in Generation
      BY <1>0, Bounds
    <3>3. current = 0 \/ backlog[current]["capture"] = 0
      BY <1>0, <2>3, <3>2 DEF Safe, Waiting, WriterInFlight, Resource
    <3>4. Unsettled' = Unsettled
      BY <3>1, <3>3 DEF Unsettled
    <3>. QED  BY <1>0, <2>1, <3>4, NothingCounted
  <2>. QED  BY <2>2, <2>3
<1>4. CASE UNCHANGED <<current, backlog, observer, counters>>
  BY <1>0, <1>4, SameUnsettled, NothingCounted
<1>. QED
  BY <1>1, <1>2, <1>3, <1>4
     DEF PrepareFails, Prepare, RegisterSucceeds, RegisterFails, StopInStopped,
         StopBegins, Unregister, CloseNormalizer, CloseCapture, CloseSink, JoinSink,
         JoinCapture, WriterExits, lifecycle, resources

\* A descriptor the capture settles is counted then.
LEMMA WriterSettlesCounted ==
  ASSUME IInv, NEW g \in Generation, NEW r \in Resource, NEW written \in BOOLEAN,
         WriterSettles(g, r, written)
  PROVE  Counted'
<1>0. Safe /\ Counted /\ Types
  BY DEF IInv, Safe
<1>1. /\ Alive(g, r) /\ backlog[g][r] \in Nat /\ backlog[g][r] > 0
      /\ UNCHANGED <<lifecycle, observer>>
  BY <1>0, WriterStates DEF WriterSettles
<1>2. g = current /\ current # 0
  BY <1>0, <1>1, Bounds DEF Safe, UnownedWritersIdle
<1>. PICK v \in Nat : v = backlog[g][r] - 1
  BY <1>1
<1>3. /\ backlog'[g][r] = v
      /\ \A a \in Generation, b \in Resource :
           a # g \/ b # r => backlog'[a][b] = backlog[a][b]
  <2>1. backlog \in [Generation -> [Resource -> Nat]]
        /\ backlog' = [backlog EXCEPT ![g][r] = v]
    BY <1>0 DEF Types, WriterSettles
  <2>. QED  BY <2>1, EntryChanged
<1>4. CASE r = "capture"
  <2>. PICK n \in {"written", "dropped"} : Count(n, "descriptor")
    BY <1>4 DEF WriterSettles, CaptureReports
  <2>1. \A m \in Label, l \in Kind :
          /\ counters[<<m, l>>] \in Nat
          /\ counters'[<<m, l>>] =
               IF m = n /\ l = "descriptor" THEN counters[<<m, l>>] + 1
                                            ELSE counters[<<m, l>>]
    BY <1>0, OneCounted DEF Label, Kind
  <2>2. Unsettled = v + 1 /\ Unsettled' = v
    BY <1>1, <1>2, <1>3, <1>4 DEF Unsettled, lifecycle
  <2>3. /\ \A kind \in Kind : IsFiniteSet(InProgress(kind)')
        /\ InProgress("observation")' = InProgress("observation")
        /\ InProgress("host_fact")' = InProgress("host_fact")
        /\ Undecided' = Undecided
    BY <1>0, <1>1 DEF Counted, InProgress, Undecided
  <2>4. Cardinality(Undecided) \in Nat
    BY <1>0, UndecidedFinite, FS_CardinalityType DEF Counted, Kind
  <2>5. ObservationLedger' /\ FactLedger'
    BY <1>0, <2>1, <2>3 DEF Counted, ObservationLedger, FactLedger, Label, Kind
  <2>6. DescriptorLedger'
    BY <1>0, <2>1, <2>2, <2>3, <2>4 DEF Counted, DescriptorLedger, Label, Kind
  <2>. QED  BY <2>3, <2>5, <2>6 DEF Counted
<1>5. CASE r # "capture"
  <2>1. UNCHANGED counters
    BY <1>5 DEF WriterSettles, CaptureReports
  <2>2. backlog'[current]["capture"] = backlog[current]["capture"]
    BY <1>2, <1>3, <1>5 DEF Resource
  <2>3. Unsettled' = Unsettled
    BY <1>1, <1>2, <2>2 DEF Unsettled, lifecycle
  <2>. QED  BY <1>0, <1>1, <2>1, <2>3, NothingCounted
<1>. QED  BY <1>4, <1>5

LEMMA CallbackBeginsInv ==
  ASSUME IInv, NEW o \in Observer, NEW kind \in Kind, CallbackBegins(o, kind)
  PROVE  IInv'
<1>0. Safe /\ Counted /\ Types
  BY DEF IInv, Safe
<1>. PICK x : x = [place |-> IF kind = "observation" THEN "normalize" ELSE "offer",
                   kind |-> kind, g |-> current]
  OBVIOUS
<1>1. /\ observer[o] = Idle /\ state = "active" /\ Count("received", kind)
      /\ observer' = [observer EXCEPT ![o] = x]
      /\ UNCHANGED <<lifecycle, resources, call>>
  BY DEF CallbackBegins, Serving
<1>2. current \in Generation /\ current <= prepared
  BY <1>0, <1>1, Bounds DEF Safe, Phased
<1>3. x \in ObserverState /\ x # Idle /\ x.kind = kind /\ x.place # "count" /\ x.g = current
  <2>1. CASE kind = "observation"
    BY <1>2, <2>1 DEF ObserverState, Idle
  <2>2. CASE kind # "observation"
    BY <1>2, <2>2 DEF ObserverState, Idle
  <2>. QED  BY <2>1, <2>2
<1>4. Moves(o, x) /\ HeldBy(x)
  BY <1>1, <1>2, <1>3 DEF Moves, HeldBy
<1>5. counters' \in [Name -> Nat]
  BY <1>0, <1>1, OneCounted DEF Label
<1>6. Safe'
  BY <1>0, <1>1, <1>4, <1>5, CallbackSafe
<1>7. Counted'
  <2>1. Unsettled' = Unsettled
    BY <1>1, SameUnsettled DEF lifecycle, resources
  <2>. QED  BY <1>0, <1>1, <1>3, <1>4, <2>1, BeginsCounted
<1>. QED  BY <1>6, <1>7 DEF IInv

LEMMA CallbackReturnsInv ==
  ASSUME IInv, NEW o \in Observer, CallbackReturns(o)
  PROVE  IInv'
<1>0. Safe /\ Counted /\ Types
  BY DEF IInv, Safe
<1>1. /\ observer[o].place = "count" /\ Count(observer[o].as, observer[o].kind)
      /\ Moves(o, Idle) /\ HeldBy(Idle)
      /\ UNCHANGED <<lifecycle, resources, call>>
  BY DEF CallbackReturns, Moves, HeldBy, Idle, ObserverState
<1>2. observer[o].as \in Label /\ observer[o].kind \in Kind
  BY <1>0, <1>1 DEF Types, ObserverState, Idle, Kind, Label
<1>3. counters' \in [Name -> Nat]
  BY <1>0, <1>1, <1>2, OneCounted
<1>4. Safe'
  BY <1>0, <1>1, <1>3, CallbackSafe
<1>5. Counted'
  <2>1. Unsettled' = Unsettled
    BY <1>1, SameUnsettled DEF lifecycle, resources
  <2>. QED  BY <1>0, <1>1, <2>1, ReturnsCounted
<1>. QED  BY <1>4, <1>5 DEF IInv

\* The callback of o, one that queues nothing, goes on to x.
GoesOn(o, x) ==
  /\ Moves(o, x) /\ HeldBy(x)
  /\ \A kind \in Kind : Busily(x, kind) <=> Busily(observer[o], kind)
  /\ Open(x) <=> Open(observer[o])

LEMMA GoesOnInv ==
  ASSUME IInv, NEW o \in Observer, NEW x, GoesOn(o, x),
         UNCHANGED <<lifecycle, resources, call>>,
         UNCHANGED counters \/ Count("callback_errors", "host_fact")
  PROVE  IInv'
<1>0. Safe /\ Counted /\ Types
  BY DEF IInv, Safe
<1>1. /\ counters' \in [Name -> Nat]
      /\ \A n \in Label, k \in Kind :
           n # "callback_errors" \/ k # "host_fact" =>
             counters'[<<n, k>>] = counters[<<n, k>>]
  <2>1. CASE UNCHANGED counters
    BY <1>0, <2>1 DEF Types
  <2>2. CASE Count("callback_errors", "host_fact")
    BY <1>0, <2>2, OneCounted DEF Label, Kind
  <2>. QED  BY <2>1, <2>2
<1>2. Safe'
  BY <1>0, <1>1, CallbackSafe DEF GoesOn
<1>3. Counted'
  <2>1. Unsettled' = Unsettled /\ Unsettled \in Nat
    BY <1>0, SameUnsettled, UnsettledType DEF lifecycle, resources
  <2>2. Weight(Open(x)) = Weight(Open(observer[o]))
    BY DEF GoesOn, Weight
  <2>3. Unsettled' + Weight(Open(x)) = Unsettled + Weight(Open(observer[o]))
    BY <2>1, <2>2
  <2>. QED  BY <1>0, <1>1, <2>1, <2>3, GoesOnCounted DEF GoesOn
<1>. QED  BY <1>2, <1>3 DEF IInv

\* A callback that ends without its record having been accepted.
LEMMA UnacceptedGoesOn ==
  ASSUME Types, NEW o \in Observer, NEW name,
         observer[o].place \in {"normalize", "offer"}, Outcome(o, name),
         \/ observer[o].place = "normalize" /\ name = "normalization_dropped"
         \/ name = "dropped"
         \/ observer[o].kind # "host_fact" /\ name = "callback_errors"
         \/ observer[o].kind # "descriptor" /\ name = "emitted"
  PROVE  \E x : GoesOn(o, x)
<1>. PICK k : k = observer[o].kind
  OBVIOUS
<1>1. /\ observer[o] # Idle /\ k \in Kind
      /\ observer[o].place = "normalize" => k = "observation"
  BY DEF Types, ObserverState, Idle, Kind
<1>. PICK x : x = [place |-> "count", kind |-> k, as |-> name]
  OBVIOUS
<1>2. x.place = "count" /\ x.kind = k /\ x.as = name /\ x # Idle
  BY DEF Idle
<1>3. x \in ObserverState
  <2>1. CASE k = "observation"
    BY <2>1 DEF ObserverState
  <2>2. CASE k = "host_fact"
    BY <1>1, <2>2 DEF ObserverState
  <2>3. CASE k = "descriptor"
    BY <1>1, <2>3 DEF ObserverState
  <2>. QED  BY <1>1, <2>1, <2>2, <2>3 DEF Kind
<1>4. Moves(o, x)
  BY <1>3 DEF Moves, Outcome
<1>5. HeldBy(x)
  BY <1>2 DEF HeldBy
<1>6. \A kind \in Kind : Busily(x, kind) <=> Busily(observer[o], kind)
  BY <1>1, <1>2 DEF Busily
<1>7. Open(x) <=> Open(observer[o])
  BY <1>1, <1>2 DEF Open, Busily
<1>. QED  BY <1>4, <1>5, <1>6, <1>7 DEF GoesOn

LEMMA NormalizesToNothingInv ==
  ASSUME IInv, NEW o \in Observer, NormalizesToNothing(o)
  PROVE  IInv'
<1>1. PICK x : GoesOn(o, x)
  BY UnacceptedGoesOn DEF IInv, Safe, NormalizesToNothing
<1>. QED  BY <1>1, GoesOnInv DEF NormalizesToNothing

LEMMA RaisesInv ==
  ASSUME IInv, NEW o \in Observer, Raises(o)
  PROVE  IInv'
<1>1. PICK x : GoesOn(o, x)
  BY UnacceptedGoesOn DEF IInv, Safe, Raises, AfterError
<1>2. UNCHANGED counters \/ Count("callback_errors", "host_fact")
  BY DEF Raises, AfterError
<1>. QED  BY <1>1, <1>2, GoesOnInv DEF Raises

LEMMA NormalizesInv ==
  ASSUME IInv, NEW o \in Observer, Normalizes(o)
  PROVE  IInv'
<1>0. Types /\ HeldBy(observer[o])
  BY DEF IInv, Safe, Held
<1>. PICK g \in Generation : g = observer[o].g
  BY <1>0, HeldType DEF Normalizes
<1>1. observer[o] = [place |-> "normalize", kind |-> "observation", g |-> g]
  BY <1>0 DEF Normalizes, Types, ObserverState, Idle
<1>. PICK x : x = [place |-> "offer", kind |-> "observation", g |-> g]
  OBVIOUS
<1>2. observer' = [observer EXCEPT ![o] = x]
  <2>1. observer' = [observer EXCEPT ![o] = [observer[o] EXCEPT !.place = "offer"]]
    BY DEF Normalizes
  <2>2. [observer[o] EXCEPT !.place = "offer"] = x
    BY <1>1
  <2>. QED  BY <2>1, <2>2
<1>3. x \in ObserverState /\ x # Idle /\ x.kind = "observation" /\ x.g = g
      /\ x.place = "offer"
  BY DEF ObserverState, Idle, Kind
<1>4. observer[o] # Idle /\ observer[o].kind = "observation" /\ observer[o].g = g
      /\ observer[o].place = "normalize"
  BY <1>1 DEF Idle
<1>5. GoesOn(o, x)
  BY <1>0, <1>2, <1>3, <1>4 DEF GoesOn, Moves, HeldBy, Busily, Open
<1>. QED  BY <1>5, GoesOnInv DEF Normalizes

\* A call that has not been served yet owns no generation a callback could use.
LEMMA PreparedApart ==
  ASSUME Safe, InCall, call.of # "stop", state \in {"active", "stopping"}
  PROVE  FALSE
<1>1. call.of \in {"start", "prepare"}
  BY CallFacts DEF Safe
<1>. QED  BY <1>1 DEF Safe, Phased

\* What emit() or capture() accepts waits for a writer of the current generation.
LEMMA OffersInv ==
  ASSUME IInv, NEW o \in Observer, Offers(o)
  PROVE  IInv'
<1>0. Safe /\ Counted /\ Types /\ HeldBy(observer[o])
  BY DEF IInv, Safe, Held
<1>. PICK g \in Generation, k \in Kind : g = observer[o].g /\ k = observer[o].kind
  BY <1>0, HeldType DEF Offers
<1>. PICK r \in Resource : r = Target(k)
  BY DEF Target, Resource
<1>1. /\ observer[o].place = "offer" /\ observer[o] # Idle
      /\ UNCHANGED <<lifecycle, normalizing, writer, call, counters>>
      /\ r = "capture" <=> k = "descriptor"
  BY DEF Offers, Idle, Target
<1>2. CASE ~Accepts(g, r)
  <2>1. Outcome(o, "dropped") /\ UNCHANGED <<lifecycle, resources, call, counters>>
    BY <1>1, <1>2 DEF Offers, resources
  <2>2. PICK x : GoesOn(o, x)
    BY <1>0, <1>1, <2>1, UnacceptedGoesOn
  <2>. QED  BY <2>1, <2>2, GoesOnInv
<1>3. CASE Accepts(g, r)
  <2>1. /\ writer[g][r] = "accepting" /\ Alive(g, r)
        /\ backlog' = [backlog EXCEPT ![g][r] = backlog[g][r] + 1]
        /\ Outcome(o, IF r = "capture" THEN "queued" ELSE "emitted")
    BY <1>3 DEF Accepts, Offers, Alive
  <2>2. g = current /\ state \in {"active", "stopping"} /\ current # 0
    BY <1>0, <1>1, <2>1, Bounds DEF HeldBy
  <2>. PICK v \in Nat : v = backlog[g][r] + 1
    BY <1>0, WriterStates
  <2>3. /\ backlog' \in [Generation -> [Resource -> Nat]]
        /\ backlog'[g][r] = v
        /\ \A a \in Generation, b \in Resource :
             a # g \/ b # r => backlog'[a][b] = backlog[a][b]
    <3>1. backlog \in [Generation -> [Resource -> Nat]]
          /\ backlog' = [backlog EXCEPT ![g][r] = v]
      BY <1>0, <2>1 DEF Types
    <3>. QED  BY <3>1, EntryChanged
  <2>. PICK x : x = [place |-> "count", kind |-> k,
                     as |-> IF r = "capture" THEN "queued" ELSE "emitted"]
    OBVIOUS
  <2>4. /\ x # Idle /\ x.kind = k /\ x.place = "count"
        /\ x.as = IF r = "capture" THEN "queued" ELSE "emitted"
    BY DEF Idle
  <2>5. x \in ObserverState
    <3>1. CASE k = "observation"
      BY <1>1, <3>1 DEF ObserverState
    <3>2. CASE k = "host_fact"
      BY <1>1, <3>2 DEF ObserverState
    <3>3. CASE k = "descriptor"
      BY <1>1, <3>3 DEF ObserverState
    <3>. QED  BY <3>1, <3>2, <3>3 DEF Kind
  <2>6. Moves(o, x)
    BY <2>1, <2>5 DEF Moves, Outcome
  <2>7. /\ observer' \in [Observer -> ObserverState] /\ observer'[o] = x
        /\ \A p \in Observer \ {o} : observer'[p] = observer[p]
    BY <1>0, <2>6 DEF Moves, Types
  <2>8. Types'
    BY <1>0, <1>1, <2>3, <2>7 DEF Types, lifecycle
  <2>9. Phased' /\ Closing'
    BY <1>0, <1>1 DEF Safe, Phased, Closing, InCall, Alive, lifecycle
  <2>10. Waiting'
    <3>1. \A a \in Generation, b \in Resource :
            ~Alive(a, b) => backlog'[a][b] = 0
      BY <1>0, <2>1, <2>3 DEF Safe, Waiting
    <3>2. ~(InCall /\ call.of # "stop")
      BY <1>0, <2>2, PreparedApart
    <3>. QED  BY <1>0, <1>1, <2>3, <3>1, <3>2
              DEF Safe, Waiting, InCall, Alive, lifecycle
  <2>11. Held'
    <3>. SUFFICES ASSUME NEW p \in Observer  PROVE HeldBy(observer'[p])
      BY <1>1 DEF Held, HeldBy, Alive, lifecycle
    <3>. QED  BY <1>0, <2>4, <2>7 DEF Safe, Held, HeldBy
  <2>12. UnownedWritersIdle'
    BY <1>0, <1>1, <2>2, <2>3 DEF Safe, UnownedWritersIdle, Alive, lifecycle
  <2>13. Counted'
    <3>1. \A kind \in Kind : Busily(x, kind) <=> Busily(observer[o], kind)
      BY <1>1, <2>4 DEF Busily
    <3>2. Unsettled' \in Nat /\ Unsettled' + Weight(Open(x))
            = Unsettled + Weight(Open(observer[o]))
      <4>1. CASE r = "capture"
        <5>1. Unsettled' = v /\ v = Unsettled + 1 /\ Unsettled \in Nat
          BY <1>0, <1>1, <2>2, <2>3, <4>1, UnsettledType DEF Unsettled, lifecycle
        <5>2. Open(observer[o]) /\ ~Open(x)
          BY <1>1, <2>4, <4>1 DEF Open, Busily
        <5>. QED  BY <5>1, <5>2 DEF Weight
      <4>2. CASE r # "capture"
        <5>1. Unsettled' = Unsettled /\ Unsettled \in Nat
          BY <1>0, <1>1, <2>2, <2>3, <4>2, UnsettledType DEF Unsettled, lifecycle, Resource
        <5>2. ~Open(observer[o]) /\ ~Open(x)
          BY <1>1, <2>4, <4>2 DEF Open, Busily
        <5>. QED  BY <5>1, <5>2 DEF Weight
      <4>. QED  BY <4>1, <4>2
    <3>3. /\ counters' \in [Name -> Nat]
          /\ \A n \in Label, l \in Kind : counters'[<<n, l>>] = counters[<<n, l>>]
      BY <1>0, <1>1 DEF Types
    <3>. QED  BY <1>0, <2>6, <3>1, <3>2, <3>3, GoesOnCounted
  <2>. QED  BY <2>8, <2>9, <2>10, <2>11, <2>12, <2>13 DEF IInv, Safe
<1>. QED  BY <1>2, <1>3

LEMMA InitInv == Init => IInv
<1>. SUFFICES ASSUME Init  PROVE IInv
  OBVIOUS
<1>1. Types
  <2>1. /\ prepared \in 0 .. MaxStarts /\ current \in 0 .. prepared
        /\ normalizing \in [Generation -> BOOLEAN]
        /\ writer \in [Generation -> [Resource -> {"none", "accepting", "draining", "gone"}]]
        /\ backlog \in [Generation -> [Resource -> Nat]]
        /\ counters \in [Name -> Nat]
    BY AdapterAssumption DEF Init
  <2>2. call \in CallState /\ observer \in [Observer -> ObserverState]
    BY ReturnedFacts DEF Init, ObserverState
  <2>. QED  BY <2>1, <2>2 DEF Init, Types
<1>2. Phased /\ Closing /\ Waiting /\ UnownedWritersIdle
  BY DEF Init, Phased, Closing, Waiting, UnownedWritersIdle, InCall, Alive
<1>3. Held
  BY DEF Init, Held, HeldBy, Idle
<1>4. /\ \A kind : InProgress(kind) = {}
      /\ Undecided = {} /\ Unsettled = 0
  BY DEF Init, InProgress, Undecided, Unsettled, Busily, Open
<1>5. IsFiniteSet({}) /\ Cardinality({}) = 0
  BY FS_EmptySet
<1>6. \A n \in Label, k \in Kind : counters[<<n, k>>] = 0
  BY NameFacts DEF Init
<1>7. Counted
  BY <1>4, <1>5, <1>6
     DEF Counted, ObservationLedger, FactLedger, DescriptorLedger, Label, Kind
<1>. QED  BY <1>1, <1>2, <1>3, <1>7 DEF IInv, Safe

LEMMA NextInv == IInv /\ [Next]_vars => IInv'
<1>. SUFFICES ASSUME IInv, [Next]_vars  PROVE IInv'
  OBVIOUS
<1>0. Safe
  BY DEF IInv
<1>1. CASE StartPrepares \/ PrepareFails \/ RegisterSucceeds \/ RegisterFails
           \/ StopInStopped \/ StopBegins
  BY <1>0, <1>1, StartPreparesSafe, PrepareFailsSafe, RegisterSucceedsSafe,
     RegisterFailsSafe, StopInStoppedSafe, StopBeginsSafe, LifecycleCounted DEF IInv
<1>2. ASSUME NEW raises \in BOOLEAN, Unregister(raises)
      PROVE  IInv'
  BY <1>0, <1>2, UnregisterSafe, LifecycleCounted DEF IInv
<1>3. CASE CloseNormalizer \/ CloseCapture \/ CloseSink \/ JoinSink
           \/ FinishStart \/ FinishStop
  BY <1>0, <1>3, CloseNormalizerSafe, CloseCaptureSafe, CloseSinkSafe, JoinSinkSafe,
     FinishStartSafe, FinishStopSafe, LifecycleCounted DEF IInv
<1>4. ASSUME NEW ok \in BOOLEAN, JoinCapture(ok)
      PROVE  IInv'
  BY <1>0, <1>4, JoinCaptureSafe, LifecycleCounted DEF IInv
<1>5. ASSUME NEW g \in Generation, NEW r \in Resource, WriterExits(g, r)
      PROVE  IInv'
  BY <1>0, <1>5, WriterExitsSafe, LifecycleCounted DEF IInv
<1>6. ASSUME NEW g \in Generation, NEW r \in Resource, NEW written \in BOOLEAN,
             WriterSettles(g, r, written)
      PROVE  IInv'
  BY <1>0, <1>6, WriterSettlesSafe, WriterSettlesCounted DEF IInv
<1>7. ASSUME NEW o \in Observer, NEW kind \in Kind, CallbackBegins(o, kind)
      PROVE  IInv'
  BY <1>7, CallbackBeginsInv
<1>8. ASSUME NEW o \in Observer,
             NormalizesToNothing(o) \/ Normalizes(o) \/ Offers(o) \/ Raises(o)
               \/ CallbackReturns(o)
      PROVE  IInv'
  BY <1>8, NormalizesToNothingInv, NormalizesInv, OffersInv, RaisesInv,
     CallbackReturnsInv
<1>9. CASE UNCHANGED vars
  <2>1. /\ Types' /\ Phased' /\ Closing' /\ Waiting' /\ UnownedWritersIdle'
    BY <1>0, <1>9 DEF Safe, Types, Phased, Closing, Waiting, UnownedWritersIdle, InCall,
       Alive, vars, lifecycle, resources
  <2>2. Held'
    BY <1>0, <1>9 DEF Safe, Held, HeldBy, Alive, vars, lifecycle, resources
  <2>3. Counted'
    BY <1>9, SameUnsettled, NothingCounted DEF IInv, vars, lifecycle, resources
  <2>. QED  BY <2>1, <2>2, <2>3 DEF IInv, Safe
<1>. QED  BY <1>1, <1>2, <1>3, <1>4, <1>5, <1>6, <1>7, <1>8, <1>9 DEF Next

-----------------------------------------------------------------------------
\* Whatever callbacks, starts, stops and writers interleave, resources and
\* counters stay related.
THEOREM Invariance == Spec => []IInv
<1>. QED  BY InitInv, NextInv, PTL DEF Spec

\* A writer that a failed start() left behind has nothing queued and accepts
\* nothing, so a later start() may open the same destination beside it.
THEOREM UnownedStayIdle == Spec => []UnownedWritersIdle
<1>1. IInv => UnownedWritersIdle
  BY DEF IInv, Safe
<1>. QED  BY <1>1, Invariance, PTL

\* stop() returns True only when every record accepted from any callback, of any
\* start, is settled and no writer will take another.
THEOREM StopTellsTheTruth == Spec => []StopHonest
<1>1. IInv => StopHonest
  <2>. SUFFICES ASSUME IInv, stopped = "true", call = Returned,
                       NEW g \in Generation, NEW r \in Resource
                PROVE  backlog[g][r] = 0 /\ writer[g][r] # "accepting"
    BY DEF StopHonest
  <2>1. current = 0 /\ g # 0
    BY Bounds DEF IInv, Safe, Phased
  <2>2. CASE Alive(g, r)
    BY <2>1, <2>2, ReturnedFacts DEF IInv, Safe, UnownedWritersIdle
  <2>3. CASE ~Alive(g, r)
    BY <2>3 DEF IInv, Safe, Waiting, Alive
  <2>. QED  BY <2>2, <2>3
<1>. QED  BY <1>1, Invariance, PTL

\* Each call of observe() and observe_host_fact() that was received is in progress
\* or counted by exactly one outcome.
THEOREM CallsStayAccounted == Spec => []CallsAccounted
<1>1. IInv => CallsAccounted
  <2>. SUFFICES ASSUME IInv  PROVE CallsAccounted
    OBVIOUS
  <2>1. /\ Busy("observation") = Cardinality(InProgress("observation"))
        /\ Busy("host_fact") = Cardinality(InProgress("host_fact"))
    BY DEF Busy, InProgress, Busily
  <2>2. /\ IsFiniteSet(InProgress("observation")) /\ IsFiniteSet(InProgress("host_fact"))
    BY DEF IInv, Counted, Kind
  <2>3. /\ Cardinality(InProgress("observation")) \in Nat
        /\ Cardinality(InProgress("host_fact")) \in Nat
    BY <2>2, FS_CardinalityType
  <2>4. \A n \in Label, k \in Kind : counters[<<n, k>>] \in Nat
    BY CounterTypes DEF IInv, Safe, Types
  <2>5. Total({"normalization_dropped", "dropped", "emitted", "callback_errors"},
              "observation")
          = counters[<<"normalization_dropped", "observation">>]
              + counters[<<"emitted", "observation">>]
              + counters[<<"dropped", "observation">>]
              + counters[<<"callback_errors", "observation">>]
    BY <2>4 DEF Total, Label, Kind
  <2>6. Total({"dropped", "emitted"}, "host_fact")
          = counters[<<"emitted", "host_fact">>] + counters[<<"dropped", "host_fact">>]
    BY <2>4 DEF Total, Label, Kind
  <2>. QED  BY <2>1, <2>3, <2>4, <2>5, <2>6
            DEF CallsAccounted, IInv, Counted, ObservationLedger, FactLedger, Label, Kind
<1>. QED  BY <1>1, Invariance, PTL

\* After a successful drain each descriptor received is counted written, dropped
\* or in error, as docs/plugin_adapter.md promises.
THEOREM DescriptorsStayBalanced == Spec => []DescriptorsBalance
<1>1. IInv => DescriptorsBalance
  <2>. SUFFICES ASSUME IInv, stopped = "true", Busy("descriptor") = 0
                PROVE  counters[<<"received", "descriptor">>] =
                         Total({"written", "dropped", "callback_errors"}, "descriptor")
    BY DEF DescriptorsBalance
  <2>1. Unsettled = 0
    BY DEF IInv, Safe, Phased, Unsettled
  <2>2. Cardinality(Undecided) = 0
    <3>1. /\ Busy("descriptor") = Cardinality(InProgress("descriptor"))
          /\ IsFiniteSet(InProgress("descriptor"))
      BY DEF Busy, InProgress, Busily, IInv, Counted, Kind
    <3>2. InProgress("descriptor") = {}
      BY <3>1, FS_EmptySet
    <3>3. Undecided = {}
      BY <3>2 DEF Undecided, InProgress, Open
    <3>. QED  BY <3>3, FS_EmptySet
  <2>3. \A n \in Label, k \in Kind : counters[<<n, k>>] \in Nat
    BY CounterTypes DEF IInv, Safe, Types
  <2>4. Total({"written", "dropped", "callback_errors"}, "descriptor")
          = counters[<<"written", "descriptor">>] + counters[<<"dropped", "descriptor">>]
              + counters[<<"callback_errors", "descriptor">>]
    BY <2>3 DEF Total, Label, Kind
  <2>. QED  BY <2>1, <2>2, <2>3, <2>4 DEF IInv, Counted, DescriptorLedger, Label, Kind
<1>. QED  BY <1>1, Invariance, PTL
=============================================================================
