---------------------- MODULE DescriptorCaptureProofs ----------------------
(***************************************************************************)
(* Proofs about DescriptorCapture, for any number of captures that share a *)
(* directory, any names and any queue: the safety properties of the        *)
(* publication of descriptor inventories.                                  *)
(*                                                                         *)
(* The heart of the invariant is what a writer knows past its link: the    *)
(* name is its own, complete, and was not counted before.  So only its own *)
(* rollback can remove it, and that one is due only before it is counted.  *)
(***************************************************************************)
EXTENDS DescriptorCapture, SequenceTheorems, TLAPS

Counts == [accepted : Nat, written : Nat, failed : Nat]

\* What the type invariant leaves out.
Histories ==
  /\ published \in [Capture -> BOOLEAN]
  /\ counts \in [Capture -> Counts]
  /\ written \in SUBSET (Capture \X Inventory)
  /\ stuck \in SUBSET Capture

\* Past the link and before the result is counted.
Linked == {"unlink", "sync", "rollback", "written"}

\* A writer holds an inventory exactly while it publishes, and it leaves its
\* loop with an empty queue that stays empty.
Holding ==
  \A c \in Capture :
    /\ at[c] \in Publishing => item[c] # NoInventory
    /\ at[c] \in {"loop", "waiting", "exited"} => item[c] = NoInventory
    /\ at[c] = "exited" => closing[c] /\ queue[c] = <<>>
    /\ closer[c] = "true" => at[c] = "exited"

\* The temporary file is complete when it is linked, and gone when the writer
\* is between inventories or has removed it, unless an unlink failed.
Tidy ==
  \A c \in Capture :
    /\ at[c] = "link" => temporary[c] = "complete"
    /\ at[c] \in {"loop", "waiting", "exited", "create", "sync", "written", "failed"} =>
         temporary[c] = "none" \/ c \in stuck

\* Past its link a writer owns the name, which was not counted before.
Owned ==
  \A c \in Capture : at[c] \in Linked =>
    /\ published[c]
    /\ final[item[c]] = [by |-> c, complete |-> TRUE]
    /\ <<c, item[c]>> \notin written

\* A file is a counted one or the one its writer has just linked.
Explained ==
  \A i \in Inventory : \A c \in Capture \ stuck :
    final[i].by = c /\ at[c] # "dead" =>
      <<c, i>> \in written \/ (item[c] = i /\ at[c] \in Linked)

\* Every accepted inventory is counted, in the writer's hands or in the queue.
Balanced ==
  \A c \in Capture :
    counts[c].accepted =
      counts[c].written + counts[c].failed + InFlight(c) + Len(queue[c])

IInv ==
  /\ TypeOK /\ Histories
  /\ Holding /\ Tidy /\ Owned /\ Explained
  /\ FinalComplete /\ WrittenStays /\ Balanced

-----------------------------------------------------------------------------
(* What the invariant says of the properties.                              *)

LEMMA DrainedFollows ==
  ASSUME IInv
  PROVE  Drained
<1>. SUFFICES ASSUME NEW c \in Capture, closer[c] = "true"
              PROVE  counts[c].accepted = counts[c].written + counts[c].failed
  BY DEF IInv, Balanced, Drained
<1>1. InFlight(c) = 0 /\ queue[c] = <<>>
  BY DEF IInv, Holding, InFlight
<1>2. Len(queue[c]) = 0 /\ counts[c].written + counts[c].failed \in Nat
  BY <1>1 DEF IInv, Histories, Counts
<1>. QED  BY <1>1, <1>2 DEF IInv, Balanced

LEMMA LeftoversFollow ==
  ASSUME IInv
  PROVE  LeftoversExplained
<1>1. ASSUME NEW c \in Capture \ stuck, at[c] \in {"loop", "waiting", "exited"}
      PROVE  temporary[c] = "none"
  BY <1>1 DEF IInv, Tidy
<1>2. ASSUME NEW i \in Inventory, final[i].by \in Capture \ stuck, at[final[i].by] # "dead"
      PROVE  \/ <<final[i].by, i>> \in written
             \/ item[final[i].by] = i /\ published[final[i].by]
  BY <1>2 DEF IInv, Explained, Owned
<1>. QED  BY <1>1, <1>2 DEF LeftoversExplained

-----------------------------------------------------------------------------
(* Steps that move a writer or its close() and leave the files' names and  *)
(* the counts alone.                                                       *)

SameNames == UNCHANGED <<queue, item, published, final, counts, written>>

LEMMA NamesKept ==
  ASSUME IInv, SameNames
  PROVE  FinalComplete' /\ WrittenStays' /\ Balanced'
BY DEF IInv, SameNames, FinalComplete, WrittenStays, Balanced, InFlight

\* The writer of c goes to place with that temporary file: the two places both
\* hold an inventory or both hold none, and they are past the link together.
MoveTo(c, place, file) ==
  /\ SameNames /\ UNCHANGED <<closing, closer>>
  /\ Goto(c, place)
  /\ temporary' = [temporary EXCEPT ![c] = file]
  /\ stuck \subseteq stuck' /\ stuck' \subseteq stuck \cup {c}
  /\ at[c] \notin {"exited", "dead"}
  /\ place \in Publishing => at[c] \in Publishing
  /\ place \in {"loop", "waiting", "exited"} => at[c] \in {"loop", "waiting", "exited"}
  /\ place = "exited" => closing[c] /\ queue[c] = <<>>
  /\ place = "link" => file = "complete"
  /\ place \in {"loop", "waiting", "exited", "create", "sync", "written", "failed"} =>
       file = "none" \/ c \in stuck'
  /\ place \in Linked => at[c] \in Linked
  /\ at[c] \in Linked => place \in Linked \cup {"dead"} \/ c \in stuck'

LEMMA MoveInv ==
  ASSUME IInv, NEW c \in Capture, NEW place \in Place,
         NEW file \in {"none", "partial", "complete"}, MoveTo(c, place, file)
  PROVE  IInv'
<1>. USE DEF IInv, MoveTo, SameNames, Goto
<1>1. TypeOK' /\ Histories'
  BY DEF TypeOK, Histories
<1>2. /\ at'[c] = place /\ temporary'[c] = file
      /\ \A d \in Capture \ {c} :
           /\ at'[d] = at[d] /\ temporary'[d] = temporary[d]
           /\ d \in stuck' <=> d \in stuck
  BY DEF TypeOK
<1>3. Holding'
  BY <1>2 DEF Holding
<1>4. Tidy'
  BY <1>2 DEF Tidy
<1>5. Owned'
  BY <1>2 DEF Owned
<1>6. Explained'
  BY <1>2 DEF Explained
<1>. QED  BY <1>1, <1>3, <1>4, <1>5, <1>6, NamesKept

\* The moves of the writer that this covers.
Moves(c) ==
  \/ Exit(c) \/ Wait(c) \/ Create(c) \/ Write(c) \/ UnlinkTemporary(c)
  \/ SyncDirectory(c) \/ CallFails(c) \/ RollbackFails(c)
  \/ Cleanup(c) \/ CleanupFails(c) \/ Crash(c)

LEMMA MovesInv ==
  ASSUME IInv, NEW c \in Capture, Moves(c)
  PROVE  IInv'
<1>. USE DEF Place, Publishing, Linked
<1>0. /\ temporary[c] \in {"none", "partial", "complete"}
      /\ temporary = [temporary EXCEPT ![c] = temporary[c]]
      /\ at[c] \in {"loop", "waiting", "exited", "create", "sync", "written", "failed"} =>
           temporary[c] = "none" \/ c \in stuck
  BY DEF IInv, TypeOK, Tidy
<1>1. CASE Exit(c)
  <2>1. MoveTo(c, "exited", temporary[c])
    BY <1>0, <1>1 DEF Exit, LeavesLoop, MoveTo, SameNames, admission, publication
  <2>. QED  BY <1>0, <2>1, MoveInv
<1>2. CASE Wait(c)
  <2>1. MoveTo(c, "waiting", temporary[c])
    BY <1>0, <1>2 DEF Wait, MoveTo, SameNames, admission, publication
  <2>. QED  BY <1>0, <2>1, MoveInv
<1>3. CASE Create(c)
  <2>1. MoveTo(c, "write", "partial")
    BY <1>0, <1>3 DEF Create, MoveTo, SameNames, admission, publication
  <2>. QED  BY <1>0, <2>1, MoveInv
<1>4. CASE Write(c)
  <2>1. MoveTo(c, "link", "complete")
    BY <1>0, <1>4 DEF Write, MoveTo, SameNames, admission, publication
  <2>. QED  BY <1>0, <2>1, MoveInv
<1>5. CASE UnlinkTemporary(c)
  <2>1. MoveTo(c, "sync", "none")
    BY <1>0, <1>5 DEF UnlinkTemporary, MoveTo, SameNames, admission, publication
  <2>. QED  BY <1>0, <2>1, MoveInv
<1>6. CASE SyncDirectory(c)
  <2>1. MoveTo(c, "written", temporary[c])
    BY <1>0, <1>6 DEF SyncDirectory, MoveTo, SameNames, admission, publication
  <2>. QED  BY <1>0, <2>1, MoveInv
<1>7. CASE CallFails(c)
  <2>1. CASE at[c] = "create"
    <3>1. MoveTo(c, "failed", temporary[c])
      BY <1>0, <1>7, <2>1 DEF CallFails, AfterFailure, MoveTo, SameNames, admission, publication
    <3>. QED  BY <1>0, <3>1, MoveInv
  <2>2. CASE at[c] \in {"write", "link"}
    <3>1. MoveTo(c, "cleanup", temporary[c])
      BY <1>0, <1>7, <2>2 DEF CallFails, AfterFailure, MoveTo, SameNames, admission, publication
    <3>. QED  BY <1>0, <3>1, MoveInv
  <2>3. CASE at[c] \in {"unlink", "sync"}
    <3>1. MoveTo(c, "rollback", temporary[c])
      BY <1>0, <1>7, <2>3 DEF CallFails, AfterFailure, MoveTo, SameNames, admission, publication
    <3>. QED  BY <1>0, <3>1, MoveInv
  <2>. QED  BY <1>7, <2>1, <2>2, <2>3 DEF CallFails, AfterFailure
<1>8. CASE RollbackFails(c)
  <2>1. MoveTo(c, "cleanup", temporary[c])
    BY <1>0, <1>8 DEF RollbackFails, MoveTo, SameNames, admission, publication
  <2>. QED  BY <1>0, <2>1, MoveInv
<1>9. CASE Cleanup(c)
  <2>1. MoveTo(c, "failed", "none")
    BY <1>0, <1>9 DEF Cleanup, Removed, MoveTo, SameNames, admission, publication
  <2>. QED  BY <1>0, <2>1, MoveInv
<1>10. CASE CleanupFails(c)
  <2>1. MoveTo(c, "failed", temporary[c])
    BY <1>0, <1>10 DEF CleanupFails, MoveTo, SameNames, admission, publication
  <2>. QED  BY <1>0, <2>1, MoveInv
<1>11. CASE Crash(c)
  <2>1. MoveTo(c, "dead", temporary[c])
    BY <1>0, <1>11 DEF Crash, MoveTo, SameNames, admission, publication
  <2>. QED  BY <1>0, <2>1, MoveInv
<1>. QED
  BY <1>1, <1>2, <1>3, <1>4, <1>5, <1>6, <1>7, <1>8, <1>9, <1>10, <1>11 DEF Moves

-----------------------------------------------------------------------------
(* The steps of capture() and close().                                     *)

\* Waking a waiting writer changes nothing that the invariant says of it.
LEMMA WakeFacts ==
  ASSUME at \in [Capture -> Place], NEW c \in Capture, Wake(c)
  PROVE  /\ at' \in [Capture -> Place]
         /\ \A d \in Capture : \/ at'[d] = at[d]
                               \/ at[d] = "waiting" /\ at'[d] = "loop"
BY DEF Wake, Goto, Place, Publishing

\* capture() counts an accepted inventory of its own capture.
LEMMA AcceptFacts ==
  ASSUME counts \in [Capture -> Counts],
         NEW c \in Capture,
         counts' = [counts EXCEPT ![c].accepted = @ + 1]
  PROVE  /\ counts' \in [Capture -> Counts]
         /\ counts'[c].accepted = counts[c].accepted + 1
         /\ counts'[c].written = counts[c].written
         /\ counts'[c].failed = counts[c].failed
         /\ \A d \in Capture \ {c} : counts'[d] = counts[d]
<1>1. counts' \in [Capture -> Counts]
  BY DEF Counts
<1>2. counts'[c].accepted = counts[c].accepted + 1
  BY DEF Counts
<1>3. counts'[c].written = counts[c].written
  BY DEF Counts
<1>4. counts'[c].failed = counts[c].failed
  BY DEF Counts
<1>5. \A d \in Capture \ {c} : counts'[d] = counts[d]
  BY DEF Counts
<1>. QED  BY <1>1, <1>2, <1>3, <1>4, <1>5

LEMMA SubmitInv ==
  ASSUME IInv, NEW c \in Capture, NEW i \in Inventory, Submit(c, i)
  PROVE  IInv'
<1>. USE DEF IInv, Submit, publication
<1>0. /\ at' \in [Capture -> Place]
      /\ \A d \in Capture : at'[d] = at[d] \/ (at[d] = "waiting" /\ at'[d] = "loop")
  BY WakeFacts DEF TypeOK
<1>1. /\ queue[c] \in Seq(Inventory) /\ queue'[c] = Append(queue[c], i)
      /\ \A d \in Capture \ {c} : queue'[d] = queue[d]
      /\ queue' \in [Capture -> Seq(Inventory)]
      /\ Len(queue[c]) < MaxPending
  BY DEF TypeOK, HasRoom
<1>2. Len(queue'[c]) = Len(queue[c]) + 1 /\ Len(queue[c]) \in Nat
  BY <1>1
<1>3. MaxPending \in Nat
  BY CaptureAssumption
<1>4. /\ counts[c] \in Counts
      /\ counts' \in [Capture -> Counts]
      /\ counts'[c].accepted = counts[c].accepted + 1
      /\ counts'[c].written = counts[c].written
      /\ counts'[c].failed = counts[c].failed
      /\ \A d \in Capture \ {c} : counts'[d] = counts[d]
  BY AcceptFacts DEF Histories
<1>5. TypeOK'
  BY <1>0, <1>1, <1>2, <1>3 DEF TypeOK
<1>6. Histories'
  BY <1>4 DEF Histories
<1>7. Holding'
  BY <1>0, <1>1 DEF Holding, Publishing
<1>8. Tidy' /\ Owned' /\ Explained' /\ FinalComplete' /\ WrittenStays'
  BY <1>0 DEF Tidy, Owned, Explained, FinalComplete, WrittenStays, Linked
<1>9. Balanced'
  <2>1. InFlight(c) \in 0 .. 1 /\ \A d \in Capture : InFlight(d)' = InFlight(d)
    BY DEF InFlight
  <2>2. counts[c].accepted =
          counts[c].written + counts[c].failed + InFlight(c) + Len(queue[c])
    BY DEF Balanced
  <2>3. /\ counts[c].accepted \in Nat /\ counts[c].written \in Nat
        /\ counts[c].failed \in Nat
    BY <1>4 DEF Counts
  <2>4. counts'[c].accepted =
          counts'[c].written + counts'[c].failed + InFlight(c) + Len(queue'[c])
    BY <1>2, <1>4, <2>1, <2>2, <2>3
  <2>. QED  BY <1>1, <1>4, <2>1, <2>4 DEF Balanced
<1>. QED  BY <1>5, <1>6, <1>7, <1>8, <1>9

LEMMA CloseInv ==
  ASSUME IInv, NEW c \in Capture, CloseBegins(c) \/ CloseReturns(c)
  PROVE  IInv'
<1>. USE DEF IInv, publication
<1>0. /\ at' \in [Capture -> Place]
      /\ \A d \in Capture : at'[d] = at[d] \/ (at[d] = "waiting" /\ at'[d] = "loop")
  BY WakeFacts DEF TypeOK, CloseBegins, CloseReturns, NotifyClose
<1>1. SameNames /\ UNCHANGED <<temporary, stuck>>
  BY DEF SameNames, CloseBegins, CloseReturns
<1>2. TypeOK' /\ Histories'
  BY <1>0, <1>1 DEF TypeOK, Histories, SameNames, CloseBegins, CloseReturns
<1>3. Holding'
  BY <1>0, <1>1 DEF Holding, Publishing, SameNames, CloseBegins, CloseReturns, TypeOK
<1>4. Tidy' /\ Owned' /\ Explained'
  BY <1>0, <1>1 DEF Tidy, Owned, Explained, Linked, SameNames
<1>. QED  BY <1>1, <1>2, <1>3, <1>4, NamesKept

-----------------------------------------------------------------------------
(* The steps of the writer that change names or counts.                    *)

\* A counted inventory has a final file of its capture.
LEMMA WrittenFacts ==
  ASSUME IInv, NEW w \in written
  PROVE  /\ w = <<w[1], w[2]>>
         /\ w[1] \in Capture /\ w[2] \in Inventory
         /\ final[w[2]].by = w[1]
<1>1. w \in Capture \X Inventory
  BY DEF IInv, Histories
<1>2. final[w[2]] = [by |-> w[1], complete |-> TRUE]
  BY DEF IInv, WrittenStays
<1>. QED  BY <1>1, <1>2

\* So has a writer past its link.
LEMMA OwnedFacts ==
  ASSUME IInv, NEW c \in Capture, at[c] \in Linked
  PROVE  item[c] \in Inventory /\ final[item[c]].by = c
<1>1. item[c] \in Inventory
  BY DEF IInv, TypeOK, Holding, Linked, Publishing
<1>2. final[item[c]] = [by |-> c, complete |-> TRUE]
  BY DEF IInv, Owned
<1>. QED  BY <1>1, <1>2

LEMMA TakeItemInv ==
  ASSUME IInv, NEW c \in Capture, TakeItem(c)
  PROVE  IInv'
<1>. USE DEF IInv, TakeItem, Goto
<1>1. /\ queue[c] \in Seq(Inventory) /\ queue[c] # <<>>
      /\ queue'[c] = Tail(queue[c]) /\ item'[c] = Head(queue[c]) /\ at'[c] = "create"
      /\ \A d \in Capture \ {c} :
           queue'[d] = queue[d] /\ item'[d] = item[d] /\ at'[d] = at[d]
  BY DEF TypeOK
<1>2. /\ Len(queue'[c]) = Len(queue[c]) - 1 /\ Len(queue[c]) \in Nat
      /\ queue'[c] \in Seq(Inventory) /\ item'[c] \in Inventory
  <2>1. Len(queue[c]) \in Nat /\ Len(queue[c]) # 0
    BY <1>1, EmptySeq, LenProperties
  <2>2. /\ Tail(queue[c]) \in Seq(Inventory)
        /\ Len(Tail(queue[c])) = Len(queue[c]) - 1
        /\ Head(queue[c]) \in Inventory
    BY <1>1, <2>1, HeadTailProperties
  <2>. QED  BY <1>1, <2>1, <2>2
<1>3. MaxPending \in Nat
  BY CaptureAssumption
<1>4. TypeOK' /\ Histories'
  BY <1>1, <1>2, <1>3 DEF TypeOK, Histories, Place, Publishing
<1>5. Holding'
  BY <1>1, <1>2, CaptureAssumption DEF Holding, TypeOK
<1>6. Tidy' /\ Owned'
  BY <1>1 DEF Tidy, Owned, Linked
<1>7. Explained'
  BY <1>1 DEF Explained, Linked
<1>8. FinalComplete' /\ WrittenStays'
  BY DEF FinalComplete, WrittenStays
<1>9. Balanced'
  <2>1. InFlight(c) = 0 /\ InFlight(c)' = 1
    BY <1>1, <1>2, CaptureAssumption DEF InFlight, Holding
  <2>2. \A d \in Capture \ {c} : InFlight(d)' = InFlight(d)
    BY <1>1 DEF InFlight
  <2>3. counts[c].written \in Nat /\ counts[c].failed \in Nat
    BY DEF Histories, Counts
  <2>0. counts[c].accepted =
          counts[c].written + counts[c].failed + InFlight(c) + Len(queue[c])
    BY DEF Balanced
  <2>4. counts[c].accepted =
          counts[c].written + counts[c].failed + InFlight(c)' + Len(queue'[c])
    BY <1>2, <2>0, <2>1, <2>3
  <2>. QED  BY <1>1, <2>2, <2>4 DEF Balanced
<1>. QED  BY <1>4, <1>5, <1>6, <1>7, <1>8, <1>9

\* The name was free, so it was counted for nobody.
LEMMA LinkInv ==
  ASSUME IInv, NEW c \in Capture, Link(c)
  PROVE  IInv'
<1>. USE DEF IInv, Link, Goto, admission
<1>1. /\ item[c] \in Inventory /\ temporary[c] = "complete"
      /\ c # NoCapture
      /\ \A w \in written : w[1] \in Capture /\ w[2] # item[c]
  <2>1. item[c] \in Inventory
    BY DEF TypeOK, Holding, Publishing
  <2>2. temporary[c] = "complete"
    BY DEF Tidy
  <2>3. ASSUME NEW w \in written
        PROVE  w[1] \in Capture /\ w[2] # item[c]
    <3>1. w[1] \in Capture /\ final[w[2]].by = w[1]
      BY WrittenFacts
    <3>2. final[item[c]].by = NoCapture
      BY DEF Absent
    <3>. QED  BY <3>1, <3>2, CaptureAssumption
  <2>. QED  BY <2>1, <2>2, <2>3, CaptureAssumption
<1>2. /\ final'[item[c]] = [by |-> c, complete |-> TRUE]
      /\ \A i \in Inventory \ {item[c]} : final'[i] = final[i]
      /\ final' \in [Inventory -> [by : Capture \cup {NoCapture}, complete : BOOLEAN]]
  BY <1>1 DEF TypeOK
<1>3. /\ at'[c] = "unlink" /\ published'[c] = TRUE
      /\ \A d \in Capture \ {c} : at'[d] = at[d] /\ published'[d] = published[d]
  BY DEF TypeOK, Histories
<1>4. TypeOK'
  BY <1>2 DEF TypeOK, Place, Publishing
<1>5. Histories'
  BY DEF Histories
<1>6. Holding' /\ Tidy'
  BY <1>3 DEF Holding, Tidy, Publishing
<1>7. Owned'
  <2>1. ASSUME NEW d \in Capture \ {c}, at[d] \in Linked
        PROVE  item[d] \in Inventory \ {item[c]}
    <3>1. item[d] \in Inventory /\ final[item[d]].by = d
      BY <2>1, OwnedFacts
    <3>2. final[item[c]].by = NoCapture
      BY DEF Absent
    <3>. QED  BY <3>1, <3>2, CaptureAssumption
  <2>2. <<c, item[c]>> \notin written
    BY <1>1
  <2>3. ASSUME NEW d \in Capture, at'[d] \in Linked
        PROVE  /\ published'[d] /\ final'[item[d]] = [by |-> d, complete |-> TRUE]
               /\ <<d, item[d]>> \notin written
    <3>1. CASE d = c
      BY <1>2, <1>3, <2>2, <3>1
    <3>2. CASE d # c
      BY <1>2, <1>3, <2>1, <2>3, <3>2 DEF Owned
    <3>. QED  BY <3>1, <3>2
  <2>. QED  BY <2>3 DEF Owned
<1>8. Explained'
  BY <1>1, <1>2, <1>3 DEF Explained, Linked
<1>9. FinalComplete'
  BY <1>1, <1>2 DEF FinalComplete
<1>10. WrittenStays'
  BY <1>1, <1>2 DEF WrittenStays, Histories
<1>11. Balanced'
  BY DEF Balanced, InFlight
<1>. QED  BY <1>4, <1>5, <1>6, <1>7, <1>8, <1>9, <1>10, <1>11

\* Only the writer's own link is taken back, and it was not counted.
LEMMA RollbackInv ==
  ASSUME IInv, NEW c \in Capture, Rollback(c)
  PROVE  IInv'
<1>. USE DEF IInv, Rollback, Goto, admission
<1>1. /\ item[c] \in Inventory
      /\ final[item[c]] = [by |-> c, complete |-> TRUE]
      /\ <<c, item[c]>> \notin written
  BY DEF TypeOK, Holding, Owned, Publishing, Linked
<1>2. /\ final'[item[c]] = Absent
      /\ \A i \in Inventory \ {item[c]} : final'[i] = final[i]
      /\ final' \in [Inventory -> [by : Capture \cup {NoCapture}, complete : BOOLEAN]]
  BY <1>1 DEF TypeOK, Absent
<1>3. /\ at'[c] = "cleanup" /\ \A d \in Capture \ {c} : at'[d] = at[d]
  BY DEF TypeOK
<1>4. TypeOK' /\ Histories'
  BY <1>2 DEF TypeOK, Histories, Place, Publishing
<1>5. Holding' /\ Tidy'
  BY <1>3 DEF Holding, Tidy, Publishing
<1>6. Owned'
  <2>1. ASSUME NEW d \in Capture \ {c}, at[d] \in Linked
        PROVE  item[d] \in Inventory \ {item[c]}
    <3>1. item[d] \in Inventory /\ final[item[d]].by = d
      BY <2>1, OwnedFacts
    <3>2. final[item[c]].by = c
      BY <1>1
    <3>. QED  BY <3>1, <3>2
  <2>. QED  BY <1>2, <1>3, <2>1 DEF Owned, Linked
<1>7. Explained'
  BY <1>1, <1>2, <1>3, CaptureAssumption DEF Explained, Absent
<1>8. FinalComplete'
  BY <1>2 DEF FinalComplete
<1>9. WrittenStays'
  <2>1. ASSUME NEW w \in written
        PROVE  w[2] \in Inventory /\ w[2] # item[c]
    <3>1. w = <<w[1], w[2]>> /\ w[2] \in Inventory /\ final[w[2]].by = w[1]
      BY WrittenFacts
    <3>2. final[item[c]].by = c
      BY <1>1
    <3>. QED  BY <1>1, <3>1, <3>2
  <2>. QED  BY <1>2, <2>1 DEF WrittenStays
<1>10. Balanced'
  BY DEF Balanced, InFlight
<1>. QED  BY <1>4, <1>5, <1>6, <1>7, <1>8, <1>9, <1>10

\* The writer counts an inventory as written.
LEMMA CountWritten ==
  ASSUME counts \in [Capture -> Counts], NEW c \in Capture,
         counts' = [counts EXCEPT ![c].written = @ + 1]
  PROVE  /\ counts' \in [Capture -> Counts]
         /\ counts'[c].accepted = counts[c].accepted
         /\ counts'[c].written + counts'[c].failed =
              counts[c].written + counts[c].failed + 1
         /\ \A d \in Capture \ {c} : counts'[d] = counts[d]
<1>1. counts' \in [Capture -> Counts]
  BY DEF Counts
<1>2. counts'[c].accepted = counts[c].accepted
  BY DEF Counts
<1>3. counts'[c].written = counts[c].written + 1
  BY DEF Counts
<1>4. counts'[c].failed = counts[c].failed
  BY DEF Counts
<1>5. \A d \in Capture \ {c} : counts'[d] = counts[d]
  BY DEF Counts
<1>6. counts[c].written \in Nat /\ counts[c].failed \in Nat
  BY DEF Counts
<1>. QED  BY <1>1, <1>2, <1>3, <1>4, <1>5, <1>6

\* The writer counts an inventory as failed.
LEMMA CountFailed ==
  ASSUME counts \in [Capture -> Counts], NEW c \in Capture,
         counts' = [counts EXCEPT ![c].failed = @ + 1]
  PROVE  /\ counts' \in [Capture -> Counts]
         /\ counts'[c].accepted = counts[c].accepted
         /\ counts'[c].written + counts'[c].failed =
              counts[c].written + counts[c].failed + 1
         /\ \A d \in Capture \ {c} : counts'[d] = counts[d]
<1>1. counts' \in [Capture -> Counts]
  BY DEF Counts
<1>2. counts'[c].accepted = counts[c].accepted
  BY DEF Counts
<1>3. counts'[c].failed = counts[c].failed + 1
  BY DEF Counts
<1>4. counts'[c].written = counts[c].written
  BY DEF Counts
<1>5. \A d \in Capture \ {c} : counts'[d] = counts[d]
  BY DEF Counts
<1>6. counts[c].written \in Nat /\ counts[c].failed \in Nat
  BY DEF Counts
<1>. QED  BY <1>1, <1>2, <1>3, <1>4, <1>5, <1>6

LEMMA SettleInv ==
  ASSUME IInv, NEW c \in Capture, Settle(c)
  PROVE  IInv'
<1>. USE DEF IInv, Settle, Goto, admission
<1>1. /\ counts' \in [Capture -> Counts]
      /\ counts'[c].accepted = counts[c].accepted
      /\ counts'[c].written + counts'[c].failed = counts[c].written + counts[c].failed + 1
      /\ \A d \in Capture \ {c} : counts'[d] = counts[d]
  <2>1. CASE at[c] = "written"
    BY <2>1, CountWritten DEF Histories
  <2>2. CASE at[c] = "failed"
    BY <2>2, CountFailed DEF Histories
  <2>. QED  BY <2>1, <2>2
<1>2. item[c] \in Inventory
  BY DEF TypeOK, Holding, Publishing
<1>3. /\ at'[c] = "loop" /\ item'[c] = NoInventory
      /\ \A d \in Capture \ {c} :
           at'[d] = at[d] /\ item'[d] = item[d] /\ published'[d] = published[d]
  BY DEF TypeOK, Histories
<1>4. TypeOK'
  BY DEF TypeOK, Place, Publishing
<1>5. Histories'
  BY <1>1, <1>2 DEF Histories
<1>6. Holding' /\ Tidy'
  BY <1>3 DEF Holding, Tidy, Publishing
<1>7. /\ written \subseteq written'
      /\ \A w \in written' \ written :
           w = <<c, item[c]>> /\ at[c] = "written"
      /\ at[c] = "written" => <<c, item[c]>> \in written'
  OBVIOUS
<1>8. Owned'
  BY <1>3, <1>7 DEF Owned, Linked
<1>9. Explained'
  BY <1>3, <1>7 DEF Explained, Linked
<1>10. FinalComplete'
  BY DEF FinalComplete
<1>11. WrittenStays'
  <2>1. at[c] = "written" => final[item[c]] = [by |-> c, complete |-> TRUE]
    BY DEF Owned, Linked
  <2>2. ASSUME NEW w \in written'
        PROVE  final[w[2]] = [by |-> w[1], complete |-> TRUE]
    <3>1. CASE w \in written
      BY <3>1 DEF WrittenStays
    <3>2. CASE w \notin written
      <4>1. w = <<c, item[c]>> /\ at[c] = "written"
        BY <1>7, <3>2
      <4>2. w[1] = c /\ w[2] = item[c]
        BY <4>1
      <4>. QED  BY <2>1, <4>1, <4>2
    <3>. QED  BY <3>1, <3>2
  <2>. QED  BY <2>2 DEF WrittenStays
<1>12. Balanced'
  <2>1. InFlight(c) = 1 /\ InFlight(c)' = 0
    BY <1>2, <1>3, CaptureAssumption DEF InFlight
  <2>2. \A d \in Capture \ {c} : InFlight(d)' = InFlight(d)
    BY <1>3 DEF InFlight
  <2>3. counts[c].written \in Nat /\ counts[c].failed \in Nat /\ Len(queue[c]) \in Nat
    BY DEF Histories, Counts, TypeOK
  <2>4. counts'[c].accepted =
          counts'[c].written + counts'[c].failed + InFlight(c)' + Len(queue[c])
    BY <1>1, <2>1, <2>3 DEF Balanced
  <2>. QED  BY <1>1, <2>2, <2>4 DEF Balanced
<1>. QED  BY <1>4, <1>5, <1>6, <1>8, <1>9, <1>10, <1>11, <1>12

-----------------------------------------------------------------------------
LEMMA InitInv == Init => IInv
<1>. SUFFICES ASSUME Init PROVE IInv
  OBVIOUS
<1>. USE DEF Init
<1>1. TypeOK
  BY CaptureAssumption DEF TypeOK, Place, Publishing, Absent
<1>2. Histories
  BY DEF Histories, Counts
<1>3. Holding /\ Tidy /\ Owned
  BY DEF Holding, Tidy, Owned, Publishing, Linked
<1>4. Explained
  BY CaptureAssumption DEF Explained, Absent
<1>5. FinalComplete /\ WrittenStays
  BY DEF FinalComplete, WrittenStays
<1>6. Balanced
  <2>1. ASSUME NEW c \in Capture
        PROVE  counts[c].accepted =
                 counts[c].written + counts[c].failed + InFlight(c) + Len(queue[c])
    <3>1. InFlight(c) = 0
      BY DEF InFlight
    <3>2. Len(queue[c]) = 0
      OBVIOUS
    <3>3. counts[c] = [accepted |-> 0, written |-> 0, failed |-> 0]
      OBVIOUS
    <3>. QED  BY <3>1, <3>2, <3>3
  <2>. QED  BY <2>1 DEF Balanced
<1>. QED  BY <1>1, <1>2, <1>3, <1>4, <1>5, <1>6 DEF IInv

LEMMA NextInv == IInv /\ [Next]_vars => IInv'
<1>. SUFFICES ASSUME IInv, [Next]_vars PROVE IInv'
  OBVIOUS
<1>1. CASE UNCHANGED vars
  <2>. USE <1>1 DEF IInv, vars, admission, publication
  <2>1. TypeOK' /\ Histories'
    BY DEF TypeOK, Histories
  <2>2. Holding' /\ Tidy' /\ Owned' /\ Explained'
    BY DEF Holding, Tidy, Owned, Explained
  <2>3. FinalComplete' /\ WrittenStays' /\ Balanced'
    BY DEF FinalComplete, WrittenStays, Balanced, InFlight
  <2>. QED  BY <2>1, <2>2, <2>3
<1>2. CASE Next
  <2>1. PICK c \in Capture :
          \/ \E i \in Inventory : Submit(c, i)
          \/ CloseBegins(c) \/ CloseReturns(c)
          \/ Writer(c)
          \/ Crash(c)
    BY <1>2 DEF Next
  <2>2. CASE \E i \in Inventory : Submit(c, i)
    BY <2>2, SubmitInv
  <2>3. CASE CloseBegins(c) \/ CloseReturns(c)
    BY <2>3, CloseInv
  <2>4. CASE Writer(c) \/ Crash(c)
    BY <2>4, MovesInv, TakeItemInv, LinkInv, RollbackInv, SettleInv DEF Writer, Moves
  <2>. QED  BY <2>1, <2>2, <2>3, <2>4
<1>. QED  BY <1>1, <1>2

\* The inductive invariant: what each writer holds and owns at each place.
THEOREM Invariance == Spec => []IInv
BY InitInv, NextInv, PTL DEF Spec

\* The queue stays within max_pending and the writer's variables in their types.
THEOREM TypeCorrect == Spec => []TypeOK
<1>1. IInv => TypeOK
  BY DEF IInv
<1>. QED  BY <1>1, Invariance, PTL

\* Whatever fails and whoever dies, a final name shows a complete file: it is
\* only ever made by linking a temporary file that was written and closed.
THEOREM FinalFilesComplete == Spec => []FinalComplete
<1>1. IInv => FinalComplete
  BY DEF IInv
<1>. QED  BY <1>1, Invariance, PTL

\* An inventory that capture counted as written is never replaced or removed,
\* by no process that shares the directory.
THEOREM WrittenInventoriesStay == Spec => []WrittenStays
<1>1. IInv => WrittenStays
  BY DEF IInv
<1>. QED  BY <1>1, Invariance, PTL

\* A failed publication leaves a file behind only after a failed unlink() or a
\* death.
THEOREM NothingLeftOver == Spec => []LeftoversExplained
BY LeftoversFollow, Invariance, PTL

\* close() returns True only when every accepted inventory was counted, and the
\* counts never lose one.
THEOREM CloseHasDrained == Spec => []Drained
BY DrainedFollows, Invariance, PTL
=============================================================================
