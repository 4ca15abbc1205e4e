---------------------------- MODULE EventsProofs ----------------------------
(***************************************************************************)
(* Proofs about events.py: SharedEventFile, for any number of processes,   *)
(* any lengths of records and of the file, any forks, crashes and failing  *)
(* calls, and after it EventSink, the queue of each process.               *)
(*                                                                         *)
(* In the file everything rests on Owned: only the holder of the lock is   *)
(* past lock().  So nobody writes between the size check of a record and   *)
(* its last cell, and a rollback removes only cells of the record that     *)
(* failed.  Current says which cells those are; Fresh says that a record   *)
(* being written is not counted as written, so that no rollback reaches a  *)
(* written one.                                                            *)
(***************************************************************************)
EXTENDS EventSink, SharedEventFile, TLAPS

\* Between the call of _write_record and its first cell; with cells to roll back.
Starting == {"open", "lock", "check"}
Writing == {"write", "rollback"}

Owned == \A s \in Sink : at[s] \in Locked => lock = s

\* The record of s and the room the size check left for it.
Sized ==
  \A s \in Sink :
    /\ at[s] \in Starting \cup {"write"} => left[s] >= 1
    /\ at[s] \notin {"idle", "dead"} => number[s] >= 1
    /\ at[s] = "write" => Len(file) + left[s] <= MaxFileCells
    /\ at[s] \in Writing => start[s] <= Len(file)
    /\ at[s] = "rollback" => result[s] = "error"

Fresh ==
  /\ \A k \in DOMAIN file :
       /\ file[k].number <= number[file[k].sink]
       /\ at[file[k].sink] \in Starting => file[k].number # number[file[k].sink]
  /\ \A w \in written :
       /\ w[2] <= number[w[1]]
       /\ at[w[1]] \in Starting \cup Writing => w[2] # number[w[1]]

\* The cells after start_size are those of the record being written.
Current ==
  \A s \in Sink : at[s] \in Writing =>
    \A k \in DOMAIN file :
      /\ k > start[s] <=> file[k].sink = s /\ file[k].number = number[s]
      /\ k > start[s] => ~file[k].last

Intact(s, n) ==
  \E m \in DOMAIN file : \E k \in 1 .. m :
    /\ CellsOf(s, n) = k .. m
    /\ \A c \in k .. m : file[c].last = (c = m)

\* Records counted as written, and those about to be, are intact.
Kept ==
  /\ \A w \in written : Intact(w[1], w[2])
  /\ \A s \in Sink :
       at[s] = "unlock" /\ result[s] = "written" => Intact(s, number[s])

\* Unless a fragment was left, a cell that ends no line is followed by one of
\* its record, or its record is being written.
Lines ==
  ~torn =>
    /\ \A k \in DOMAIN file : k < Len(file) /\ ~file[k].last =>
         /\ file[k + 1].sink = file[k].sink
         /\ file[k + 1].number = file[k].number
    /\ \A k \in DOMAIN file : k = Len(file) /\ ~file[k].last =>
         \E s \in Sink : Midway(s)
    /\ \A s \in Sink : at[s] \in Writing =>
         start[s] = 0 \/ (start[s] \in DOMAIN file /\ file[start[s]].last)

IInv ==
  /\ TypeOK /\ FileBounded
  /\ Owned /\ Sized /\ Fresh /\ Current /\ Kept /\ Lines

-----------------------------------------------------------------------------
(* Facts about the operators.                                              *)

\* What a cell of the file is.
LEMMA CellType ==
  ASSUME TypeOK, NEW k \in DOMAIN file
  PROVE  /\ file[k].sink \in Sink
         /\ file[k].number \in Nat /\ file[k].number \in 1 .. MaxWrites
         /\ file[k].last \in BOOLEAN
<1>. DEFINE Cells == [sink : Sink, number : 1 .. MaxWrites, last : BOOLEAN]
<1>1. file \in Seq(Cells)
  BY DEF TypeOK
<1>2. file[k] \in Cells
  <2>. HIDE DEF Cells
  <2>. QED  BY <1>1
<1>. QED  BY <1>2

\* The file is a sequence.
LEMMA FileShape ==
  TypeOK => Len(file) \in Nat /\ DOMAIN file = 1 .. Len(file)
BY DEF TypeOK

\* Moving a sink moves no other.
LEMMA GotoFacts ==
  ASSUME at \in [Sink -> Place], NEW s \in Sink, NEW place \in Place, Goto(s, place)
  PROVE  /\ at' \in [Sink -> Place]
         /\ at'[s] = place
         /\ \A t \in Sink \ {s} : at'[t] = at[t]
BY DEF Goto

\* Only one sink is past lock().
LEMMA Alone ==
  ASSUME Owned, NEW s \in Sink, NEW t \in Sink, at[s] \in Locked, at[t] \in Locked
  PROVE  s = t
BY DEF Owned

\* A record stays intact while the file does not change.
LEMMA SameFileIntact ==
  ASSUME UNCHANGED file, NEW s, NEW n, Intact(s, n)
  PROVE  Intact(s, n)'
BY DEF Intact, CellsOf

-----------------------------------------------------------------------------
(* Steps that leave the file alone.                                        *)

\* A fork, the hook of a forked child: nobody moves and a lock is lost only by
\* a sink that is not past lock().
LEMMA NobodyMoves ==
  ASSUME IInv, TypeOK', UNCHANGED <<file, at, local, written, torn>>,
         \A s \in Sink : lock = s => lock' = s \/ at[s] \notin Locked
  PROVE  IInv'
<1>. USE DEF IInv, local
<1>1. FileBounded' /\ Sized' /\ Fresh' /\ Current'
  BY DEF FileBounded, Sized, Fresh, Current
<1>2. Owned'
  BY DEF Owned
<1>3. Kept'
  BY SameFileIntact DEF Kept
<1>4. Lines'
  BY DEF Lines, Midway
<1>. QED  BY <1>1, <1>2, <1>3, <1>4

\* A sink returns from _write_record or dies, leaving its lock or not, and torn
\* tells whether it was in the middle of a record.
LEMMA Leaves ==
  ASSUME IInv, TypeOK', NEW s \in Sink, NEW place \in {"idle", "dead"},
         Goto(s, place), UNCHANGED <<file, local, written>>,
         \A t \in Sink \ {s} : lock = t => lock' = t,
         ~torn' => ~torn /\ ~Midway(s)
  PROVE  IInv'
<1>. USE DEF IInv, local
<1>0. /\ at'[s] = place
      /\ \A t \in Sink \ {s} : at'[t] = at[t]
  BY GotoFacts DEF TypeOK, Place
<1>1. FileBounded' /\ Owned'
  BY <1>0 DEF FileBounded, Owned, Locked
<1>2. Sized'
  BY <1>0 DEF Sized, Starting, Writing
<1>3. Fresh'
  <2>1. \A k \in DOMAIN file : file[k].sink \in Sink
    BY CellType
  <2>2. \A w \in written : w[1] \in Sink
    BY DEF TypeOK
  <2>. QED  BY <1>0, <2>1, <2>2 DEF Fresh, Starting, Writing
<1>4. Current'
  BY <1>0 DEF Current, Writing
<1>5. Kept'
  BY <1>0, SameFileIntact DEF Kept
<1>6. Lines'
  BY <1>0 DEF Lines, Midway, Writing
<1>. QED  BY <1>1, <1>2, <1>3, <1>4, <1>5, <1>6

\* A record is taken up: its number is new.
LEMMA BeginInv ==
  ASSUME IInv, NEW s \in Sink, NEW cells \in 1 .. MaxRecordCells, Begin(s, cells)
  PROVE  IInv'
<1>. USE DEF IInv, Begin, children
<1>. DEFINE place == IF opened[s] THEN "lock" ELSE "open"
<1>0. /\ at'[s] \in {"open", "lock"}
      /\ \A t \in Sink \ {s} : at'[t] = at[t]
  BY GotoFacts DEF TypeOK, Place
<1>1. /\ number[s] \in Nat /\ number'[s] = number[s] + 1
      /\ \A t \in Sink \ {s} : number'[t] = number[t]
      /\ left'[s] = cells
      /\ \A t \in Sink \ {s} : left'[t] = left[t]
  BY DEF TypeOK
<1>2. TypeOK'
  <2>1. at' \in [Sink -> Place]
    BY GotoFacts DEF TypeOK, Place
  <2>2. number' \in [Sink -> 0 .. MaxWrites] /\ left' \in [Sink -> 0 .. MaxRecordCells]
    BY FileAssumption DEF TypeOK
  <2>. QED  BY <2>1, <2>2 DEF TypeOK
<1>3. FileBounded' /\ Owned'
  BY <1>0 DEF FileBounded, Owned, Locked
<1>4. Sized'
  BY <1>0, <1>1 DEF Sized, Starting, Writing
<1>5. Fresh'
  <2>1. ASSUME NEW k \in DOMAIN file
        PROVE  /\ file[k].number <= number'[file[k].sink]
               /\ at'[file[k].sink] \in Starting
                    => file[k].number # number'[file[k].sink]
    <3>1. file[k].sink \in Sink /\ file[k].number \in Nat
      BY CellType
    <3>. QED  BY <1>0, <1>1, <3>1 DEF Fresh
  <2>2. ASSUME NEW w \in written
        PROVE  /\ w[2] <= number'[w[1]]
               /\ at'[w[1]] \in Starting \cup Writing => w[2] # number'[w[1]]
    <3>1. w[1] \in Sink /\ w[2] \in Nat
      BY DEF TypeOK
    <3>. QED  BY <1>0, <1>1, <3>1 DEF Fresh
  <2>. QED  BY <2>1, <2>2 DEF Fresh
<1>6. Current'
  BY <1>0, <1>1 DEF Current, Writing
<1>7. Kept'
  <2>1. ASSUME NEW t \in Sink, at'[t] = "unlock", result'[t] = "written"
        PROVE  Intact(t, number[t]) /\ number'[t] = number[t]
    BY <1>0, <1>1, <2>1 DEF Kept
  <2>. QED  BY <2>1, SameFileIntact DEF Kept
<1>8. Lines'
  BY <1>0 DEF Lines, Midway, Writing
<1>. QED  BY <1>2, <1>3, <1>4, <1>5, <1>6, <1>7, <1>8

\* The descriptor is opened and then locked: nobody else is past lock() then.
LEMMA ApproachInv ==
  ASSUME IInv, NEW s \in Sink, Open(s) \/ Lock(s)
  PROVE  IInv'
<1>. USE DEF IInv, Open, Lock, local, children
<1>0. /\ at'[s] \in {"lock", "check"} /\ at[s] \in {"open", "lock"}
      /\ at'[s] = "check" => lock = NoSink /\ lock' = s
      /\ at'[s] # "check" => lock' = lock
      /\ at' \in [Sink -> Place]
      /\ \A t \in Sink \ {s} : at'[t] = at[t]
  BY GotoFacts DEF TypeOK, Place, Lockable
<1>1. UNCHANGED <<file, number, left, start, result, written, torn>>
  OBVIOUS
<1>2. TypeOK'
  <2>1. lock' \in Sink \cup {NoSink}
    BY DEF TypeOK
  <2>2. opened' \in [Sink -> BOOLEAN]
    BY DEF TypeOK
  <2>. QED  BY <1>0, <1>1, <2>1, <2>2 DEF TypeOK
<1>3. FileBounded' /\ Owned'
  BY <1>0, <1>1, FileAssumption DEF FileBounded, Owned, Locked
<1>4. Sized'
  BY <1>0, <1>1 DEF Sized, Starting, Writing
<1>5. Fresh'
  <2>1. \A k \in DOMAIN file : file[k].sink \in Sink
    BY CellType
  <2>2. \A w \in written : w[1] \in Sink
    BY DEF TypeOK
  <2>. QED  BY <1>0, <1>1, <2>1, <2>2 DEF Fresh, Starting, Writing
<1>6. Current'
  BY <1>0, <1>1 DEF Current, Writing
<1>7. Kept'
  BY <1>0, <1>1, SameFileIntact DEF Kept
<1>8. Lines'
  BY <1>0, <1>1 DEF Lines, Midway, Writing
<1>. QED  BY <1>2, <1>3, <1>4, <1>5, <1>6, <1>7, <1>8

\* The size check: what fits now fits until the lock is released.
LEMMA CheckInv ==
  ASSUME IInv, NEW s \in Sink, Check(s)
  PROVE  IInv'
<1>. USE DEF IInv, Check, children
<1>0. /\ at[s] = "check"
      /\ at'[s] = IF Fits(s) THEN "write" ELSE "unlock"
      /\ at' \in [Sink -> Place]
      /\ \A t \in Sink \ {s} : at'[t] = at[t]
  BY GotoFacts DEF TypeOK, Place
<1>1. UNCHANGED <<file, lock, number, left, opened, copied, forks, written, torn>>
  OBVIOUS
<1>2. /\ Len(file) \in Nat /\ DOMAIN file = 1 .. Len(file)
      /\ Len(file) \in 0 .. MaxFileCells
      /\ start'[s] = Len(file)
      /\ \A t \in Sink \ {s} : start'[t] = start[t]
      /\ start' \in [Sink -> 0 .. MaxFileCells]
  BY FileAssumption DEF TypeOK, FileBounded
<1>3. /\ result' \in [Sink -> {"none", "written", "capacity", "error"}]
      /\ at'[s] = "unlock" => result'[s] = "capacity"
      /\ \A t \in Sink \ {s} : result'[t] = result[t]
  <2>1. CASE Fits(s)
    BY <1>0, <2>1 DEF TypeOK
  <2>2. CASE ~Fits(s)
    BY <1>0, <2>2 DEF TypeOK, Returns
  <2>. QED  BY <2>1, <2>2
<1>4. \A t \in Sink \ {s} : at[t] \notin Locked
  BY <1>0, Alone DEF Locked
<1>5. TypeOK'
  BY <1>0, <1>1, <1>2, <1>3 DEF TypeOK
<1>6. FileBounded' /\ Owned'
  BY <1>0, <1>1 DEF FileBounded, Owned, Locked
<1>7. Sized'
  BY <1>0, <1>1, <1>2, <1>3, <1>4 DEF Sized, Starting, Writing, Fits, Locked
<1>8. Fresh'
  <2>1. \A k \in DOMAIN file : file[k].sink \in Sink
    BY CellType
  <2>2. \A w \in written : w[1] \in Sink
    BY DEF TypeOK
  <2>. QED  BY <1>0, <1>1, <2>1, <2>2 DEF Fresh, Starting, Writing
<1>9. Current'
  <2>1. ASSUME NEW k \in DOMAIN file
        PROVE  ~(file[k].sink = s /\ file[k].number = number[s]) /\ ~(k > Len(file))
    BY <1>0, <1>2 DEF Fresh, Starting
  <2>2. \A t \in Sink : at'[t] \in Writing => t = s
    BY <1>0, <1>4 DEF Writing, Locked
  <2>. QED  BY <1>1, <1>2, <2>1, <2>2 DEF Current
<1>10. Kept'
  <2>1. \A t \in Sink : ~(at'[t] = "unlock" /\ result'[t] = "written")
    BY <1>0, <1>3, <1>4 DEF Locked
  <2>. QED  BY <1>1, <2>1, SameFileIntact DEF Kept
<1>11. Lines'
  <2>. SUFFICES ASSUME ~torn'  PROVE Lines'
    BY DEF Lines
  <2>1. \A t \in Sink : ~Midway(t)
    BY <1>0, <1>4 DEF Midway, Locked
  <2>2. \A k \in DOMAIN file : k = Len(file) => file[k].last
    BY <1>1, <2>1 DEF Lines
  <2>3. \A t \in Sink : at'[t] \in Writing => t = s
    BY <1>0, <1>4 DEF Writing, Locked
  <2>4. start'[s] = 0 \/ (start'[s] \in DOMAIN file' /\ file'[start'[s]].last)
    BY <1>1, <1>2, <2>2
  <2>. QED  BY <1>1, <2>2, <2>3, <2>4 DEF Lines
<1>. QED  BY <1>5, <1>6, <1>7, <1>8, <1>9, <1>10, <1>11

\* An error past lock(): the record is rolled back if it has cells.
LEMMA FailsLockedInv ==
  ASSUME IInv, NEW s \in Sink, FailsLocked(s)
  PROVE  IInv'
<1>. USE DEF IInv, FailsLocked, children
<1>0. /\ \/ at[s] = "check" /\ at'[s] = "unlock"
         \/ at[s] = "write" /\ at'[s] = "rollback"
      /\ at' \in [Sink -> Place]
      /\ \A t \in Sink \ {s} : at'[t] = at[t]
  <2>1. at[s] = "check" \/ at[s] = "write"
    BY DEF AfterError
  <2>2. AfterError["check"] = "unlock" /\ AfterError["write"] = "rollback"
    BY DEF AfterError
  <2>. QED  BY <2>1, <2>2, GotoFacts DEF TypeOK, Place
<1>1. UNCHANGED <<file, lock, number, left, start, opened, copied, forks, written, torn>>
  OBVIOUS
<1>2. /\ result' \in [Sink -> {"none", "written", "capacity", "error"}]
      /\ result'[s] = "error"
      /\ \A t \in Sink \ {s} : result'[t] = result[t]
  BY DEF TypeOK, Returns
<1>3. TypeOK'
  BY <1>0, <1>1, <1>2 DEF TypeOK
<1>4. FileBounded' /\ Owned'
  BY <1>0, <1>1 DEF FileBounded, Owned, Locked
<1>5. Sized'
  BY <1>0, <1>1, <1>2 DEF Sized, Starting, Writing
<1>6. Fresh'
  <2>1. \A k \in DOMAIN file : file[k].sink \in Sink
    BY CellType
  <2>2. \A w \in written : w[1] \in Sink
    BY DEF TypeOK
  <2>. QED  BY <1>0, <1>1, <2>1, <2>2 DEF Fresh, Starting, Writing
<1>7. Current'
  BY <1>0, <1>1 DEF Current, Writing
<1>8. Kept'
  BY <1>0, <1>1, <1>2, SameFileIntact DEF Kept
<1>9. Lines'
  BY <1>0, <1>1 DEF Lines, Midway, Writing
<1>. QED  BY <1>3, <1>4, <1>5, <1>6, <1>7, <1>8, <1>9

-----------------------------------------------------------------------------
(* Steps that change the file.                                             *)

\* Cells of one record stay where they are when a cell of another is appended.
LEMMA IntactAfterAppend ==
  ASSUME TypeOK, NEW cell,
         DOMAIN file' = 1 .. (Len(file) + 1),
         \A k \in DOMAIN file : file'[k] = file[k],
         file'[Len(file) + 1] = cell,
         NEW u, NEW n, Intact(u, n), ~(cell.sink = u /\ cell.number = n)
  PROVE  Intact(u, n)'
<1>1. PICK m \in DOMAIN file : \E k \in 1 .. m :
        /\ CellsOf(u, n) = k .. m
        /\ \A c \in k .. m : file[c].last = (c = m)
  BY DEF Intact
<1>2. PICK k \in 1 .. m :
        /\ CellsOf(u, n) = k .. m
        /\ \A c \in k .. m : file[c].last = (c = m)
  BY <1>1
<1>3. /\ Len(file) \in Nat /\ DOMAIN file = 1 .. Len(file)
      /\ DOMAIN file' = 1 .. (Len(file) + 1)
      /\ m \in DOMAIN file'
      /\ \A c \in k .. m : c \in DOMAIN file
  BY FileShape
<1>4. CellsOf(u, n)' = CellsOf(u, n)
  <2>1. \A c : c \in DOMAIN file' <=> c \in DOMAIN file \/ c = Len(file) + 1
    BY <1>3
  <2>. QED  BY <2>1 DEF CellsOf
<1>5. \A c \in k .. m : file'[c].last = (c = m)
  BY <1>2, <1>3
<1>. QED  BY <1>2, <1>3, <1>4, <1>5 DEF Intact

\* os.write appends to the record whose size was checked under this lock.
LEMMA WriteInv ==
  ASSUME IInv, NEW s \in Sink, Write(s)
  PROVE  IInv'
<1>. USE DEF IInv, Write, children
<1>. DEFINE cell == Cell(s)
<1>0. /\ at[s] = "write"
      /\ left[s] \in Nat \ {0} /\ number[s] \in 1 .. MaxWrites
      /\ start[s] \in Nat /\ start[s] <= Len(file)
      /\ Len(file) \in Nat /\ DOMAIN file = 1 .. Len(file)
      /\ Len(file) + left[s] <= MaxFileCells
  <2>1. Len(file) \in Nat /\ DOMAIN file = 1 .. Len(file)
    BY FileShape
  <2>2. /\ left[s] \in 0 .. MaxRecordCells /\ number[s] \in 0 .. MaxWrites
        /\ start[s] \in 0 .. MaxFileCells
    BY DEF TypeOK
  <2>3. /\ left[s] >= 1 /\ number[s] >= 1 /\ start[s] <= Len(file)
        /\ Len(file) + left[s] <= MaxFileCells
    BY DEF Sized, Starting, Writing
  <2>. QED  BY <2>1, <2>2, <2>3, FileAssumption
<1>1. /\ cell.sink = s /\ cell.number = number[s]
      /\ cell.last = (left[s] = 1) /\ cell.last \in BOOLEAN
      /\ cell \in [sink : Sink, number : 1 .. MaxWrites, last : BOOLEAN]
  BY <1>0 DEF Cell
<1>2. file' = Append(file, cell)
  OBVIOUS
<1>. HIDE DEF cell
<1>3. /\ file' \in Seq([sink : Sink, number : 1 .. MaxWrites, last : BOOLEAN])
      /\ Len(file') = Len(file) + 1 /\ DOMAIN file' = 1 .. (Len(file) + 1)
      /\ \A k \in DOMAIN file : file'[k] = file[k]
      /\ file'[Len(file) + 1] = cell
  <2>. DEFINE Cells == [sink : Sink, number : 1 .. MaxWrites, last : BOOLEAN]
  <2>1. file \in Seq(Cells) /\ cell \in Cells
    BY <1>1 DEF TypeOK
  <2>. HIDE DEF Cells
  <2>2. /\ file' \in Seq(Cells)
        /\ Len(file') = Len(file) + 1 /\ DOMAIN file' = 1 .. (Len(file) + 1)
        /\ \A k \in DOMAIN file : file'[k] = file[k]
        /\ file'[Len(file) + 1] = cell
    BY <1>2, <2>1
  <2>. QED  BY <2>2 DEF Cells
<1>4. /\ left' \in [Sink -> 0 .. MaxRecordCells] /\ left'[s] = left[s] - 1
      /\ \A t \in Sink \ {s} : left'[t] = left[t]
  BY <1>0, FileAssumption DEF TypeOK
<1>5. /\ at' \in [Sink -> Place]
      /\ result' \in [Sink -> {"none", "written", "capacity", "error"}]
      /\ at'[s] = IF left[s] = 1 THEN "unlock" ELSE "write"
      /\ \A t \in Sink \ {s} : at'[t] = at[t] /\ result'[t] = result[t]
  <2>1. CASE left[s] = 1
    BY <2>1, GotoFacts DEF TypeOK, Place, Returns
  <2>2. CASE left[s] # 1
    BY <1>0, <2>2 DEF TypeOK
  <2>. QED  BY <2>1, <2>2
<1>6. \A t \in Sink \ {s} : at[t] \notin Locked /\ at'[t] \notin Locked
  BY <1>0, <1>5, Alone DEF Locked
<1>7. TypeOK'
  BY <1>3, <1>4, <1>5 DEF TypeOK
<1>8. FileBounded'
  BY <1>0, <1>3, FileAssumption DEF FileBounded
<1>9. Owned'
  BY <1>0, <1>5 DEF Owned, Locked
<1>10. Sized'
  <2>1. ASSUME NEW t \in Sink \ {s}
        PROVE  /\ at'[t] \in Starting \cup {"write"} => left'[t] >= 1
               /\ at'[t] \notin {"idle", "dead"} => number'[t] >= 1
               /\ at'[t] \notin Writing
    BY <1>4, <1>5, <1>6 DEF Sized, Writing, Locked
  <2>2. /\ at'[s] \in Starting \cup {"write"} => left'[s] >= 1
        /\ number'[s] >= 1
        /\ at'[s] = "write" => Len(file') + left'[s] <= MaxFileCells
        /\ start'[s] <= Len(file')
        /\ at'[s] # "rollback"
    BY <1>0, <1>3, <1>4, <1>5, FileAssumption DEF Starting
  <2>. QED  BY <2>1, <2>2 DEF Sized, Writing
<1>11. Fresh'
  <2>1. ASSUME NEW k \in DOMAIN file'
        PROVE  /\ file'[k].number <= number[file'[k].sink]
               /\ at'[file'[k].sink] \in Starting
                    => file'[k].number # number[file'[k].sink]
    <3>1. CASE k \in DOMAIN file
      BY <1>0, <1>3, <1>5, <3>1, CellType DEF Fresh, Starting
    <3>2. CASE k = Len(file) + 1
      BY <1>0, <1>1, <1>3, <1>5, <3>2 DEF Starting
    <3>. QED  BY <1>0, <1>3, <3>1, <3>2
  <2>2. \A w \in written : w[1] \in Sink
    BY DEF TypeOK
  <2>3. \A w \in written :
          /\ w[2] <= number[w[1]]
          /\ at'[w[1]] \in Starting \cup Writing => w[2] # number[w[1]]
    BY <1>0, <1>5, <2>2 DEF Fresh, Starting, Writing
  <2>. QED  BY <2>1, <2>3 DEF Fresh
<1>12. Current'
  <2>. SUFFICES ASSUME at'[s] = "write", NEW k \in DOMAIN file'
                PROVE  /\ k > start[s]
                            <=> file'[k].sink = s /\ file'[k].number = number[s]
                       /\ k > start[s] => ~file'[k].last
    BY <1>5, <1>6 DEF Current, Writing, Locked
  <2>1. CASE k \in DOMAIN file
    BY <1>0, <1>3, <2>1 DEF Current, Writing
  <2>2. CASE k = Len(file) + 1
    <3>1. left[s] # 1
      BY <1>5
    <3>. QED  BY <1>0, <1>1, <1>3, <2>2, <3>1
  <2>. QED  BY <1>0, <1>3, <2>1, <2>2
<1>13. Kept'
  <2>1. ASSUME NEW w \in written  PROVE Intact(w[1], w[2])'
    <3>1. ~(cell.sink = w[1] /\ cell.number = w[2])
      BY <1>0, <1>1 DEF Fresh, Writing
    <3>2. Intact(w[1], w[2])
      BY DEF Kept
    <3>. QED  BY <1>2, <1>3, <3>1, <3>2, IntactAfterAppend
  <2>2. ASSUME at'[s] = "unlock"  PROVE Intact(s, number[s])'
    <3>. DEFINE first == start[s] + 1
    <3>1. \A k \in DOMAIN file' :
            /\ file'[k].sink = s /\ file'[k].number = number[s] <=> k >= first
            /\ k >= first => file'[k].last = (k = Len(file) + 1)
      <4>. SUFFICES ASSUME NEW k \in DOMAIN file'
                    PROVE  /\ file'[k].sink = s /\ file'[k].number = number[s]
                                <=> k >= first
                           /\ k >= first => file'[k].last = (k = Len(file) + 1)
        OBVIOUS
      <4>1. CASE k \in DOMAIN file
        <5>1. /\ k > start[s] <=> file[k].sink = s /\ file[k].number = number[s]
              /\ k > start[s] => ~file[k].last
          BY <1>0, <4>1 DEF Current, Writing
        <5>2. file'[k] = file[k] /\ k # Len(file) + 1 /\ (k > start[s] <=> k >= first)
          BY <1>0, <1>3, <4>1
        <5>3. file[k].last \in BOOLEAN
          BY <4>1, CellType
        <5>. QED  BY <5>1, <5>2, <5>3
      <4>2. CASE k = Len(file) + 1
        <5>1. left[s] = 1
          BY <1>5, <2>2
        <5>. QED  BY <1>0, <1>1, <1>3, <4>2, <5>1
      <4>. QED  BY <1>0, <1>3, <4>1, <4>2
    <3>2. first \in 1 .. (Len(file) + 1) /\ Len(file) + 1 \in DOMAIN file'
      BY <1>0, <1>3
    <3>3. \A k : k \in first .. (Len(file) + 1) <=> k \in DOMAIN file' /\ k >= first
      BY <1>0, <1>3, <3>2
    <3>. HIDE DEF first
    <3>4. CellsOf(s, number[s])' = first .. (Len(file) + 1)
      BY <3>1, <3>3 DEF CellsOf
    <3>5. \A c \in first .. (Len(file) + 1) : file'[c].last = (c = Len(file) + 1)
      BY <3>1, <3>3
    <3>. QED  BY <3>2, <3>4, <3>5 DEF Intact
  <2>. QED  BY <1>6, <2>1, <2>2 DEF Kept, Locked
<1>14. Lines'
  <2>. SUFFICES ASSUME ~torn
                PROVE  /\ \A k \in DOMAIN file' : k < Len(file') /\ ~file'[k].last =>
                            /\ file'[k + 1].sink = file'[k].sink
                            /\ file'[k + 1].number = file'[k].number
                       /\ \A k \in DOMAIN file' : k = Len(file') /\ ~file'[k].last =>
                            \E t \in Sink : Midway(t)'
                       /\ \A t \in Sink : at'[t] \in Writing =>
                            start[t] = 0
                              \/ (start[t] \in DOMAIN file' /\ file'[start[t]].last)
    BY DEF Lines
  <2>1. ASSUME NEW k \in DOMAIN file', k < Len(file'), ~file'[k].last
        PROVE  /\ file'[k + 1].sink = file'[k].sink
               /\ file'[k + 1].number = file'[k].number
    <3>0. k \in DOMAIN file
      BY <1>0, <1>3, <2>1
    <3>1. CASE k < Len(file)
      <4>1. k + 1 \in DOMAIN file
        BY <1>0, <3>0, <3>1
      <4>. QED  BY <1>3, <2>1, <3>0, <3>1, <4>1 DEF Lines
    <3>2. CASE k = Len(file)
      <4>1. PICK t \in Sink : Midway(t)
        BY <1>3, <2>1, <3>0, <3>2 DEF Lines
      <4>2. t = s
        BY <1>6, <4>1 DEF Midway, Locked
      <4>3. file[k].sink = s /\ file[k].number = number[s]
        BY <1>0, <3>0, <3>2, <4>1, <4>2 DEF Midway, Current, Writing
      <4>. QED  BY <1>1, <1>3, <3>0, <3>2, <4>3
    <3>. QED  BY <1>0, <3>0, <3>1, <3>2
  <2>2. ASSUME NEW k \in DOMAIN file', k = Len(file'), ~file'[k].last
        PROVE  \E t \in Sink : Midway(t)'
    <3>1. left[s] # 1
      BY <1>1, <1>3, <2>2
    <3>2. at'[s] = "write" /\ Len(file') > start'[s]
      BY <1>0, <1>3, <1>5, <3>1
    <3>. QED  BY <3>2 DEF Midway
  <2>3. ASSUME NEW t \in Sink, at'[t] \in Writing
        PROVE  start[t] = 0 \/ (start[t] \in DOMAIN file' /\ file'[start[t]].last)
    <3>1. t = s
      BY <1>6, <2>3 DEF Writing, Locked
    <3>2. start[s] = 0 \/ (start[s] \in DOMAIN file /\ file[start[s]].last)
      BY <1>0 DEF Lines, Writing
    <3>. QED  BY <1>0, <1>3, <3>1, <3>2
  <2>. QED  BY <2>1, <2>2, <2>3
<1>. QED
  BY <1>7, <1>8, <1>9, <1>10, <1>11, <1>12, <1>13, <1>14

\* ftruncate back to start_size removes the cells of the failed record, all of
\* them and no others.
LEMMA RollbackInv ==
  ASSUME IInv, NEW s \in Sink, Rollback(s)
  PROVE  IInv'
<1>. USE DEF IInv, Rollback, local, children
<1>0. /\ at[s] = "rollback" /\ at'[s] = "unlock"
      /\ at' \in [Sink -> Place]
      /\ \A t \in Sink \ {s} : at'[t] = at[t]
  BY GotoFacts DEF TypeOK, Place
<1>1. UNCHANGED <<lock, number, left, start, result, opened, copied, forks,
                  written, torn>>
  OBVIOUS
<1>2. /\ Len(file) \in Nat /\ DOMAIN file = 1 .. Len(file)
      /\ start[s] \in Nat /\ start[s] <= Len(file)
      /\ result[s] = "error"
  <2>1. start[s] \in 0 .. MaxFileCells
    BY DEF TypeOK
  <2>. QED  BY <1>0, <2>1, FileShape, FileAssumption DEF Sized, Writing
<1>3. /\ file' \in Seq([sink : Sink, number : 1 .. MaxWrites, last : BOOLEAN])
      /\ Len(file') = start[s] /\ DOMAIN file' = 1 .. start[s]
      /\ \A k \in DOMAIN file' : k \in DOMAIN file /\ file'[k] = file[k]
  <2>. DEFINE Cells == [sink : Sink, number : 1 .. MaxWrites, last : BOOLEAN]
  <2>1. file \in Seq(Cells) /\ file' = SubSeq(file, 1, start[s])
    BY DEF TypeOK
  <2>. HIDE DEF Cells
  <2>2. /\ file' \in Seq(Cells)
        /\ Len(file') = start[s] /\ DOMAIN file' = 1 .. start[s]
        /\ \A k \in 1 .. start[s] : file'[k] = file[k]
    BY <1>2, <2>1
  <2>. QED  BY <1>2, <2>2 DEF Cells
<1>4. \A t \in Sink : at'[t] \notin Writing
  <2>1. \A t \in Sink \ {s} : at[t] \notin Locked
    BY <1>0, Alone DEF Locked
  <2>. QED  BY <1>0, <2>1 DEF Writing, Locked
<1>5. TypeOK'
  BY <1>0, <1>1, <1>3 DEF TypeOK
<1>6. FileBounded' /\ Owned'
  <2>1. FileBounded'
    <3>1. start[s] \in 0 .. MaxFileCells
      BY DEF TypeOK
    <3>. QED  BY <1>3, <3>1, FileAssumption DEF FileBounded
  <2>2. Owned'
    BY <1>0, <1>1 DEF Owned, Locked
  <2>. QED  BY <2>1, <2>2
<1>7. Sized'
  BY <1>0, <1>1, <1>4 DEF Sized, Starting, Writing
<1>8. Fresh'
  <2>1. \A k \in DOMAIN file' : file'[k].sink \in Sink
    BY <1>3, CellType
  <2>2. \A w \in written : w[1] \in Sink
    BY DEF TypeOK
  <2>3. ASSUME NEW k \in DOMAIN file'
        PROVE  /\ file'[k].number <= number[file'[k].sink]
               /\ at'[file'[k].sink] \in Starting
                    => file'[k].number # number[file'[k].sink]
    BY <1>0, <1>3, <2>1 DEF Fresh, Starting
  <2>4. ASSUME NEW w \in written
        PROVE  /\ w[2] <= number[w[1]]
               /\ at'[w[1]] \in Starting \cup Writing => w[2] # number[w[1]]
    BY <1>0, <2>2 DEF Fresh, Starting, Writing
  <2>. QED  BY <1>1, <2>3, <2>4 DEF Fresh
<1>9. Current'
  BY <1>4 DEF Current
<1>10. Kept'
  <2>1. ASSUME NEW w \in written  PROVE Intact(w[1], w[2])'
    <3>1. PICK m \in DOMAIN file : \E k \in 1 .. m :
            /\ CellsOf(w[1], w[2]) = k .. m
            /\ \A c \in k .. m : file[c].last = (c = m)
      BY DEF Kept, Intact
    <3>2. PICK k \in 1 .. m :
            /\ CellsOf(w[1], w[2]) = k .. m
            /\ \A c \in k .. m : file[c].last = (c = m)
      BY <3>1
    <3>3. m \in CellsOf(w[1], w[2])
      BY <1>2, <3>2
    <3>4. ~(m > start[s])
      BY <1>0, <3>3 DEF CellsOf, Current, Fresh, Writing
    <3>5. m \in DOMAIN file'
      BY <1>2, <1>3, <3>4
    <3>6. CellsOf(w[1], w[2])' = k .. m
      <4>1. ASSUME NEW c \in CellsOf(w[1], w[2])'  PROVE c \in k .. m
        BY <1>3, <3>2 DEF CellsOf
      <4>2. ASSUME NEW c \in k .. m  PROVE c \in CellsOf(w[1], w[2])'
        <5>1. c \in DOMAIN file'
          BY <1>3, <3>5
        <5>. QED  BY <1>3, <3>2, <5>1 DEF CellsOf
      <4>. QED  BY <4>1, <4>2
    <3>7. \A c \in k .. m : file'[c].last = (c = m)
      <4>1. \A c \in k .. m : c \in DOMAIN file'
        BY <1>3, <3>5
      <4>. QED  BY <1>3, <3>2, <4>1
    <3>. QED  BY <3>5, <3>6, <3>7 DEF Intact
  <2>2. ASSUME NEW t \in Sink  PROVE ~(at'[t] = "unlock" /\ result'[t] = "written")
    <3>1. t # s => at[t] \notin Locked
      BY <1>0, Alone DEF Locked
    <3>. QED  BY <1>0, <1>1, <1>2, <3>1 DEF Locked
  <2>. QED  BY <1>1, <2>1, <2>2 DEF Kept
<1>11. Lines'
  <2>. SUFFICES ASSUME ~torn'  PROVE Lines'
    BY DEF Lines
  <2>0. ~torn
    BY <1>1
  <2>1. ASSUME NEW k \in DOMAIN file', k < Len(file'), ~file'[k].last
        PROVE  /\ file'[k + 1].sink = file'[k].sink
               /\ file'[k + 1].number = file'[k].number
    <3>1. k + 1 \in DOMAIN file' /\ k < Len(file)
      BY <1>2, <1>3, <2>1
    <3>. QED  BY <1>3, <2>0, <2>1, <3>1 DEF Lines
  <2>2. ASSUME NEW k \in DOMAIN file', k = Len(file'), ~file'[k].last  PROVE FALSE
    <3>1. start[s] = 0 \/ file[start[s]].last
      BY <1>0, <2>0 DEF Lines, Writing
    <3>. QED  BY <1>2, <1>3, <2>2, <3>1
  <2>. QED  BY <1>4, <2>1, <2>2 DEF Lines
<1>. QED
  BY <1>5, <1>6, <1>7, <1>8, <1>9, <1>10, <1>11

-----------------------------------------------------------------------------
(* The ways out of _write_record.                                          *)

\* The failed rollback leaves its cells, and torn tells so.
LEMMA RollbackFailsInv ==
  ASSUME IInv, NEW s \in Sink, RollbackFails(s)
  PROVE  IInv'
<1>. USE DEF IInv, RollbackFails, local, children
<1>0. /\ at[s] = "rollback" /\ at'[s] = "unlock"
      /\ at' \in [Sink -> Place]
      /\ \A t \in Sink \ {s} : at'[t] = at[t]
  BY GotoFacts DEF TypeOK, Place
<1>1. /\ UNCHANGED <<file, lock, number, left, start, result, opened, copied, forks,
                     written>>
      /\ torn' \in BOOLEAN
      /\ ~torn' => ~torn /\ ~Midway(s)
  BY <1>0 DEF Midway
<1>2. result[s] = "error"
  BY <1>0 DEF Sized
<1>3. \A t \in Sink \ {s} : at[t] \notin Locked
  BY <1>0, Alone DEF Locked
<1>4. TypeOK'
  BY <1>0, <1>1 DEF TypeOK
<1>5. FileBounded' /\ Owned'
  BY <1>0, <1>1 DEF FileBounded, Owned, Locked
<1>6. Sized'
  BY <1>0, <1>1 DEF Sized, Starting, Writing
<1>7. Fresh'
  <2>1. \A k \in DOMAIN file : file[k].sink \in Sink
    BY CellType
  <2>2. \A w \in written : w[1] \in Sink
    BY DEF TypeOK
  <2>. QED  BY <1>0, <1>1, <2>1, <2>2 DEF Fresh, Starting, Writing
<1>8. Current'
  BY <1>0, <1>1 DEF Current, Writing
<1>9. Kept'
  BY <1>0, <1>1, <1>2, SameFileIntact DEF Kept
<1>10. Lines'
  BY <1>0, <1>1, <1>3 DEF Lines, Midway, Writing, Locked
<1>. QED  BY <1>4, <1>5, <1>6, <1>7, <1>8, <1>9, <1>10

\* LOCK_UN succeeds and a complete record is counted.
LEMMA UnlockInv ==
  ASSUME IInv, NEW s \in Sink, Unlock(s)
  PROVE  IInv'
<1>. USE DEF IInv, Unlock, local
<1>0. /\ at[s] = "unlock" /\ at'[s] = "idle"
      /\ at' \in [Sink -> Place]
      /\ \A t \in Sink \ {s} : at'[t] = at[t]
  BY GotoFacts DEF TypeOK, Place
<1>1. UNCHANGED <<file, number, left, start, result, forks, torn>>
  OBVIOUS
<1>2. \A t \in Sink \ {s} : at[t] \notin Locked
  BY <1>0, Alone DEF Locked
<1>3. number[s] \in 1 .. MaxWrites
  <2>1. number[s] \in 0 .. MaxWrites /\ number[s] >= 1
    BY <1>0 DEF TypeOK, Sized
  <2>. QED  BY <2>1, FileAssumption
<1>4. TypeOK'
  <2>1. opened' \in [Sink -> BOOLEAN] /\ copied' \subseteq Sink
    BY DEF TypeOK
  <2>2. written' \subseteq Sink \X (1 .. MaxWrites)
    BY <1>3 DEF TypeOK
  <2>3. lock' \in Sink \cup {NoSink}
    OBVIOUS
  <2>. QED  BY <1>0, <1>1, <2>1, <2>2, <2>3 DEF TypeOK
<1>5. FileBounded' /\ Owned'
  BY <1>0, <1>1, <1>2 DEF FileBounded, Owned, Locked
<1>6. Sized'
  BY <1>0, <1>1 DEF Sized, Starting, Writing
<1>7. Fresh'
  <2>1. \A k \in DOMAIN file : file[k].sink \in Sink
    BY CellType
  <2>2. ASSUME NEW w \in written'
        PROVE  /\ w[2] <= number[w[1]]
               /\ at'[w[1]] \in Starting \cup Writing => w[2] # number[w[1]]
    <3>1. CASE w \in written
      <4>1. w[1] \in Sink
        BY <3>1 DEF TypeOK
      <4>. QED  BY <1>0, <3>1, <4>1 DEF Fresh, Starting, Writing
    <3>2. CASE w = <<s, number[s]>>
      BY <1>0, <1>3, <3>2 DEF Starting, Writing
    <3>. QED  BY <3>1, <3>2
  <2>3. ASSUME NEW k \in DOMAIN file
        PROVE  /\ file[k].number <= number[file[k].sink]
               /\ at'[file[k].sink] \in Starting
                    => file[k].number # number[file[k].sink]
    BY <1>0, <2>1 DEF Fresh, Starting
  <2>. QED  BY <1>1, <2>2, <2>3 DEF Fresh
<1>8. Current'
  BY <1>0, <1>1 DEF Current, Writing
<1>9. Kept'
  <2>1. ASSUME NEW w \in written'  PROVE Intact(w[1], w[2])'
    <3>1. Intact(w[1], w[2])
      BY <1>0 DEF Kept
    <3>. QED  BY <1>1, <3>1, SameFileIntact
  <2>2. \A t \in Sink : at'[t] # "unlock"
    BY <1>0, <1>2 DEF Locked
  <2>. QED  BY <2>1, <2>2 DEF Kept
<1>10. Lines'
  BY <1>0, <1>1 DEF Lines, Midway, Writing
<1>. QED  BY <1>4, <1>5, <1>6, <1>7, <1>8, <1>9, <1>10

\* Closing a descriptor keeps the flags typed.
LEMMA ClosesFacts ==
  ASSUME TypeOK, NEW s \in Sink, Closes(s)
  PROVE  opened' \in [Sink -> BOOLEAN] /\ copied' \subseteq Sink
BY DEF TypeOK, Closes

\* A failure outside the lock, a failed LOCK_UN and a crash.
LEMMA LeavesInv ==
  ASSUME IInv, NEW s \in Sink, FailsUnlocked(s) \/ UnlockFails(s) \/ Crash(s)
  PROVE  IInv'
<1>. USE DEF IInv, FailsUnlocked, UnlockFails, Crash, ClosesLocked
<1>1. PICK place \in {"idle", "dead"} : Goto(s, place)
  OBVIOUS
<1>2. opened' \in [Sink -> BOOLEAN] /\ copied' \subseteq Sink
  BY ClosesFacts
<1>3. /\ UNCHANGED <<file, local, forks, written>>
      /\ lock' \in Sink \cup {NoSink}
      /\ \A t \in Sink \ {s} : lock = t => lock' = t
  BY DEF TypeOK
<1>4. torn' \in BOOLEAN /\ (~torn' => ~torn /\ ~Midway(s))
  BY DEF TypeOK, Midway
<1>5. TypeOK'
  <2>1. at' \in [Sink -> Place]
    BY <1>1, GotoFacts DEF TypeOK, Place
  <2>. QED  BY <1>2, <1>3, <1>4, <2>1 DEF TypeOK, local
<1>. QED  BY <1>1, <1>3, <1>4, <1>5, Leaves

\* A fork and the hook of the forked child.
LEMMA ChildInv ==
  ASSUME IInv, NEW s \in Sink, Fork(s) \/ AfterFork(s)
  PROVE  IInv'
<1>. USE DEF IInv, Fork, AfterFork, Abandon
<1>1. /\ UNCHANGED <<file, at, local, written, torn, opened>>
      /\ \A t \in Sink : lock = t => lock' = t \/ at[t] \notin Locked
      /\ lock' \in Sink \cup {NoSink} /\ copied' \subseteq Sink
      /\ forks' \in 0 .. MaxForks
  BY FileAssumption DEF TypeOK
<1>2. TypeOK'
  BY <1>1 DEF TypeOK, local
<1>. QED  BY <1>1, <1>2, NobodyMoves

-----------------------------------------------------------------------------
(* The theorems.                                                           *)

\* An empty file that nobody has opened satisfies the invariant.
LEMMA InitInv == Init => IInv
<1>. SUFFICES ASSUME Init  PROVE IInv
  OBVIOUS
<1>. USE DEF Init
<1>1. file = <<>> /\ Len(file) = 0 /\ DOMAIN file = {}
  OBVIOUS
<1>2. TypeOK
  <2>1. file \in Seq([sink : Sink, number : 1 .. MaxWrites, last : BOOLEAN])
    OBVIOUS
  <2>2. /\ number \in [Sink -> 0 .. MaxWrites]
        /\ left \in [Sink -> 0 .. MaxRecordCells]
        /\ start \in [Sink -> 0 .. MaxFileCells]
        /\ forks \in 0 .. MaxForks
    BY FileAssumption
  <2>. QED  BY <2>1, <2>2 DEF TypeOK, Place
<1>3. FileBounded
  BY <1>1, FileAssumption DEF FileBounded
<1>4. Owned /\ Sized /\ Current /\ Kept
  BY <1>1 DEF Owned, Sized, Current, Kept, Starting, Writing, Locked
<1>5. Fresh /\ Lines
  BY <1>1 DEF Fresh, Lines, Writing
<1>. QED  BY <1>2, <1>3, <1>4, <1>5 DEF IInv

\* Every system call, failure, crash and fork preserves the invariant.
LEMMA StepInv == IInv /\ [Next]_vars => IInv'
<1>. SUFFICES ASSUME IInv, [Next]_vars  PROVE IInv'
  OBVIOUS
<1>1. ASSUME NEW s \in Sink, NEW cells \in 1 .. MaxRecordCells, Begin(s, cells)
      PROVE  IInv'
  BY <1>1, BeginInv
<1>2. ASSUME NEW s \in Sink, Step(s)  PROVE IInv'
  BY <1>2, ApproachInv, LeavesInv, CheckInv, WriteInv, FailsLockedInv, RollbackInv,
     RollbackFailsInv, UnlockInv
     DEF Step
<1>3. ASSUME NEW s \in Sink, Crash(s)  PROVE IInv'
  BY <1>3, LeavesInv
<1>4. ASSUME NEW s \in Sink, Fork(s) \/ AfterFork(s)  PROVE IInv'
  BY <1>4, ChildInv
<1>5. CASE UNCHANGED vars
  <2>1. UNCHANGED <<file, at, local, written, torn>> /\ TypeOK'
    BY <1>5 DEF vars, local, children, IInv, TypeOK
  <2>2. \A s \in Sink : lock = s => lock' = s
    BY <1>5 DEF vars
  <2>. QED  BY <2>1, <2>2, NobodyMoves
<1>. QED  BY <1>1, <1>2, <1>3, <1>4, <1>5 DEF Next

\* IInv holds in every reachable state of the processes and their file.
THEOREM Invariance == Spec => []IInv
BY InitInv, StepInv, PTL DEF Spec

\* The variables of each _write_record call and the file keep their types.
THEOREM TypeCorrect == Spec => []TypeOK
<1>1. IInv => TypeOK
  BY DEF IInv
<1>. QED  BY Invariance, <1>1, PTL

\* The file never exceeds max_file_bytes, however many processes append to it.
THEOREM FileStaysBounded == Spec => []FileBounded
<1>1. IInv => FileBounded
  BY DEF IInv
<1>. QED  BY Invariance, <1>1, PTL

\* A record counted as written is, and stays, in the file in one piece that ends
\* with its newline.
THEOREM WrittenStaysIntact == Spec => []WrittenIntact
<1>1. IInv => WrittenIntact
  BY DEF IInv, Kept, Intact, WrittenIntact
<1>. QED  BY Invariance, <1>1, PTL

\* Without a fragment in the file, each written record is a line of its own.
THEOREM RecordsAreLines == Spec => []LinesSeparate
<1>1. ASSUME IInv  PROVE LinesSeparate
  <2>. SUFFICES ASSUME ~torn, NEW w \in written, NEW k \in CellsOf(w[1], w[2])
                PROVE  k = 1 \/ file[k - 1].last \/ k - 1 \in CellsOf(w[1], w[2])
    BY DEF LinesSeparate
  <2>1. Len(file) \in Nat /\ DOMAIN file = 1 .. Len(file)
    BY <1>1, FileShape DEF IInv
  <2>2. k \in DOMAIN file /\ file[k].sink = w[1] /\ file[k].number = w[2]
    BY DEF CellsOf
  <2>3. CASE k # 1 /\ ~file[k - 1].last
    <3>1. k - 1 \in DOMAIN file /\ k - 1 < Len(file) /\ (k - 1) + 1 = k
      BY <2>1, <2>2, <2>3
    <3>2. file[k].sink = file[k - 1].sink /\ file[k].number = file[k - 1].number
      BY <1>1, <2>3, <3>1 DEF IInv, Lines
    <3>. QED  BY <2>2, <3>1, <3>2 DEF CellsOf
  <2>. QED  BY <2>3
<1>. QED  BY Invariance, <1>1, PTL

-----------------------------------------------------------------------------
(* The queue in front of the file: EventSink, any threads, any queue and   *)
(* any number of calls.                                                    *)
(*                                                                         *)
(* Numbered is the heart of the invariant: records are settled in the      *)
(* order of their acceptance, so the number of settled records tells which *)
(* record the writer holds and which ones wait.  Exits says what the       *)
(* writer has learned from the two reads of its loop condition; it rests   *)
(* on _closed and the stop event being set together.                       *)

\* Where the writer is, what it holds and what it knows.
Exits ==
  /\ stop = closed
  /\ worker = "write" <=> current # 0
  /\ worker \in {"test_empty", "done"} => stop
  /\ worker = "done" => records = <<>>

\* unfinished_tasks counts the queue, the record in hand and a task_done() due.
Unfinished ==
  unfinished = Len(records) + InFlight + (IF worker = "task_done" THEN 1 ELSE 0)

Numbered ==
  /\ current # 0 => current = Settled + 1
  /\ \A k \in 1 .. Len(records) : records[k] = Settled + InFlight + k
  /\ \A k \in 1 .. Len(order) : order[k] \in 1 .. Settled
  /\ \A m, n \in 1 .. Len(order) : m < n => order[m] < order[n]

Marked ==
  \A f \in Flusher :
    /\ mark[f] <= counters["enqueued"]
    /\ flusher[f] = "true" => mark[f] <= Settled

QueueInv == QueueTypeOK /\ Accounted /\ Exits /\ Unfinished /\ Numbered /\ Marked

-----------------------------------------------------------------------------
\* _increment changes one counter by one.
LEMMA CountFacts ==
  ASSUME counters \in [Counter -> Nat], NEW name \in Counter, Count(name)
  PROVE  /\ counters' \in [Counter -> Nat]
         /\ counters'[name] = counters[name] + 1
         /\ \A other \in Counter \ {name} : counters'[other] = counters[other]
BY DEF Count

\* A result settles one more record.
LEMMA SettleFacts ==
  ASSUME counters \in [Counter -> Nat], NEW outcome \in Result,
      Count(outcome)
  PROVE  /\ Settled \in Nat
         /\ Settled' = Settled + 1
         /\ counters'["enqueued"] = counters["enqueued"]
         /\ counters' \in [Counter -> Nat]
BY CountFacts DEF Settled, Result, Counter

\* Counting a refused or lost call settles nothing.
LEMMA OtherFacts ==
  ASSUME counters \in [Counter -> Nat],
         NEW name \in Counter \ (Result \cup {"enqueued"}), Count(name)
  PROVE  /\ Settled \in Nat
         /\ Settled' = Settled
         /\ counters'["enqueued"] = counters["enqueued"]
         /\ counters' \in [Counter -> Nat]
BY CountFacts DEF Settled, Result, Counter

\* Accepting a record settles nothing.
LEMMA EnqueueFacts ==
  ASSUME counters \in [Counter -> Nat], Count("enqueued")
  PROVE  /\ Settled \in Nat
         /\ Settled' = Settled
         /\ counters["enqueued"] \in Nat
         /\ counters'["enqueued"] = counters["enqueued"] + 1
         /\ counters' \in [Counter -> Nat]
BY CountFacts DEF Settled, Result, Counter

\* With the same counters as many records are settled.
LEMMA SameCounters ==
  ASSUME counters \in [Counter -> Nat], UNCHANGED counters
  PROVE  /\ Settled \in Nat
         /\ Settled' = Settled
         /\ counters["enqueued"] \in Nat
         /\ counters'["enqueued"] = counters["enqueued"]
         /\ counters' \in [Counter -> Nat]
BY DEF Settled, Result, Counter

\* What a step may change without touching the order of the records: the
\* counters apart, the calls in progress and the writer's place.
SameRecords ==
  /\ UNCHANGED <<records, current, order>>
  /\ Settled' = Settled
  /\ counters'["enqueued"] = counters["enqueued"]

\* The records stay numbered when none moves.
LEMMA KeepsNumbered ==
  ASSUME SameRecords
  PROVE  /\ Numbered => Numbered'
         /\ Accounted => Accounted'
         /\ InFlight' = InFlight
BY DEF SameRecords, Numbered, Accounted, InFlight

\* The marks of flush() stay true when none is added.
LEMMA KeepsMarked ==
  ASSUME SameRecords, UNCHANGED <<flusher, mark>>
  PROVE  Marked => Marked'
BY DEF SameRecords, Marked

\* Without a record in hand only the queue is ahead of the settled ones.
LEMMA InFlightFacts ==
  /\ current = 0 => InFlight = 0
  /\ current # 0 => InFlight = 1
  /\ InFlight \in 0 .. 1
BY DEF InFlight

-----------------------------------------------------------------------------
(* One lemma per thread.                                                   *)

\* emit() refuses a record before it reaches the queue.
LEMMA EmitRefusedInv ==
  ASSUME QueueInv, NEW why \in Refusal, EmitRefused(why)
  PROVE  QueueInv'
<1>. USE DEF QueueInv, EmitRefused, queue, callers
<1>1. /\ Settled' = Settled /\ counters'["enqueued"] = counters["enqueued"]
      /\ counters' \in [Counter -> Nat]
  BY OtherFacts DEF QueueTypeOK, Counter, Refusal, Result
<1>2. SameRecords
  BY <1>1 DEF SameRecords
<1>3. QueueTypeOK'
  BY <1>1 DEF QueueTypeOK
<1>4. Exits' /\ Unfinished'
  BY DEF Exits, Unfinished, InFlight
<1>. QED  BY <1>2, <1>3, <1>4, KeepsNumbered, KeepsMarked

\* emit() counts a record that is too late or too many.
LEMMA EmitDroppedInv ==
  ASSUME QueueInv, Emit, Admission # "enqueued"
  PROVE  QueueInv'
<1>. USE DEF QueueInv, Emit, queue, callers
<1>0. Admission \in Counter \ (Result \cup {"enqueued"})
  BY DEF Admission, Counter, Result
<1>1. /\ Settled' = Settled /\ counters'["enqueued"] = counters["enqueued"]
      /\ counters' \in [Counter -> Nat]
  BY <1>0, OtherFacts DEF QueueTypeOK
<1>2. SameRecords
  BY <1>1 DEF SameRecords
<1>3. QueueTypeOK'
  BY <1>1 DEF QueueTypeOK
<1>4. Exits' /\ Unfinished'
  BY DEF Exits, Unfinished, InFlight
<1>. QED  BY <1>2, <1>3, <1>4, KeepsNumbered, KeepsMarked

\* emit() appends the record with the next number.  The sink is open then, so
\* the writer has not seen the stop event.
LEMMA EmitAcceptedInv ==
  ASSUME QueueInv, Emit, Admission = "enqueued"
  PROVE  QueueInv'
<1>. USE DEF QueueInv, Emit, queue, callers
<1>1. /\ Settled \in Nat
      /\ Settled' = Settled
      /\ counters["enqueued"] \in Nat
      /\ counters'["enqueued"] = counters["enqueued"] + 1
      /\ counters' \in [Counter -> Nat]
  BY EnqueueFacts DEF QueueTypeOK
<1>2. ~closed /\ Len(records) < MaxPendingRecords
  BY SinkAssumption DEF Admission, QueueTypeOK
<1>3. /\ records' = Append(records, counters["enqueued"] + 1)
      /\ Len(records') = Len(records) + 1
      /\ \A k \in 1 .. Len(records) : records'[k] = records[k]
      /\ records'[Len(records) + 1] = counters["enqueued"] + 1
      /\ Len(records) \in Nat
  <2>. DEFINE next == counters["enqueued"] + 1
  <2>1. records \in Seq(Nat) /\ next \in Nat /\ records' = Append(records, next)
    BY <1>1 DEF QueueTypeOK
  <2>. HIDE DEF next
  <2>2. /\ Len(Append(records, next)) = Len(records) + 1
        /\ \A k \in 1 .. Len(records) : Append(records, next)[k] = records[k]
        /\ Append(records, next)[Len(records) + 1] = next
        /\ Len(records) \in Nat
    BY <2>1
  <2>. QED  BY <2>1, <2>2 DEF next
<1>4. InFlight' = InFlight /\ InFlight \in Nat
  BY DEF InFlight
<1>5. QueueTypeOK'
  BY <1>1, <1>2, <1>3, SinkAssumption DEF QueueTypeOK
<1>6. Accounted'
  BY <1>1, <1>3, <1>4 DEF Accounted, QueueTypeOK
<1>7. Exits'
  BY <1>2 DEF Exits
<1>8. Unfinished'
  BY <1>3, <1>4 DEF Unfinished, QueueTypeOK
<1>9. Numbered'
  <2>1. ASSUME NEW k \in 1 .. Len(records')
        PROVE  records'[k] = Settled' + InFlight' + k
    <3>1. CASE k \in 1 .. Len(records)
      BY <1>1, <1>3, <1>4, <3>1 DEF Numbered
    <3>2. CASE k = Len(records) + 1
      BY <1>1, <1>3, <1>4, <3>2 DEF Accounted
    <3>. QED  BY <1>3, <3>1, <3>2
  <2>. QED  BY <1>1, <2>1 DEF Numbered
<1>10. Marked'
  BY <1>1 DEF Marked, QueueTypeOK
<1>. QED  BY <1>5, <1>6, <1>7, <1>8, <1>9, <1>10

\* The writer reads the stop event, the queue, or waits for a record in vain.
LEMMA WorkerLooksInv ==
  ASSUME QueueInv, WorkerTest \/ WorkerGetTimesOut
  PROVE  QueueInv'
<1>. USE DEF QueueInv, WorkerTest, WorkerGetTimesOut, LoopTest, queue,
             callers
<1>1. /\ Settled' = Settled /\ counters'["enqueued"] = counters["enqueued"]
      /\ counters' \in [Counter -> Nat]
  BY SameCounters DEF QueueTypeOK
<1>2. SameRecords
  BY <1>1 DEF SameRecords
<1>3. QueueTypeOK'
  BY <1>1 DEF QueueTypeOK
<1>4. Exits'
  BY DEF Exits
<1>5. Unfinished'
  BY DEF Unfinished, InFlight
<1>. QED  BY <1>2, <1>3, <1>4, <1>5, KeepsNumbered, KeepsMarked

\* The writer takes the record that comes after the settled ones.
LEMMA WorkerGetInv ==
  ASSUME QueueInv, WorkerGet
  PROVE  QueueInv'
<1>. USE DEF QueueInv, WorkerGet, Take, callers
<1>1. /\ Settled \in Nat /\ Settled' = Settled
      /\ counters["enqueued"] \in Nat
      /\ counters'["enqueued"] = counters["enqueued"]
      /\ counters' \in [Counter -> Nat]
  BY SameCounters DEF QueueTypeOK
<1>2. current = 0 /\ InFlight = 0
  BY DEF Exits, InFlight
<1>3. /\ Len(records) \in Nat \ {0}
      /\ current' = records[1] /\ current' \in Nat
      /\ records' \in Seq(Nat)
      /\ Len(records') = Len(records) - 1
      /\ \A k \in 1 .. Len(records') : records'[k] = records[k + 1]
  BY DEF QueueTypeOK
<1>4. current' = Settled + 1 /\ current' # 0 /\ InFlight' = 1
  BY <1>1, <1>2, <1>3 DEF Numbered, InFlight
<1>5. QueueTypeOK'
  BY <1>1, <1>3, SinkAssumption DEF QueueTypeOK
<1>6. Accounted'
  BY <1>1, <1>2, <1>3, <1>4 DEF Accounted
<1>7. Exits'
  BY <1>4 DEF Exits
<1>8. Unfinished'
  BY <1>2, <1>3, <1>4 DEF Unfinished
<1>9. Numbered'
  <2>1. ASSUME NEW k \in 1 .. Len(records')
        PROVE  records'[k] = Settled' + InFlight' + k
    <3>1. k + 1 \in 1 .. Len(records)
      BY <1>3
    <3>. QED  BY <1>1, <1>2, <1>3, <1>4, <3>1 DEF Numbered
  <2>. QED  BY <1>1, <1>4, <2>1 DEF Numbered
<1>10. Marked'
  BY <1>1 DEF Marked
<1>. QED  BY <1>5, <1>6, <1>7, <1>8, <1>9, <1>10

\* The record in hand is settled, and written or lost.
LEMMA WorkerWriteInv ==
  ASSUME QueueInv, NEW outcome \in Result, WorkerWrite(outcome)
  PROVE  QueueInv'
<1>. USE DEF QueueInv, WorkerWrite, Settle, queue, callers
<1>1. /\ Settled \in Nat /\ Settled' = Settled + 1
      /\ counters'["enqueued"] = counters["enqueued"]
      /\ counters' \in [Counter -> Nat]
  BY SettleFacts DEF QueueTypeOK
<1>2. current # 0 /\ current = Settled + 1 /\ InFlight = 1 /\ InFlight' = 0
  BY DEF Exits, Numbered, InFlight
<1>3. QueueTypeOK'
  BY <1>1 DEF QueueTypeOK
<1>4. Accounted'
  BY <1>1, <1>2 DEF Accounted, QueueTypeOK
<1>5. Exits'
  BY DEF Exits
<1>6. Unfinished'
  BY <1>2 DEF Unfinished
<1>7. Numbered'
  <2>1. \A k \in 1 .. Len(records') : records'[k] = Settled' + InFlight' + k
    BY <1>1, <1>2 DEF Numbered, QueueTypeOK
  <2>2. CASE outcome # "written"
    BY <1>1, <2>1, <2>2 DEF Numbered
  <2>3. CASE outcome = "written"
    <3>1. /\ Len(order) \in Nat /\ Len(order') = Len(order) + 1
          /\ \A k \in 1 .. Len(order) : order'[k] = order[k]
          /\ order'[Len(order) + 1] = Settled + 1
      BY <1>2, <2>3 DEF QueueTypeOK
    <3>2. \A k \in 1 .. Len(order') : order'[k] \in 1 .. Settled'
      BY <1>1, <3>1 DEF Numbered
    <3>3. \A m, n \in 1 .. Len(order') : m < n => order'[m] < order'[n]
      BY <1>1, <3>1 DEF Numbered
    <3>. QED  BY <2>1, <3>2, <3>3 DEF Numbered
  <2>. QED  BY <2>2, <2>3
<1>8. Marked'
  BY <1>1 DEF Marked, QueueTypeOK
<1>. QED  BY <1>3, <1>4, <1>5, <1>6, <1>7, <1>8

\* task_done() balances the get() of the record just settled.
LEMMA WorkerTaskDoneInv ==
  ASSUME QueueInv, WorkerTaskDone
  PROVE  QueueInv'
<1>. USE DEF QueueInv, WorkerTaskDone, queue, callers
<1>1. /\ Settled' = Settled /\ counters'["enqueued"] = counters["enqueued"]
      /\ counters' \in [Counter -> Nat]
  BY SameCounters DEF QueueTypeOK
<1>2. SameRecords
  BY <1>1 DEF SameRecords
<1>3. InFlight = 0 /\ InFlight' = 0
  BY DEF Exits, InFlight
<1>4. Unfinished'
  BY <1>3 DEF Unfinished, QueueTypeOK
<1>5. QueueTypeOK'
  BY <1>1, <1>3 DEF QueueTypeOK, Unfinished
<1>6. Exits'
  BY DEF Exits
<1>. QED  BY <1>2, <1>4, <1>5, <1>6, KeepsNumbered, KeepsMarked

\* close() moves no record; it counts a timeout at most.
LEMMA CloseInv ==
  ASSUME QueueInv, NEW c \in Closer,
         CloseBegins(c) \/ CloseReturnsTrue(c) \/ CloseTimesOut(c)
  PROVE  QueueInv'
<1>. USE DEF QueueInv, CloseBegins, CloseReturnsTrue, CloseTimesOut,
             StopWriter, queue
<1>1. /\ Settled' = Settled /\ counters'["enqueued"] = counters["enqueued"]
      /\ counters' \in [Counter -> Nat]
  <2>1. CASE UNCHANGED counters
    BY <2>1, SameCounters DEF QueueTypeOK
  <2>2. CASE Count("shutdown_timeouts")
    BY <2>2, OtherFacts DEF QueueTypeOK, Counter, Result
  <2>. QED  BY <2>1, <2>2
<1>2. SameRecords
  BY <1>1 DEF SameRecords
<1>3. QueueTypeOK'
  BY <1>1 DEF QueueTypeOK
<1>4. Exits'
  BY DEF Exits, QueueTypeOK
<1>5. Unfinished'
  BY DEF Unfinished, InFlight
<1>. QED  BY <1>2, <1>3, <1>4, <1>5, KeepsNumbered, KeepsMarked

\* With no task unfinished every accepted record is settled: what flush() needs.
LEMMA DrainedFacts ==
  ASSUME QueueInv, Drained
  PROVE  counters["enqueued"] = Settled
<1>1. Settled \in Nat /\ counters["enqueued"] \in Nat
  BY SameCounters DEF QueueInv, QueueTypeOK, Settled, Counter, Result
<1>. QED
  BY <1>1, InFlightFacts DEF QueueInv, QueueTypeOK, Drained, Unfinished,
                             Accounted

\* flush() moves no record; it returns True only when everything is settled.
LEMMA FlushInv ==
  ASSUME QueueInv, NEW f \in Flusher,
         FlushBegins(f) \/ FlushReturnsTrue(f) \/ FlushTimesOut(f)
  PROVE  QueueInv'
<1>. USE DEF QueueInv, FlushBegins, FlushReturnsTrue, FlushTimesOut,
             queue
<1>1. /\ Settled' = Settled /\ counters'["enqueued"] = counters["enqueued"]
      /\ counters["enqueued"] \in Nat
      /\ counters' \in [Counter -> Nat]
  BY SameCounters DEF QueueTypeOK
<1>2. SameRecords
  BY <1>1 DEF SameRecords
<1>3. QueueTypeOK'
  BY <1>1 DEF QueueTypeOK
<1>4. Exits' /\ Unfinished'
  BY DEF Exits, Unfinished, InFlight
<1>5. Marked'
  <2>1. ASSUME NEW g \in Flusher \ {f}
        PROVE  mark'[g] = mark[g] /\ flusher'[g] = flusher[g]
    BY DEF QueueTypeOK
  <2>2. CASE FlushBegins(f)
    <3>1. mark'[f] = counters["enqueued"] /\ flusher'[f] = "polling"
      BY <2>2 DEF QueueTypeOK
    <3>. QED  BY <1>1, <2>1, <3>1 DEF Marked
  <2>3. CASE FlushReturnsTrue(f)
    BY <1>1, <2>1, <2>3, DrainedFacts DEF Marked, QueueTypeOK
  <2>4. CASE FlushTimesOut(f)
    BY <1>1, <2>1, <2>4 DEF Marked, QueueTypeOK
  <2>. QED  BY <2>2, <2>3, <2>4
<1>. QED  BY <1>2, <1>3, <1>4, <1>5, KeepsNumbered

-----------------------------------------------------------------------------
(* The theorems.                                                           *)

\* A sink that has just been constructed satisfies the invariant.
LEMMA QueueInit ==
  ASSUME SinkInit
  PROVE  QueueInv
<1>1. /\ records = <<>> /\ order = <<>> /\ <<>> \in Seq(Nat)
      /\ Len(records) = 0 /\ Len(order) = 0
  BY DEF SinkInit
<1>2. Settled = 0 /\ InFlight = 0 /\ counters["enqueued"] = 0
  BY DEF SinkInit, Settled, InFlight, Counter, Result
<1>3. counters \in [Counter -> Nat]
  BY DEF SinkInit
<1>4. QueueTypeOK
  <2>1. records \in Seq(Nat) /\ order \in Seq(Nat) /\ Len(records) <= MaxPendingRecords
    BY <1>1, SinkAssumption
  <2>2. /\ closer \in [Closer -> {"idle", "joining", "true", "false"}]
        /\ flusher \in [Flusher -> {"idle", "polling", "true", "false"}]
        /\ mark \in [Flusher -> Nat]
    BY DEF SinkInit
  <2>3. /\ unfinished \in Nat /\ current \in Nat /\ emits \in Nat
        /\ stop \in BOOLEAN /\ closed \in BOOLEAN /\ worker = "test_stop"
    BY DEF SinkInit
  <2>. QED  BY <1>3, <2>1, <2>2, <2>3 DEF QueueTypeOK
<1>5. Accounted /\ Unfinished
  BY <1>1, <1>2 DEF SinkInit, Accounted, Unfinished
<1>6. Exits
  BY DEF SinkInit, Exits
<1>7. Marked
  BY <1>2 DEF SinkInit, Marked
<1>8. Numbered
  BY <1>1 DEF SinkInit, Numbered
<1>. QED  BY <1>4, <1>5, <1>6, <1>7, <1>8 DEF QueueInv

\* Every step of every thread preserves the invariant.
LEMMA QueueStep ==
  ASSUME QueueInv, [SinkNext]_sinkVars
  PROVE  QueueInv'
<1>1. ASSUME NEW why \in Refusal, EmitRefused(why)  PROVE QueueInv'
  BY <1>1, EmitRefusedInv
<1>2. CASE Emit
  BY <1>2, EmitDroppedInv, EmitAcceptedInv
<1>3. CASE WorkerTest \/ WorkerGetTimesOut
  BY <1>3, WorkerLooksInv
<1>4. CASE WorkerGet
  BY <1>4, WorkerGetInv
<1>5. ASSUME NEW outcome \in Result, WorkerWrite(outcome)  PROVE QueueInv'
  BY <1>5, WorkerWriteInv
<1>6. CASE WorkerTaskDone
  BY <1>6, WorkerTaskDoneInv
<1>7. ASSUME NEW c \in Closer,
             CloseBegins(c) \/ CloseReturnsTrue(c) \/ CloseTimesOut(c)
      PROVE  QueueInv'
  BY <1>7, CloseInv
<1>8. ASSUME NEW f \in Flusher,
             FlushBegins(f) \/ FlushReturnsTrue(f) \/ FlushTimesOut(f)
      PROVE  QueueInv'
  BY <1>8, FlushInv
<1>9. CASE UNCHANGED sinkVars
  BY <1>9 DEF sinkVars, queue, callers, QueueInv, QueueTypeOK, Accounted,
              Exits, Unfinished,
              Numbered, Marked, Settled, InFlight
<1>. QED
  BY <1>1, <1>2, <1>3, <1>4, <1>5, <1>6, <1>7, <1>8, <1>9 DEF SinkNext, Writer

\* QueueInv holds in every reachable state of the sink.
THEOREM QueueInvariance == SinkSpec => []QueueInv
<1>1. SinkInit => QueueInv
  BY QueueInit
<1>2. QueueInv /\ [SinkNext]_sinkVars => QueueInv'
  BY QueueStep
<1>. QED  BY <1>1, <1>2, PTL DEF SinkSpec

\* The queue never exceeds max_pending_records and every variable keeps its type.
THEOREM QueueTypeCorrect == SinkSpec => []QueueTypeOK
<1>1. QueueInv => QueueTypeOK
  BY DEF QueueInv
<1>. QED  BY QueueInvariance, <1>1, PTL

\* Each record emit() accepted is at every moment settled once, held or queued.
THEOREM RecordsAccounted == SinkSpec => []Accounted
<1>1. QueueInv => Accounted
  BY DEF QueueInv
<1>. QED  BY QueueInvariance, <1>1, PTL

\* The writer never exits with an accepted record left behind.
THEOREM NobodyStranded == SinkSpec => []NothingStranded
<1>1. ASSUME QueueInv  PROVE NothingStranded
  <2>. SUFFICES ASSUME worker = "done"
                PROVE  closed /\ records = <<>> /\ counters["enqueued"] = Settled
    BY DEF NothingStranded
  <2>1. closed /\ records = <<>> /\ current = 0
    BY <1>1 DEF QueueInv, Exits
  <2>2. Settled \in Nat
    BY <1>1 DEF QueueInv, QueueTypeOK, Settled, Counter, Result
  <2>3. counters["enqueued"] = Settled
    BY <1>1, <2>1, <2>2, InFlightFacts DEF QueueInv, Accounted
  <2>. QED  BY <2>1, <2>3
<1>. QED  BY QueueInvariance, <1>1, PTL

\* What concatenation does to two sequences of numbers.
LEMMA ConcatFacts ==
  ASSUME NEW s \in Seq(Nat), NEW t \in Seq(Nat)
  PROVE  /\ s \o t \in Seq(Nat)
         /\ Len(s) \in Nat /\ Len(t) \in Nat
         /\ Len(s \o t) = Len(s) + Len(t)
         /\ \A k \in 1 .. Len(s) : (s \o t)[k] = s[k]
         /\ \A k \in 1 .. Len(t) : (s \o t)[Len(s) + k] = t[k]
OBVIOUS

\* The file, the record in hand and the queue are in the order of acceptance.
THEOREM FileStaysInOrder == SinkSpec => []FileInOrder
<1>1. ASSUME QueueInv  PROVE FileInOrder
  <2>. DEFINE hand == IF current = 0 THEN <<>> ELSE <<current>>
              line == order \o hand \o records
  <2>1. /\ order \in Seq(Nat) /\ hand \in Seq(Nat) /\ records \in Seq(Nat)
        /\ Len(hand) = InFlight /\ Settled \in Nat
    BY <1>1 DEF QueueInv, QueueTypeOK, InFlight, Settled, Counter, Result
  <2>2. /\ line \in Seq(Nat)
        /\ Len(line) = Len(order) + InFlight + Len(records)
        /\ \A k \in 1 .. Len(order) : line[k] = order[k]
        /\ current # 0 => line[Len(order) + 1] = current
        /\ \A k \in 1 .. Len(records) : line[Len(order) + InFlight + k] = records[k]
    <3>. DEFINE front == order \o hand
    <3>1. /\ front \in Seq(Nat)
          /\ Len(order) \in Nat /\ Len(records) \in Nat
          /\ Len(front) = Len(order) + InFlight
          /\ \A k \in 1 .. Len(order) : front[k] = order[k]
          /\ \A k \in 1 .. InFlight : front[Len(order) + k] = hand[k]
      BY <2>1, ConcatFacts
    <3>2. current # 0 => InFlight = 1 /\ hand[1] = current
      BY DEF InFlight
    <3>3. line = front \o records
      OBVIOUS
    <3>. HIDE DEF hand, front, line
    <3>4. /\ line \in Seq(Nat)
          /\ Len(line) = Len(front) + Len(records)
          /\ \A k \in 1 .. Len(front) : line[k] = front[k]
          /\ \A k \in 1 .. Len(records) : line[Len(front) + k] = records[k]
      BY <2>1, <3>1, <3>3, ConcatFacts
    <3>5. ASSUME NEW k \in 1 .. Len(order)  PROVE line[k] = order[k]
      <4>1. k \in 1 .. Len(front)
        BY <3>1, InFlightFacts
      <4>. QED  BY <3>1, <3>4, <4>1
    <3>6. ASSUME current # 0  PROVE line[Len(order) + 1] = current
      <4>1. Len(order) + 1 \in 1 .. Len(front)
        BY <3>1, <3>2, <3>6
      <4>. QED  BY <3>1, <3>2, <3>4, <3>6, <4>1
    <3>. QED  BY <3>1, <3>4, <3>5, <3>6
  <2>3. /\ Len(order) \in Nat /\ Len(records) \in Nat /\ Settled \in Nat
        /\ InFlight \in 0 .. 1 /\ Len(line) \in Nat
        /\ current # 0 => InFlight = 1
        /\ current = 0 => InFlight = 0
    BY <2>1, <2>2, InFlightFacts
  <2>. HIDE DEF line, hand
  <2>4. ASSUME NEW n \in 1 .. Len(line), n > Len(order)
        PROVE  line[n] = Settled + (n - Len(order))
    <3>1. CASE current # 0 /\ n = Len(order) + 1
      BY <1>1, <2>2, <2>3, <3>1 DEF QueueInv, Numbered
    <3>2. ASSUME NEW k \in 1 .. Len(records), n = Len(order) + InFlight + k
          PROVE  line[n] = Settled + (n - Len(order))
      <4>1. line[n] = records[k]
        BY <2>2, <3>2
      <4>2. records[k] = Settled + InFlight + k
        BY <1>1 DEF QueueInv, Numbered
      <4>3. InFlight + k = n - Len(order)
        BY <2>3, <3>2
      <4>. QED  BY <2>3, <4>1, <4>2, <4>3
    <3>3. CASE current = 0 \/ n # Len(order) + 1
      <4>. DEFINE k == n - Len(order) - InFlight
      <4>1. n \in Nat /\ n > Len(order) + InFlight
        BY <2>3, <2>4, <3>3
      <4>2. n <= Len(order) + InFlight + Len(records)
        BY <2>2, <2>3
      <4>3. k \in 1 .. Len(records) /\ n = Len(order) + InFlight + k
        BY <2>3, <4>1, <4>2
      <4>. HIDE DEF k
      <4>. QED  BY <3>2, <4>3
    <3>. QED  BY <3>1, <3>3
  <2>5. ASSUME NEW m \in 1 .. Len(line), NEW n \in 1 .. Len(line), m < n
        PROVE  line[m] < line[n]
    <3>1. \A k \in 1 .. Len(order) : line[k] = order[k] /\ order[k] \in 1 .. Settled
      BY <1>1, <2>2 DEF QueueInv, Numbered
    <3>2. CASE n <= Len(order)
      <4>1. m \in 1 .. Len(order) /\ n \in 1 .. Len(order)
        BY <2>3, <2>5, <3>2
      <4>2. order[m] < order[n]
        BY <1>1, <2>5, <4>1 DEF QueueInv, Numbered
      <4>. QED  BY <3>1, <4>1, <4>2
    <3>3. CASE m <= Len(order) /\ n > Len(order)
      <4>1. m \in 1 .. Len(order)
        BY <2>3, <3>3
      <4>2. line[m] \in 1 .. Settled
        BY <3>1, <4>1
      <4>3. line[n] = Settled + (n - Len(order))
        BY <2>4, <3>3
      <4>4. n \in Nat
        BY <2>3
      <4>. QED  BY <2>3, <3>3, <4>2, <4>3, <4>4
    <3>4. CASE m > Len(order)
      <4>1. /\ line[m] = Settled + (m - Len(order))
            /\ line[n] = Settled + (n - Len(order))
        BY <2>3, <2>4, <2>5, <3>4
      <4>. QED  BY <2>3, <2>5, <4>1
    <3>. QED  BY <2>3, <3>2, <3>3, <3>4
  <2>6. DOMAIN line = 1 .. Len(line)
    BY <2>2
  <2>. QED  BY <2>5, <2>6 DEF FileInOrder, line, hand
<1>. QED  BY QueueInvariance, <1>1, PTL

\* When flush() has returned True, all records accepted before it are settled.
THEOREM FlushTellsTheTruth == SinkSpec => []FlushHonest
<1>1. QueueInv => FlushHonest
  BY DEF QueueInv, Marked, FlushHonest
<1>. QED  BY QueueInvariance, <1>1, PTL
=============================================================================
