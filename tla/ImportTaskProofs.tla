-------------------------- MODULE ImportTaskProofs --------------------------
(***************************************************************************)
(* Theorems about the import queue, for any number of workers, uploads and *)
(* lines, and any number of failing calls, crashes and overlapping starts. *)
(***************************************************************************)
EXTENDS ImportTaskProps, FiniteSetTheorems, TLAPS

Classes == {"success", "failed", "skipped"}

(* Counting a line keeps the counters natural numbers, adds one to the     *)
(* total and to one class, and leaves the other two classes alone.         *)
LEMMA CountedFacts ==
    ASSUME NEW c \in Counts, NEW class \in Classes
    PROVE  /\ Counted(c, class) \in Counts
           /\ Counted(c, class).total = c.total + 1
           /\ \A k \in Classes : Counted(c, class)[k] = IF k = class THEN c[k] + 1 ELSE c[k]
<1>1. [c EXCEPT !.total = @ + 1] \in Counts
      BY DEF Counts
<1>2. ASSUME NEW d \in Counts
      PROVE  /\ [d EXCEPT !["success"] = @ + 1] \in Counts
             /\ [d EXCEPT !["failed"] = @ + 1] \in Counts
             /\ [d EXCEPT !["skipped"] = @ + 1] \in Counts
      BY DEF Counts
<1>3. Counted(c, class) = [[c EXCEPT !.total = @ + 1] EXCEPT ![class] = @ + 1]
      BY DEF Counts, Counted, Classes
<1>4. Counted(c, class) \in Counts
      BY <1>1, <1>2, <1>3 DEF Classes
<1>5. Counted(c, class).total = c.total + 1
      BY DEF Counts, Counted, Classes
<1>6. ASSUME NEW k \in Classes
      PROVE  Counted(c, class)[k] = IF k = class THEN c[k] + 1 ELSE c[k]
      BY DEF Counts, Counted, Classes
<1> QED BY <1>4, <1>5, <1>6

(* A file is a sequence of titles and of lines that are no title.          *)
LEMMA FilesAreSequences ==
    ASSUME NEW f \in Files \cup {<<>>}
    PROVE  /\ f \in Seq(Titles \cup {BadLine, BrokenLine})
           /\ Len(f) \in Nat
           /\ DOMAIN f = 1..Len(f)
<1>1. <<>> \in Seq(Titles \cup {BadLine, BrokenLine})
      OBVIOUS
<1>2. f \in Seq(Titles \cup {BadLine, BrokenLine})
      BY <1>1, FilesAssumption
<1> QED BY <1>2

-----------------------------------------------------------------------------
(* Types.  A step's worker is at a place of its own, so the records and    *)
(* functions stay what they are.                                           *)
LEMMA InitTypes == Init => TypeOK
BY BoundsAssumption DEF Init, TypeOK, Statuses, Counts, Zero, Places, Finished

(* Where a worker with a task stands in its file: at a line or behind the  *)
(* last one, inside the file while it creates a document, and at the end   *)
(* of the file exactly when it is going to report success.                 *)
Busy == {"line", "create", "vector", "finish"}

AtWork ==
    \A w \in Workers : place[w] \in Busy =>
        /\ current[w] \in Tasks
        /\ status[current[w]] # "none"
        /\ line[w] \in 1..(Len(Body(w)) + 1)
        /\ place[w] \in {"create", "vector"} => line[w] <= Len(Body(w)) /\ Line(w) \in Titles
        /\ place[w] = "finish" => (verdict[w] = "succeeded" <=> line[w] = Len(Body(w)) + 1)

LEMMA NextLineTypes ==
    ASSUME TypeOK, NEW w \in Workers, NEW class \in Classes, NextLine(w, class)
    PROVE  /\ place' = [place EXCEPT ![w] = "line"] /\ place' \in [Workers -> Places]
           /\ line' \in [Workers -> Nat]
           /\ count' \in [Workers -> Counts]
BY CountedFacts DEF TypeOK, NextLine, Goto, Places

LEMMA FaultTypes == TypeOK /\ Fault => faults' \in 0..MaxFaults
BY BoundsAssumption DEF TypeOK, Fault

LEMMA StepTypes == TypeOK /\ AtWork /\ [Next]_vars => TypeOK'
<1> SUFFICES ASSUME TypeOK, AtWork, [Next]_vars PROVE TypeOK'
    OBVIOUS
<1> USE BoundsAssumption DEF tables, kb, worker, bounds
<1>1. ASSUME NEW t \in Tasks, NEW f \in Files, Upload(t, f), UNCHANGED overlaps PROVE TypeOK'
      BY <1>1 DEF Upload, TypeOK, Statuses
<1>2. ASSUME NEW title \in Titles, KBInsert(title), UNCHANGED overlaps PROVE TypeOK'
      BY <1>2 DEF KBInsert, TypeOK
<1>3. ASSUME NEW title \in Titles, KBVector(title), UNCHANGED overlaps PROVE TypeOK'
      BY <1>3, FaultTypes DEF KBVector, TypeOK, Fault
<1>4. ASSUME NEW w \in Workers, Started(w), overlaps' \in 0..MaxOverlap PROVE TypeOK'
      BY <1>4 DEF Started, Goto, TypeOK, Places
<1>5. ASSUME NEW w \in Workers, Recover(w), UNCHANGED overlaps PROVE TypeOK'
      BY <1>5, FaultTypes DEF Recover, LeftOver, Goto, TypeOK, Places, Statuses, Fault
<1>6. ASSUME NEW w \in Workers, Claim(w), UNCHANGED overlaps PROVE TypeOK'
  <2>1. PICK t \in Tasks : status' = [status EXCEPT ![t] = "processing"] /\ current' = [current EXCEPT ![w] = t]
        BY <1>6 DEF Claim, Pending
  <2>2. Zero \in Counts
        BY DEF Zero, Counts
  <2>3. line' = [line EXCEPT ![w] = 1] /\ count' = [count EXCEPT ![w] = Zero] /\ place' = [place EXCEPT ![w] = "line"]
        BY <1>6 DEF Claim, Goto
  <2>4. status' \in [Tasks -> Statuses]
        BY <2>1 DEF TypeOK, Statuses
  <2>5. place' \in [Workers -> Places]
        BY <2>3 DEF TypeOK, Places
  <2>6. UNCHANGED <<file, stored, docs, vecs, others, verdict, faults, crashes, created>>
        BY <1>6 DEF Claim
  <2> QED BY <1>6, <2>1, <2>2, <2>3, <2>4, <2>5, <2>6 DEF TypeOK
<1>7. ASSUME NEW w \in Workers, EndOfFile(w) \/ ParseError(w), UNCHANGED overlaps PROVE TypeOK'
      BY <1>7 DEF EndOfFile, ParseError, BrokenVerdict, Finish, Goto, TypeOK, Places, Finished
<1>8. ASSUME NEW w \in Workers, InvalidLine(w), UNCHANGED overlaps PROVE TypeOK'
      BY <1>8, CountedFacts DEF InvalidLine, BadCounted, TypeOK, Classes
<1>9. ASSUME NEW w \in Workers, LookUp(w), UNCHANGED overlaps PROVE TypeOK'
  <2>1. CASE NextLine(w, "skipped") /\ UNCHANGED bounds
        BY <1>9, <2>1, NextLineTypes DEF LookUp, TypeOK, Classes
  <2>2. CASE Goto(w, "create") /\ UNCHANGED <<count, line, bounds>>
        BY <1>9, <2>2 DEF LookUp, Goto, TypeOK, Places
  <2>3. CASE NextLine(w, LookupErrorClass) /\ Fault
        BY <1>9, <2>3, NextLineTypes, FaultTypes DEF LookUp, LookupErrorClass, TypeOK, Classes, Fault
  <2> QED BY <1>9, <2>1, <2>2, <2>3 DEF LookUp
<1>10. ASSUME NEW w \in Workers, Create(w), UNCHANGED overlaps PROVE TypeOK'
  <2>1. Line(w) \in Titles
        BY <1>10 DEF Create, AtWork, Busy
  <2>2. CASE Goto(w, "vector") /\ UNCHANGED <<count, line, bounds>> /\ docs' = docs \cup {Line(w)}
        BY <1>10, <2>1, <2>2 DEF Create, Goto, TypeOK, Places
  <2>3. CASE NextLine(w, "failed") /\ UNCHANGED <<docs, bounds>>
        BY <1>10, <2>3, NextLineTypes DEF Create, TypeOK, Classes
  <2>4. CASE NextLine(w, "failed") /\ Fault /\ docs' \in {docs, docs \cup {Line(w)}}
        BY <1>10, <2>1, <2>4, NextLineTypes, FaultTypes DEF Create, TypeOK, Classes, Fault
  <2> QED BY <1>10, <2>2, <2>3, <2>4 DEF Create
<1>11. ASSUME NEW w \in Workers, Vector(w), UNCHANGED overlaps PROVE TypeOK'
  <2>1. Line(w) \in Titles
        BY <1>11 DEF Vector, AtWork, Busy
  <2>2. CASE vecs' = WithVector(Line(w)) /\ NextLine(w, "success") /\ UNCHANGED bounds
        BY <1>11, <2>1, <2>2, NextLineTypes DEF Vector, WithVector, TypeOK, Classes
  <2>3. CASE UNCHANGED vecs /\ NextLine(w, VectorErrorClass) /\ Fault
        BY <1>11, <2>3, NextLineTypes, FaultTypes DEF Vector, VectorErrorClass, TypeOK, Classes, Fault
  <2> QED BY <1>11, <2>2, <2>3 DEF Vector
<1>12. ASSUME NEW w \in Workers, WriteBack(w), UNCHANGED overlaps PROVE TypeOK'
  <2>1. faults' \in 0..MaxFaults /\ UNCHANGED <<crashes, created>>
        BY <1>12, FaultTypes DEF WriteBack, Fault, TypeOK
  <2>2. status' \in [Tasks -> Statuses] /\ stored' \in [Tasks -> Counts]
        BY <1>12 DEF WriteBack, TypeOK, Statuses, Finished
  <2>3. place' \in [Workers -> Places] /\ current' \in [Workers -> Tasks \cup {NoTask}]
        BY <1>12 DEF WriteBack, Goto, TypeOK, Places
  <2> QED BY <1>12, <2>1, <2>2, <2>3 DEF WriteBack, TypeOK
<1>13. ASSUME NEW w \in Workers, Crash(w), UNCHANGED overlaps PROVE TypeOK'
      BY <1>13 DEF Crash, Goto, TypeOK, Places
<1>14. ASSUME NEW w \in Workers, StartBeside(w) PROVE TypeOK'
  <2>1. overlaps' \in 0..MaxOverlap
        BY <1>14 DEF StartBeside, TypeOK
  <2> QED BY <1>4, <1>14, <2>1 DEF StartBeside
<1>15. ASSUME NEW w \in Workers, Start(w), UNCHANGED overlaps PROVE TypeOK'
      BY <1>4, <1>15 DEF Start, TypeOK
<1>16. CASE UNCHANGED vars
      BY <1>16 DEF TypeOK, vars
<1> QED BY <1>1, <1>2, <1>3, <1>5, <1>6, <1>7, <1>8, <1>9, <1>10, <1>11, <1>12, <1>13,
           <1>14, <1>15, <1>16
        DEF Next, Others, Run, Process

-----------------------------------------------------------------------------
(* What a step may do to a row and to a worker, and what it never takes    *)
(* back.                                                                   *)
Grows ==
    /\ docs \subseteq docs' /\ vecs \subseteq vecs'
    /\ \A t \in Tasks : status[t] # "none" => status'[t] # "none" /\ file'[t] = file[t]

RowMoves(t) ==
    \/ /\ status'[t] = status[t] /\ stored'[t] = stored[t] /\ file'[t] = file[t]
    \/ /\ status[t] = "none" /\ status'[t] = "pending" /\ stored'[t] = stored[t]
    \/ /\ status[t] # "none" /\ status'[t] \in {"pending", "processing"}
       /\ stored'[t] = stored[t] /\ file'[t] = file[t]
    \/ \E w \in Workers :
          /\ place[w] = "finish" /\ current[w] = t
          /\ status'[t] = verdict[w] /\ stored'[t] = count[w] /\ file'[t] = file[t]

Stays(w) ==
    /\ place'[w] = place[w] /\ current'[w] = current[w] /\ line'[w] = line[w]
    /\ count'[w] = count[w] /\ verdict'[w] = verdict[w]

Claims(w) ==
    /\ place'[w] = "line" /\ current'[w] \in Tasks /\ status'[current'[w]] = "processing"
    /\ line'[w] = 1 /\ count'[w] = Zero

(* The worker stays at its line, or leaves the file.                       *)
Turns(w) ==
    /\ current'[w] = current[w] /\ line'[w] = line[w] /\ count'[w] = count[w]
    /\ \/ /\ place[w] = "line" /\ place'[w] = "create"
          /\ line[w] <= Len(Body(w)) /\ Line(w) \in Titles
       \/ /\ place[w] = "create" /\ place'[w] = "vector"
          /\ Line(w) \notin docs /\ Line(w) \in docs'
       \/ /\ place[w] = "line" /\ place'[w] = "finish"
          /\ verdict'[w] = "succeeded" <=> line[w] > Len(Body(w))

Passes(w, class) ==
    /\ place[w] \in {"line", "create", "vector"} /\ place'[w] = "line"
    /\ line[w] <= Len(Body(w))
    /\ current'[w] = current[w] /\ line'[w] = line[w] + 1
    /\ count'[w] = Counted(count[w], class)
    /\ class = "skipped" => Line(w) \in docs
    /\ class = "success" => place[w] = "vector" /\ Line(w) \in vecs'

WorkerMoves(w) ==
    \/ Stays(w) \/ place'[w] \notin Busy \/ Claims(w) \/ Turns(w)
    \/ \E class \in Classes : Passes(w, class)

(* Documents and vectors stay, and so does the file of an uploaded task.   *)
LEMMA StepGrows == TypeOK /\ AtWork /\ [Next]_vars => Grows
<1> SUFFICES ASSUME TypeOK, AtWork, [Next]_vars PROVE Grows
    OBVIOUS
<1> USE DEF tables, kb, worker, bounds, Grows, TypeOK, Fault
<1>1. ASSUME NEW t \in Tasks, NEW f \in Files, Upload(t, f) PROVE Grows
      BY <1>1 DEF Upload
<1>2. ASSUME NEW title \in Titles, KBInsert(title) \/ KBVector(title) PROVE Grows
      BY <1>2 DEF KBInsert, KBVector
<1>3. ASSUME NEW w \in Workers, Start(w) \/ StartBeside(w) \/ Recover(w) \/ Claim(w) \/ Crash(w)
      PROVE  Grows
      BY <1>3 DEF Start, StartBeside, Started, Recover, Claim, Crash
<1>4. ASSUME NEW w \in Workers, EndOfFile(w) \/ ParseError(w) \/ InvalidLine(w) \/ LookUp(w)
      PROVE  Grows
      BY <1>4 DEF EndOfFile, ParseError, InvalidLine, LookUp
<1>5. ASSUME NEW w \in Workers, Create(w) \/ Vector(w) PROVE Grows
      BY <1>5 DEF Create, Vector, WithVector
<1>6. ASSUME NEW w \in Workers, WriteBack(w) PROVE Grows
      BY <1>6 DEF WriteBack, Finished
<1>7. CASE UNCHANGED vars
      BY <1>7 DEF vars
<1> QED BY <1>1, <1>2, <1>3, <1>4, <1>5, <1>6, <1>7 DEF Next, Others, Run, Process

(* A row is uploaded, taken up or put back, or written by a worker at its  *)
(* end.                                                                    *)
LEMMA StepMovesRows ==
    ASSUME TypeOK, AtWork, [Next]_vars, NEW t \in Tasks
    PROVE  RowMoves(t)
<1> USE DEF tables, kb, worker, bounds, RowMoves, TypeOK, Fault
<1>1. ASSUME NEW u \in Tasks, NEW f \in Files, Upload(u, f) PROVE RowMoves(t)
      BY <1>1 DEF Upload
<1>2. ASSUME NEW title \in Titles, KBInsert(title) \/ KBVector(title) PROVE RowMoves(t)
      BY <1>2 DEF KBInsert, KBVector
<1>3. ASSUME NEW w \in Workers, Start(w) \/ StartBeside(w) \/ Crash(w) PROVE RowMoves(t)
      BY <1>3 DEF Start, StartBeside, Started, Crash
<1>4. ASSUME NEW w \in Workers, Recover(w) PROVE RowMoves(t)
      BY <1>4 DEF Recover, LeftOver
<1>5. ASSUME NEW w \in Workers, Claim(w) PROVE RowMoves(t)
      BY <1>5 DEF Claim, Pending
<1>6. ASSUME NEW w \in Workers,
             EndOfFile(w) \/ ParseError(w) \/ InvalidLine(w) \/ LookUp(w) \/ Create(w) \/ Vector(w)
      PROVE  RowMoves(t)
      BY <1>6 DEF EndOfFile, ParseError, InvalidLine, LookUp, Create, Vector
<1>7. ASSUME NEW w \in Workers, WriteBack(w) PROVE RowMoves(t)
  <2>1. CASE UNCHANGED <<status, stored>>
        BY <1>7, <2>1 DEF WriteBack
  <2>2. CASE /\ status' = [status EXCEPT ![current[w]] = verdict[w]]
             /\ stored' = [stored EXCEPT ![current[w]] = count[w]]
        BY <1>7, <2>2 DEF WriteBack
  <2> QED BY <1>7, <2>1, <2>2 DEF WriteBack
<1>8. CASE UNCHANGED vars
      BY <1>8 DEF vars
<1> QED BY <1>1, <1>2, <1>3, <1>4, <1>5, <1>6, <1>7, <1>8 DEF Next, Others, Run, Process

(* A worker's step moves this worker and no other.                         *)
LEMMA StepMovesWorkers ==
    ASSUME TypeOK, AtWork, [Next]_vars, NEW v \in Workers
    PROVE  WorkerMoves(v)
<1> USE DEF tables, kb, worker, bounds, WorkerMoves, Stays, TypeOK, Fault, Goto
<1>1. ASSUME NEW u \in Tasks, NEW f \in Files, Upload(u, f) PROVE WorkerMoves(v)
      BY <1>1 DEF Upload
<1>2. ASSUME NEW title \in Titles, KBInsert(title) \/ KBVector(title) PROVE WorkerMoves(v)
      BY <1>2 DEF KBInsert, KBVector
<1>3. ASSUME NEW w \in Workers, Start(w) \/ StartBeside(w) \/ Recover(w) \/ Crash(w) \/ WriteBack(w)
      PROVE  WorkerMoves(v)
      BY <1>3 DEF Start, StartBeside, Started, Recover, Crash, WriteBack, Busy
<1>4. ASSUME NEW w \in Workers, Claim(w) PROVE WorkerMoves(v)
      BY <1>4 DEF Claim, Pending, Claims
<1>5. ASSUME NEW w \in Workers, EndOfFile(w) \/ ParseError(w) PROVE WorkerMoves(v)
      BY <1>5, FilesAreSequences DEF EndOfFile, ParseError, BrokenVerdict, Finish, Turns, AtWork, Busy, Body
<1>6. ASSUME NEW w \in Workers, NEW class \in Classes, NextLine(w, class),
             place[w] \in {"line", "create", "vector"}, line[w] <= Len(Body(w)),
             class = "skipped" => Line(w) \in docs,
             class = "success" => place[w] = "vector" /\ Line(w) \in vecs',
             UNCHANGED <<current, verdict>>
      PROVE  WorkerMoves(v)
      BY <1>6 DEF NextLine, Passes
<1>7. ASSUME NEW w \in Workers, InvalidLine(w) PROVE WorkerMoves(v)
  <2>1. NextLine(w, "failed")
        BY <1>7 DEF InvalidLine, BadCounted, NextLine
  <2> QED BY <1>6, <1>7, <2>1 DEF InvalidLine, Classes
<1>8. ASSUME NEW w \in Workers, LookUp(w) PROVE WorkerMoves(v)
  <2>1. CASE Goto(w, "create") /\ UNCHANGED <<count, line, bounds>>
        BY <1>8, <2>1 DEF LookUp, Turns
  <2>2. CASE NextLine(w, "skipped") /\ Line(w) \in docs
        BY <1>6, <1>8, <2>2 DEF LookUp, Classes
  <2>3. CASE NextLine(w, "failed")
        BY <1>6, <1>8, <2>3 DEF LookUp, Classes
  <2> QED BY <1>8, <2>1, <2>2, <2>3 DEF LookUp, LookupErrorClass
<1>9. ASSUME NEW w \in Workers, Create(w) PROVE WorkerMoves(v)
  <2>1. line[w] <= Len(Body(w))
        BY <1>9 DEF Create, AtWork, Busy
  <2>2. CASE Line(w) \notin docs /\ docs' = docs \cup {Line(w)} /\ Goto(w, "vector")
             /\ UNCHANGED <<count, line, bounds>>
        BY <1>9, <2>2 DEF Create, Turns
  <2>3. CASE NextLine(w, "failed")
        BY <1>6, <1>9, <2>1, <2>3 DEF Create, Classes
  <2> QED BY <1>9, <2>2, <2>3 DEF Create
<1>10. ASSUME NEW w \in Workers, Vector(w) PROVE WorkerMoves(v)
  <2>1. line[w] <= Len(Body(w))
        BY <1>10 DEF Vector, AtWork, Busy
  <2>2. CASE NextLine(w, "success") /\ Line(w) \in vecs'
        BY <1>6, <1>10, <2>1, <2>2 DEF Vector, Classes
  <2>3. CASE NextLine(w, "failed")
        BY <1>6, <1>10, <2>1, <2>3 DEF Vector, Classes
  <2> QED BY <1>10, <2>2, <2>3 DEF Vector, VectorErrorClass, WithVector
<1>11. CASE UNCHANGED vars
      BY <1>11 DEF vars
<1> QED BY <1>1, <1>2, <1>3, <1>4, <1>5, <1>7, <1>8, <1>9, <1>10, <1>11
        DEF Next, Others, Run, Process

-----------------------------------------------------------------------------
(* A worker stays inside the file it took up.                              *)
TypeInv == TypeOK /\ AtWork

LEMMA BodyKept ==
    ASSUME TypeInv, Grows, NEW w \in Workers, place[w] \in Busy, current'[w] = current[w]
    PROVE  Body(w)' = Body(w) /\ Body(w) = file[current[w]] /\ Len(Body(w)) \in Nat
           /\ current[w] \in Tasks /\ status'[current[w]] # "none" /\ line[w] \in Nat
<1>1. current[w] \in Tasks /\ status[current[w]] # "none"
      BY DEF TypeInv, AtWork
<1>2. Len(file[current[w]]) \in Nat
      BY <1>1, FilesAreSequences DEF TypeInv, TypeOK
<1> QED BY <1>1, <1>2 DEF Body, Grows, TypeInv, TypeOK

LEMMA InitAtWork == Init => AtWork
BY DEF Init, AtWork, Busy

LEMMA StepAtWork == TypeInv /\ [Next]_vars => AtWork'
<1> SUFFICES ASSUME TypeInv, [Next]_vars, NEW w \in Workers, (place[w] \in Busy)'
             PROVE  (/\ current[w] \in Tasks
                     /\ status[current[w]] # "none"
                     /\ line[w] \in 1..(Len(Body(w)) + 1)
                     /\ place[w] \in {"create", "vector"} => line[w] <= Len(Body(w)) /\ Line(w) \in Titles
                     /\ place[w] = "finish" => (verdict[w] = "succeeded" <=> line[w] = Len(Body(w)) + 1))'
    BY DEF AtWork
<1> USE DEF Busy, Line
<1>1. TypeOK /\ AtWork /\ TypeOK' /\ Grows /\ WorkerMoves(w)
      BY StepTypes, StepGrows, StepMovesWorkers DEF TypeInv
<1>2. CASE Stays(w)
      BY <1>1, <1>2, BodyKept DEF Stays, AtWork
<1>3. CASE Claims(w)
  <2>1. Len(file'[current'[w]]) \in Nat
        BY <1>1, <1>3, FilesAreSequences DEF Claims, TypeOK
  <2> QED BY <1>3, <2>1 DEF Claims, Body
<1>4. CASE Turns(w)
      BY <1>1, <1>4, BodyKept DEF Turns, AtWork
<1>5. ASSUME NEW class \in Classes, Passes(w, class)
      PROVE  (/\ current[w] \in Tasks
              /\ status[current[w]] # "none"
              /\ line[w] \in 1..(Len(Body(w)) + 1)
              /\ place[w] = "line")'
      BY <1>1, <1>5, BodyKept DEF Passes, AtWork
<1> QED BY <1>1, <1>2, <1>3, <1>4, <1>5 DEF WorkerMoves

(* The types are right, and a worker stays at the lines of an uploaded     *)
(* file (ImportTask), whatever the other workers do.                       *)
THEOREM TypeCorrect == Spec => []TypeInv
<1>1. Init => TypeInv
      BY InitTypes, InitAtWork DEF TypeInv
<1>2. TypeInv /\ [Next]_vars => TypeInv'
      BY StepTypes, StepAtWork DEF TypeInv
<1> QED BY <1>1, <1>2, PTL DEF Spec

-----------------------------------------------------------------------------
(* The counters.  While a worker is at line n it has counted n - 1 lines,  *)
(* each in one class; that is what makes the row it writes add up.         *)
Sums(c) == c.total = c.success + c.failed + c.skipped

Counting ==
    \A w \in Workers : place[w] \in Busy =>
        Sums(count[w]) /\ count[w].total = line[w] - 1

BalanceInv == Counting /\ CountersBalance

LEMMA CountedSums ==
    ASSUME NEW c \in Counts, NEW class \in Classes, Sums(c)
    PROVE  Sums(Counted(c, class))
<1>1. /\ c.total \in Nat /\ c["success"] \in Nat /\ c["failed"] \in Nat /\ c["skipped"] \in Nat
      /\ c.success = c["success"] /\ c.failed = c["failed"] /\ c.skipped = c["skipped"]
      BY DEF Counts
<1>2. LET d == Counted(c, class) IN
      d.success = d["success"] /\ d.failed = d["failed"] /\ d.skipped = d["skipped"]
      BY CountedFacts DEF Counts
<1> QED BY <1>1, <1>2, CountedFacts DEF Sums, Classes

LEMMA StepCounting == TypeInv /\ Counting /\ [Next]_vars => Counting'
<1> SUFFICES ASSUME TypeInv, Counting, [Next]_vars, NEW w \in Workers, (place[w] \in Busy)'
             PROVE  (Sums(count[w]) /\ count[w].total = line[w] - 1)'
    BY DEF Counting
<1>1. TypeOK /\ WorkerMoves(w)
      BY StepMovesWorkers DEF TypeInv
<1>2. CASE Stays(w)
      BY <1>2 DEF Stays, Counting
<1>3. CASE Claims(w)
      BY <1>3 DEF Claims, Sums, Zero
<1>4. CASE Turns(w)
      BY <1>4 DEF Turns, Counting, Busy
<1>5. ASSUME NEW class \in Classes, Passes(w, class)
      PROVE  (Sums(count[w]) /\ count[w].total = line[w] - 1)'
  <2>1. count[w] \in Counts /\ Sums(count[w]) /\ count[w].total = line[w] - 1 /\ line[w] \in Nat
        BY <1>1, <1>5 DEF Passes, Counting, Busy, TypeOK
  <2>2. count[w].total \in Nat
        BY <2>1 DEF Counts
  <2> QED BY <1>5, <2>1, <2>2, CountedSums, CountedFacts DEF Passes
<1> QED BY <1>1, <1>2, <1>3, <1>4, <1>5 DEF WorkerMoves

LEMMA StepBalance == TypeInv /\ BalanceInv /\ [Next]_vars => CountersBalance'
<1> DEFINE Balanced(t) == status[t] \in Finished =>
               /\ Sums(stored[t])
               /\ IF status[t] = "succeeded" THEN stored[t].total = Len(file[t])
                                             ELSE stored[t].total < Len(file[t])
<1> SUFFICES ASSUME TypeInv, BalanceInv, [Next]_vars, NEW t \in Tasks PROVE Balanced(t)'
    BY DEF CountersBalance, Sums
<1>1. TypeOK /\ AtWork /\ Grows /\ RowMoves(t) /\ Balanced(t)
      BY StepGrows, StepMovesRows DEF TypeInv, BalanceInv, CountersBalance, Sums
<1>2. CASE status'[t] = status[t] /\ stored'[t] = stored[t] /\ file'[t] = file[t]
      BY <1>1, <1>2
<1>3. CASE status'[t] \in {"pending", "processing"}
      BY <1>3 DEF Finished
<1>4. ASSUME NEW w \in Workers, place[w] = "finish", current[w] = t,
             status'[t] = verdict[w], stored'[t] = count[w], file'[t] = file[t]
      PROVE  Balanced(t)'
  <2>1. Sums(count[w]) /\ count[w].total = line[w] - 1
        BY <1>4 DEF BalanceInv, Counting, Busy
  <2>2. line[w] \in 1..(Len(file[t]) + 1) /\ (verdict[w] = "succeeded" <=> line[w] = Len(file[t]) + 1)
        BY <1>1, <1>4 DEF AtWork, Body, Busy
  <2>3. Len(file[t]) \in Nat
        BY <1>1, FilesAreSequences DEF TypeOK
  <2> QED BY <1>4, <2>1, <2>2, <2>3
<1> QED BY <1>1, <1>2, <1>3, <1>4 DEF RowMoves

(* The counters of a finished task add up to its lines (CountersBalance,   *)
(* finishImportTask after processTask), however many workers had it.       *)
THEOREM CountersAlwaysBalance == Spec => []CountersBalance
<1>1. Init => BalanceInv
      BY DEF Init, BalanceInv, Counting, CountersBalance, Busy, Finished
<1>2. TypeInv /\ BalanceInv /\ [Next]_vars => BalanceInv'
      BY StepCounting, StepBalance DEF BalanceInv
<1>3. BalanceInv => CountersBalance
      BY DEF BalanceInv
<1> QED BY <1>1, <1>2, <1>3, TypeCorrect, PTL DEF Spec

-----------------------------------------------------------------------------
(* Who embeds a document.  A document without a vector is waited for by    *)
(* the kb_create tool or by the one worker that inserted it, never by two; *)
(* so a vector is stored once, and no line counts another one's success.   *)
OneEmbedder ==
    /\ vecs \subseteq docs /\ others \subseteq docs /\ others \cap vecs = {}
    /\ \A w \in Workers : place[w] = "vector" =>
          Line(w) \in docs /\ Line(w) \notin vecs /\ Line(w) \notin others
    /\ \A v, w \in Workers :
          place[v] = "vector" /\ place[w] = "vector" /\ Line(v) = Line(w) => v = w

LEMMA AtVector ==
    ASSUME TypeInv, [Next]_vars, NEW w \in Workers, place'[w] = "vector"
    PROVE  /\ Line(w)' = Line(w)
           /\ \/ place[w] = "vector"
              \/ place[w] = "create" /\ Line(w) \notin docs /\ Line(w) \in docs'
<1>1. TypeOK /\ Grows /\ WorkerMoves(w)
      BY StepGrows, StepMovesWorkers DEF TypeInv
<1>2. /\ current'[w] = current[w] /\ line'[w] = line[w]
      /\ \/ place[w] = "vector"
         \/ place[w] = "create" /\ Line(w) \notin docs /\ Line(w) \in docs'
      BY <1>1 DEF WorkerMoves, Stays, Busy, Claims, Turns, Passes
<1>3. Body(w)' = Body(w)
      BY <1>1, <1>2, BodyKept DEF Busy
<1> QED BY <1>2, <1>3 DEF Line

(* Only the worker that creates a document comes to its vector.            *)
LEMMA StepOneEmbedder == TypeInv /\ OneEmbedder /\ [Next]_vars => OneEmbedder'
<1> SUFFICES ASSUME TypeInv, OneEmbedder, [Next]_vars PROVE OneEmbedder'
    OBVIOUS
<1> USE DEF tables, kb, worker, bounds
<1>a. ASSUME UNCHANGED kb
      PROVE  OneEmbedder'
  <2>1. ASSUME NEW w \in Workers, place'[w] = "vector"
        PROVE  place[w] = "vector" /\ Line(w)' = Line(w)
        BY <1>a, <2>1, AtVector
  <2> QED BY <1>a, <2>1 DEF OneEmbedder
<1>1. ASSUME NEW t \in Tasks, NEW f \in Files, Upload(t, f) PROVE OneEmbedder'
      BY <1>1, <1>a DEF Upload
<1>2. ASSUME NEW title \in Titles, KBInsert(title) PROVE OneEmbedder'
  <2>1. ASSUME NEW w \in Workers, place'[w] = "vector"
        PROVE  place[w] = "vector" /\ Line(w)' = Line(w)
        BY <1>2, <2>1, AtVector DEF KBInsert
  <2> QED BY <1>2, <2>1 DEF OneEmbedder, KBInsert
<1>3. ASSUME NEW title \in Titles, KBVector(title) PROVE OneEmbedder'
  <2>1. ASSUME NEW w \in Workers, place'[w] = "vector"
        PROVE  place[w] = "vector" /\ Line(w)' = Line(w)
        BY <1>3, <2>1, AtVector DEF KBVector
  <2> QED BY <1>3, <2>1 DEF OneEmbedder, KBVector
<1>4. ASSUME NEW w \in Workers,
             \/ Start(w) \/ StartBeside(w) \/ Recover(w) \/ Claim(w) \/ Crash(w)
             \/ EndOfFile(w) \/ ParseError(w) \/ InvalidLine(w) \/ LookUp(w) \/ WriteBack(w)
      PROVE  OneEmbedder'
      BY <1>4, <1>a DEF Start, StartBeside, Started, Recover, Claim, Crash,
                        EndOfFile, ParseError, InvalidLine, LookUp, WriteBack
<1>5. ASSUME NEW w \in Workers, Create(w) PROVE OneEmbedder'
  <2>1. ASSUME NEW v \in Workers, place'[v] = "vector"
        PROVE  /\ Line(v)' = Line(v)
               /\ place[v] = "vector" \/ (v = w /\ Line(v) \notin docs /\ Line(v) \in docs')
    <3>1. place[w] = "create" /\ (v # w => place'[v] = place[v])
          BY <1>5, StepMovesWorkers DEF Create, NextLine, Goto, TypeInv, TypeOK
    <3> QED BY <2>1, <3>1, AtVector
  <2>2. vecs' = vecs /\ others' = others /\ docs \subseteq docs'
        BY <1>5 DEF Create
  <2> QED BY <2>1, <2>2 DEF OneEmbedder
<1>6. ASSUME NEW w \in Workers, Vector(w) PROVE OneEmbedder'
  <2>1. ASSUME NEW v \in Workers, place'[v] = "vector"
        PROVE  Line(v)' = Line(v) /\ place[v] = "vector" /\ v # w
    <3>1. v # w
          BY <1>6, <2>1 DEF Vector, NextLine, Goto, TypeInv, TypeOK
    <3>2. place'[v] = place[v]
          BY <1>6, <3>1 DEF Vector, NextLine, Goto, TypeInv, TypeOK
    <3> QED BY <2>1, <3>1, <3>2, AtVector
  <2>2. docs' = docs /\ others' = others /\ vecs' \in {vecs, vecs \cup {Line(w)}} /\ place[w] = "vector"
        BY <1>6 DEF Vector, WithVector
  <2> QED BY <2>1, <2>2 DEF OneEmbedder
<1>7. CASE UNCHANGED vars
      BY <1>7, <1>a DEF vars
<1> QED BY <1>1, <1>2, <1>3, <1>4, <1>5, <1>6, <1>7 DEF Next, Others, Run, Process

(* No document is embedded twice, by whichever of the workers and tools    *)
(* (CreateDocument, afterCreatedCobDocument).                              *)
THEOREM EmbeddedByOne == Spec => []OneEmbedder
<1>1. Init => OneEmbedder
      BY DEF Init, OneEmbedder
<1> QED BY <1>1, StepOneEmbedder, TypeCorrect, PTL DEF Spec

-----------------------------------------------------------------------------
(* The lines that have no document.  Among the lines a worker has counted  *)
(* there are no more of them than it counted as failures: an imported or   *)
(* skipped line has its document, and documents stay.                      *)
Lost(f, n, d) == {i \in 1..n : f[i] \notin d}

LostCounted ==
    \A w \in Workers : place[w] \in Busy =>
        Cardinality(Lost(Body(w), line[w] - 1, docs)) <= count[w].failed

LostInv == LostCounted /\ NoLineLost

LEMMA LostIsFinite ==
    ASSUME NEW f, NEW n \in Nat, NEW d
    PROVE  IsFiniteSet(Lost(f, n, d)) /\ Cardinality(Lost(f, n, d)) \in Nat
<1>1. IsFiniteSet(1..n)
      BY FS_Interval
<1>2. IsFiniteSet(Lost(f, n, d))
      BY <1>1, FS_Subset DEF Lost
<1> QED BY <1>2, FS_CardinalityType

(* More documents, fewer lost lines.                                       *)
LEMMA LostShrinks ==
    ASSUME NEW f, NEW n \in Nat, NEW d, NEW e, d \subseteq e
    PROVE  Cardinality(Lost(f, n, e)) <= Cardinality(Lost(f, n, d))
<1>1. Lost(f, n, e) \in SUBSET Lost(f, n, d)
      BY DEF Lost
<1> QED BY <1>1, LostIsFinite, FS_Subset

LEMMA LostNext ==
    ASSUME NEW f, NEW n \in Nat, NEW d
    PROVE  /\ Cardinality(Lost(f, n + 1, d)) <= Cardinality(Lost(f, n, d)) + 1
           /\ f[n + 1] \in d => Lost(f, n + 1, d) = Lost(f, n, d)
<1>1. CASE f[n + 1] \in d
  <2>1. Lost(f, n + 1, d) = Lost(f, n, d)
        BY <1>1 DEF Lost
  <2> QED BY <2>1, LostIsFinite
<1>2. CASE f[n + 1] \notin d
  <2>1. Lost(f, n + 1, d) = Lost(f, n, d) \cup {n + 1} /\ n + 1 \notin Lost(f, n, d)
        BY <1>2 DEF Lost
  <2> QED BY <1>2, <2>1, LostIsFinite, FS_AddElement
<1> QED BY <1>1, <1>2

LEMMA StepLostCounted == TypeInv /\ OneEmbedder /\ LostCounted /\ [Next]_vars => LostCounted'
<1> SUFFICES ASSUME TypeInv, OneEmbedder, LostCounted, [Next]_vars,
                    NEW w \in Workers, (place[w] \in Busy)'
             PROVE  (Cardinality(Lost(Body(w), line[w] - 1, docs)) <= count[w].failed)'
    BY DEF LostCounted
<1>1. TypeOK /\ AtWork /\ Grows /\ docs \subseteq docs' /\ WorkerMoves(w)
      BY StepGrows, StepMovesWorkers DEF TypeInv, Grows
<1>2. CASE Stays(w) \/ Turns(w)
  <2>1. /\ place[w] \in Busy /\ current'[w] = current[w] /\ line'[w] = line[w]
        /\ count'[w] = count[w] /\ count[w].failed \in Nat
        BY <1>1, <1>2 DEF Stays, Turns, Busy, TypeOK, Counts
  <2>2. Body(w)' = Body(w) /\ line[w] - 1 \in Nat
        BY <1>1, <2>1, BodyKept DEF TypeInv, AtWork
  <2>3. Cardinality(Lost(Body(w), line[w] - 1, docs')) <= Cardinality(Lost(Body(w), line[w] - 1, docs))
        BY <1>1, <2>2, LostShrinks
  <2>4. Cardinality(Lost(Body(w), line[w] - 1, docs)) <= count[w].failed
        BY <2>1 DEF LostCounted
  <2> QED BY <2>1, <2>2, <2>3, <2>4, LostIsFinite
<1>3. CASE Claims(w)
  <2>1. Lost(Body(w)', 0, docs') = {}
        BY DEF Lost
  <2> QED BY <1>3, <2>1, FS_EmptySet DEF Claims, Zero
<1>4. ASSUME NEW class \in Classes, Passes(w, class)
      PROVE  (Cardinality(Lost(Body(w), line[w] - 1, docs)) <= count[w].failed)'
  <2> DEFINE n == line[w] - 1
  <2>1. /\ place[w] \in Busy /\ current'[w] = current[w] /\ line'[w] - 1 = n + 1
        /\ count[w] \in Counts /\ count[w].failed \in Nat
    <3>1. line[w] \in Nat /\ count[w] \in Counts
          BY <1>1 DEF TypeOK
    <3>2. count[w].failed \in Nat
          BY <3>1 DEF Counts
    <3> QED BY <1>4, <3>1, <3>2 DEF Passes, Busy
  <2>2. Body(w)' = Body(w) /\ n \in Nat
    <3>1. Body(w)' = Body(w) /\ Len(Body(w)) \in Nat
          BY <1>1, <2>1, BodyKept
    <3>2. line[w] \in 1..(Len(Body(w)) + 1)
          BY <1>1, <2>1 DEF AtWork
    <3> QED BY <3>1, <3>2
  <2>3. Cardinality(Lost(Body(w), n, docs)) <= count[w].failed
        BY <2>1 DEF LostCounted
  <2>4. Cardinality(Lost(Body(w), n, docs')) <= Cardinality(Lost(Body(w), n, docs))
        BY <1>1, <2>2, LostShrinks
  <2>5. count'[w].failed = IF class = "failed" THEN count[w].failed + 1 ELSE count[w].failed
    <3>1. Counted(count[w], class)["failed"] = IF class = "failed" THEN count[w]["failed"] + 1 ELSE count[w]["failed"]
          BY <2>1, CountedFacts DEF Classes
    <3>2. Counted(count[w], class) \in Counts
          BY <2>1, CountedFacts
    <3> QED BY <1>4, <2>1, <3>1, <3>2 DEF Passes, Counts
  <2>6. class # "failed" => Body(w)[n + 1] \in docs'
    <3>1. line[w] = n + 1
          BY <1>1 DEF TypeOK
    <3>2. class = "success" => Line(w) \in docs
          BY <1>4 DEF Passes, OneEmbedder
    <3>3. class = "skipped" => Line(w) \in docs
          BY <1>4 DEF Passes
    <3> QED BY <1>1, <3>1, <3>2, <3>3 DEF Line, Classes
  <2>7. /\ Cardinality(Lost(Body(w), n + 1, docs')) <= Cardinality(Lost(Body(w), n, docs')) + 1
        /\ Body(w)[n + 1] \in docs' => Lost(Body(w), n + 1, docs') = Lost(Body(w), n, docs')
        BY <2>2, LostNext
  <2>8. /\ Cardinality(Lost(Body(w), n + 1, docs')) \in Nat
        /\ Cardinality(Lost(Body(w), n, docs')) \in Nat
        /\ Cardinality(Lost(Body(w), n, docs)) \in Nat
        BY <2>2, LostIsFinite
  <2>9. Cardinality(Lost(Body(w), n + 1, docs')) <= count'[w].failed
        BY <2>1, <2>3, <2>4, <2>5, <2>6, <2>7, <2>8
  <2> QED BY <2>1, <2>2, <2>9
<1> QED BY <1>1, <1>2, <1>3, <1>4 DEF WorkerMoves

LEMMA StepNoLineLost == TypeInv /\ LostInv /\ [Next]_vars => NoLineLost'
<1> DEFINE Reported(t) == status[t] = "succeeded" =>
               Cardinality(Lost(file[t], Len(file[t]), docs)) <= stored[t].failed
<1>0. ASSUME TypeOK PROVE NoLineLost <=> \A t \in Tasks : Reported(t)
  <2>1. \A t \in Tasks : DOMAIN file[t] = 1..Len(file[t])
        BY <1>0, FilesAreSequences DEF TypeOK
  <2> QED BY <2>1 DEF NoLineLost, Lost
<1>0p. ASSUME TypeOK' PROVE NoLineLost' <=> \A t \in Tasks : Reported(t)'
  <2>1. \A t \in Tasks : DOMAIN file'[t] = 1..Len(file'[t])
        BY <1>0p, FilesAreSequences DEF TypeOK
  <2> QED BY <2>1 DEF NoLineLost, Lost
<1> SUFFICES ASSUME TypeInv, LostInv, [Next]_vars, NEW t \in Tasks PROVE Reported(t)'
    BY <1>0p, StepTypes DEF TypeInv
<1>1. TypeOK /\ AtWork /\ Grows /\ docs \subseteq docs' /\ RowMoves(t) /\ Reported(t)
      BY <1>0, StepGrows, StepMovesRows DEF TypeInv, LostInv, Grows
<1>2. Len(file[t]) \in Nat /\ stored[t].failed \in Nat
      BY <1>1, FilesAreSequences DEF TypeOK, Counts
<1>3. CASE status'[t] = status[t] /\ stored'[t] = stored[t] /\ file'[t] = file[t]
  <2>1. Cardinality(Lost(file[t], Len(file[t]), docs')) <= Cardinality(Lost(file[t], Len(file[t]), docs))
        BY <1>1, <1>2, LostShrinks
  <2> QED BY <1>1, <1>2, <1>3, <2>1, LostIsFinite
<1>4. CASE status'[t] \in {"pending", "processing"}
      BY <1>4
<1>5. ASSUME NEW w \in Workers, place[w] = "finish", current[w] = t,
             status'[t] = verdict[w], stored'[t] = count[w], file'[t] = file[t]
      PROVE  Reported(t)'
  <2> SUFFICES ASSUME verdict[w] = "succeeded"
               PROVE  Cardinality(Lost(file[t], Len(file[t]), docs')) <= count[w].failed
      BY <1>5
  <2>1. line[w] = Len(file[t]) + 1 /\ Body(w) = file[t]
        BY <1>1, <1>5 DEF AtWork, Body, Busy
  <2>2. line[w] - 1 = Len(file[t])
        BY <1>2, <2>1
  <2>3. Cardinality(Lost(file[t], Len(file[t]), docs)) <= count[w].failed
        BY <1>5, <2>1, <2>2 DEF LostInv, LostCounted, Busy
  <2>4. Cardinality(Lost(file[t], Len(file[t]), docs')) <= Cardinality(Lost(file[t], Len(file[t]), docs))
        BY <1>1, <1>2, LostShrinks
  <2>5. count[w].failed \in Nat
        BY <1>1 DEF TypeOK, Counts
  <2> QED BY <1>2, <2>3, <2>4, <2>5, LostIsFinite
<1> QED BY <1>1, <1>3, <1>4, <1>5 DEF RowMoves

(* A title of a succeeded task that is not in the knowledge base is one of *)
(* the failures the task reports (NoLineLost, processTask): also when a    *)
(* second worker took the task up while the first one still had it.        *)
THEOREM NoLineIsLost == Spec => []NoLineLost
<1>1. Init => LostInv
      BY DEF Init, LostInv, LostCounted, NoLineLost, Busy
<1>2. TypeInv /\ OneEmbedder /\ LostInv /\ [Next]_vars => LostInv'
      BY StepLostCounted, StepNoLineLost DEF LostInv
<1>3. LostInv => NoLineLost
      BY DEF LostInv
<1> QED BY <1>1, <1>2, <1>3, TypeCorrect, EmbeddedByOne, PTL DEF Spec

-----------------------------------------------------------------------------
(* The titles that have a vector.  A worker counts no more successes than  *)
(* the lines it has passed hold such titles: the title it embeds had no    *)
(* vector before, so it is a new one even if the file repeats it.          *)
Found(f, n, v) == {f[i] : i \in 1..n} \cap v

SuccessCounted ==
    \A w \in Workers : place[w] \in Busy =>
        count[w].success <= Cardinality(Found(Body(w), line[w] - 1, vecs))

NothingYet == \A t \in Tasks : status[t] = "none" => stored[t].success = 0

SearchInv == SuccessCounted /\ NothingYet /\ SuccessIsSearchable

LEMMA FoundIsFinite ==
    ASSUME NEW f, NEW n \in Nat, NEW v \in SUBSET Titles
    PROVE  IsFiniteSet(Found(f, n, v)) /\ Cardinality(Found(f, n, v)) \in Nat
<1>1. Found(f, n, v) \in SUBSET Titles
      BY DEF Found
<1>2. IsFiniteSet(Found(f, n, v))
      BY <1>1, BoundsAssumption, FS_Subset
<1> QED BY <1>2, FS_CardinalityType

(* More lines and more vectors, more found titles; one more if the next    *)
(* line's title got its vector now.                                        *)
LEMMA FoundGrows ==
    ASSUME NEW f, NEW n \in Nat, NEW m \in Nat, n <= m,
           NEW v \in SUBSET Titles, NEW u \in SUBSET Titles, v \subseteq u
    PROVE  /\ Cardinality(Found(f, n, v)) <= Cardinality(Found(f, m, u))
           /\ n < m /\ f[m] \in u /\ f[m] \notin v =>
                  Cardinality(Found(f, n, v)) + 1 <= Cardinality(Found(f, m, u))
<1>1. Found(f, n, v) \in SUBSET Found(f, m, u)
      BY DEF Found
<1>2. IsFiniteSet(Found(f, n, v)) /\ IsFiniteSet(Found(f, m, u))
      BY FoundIsFinite
<1>3. Cardinality(Found(f, n, v)) \in Nat /\ Cardinality(Found(f, m, u)) \in Nat
      BY FoundIsFinite
<1>4. ASSUME n < m, f[m] \in u, f[m] \notin v
      PROVE  Cardinality(Found(f, n, v)) + 1 <= Cardinality(Found(f, m, u))
  <2>1. f[m] \in Found(f, m, u) /\ f[m] \notin Found(f, n, v)
        BY <1>4 DEF Found
  <2>2. Found(f, n, v) \cup {f[m]} \in SUBSET Found(f, m, u)
        BY <1>1, <2>1
  <2>3. Cardinality(Found(f, n, v) \cup {f[m]}) = Cardinality(Found(f, n, v)) + 1
        BY <1>2, <2>1, FS_AddElement
  <2>4. Cardinality(Found(f, n, v) \cup {f[m]}) <= Cardinality(Found(f, m, u))
        BY <1>2, <2>2, FS_Subset
  <2> QED BY <2>3, <2>4
<1>5. Cardinality(Found(f, n, v)) <= Cardinality(Found(f, m, u))
      BY <1>1, <1>2, FS_Subset
<1> QED BY <1>4, <1>5

LEMMA FoundStays ==
    ASSUME NEW f, NEW n \in Nat,
           NEW v \in SUBSET Titles, NEW u \in SUBSET Titles, v \subseteq u
    PROVE  Cardinality(Found(f, n, v)) <= Cardinality(Found(f, n, u))
<1>1. n <= n
      OBVIOUS
<1> QED BY <1>1, FoundGrows

LEMMA StepSuccessCounted == TypeInv /\ OneEmbedder /\ SuccessCounted /\ [Next]_vars => SuccessCounted'
<1> SUFFICES ASSUME TypeInv, OneEmbedder, SuccessCounted, [Next]_vars,
                    NEW w \in Workers, (place[w] \in Busy)'
             PROVE  (count[w].success <= Cardinality(Found(Body(w), line[w] - 1, vecs)))'
    BY DEF SuccessCounted
<1>1. TypeOK /\ AtWork /\ Grows /\ WorkerMoves(w)
      BY StepGrows, StepMovesWorkers DEF TypeInv
<1>2. vecs \in SUBSET Titles /\ vecs' \in SUBSET Titles /\ vecs \subseteq vecs'
      BY <1>1, StepTypes DEF TypeInv, TypeOK, Grows
<1>3. CASE Stays(w) \/ Turns(w)
  <2>1. /\ place[w] \in Busy /\ current'[w] = current[w] /\ line'[w] = line[w]
        /\ count'[w] = count[w] /\ count[w].success \in Nat
        BY <1>1, <1>3 DEF Stays, Turns, Busy, TypeOK, Counts
  <2>2. Body(w)' = Body(w) /\ line[w] - 1 \in Nat
        BY <1>1, <2>1, BodyKept DEF TypeInv, AtWork
  <2>3. Cardinality(Found(Body(w), line[w] - 1, vecs)) <= Cardinality(Found(Body(w), line[w] - 1, vecs'))
        BY <1>2, <2>2, FoundStays
  <2>4. count[w].success <= Cardinality(Found(Body(w), line[w] - 1, vecs))
        BY <2>1 DEF SuccessCounted
  <2> QED BY <1>2, <2>1, <2>2, <2>3, <2>4, FoundIsFinite
<1>4. CASE Claims(w)
  <2>1. Cardinality(Found(Body(w)', 0, vecs')) \in Nat
        BY <1>2, FoundIsFinite
  <2> QED BY <1>4, <2>1 DEF Claims, Zero
<1>5. ASSUME NEW class \in Classes, Passes(w, class)
      PROVE  (count[w].success <= Cardinality(Found(Body(w), line[w] - 1, vecs)))'
  <2> DEFINE n == line[w] - 1
  <2>1. /\ place[w] \in Busy /\ current'[w] = current[w] /\ line'[w] - 1 = n + 1 /\ line[w] = n + 1
        /\ count[w] \in Counts /\ count[w].success \in Nat
    <3>1. line[w] \in Nat /\ count[w] \in Counts
          BY <1>1 DEF TypeOK
    <3>2. count[w].success \in Nat
          BY <3>1 DEF Counts
    <3> QED BY <1>5, <3>1, <3>2 DEF Passes, Busy
  <2>2. Body(w)' = Body(w) /\ n \in Nat
    <3>1. Body(w)' = Body(w) /\ Len(Body(w)) \in Nat
          BY <1>1, <2>1, BodyKept
    <3>2. line[w] \in 1..(Len(Body(w)) + 1)
          BY <1>1, <2>1 DEF AtWork
    <3> QED BY <3>1, <3>2
  <2>3. count[w].success <= Cardinality(Found(Body(w), n, vecs))
        BY <2>1 DEF SuccessCounted
  <2>4. count'[w].success = IF class = "success" THEN count[w].success + 1 ELSE count[w].success
    <3>1. Counted(count[w], class)["success"] = IF class = "success" THEN count[w]["success"] + 1 ELSE count[w]["success"]
          BY <2>1, CountedFacts DEF Classes
    <3>2. Counted(count[w], class) \in Counts
          BY <2>1, CountedFacts
    <3> QED BY <1>5, <2>1, <3>1, <3>2 DEF Passes, Counts
  <2>5. class = "success" => Body(w)[n + 1] \in vecs' /\ Body(w)[n + 1] \notin vecs
        BY <1>5, <2>1 DEF Passes, OneEmbedder, Line
  <2>6. /\ Cardinality(Found(Body(w), n, vecs)) <= Cardinality(Found(Body(w), n + 1, vecs'))
        /\ Body(w)[n + 1] \in vecs' /\ Body(w)[n + 1] \notin vecs =>
              Cardinality(Found(Body(w), n, vecs)) + 1 <= Cardinality(Found(Body(w), n + 1, vecs'))
    <3>1. n + 1 \in Nat /\ n <= n + 1 /\ n < n + 1
          BY <2>2
    <3> QED BY <1>2, <2>2, <3>1, FoundGrows
  <2>7. /\ Cardinality(Found(Body(w), n, vecs)) \in Nat
        /\ Cardinality(Found(Body(w), n + 1, vecs')) \in Nat
        BY <1>2, <2>2, FoundIsFinite
  <2>8. count'[w].success <= Cardinality(Found(Body(w), n + 1, vecs'))
        BY <2>1, <2>3, <2>4, <2>5, <2>6, <2>7
  <2> QED BY <2>1, <2>2, <2>8
<1> QED BY <1>1, <1>3, <1>4, <1>5 DEF WorkerMoves

(* The titles found in a whole file are those the property counts.         *)
LEMMA FoundInFile ==
    ASSUME NEW f \in Files \cup {<<>>}, NEW v \in SUBSET Titles
    PROVE  ValidTitles(f) \cap v = Found(f, Len(f), v)
BY FilesAreSequences DEF ValidTitles, Found

LEMMA StepSearchable ==
    TypeInv /\ SearchInv /\ [Next]_vars => (NothingYet /\ SuccessIsSearchable)'
<1> DEFINE Searchable(t) == stored[t].success <= Cardinality(Found(file[t], Len(file[t]), vecs))
           Fresh(t) == status[t] = "none" => stored[t].success = 0
<1> SUFFICES ASSUME TypeInv, SearchInv, [Next]_vars PROVE (NothingYet /\ SuccessIsSearchable)'
    OBVIOUS
<1>1. TypeOK /\ AtWork /\ Grows /\ TypeOK'
      BY StepTypes, StepGrows DEF TypeInv
<1>2. vecs \in SUBSET Titles /\ vecs' \in SUBSET Titles /\ vecs \subseteq vecs'
      BY <1>1 DEF TypeOK, Grows
<1>3. SUFFICES ASSUME NEW t \in Tasks PROVE Searchable(t)' /\ Fresh(t)'
  <2>1. \A t \in Tasks : ValidTitles(file'[t]) \cap vecs' = Found(file'[t], Len(file'[t]), vecs')
        BY <1>1, <1>2, FoundInFile DEF TypeOK
  <2> QED BY <2>1 DEF NothingYet, SuccessIsSearchable
<1>4. RowMoves(t) /\ Fresh(t) /\ Searchable(t)
  <2>1. ValidTitles(file[t]) \cap vecs = Found(file[t], Len(file[t]), vecs)
        BY <1>1, <1>2, FoundInFile DEF TypeOK
  <2> QED BY <1>1, <2>1, StepMovesRows DEF SearchInv, NothingYet, SuccessIsSearchable
<1>5. Len(file[t]) \in Nat /\ stored[t].success \in Nat
      BY <1>1, FilesAreSequences DEF TypeOK, Counts
<1>6. Len(file'[t]) \in Nat /\ Cardinality(Found(file'[t], Len(file'[t]), vecs')) \in Nat
      BY <1>1, <1>2, FilesAreSequences, FoundIsFinite DEF TypeOK
<1>7. /\ Cardinality(Found(file[t], Len(file[t]), vecs)) \in Nat
      /\ Cardinality(Found(file[t], Len(file[t]), vecs)) <= Cardinality(Found(file[t], Len(file[t]), vecs'))
      BY <1>2, <1>5, FoundStays, FoundIsFinite
<1>8. CASE stored'[t] = stored[t] /\ file'[t] = file[t] /\ (status'[t] = "none" => status[t] = "none")
      BY <1>4, <1>5, <1>6, <1>7, <1>8
<1>9. CASE status[t] = "none" /\ status'[t] = "pending" /\ stored'[t] = stored[t]
      BY <1>4, <1>6, <1>9
<1>10. ASSUME NEW w \in Workers, place[w] = "finish", current[w] = t,
              status'[t] = verdict[w], stored'[t] = count[w], file'[t] = file[t]
       PROVE  Searchable(t)' /\ Fresh(t)'
  <2>1. verdict[w] # "none"
        BY <1>1 DEF TypeOK, Finished
  <2>2. line[w] \in 1..(Len(file[t]) + 1) /\ Body(w) = file[t] /\ count[w].success \in Nat
        BY <1>1, <1>10 DEF AtWork, Body, Busy, TypeOK, Counts
  <2>3. line[w] - 1 \in Nat /\ line[w] - 1 <= Len(file[t])
        BY <1>5, <2>2
  <2>4. count[w].success <= Cardinality(Found(file[t], line[w] - 1, vecs))
        BY <1>10, <2>2 DEF SearchInv, SuccessCounted, Busy
  <2>5. /\ Cardinality(Found(file[t], line[w] - 1, vecs)) <= Cardinality(Found(file[t], Len(file[t]), vecs'))
        /\ Cardinality(Found(file[t], line[w] - 1, vecs)) \in Nat
        BY <1>2, <1>5, <2>3, FoundGrows, FoundIsFinite
  <2> QED BY <1>6, <1>10, <2>1, <2>2, <2>4, <2>5
<1> QED BY <1>4, <1>8, <1>9, <1>10 DEF RowMoves

(* A task reports no more successes than titles of its file that can be    *)
(* found by meaning (SuccessIsSearchable, CreateDocument): a line whose    *)
(* document another worker inserted and has not embedded is none.          *)
THEOREM SuccessesAreSearchable == Spec => []SuccessIsSearchable
<1>1. Init => SearchInv
  <2> SUFFICES ASSUME Init PROVE SearchInv
      OBVIOUS
  <2>1. SuccessCounted /\ NothingYet
        BY DEF Init, SuccessCounted, NothingYet, Busy, Zero
  <2>2. ValidTitles(<<>>) \cap {} = {}
        OBVIOUS
  <2>3. SuccessIsSearchable
        BY <2>2, FS_EmptySet DEF Init, SuccessIsSearchable, Zero
  <2> QED BY <2>1, <2>3 DEF SearchInv
<1>2. TypeInv /\ OneEmbedder /\ SearchInv /\ [Next]_vars => SearchInv'
      BY StepSuccessCounted, StepSearchable DEF SearchInv
<1>3. SearchInv => SuccessIsSearchable
      BY DEF SearchInv
<1> QED BY <1>1, <1>2, <1>3, TypeCorrect, EmbeddedByOne, PTL DEF Spec
=============================================================================
