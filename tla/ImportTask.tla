----------------------------- MODULE ImportTask -----------------------------
(***************************************************************************)
(* The asynchronous import of knowledge-base documents.  An upload becomes *)
(* a row of corpus_import; a worker goroutine claims pending rows one by   *)
(* one, looks every CSV line up, creates the missing documents with their  *)
(* vectors, and writes the counters and the final status.  A worker that   *)
(* starts first puts the rows a former process left `processing` back to   *)
(* `pending`.  Documents are also created by the kb_create tool meanwhile. *)
(*                                                                         *)
(* One database call or one embedding call is one step.  Stopping a worker *)
(* (its context is cancelled) makes every later call of it fail without an *)
(* effect and leaves the row processing, exactly as a crash does.          *)
(***************************************************************************)
EXTENDS Naturals, Sequences, FiniteSets

CONSTANTS
    Workers,     \* import workers (one per process; one is the deployment)
    NTasks,      \* bound: uploads
    Titles,      \* (title, heading) pairs
    Files,       \* the CSV bodies that may be uploaded: sequences of lines
    MaxFaults,   \* bound: failing database or embedding calls
    MaxCrash,    \* bound: crashes or stops of a worker's process
    MaxOthers,   \* bound: documents created by kb_create meanwhile
    MaxOverlap   \* bound: processes that start before the former one has ended

BadLine    == "bad"      \* a line validImportRow refuses
BrokenLine == "broken"   \* a line the CSV reader fails on

ASSUME FilesAssumption ==
    /\ BadLine \notin Titles /\ BrokenLine \notin Titles
    /\ Files \subseteq Seq(Titles \cup {BadLine, BrokenLine})

ASSUME BoundsAssumption ==
    /\ NTasks \in Nat /\ MaxFaults \in Nat /\ MaxCrash \in Nat /\ MaxOthers \in Nat /\ MaxOverlap \in Nat
    /\ IsFiniteSet(Titles)

Tasks    == 1..NTasks     \* in the order of their creation
Statuses == {"none", "pending", "processing", "succeeded", "failed"}
Finished == {"succeeded", "failed"}

Counts == [total: Nat, success: Nat, failed: Nat, skipped: Nat]
Zero   == [total |-> 0, success |-> 0, failed |-> 0, skipped |-> 0]

NoTask == 0
Places == {"off", "boot", "idle", "line", "create", "vector", "finish"}

VARIABLES
    status,    \* corpus_import.status of each task
    file,      \* corpus_import.data, once uploaded
    stored,    \* the counters in the task's row
    docs,      \* titles with a row in corpus_document
    vecs,      \* titles with a row in corpus_vector_400
    place,     \* where each worker stands
    current,   \* the task a worker processes
    line,      \* the line it is at
    count,     \* its local counters
    verdict,   \* the status it will write
    others,    \* titles kb_create inserted and has not embedded yet
    overlaps,  \* starts while another worker ran
    faults, crashes, created   \* how often each bounded event happened

tables  == <<status, file, stored>>
kb      == <<docs, vecs, others>>
worker  == <<place, current, line, count, verdict>>
bounds  == <<faults, crashes, created>>
vars    == <<tables, kb, worker, bounds, overlaps>>

TypeOK ==
    /\ status \in [Tasks -> Statuses]
    /\ file \in [Tasks -> Files \cup {<<>>}]
    /\ stored \in [Tasks -> Counts]
    /\ docs \in SUBSET Titles /\ vecs \in SUBSET Titles /\ others \in SUBSET Titles
    /\ place \in [Workers -> Places]
    /\ current \in [Workers -> Tasks \cup {NoTask}]
    /\ line \in [Workers -> Nat]
    /\ count \in [Workers -> Counts]
    /\ verdict \in [Workers -> Finished]
    /\ faults \in 0..MaxFaults /\ crashes \in 0..MaxCrash /\ created \in 0..MaxOthers /\ overlaps \in 0..MaxOverlap

Init ==
    /\ status = [t \in Tasks |-> "none"]
    /\ file = [t \in Tasks |-> <<>>]
    /\ stored = [t \in Tasks |-> Zero]
    /\ docs = {} /\ vecs = {} /\ others = {}
    /\ place = [w \in Workers |-> "off"]
    /\ current = [w \in Workers |-> NoTask]
    /\ line = [w \in Workers |-> 1]
    /\ count = [w \in Workers |-> Zero]
    /\ verdict = [w \in Workers |-> "succeeded"]
    /\ faults = 0 /\ crashes = 0 /\ created = 0 /\ overlaps = 0

Goto(w, p) == place' = [place EXCEPT ![w] = p]

Fault == faults < MaxFaults /\ faults' = faults + 1 /\ UNCHANGED <<crashes, created>>

-----------------------------------------------------------------------------
(* postCorpusImport: a checked file becomes a pending task.                *)
Upload(t, f) ==
    /\ status[t] = "none"
    /\ \A u \in Tasks : u < t => status[u] # "none"
    /\ status' = [status EXCEPT ![t] = "pending"]
    /\ file' = [file EXCEPT ![t] = f]
    /\ UNCHANGED <<stored, kb, worker, bounds>>

(* The kb_create tool: the document, then its vector; either may fail.     *)
KBInsert(title) ==
    /\ created < MaxOthers
    /\ title \notin docs
    /\ created' = created + 1
    /\ docs' = docs \cup {title}
    /\ others' = others \cup {title}
    /\ UNCHANGED <<tables, vecs, worker, faults, crashes>>

KBVector(title) ==
    /\ title \in others
    /\ others' = others \ {title}
    /\ \/ vecs' = vecs \cup {title} /\ UNCHANGED bounds
       \/ UNCHANGED vecs /\ Fault
    /\ UNCHANGED <<tables, docs, worker>>

-----------------------------------------------------------------------------
(* ImportWorker.Run: recover once, then claim and process for ever.  A     *)
(* process is started when none runs, or (StartBeside) next to another.    *)
Started(w) ==
    /\ place[w] = "off"
    /\ Goto(w, "boot")
    /\ UNCHANGED <<tables, kb, current, line, count, verdict, bounds>>

Start(w) ==
    /\ \A v \in Workers : place[v] = "off"
    /\ Started(w)

StartBeside(w) ==
    /\ \E v \in Workers : place[v] # "off"
    /\ overlaps < MaxOverlap
    /\ overlaps' = overlaps + 1
    /\ Started(w)

(* Mutant: nothing is recovered.                                           *)
NeverLeftOver(t) == FALSE

LeftOver(t) == status[t] = "processing"

Recover(w) ==
    /\ place[w] = "boot"
    /\ Goto(w, "idle")
    /\ \/ /\ status' = [t \in Tasks |-> IF LeftOver(t) THEN "pending" ELSE status[t]]
          /\ UNCHANGED bounds
       \/ UNCHANGED status /\ Fault
    /\ UNCHANGED <<file, stored, kb, current, line, count, verdict>>

Pending == {t \in Tasks : status[t] = "pending"}

OldestFirst(t) == \A u \in Pending : t <= u

(* ClaimImportTask: one UPDATE ... FOR UPDATE SKIP LOCKED.                 *)
Claim(w) ==
    /\ place[w] = "idle"
    /\ \E t \in Pending :
          /\ OldestFirst(t)
          /\ status' = [status EXCEPT ![t] = "processing"]
          /\ current' = [current EXCEPT ![w] = t]
    /\ line' = [line EXCEPT ![w] = 1]
    /\ count' = [count EXCEPT ![w] = Zero]
    /\ Goto(w, "line")
    /\ UNCHANGED <<file, stored, kb, verdict, bounds>>

Body(w) == file[current[w]]
Line(w) == Body(w)[line[w]]

Finish(w, v) ==
    /\ verdict' = [verdict EXCEPT ![w] = v]
    /\ Goto(w, "finish")

(* A line is done: it counts in the total and in one of the three classes. *)
Counted(c, class) == [c EXCEPT !.total = @ + 1, ![class] = @ + 1]

NextLine(w, class) ==
    /\ count' = [count EXCEPT ![w] = Counted(@, class)]
    /\ line' = [line EXCEPT ![w] = @ + 1]
    /\ Goto(w, "line")

EndOfFile(w) ==
    /\ place[w] = "line" /\ line[w] > Len(Body(w))
    /\ Finish(w, "succeeded")
    /\ UNCHANGED <<tables, kb, current, line, count, bounds>>

BrokenVerdict == "failed"

ParseError(w) ==
    /\ place[w] = "line" /\ line[w] <= Len(Body(w)) /\ Line(w) = BrokenLine
    /\ Finish(w, BrokenVerdict)
    /\ UNCHANGED <<tables, kb, current, line, count, bounds>>

(* Mutant: an invalid line counts in the total only.                       *)
UncountedClass(c) == [c EXCEPT !.total = @ + 1]

BadCounted(c) == Counted(c, "failed")

InvalidLine(w) ==
    /\ place[w] = "line" /\ line[w] <= Len(Body(w)) /\ Line(w) = BadLine
    /\ count' = [count EXCEPT ![w] = BadCounted(@)]
    /\ line' = [line EXCEPT ![w] = @ + 1]
    /\ UNCHANGED <<tables, kb, place, current, verdict, bounds>>

(* Mutant: a failed lookup is taken for a duplicate.                       *)
LookupErrorSkips == "skipped"

LookupErrorClass == "failed"

LookUp(w) ==
    /\ place[w] = "line" /\ line[w] <= Len(Body(w)) /\ Line(w) \in Titles
    /\ \/ /\ Line(w) \in docs
          /\ NextLine(w, "skipped")
          /\ UNCHANGED bounds
       \/ /\ Line(w) \notin docs
          /\ Goto(w, "create")
          /\ UNCHANGED <<count, line, bounds>>
       \/ NextLine(w, LookupErrorClass) /\ Fault
    /\ UNCHANGED <<tables, kb, current, verdict>>

(* CreateDocument: a plain insert under the unique index on (title,        *)
(* heading), then afterCreatedCobDocument computes and stores the vector.  *)
(* A failing insert may have been committed.                               *)
Create(w) ==
    /\ place[w] = "create"
    /\ \/ /\ Line(w) \notin docs
          /\ docs' = docs \cup {Line(w)}
          /\ Goto(w, "vector")
          /\ UNCHANGED <<count, line, bounds>>
       \/ /\ Line(w) \in docs
          /\ NextLine(w, "failed")
          /\ UNCHANGED <<docs, bounds>>
       \/ /\ NextLine(w, "failed")
          /\ Fault
          /\ \/ UNCHANGED docs
             \/ docs' = docs \cup {Line(w)}
    /\ UNCHANGED <<tables, vecs, others, current, verdict>>

(* Mutant: the line is a success whether or not its vector was stored.     *)
VectorErrorIgnored == "success"

VectorErrorClass == "failed"
WithVector(title) == vecs \cup {title}

Vector(w) ==
    /\ place[w] = "vector"
    /\ \/ /\ vecs' = WithVector(Line(w))
          /\ NextLine(w, "success")
          /\ UNCHANGED bounds
       \/ /\ UNCHANGED vecs
          /\ NextLine(w, VectorErrorClass) /\ Fault
    /\ UNCHANGED <<tables, docs, others, current, verdict>>

(* finishImportTask: one update of status and counters, by id only.        *)
WriteBack(w) ==
    /\ place[w] = "finish"
    /\ LET t == current[w]
           write == /\ status' = [status EXCEPT ![t] = verdict[w]]
                    /\ stored' = [stored EXCEPT ![t] = count[w]]
       IN \/ write /\ UNCHANGED bounds
          \/ /\ write \/ UNCHANGED <<status, stored>>
             /\ Fault
    /\ current' = [current EXCEPT ![w] = NoTask]
    /\ Goto(w, "idle")
    /\ UNCHANGED <<file, kb, line, count, verdict>>

Crash(w) ==
    /\ place[w] # "off"
    /\ crashes < MaxCrash
    /\ crashes' = crashes + 1
    /\ Goto(w, "off")
    /\ current' = [current EXCEPT ![w] = NoTask]
    /\ UNCHANGED <<tables, kb, line, count, verdict, faults, created>>

-----------------------------------------------------------------------------
Process(w) ==
    \/ EndOfFile(w) \/ ParseError(w) \/ InvalidLine(w) \/ LookUp(w)
    \/ Create(w) \/ Vector(w) \/ WriteBack(w)

Run(w) == Start(w) \/ Recover(w) \/ Claim(w) \/ Process(w)

(* What goes on around the workers.                                        *)
Others ==
    \/ \E t \in Tasks, f \in Files : Upload(t, f)
    \/ \E title \in Titles : KBInsert(title) \/ KBVector(title)
    \/ \E w \in Workers : Crash(w)

Next ==
    \/ /\ Others \/ \E w \in Workers : Run(w)
       /\ UNCHANGED overlaps
    \/ \E w \in Workers : StartBeside(w)

Spec == Init /\ [][Next]_vars

(* The worker's goroutine is scheduled and its process is started again.   *)
FairSpec == Spec /\ \A w \in Workers : WF_vars(Run(w) /\ UNCHANGED overlaps)
=============================================================================
