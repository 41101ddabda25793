----------------------------- MODULE Capability -----------------------------
(***************************************************************************)
(* The catalogue of APIs the model may call: rows imported from Swagger    *)
(* documents by the operator's commands, their vectors, marks on the rows  *)
(* a document no longer lists, and the search with its rerank and cache.   *)
(*                                                                         *)
(* A row is named by its operation (method and path) and by its subject,   *)
(* the text that is embedded; parameters, responses and descriptions come  *)
(* and go with it.  A document is a function from its operations to        *)
(* entries; the endpoints under a prefix are a set of operations.  A step  *)
(* is one statement or transaction with the read it starts from, or one    *)
(* call of a model.                                                        *)
(***************************************************************************)
EXTENDS Naturals, FiniteSets, FiniteSetsExt

CONSTANTS
    Tasks,           \* commands and searches in progress at the same time
    Operations,      \* methods and paths
    Subjects,        \* subjects a row may have
    Documents,       \* operation -> [subject, skip], for the operations of each
    Prefixes,        \* sets of operations a prefix stands for; {} is no prefix
    MaxCaps,         \* bound: rows ever created
    MaxCapRequests,  \* bound: commands and searches
    MaxCapFaults,    \* bound: failing calls
    CapLimit,        \* results a search is asked for
    RecallLimit      \* candidates the rerank gets

ASSUME CapabilityAssumption ==
    /\ {MaxCaps, MaxCapRequests, MaxCapFaults} \subseteq Nat /\ CapLimit \in Nat \ {0} /\ RecallLimit >= CapLimit
    /\ "none" \notin Operations
    /\ \A d \in Documents : IsFiniteSet(DOMAIN d) /\ DOMAIN d \subseteq Operations /\ \A o \in DOMAIN d : d[o].subject \in Subjects \cup {""}
    /\ Prefixes \subseteq SUBSET Operations

VARIABLES
    cap,        \* id -> row
    capBorn,    \* rows created so far
    capVec,     \* id -> subjects of its vectors
    task,       \* task -> where it is
    capBegun,   \* tasks begun so far
    capFaults,
    rcache,     \* query -> ids in the rerank cache; {} is no entry or an empty one
    contested,  \* ids two tasks had in hand at the same time
    outdated    \* ids whose vectors could not be made the row's own

capVars == <<cap, capBorn, capVec, task, capBegun, capFaults, rcache, contested, outdated>>

CapIds == 1..MaxCaps
NoOp   == "none"
NoCap  == [op |-> NoOp, subject |-> "", missed |-> FALSE]
Listed(i) == cap[i] # NoCap

Resting == [pc |-> "idle", doc |-> <<>>, left |-> {}, prefix |-> {}, op |-> NoOp, id |-> 0, subject |-> "",
            rows |-> {}, query |-> "", hits |-> {}, found |-> {}]

(* At first the catalogue is empty or what one import left.                *)
CapInit ==
    \E d \in Documents \cup {<<>>} :
        LET wanted == {o \in DOMAIN d : ~d[o].skip /\ d[o].subject # ""}
            ops    == CHOOSE f \in [1..Cardinality(wanted) -> wanted] : wanted \subseteq {f[i] : i \in DOMAIN f}
        IN
        /\ capBorn = Cardinality(wanted)
        /\ cap = [i \in CapIds |-> IF i \in DOMAIN ops THEN [op |-> ops[i], subject |-> d[ops[i]].subject, missed |-> FALSE]
                                  ELSE NoCap]
        /\ capVec = [i \in CapIds |-> {cap[i].subject} \ {""}]
        /\ task = [t \in Tasks |-> Resting] /\ capBegun = 0 /\ capFaults = 0
        /\ rcache = [q \in Subjects |-> {}] /\ contested = {} /\ outdated = {}

TaskAt(t, pc)  == task[t].pc = pc
TaskPut(t, r)  == task' = [task EXCEPT ![t] = r]
TaskEnds(t)    == TaskPut(t, Resting)
CapFault       == capFaults < MaxCapFaults /\ capFaults' = capFaults + 1
CapBegins      == capBegun < MaxCapRequests /\ capBegun' = capBegun + 1

(* What a task has read or is about to change.                             *)
InHand(t) == {task[t].id} \cup {m.id : m \in task[t].rows}
Contest(t, i) == contested' = IF \E u \in Tasks \ {t} : i \in InHand(u) THEN contested \cup {i} ELSE contested

-----------------------------------------------------------------------------
(* Vectors.  afterCreatedCapability embeds and inserts, whatever became of *)
(* the row; afterUpdatedCapability leaves a vector of the same subject     *)
(* alone, replaces another one and inserts a missing one, for which a      *)
(* failing lookup passes.  `back` is where the task goes on; any other     *)
(* failing call leaves the vectors as they were.                           *)

(* Whether the vectors are now the row's own.                              *)
Accounted(i, s) == outdated' = IF capVec'[i] = {s} THEN outdated \ {i} ELSE outdated \cup {i}

VectorCreated(t, back) ==
    LET i == task[t].id IN
    /\ \/ capVec' = [capVec EXCEPT ![i] = @ \cup {task[t].subject}] /\ UNCHANGED capFaults
       \/ CapFault /\ UNCHANGED capVec
    /\ Accounted(i, task[t].subject) /\ back

(* Mutant: any vector is good enough. *)
VectorKept(i, s, back) ==
    /\ \/ capVec[i] # {} /\ UNCHANGED <<capVec, capFaults, outdated>>
       \/ capVec[i] = {} /\ capVec' = [capVec EXCEPT ![i] = {s}] /\ Accounted(i, s) /\ UNCHANGED capFaults
       \/ CapFault /\ UNCHANGED capVec /\ Accounted(i, s)
    /\ back

VectorUpdated(i, s, back) ==
    /\ \/ s \in capVec[i] /\ UNCHANGED <<capVec, capFaults>>
       \/ \E v \in capVec[i] : v # s /\ capVec' = [capVec EXCEPT ![i] = (@ \ {v}) \cup {s}] /\ UNCHANGED capFaults
       \/ capVec[i] = {} /\ capVec' = [capVec EXCEPT ![i] = {s}] /\ UNCHANGED capFaults
       \/ CapFault /\ (UNCHANGED capVec \/ capVec' = [capVec EXCEPT ![i] = @ \cup {s}])
    /\ Accounted(i, s) /\ back

-----------------------------------------------------------------------------
(* ImportCapabilities: the operations of the document in any order.  An    *)
(* error with one of them is logged and the next one is taken.             *)

ImportBegins(t) ==
    /\ TaskAt(t, "idle") /\ CapBegins
    /\ \E d \in Documents, x \in Prefixes :
           TaskPut(t, [Resting EXCEPT !.pc = "import", !.doc = d, !.left = DOMAIN d, !.prefix = x])
    /\ UNCHANGED <<cap, capBorn, capVec, capFaults, rcache, contested, outdated>>

NextEntry(t) == TaskPut(t, [task[t] EXCEPT !.pc = "import", !.left = @ \ {task[t].op}, !.op = NoOp, !.id = 0])

(* GetCapabilityWith: a row of that operation, or none; id 0 is none.      *)
ImportLook(t) ==
    /\ TaskAt(t, "import")
    /\ \E o \in task[t].left :
           \/ /\ \E i \in CapIds : /\ cap[i].op = o /\ Contest(t, i)
                                   /\ TaskPut(t, [task[t] EXCEPT !.pc = "entry", !.op = o, !.id = i])
              /\ UNCHANGED capFaults
           \/ /\ \A i \in CapIds : cap[i].op # o
              /\ TaskPut(t, [task[t] EXCEPT !.pc = "entry", !.op = o, !.id = 0])
              /\ UNCHANGED <<capFaults, contested>>
           \/ CapFault /\ TaskPut(t, [task[t] EXCEPT !.left = @ \ {o}]) /\ UNCHANGED contested
    /\ UNCHANGED <<cap, capBorn, capVec, capBegun, rcache, outdated>>

Entry(t) == task[t].doc[task[t].op]

(* Mutant: only the row is deleted. *)
RemovedRow(i) == cap' = [cap EXCEPT ![i] = NoCap] /\ UNCHANGED capVec

(* Row and vectors go in one transaction; a row that has gone is no error. *)
Removed(i) ==
    IF Listed(i) THEN cap' = [cap EXCEPT ![i] = NoCap] /\ capVec' = [capVec EXCEPT ![i] = {}] ELSE UNCHANGED <<cap, capVec>>

NotWanted(e) == e.skip \/ e.subject = ""

(* An operation tagged skipai is deleted if it is there; one without a     *)
(* subject is passed over.                                                 *)
ImportSkips(t) ==
    /\ TaskAt(t, "entry") /\ NotWanted(Entry(t)) /\ NextEntry(t)
    /\ IF Entry(t).skip /\ task[t].id # 0
       THEN (Removed(task[t].id) /\ UNCHANGED capFaults) \/ (CapFault /\ UNCHANGED <<cap, capVec>>)
       ELSE UNCHANGED <<cap, capVec, capFaults>>
    /\ UNCHANGED <<capBorn, capBegun, rcache, contested, outdated>>

(* The update reads the row again and fails when it has gone.  It leaves   *)
(* the mark of a missed row.                                               *)
ImportUpdates(t) ==
    LET i == task[t].id IN
    /\ TaskAt(t, "entry") /\ ~NotWanted(Entry(t)) /\ i # 0
    /\ \/ /\ Listed(i) /\ cap' = [cap EXCEPT ![i].subject = Entry(t).subject]
          /\ TaskPut(t, [task[t] EXCEPT !.pc = "changed", !.subject = Entry(t).subject]) /\ UNCHANGED capFaults
       \/ ~Listed(i) /\ NextEntry(t) /\ UNCHANGED <<cap, capFaults>>
       \/ CapFault /\ NextEntry(t) /\ UNCHANGED cap
    /\ UNCHANGED <<capBorn, capVec, capBegun, rcache, contested, outdated>>

(* No constraint of the schema keeps a second row of the operation out.    *)
ImportCreates(t) ==
    /\ TaskAt(t, "entry") /\ ~NotWanted(Entry(t)) /\ task[t].id = 0
    /\ \/ /\ capBorn < MaxCaps /\ capBorn' = capBorn + 1
          /\ cap' = [cap EXCEPT ![capBorn + 1] = [op |-> task[t].op, subject |-> Entry(t).subject, missed |-> FALSE]]
          /\ TaskPut(t, [task[t] EXCEPT !.pc = "created", !.id = capBorn + 1, !.subject = Entry(t).subject])
          /\ UNCHANGED capFaults
       \/ CapFault /\ NextEntry(t) /\ UNCHANGED <<cap, capBorn>>
    /\ UNCHANGED <<capVec, capBegun, rcache, contested, outdated>>

ImportEmbeds(t) ==
    /\ \/ TaskAt(t, "created") /\ VectorCreated(t, NextEntry(t))
       \/ TaskAt(t, "changed") /\ VectorUpdated(task[t].id, task[t].subject, NextEntry(t))
    /\ UNCHANGED <<cap, capBorn, capBegun, rcache, contested>>

(* markMissingCapabilities: the rows under the prefix the document does    *)
(* not list, tagged and empty entries counting as listed.                  *)
ImportEnds(t) ==
    /\ TaskAt(t, "import") /\ task[t].left = {}
    /\ LET gone == {i \in CapIds : cap[i].op \in task[t].prefix \ DOMAIN task[t].doc} IN
       IF gone = {} THEN TaskEnds(t) /\ UNCHANGED contested
       ELSE /\ TaskPut(t, [Resting EXCEPT !.pc = "mark", !.rows = {[id |-> i, subject |-> cap[i].subject] : i \in gone}])
            /\ contested' = contested \cup {i \in gone : \E u \in Tasks \ {t} : i \in InHand(u)}
    /\ UNCHANGED <<cap, capBorn, capVec, capBegun, capFaults, rcache, outdated>>

(* UpdateCapability of the mark, then its vector from the row as read.     *)
ImportMarks(t) ==
    \E m \in task[t].rows :
        /\ TaskAt(t, "mark")
        /\ \/ /\ Listed(m.id) /\ cap' = [cap EXCEPT ![m.id].missed = TRUE]
              /\ TaskPut(t, [task[t] EXCEPT !.pc = "marked", !.id = m.id, !.subject = cap[m.id].subject])
              /\ UNCHANGED capFaults
           \/ ~Listed(m.id) /\ TaskPut(t, [task[t] EXCEPT !.rows = @ \ {m}]) /\ UNCHANGED <<cap, capFaults>>
           \/ CapFault /\ TaskPut(t, [task[t] EXCEPT !.rows = @ \ {m}]) /\ UNCHANGED cap
        /\ UNCHANGED <<capBorn, capVec, capBegun, rcache, contested, outdated>>

NextRow(t, pc) ==
    LET left == {m \in task[t].rows : m.id # task[t].id} IN
    IF left = {} THEN TaskEnds(t) ELSE TaskPut(t, [task[t] EXCEPT !.pc = pc, !.rows = left, !.id = 0])

ImportMarked(t) ==
    /\ \/ TaskAt(t, "marked") /\ VectorUpdated(task[t].id, task[t].subject, NextRow(t, "mark"))
       \/ TaskAt(t, "mark") /\ task[t].rows = {} /\ TaskEnds(t) /\ UNCHANGED <<capVec, capFaults, outdated>>
    /\ UNCHANGED <<cap, capBorn, capBegun, rcache, contested>>

-----------------------------------------------------------------------------
(* CleanupMissedCapabilities and SyncEmbeddingCapabilities: a list, then   *)
(* one row after the other from the copies read.                           *)

TakeRows(t, pc, ids) ==
    /\ TaskAt(t, "idle") /\ CapBegins /\ ids # {}
    /\ TaskPut(t, [Resting EXCEPT !.pc = pc, !.rows = {[id |-> i, subject |-> cap[i].subject] : i \in ids}])
    /\ contested' = contested \cup {i \in ids : \E u \in Tasks \ {t} : i \in InHand(u)}
    /\ UNCHANGED <<cap, capBorn, capVec, capFaults, rcache, outdated>>

(* Mutant: whatever is under the prefix is cleaned up. *)
CleanupAll(t) == \E x \in Prefixes \cup {Operations} : TakeRows(t, "clean", {i \in CapIds : cap[i].op \in x})

CleanupBegins(t) ==
    \E x \in Prefixes \cup {Operations} : TakeRows(t, "clean", {i \in CapIds : cap[i].missed /\ cap[i].op \in x})

CleanupDeletes(t) ==
    \E m \in task[t].rows :
        LET rest == task[t].rows \ {m} IN
        /\ TaskAt(t, "clean") /\ IF rest = {} THEN TaskEnds(t) ELSE TaskPut(t, [task[t] EXCEPT !.rows = rest])
        /\ (Removed(m.id) /\ UNCHANGED capFaults) \/ (CapFault /\ UNCHANGED <<cap, capVec>>)
        /\ UNCHANGED <<capBorn, capBegun, rcache, contested, outdated>>

SyncBegins(t) == TakeRows(t, "sync", {i \in CapIds : Listed(i)})

SyncEmbeds(t) ==
    \E m \in task[t].rows :
        LET rest == task[t].rows \ {m} IN
        /\ TaskAt(t, "sync")
        /\ VectorUpdated(m.id, m.subject,
               IF rest = {} THEN TaskEnds(t) ELSE TaskPut(t, [task[t] EXCEPT !.rows = rest]))
        /\ UNCHANGED <<cap, capBorn, capBegun, rcache, contested>>

-----------------------------------------------------------------------------
(* capability_match: the nearest vectors, the rows they belong to, and a   *)
(* rerank by a model when there are more than asked for.                   *)

MatchVectors(t) ==
    /\ TaskAt(t, "idle") /\ CapBegins
    /\ \E q \in Subjects :
           LET near == {i \in CapIds : q \in capVec[i]}
               cut  == IF Cardinality(near) < RecallLimit THEN Cardinality(near) ELSE RecallLimit
           IN  \E h \in kSubset(cut, near) :
                   h # {} /\ TaskPut(t, [Resting EXCEPT !.pc = "load", !.query = q, !.hits = h])
    /\ UNCHANGED <<cap, capBorn, capVec, capFaults, rcache, contested, outdated>>

(* What is shown: all of it, or as many as were asked for.                 *)
Shown(ids) == IF Cardinality(ids) <= CapLimit THEN {ids} ELSE kSubset(CapLimit, ids)

MatchLoads(t) ==
    LET ids == {i \in task[t].hits : Listed(i)} IN
    /\ TaskAt(t, "load")
    /\ \/ /\ ids # {} /\ UNCHANGED capFaults
          /\ IF Cardinality(ids) > CapLimit THEN TaskPut(t, [task[t] EXCEPT !.pc = "rerank", !.hits = ids])
             ELSE TaskPut(t, [task[t] EXCEPT !.pc = "shown", !.hits = ids, !.found = ids])
       \/ ids = {} /\ TaskEnds(t) /\ UNCHANGED capFaults
       \/ CapFault /\ TaskEnds(t)
    /\ UNCHANGED <<cap, capBorn, capVec, capBegun, rcache, contested, outdated>>

MatchShows(t, ids) == \E s \in Shown(ids) : TaskPut(t, [task[t] EXCEPT !.pc = "shown", !.found = s])

(* Mutant: the cached ids are taken as they are. *)
RebuildAll(ids, candidates) == ids

RebuildFromCache(ids, candidates) == ids \cap candidates

(* The cache has an answer to the same intent, of whatever candidates      *)
(* there were then: what of it is a candidate now is the answer.           *)
RerankFromCache(t) ==
    LET kept == RebuildFromCache(rcache[task[t].query], task[t].hits) IN
    /\ TaskAt(t, "rerank") /\ kept # {} /\ MatchShows(t, kept)
    /\ UNCHANGED <<cap, capBorn, capVec, capBegun, capFaults, rcache, contested, outdated>>

(* Otherwise the model says which are relevant; indexes it makes up are    *)
(* passed over.  An error, no answer or none that is relevant leaves the   *)
(* candidates as they were.                                                *)
RerankByModel(t) ==
    LET c == task[t].hits IN
    /\ TaskAt(t, "rerank") /\ RebuildFromCache(rcache[task[t].query], c) = {}
    /\ \/ /\ \E r \in SUBSET c : rcache' = [rcache EXCEPT ![task[t].query] = r] /\ MatchShows(t, IF r = {} THEN c ELSE r)
          /\ UNCHANGED capFaults
       \/ CapFault /\ MatchShows(t, c) /\ UNCHANGED rcache
    /\ UNCHANGED <<cap, capBorn, capVec, capBegun, contested, outdated>>

MatchReturns(t) ==
    /\ TaskAt(t, "shown") /\ TaskEnds(t)
    /\ UNCHANGED <<cap, capBorn, capVec, capBegun, capFaults, rcache, contested, outdated>>

(* The operator stops a command, or it dies, after any statement.          *)
TaskDies(t) ==
    /\ ~TaskAt(t, "idle") /\ CapFault /\ TaskEnds(t)
    /\ outdated' = IF task[t].pc \in {"created", "changed"} THEN outdated \cup {task[t].id} ELSE outdated
    /\ UNCHANGED <<cap, capBorn, capVec, capBegun, rcache, contested>>

CacheExpires ==
    /\ \E q \in Subjects : rcache[q] # {} /\ rcache' = [rcache EXCEPT ![q] = {}]
    /\ UNCHANGED <<cap, capBorn, capVec, task, capBegun, capFaults, contested, outdated>>

-----------------------------------------------------------------------------
CapStep(t) ==
    \/ ImportBegins(t) \/ ImportLook(t) \/ ImportSkips(t) \/ ImportUpdates(t) \/ ImportCreates(t) \/ ImportEmbeds(t)
    \/ ImportEnds(t) \/ ImportMarks(t) \/ ImportMarked(t)
    \/ CleanupBegins(t) \/ CleanupDeletes(t) \/ SyncBegins(t) \/ SyncEmbeds(t)
    \/ MatchVectors(t) \/ MatchLoads(t) \/ RerankFromCache(t) \/ RerankByModel(t) \/ MatchReturns(t)
    \/ TaskDies(t)

CapNext == (\E t \in Tasks : CapStep(t)) \/ CacheExpires

CapSpec == CapInit /\ [][CapNext]_capVars
=============================================================================
