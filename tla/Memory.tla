------------------------------- MODULE Memory -------------------------------
(***************************************************************************)
(* The memories of the users: rows of convo_memory and their vectors in    *)
(* the table they share with the documents.  A user's requests and the     *)
(* tool calls of the model store, recall, list, change and forget them; an *)
(* embedding command of the operator fills in missing vectors.             *)
(*                                                                         *)
(* A step is one statement or transaction of the database or one embedding *)
(* call.  A text is its content, and two texts are near when they have the *)
(* same content.  Categories, scores and times are left out, with them the *)
(* order of results, which the last query sorts by creation anyway.        *)
(***************************************************************************)
EXTENDS Naturals, FiniteSets, FiniteSetsExt

CONSTANTS
    Callers,          \* requests in progress at the same time
    Users, Keepers,   \* logged-in users, those with the role of a keeper
    Keys, Alike,      \* keys of memories; pairs an iLIKE matches although they differ
    Contents, Score,  \* contents, and their importance: 0, 1 or 2
    MaxMemories,      \* bound: rows ever created
    MaxMemRequests,   \* bound: requests
    MatchLimit,       \* results of a vector search
    SyncLimit,        \* rows an embedding command takes
    PromoteW2S, PromoteS2L, \* accesses that promote a memory
    MaxMemFaults      \* bound: failing calls

ASSUME MemoryAssumption ==
    /\ Keepers \subseteq Users /\ {"none", "cli"} \cap Users = {}
    /\ Alike \subseteq Keys \X Keys /\ Score \in [Contents -> 0..2]
    /\ {MaxMemories, MaxMemRequests, MatchLimit, SyncLimit, PromoteW2S, PromoteS2L, MaxMemFaults} \subseteq Nat

VARIABLES
    mem,        \* id -> row
    memBorn,    \* rows created so far
    vec,        \* id -> contents of its vectors
    memReq,     \* caller -> where its request is
    memBegun,   \* requests so far
    memShown,   \* <<reader, owner>> of the rows the last step showed to an ordinary user
    memFaults,
    unembedded  \* ids whose creator could not make the vector

memVars == <<mem, memBorn, vec, memReq, memBegun, memShown, memFaults, unembedded>>

None   == "none"
Cli    == "cli"     \* a command of the operator: no login
All    == "all"
MemIds == 1..MaxMemories
Tiers  == {"working", "short-term", "long-term"}

NoRow   == [owner |-> None, key |-> None, content |-> None, tier |-> None, count |-> 0]
Exists(i) == mem[i] # NoRow

MemIdle  == [pc |-> "idle", as |-> None, key |-> None, content |-> None, tier |-> None,
             id |-> 0, hits |-> {}, rows |-> {}, done |-> {}]

MemInit ==
    /\ mem = [i \in MemIds |-> NoRow] /\ memBorn = 0 /\ vec = [i \in MemIds |-> {}]
    /\ memReq = [p \in Callers |-> MemIdle] /\ memBegun = 0 /\ memShown = {} /\ memFaults = 0 /\ unembedded = {}

-----------------------------------------------------------------------------
(* Whom a request may concern.  Without a login (the operator's commands)  *)
(* and for a keeper there is no restriction.                               *)

Restricted(as) == as # Cli /\ as \notin Keepers

(* Mutant: whoever is logged in may change any row. *)
AllowedToAll(as, owner) == as \in Users \cup {Cli}

Allowed(as, owner) == Restricted(as) => as = owner

(* The owners a list is narrowed to: `wanted` and `own` come from the      *)
(* query and count for nothing when an ordinary user asks.                 *)
(* Mutant: a filter in the query goes before the login. *)
ScopeAsked(as, wanted, own) ==
    IF wanted # All THEN {wanted} ELSE IF Restricted(as) \/ (as \in Keepers /\ own) THEN {as} ELSE Users

Scope(as, wanted, own) ==
    CASE Restricted(as) -> {as}
      [] ~Restricted(as) /\ wanted # All -> {wanted}
      [] ~Restricted(as) /\ wanted = All -> IF as \in Keepers /\ own THEN {as} ELSE Users

Like(pattern, key) == pattern = key \/ <<pattern, key>> \in Alike

Mine(as, key) == {i \in MemIds : mem[i].owner = as /\ Like(key, mem[i].key)}

-----------------------------------------------------------------------------
(* Tiers *)

RouteTier(score) == IF score >= 2 THEN "long-term" ELSE IF score >= 1 THEN "short-term" ELSE "working"

PromoteTier(tier, count) ==
    CASE tier = "working" /\ count >= PromoteW2S -> "short-term"
      [] tier = "short-term" /\ count >= PromoteS2L -> "long-term"
      [] OTHER -> tier

-----------------------------------------------------------------------------
(* Helpers of the steps *)

MemAt(p, pc)  == memReq[p].pc = pc
MemPut(p, r)  == memReq' = [memReq EXCEPT ![p] = r]
MemEnds(p)    == MemPut(p, MemIdle)
MemBegin(p, pc, as) == [MemIdle EXCEPT !.pc = pc, !.as = as]
MemBegins     == memBegun < MaxMemRequests /\ memBegun' = memBegun + 1
MemFault      == memFaults < MaxMemFaults /\ memFaults' = memFaults + 1
MemShow(as, ids) ==
    memShown' = {<<as, mem[i].owner>> : i \in {j \in ids : Restricted(as)}}

-----------------------------------------------------------------------------
(* memory_store: a row of the caller with that key gets the new content,   *)
(* otherwise a new one is created; a failing query counts as no row.       *)

MemStore(p) ==
    /\ MemAt(p, "idle") /\ MemBegins
    /\ \E as \in Users, k \in Keys, c \in Contents :
           LET new == [MemBegin(p, "create", as) EXCEPT !.key = k, !.content = c, !.tier = RouteTier(Score[c])]
           IN  \/ \E i \in Mine(as, k) :
                      MemPut(p, [new EXCEPT !.pc = "write", !.id = i]) /\ UNCHANGED memFaults
               \/ Mine(as, k) = {} /\ MemPut(p, new) /\ UNCHANGED memFaults
               \/ MemFault /\ MemPut(p, new)
    /\ UNCHANGED <<mem, memBorn, vec, unembedded>> /\ memShown' = {}

(* The vector and the tier stay those of the old content.                  *)
MemWrite(p) ==
    /\ MemAt(p, "write") /\ MemEnds(p)
    /\ \/ /\ mem' = IF Exists(memReq[p].id) THEN [mem EXCEPT ![memReq[p].id].content = memReq[p].content] ELSE mem
          /\ UNCHANGED memFaults
       \/ MemFault /\ UNCHANGED mem
    /\ UNCHANGED <<memBegun, memBorn, vec, unembedded>> /\ memShown' = {}

(* POST /api/convo/memories: the login owns the row, the body says the rest. *)
MemPost(p) ==
    /\ MemAt(p, "idle") /\ MemBegins
    /\ \E as \in Users, k \in Keys, c \in Contents, t \in Tiers :
           MemPut(p, [MemBegin(p, "create", as) EXCEPT !.key = k, !.content = c, !.tier = t])
    /\ UNCHANGED <<mem, memBorn, vec, memFaults, unembedded>> /\ memShown' = {}

(* One row for an owner and a key, to the letter.                          *)
MemTaken(as, k) == \E i \in MemIds : mem[i].owner = as /\ mem[i].key = k

MemCreate(p) ==
    LET r == memReq[p] IN
    /\ MemAt(p, "create")
    /\ \/ /\ ~MemTaken(r.as, r.key) /\ memBorn < MaxMemories /\ memBorn' = memBorn + 1
          /\ mem' = [mem EXCEPT ![memBorn + 1] =
                        [owner |-> r.as, key |-> r.key, content |-> r.content, tier |-> r.tier, count |-> 0]]
          /\ MemPut(p, [r EXCEPT !.pc = "embed", !.id = memBorn + 1]) /\ UNCHANGED memFaults
       \/ MemTaken(r.as, r.key) /\ MemEnds(p) /\ UNCHANGED <<mem, memBorn, memFaults>>
       \/ MemFault /\ MemEnds(p) /\ UNCHANGED <<mem, memBorn>>
    /\ UNCHANGED <<memBegun, vec, unembedded>> /\ memShown' = {}

(* afterCreatedMemory, once the row is committed: an error is returned but *)
(* the row stays, without a vector.                                        *)
MemGivesUp(p) == MemEnds(p) /\ unembedded' = unembedded \cup {memReq[p].id}

MemEmbed(p) ==
    /\ MemAt(p, "embed")
    /\ \/ MemPut(p, [memReq[p] EXCEPT !.pc = "vector"]) /\ UNCHANGED <<memFaults, unembedded>>
       \/ MemFault /\ MemGivesUp(p)
    /\ UNCHANGED <<memBegun, mem, memBorn, vec>> /\ memShown' = {}

MemAddVector(p) ==
    /\ MemAt(p, "vector")
    /\ \/ /\ vec' = [vec EXCEPT ![memReq[p].id] = @ \cup {memReq[p].content}]
          /\ MemEnds(p) /\ UNCHANGED <<memFaults, unembedded>>
       \/ MemFault /\ MemGivesUp(p) /\ UNCHANGED vec
    /\ UNCHANGED <<memBegun, mem, memBorn>> /\ memShown' = {}

-----------------------------------------------------------------------------
(* memory_forget finds a row of the caller by its key; DELETE names any    *)
(* row.  The transaction checks the owner and removes vector and row.      *)

MemForget(p) ==
    /\ MemAt(p, "idle") /\ MemBegins
    /\ \E as \in Users, k \in Keys : \E i \in Mine(as, k) : MemPut(p, [MemBegin(p, "delete", as) EXCEPT !.id = i])
    /\ UNCHANGED <<mem, memBorn, vec, memFaults, unembedded>> /\ memShown' = {}

MemDeleteRequest(p) ==
    /\ MemAt(p, "idle") /\ MemBegins
    /\ \E as \in Users, i \in MemIds : Exists(i) /\ MemPut(p, [MemBegin(p, "delete", as) EXCEPT !.id = i])
    /\ UNCHANGED <<mem, memBorn, vec, memFaults, unembedded>> /\ memShown' = {}

(* Mutant: the vector goes outside the transaction of the row. *)
MemDeleteTorn(p) ==
    LET i == memReq[p].id IN
    /\ MemAt(p, "delete") /\ MemEnds(p)
    /\ \/ /\ Exists(i) /\ Allowed(memReq[p].as, mem[i].owner)
          /\ mem' = [mem EXCEPT ![i] = NoRow] /\ vec' = [vec EXCEPT ![i] = {}] /\ UNCHANGED memFaults
       \/ ~(Exists(i) /\ Allowed(memReq[p].as, mem[i].owner)) /\ UNCHANGED <<mem, vec, memFaults>>
       \/ MemFault /\ vec' = [vec EXCEPT ![i] = {}] /\ UNCHANGED mem
    /\ UNCHANGED <<memBegun, memBorn, unembedded>> /\ memShown' = {}

MemDelete(p) ==
    LET i == memReq[p].id IN
    /\ MemAt(p, "delete") /\ MemEnds(p)
    /\ \/ /\ Exists(i) /\ Allowed(memReq[p].as, mem[i].owner)
          /\ mem' = [mem EXCEPT ![i] = NoRow] /\ vec' = [vec EXCEPT ![i] = {}] /\ UNCHANGED memFaults
       \/ ~(Exists(i) /\ Allowed(memReq[p].as, mem[i].owner)) /\ UNCHANGED <<mem, vec, memFaults>>
       \/ MemFault /\ UNCHANGED <<mem, vec>>
    /\ UNCHANGED <<memBegun, memBorn, unembedded>> /\ memShown' = {}

(* PUT: one transaction; the set has no owner and no key.                  *)
MemUpdate ==
    /\ MemBegins
    /\ \E as \in Users, i \in MemIds :
           /\ Exists(i) /\ Allowed(as, mem[i].owner)
           /\ \/ \E c \in Contents : mem' = [mem EXCEPT ![i].content = c]
              \/ \E t \in Tiers : mem' = [mem EXCEPT ![i].tier = t]
              \/ mem' = [mem EXCEPT ![i].count = 0]
    /\ UNCHANGED <<memBorn, vec, memReq, memFaults, unembedded>> /\ memShown' = {}

-----------------------------------------------------------------------------
(* Reading: lists of the API and of memory_list, which asks for the own    *)
(* rows, and the detail of one row.                                        *)

MemList ==
    /\ MemBegins
    /\ \E as \in Users, wanted \in Users \cup {All}, own \in BOOLEAN :
           MemShow(as, {i \in MemIds : Exists(i) /\ mem[i].owner \in Scope(as, wanted, own)})
    /\ UNCHANGED <<mem, memBorn, vec, memReq, memFaults, unembedded>>

MemGet ==
    /\ MemBegins
    /\ \E as \in Users, i \in MemIds : Exists(i) /\ Allowed(as, mem[i].owner) /\ MemShow(as, {i})
    /\ UNCHANGED <<mem, memBorn, vec, memReq, memFaults, unembedded>>

(* memory_recall: the nearest vectors of everybody, cut off at the limit,  *)
(* of which the vectors of documents in the same table may use up a part;  *)
(* then the rows of those the caller may see, then one write for each row  *)
(* that counts the access from the copy just read.                         *)
MemRecall(p) ==
    /\ MemAt(p, "idle") /\ MemBegins
    /\ \E as \in Users, q \in Contents :
           LET near == {i \in MemIds : q \in vec[i]}
           IN  \E h \in SUBSET near :
                   h # {} /\ Cardinality(h) <= MatchLimit /\ MemPut(p, [MemBegin(p, "load", as) EXCEPT !.hits = h])
    /\ UNCHANGED <<mem, memBorn, vec, memFaults, unembedded>> /\ memShown' = {}

MemLoad(p) ==
    LET as  == memReq[p].as
        ids == {i \in memReq[p].hits : Exists(i) /\ mem[i].owner \in Scope(as, All, FALSE)}
    IN  /\ MemAt(p, "load")
        /\ \/ MemShow(as, ids) /\ UNCHANGED memFaults
              /\ IF ids = {} THEN MemEnds(p)
                 ELSE MemPut(p, [MemBegin(p, "reinforce", as) EXCEPT
                                     !.rows = {[id |-> i, tier |-> mem[i].tier, count |-> mem[i].count] : i \in ids}])
           \/ MemFault /\ MemEnds(p) /\ memShown' = {}
        /\ UNCHANGED <<memBegun, mem, memBorn, vec, unembedded>>

MemReinforce(p) ==
    \E m \in memReq[p].rows :
        LET left == memReq[p].rows \ {m} IN
        /\ MemAt(p, "reinforce")
        /\ IF left = {} THEN MemEnds(p) ELSE MemPut(p, [memReq[p] EXCEPT !.rows = left])
        /\ \/ /\ mem' = IF ~Exists(m.id) THEN mem
                        ELSE [mem EXCEPT ![m.id].count = m.count + 1,
                                         ![m.id].tier = LET t == PromoteTier(m.tier, m.count + 1)
                                                        IN  IF t # m.tier THEN t ELSE @]
              /\ UNCHANGED memFaults
           \/ MemFault /\ UNCHANGED mem
        /\ UNCHANGED <<memBegun, memBorn, vec, unembedded>> /\ memShown' = {}

-----------------------------------------------------------------------------
(* The embedding command: the first rows by id, one after the other; the   *)
(* first error ends it.  Bound: one such command at a time.                *)

SyncRows == {i \in MemIds : Exists(i) /\ Cardinality({j \in MemIds : Exists(j) /\ j < i}) < SyncLimit}

MemSyncList(p) ==
    /\ MemAt(p, "idle") /\ MemBegins /\ \A o \in Callers : memReq[o].as # Cli
    /\ MemPut(p, [MemBegin(p, "sync", Cli) EXCEPT !.rows = {[id |-> i, content |-> mem[i].content] : i \in SyncRows}])
    /\ UNCHANGED <<mem, memBorn, vec, memFaults, unembedded>> /\ memShown' = {}

(* Mutant: only vectors that are there are refreshed. *)
RefreshOnly(i, c) ==
    IF vec[i] = {} THEN UNCHANGED vec ELSE \E v \in vec[i] : vec' = [vec EXCEPT ![i] = (@ \ {v}) \cup {c}]

(* One of the row's vectors is replaced, or a first one is added; a failing *)
(* lookup counts as none.                                                  *)
Refresh(i, c) ==
    IF vec[i] = {} THEN vec' = [vec EXCEPT ![i] = {c}] ELSE \E v \in vec[i] : vec' = [vec EXCEPT ![i] = (@ \ {v}) \cup {c}]

MemSyncOne(p) ==
    \E m \in memReq[p].rows :
        /\ MemAt(p, "sync") /\ \A o \in memReq[p].rows : m.id <= o.id
        /\ \/ /\ \/ Refresh(m.id, m.content) /\ UNCHANGED memFaults
                 \/ MemFault /\ vec' = [vec EXCEPT ![m.id] = @ \cup {m.content}]
              /\ MemPut(p, [memReq[p] EXCEPT !.rows = @ \ {m}, !.done = @ \cup {m}])
           \/ MemFault /\ MemEnds(p) /\ UNCHANGED vec
        /\ UNCHANGED <<memBegun, mem, memBorn, unembedded>> /\ memShown' = {}

MemSyncEnd(p) ==
    /\ MemAt(p, "sync") /\ memReq[p].rows = {} /\ MemEnds(p)
    /\ UNCHANGED <<memBegun, mem, memBorn, vec, memFaults, unembedded>> /\ memShown' = {}

-----------------------------------------------------------------------------
MemStep(p) ==
    \/ MemStore(p) \/ MemWrite(p) \/ MemPost(p) \/ MemCreate(p) \/ MemEmbed(p) \/ MemAddVector(p)
    \/ MemForget(p) \/ MemDeleteRequest(p) \/ MemDelete(p)
    \/ MemRecall(p) \/ MemLoad(p) \/ MemReinforce(p)
    \/ MemSyncList(p) \/ MemSyncOne(p) \/ MemSyncEnd(p)

MemNext == (\E p \in Callers : MemStep(p)) \/ MemUpdate \/ MemList \/ MemGet

MemSpec == MemInit /\ [][MemNext]_memVars
=============================================================================
