----------------------------- MODULE MemoryProps -----------------------------
(* What the store promises about the memories of the users.                *)
EXTENDS Memory

(* Every variable of Memory has its type.                                  *)
MemTypeOK ==
    /\ \A i \in MemIds : Exists(i) =>
           /\ i <= memBorn /\ mem[i].owner \in Users /\ mem[i].key \in Keys
           /\ mem[i].content \in Contents /\ mem[i].tier \in Tiers /\ mem[i].count \in Nat
    /\ memBorn \in 0..MaxMemories /\ vec \in [MemIds -> SUBSET Contents]
    /\ memShown \subseteq Users \X Users /\ memFaults \in 0..MaxMemFaults /\ unembedded \subseteq MemIds

(* Whatever an ordinary user lists, opens or recalls is a memory of the    *)
(* user, although the vectors searched are those of everybody              *)
(* (convo_x.go:244-267, 682-687).                                          *)
OwnMemoriesSeen == \A s \in memShown : s[1] \in Users \ Keepers => s[2] = s[1]

(* A memory disappears only by a request of its owner or of a keeper that  *)
(* names it, whatever keys match and however requests overlap              *)
(* (convo_x.go:577-604, 672-680).                                          *)
OwnMemoriesDeleted ==
    [][\A i \in MemIds : Exists(i) /\ mem'[i] = NoRow =>
           \E p \in Callers : MemAt(p, "delete") /\ memReq[p].id = i /\ memReq[p].as \in Keepers \cup {mem[i].owner}]_memVars

(* A memory without a vector, which no recall can find, is being created   *)
(* or its creator could not embed it (convo_x.go:213-236, 671-680).        *)
UnembeddedMemoryHasCause ==
    \A i \in MemIds : Exists(i) /\ vec[i] = {} =>
        i \in unembedded \/ \E p \in Callers : memReq[p].pc \in {"embed", "vector"} /\ memReq[p].id = i

(* A row the embedding command has been through can be found by the        *)
(* content the command read, whoever created, changed or recalled it in    *)
(* the meantime (convo_x.go:365-402).                                      *)
SyncedIsFound ==
    \A p \in Callers : \A m \in memReq[p].done : Exists(m.id) => m.content \in vec[m.id]
=============================================================================
