--------------------------- MODULE CapabilityProps ---------------------------
(* What the catalogue promises to the operator and to the search.          *)
EXTENDS Capability

(* Every variable of Capability has its type, and every task works on rows *)
(* that were created.                                                      *)
CapTypeOK ==
    /\ \A i \in CapIds : Listed(i) =>
           i <= capBorn /\ cap[i].op \in Operations /\ cap[i].subject \in Subjects /\ cap[i].missed \in BOOLEAN
    /\ capVec \in [CapIds -> SUBSET Subjects] /\ rcache \in [Subjects -> SUBSET CapIds]
    /\ contested \cup outdated \subseteq CapIds /\ capFaults \in 0..MaxCapFaults
    /\ \A t \in Tasks : InHand(t) \subseteq 0..capBorn

Rewritten(i) == \E t \in Tasks : task[t].pc \in {"created", "changed"} /\ task[t].id = i

(* A row is found by its own subject and by no former one: whatever        *)
(* imports, marks and embedding commands did to it, its only vector is of  *)
(* the subject it has, unless two commands had it in hand together or the  *)
(* last one that had it could not write (capability_x.go:73-136).          *)
VectorFollows ==
    \A i \in CapIds : Listed(i) /\ ~Rewritten(i) /\ i \notin contested \cup outdated => capVec[i] = {cap[i].subject}

(* No vector outlives its row, so no search is given a row that has gone,  *)
(* unless two commands had it in hand together                             *)
(* (capability_x.go:148-152, capability_gen.go DeleteCapability).          *)
NoVectorWithoutRow ==
    \A i \in CapIds : ~Listed(i) /\ i \notin contested => capVec[i] = {}

(* A row disappears only by a cleanup, once an import found it missing,    *)
(* or by an import whose document tags its operation skipai                *)
(* (capability_x.go:456-468, 654-686).                                     *)
OnlyMissedOrTaggedGo ==
    [][\A i \in CapIds : Listed(i) /\ ~Listed(i)' =>
           \/ cap[i].missed /\ \E t \in Tasks : TaskAt(t, "clean")
           \/ \E t \in Tasks : TaskAt(t, "entry") /\ task[t].op = cap[i].op /\ Entry(t).skip]_capVars

(* What a search shows are candidates of this search, not of the one that  *)
(* filled the cache, at most as many as asked for, and something whenever  *)
(* there was a candidate, whatever the cache, the model and the rows that  *)
(* vanish do (capability_x.go:184-272, 318-330, 573-615).                  *)
ShownAreCandidates ==
    \A t \in Tasks : TaskAt(t, "shown") =>
        task[t].found # {} /\ task[t].found \subseteq task[t].hits /\ Cardinality(task[t].found) <= CapLimit
=============================================================================
