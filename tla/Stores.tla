------------------------------- MODULE Stores -------------------------------
(***************************************************************************)
(* The stores behind one Wrap: documents, memories, skills, capabilities,  *)
(* records of tool results.                                                *)
(* They share the database and the embedding service, but no row: no step  *)
(* of one reads or writes what another one keeps, but for the places its   *)
(* vectors take among the nearest (Memory lets a search find fewer).  So   *)
(* what is true of a store while the others rest is true whatever they do, *)
(* and a behaviour keeps to one of them.                                   *)
(***************************************************************************)
EXTENDS Corpus, Memory, Skills, Capability, Records

VARIABLE store      \* the store that is used

StoresInit ==
    /\ DocInit /\ MemInit /\ SkillInit /\ CapInit /\ RecInit
    /\ store \in {"corpus", "memory", "skill", "capability", "record"}
    /\ store # "capability" => capBorn = 0
    /\ store # "record" => recMax = CHOOSE n \in Settings : TRUE

UseCorpus     == store = "corpus" /\ DocNext /\ UNCHANGED <<memVars, skillVars, capVars, recVars, store>>
UseMemory     == store = "memory" /\ MemNext /\ UNCHANGED <<docVars, skillVars, capVars, recVars, store>>
UseSkill      == store = "skill" /\ SkillNext /\ UNCHANGED <<docVars, memVars, capVars, recVars, store>>
UseCapability == store = "capability" /\ CapNext /\ UNCHANGED <<docVars, memVars, skillVars, recVars, store>>
UseRecord     == store = "record" /\ RecNext /\ UNCHANGED <<docVars, memVars, skillVars, capVars, store>>

StoresNext == UseCorpus \/ UseMemory \/ UseSkill \/ UseCapability \/ UseRecord

StoresSpec == StoresInit /\ [][StoresNext]_<<docVars, memVars, skillVars, capVars, recVars, store>>
=============================================================================
