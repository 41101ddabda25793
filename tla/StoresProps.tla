----------------------------- MODULE StoresProps -----------------------------
(***************************************************************************)
(* What the stores promise together, over their own properties.            *)
(***************************************************************************)
EXTENDS Stores, CorpusProps, MemoryProps, SkillsProps, CapabilityProps, RecordsProps

(* Whatever somebody is shown belongs to the user, was published to the    *)
(* channel the user reads on, or came from the user's own calls: memories  *)
(* (convo_x.go:682-687), skills and their files (skills_x.go:58-79) and    *)
(* records of tool results (convo_record_x.go:118-136), although each is   *)
(* looked up by something that others share, a vector, a name, a handle.   *)
OnlyOwnShown == OwnMemoriesSeen /\ SeenWasVisible /\ ReadsAreOwn

(* A memory or a skill changes hands or goes only by a request of its      *)
(* owner (for a memory also of a keeper), although the row is found in one *)
(* step and changed in a later one (convo_x.go:577-604,                    *)
(* skills_x.go:201-209, handle_skills_x.go:282-350).                       *)
OnlyOwnChanged == OwnMemoriesDeleted /\ OwnSkillsChanged

(* What is derived from a row follows the row: the vectors a document, a   *)
(* memory and a capability are found by, which are written in steps of     *)
(* their own from copies of the row (corpus_x.go:337-585,                  *)
(* convo_x.go:213-402, capability_x.go:73-152), and the columns of a skill *)
(* taken from its text (models skills_x.go:233-266).                       *)
DerivedFollows ==
    /\ FoundByTitle
    /\ UnembeddedMemoryHasCause /\ SyncedIsFound
    /\ VectorFollows /\ NoVectorWithoutRow
    /\ ColumnsMirrorText
=============================================================================
