----------------------------- MODULE SkillsProps -----------------------------
(* What the store of the skills promises to their owners and readers.      *)
EXTENDS Skills

(* Every variable of Skills has its type.                                  *)
SkillTypeOK ==
    /\ \A i \in SkillIds : Kept(i) =>
           /\ i <= skillBorn /\ skill[i].name \in Names /\ skill[i].owner \in Owners /\ skill[i].channels \in Published
           /\ skill[i].meta \in Metas /\ skill[i].text \in [of : Metas, full : BOOLEAN]
    /\ skillFiles \in [SkillIds -> SUBSET Paths] /\ edited \subseteq SkillIds /\ skillBegun \in 0..MaxSkillRequests
    /\ skillSeen \subseteq (Owners \cup {Nobody}) \X Owners \X BOOLEAN

(* A skill changes or goes only by a request of its owner that named it:   *)
(* not by another import or creation of the name, and not by a request     *)
(* that read an earlier skill of the same name                             *)
(* (skills_x.go:201-209, handle_skills_x.go:282-317, 336-350).     *)
OwnSkillsChanged ==
    [][\A i \in SkillIds : Kept(i) /\ skill'[i] # skill[i] =>
           \E p \in Askers : ask[p].pc \in {"update", "delete"} /\ ask[p].as = skill[i].owner /\ ask'[p] = NoAsk]_skillVars

(* The columns say what the frontmatter of the text said, an import having *)
(* stripped it or not, unless a request set columns without a text since   *)
(* (skills_x.go:217-220, 230-234, 253-260; models skills_x.go:233-255).    *)
ColumnsMirrorText ==
    \A i \in SkillIds : Kept(i) /\ i \notin edited => skill[i].meta = skill[i].text.of

(* Lists, texts and files go only to the owner or to the channel a skill   *)
(* is shown on when it is read, also when the name has passed to another   *)
(* skill between the text and the files (skills_x.go:58-79, 110-171).      *)
SeenWasVisible == \A s \in skillSeen : s[1] = s[2] \/ s[3]
=============================================================================
