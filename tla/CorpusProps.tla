---------------------------- MODULE CorpusProps ----------------------------
(* What the knowledge base promises to its editors and to its readers.     *)
EXTENDS Corpus

(* Every variable of Corpus has its type, and a title and heading name one *)
(* document.                                                               *)
DocTypeOK ==
    /\ \A i \in DocIds : There(i) => i <= docBorn /\ doc[i].key \in DocKeys /\ doc[i].text \in Texts
    /\ \A i, j \in DocIds : There(i) /\ There(j) /\ i # j => doc[i].key # doc[j].key
    /\ docVec \in [DocIds -> SUBSET [key : DocKeys, words : Texts \cup {Blank}]] /\ docStale \subseteq DocIds
    /\ \A e \in Editors : docReq[e].id \in 0..docBorn /\ docReq[e].others \subseteq DocKeys

(* How far an import has come.                                             *)
Passed(e)    == 1..(IF docReq[e].n = 0 THEN 0 ELSE docReq[e].n - 1)
Full(e, n)   == docReq[e].file[n].kind = "full"
LastOf(e, n) == ~\E m \in Passed(e) : m > n /\ Full(e, m) /\ docReq[e].file[m].key = docReq[e].file[n].key

(* What an import has passed is in the knowledge base: for every line but  *)
(* those with an empty field there is a document with its content, the one *)
(* of the last such line, whatever failed meanwhile; only a key somebody   *)
(* else changed at the same time is excepted.  So an import that ends      *)
(* without an error has imported all of its file                           *)
(* (corpus_x.go:89-131, 294-323).                                          *)
ImportedIsThere ==
    \A e \in Editors : \A n \in Passed(e) :
        LET l == docReq[e].file[n] IN
        Full(e, n) /\ LastOf(e, n) /\ l.key \notin docReq[e].others =>
            \E i \in DocIds : doc[i] = [key |-> l.key, text |-> l.text]

InCreation(i) == \E e \in Editors : DocAt(e, "embed") /\ docReq[e].id = i

(* A document is found by its title and heading, whatever imports, changes *)
(* and embedding commands crossed each other, unless its creator could not *)
(* embed it or the last vector written is of a title it no longer has      *)
(* (corpus_x.go:337-357, 385-417, 541-585).                                *)
FoundByTitle ==
    \A i \in DocIds : There(i) /\ ~InCreation(i) /\ i \notin docStale => i \in Near(doc[i].key)
=============================================================================
