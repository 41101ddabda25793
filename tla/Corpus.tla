------------------------------- MODULE Corpus -------------------------------
(***************************************************************************)
(* The documents of the knowledge base and their vectors: the tool that    *)
(* creates a document, the operator's import of a CSV file, which creates  *)
(* and overwrites, changes and deletions through the API, and the command  *)
(* that embeds documents.  The lines of a queued import (ImportTask) are   *)
(* to this module creations like those of the tool: a second document of a *)
(* title and heading is refused.                                           *)
(*                                                                         *)
(* A key is a title with its heading.  A vector stands for the text that   *)
(* was embedded: the key, and the words of the content an embedding        *)
(* command adds.  A step is one statement or transaction with the read it  *)
(* starts from, with the calls of models it waits for.                     *)
(***************************************************************************)
EXTENDS Naturals, Sequences, FiniteSets

CONSTANTS
    Editors,         \* requests and commands in progress at the same time
    DocKeys, Texts,  \* titles with headings, contents
    Files,           \* CSV files: sequences of lines [kind, key, text]
    MaxDocs,         \* bound: documents ever created
    MaxDocRequests,  \* bound: requests and commands
    MaxDocFaults,    \* bound: failing calls
    DocLimit         \* documents an embedding command lists

Blank == ""

ASSUME CorpusAssumption ==
    /\ {MaxDocs, MaxDocRequests, MaxDocFaults, DocLimit} \subseteq Nat /\ Blank \notin DocKeys
    /\ Files \subseteq Seq([kind : {"full", "empty", "broken"}, key : DocKeys, text : Texts \cup {Blank}])
    /\ \A f \in Files : \A n \in DOMAIN f : f[n].kind = "full" => f[n].text \in Texts

VARIABLES
    doc,        \* id -> [key, text]
    docBorn,    \* documents created so far
    docVec,     \* id -> embedded texts [key, words]
    docReq,     \* editor -> where its request is
    docBegun,   \* requests so far
    docFaults,
    docStale    \* ids whose vector is missing or of a former key, for a known cause

docVars == <<doc, docBorn, docVec, docReq, docBegun, docFaults, docStale>>

DocIds == 1..MaxDocs

NoDoc  == [key |-> Blank, text |-> Blank]
There(i) == doc[i] # NoDoc

(* `others` are the keys somebody else changed since the request began.    *)
DocIdle == [pc |-> "idle", file |-> <<>>, n |-> 0, id |-> 0, key |-> Blank, rows |-> {}, others |-> {}]

DocInit ==
    /\ doc = [i \in DocIds |-> NoDoc] /\ docBorn = 0 /\ docVec = [i \in DocIds |-> {}]
    /\ docReq = [e \in Editors |-> DocIdle] /\ docBegun = 0 /\ docFaults = 0 /\ docStale = {}

DocAt(e, pc) == docReq[e].pc = pc
DocBegins    == docBegun < MaxDocRequests /\ docBegun' = docBegun + 1
DocFault     == docFaults < MaxDocFaults /\ docFaults' = docFaults + 1

(* The request goes on as r, having changed documents of these keys.       *)
DocOn(e, r, keys) ==
    docReq' = [x \in Editors |->
                  IF x = e THEN r
                  ELSE IF docReq[x] = DocIdle THEN DocIdle ELSE [docReq[x] EXCEPT !.others = @ \cup keys]]
DocEnds(e, keys) == DocOn(e, DocIdle, keys)

(* The database refuses a second document of a title and heading.          *)
Free(k) == \A i \in DocIds : doc[i].key # k

DocInsert(k, t) ==
    /\ Free(k) /\ docBorn < MaxDocs /\ docBorn' = docBorn + 1
    /\ doc' = [doc EXCEPT ![docBorn + 1] = [key |-> k, text |-> t]]

-----------------------------------------------------------------------------
(* kb_create: the row, then its vector.                                    *)
KBCreate(e) ==
    /\ DocAt(e, "idle") /\ DocBegins
    /\ \E k \in DocKeys, t \in Texts :
           /\ DocInsert(k, t)
           /\ DocOn(e, [DocIdle EXCEPT !.pc = "embed", !.id = docBorn + 1, !.key = k], {k})
    /\ UNCHANGED <<docVec, docFaults, docStale>>

(* The next line of a file, and what an error with one comes to.           *)
NextLine(e)   == [docReq[e] EXCEPT !.pc = "line", !.n = @ + 1, !.id = 0, !.key = Blank]
AfterEmbed(e) == IF docReq[e].file = <<>> THEN DocIdle ELSE NextLine(e)

(* Mutant: the import goes on with the next line. *)
LineSkipped(e) == AfterEmbed(e)

LineFails(e)  == DocIdle

(* afterCreatedCobDocument: the vector of the title and heading the object *)
(* has, whatever became of the row; an error ends an import.               *)
DocEmbed(e) ==
    LET i == docReq[e].id IN
    /\ DocAt(e, "embed")
    /\ \/ /\ docVec' = [docVec EXCEPT ![i] = @ \cup {[key |-> docReq[e].key, words |-> Blank]}]
          /\ DocOn(e, AfterEmbed(e), {}) /\ UNCHANGED <<docFaults, docStale>>
       \/ /\ DocFault /\ docStale' = docStale \cup {i}
          /\ DocOn(e, LineFails(e), {}) /\ UNCHANGED docVec
    /\ UNCHANGED <<doc, docBorn, docBegun>>

-----------------------------------------------------------------------------
(* ImportDocs: line after line; a line with an empty field is skipped, one *)
(* the reader refuses ends the import, and so does any error with a line.  *)

ImportDocs(e) ==
    /\ DocAt(e, "idle") /\ DocBegins
    /\ \E f \in Files : DocOn(e, [DocIdle EXCEPT !.pc = "line", !.file = f, !.n = 1], {})
    /\ UNCHANGED <<doc, docBorn, docVec, docFaults, docStale>>

AtEnd(e) == docReq[e].n > Len(docReq[e].file)
Line(e)  == docReq[e].file[docReq[e].n]

Wanted(line) == line.kind = "full"

EndOfImport(e) ==
    /\ DocAt(e, "line")
    /\ ~AtEnd(e) => Line(e).kind = "broken"
    /\ DocEnds(e, {})
    /\ UNCHANGED <<doc, docBorn, docVec, docBegun, docFaults, docStale>>

(* Any error of the look-up counts as a document that is not there.        *)
ReadLine(e) ==
    /\ DocAt(e, "line") /\ ~AtEnd(e) /\ Line(e).kind # "broken"
    /\ \/ ~Wanted(Line(e)) /\ DocOn(e, NextLine(e), {}) /\ UNCHANGED docFaults
       \/ /\ Wanted(Line(e)) /\ UNCHANGED docFaults
          /\ \E i \in DocIds : doc[i].key = Line(e).key /\ DocOn(e, [docReq[e] EXCEPT !.pc = "update", !.id = i], {})
       \/ Wanted(Line(e)) /\ Free(Line(e).key) /\ DocOn(e, [docReq[e] EXCEPT !.pc = "create"], {}) /\ UNCHANGED docFaults
       \/ Wanted(Line(e)) /\ DocFault /\ DocOn(e, [docReq[e] EXCEPT !.pc = "create"], {})
    /\ UNCHANGED <<doc, docBorn, docVec, docBegun, docStale>>

ImportInserts(e) ==
    /\ DocAt(e, "create")
    /\ \/ /\ DocInsert(Line(e).key, Line(e).text) /\ UNCHANGED docFaults
          /\ DocOn(e, [docReq[e] EXCEPT !.pc = "embed", !.id = docBorn + 1, !.key = Line(e).key], {Line(e).key})
       \/ ~Free(Line(e).key) /\ DocOn(e, LineFails(e), {}) /\ UNCHANGED <<doc, docBorn, docFaults>>
       \/ DocFault /\ DocOn(e, LineFails(e), {}) /\ UNCHANGED <<doc, docBorn>>
    /\ UNCHANGED <<docVec, docBegun, docStale>>

(* UpdateDocument: the row found by its key is written by its id, whatever *)
(* key it has by then; its vector stays.                                   *)
ImportOverwrites(e) ==
    LET i == docReq[e].id IN
    /\ DocAt(e, "update")
    /\ \/ /\ There(i) /\ doc' = [doc EXCEPT ![i].text = Line(e).text] /\ UNCHANGED docFaults
          /\ DocOn(e, NextLine(e), {doc[i].key})
       \/ ~There(i) /\ DocOn(e, LineFails(e), {}) /\ UNCHANGED <<doc, docFaults>>
       \/ DocFault /\ DocOn(e, LineFails(e), {}) /\ UNCHANGED doc
    /\ UNCHANGED <<docBorn, docVec, docBegun, docStale>>

-----------------------------------------------------------------------------
(* Changes through the API: any column, the vector stays.                  *)
PutDocument(e) ==
    /\ DocAt(e, "idle") /\ DocBegins
    /\ \E i \in DocIds, k \in DocKeys, t \in Texts :
           /\ There(i) /\ (k = doc[i].key \/ Free(k))
           /\ doc' = [doc EXCEPT ![i] = [key |-> k, text |-> t]]
           /\ docStale' = IF k = doc[i].key THEN docStale ELSE docStale \cup {i}
           /\ DocEnds(e, {k, doc[i].key})
    /\ UNCHANGED <<docBorn, docVec, docFaults>>

(* Mutant: the row's part of the transaction is lost. *)
GoneVectors(i) == docVec' = [docVec EXCEPT ![i] = {}] /\ UNCHANGED doc

Gone(i) == doc' = [doc EXCEPT ![i] = NoDoc] /\ docVec' = [docVec EXCEPT ![i] = {}]

DeleteDocument(e) ==
    /\ DocAt(e, "idle") /\ DocBegins
    /\ \E i \in DocIds : There(i) /\ Gone(i) /\ DocEnds(e, {doc[i].key})
    /\ UNCHANGED <<docBorn, docFaults, docStale>>

-----------------------------------------------------------------------------
(* The embedding command: the first documents by id, from the copies read; *)
(* the first error ends it.                                                *)

FirstDocs == {i \in DocIds : There(i) /\ Cardinality({j \in DocIds : There(j) /\ j < i}) < DocLimit}

SyncDocs(e) ==
    /\ DocAt(e, "idle") /\ DocBegins /\ FirstDocs # {}
    /\ DocOn(e, [DocIdle EXCEPT !.pc = "sync", !.rows = {[id |-> i, doc |-> doc[i]] : i \in FirstDocs}], {})
    /\ UNCHANGED <<doc, docBorn, docVec, docFaults, docStale>>

(* One of the vectors is replaced, or a first one is added; a failing      *)
(* look-up counts as none.                                                 *)
SyncVector(i, v) ==
    \/ /\ UNCHANGED docFaults
       /\ IF docVec[i] = {} THEN docVec' = [docVec EXCEPT ![i] = {v}]
          ELSE \E w \in docVec[i] : docVec' = [docVec EXCEPT ![i] = (@ \ {w}) \cup {v}]
    \/ DocFault /\ docVec' = [docVec EXCEPT ![i] = @ \cup {v}]

SyncDoc(e) ==
    \E m \in docReq[e].rows :
        LET rest == docReq[e].rows \ {m} IN
        /\ DocAt(e, "sync") /\ \A o \in docReq[e].rows : m.id <= o.id
        /\ \/ /\ SyncVector(m.id, [key |-> m.doc.key, words |-> m.doc.text])
              /\ docStale' = IF m.doc.key = doc[m.id].key THEN docStale \ {m.id} ELSE docStale \cup {m.id}
              /\ IF rest = {} THEN DocEnds(e, {}) ELSE DocOn(e, [docReq[e] EXCEPT !.rows = rest], {})
           \/ DocFault /\ DocEnds(e, {}) /\ UNCHANGED <<docVec, docStale>>
        /\ UNCHANGED <<doc, docBorn, docBegun>>

(* The operator stops a command, or the process dies.                      *)
EditorDies(e) ==
    /\ ~DocAt(e, "idle") /\ DocFault /\ DocEnds(e, {})
    /\ docStale' = IF DocAt(e, "embed") THEN docStale \cup {docReq[e].id} ELSE docStale
    /\ UNCHANGED <<doc, docBorn, docVec, docBegun>>

-----------------------------------------------------------------------------
(* kb_search and the list's filter: the documents of the vectors near the  *)
(* query, those that are still there.  A query is near a text that holds   *)
(* its key or its words.                                                   *)
NearVectors(q) == {i \in DocIds : \E v \in docVec[i] : v.key = q \/ v.words = q}

Near(q) == {i \in NearVectors(q) : There(i)}

-----------------------------------------------------------------------------
DocStep(e) ==
    \/ KBCreate(e) \/ DocEmbed(e)
    \/ ImportDocs(e) \/ EndOfImport(e) \/ ReadLine(e) \/ ImportInserts(e) \/ ImportOverwrites(e)
    \/ PutDocument(e) \/ DeleteDocument(e) \/ SyncDocs(e) \/ SyncDoc(e) \/ EditorDies(e)

DocNext == \E e \in Editors : DocStep(e)

DocSpec == DocInit /\ [][DocNext]_docVars
=============================================================================
