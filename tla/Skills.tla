------------------------------- MODULE Skills -------------------------------
(***************************************************************************)
(* The skills users write for the model: rows with a name that is unique,  *)
(* an owner, the channels they are shown on, a text and the columns that   *)
(* mirror its frontmatter; and the files of a skill.  Users create,        *)
(* import, change and delete them, the model and the users read them.      *)
(*                                                                         *)
(* A text is the metadata its frontmatter says and whether it still has    *)
(* the frontmatter: an import strips it.  Texts that fail validation end   *)
(* a request before it reads anything and are left out.  A step is one     *)
(* statement or transaction.                                               *)
(***************************************************************************)
EXTENDS Naturals, FiniteSets

CONSTANTS
    Askers,           \* requests in progress at the same time
    Owners,           \* users with a login
    Names, Metas,     \* names of skills, metadata of frontmatters
    Places,           \* channels a request comes from
    Published,        \* sets of channels a skill is shown on
    Paths,            \* files of a bundle
    MaxSkills,        \* bound: rows ever created
    MaxSkillRequests  \* bound: requests and failing calls

ASSUME SkillAssumption ==
    /\ {MaxSkills, MaxSkillRequests} \subseteq Nat
    /\ Published \subseteq SUBSET Places /\ {} \in Published
    /\ "nobody" \notin Owners \cup Names \cup Metas

VARIABLES
    skill,       \* id -> row
    skillBorn,   \* rows created so far
    skillFiles,  \* id -> paths
    ask,         \* asker -> where its request is
    skillBegun,  \* requests and failing calls so far
    skillSeen,   \* <<reader, owner, shown on the reader's channel>> of what the last step showed
    edited       \* ids whose columns were set without a text

skillVars == <<skill, skillBorn, skillFiles, ask, skillBegun, skillSeen, edited>>

SkillIds == 1..MaxSkills
Nobody   == "nobody"
NoText   == [of |-> Nobody, full |-> FALSE]
NoSkill  == [name |-> Nobody, owner |-> Nobody, channels |-> {}, text |-> NoText, meta |-> Nobody]
Kept(i)  == skill[i] # NoSkill
Named(n) == {i \in SkillIds : skill[i].name = n}

Keep     == [what |-> "keep"]                 \* a field the request does not give
Give(x)  == [what |-> "give", to |-> x]

NoAsk == [pc |-> "idle", as |-> Nobody, place |-> Nobody, id |-> 0, row |-> NoSkill, names |-> {},
          text |-> Keep, meta |-> Keep, channels |-> Keep, files |-> Keep]

SkillInit ==
    /\ skill = [i \in SkillIds |-> NoSkill] /\ skillBorn = 0 /\ skillFiles = [i \in SkillIds |-> {}]
    /\ ask = [p \in Askers |-> NoAsk] /\ skillBegun = 0 /\ skillSeen = {} /\ edited = {}

AskAt(p, pc)  == ask[p].pc = pc
AskPut(p, r)  == ask' = [ask EXCEPT ![p] = r]
AskEnds(p)    == AskPut(p, NoAsk)
SkillBegins   == skillBegun < MaxSkillRequests /\ skillBegun' = skillBegun + 1
SkillFault    == SkillBegins

-----------------------------------------------------------------------------
(* Creating.  The owner is the login, or for the operator's command the    *)
(* user it names.  Only an import asks whether the name is taken.          *)

NewRow(n, o, c, m, full) == [name |-> n, owner |-> o, channels |-> c, text |-> [of |-> m, full |-> full], meta |-> m]

SkillPost(p) ==
    /\ AskAt(p, "idle") /\ SkillBegins
    /\ \E o \in Owners, n \in Names, c \in Published, m \in Metas, f \in SUBSET Paths :
           AskPut(p, [NoAsk EXCEPT !.pc = "insert", !.as = o, !.row = NewRow(n, o, c, m, TRUE), !.files = Give(f)])
    /\ UNCHANGED <<skill, skillBorn, skillFiles, edited>> /\ skillSeen' = {}

Imported(n, o, c, m) == NewRow(n, o, c, m, FALSE)

SkillImport(p) ==
    /\ AskAt(p, "idle") /\ SkillBegins
    /\ \E o \in Owners, n \in Names, c \in Published, m \in Metas :
           /\ Named(n) = {}
           /\ AskPut(p, [NoAsk EXCEPT !.pc = "insert", !.as = o, !.row = Imported(n, o, c, m), !.files = Give({})])
    /\ UNCHANGED <<skill, skillBorn, skillFiles, edited>> /\ skillSeen' = {}

(* ON CONFLICT (name): the row that is there only gets a new time.         *)
Upsert(p, i) == UNCHANGED skill

(* On a conflict the files go to the row that is there or to the id of the *)
(* row that was not created, whichever the library left in the object; in  *)
(* the second case nobody reads them.                                      *)
SkillInsert(p) ==
    LET r == ask[p].row IN
    /\ AskAt(p, "insert") /\ AskEnds(p)
    /\ \/ /\ Named(r.name) = {} /\ skillBorn < MaxSkills /\ skillBorn' = skillBorn + 1
          /\ skill' = [skill EXCEPT ![skillBorn + 1] = r]
          /\ skillFiles' = [skillFiles EXCEPT ![skillBorn + 1] = ask[p].files.to] /\ UNCHANGED skillBegun
       \/ \E i \in Named(r.name) :
              /\ Upsert(p, i) /\ UNCHANGED <<skillBorn, skillBegun>>
              /\ UNCHANGED skillFiles \/ skillFiles' = [skillFiles EXCEPT ![i] = ask[p].files.to]
       \/ SkillFault /\ UNCHANGED <<skill, skillBorn, skillFiles>>
    /\ UNCHANGED edited /\ skillSeen' = {}

-----------------------------------------------------------------------------
(* Changing and deleting: the row of the name is read and its owner        *)
(* compared with the login; what follows names the row by its id.  Bound:  *)
(* a request gives one or two of the four fields.                          *)

GivenFields(fields) == Cardinality({x \in DOMAIN fields : fields[x] # Keep})

SkillPut(p) ==
    /\ AskAt(p, "idle") /\ SkillBegins
    /\ \E o \in Owners, n \in Names, m \in {Keep} \cup {Give(x) : x \in Metas}, t \in {Keep} \cup {Give(x) : x \in Metas},
          c \in {Keep} \cup {Give(x) : x \in Published}, f \in {Keep} \cup {Give(x) : x \in SUBSET Paths} :
           \E i \in Named(n) :
               /\ skill[i].owner = o
               /\ GivenFields(<<m, t, c, f>>) \in 1..2
               /\ AskPut(p, [NoAsk EXCEPT !.pc = "update", !.as = o, !.id = i, !.row = [NoSkill EXCEPT !.name = skill[i].name],
                                          !.text = t, !.meta = m, !.channels = c, !.files = f])
    /\ UNCHANGED <<skill, skillBorn, skillFiles, edited>> /\ skillSeen' = {}

Given(field, old) == IF field = Keep THEN old ELSE field.to

(* Mutant: the columns follow the request only. *)
ColumnsAsked(r, old) == Given(r.meta, old)

(* A new text brings its own columns, whatever the request says of them.   *)
Columns(r, old) == IF r.text # Keep THEN r.text.to ELSE Given(r.meta, old)

(* Mutant: the name says which row. *)
TargetNamed(p) == Named(ask[p].row.name)

Target(p) == {i \in {ask[p].id} : Kept(i)}

SkillUpdate(p) ==
    LET r == ask[p] IN
    /\ AskAt(p, "update") /\ AskEnds(p)
    /\ \/ \E i \in Target(p) :
              /\ skill' = [skill EXCEPT
                     ![i].text = IF r.text = Keep THEN @ ELSE [of |-> r.text.to, full |-> TRUE],
                     ![i].meta = Columns(r, @), ![i].channels = Given(r.channels, @)]
              /\ skillFiles' = [skillFiles EXCEPT ![i] = Given(r.files, @)]
              /\ edited' = IF r.text # Keep THEN edited \ {i} ELSE IF r.meta # Keep THEN edited \cup {i} ELSE edited
              /\ UNCHANGED skillBegun
       \/ Target(p) = {} /\ UNCHANGED <<skill, skillFiles, skillBegun, edited>>
       \/ SkillFault /\ UNCHANGED <<skill, skillFiles, edited>>
    /\ UNCHANGED skillBorn /\ skillSeen' = {}

SkillDrop(p) ==
    /\ AskAt(p, "idle") /\ SkillBegins
    /\ \E o \in Owners, n \in Names : \E i \in Named(n) :
           /\ skill[i].owner = o
           /\ AskPut(p, [NoAsk EXCEPT !.pc = "delete", !.as = o, !.id = i, !.row = [NoSkill EXCEPT !.name = skill[i].name]])
    /\ UNCHANGED <<skill, skillBorn, skillFiles, edited>> /\ skillSeen' = {}

(* Files and row go in one transaction.                                    *)
SkillDelete(p) ==
    /\ AskAt(p, "delete") /\ AskEnds(p)
    /\ \/ \E i \in Target(p) : /\ skill' = [skill EXCEPT ![i] = NoSkill] /\ skillFiles' = [skillFiles EXCEPT ![i] = {}]
                               /\ edited' = edited \ {i} /\ UNCHANGED skillBegun
       \/ Target(p) = {} /\ UNCHANGED <<skill, skillFiles, skillBegun, edited>>
       \/ SkillFault /\ UNCHANGED <<skill, skillFiles, edited>>
    /\ UNCHANGED skillBorn /\ skillSeen' = {}

-----------------------------------------------------------------------------
(* Reading *)

Visible(row, as, place) == row.owner = as \/ place \in row.channels

SkillShow(as, place, rows) == skillSeen' = {<<as, r.owner, place \in r.channels>> : r \in rows}

(* The condition of the list, put into the query.                          *)
ListedFor(as, place) == {i \in SkillIds : Kept(i) /\ Visible(skill[i], as, place)}

(* GET /api/skills, skill_list, and the index of the prompt, which loads   *)
(* each name of the list again.                                            *)
SkillList(p) ==
    /\ AskAt(p, "idle") /\ SkillBegins
    /\ \E o \in Owners \cup {Nobody}, c \in Places :
           LET rows == {skill[i] : i \in ListedFor(o, c)} IN
           /\ SkillShow(o, c, rows)
           /\ AskPut(p, IF rows = {} THEN NoAsk
                        ELSE [NoAsk EXCEPT !.pc = "index", !.as = o, !.place = c, !.names = {r.name : r \in rows}])
    /\ UNCHANGED <<skill, skillBorn, skillFiles, edited>>

(* A name that has gone, is no longer visible or fails is left out.        *)
SkillIndex(p) ==
    \E n \in ask[p].names :
        LET left == ask[p].names \ {n}
            rows == {skill[i] : i \in {j \in Named(n) : Visible(skill[j], ask[p].as, ask[p].place)}}
        IN  /\ AskAt(p, "index") /\ IF left = {} THEN AskEnds(p) ELSE AskPut(p, [ask[p] EXCEPT !.names = left])
            /\ \/ SkillShow(ask[p].as, ask[p].place, rows) /\ UNCHANGED skillBegun
               \/ SkillFault /\ skillSeen' = {}
            /\ UNCHANGED <<skill, skillBorn, skillFiles, edited>>

(* LoadForName: for the detail, skill_read, a command, and as the first    *)
(* step of listing or reading files.                                       *)
SkillLoad(p) ==
    /\ AskAt(p, "idle") /\ SkillBegins
    /\ \E o \in Owners \cup {Nobody}, c \in Places, n \in Names : \E i \in Named(n) :
           /\ Visible(skill[i], o, c) /\ SkillShow(o, c, {skill[i]})
           /\ AskPut(p, [NoAsk EXCEPT !.pc = "files", !.as = o, !.place = c, !.id = i, !.row = skill[i]])
    /\ UNCHANGED <<skill, skillBorn, skillFiles, edited>>

(* Mutant: the files are those of the name. *)
FilesNamed(p) == {skill[i] : i \in {j \in Named(ask[p].row.name) : skillFiles[j] # {}}}

(* Whose files are shown: those of the id that was loaded.                 *)
FilesOf(p) == {ask[p].row : i \in {j \in {ask[p].id} : skillFiles[j] # {}}}

SkillReadFiles(p) ==
    /\ AskAt(p, "files") /\ AskEnds(p)
    /\ \/ SkillShow(ask[p].as, ask[p].place, FilesOf(p)) /\ UNCHANGED skillBegun
       \/ SkillFault /\ skillSeen' = {}
    /\ UNCHANGED <<skill, skillBorn, skillFiles, edited>>

-----------------------------------------------------------------------------
SkillStep(p) ==
    \/ SkillPost(p) \/ SkillImport(p) \/ SkillInsert(p) \/ SkillPut(p) \/ SkillUpdate(p) \/ SkillDrop(p) \/ SkillDelete(p)
    \/ SkillList(p) \/ SkillIndex(p) \/ SkillLoad(p) \/ SkillReadFiles(p)

SkillNext == \E p \in Askers : SkillStep(p)

SkillSpec == SkillInit /\ [][SkillNext]_skillVars
=============================================================================
