------------------------------- MODULE Records -------------------------------
(***************************************************************************)
(* Tool results that are too long for the model.  The executor shows the   *)
(* model a preview, stores the whole text in a row of convo_tool_record    *)
(* and names its handle; the runner then completes the row or, without     *)
(* one, creates it from what was shown; tool_result_read returns the text  *)
(* page by page to the session and the user it belongs to.                 *)
(*                                                                         *)
(* A text is its number of characters, a position in it a number, and a    *)
(* page or a preview the positions it shows.  Numbers are those of the     *)
(* code: nothing is scaled down but the number of calls.                   *)
(***************************************************************************)
EXTENDS Integers

CONSTANTS
    Readers,        \* tool calls and the reads that follow them, at the same time
    Parties,        \* session and user of a request; a user may be unknown
    Sizes,          \* lengths of tool results
    Settings,       \* values of TOOL_RESULT_MAX_CHARS; 0 or less: no limit
    Limits,         \* page sizes the model may ask for
    MaxCalls,       \* bound: calls, and with them rows
    MaxRecFaults    \* bound: failing calls

ASSUME RecordsAssumption ==
    /\ Parties \subseteq [session: STRING, owner: STRING]
    /\ Sizes \subseteq Nat /\ Settings \subseteq Int /\ Limits \subseteq Int
    /\ MaxCalls \in Nat /\ MaxRecFaults \in Nat

VARIABLES
    recMax,     \* settings.Current.ToolResultMaxChars of this process
    rec,        \* id -> row
    recBorn,    \* rows created so far
    recBegun,   \* calls so far
    recReq,     \* reader -> its call, what the model was shown and read
    recFaults

recVars == <<recMax, rec, recBorn, recBegun, recReq, recFaults>>

RecIds    == 1..MaxCalls
NoParty    == [session |-> "", owner |-> ""]
NoRecord  == [party |-> NoParty, by |-> 0, length |-> 0, full |-> 0, spilled |-> FALSE]

-----------------------------------------------------------------------------
(* The preview.  Characters of a number; bound: numbers below 10^7.        *)

From(power, n) == IF n >= power THEN 1 ELSE 0
Digits(n) ==
    1 + From(10, n) + From(100, n) + From(1000, n) + From(10000, n) + From(100000, n) + From(1000000, n)

(* The three wordings of the omission notice, the longest first.           *)
Wordings == 1..3
Notice(w, head, tail, size) ==
    CASE w = 1 -> 118 + Digits(head) + Digits(tail) + Digits(size)
      [] w = 2 -> 38 + Digits(head) + Digits(tail) + Digits(size)
      [] w = 3 -> 12

(* What is left for the text when the numbers in the notice are as long as *)
(* they can get.                                                           *)
(* Mutant: the notice is measured without its numbers. *)
PayloadBare(w, limit, size) == limit - Notice(w, 0, 0, 0)

Payload(w, limit, size) == limit - Notice(w, limit, limit, size)

HeadPart(payload) == (payload * 3) \div 4

Whole(size) == [head |-> size, tail |-> 0, notice |-> 0]

Cut(w, limit, size) ==
    LET payload == Payload(w, limit, size)
        head    == HeadPart(payload)
        tail    == payload - head
    IN  [head |-> head, tail |-> tail, notice |-> Notice(w, head, tail, size)]

TooShort(w, limit, size) == Payload(w, limit, size) <= 0

Truncated(limit, size) ==
    CASE limit <= 0 \/ size <= limit -> Whole(size)
      [] limit > 0 /\ size > limit /\ \A w \in Wordings : TooShort(w, limit, size) -> Whole(limit)
      [] OTHER -> Cut(CHOOSE w \in Wordings :
                          /\ ~TooShort(w, limit, size)
                          /\ \A v \in Wordings : v < w => TooShort(v, limit, size),
                      limit, size)

ShownLength(preview) == preview.head + preview.tail + preview.notice

-----------------------------------------------------------------------------
(* A page of a text: the positions from `from` up to, not including, `to`. *)

DefaultPage == 4000
LargestPage == 8000

Least(a, b) == IF a <= b THEN a ELSE b
Most(a, b)  == IF a >= b THEN a ELSE b

Start(offset, total) == Least(Most(offset, 0), total)

Asked(limit) == IF limit <= 0 THEN DefaultPage ELSE Least(limit, LargestPage)

Page(total, offset, limit) ==
    LET from == Start(offset, total)
    IN  [from |-> from, to |-> Least(from + Asked(limit), total)]

-----------------------------------------------------------------------------
(* A call: its turn is kept only if the request has a key, otherwise there *)
(* is nothing a record could belong to (toolScope).                        *)

NoPage  == [id |-> 0, from |-> 0, to |-> 0, shown |-> Whole(0)]
RecIdle == [pc |-> "idle", party |-> NoParty, turn |-> FALSE, call |-> 0, size |-> 0, preview |-> Whole(0),
            handle |-> 0, got |-> 0, ended |-> FALSE, page |-> NoPage]

RecInit ==
    /\ recMax \in Settings
    /\ rec = [i \in RecIds |-> NoRecord] /\ recBorn = 0 /\ recBegun = 0
    /\ recReq = [p \in Readers |-> RecIdle] /\ recFaults = 0

RecAt(p, pc) == recReq[p].pc = pc
RecPut(p, r) == recReq' = [recReq EXCEPT ![p] = r]
RecFault     == recFaults < MaxRecFaults /\ recFaults' = recFaults + 1

(* The executor has the result of a tool; the text of a failure is cut but *)
(* never stored as a whole.                                                *)
RecCall(p) ==
    /\ RecAt(p, "idle") /\ recBegun < MaxCalls /\ recBegun' = recBegun + 1
    /\ \E party \in Parties, turn \in BOOLEAN, failed \in BOOLEAN, n \in Sizes :
           LET preview == Truncated(recMax, n) IN
           RecPut(p, [RecIdle EXCEPT !.pc = IF failed \/ preview = Whole(n) THEN "record" ELSE "spill",
                                     !.party = party, !.turn = turn, !.call = recBegun + 1, !.size = n,
                                     !.preview = preview])
    /\ UNCHANGED <<recMax, rec, recBorn, recFaults>>

RecRow(p, length, spilled) ==
    [party |-> recReq[p].party, by |-> recReq[p].call, length |-> length, full |-> recReq[p].size,
     spilled |-> spilled]

RecInsert(p, length, spilled) ==
    /\ recBorn' = recBorn + 1
    /\ rec' = [rec EXCEPT ![recBorn + 1] = RecRow(p, length, spilled)]

(* SpillToolResult: without a turn, or when the insert fails, the model    *)
(* gets the preview alone; a failed insert may be committed all the same.  *)
RecSpill(p) ==
    LET on == [recReq[p] EXCEPT !.pc = "record"] IN
    /\ RecAt(p, "spill")
    /\ \/ /\ recReq[p].turn /\ RecInsert(p, recReq[p].size, TRUE)
          /\ RecPut(p, [on EXCEPT !.handle = recBorn + 1]) /\ UNCHANGED recFaults
       \/ ~recReq[p].turn /\ RecPut(p, on) /\ UNCHANGED <<rec, recBorn, recFaults>>
       \/ /\ recReq[p].turn /\ RecFault /\ RecPut(p, on)
          /\ RecInsert(p, recReq[p].size, TRUE) \/ UNCHANGED <<rec, recBorn>>
    /\ UNCHANGED <<recMax, recBegun>>

RecordsOf(p) == {i \in RecIds : rec[i].by = recReq[p].call}

(* Mutant: the row gets what the model was shown. *)
CompletedAgain(p) == [i \in RecIds |-> IF i \in RecordsOf(p) THEN RecRow(p, ShownLength(recReq[p].preview), TRUE) ELSE rec[i]]

(* Status, error code and duration of a row; its text stays.               *)
Completed(p) == rec

(* UpsertToolRecord, when the runner takes the event, before the model is  *)
(* asked again; an error is only logged, a result without a turn has no row. *)
RecUpsert(p) ==
    LET r == recReq[p] IN
    /\ RecAt(p, "record")
    /\ RecPut(p, [r EXCEPT !.pc = IF r.handle = 0 THEN "end" ELSE "read"])
    /\ \/ r.turn /\ RecordsOf(p) # {} /\ rec' = Completed(p) /\ UNCHANGED <<recBorn, recFaults>>
       \/ r.turn /\ RecordsOf(p) = {} /\ RecInsert(p, ShownLength(r.preview), FALSE) /\ UNCHANGED recFaults
       \/ ~r.turn /\ UNCHANGED <<rec, recBorn, recFaults>>
       \/ r.turn /\ RecFault /\ UNCHANGED <<rec, recBorn>>
    /\ UNCHANGED <<recMax, recBegun>>

-----------------------------------------------------------------------------
(* tool_result_read, with any handle the model writes.                     *)

(* Mutant: the row need only be of the same session. *)
SameSession(p, i) == recReq[p].turn /\ rec[i].party.session = recReq[p].party.session

MayRead(p, i) == recReq[p].turn /\ rec[i].party = recReq[p].party

(* The result of a read is cut like any other one, and never stored.       *)
Read(p, i, offset, limit) ==
    LET page == Page(rec[i].length, offset, limit)
    IN  [id |-> i, from |-> page.from, to |-> page.to, shown |-> Truncated(recMax, page.to - page.from)]

(* The model pages through its own handle: it asks for what follows what   *)
(* it has got until there is nothing more.                                 *)
RecReadOn(p) ==
    /\ RecAt(p, "read") /\ ~recReq[p].ended
    /\ \E limit \in Limits :
           LET r    == recReq[p]
               page == Read(p, r.handle, r.got, limit)
           IN  /\ MayRead(p, r.handle)
               /\ RecPut(p, [r EXCEPT !.page = page, !.got = @ + (page.to - page.from), !.ended = page.to = page.from])
    /\ UNCHANGED <<recMax, rec, recBorn, recBegun, recFaults>>

(* Or it reads somewhere in whatever it has a handle of.  Bound: once, and *)
(* last.                                                                   *)
Offsets(i) == {-1, rec[i].length, rec[i].length + 1}

RecReadAny(p) ==
    /\ recReq[p].pc \in {"read", "end"}
    /\ \E i \in 1..recBorn, limit \in Limits :
           /\ MayRead(p, i)
           /\ \E offset \in Offsets(i) : RecPut(p, [recReq[p] EXCEPT !.pc = "over", !.page = Read(p, i, offset, limit)])
    /\ UNCHANGED <<recMax, rec, recBorn, recBegun, recFaults>>

(* The turn ends.                                                          *)
RecEnd(p) ==
    /\ recReq[p].pc \in {"read", "end", "over"}
    /\ RecPut(p, RecIdle)
    /\ UNCHANGED <<recMax, rec, recBorn, recBegun, recFaults>>

RecStep(p) == RecCall(p) \/ RecSpill(p) \/ RecUpsert(p) \/ RecReadOn(p) \/ RecReadAny(p) \/ RecEnd(p)

RecNext == \E p \in Readers : RecStep(p)

RecSpec == RecInit /\ [][RecNext]_recVars
=============================================================================
