------------------------ MODULE ConversationProofs -------------------------
(***************************************************************************)
(* Theorems about a conversation: the history it is asked with and kept    *)
(* in, for any number of turns, failing commands, resets and expiries; and *)
(* the call that asks the model, for answers and messages of any length.   *)
(***************************************************************************)
EXTENDS HistoryProps, LLMStreamProps, SequenceTheorems, FiniteSetTheorems, TLAPS

-----------------------------------------------------------------------------
(* The history.  Phases: before anything is persisted, with an item in     *)
(* hand, and from the first item on.                                       *)
Early    == {"new", "mapping", "bound", "asked"}
Held     == {"push", "expire", "trim", "save", "question", "answer"}
Pushed   == Held \ {"push"}
Writing  == {"persist"} \cup Held
Late     == Writing \cup {"done"}
MessageRows == [turn : Turns, role : {"user", "assistant"}, conv : Convs]

HistTypes ==
    /\ pc \in [Turns -> Early \cup Late]
    /\ prompt \in [Turns -> Prompts \cup {NoText}]
    /\ web \subseteq Turns /\ failed \subseteq Turns
    /\ conv \in [Turns -> Convs \cup {NoConv}] /\ mapping \in Turns \cup {NoConv}
    /\ todo \in [Turns -> Seq(Items)] /\ count \in [Turns -> Nat]
    /\ last \in [Turns -> Prompts \cup {NoText, NoItem}]
    /\ context \in [Turns -> SUBSET Items] /\ hist \in [Convs -> Seq(Items)]
    /\ rows \subseteq MessageRows /\ forgotten \in [Turns -> SUBSET Turns]
    /\ faults \in 0..MaxFaults /\ resets \in 0..MaxResets /\ expiries \in 0..MaxExpiries

(* A turn has a conversation once it is bound, nothing to persist before   *)
(* it is answered, and an item in hand only while there is one.            *)
PlaceInv ==
    \A t \in Turns :
        /\ pc[t] \notin {"new", "mapping"} => conv[t] \in Convs
        /\ t \in web => pc[t] \notin {"new", "mapping"}
        /\ pc[t] = "mapping" => conv[t] # WebConv
        /\ pc[t] \in Early => todo[t] = <<>>
        /\ pc[t] \in Held => todo[t] # <<>>

(* Whose items and rows these are.                                         *)
OwnInv ==
    /\ \A c \in Convs : \A i \in DOMAIN hist[c] :
        conv[hist[c][i].turn] = c /\ pc[hist[c][i].turn] \in Late
    /\ \A t \in Turns : \A i \in DOMAIN todo[t] :
        /\ todo[t][i].turn = t
        /\ todo[t][i].answered => todo[t][i].user = prompt[t]
    /\ \A r \in rows : conv[r.turn] = r.conv /\ pc[r.turn] \in Late

(* The row of a question comes before that of its answer, and an answered  *)
(* item in a list has its row, or will have it, or a command failed.       *)
QuestionStands ==
    \A r \in rows : r.role = "assistant" /\ prompt[r.turn] # NoText
                        => [r EXCEPT !.role = "user"] \in rows

QuestionWritten ==
    \A t \in Turns : pc[t] = "answer" /\ Head(todo[t]).answered /\ prompt[t] # NoText
                        => Row(t, "user") \in rows

AnswerComes ==
    \A c \in Convs : \A i \in DOMAIN hist[c] :
        LET t == hist[c][i].turn
        IN  hist[c][i].answered => \/ t \in failed \/ t \in Answers
                                   \/ pc[t] \in Pushed /\ Head(todo[t]).answered

PairInv == QuestionStands /\ QuestionWritten /\ AnswerComes

(* The conversation a channel turn belongs to, or would if it came now.    *)
Meant(t) == IF pc[t] = "new" THEN mapping ELSE conv[t]

(* A conversation named by a turn is that turn's doing; nobody in the      *)
(* conversation of a turn is forgotten by it.                              *)
ForgetInv ==
    /\ \A u \in Turns : (mapping = u \/ \E v \in Turns : conv[v] = u) => pc[u] \notin {"new", "mapping"}
    /\ \A t \in Turns : forgotten[t] \subseteq Answers
    /\ \A t \in Turns \ web : \A v \in Turns :
        Meant(t) \in Turns /\ conv[v] = Meant(t) => v \notin forgotten[t]
    /\ \A t \in Turns : pc[t] = "new" => context[t] = {}
    /\ \A t \in Turns \ web : conv[t] # WebConv
    /\ ResetForgets

(* What was read as the last question is still the last one, unless others *)
(* persist into the conversation, too.                                     *)
Shared(t) == \E u \in Turns \ {t} : conv[u] = conv[t] /\ pc[u] \notin Early

LastInv ==
    \A t \in Turns : pc[t] = "push" /\ last[t] # NoItem =>
        \/ hist[conv[t]] # <<>> /\ Last(hist[conv[t]]).user = last[t]
        \/ Shared(t)

HistInv == HistTypes /\ PlaceInv /\ OwnInv /\ PairInv /\ ForgetInv

LEMMA InitHistory == Init => HistInv /\ LastInv
<1> SUFFICES ASSUME Init PROVE HistInv /\ LastInv OBVIOUS
<1> USE HistoryAssumption DEF Init
<1>1. HistTypes BY DEF HistTypes, Early, Convs
<1>2. PlaceInv BY DEF PlaceInv, Held, Early
<1>3. OwnInv BY DEF OwnInv
<1>4. PairInv BY DEF PairInv, QuestionStands, QuestionWritten, AnswerComes
<1>5. ForgetInv BY DEF ForgetInv, ResetForgets, Meant, Convs
<1>6. LastInv BY DEF LastInv
<1> QED BY <1>1, <1>2, <1>3, <1>4, <1>5, <1>6 DEF HistInv

LEMMA Single == ASSUME NEW S, NEW x \in S PROVE <<x>> \in Seq(S)
<1>1. <<x>> = [i \in 1..1 |-> x] OBVIOUS
<1> QED BY <1>1, SeqDef

(* Asking puts exchanges of the list into the context, and nothing else.   *)
LEMMA AskedOfList ==
  ASSUME NEW t \in Turns, HistTypes, Ask(t)
  PROVE  \E places \in SUBSET DOMAIN hist[conv[t]] :
            context' = [context EXCEPT ![t] = {hist[conv[t]][n] : n \in places}]
<1>1. PICK regenerate \in BOOLEAN, read \in BOOLEAN :
        LET items == IF read THEN hist[conv[t]] ELSE <<>>
        IN  context' = [context EXCEPT ![t] =
                {i \in {items[n] : n \in AskedWith(t, items, regenerate)} : ~Empty(i)}]
      BY DEF Ask
<1> DEFINE items == IF read THEN hist[conv[t]] ELSE <<>>
           kept == {n \in AskedWith(t, items, regenerate) : ~Empty(items[n])}
<1>2. AskedWith(t, items, regenerate) \subseteq DOMAIN items
      BY DEF AskedWith, RecentlyWithTokens
<1>3. {i \in {items[n] : n \in AskedWith(t, items, regenerate)} : ~Empty(i)} = {items[n] : n \in kept}
      OBVIOUS
<1>4. CASE read
  <2>1. kept \in SUBSET DOMAIN hist[conv[t]] BY <1>2, <1>4
  <2>2. context' = [context EXCEPT ![t] = {hist[conv[t]][n] : n \in kept}] BY <1>1, <1>3, <1>4
  <2> QED BY <2>1, <2>2
<1>5. CASE ~read
  <2>1. {items[n] : n \in kept} = {} BY <1>2, <1>5
  <2>2. {} \in SUBSET DOMAIN hist[conv[t]] /\ {hist[conv[t]][n] : n \in {}} = {} OBVIOUS
  <2> QED BY <1>1, <1>3, <2>1, <2>2
<1> QED BY <1>4, <1>5

(* What a turn that persists may touch: its own place and item, the list   *)
(* of its conversation, and the rows.                                      *)
HandTypes(t) ==
    /\ pc' = [pc EXCEPT ![t] = pc'[t]] /\ pc'[t] \in Late
    /\ todo' = [todo EXCEPT ![t] = todo'[t]] /\ todo'[t] \in Seq(Items)
    /\ last' = [last EXCEPT ![t] = last'[t]] /\ last'[t] \in Prompts \cup {NoText, NoItem}
    /\ count' = [count EXCEPT ![t] = count'[t]] /\ count'[t] \in Nat
    /\ hist' = [hist EXCEPT ![conv[t]] = hist'[conv[t]]] /\ hist'[conv[t]] \in Seq(Items)
    /\ rows' \subseteq MessageRows
    /\ failed' \in SUBSET Turns /\ failed \subseteq failed' /\ faults' \in 0..MaxFaults
    /\ pc'[t] \in Held => todo'[t] # <<>>
    /\ Stays

LEMMA PersistTypes ==
  ASSUME HistTypes, PlaceInv, NEW t \in Turns, Persist(t)
  PROVE  HandTypes(t)
<1>1. pc[t] \in Writing BY DEF Persist, AddHistory, Finish, ReadLast, Pop, Push, Expire, Trim, Save, Question, Answer, GiveUp, Goto, Writing, Held
<1>2. conv[t] \in Convs BY <1>1 DEF PlaceInv, Writing, Held
<1>3. todo[t] \in Seq(Items) /\ hist[conv[t]] \in Seq(Items) /\ count[t] \in Nat /\ faults \in 0..MaxFaults
      BY <1>2 DEF HistTypes
<1>4. pc[t] \in Held => todo[t] # <<>> /\ Head(todo[t]) \in Items /\ Tail(todo[t]) \in Seq(Items)
      BY <1>3 DEF PlaceInv
<1>5. UNCHANGED <<pc>> => pc' = [pc EXCEPT ![t] = pc'[t]] BY DEF HistTypes
<1>6. UNCHANGED <<todo>> => todo' = [todo EXCEPT ![t] = todo'[t]] BY DEF HistTypes
<1>7. UNCHANGED <<last>> => last' = [last EXCEPT ![t] = last'[t]] BY DEF HistTypes
<1>8. UNCHANGED <<count>> => count' = [count EXCEPT ![t] = count'[t]] BY DEF HistTypes
<1>9. UNCHANGED <<hist>> => hist' = [hist EXCEPT ![conv[t]] = hist'[conv[t]]] BY <1>2 DEF HistTypes
<1>10. MaxFaults \in Nat BY HistoryAssumption
<1>11. last[t] \in Prompts \cup {NoText, NoItem} /\ rows \subseteq MessageRows /\ failed \subseteq Turns /\ pc[t] \in Late
      BY <1>1 DEF HistTypes, Late
<1>12. pc \in [Turns -> Early \cup Late] /\ todo \in [Turns -> Seq(Items)] /\ count \in [Turns -> Nat]
       /\ last \in [Turns -> Prompts \cup {NoText, NoItem}] /\ hist \in [Convs -> Seq(Items)]
      BY DEF HistTypes
<1> USE DEF Late, Writing, Held
<1>20. ASSUME NEW from \in Held, GiveUp(t, from), UNCHANGED <<hist, rows>> PROVE HandTypes(t)
      BY <1>2, <1>3, <1>4, <1>9, <1>10, <1>11, <1>12, <1>20 DEF GiveUp, HandTypes, Goto, Fault
<1>21. CASE Finish(t)
      BY <1>2, <1>3, <1>6, <1>7, <1>8, <1>9, <1>11, <1>12, <1>21 DEF Finish, HandTypes, Goto
<1>22. CASE ReadLast(t)
  <2>1. hist[conv[t]] # <<>> => Len(hist[conv[t]]) \in DOMAIN hist[conv[t]] BY <1>3
  <2>2. hist[conv[t]] # <<>> => Last(hist[conv[t]]) \in Items BY <1>3, <2>1 DEF Last
  <2>3. hist[conv[t]] # <<>> => Last(hist[conv[t]]).user \in Prompts \cup {NoText} BY <2>2 DEF Items
  <2> QED BY <1>2, <1>3, <1>6, <1>8, <1>9, <1>10, <1>11, <1>12, <1>22, <2>3 DEF ReadLast, HandTypes, Goto, Fault
<1>23. CASE Pop(t)
  <2>1. hist[conv[t]] # <<>> => Front(hist[conv[t]]) \in Seq(Items) BY <1>3 DEF Front
  <2> QED BY <1>2, <1>3, <1>4, <1>5, <1>6, <1>8, <1>9, <1>10, <1>11, <1>12, <1>23, <2>1 DEF Pop, HandTypes, Fault
<1>24. CASE Push(t)
  <2>1. CASE GiveUp(t, "push") /\ UNCHANGED <<hist, rows>> BY <2>1, <1>20
  <2>2. CASE ~(GiveUp(t, "push") /\ UNCHANGED <<hist, rows>>)
    <3>1. /\ pc[t] = "push" /\ pc' = [pc EXCEPT ![t] = "expire"]
          /\ hist' = [hist EXCEPT ![conv[t]] = Append(@, Head(todo[t]))]
          /\ count' = [count EXCEPT ![t] = Len(hist'[conv[t]])]
          /\ last' = [last EXCEPT ![t] = NoItem]
          /\ UNCHANGED <<todo, faults, failed, rows>> /\ Stays
          BY <1>24, <2>2 DEF Push, Goto
    <3>2. Append(hist[conv[t]], Head(todo[t])) \in Seq(Items) BY <1>3, <1>4, <3>1
    <3>3. Len(hist'[conv[t]]) \in Nat BY <1>2, <1>12, <3>1, <3>2
    <3> QED BY <1>2, <1>3, <1>4, <1>6, <1>11, <1>12, <3>1, <3>2, <3>3 DEF HandTypes
  <2> QED BY <2>1, <2>2
<1>25. CASE Expire(t)
      BY <1>20, <1>3, <1>4, <1>6, <1>7, <1>8, <1>9, <1>11, <1>12, <1>25 DEF Expire, HandTypes, Goto
<1>26. CASE Trim(t)
  <2>1. CASE GiveUp(t, "trim") /\ UNCHANGED <<hist, rows>> BY <2>1, <1>20
  <2>2. CASE ~(GiveUp(t, "trim") /\ UNCHANGED <<hist, rows>>)
    <3>1. /\ hist' = IF TooLong(count[t]) /\ hist[conv[t]] # <<>>
                     THEN [hist EXCEPT ![conv[t]] = Tail(@)] ELSE hist
          /\ pc[t] = "trim" /\ pc' = [pc EXCEPT ![t] = "save"] /\ count' = [count EXCEPT ![t] = 0]
          /\ UNCHANGED <<todo, last, faults, failed, rows>> /\ Stays
          BY <1>26, <2>2 DEF Trim, Goto
    <3>2. hist[conv[t]] # <<>> => Tail(hist[conv[t]]) \in Seq(Items) BY <1>3
    <3> QED BY <1>2, <1>3, <1>4, <1>6, <1>7, <1>11, <1>12, <3>1, <3>2 DEF HandTypes
  <2> QED BY <2>1, <2>2
<1>27. CASE Save(t)
      BY <1>20, <1>3, <1>4, <1>6, <1>7, <1>8, <1>9, <1>11, <1>12, <1>27 DEF Save, HandTypes, Goto
<1>28. CASE Question(t)
  <2>1. Row(t, "user") \in MessageRows BY <1>2 DEF Row, MessageRows
  <2> QED BY <1>20, <1>3, <1>4, <1>6, <1>7, <1>8, <1>9, <1>11, <1>12, <1>28, <2>1 DEF Question, HandTypes, Goto
<1>29. CASE Answer(t)
  <2>1. Row(t, "assistant") \in MessageRows BY <1>2 DEF Row, MessageRows
  <2> QED BY <1>20, <1>3, <1>4, <1>7, <1>8, <1>9, <1>11, <1>12, <1>29, <2>1 DEF Answer, HandTypes, Goto
<1> QED BY <1>21, <1>22, <1>23, <1>24, <1>25, <1>26, <1>27, <1>28, <1>29 DEF Persist, AddHistory

(* The ways to persist: look at the list, put the item into it, do the     *)
(* next thing with it, be done with it; or give it up.                     *)
Ways(t) ==
    \/ /\ pc[t] = "persist" /\ pc'[t] \in {"push", "done"}
       /\ UNCHANGED <<todo, hist, rows>>
       /\ pc'[t] = "push" /\ last'[t] # NoItem =>
             hist[conv[t]] # <<>> /\ last'[t] = Last(hist[conv[t]]).user
    \/ /\ pc[t] = "push" /\ pc'[t] = "push" /\ UNCHANGED <<todo, rows>>
       /\ Replaces(t) /\ last'[t] = NoItem
       /\ hist' # hist => hist[conv[t]] # <<>> /\ hist'[conv[t]] = Front(hist[conv[t]])
    \/ /\ pc[t] = "push" /\ pc'[t] = "expire" /\ UNCHANGED <<todo, rows>>
       /\ hist'[conv[t]] = Append(hist[conv[t]], Head(todo[t]))
    \/ /\ pc[t] \in {"expire", "trim", "save"} /\ pc'[t] \in {"trim", "save", "question"}
       /\ UNCHANGED <<todo, rows>>
       /\ hist' # hist => hist[conv[t]] # <<>> /\ hist'[conv[t]] = Tail(hist[conv[t]])
    \/ /\ pc[t] = "question" /\ pc'[t] = "answer" /\ UNCHANGED <<todo, hist>>
       /\ rows' = IF Head(todo[t]).user = NoText THEN rows ELSE rows \cup {Row(t, "user")}
    \/ /\ pc[t] = "answer" /\ pc'[t] = "persist" /\ UNCHANGED hist
       /\ rows' = IF Head(todo[t]).answered THEN rows \cup {Row(t, "assistant")} ELSE rows
       /\ todo'[t] = Tail(todo[t])
    \/ /\ pc[t] \in Held /\ pc'[t] = "persist" /\ t \in failed' /\ UNCHANGED <<hist, rows>>
       /\ todo'[t] = Tail(todo[t])

LEMMA PersistWays ==
  ASSUME HistTypes, PlaceInv, NEW t \in Turns, Persist(t)
  PROVE  HandTypes(t) /\ Ways(t)
<1>1. HandTypes(t) BY PersistTypes
<1>2. pc \in [Turns -> Early \cup Late] /\ todo \in [Turns -> Seq(Items)] /\ last \in [Turns -> Prompts \cup {NoText, NoItem}]
      BY DEF HistTypes
<1>3. hist \in [Convs -> Seq(Items)] BY DEF HistTypes
<1>4. conv[t] \in Convs
  <2>1. pc[t] \in Writing BY DEF Persist, AddHistory, Finish, ReadLast, Pop, Push, Expire, Trim, Save, Question, Answer, GiveUp, Goto, Writing, Held
  <2> QED BY <2>1 DEF PlaceInv, Writing, Held
<1>5. ASSUME NEW from \in Held, GiveUp(t, from), UNCHANGED <<hist, rows>> PROVE Ways(t)
      BY <1>2, <1>5 DEF GiveUp, Ways, Goto, Fault
<1>6. Finish(t) => Ways(t) BY <1>2 DEF Finish, Ways, Goto
<1>7. ReadLast(t) => Ways(t) BY <1>2 DEF ReadLast, Ways, Goto
<1>8. Pop(t) => Ways(t) BY <1>2, <1>3, <1>4 DEF Pop, Ways
<1>9. Push(t) => Ways(t) BY <1>2, <1>3, <1>4, <1>5 DEF Push, Ways, Goto, Held
<1>10. Expire(t) => Ways(t) BY <1>2, <1>5 DEF Expire, Ways, Goto, Held
<1>11. Trim(t) => Ways(t) BY <1>2, <1>3, <1>4, <1>5 DEF Trim, Ways, Goto, Held
<1>12. Save(t) => Ways(t) BY <1>2, <1>5 DEF Save, Ways, Goto, Held
<1>13. Question(t) => Ways(t) BY <1>2, <1>5 DEF Question, Ways, Goto, Held
<1>14. Answer(t) => Ways(t) BY <1>2, <1>5 DEF Answer, Ways, Goto, Held
<1> QED BY <1>1, <1>6, <1>7, <1>8, <1>9, <1>10, <1>11, <1>12, <1>13, <1>14 DEF Persist, AddHistory

LEMMA HistTypesKept == HistTypes /\ PlaceInv /\ [Next]_vars => HistTypes' /\ PlaceInv'
<1> SUFFICES ASSUME HistTypes, PlaceInv, [Next]_vars PROVE HistTypes' /\ PlaceInv' OBVIOUS
<1> USE HistoryAssumption
<1>1. ASSUME NEW t \in Turns, ArriveWeb(t) PROVE HistTypes' /\ PlaceInv'
  <2>1. PICK p \in Prompts : prompt' = [prompt EXCEPT ![t] = p] BY <1>1 DEF ArriveWeb
  <2>2. /\ pc[t] = "new" /\ pc' = [pc EXCEPT ![t] = "bound"] /\ web' = web \cup {t} /\ conv' = [conv EXCEPT ![t] = WebConv]
        /\ UNCHANGED <<todo, last, count, context, failed, mapping, hist, rows, faults, resets, expiries, forgotten>>
        BY <1>1 DEF ArriveWeb, Goto
  <2>3. HistTypes' BY <2>1, <2>2 DEF HistTypes, Early, Convs
  <2>4. PlaceInv' BY <2>1, <2>2 DEF HistTypes, PlaceInv, Held, Early, Convs
  <2> QED BY <2>3, <2>4
<1>2. ASSUME NEW t \in Turns, ArriveChannel(t) PROVE HistTypes' /\ PlaceInv'
  <2>1. PICK p \in Prompts \cup {NoText} : prompt' = [prompt EXCEPT ![t] = p] BY <1>2 DEF ArriveChannel
  <2>2. /\ pc[t] = "new" /\ pc' = [pc EXCEPT ![t] = "mapping"] /\ conv' = [conv EXCEPT ![t] = mapping]
        /\ UNCHANGED <<web, todo, last, count, context, failed, mapping, hist, rows, faults, resets, expiries, forgotten>>
        BY <1>2 DEF ArriveChannel, Goto
  <2>3. HistTypes' BY <2>1, <2>2 DEF HistTypes, Early, Convs
  <2>4. PlaceInv' BY <2>1, <2>2 DEF HistTypes, PlaceInv, Held, Early, NoConv
  <2> QED BY <2>3, <2>4
<1>3. ASSUME NEW t \in Turns, Bind(t) PROVE HistTypes' /\ PlaceInv'
  <2>1. /\ pc[t] = "mapping" /\ pc' = [pc EXCEPT ![t] = "bound"]
        /\ conv' = [conv EXCEPT ![t] = IF @ = NoConv THEN t ELSE @]
        /\ mapping' \in {mapping, t} /\ faults' \in 0..MaxFaults /\ failed' \in SUBSET Turns
        /\ UNCHANGED <<prompt, web, todo, last, count, context, hist, rows, resets, expiries, forgotten>>
        BY <1>3 DEF Bind, Goto, Fault, HistTypes
  <2>2. conv[t] = NoConv \/ conv[t] \in Convs BY DEF HistTypes
  <2>3. HistTypes' BY <2>1, <2>2 DEF HistTypes, Early, Convs
  <2>4. PlaceInv' BY <2>1, <2>2 DEF HistTypes, PlaceInv, Held, Early, Convs
  <2> QED BY <2>3, <2>4
<1>4. ASSUME NEW t \in Turns, Ask(t) PROVE HistTypes' /\ PlaceInv'
  <2>1. PICK places \in SUBSET DOMAIN hist[conv[t]] :
            context' = [context EXCEPT ![t] = {hist[conv[t]][n] : n \in places}]
        BY <1>4, AskedOfList
  <2>2. /\ pc[t] = "bound" /\ pc' = [pc EXCEPT ![t] = "asked"] /\ faults' \in 0..MaxFaults
        /\ UNCHANGED <<prompt, web, conv, todo, last, count, failed, mapping, hist, rows, resets, expiries, forgotten>>
        BY <1>4 DEF Ask, Goto, HistTypes
  <2>3. conv[t] \in Convs BY <2>2 DEF PlaceInv
  <2>4. {hist[conv[t]][n] : n \in places} \subseteq Items BY <2>3 DEF HistTypes
  <2>5. context' \in [Turns -> SUBSET Items] BY <2>1, <2>4 DEF HistTypes
  <2>6. HistTypes' BY <2>2, <2>5 DEF HistTypes, Early
  <2>7. PlaceInv' BY <2>2 DEF HistTypes, PlaceInv, Held, Early
  <2> QED BY <2>6, <2>7
<1>5. ASSUME NEW t \in Turns, Answered(t) PROVE HistTypes' /\ PlaceInv'
  <2>1. PICK answered \in BOOLEAN, counted \in BOOLEAN :
            todo' = [todo EXCEPT ![t] = (IF counted THEN <<Item(t, NoText, FALSE)>> ELSE <<>>)
                                          \o (IF answered THEN <<Item(t, prompt[t], TRUE)>> ELSE <<>>)]
        BY <1>5 DEF Answered
  <2>2. /\ pc[t] = "asked" /\ pc' = [pc EXCEPT ![t] = "persist"]
        /\ UNCHANGED <<prompt, web, conv, last, count, context, failed, mapping, hist, rows, faults, resets, expiries, forgotten>>
        BY <1>5 DEF Answered, Goto
  <2>3. Item(t, NoText, FALSE) \in Items /\ Item(t, prompt[t], TRUE) \in Items BY DEF Item, Items, HistTypes
  <2> DEFINE first == IF counted THEN <<Item(t, NoText, FALSE)>> ELSE <<>>
             second == IF answered THEN <<Item(t, prompt[t], TRUE)>> ELSE <<>>
  <2>a. <<Item(t, NoText, FALSE)>> \in Seq(Items) /\ <<Item(t, prompt[t], TRUE)>> \in Seq(Items) BY <2>3, Single
  <2>b. <<>> \in Seq(Items) OBVIOUS
  <2>c. first \in Seq(Items) /\ second \in Seq(Items) BY <2>a, <2>b
  <2> HIDE DEF first, second
  <2>d. first \o second \in Seq(Items) BY <2>c, ConcatProperties
  <2>4. todo' \in [Turns -> Seq(Items)] BY <2>1, <2>d DEF HistTypes, first, second
  <2>5. HistTypes' BY <2>2, <2>4 DEF HistTypes, Late, Writing
  <2>6. PlaceInv' BY <2>1, <2>2 DEF HistTypes, PlaceInv, Held, Early
  <2> QED BY <2>5, <2>6
<1>6. ASSUME NEW t \in Turns, Persist(t) PROVE HistTypes' /\ PlaceInv'
  <2>1. HandTypes(t) /\ Ways(t) BY <1>6, PersistWays
  <2>2. pc[t] \in Writing BY <2>1 DEF Ways, Writing, Held
  <2>3. conv[t] \in Convs BY <2>2 DEF PlaceInv, Writing, Held
  <2>4. HistTypes' BY <2>1, <2>3 DEF HistTypes, HandTypes, Stays
  <2>5. pc'[t] \notin Early BY <2>1 DEF HandTypes, Early, Late, Writing, Held
  <2>6. PlaceInv' BY <2>1, <2>3, <2>5 DEF HistTypes, HandTypes, PlaceInv, Stays, Early
  <2> QED BY <2>4, <2>6
<1>7. CASE Reset
  <2>1. Answers \subseteq Turns BY DEF Answers, HistTypes, MessageRows
  <2> QED BY <1>7, <2>1 DEF Reset, turn, HistTypes, PlaceInv
<1>8. CASE MappingExpires
      BY <1>8 DEF MappingExpires, turn, HistTypes, PlaceInv
<1>10. ASSUME NEW c \in Convs, ListExpires(c) PROVE HistTypes' /\ PlaceInv'
  <2>1. hist' \in [Convs -> Seq(Items)] BY <1>10 DEF ListExpires, HistTypes
  <2>2. expiries' \in 0..MaxExpiries BY <1>10 DEF ListExpires, HistTypes
  <2>3. UNCHANGED <<turn, mapping, rows, faults, resets, forgotten, prompt, web>> BY <1>10 DEF ListExpires, turn
  <2> QED BY <2>1, <2>2, <2>3 DEF turn, HistTypes, PlaceInv
<1>9. CASE UNCHANGED vars
      BY <1>9 DEF vars, turn, HistTypes, PlaceInv
<1> QED BY <1>1, <1>2, <1>3, <1>4, <1>5, <1>6, <1>7, <1>8, <1>9, <1>10 DEF Next

(* The other steps.  A turn that has not persisted anything changes no     *)
(* list and no row, and before it is asked nothing it is to persist.       *)
Preludes(t) == ArriveWeb(t) \/ ArriveChannel(t) \/ Bind(t) \/ Ask(t)

LEMMA PreludeMoves ==
  ASSUME HistTypes, NEW t \in Turns, Preludes(t)
  PROVE  /\ pc[t] \in Early /\ pc' = [pc EXCEPT ![t] = pc'[t]] /\ pc'[t] \in Early \ {"new"}
         /\ \A u \in Turns \ {t} : conv'[u] = conv[u] /\ prompt'[u] = prompt[u]
         /\ UNCHANGED <<todo, hist, rows, forgotten, last>>
         /\ failed \subseteq failed'
<1>1. ArriveWeb(t) \/ ArriveChannel(t) \/ Bind(t) =>
            /\ \A u \in Turns \ {t} : conv'[u] = conv[u] /\ prompt'[u] = prompt[u]
            /\ UNCHANGED <<todo, hist, rows, forgotten, last>> /\ failed \subseteq failed'
      BY DEF ArriveWeb, ArriveChannel, Bind, HistTypes, Fault
<1>2. Ask(t) => /\ \A u \in Turns \ {t} : conv'[u] = conv[u] /\ prompt'[u] = prompt[u]
                /\ UNCHANGED <<todo, hist, rows, forgotten, last>> /\ failed \subseteq failed'
      BY DEF Ask
<1>3. \/ Goto(t, "new", "bound") \/ Goto(t, "new", "mapping") \/ Goto(t, "mapping", "bound") \/ Goto(t, "bound", "asked")
      BY DEF Preludes, ArriveWeb, ArriveChannel, Bind, Ask
<1>4. pc[t] \in Early /\ pc' = [pc EXCEPT ![t] = pc'[t]] /\ pc'[t] \in Early \ {"new"}
      BY <1>3 DEF Goto, HistTypes, Early
<1> QED BY <1>1, <1>2, <1>4 DEF Preludes

LEMMA AnsweredMoves ==
  ASSUME HistTypes, NEW t \in Turns, Answered(t)
  PROVE  /\ pc[t] = "asked" /\ pc' = [pc EXCEPT ![t] = "persist"]
         /\ todo' = [todo EXCEPT ![t] = todo'[t]]
         /\ \A i \in DOMAIN todo'[t] : todo'[t][i] \in {Item(t, NoText, FALSE), Item(t, prompt[t], TRUE)}
         /\ UNCHANGED <<prompt, conv, failed, hist, rows, web, mapping, context, forgotten, last>>
<1>1. PICK answered \in BOOLEAN, counted \in BOOLEAN :
            todo' = [todo EXCEPT ![t] = (IF counted THEN <<Item(t, NoText, FALSE)>> ELSE <<>>)
                                          \o (IF answered THEN <<Item(t, prompt[t], TRUE)>> ELSE <<>>)]
      BY DEF Answered
<1>2. /\ pc[t] = "asked" /\ pc' = [pc EXCEPT ![t] = "persist"]
      /\ UNCHANGED <<prompt, conv, failed, hist, rows, web, mapping, context, forgotten, last>>
      BY DEF Answered, Goto
<1> DEFINE both == {Item(t, NoText, FALSE), Item(t, prompt[t], TRUE)}
           first == IF counted THEN <<Item(t, NoText, FALSE)>> ELSE <<>>
           second == IF answered THEN <<Item(t, prompt[t], TRUE)>> ELSE <<>>
<1>3. <<Item(t, NoText, FALSE)>> \in Seq(both) /\ <<Item(t, prompt[t], TRUE)>> \in Seq(both) /\ <<>> \in Seq(both) BY Single
<1>4. first \in Seq(both) /\ second \in Seq(both) BY <1>3
<1>5. todo' = [todo EXCEPT ![t] = first \o second] BY <1>1
<1> HIDE DEF both, first, second
<1>6. first \o second \in Seq(both) BY <1>4, ConcatProperties
<1>7. todo'[t] = first \o second /\ todo' = [todo EXCEPT ![t] = todo'[t]] BY <1>5 DEF HistTypes
<1>8. \A i \in DOMAIN todo'[t] : todo'[t][i] \in both BY <1>6, <1>7
<1> QED BY <1>2, <1>7, <1>8 DEF both

(* An item of a list was there before, or is the one just appended.        *)
LEMMA ListsGrow ==
  ASSUME HistTypes, PlaceInv, NEW t \in Turns, HandTypes(t), Ways(t)
  PROVE  /\ \A c \in Convs : \A i \in DOMAIN hist'[c] :
               \/ \E n \in DOMAIN hist[c] : hist'[c][i] = hist[c][n]
               \/ /\ c = conv[t] /\ hist'[c][i] = Head(todo[t]) /\ 1 \in DOMAIN todo[t]
                  /\ pc[t] = "push" /\ pc'[t] = "expire" /\ todo' = todo
         /\ \A i \in DOMAIN todo'[t] : \E n \in DOMAIN todo[t] : todo'[t][i] = todo[t][n]
         /\ pc[t] \in Writing /\ conv[t] \in Convs
<1>1. pc[t] \in Writing BY DEF Ways, Writing, Held
<1>2. conv[t] \in Convs BY <1>1 DEF PlaceInv, Writing, Held
<1>3. hist[conv[t]] \in Seq(Items) /\ todo[t] \in Seq(Items) BY <1>2 DEF HistTypes
<1>4. pc[t] \in Held => todo[t] # <<>> /\ Len(todo[t]) > 0 /\ 1 \in DOMAIN todo[t] BY <1>3 DEF PlaceInv
<1>5. \A i \in DOMAIN todo'[t] : \E n \in DOMAIN todo[t] : todo'[t][i] = todo[t][n]
  <2>1. CASE todo' = todo BY <2>1
  <2>2. CASE pc[t] \in Held /\ todo'[t] = Tail(todo[t])
    <3>1. \A i \in DOMAIN Tail(todo[t]) : i + 1 \in DOMAIN todo[t] /\ Tail(todo[t])[i] = todo[t][i + 1]
          BY <1>3, <1>4, <2>2
    <3> QED BY <2>2, <3>1
  <2> QED BY <2>1, <2>2 DEF Ways, Held
<1>6. ASSUME NEW i \in DOMAIN hist'[conv[t]]
      PROVE  \/ \E n \in DOMAIN hist[conv[t]] : hist'[conv[t]][i] = hist[conv[t]][n]
             \/ /\ hist'[conv[t]][i] = Head(todo[t]) /\ pc[t] = "push" /\ pc'[t] = "expire" /\ todo' = todo
  <2>1. CASE hist' = hist BY <2>1
  <2>2. CASE hist[conv[t]] # <<>> /\ hist'[conv[t]] = Front(hist[conv[t]])
        BY <1>3, <1>6, <2>2 DEF Front
  <2>3. CASE hist[conv[t]] # <<>> /\ hist'[conv[t]] = Tail(hist[conv[t]])
    <3>1. \A k \in DOMAIN Tail(hist[conv[t]]) : k + 1 \in DOMAIN hist[conv[t]] /\ Tail(hist[conv[t]])[k] = hist[conv[t]][k + 1]
          BY <1>3, <2>3
    <3> QED BY <1>6, <2>3, <3>1
  <2>4. CASE pc[t] = "push" /\ pc'[t] = "expire" /\ todo' = todo /\ hist'[conv[t]] = Append(hist[conv[t]], Head(todo[t]))
    <3>1. Head(todo[t]) \in Items BY <1>3, <1>4, <2>4 DEF Held
    <3>2. \A k \in DOMAIN Append(hist[conv[t]], Head(todo[t])) :
            \/ k \in DOMAIN hist[conv[t]] /\ Append(hist[conv[t]], Head(todo[t]))[k] = hist[conv[t]][k]
            \/ Append(hist[conv[t]], Head(todo[t]))[k] = Head(todo[t])
          BY <1>3, <3>1
    <3> QED BY <1>6, <2>4, <3>2
  <2> QED BY <2>1, <2>2, <2>3, <2>4 DEF Ways
<1>7. \A c \in Convs \ {conv[t]} : hist'[c] = hist[c] BY <1>2 DEF HandTypes, HistTypes
<1> QED BY <1>1, <1>2, <1>4, <1>5, <1>6, <1>7 DEF Held

LEMMA ItemTurns ==
  ASSUME HistTypes
  PROVE  /\ \A c \in Convs : \A i \in DOMAIN hist[c] : hist[c][i] \in Items /\ hist[c][i].turn \in Turns
         /\ \A t \in Turns : \A i \in DOMAIN todo[t] : todo[t][i] \in Items
         /\ \A r \in rows : r \in MessageRows /\ r.turn \in Turns
<1>1. \A c \in Convs : \A i \in DOMAIN hist[c] : hist[c][i] \in Items BY DEF HistTypes
<1>2. \A t \in Turns : \A i \in DOMAIN todo[t] : todo[t][i] \in Items BY DEF HistTypes
<1>3. \A r \in rows : r \in MessageRows /\ r.turn \in Turns BY DEF HistTypes, MessageRows
<1> QED BY <1>1, <1>2, <1>3 DEF Items

LEMMA OwnKept == HistTypes /\ PlaceInv /\ OwnInv /\ [Next]_vars => OwnInv'
<1> SUFFICES ASSUME HistTypes, PlaceInv, OwnInv, [Next]_vars PROVE OwnInv' OBVIOUS
<1>0. /\ \A c \in Convs : \A i \in DOMAIN hist[c] : hist[c][i].turn \in Turns
      /\ \A r \in rows : r.turn \in Turns
      BY ItemTurns
<1>1. ASSUME NEW t \in Turns, Preludes(t) PROVE OwnInv'
  <2>1. pc[t] \notin Late /\ \A u \in Turns : pc[u] \in Late => u # t /\ pc'[u] = pc[u]
        BY <1>1, PreludeMoves DEF Early, Late, Writing, Held, HistTypes
  <2>2. /\ \A u \in Turns \ {t} : conv'[u] = conv[u] /\ prompt'[u] = prompt[u]
        /\ UNCHANGED <<todo, hist, rows, forgotten, last>>
        BY <1>1, PreludeMoves
  <2>3. todo[t] = <<>> BY <1>1, PreludeMoves DEF PlaceInv
  <2> QED BY <1>0, <2>1, <2>2, <2>3 DEF OwnInv
<1>2. ASSUME NEW t \in Turns, Answered(t) PROVE OwnInv'
  <2>1. /\ pc[t] = "asked" /\ pc' = [pc EXCEPT ![t] = "persist"] /\ todo' = [todo EXCEPT ![t] = todo'[t]]
        /\ \A i \in DOMAIN todo'[t] : todo'[t][i] \in {Item(t, NoText, FALSE), Item(t, prompt[t], TRUE)}
        /\ UNCHANGED <<prompt, conv, hist, rows>>
        BY <1>2, AnsweredMoves
  <2>2. \A u \in Turns : pc[u] \in Late => pc'[u] \in Late
        BY <2>1 DEF Late, Writing, HistTypes
  <2>3. \A i \in DOMAIN todo'[t] : todo'[t][i].turn = t /\ (todo'[t][i].answered => todo'[t][i].user = prompt[t])
        BY <2>1 DEF Item
  <2>4. \A u \in Turns : \A i \in DOMAIN todo'[u] :
            todo'[u][i].turn = u /\ (todo'[u][i].answered => todo'[u][i].user = prompt'[u])
    <3>1. \A u \in Turns \ {t} : todo'[u] = todo[u] BY <2>1 DEF HistTypes
    <3>2. prompt' = prompt BY <2>1
    <3> QED BY <2>3, <3>1, <3>2 DEF OwnInv
  <2>5. \A c \in Convs : \A i \in DOMAIN hist'[c] : conv'[hist'[c][i].turn] = c /\ pc'[hist'[c][i].turn] \in Late
        BY <1>0, <2>1, <2>2 DEF OwnInv
  <2>6. \A r \in rows' : conv'[r.turn] = r.conv /\ pc'[r.turn] \in Late
        BY <1>0, <2>1, <2>2 DEF OwnInv
  <2> QED BY <2>4, <2>5, <2>6 DEF OwnInv
<1>3. ASSUME NEW t \in Turns, Persist(t) PROVE OwnInv'
  <2>1. HandTypes(t) /\ Ways(t) BY <1>3, PersistWays
  <2>2. /\ \A c \in Convs : \A i \in DOMAIN hist'[c] :
               \/ \E n \in DOMAIN hist[c] : hist'[c][i] = hist[c][n]
               \/ c = conv[t] /\ hist'[c][i] = Head(todo[t]) /\ 1 \in DOMAIN todo[t]
        /\ \A i \in DOMAIN todo'[t] : \E n \in DOMAIN todo[t] : todo'[t][i] = todo[t][n]
        /\ pc[t] \in Writing /\ conv[t] \in Convs
        BY <2>1, ListsGrow
  <2>3. conv' = conv /\ prompt' = prompt /\ pc'[t] \in Late /\ \A u \in Turns : pc[u] \in Late => pc'[u] \in Late
        BY <2>1 DEF HandTypes, Stays, HistTypes
  <2>4. 1 \in DOMAIN todo[t] => Head(todo[t]).turn = t
    <3>1. 1 \in DOMAIN todo[t] => Head(todo[t]) = todo[t][1] BY DEF HistTypes
    <3> QED BY <3>1 DEF OwnInv
  <2>5. \A c \in Convs : \A i \in DOMAIN hist'[c] : conv'[hist'[c][i].turn] = c /\ pc'[hist'[c][i].turn] \in Late
        BY <1>0, <2>2, <2>3, <2>4 DEF OwnInv
  <2>6. \A u \in Turns : \A i \in DOMAIN todo'[u] :
            todo'[u][i].turn = u /\ (todo'[u][i].answered => todo'[u][i].user = prompt'[u])
    <3>1. \A u \in Turns \ {t} : todo'[u] = todo[u] BY <2>1 DEF HandTypes, HistTypes
    <3> QED BY <2>2, <2>3, <3>1 DEF OwnInv
  <2>7. \A r \in rows' : conv'[r.turn] = r.conv /\ pc'[r.turn] \in Late
    <3>1. rows' \subseteq rows \cup {Row(t, "user"), Row(t, "assistant")} BY <2>1 DEF Ways
    <3> QED BY <1>0, <2>3, <3>1 DEF OwnInv, Row
  <2> QED BY <2>5, <2>6, <2>7 DEF OwnInv
<1>4. ASSUME NEW c \in Convs, ListExpires(c) PROVE OwnInv'
  <2>1. /\ hist' = [hist EXCEPT ![c] = <<>>] /\ UNCHANGED <<pc, conv, prompt, todo, rows>>
        BY <1>4 DEF ListExpires, turn
  <2> QED BY <2>1 DEF OwnInv, HistTypes
<1>5. CASE Reset \/ MappingExpires \/ UNCHANGED vars
      BY <1>5 DEF Reset, MappingExpires, vars, turn, OwnInv
<1> QED BY <1>1, <1>2, <1>3, <1>4, <1>5 DEF Next, Preludes

LEMMA PairKept == HistTypes /\ PlaceInv /\ OwnInv /\ PairInv /\ [Next]_vars => PairInv'
<1> SUFFICES ASSUME HistTypes, PlaceInv, OwnInv, PairInv, [Next]_vars PROVE PairInv' OBVIOUS
<1>0. /\ \A c \in Convs : \A i \in DOMAIN hist[c] : hist[c][i].turn \in Turns /\ pc[hist[c][i].turn] \in Late
      /\ \A r \in rows : r \in MessageRows /\ r.turn \in Turns /\ pc[r.turn] \in Late /\ conv[r.turn] = r.conv
      BY ItemTurns DEF OwnInv
<1>1. ASSUME NEW t \in Turns, pc[t] \notin Late, pc'[t] # "answer",
             \A u \in Turns \ {t} : /\ pc'[u] = pc[u] /\ conv'[u] = conv[u]
                                    /\ prompt'[u] = prompt[u] /\ todo'[u] = todo[u],
             UNCHANGED <<hist, rows>>, failed \subseteq failed'
      PROVE  PairInv'
  <2>1. QuestionStands' BY <1>0, <1>1 DEF PairInv, QuestionStands
  <2>2. QuestionWritten' BY <1>1 DEF PairInv, QuestionWritten, Row
  <2>3. AnswerComes'
    <3>1. Answers' = Answers BY <1>1 DEF Answers
    <3>2. \A c \in Convs : \A i \in DOMAIN hist[c] : hist[c][i].turn \in Turns \ {t} BY <1>0, <1>1
    <3> QED BY <1>1, <3>1, <3>2 DEF PairInv, AnswerComes
  <2> QED BY <2>1, <2>2, <2>3 DEF PairInv
<1>2. ASSUME NEW t \in Turns, Preludes(t) PROVE PairInv'
  <2>1. /\ pc[t] \in Early /\ pc' = [pc EXCEPT ![t] = pc'[t]] /\ pc'[t] \in Early \ {"new"}
        /\ \A u \in Turns \ {t} : conv'[u] = conv[u] /\ prompt'[u] = prompt[u]
        /\ UNCHANGED <<todo, hist, rows>> /\ failed \subseteq failed'
        BY <1>2, PreludeMoves
  <2>2. pc[t] \notin Late /\ pc'[t] # "answer" BY <2>1 DEF Early, Late, Writing, Held
  <2>3. \A u \in Turns \ {t} : pc'[u] = pc[u] BY <2>1 DEF HistTypes
  <2> QED BY <1>1, <2>1, <2>2, <2>3
<1>3. ASSUME NEW t \in Turns, Answered(t) PROVE PairInv'
  <2>1. /\ pc[t] = "asked" /\ pc' = [pc EXCEPT ![t] = "persist"] /\ todo' = [todo EXCEPT ![t] = todo'[t]]
        /\ UNCHANGED <<prompt, conv, failed, hist, rows>>
        BY <1>3, AnsweredMoves
  <2>2. pc[t] \notin Late BY <2>1 DEF Late, Writing, Held
  <2>3. pc'[t] # "answer" /\ \A u \in Turns \ {t} : pc'[u] = pc[u] /\ todo'[u] = todo[u] BY <2>1 DEF HistTypes
  <2> QED BY <1>1, <2>1, <2>2, <2>3
<1>4. ASSUME NEW t \in Turns, Persist(t) PROVE PairInv'
  <2>1. HandTypes(t) /\ Ways(t) BY <1>4, PersistWays
  <2>2. /\ \A c \in Convs : \A i \in DOMAIN hist'[c] :
               \/ \E n \in DOMAIN hist[c] : hist'[c][i] = hist[c][n]
               \/ /\ c = conv[t] /\ hist'[c][i] = Head(todo[t]) /\ 1 \in DOMAIN todo[t]
                  /\ pc'[t] = "expire" /\ todo' = todo
        /\ pc[t] \in Writing /\ conv[t] \in Convs
        BY <2>1, ListsGrow
  <2>3. /\ conv' = conv /\ prompt' = prompt /\ failed \subseteq failed'
        /\ \A u \in Turns \ {t} : pc'[u] = pc[u] /\ todo'[u] = todo[u]
        BY <2>1 DEF HandTypes, Stays, HistTypes
  <2>4. pc[t] \in Held => /\ 1 \in DOMAIN todo[t] /\ Head(todo[t]) = todo[t][1]
                          /\ Head(todo[t]).turn = t /\ (Head(todo[t]).answered => Head(todo[t]).user = prompt[t])
    <3>1. pc[t] \in Held => 1 \in DOMAIN todo[t] /\ Head(todo[t]) = todo[t][1]
      <4>1. todo[t] \in Seq(Items) BY DEF HistTypes
      <4> QED BY <4>1 DEF PlaceInv
    <3> QED BY <3>1 DEF OwnInv
  <2>5. rows \subseteq rows' BY <2>1 DEF Ways
  <2>6. \A r \in rows' \ rows :
            \/ r = Row(t, "user")
            \/ r = Row(t, "assistant") /\ pc[t] = "answer" /\ Head(todo[t]).answered
        BY <2>1 DEF Ways
  <2>7. QuestionStands'
    <3>1. [Row(t, "assistant") EXCEPT !.role = "user"] = Row(t, "user") /\ Row(t, "user").role = "user"
          /\ Row(t, "assistant").turn = t
          BY DEF Row
    <3>2. ASSUME NEW r \in rows', r.role = "assistant", prompt[r.turn] # NoText
          PROVE  [r EXCEPT !.role = "user"] \in rows'
      <4>1. CASE r \in rows BY <2>5, <3>2, <4>1 DEF PairInv, QuestionStands
      <4>2. CASE r \notin rows
        <5>1. r = Row(t, "assistant") /\ pc[t] = "answer" /\ Head(todo[t]).answered BY <2>6, <3>1, <3>2, <4>2
        <5>2. Row(t, "user") \in rows BY <3>1, <3>2, <5>1 DEF PairInv, QuestionWritten
        <5> QED BY <2>5, <3>1, <5>1, <5>2
      <4> QED BY <4>1, <4>2
    <3> QED BY <2>3, <3>2 DEF QuestionStands
  <2>8. QuestionWritten'
    <3>1. \A u \in Turns : Row(u, "user")' = Row(u, "user") BY <2>3 DEF Row
    <3>2. ASSUME NEW u \in Turns \ {t}, pc'[u] = "answer", Head(todo'[u]).answered, prompt[u] # NoText
          PROVE  Row(u, "user") \in rows'
          BY <2>3, <2>5, <3>2 DEF PairInv, QuestionWritten
    <3>3. ASSUME pc'[t] = "answer", Head(todo'[t]).answered, prompt[t] # NoText
          PROVE  Row(t, "user") \in rows'
      <4>1. /\ pc[t] = "question" /\ todo' = todo
            /\ rows' = IF Head(todo[t]).user = NoText THEN rows ELSE rows \cup {Row(t, "user")}
            BY <2>1, <3>3 DEF Ways
      <4>2. Head(todo[t]).user = prompt[t] BY <2>4, <3>3, <4>1 DEF Held
      <4> QED BY <3>3, <4>1, <4>2
    <3> QED BY <2>3, <3>1, <3>2, <3>3 DEF QuestionWritten
  <2>9. AnswerComes'
    <3>1. Answers \subseteq Answers' BY <2>5 DEF Answers
    <3>2. pc[t] \in Pushed /\ Head(todo[t]).answered =>
             \/ t \in failed' \/ t \in Answers' \/ (pc'[t] \in Pushed /\ Head(todo'[t]).answered)
      <4>1. SUFFICES ASSUME pc[t] \in Pushed, Head(todo[t]).answered
                     PROVE  \/ t \in failed' \/ t \in Answers' \/ (pc'[t] \in Pushed /\ Head(todo'[t]).answered)
            OBVIOUS
      <4>2. \/ pc'[t] \in Pushed /\ todo' = todo
            \/ rows' = rows \cup {Row(t, "assistant")}
            \/ t \in failed'
            BY <2>1, <4>1 DEF Ways, Pushed, Held
      <4>3. rows' = rows \cup {Row(t, "assistant")} => t \in Answers'
        <5>1. Row(t, "assistant").role = "assistant" /\ Row(t, "assistant").turn = t BY DEF Row
        <5> QED BY <5>1 DEF Answers
      <4> QED BY <4>1, <4>2, <4>3
    <3>3. ASSUME NEW c \in Convs, NEW i \in DOMAIN hist'[c], hist'[c][i].answered, NEW u, u = hist'[c][i].turn
          PROVE  \/ u \in failed' \/ u \in Answers' \/ (pc'[u] \in Pushed /\ Head(todo'[u]).answered)
      <4>1. CASE \E n \in DOMAIN hist[c] : hist'[c][i] = hist[c][n]
        <5>1. \/ u \in failed \/ u \in Answers \/ (pc[u] \in Pushed /\ Head(todo[u]).answered)
              BY <3>3, <4>1 DEF PairInv, AnswerComes
        <5>2. u \in Turns BY <1>0, <3>3, <4>1
        <5> QED BY <2>3, <3>1, <3>2, <5>1, <5>2
      <4>2. CASE hist'[c][i] = Head(todo[t]) /\ pc'[t] = "expire" /\ todo' = todo
        <5>1. pc[t] \in Held BY <2>1, <4>2 DEF Ways, Held
        <5>2. u = t BY <2>4, <3>3, <4>2, <5>1
        <5> QED BY <3>3, <4>2, <5>2 DEF Pushed, Held
      <4> QED BY <2>2, <4>1, <4>2
    <3> QED BY <3>3 DEF AnswerComes
  <2> QED BY <2>7, <2>8, <2>9 DEF PairInv
<1>5. ASSUME NEW c \in Convs, ListExpires(c) PROVE PairInv'
  <2>1. /\ hist' = [hist EXCEPT ![c] = <<>>] /\ UNCHANGED <<pc, conv, prompt, todo, failed, rows>>
        BY <1>5 DEF ListExpires, turn
  <2>2. AnswerComes' BY <2>1 DEF PairInv, AnswerComes, Answers, HistTypes
  <2> QED BY <2>1, <2>2 DEF PairInv, QuestionStands, QuestionWritten, Row
<1>6. CASE Reset \/ MappingExpires \/ UNCHANGED vars
  <2>1. UNCHANGED <<pc, conv, prompt, todo, failed, rows, hist>> BY <1>6 DEF Reset, MappingExpires, vars, turn
  <2> QED BY <2>1 DEF PairInv, QuestionStands, QuestionWritten, AnswerComes, Answers, Row
<1> QED BY <1>2, <1>3, <1>4, <1>5, <1>6 DEF Next, Preludes

LEMMA PairedRecords == PairInv => RecordsPaired
  BY DEF PairInv, QuestionStands, AnswerComes, RecordsPaired, Pushed, Held

LEMMA ForgetKept == HistTypes /\ PlaceInv /\ OwnInv /\ ForgetInv /\ [Next]_vars => ForgetInv'
<1> SUFFICES ASSUME HistTypes, PlaceInv, OwnInv, ForgetInv, [Next]_vars PROVE ForgetInv' OBVIOUS
<1> USE HistoryAssumption
<1>1. ASSUME UNCHANGED <<conv, mapping, context, forgotten, web>>, rows \subseteq rows',
             \A u \in Turns : pc'[u] = pc[u] \/ {pc[u], pc'[u]} \cap {"new", "mapping"} = {}
      PROVE  ForgetInv'
  <2>1. Answers \subseteq Answers' BY <1>1 DEF Answers
  <2>2. \A u \in Turns : Meant(u)' = Meant(u) BY <1>1 DEF Meant
  <2> QED BY <1>1, <2>1, <2>2 DEF ForgetInv, ResetForgets
<1>2. \A u, v \in Turns : pc[v] \in Early => v \notin forgotten[u]
  <2>1. \A v \in Answers : pc[v] \in Late BY DEF Answers, OwnInv
  <2> QED BY <2>1 DEF ForgetInv, Early, Late, Writing, Held
<1>3. ASSUME NEW t \in Turns, ArriveWeb(t) PROVE ForgetInv'
  <2>1. /\ pc[t] = "new" /\ pc' = [pc EXCEPT ![t] = "bound"] /\ web' = web \cup {t}
        /\ conv' = [conv EXCEPT ![t] = WebConv] /\ UNCHANGED <<context, mapping, rows, forgotten>>
        BY <1>3 DEF ArriveWeb, Goto
  <2>2. conv'[t] = WebConv /\ pc'[t] = "bound" /\ \A u \in Turns \ {t} : conv'[u] = conv[u] /\ pc'[u] = pc[u]
        BY <2>1 DEF HistTypes
  <2>3. \A u \in Turns \ {t} : Meant(u)' = Meant(u) BY <2>1, <2>2 DEF Meant
  <2>4. Answers' = Answers BY <2>1 DEF Answers
  <2> QED BY <2>1, <2>2, <2>3, <2>4 DEF ForgetInv, ResetForgets
<1>4. ASSUME NEW t \in Turns, ArriveChannel(t) PROVE ForgetInv'
  <2>1. /\ pc[t] = "new" /\ pc' = [pc EXCEPT ![t] = "mapping"]
        /\ conv' = [conv EXCEPT ![t] = mapping] /\ UNCHANGED <<web, context, mapping, rows, forgotten>>
        BY <1>4 DEF ArriveChannel, Goto
  <2>2. conv'[t] = mapping /\ pc'[t] = "mapping" /\ \A u \in Turns \ {t} : conv'[u] = conv[u] /\ pc'[u] = pc[u]
        BY <2>1 DEF HistTypes
  <2>3. \A u \in Turns : Meant(u)' = Meant(u) BY <2>1, <2>2 DEF Meant
  <2>4. Answers' = Answers BY <2>1 DEF Answers
  <2>5. \A u \in Turns : t \notin forgotten[u] BY <1>2, <2>1 DEF Early
  <2>6. mapping # WebConv BY DEF HistTypes
  <2>7. \A u \in Turns : (mapping' = u \/ \E v \in Turns : conv'[v] = u) => pc'[u] \notin {"new", "mapping"}
        BY <2>1, <2>2 DEF ForgetInv
  <2>8. \A u \in Turns \ web' : \A v \in Turns :
            Meant(u)' \in Turns /\ conv'[v] = Meant(u)' => v \notin forgotten'[u]
        BY <2>1, <2>2, <2>3, <2>5 DEF ForgetInv
  <2> QED BY <2>1, <2>2, <2>4, <2>6, <2>7, <2>8 DEF ForgetInv, ResetForgets
<1>5. ASSUME NEW t \in Turns, Bind(t) PROVE ForgetInv'
  <2>1. /\ pc[t] = "mapping" /\ pc' = [pc EXCEPT ![t] = "bound"] /\ mapping' \in {mapping, t}
        /\ conv' = [conv EXCEPT ![t] = IF @ = NoConv THEN t ELSE @] /\ UNCHANGED <<web, context, rows, forgotten>>
        BY <1>5 DEF Bind, Goto
  <2>2. /\ conv'[t] \in {conv[t], t} /\ pc'[t] = "bound"
        /\ \A u \in Turns \ {t} : conv'[u] = conv[u] /\ pc'[u] = pc[u]
        BY <2>1 DEF HistTypes
  <2>3. Answers' = Answers BY <2>1 DEF Answers
  <2>4. \A u \in Turns : t \notin forgotten[u] BY <1>2, <2>1 DEF Early
  <2>5. \A v \in Turns : conv[v] # t BY <2>1 DEF ForgetInv
  <2>6. \A u \in Turns : Meant(u)' = Meant(u) \/ Meant(u)' = t BY <2>1, <2>2 DEF Meant
  <2>7. \A u \in Turns : (mapping' = u \/ \E v \in Turns : conv'[v] = u) => pc'[u] \notin {"new", "mapping"}
        BY <2>1, <2>2 DEF ForgetInv
  <2>8. \A u \in Turns \ web' : \A v \in Turns :
            Meant(u)' \in Turns /\ conv'[v] = Meant(u)' => v \notin forgotten'[u]
        BY <2>1, <2>2, <2>4, <2>5, <2>6 DEF ForgetInv
  <2> QED BY <2>1, <2>2, <2>3, <2>7, <2>8 DEF ForgetInv, ResetForgets
<1>6. ASSUME NEW t \in Turns, Ask(t) PROVE ForgetInv'
  <2>1. PICK places \in SUBSET DOMAIN hist[conv[t]] :
            context' = [context EXCEPT ![t] = {hist[conv[t]][n] : n \in places}]
        BY <1>6, AskedOfList
  <2>2. /\ pc[t] = "bound" /\ pc' = [pc EXCEPT ![t] = "asked"]
        /\ UNCHANGED <<web, conv, mapping, rows, forgotten>>
        BY <1>6 DEF Ask, Goto
  <2>3. \A u \in Turns : Meant(u)' = Meant(u) BY <2>2 DEF Meant, HistTypes
  <2>4. Answers' = Answers BY <2>2 DEF Answers
  <2>5. context'[t] = {hist[conv[t]][n] : n \in places} /\ \A u \in Turns \ {t} : context'[u] = context[u]
        BY <2>1 DEF HistTypes
  <2>6. conv[t] \in Convs BY <2>2 DEF PlaceInv
  <2>7. t \notin web => \A i \in context'[t] : i.turn \notin forgotten'[t]
    <3>1. \A n \in DOMAIN hist[conv[t]] : hist[conv[t]][n].turn \in Turns /\ conv[hist[conv[t]][n].turn] = conv[t]
          BY <2>6, ItemTurns DEF OwnInv
    <3>2. t \notin web => conv[t] \in Turns /\ Meant(t) = conv[t] BY <2>2, <2>6 DEF ForgetInv, Convs, Meant
    <3> QED BY <2>2, <2>5, <3>1, <3>2 DEF ForgetInv
  <2>8. ResetForgets' BY <2>2, <2>5, <2>7 DEF ForgetInv, ResetForgets
  <2>9. \A u \in Turns : pc'[u] = "new" => context'[u] = {} BY <2>2, <2>5 DEF ForgetInv, HistTypes
  <2>10. \A u \in Turns : pc'[u] \in {"new", "mapping"} => pc[u] = pc'[u] BY <2>2 DEF HistTypes
  <2> QED BY <2>2, <2>3, <2>4, <2>8, <2>9, <2>10 DEF ForgetInv
<1>7. ASSUME NEW t \in Turns, Answered(t) PROVE ForgetInv'
  <2>1. /\ pc[t] = "asked" /\ pc' = [pc EXCEPT ![t] = "persist"]
        /\ UNCHANGED <<conv, rows, web, mapping, context, forgotten>>
        BY <1>7, AnsweredMoves
  <2> QED BY <1>1, <2>1 DEF HistTypes
<1>8. ASSUME NEW t \in Turns, Persist(t) PROVE ForgetInv'
  <2>1. HandTypes(t) /\ Ways(t) BY <1>8, PersistWays
  <2>2. UNCHANGED <<conv, mapping, context, forgotten, web>> BY <2>1 DEF HandTypes, Stays
  <2>3. rows \subseteq rows' BY <2>1 DEF Ways
  <2>4. pc[t] \in Late /\ pc'[t] \in Late /\ \A u \in Turns \ {t} : pc'[u] = pc[u]
        BY <2>1 DEF HandTypes, HistTypes, Ways, Late, Writing, Held
  <2>5. {pc[t], pc'[t]} \cap {"new", "mapping"} = {} BY <2>4 DEF Late, Writing, Held
  <2> QED BY <1>1, <2>2, <2>3, <2>4, <2>5
<1>9. CASE Reset
  <2>1. /\ mapping' = NoConv /\ UNCHANGED <<pc, conv, context, web, rows>>
        /\ forgotten' = [t \in Turns |-> IF pc[t] = "new" THEN Answers \ web ELSE forgotten[t]]
        BY <1>9 DEF Reset, turn
  <2>2. Answers' = Answers BY <2>1 DEF Answers
  <2>3. \A u \in Turns : Meant(u)' = IF pc[u] = "new" THEN NoConv ELSE Meant(u) BY <2>1 DEF Meant
  <2> QED BY <2>1, <2>2, <2>3 DEF ForgetInv, ResetForgets
<1>10. CASE MappingExpires
  <2>1. mapping' = NoConv /\ UNCHANGED <<pc, conv, context, web, rows, forgotten>>
        BY <1>10 DEF MappingExpires, turn
  <2>2. Answers' = Answers BY <2>1 DEF Answers
  <2>3. \A u \in Turns : Meant(u)' = IF pc[u] = "new" THEN NoConv ELSE Meant(u) BY <2>1 DEF Meant
  <2> QED BY <2>1, <2>2, <2>3 DEF ForgetInv, ResetForgets
<1>11. ASSUME NEW c \in Convs, ListExpires(c) PROVE ForgetInv'
       BY <1>1, <1>11 DEF ListExpires, turn
<1>12. CASE UNCHANGED vars BY <1>1, <1>12 DEF vars, turn
<1> QED BY <1>3, <1>4, <1>5, <1>6, <1>7, <1>8, <1>9, <1>10, <1>11, <1>12 DEF Next

LEMMA LastKept == HistTypes /\ PlaceInv /\ LastInv /\ [Next]_vars => LastInv'
<1> SUFFICES ASSUME HistTypes, PlaceInv, LastInv, [Next]_vars PROVE LastInv' OBVIOUS
<1>1. ASSUME NEW t \in Turns, Preludes(t) \/ Answered(t) PROVE LastInv'
  <2>1. /\ pc[t] \in Early /\ pc'[t] # "push"
        /\ \A u \in Turns \ {t} : conv'[u] = conv[u] /\ pc'[u] = pc[u]
        /\ UNCHANGED <<hist, last>>
    <3>1. CASE Preludes(t)
      <4>1. /\ pc[t] \in Early /\ pc' = [pc EXCEPT ![t] = pc'[t]] /\ pc'[t] \in Early \ {"new"}
            /\ (\A u \in Turns \ {t} : conv'[u] = conv[u]) /\ UNCHANGED <<hist, last>>
            BY <3>1, PreludeMoves
      <4>2. pc'[t] # "push" BY <4>1 DEF Early
      <4> QED BY <4>1, <4>2 DEF HistTypes
    <3>2. CASE Answered(t) BY <3>2, AnsweredMoves, ZenonT(60) DEF HistTypes, Early
    <3> QED BY <1>1, <3>1, <3>2
  <2>2. \A u \in Turns \ {t} : pc[u] = "push" /\ Shared(u) => Shared(u)'
        BY <2>1 DEF Shared
  <2> QED BY <2>1, <2>2 DEF LastInv
<1>2. ASSUME NEW t \in Turns, Persist(t) PROVE LastInv'
  <2>1. HandTypes(t) /\ Ways(t) BY <1>2, PersistWays
  <2>2. /\ conv' = conv /\ pc[t] \notin Early /\ pc'[t] \notin Early
        /\ \A u \in Turns \ {t} : pc'[u] = pc[u] /\ last'[u] = last[u]
        BY <2>1 DEF HandTypes, Stays, HistTypes, Ways, Early, Late, Writing, Held
  <2>3. conv[t] \in Convs BY <2>2 DEF PlaceInv, Early
  <2>4. \A c \in Convs \ {conv[t]} : hist'[c] = hist[c] BY <2>1, <2>3 DEF HandTypes, HistTypes
  <2>5. \A u \in Turns : Shared(u) => Shared(u)' BY <2>2 DEF Shared
  <2>6. ASSUME NEW u \in Turns \ {t}, pc'[u] = "push", last'[u] # NoItem
        PROVE  \/ hist'[conv'[u]] # <<>> /\ Last(hist'[conv'[u]]).user = last'[u]
               \/ Shared(u)'
    <3>1. CASE conv[u] = conv[t] BY <2>2, <3>1 DEF Shared
    <3>2. CASE conv[u] # conv[t]
      <4>1. conv[u] \in Convs BY <2>2, <2>6 DEF PlaceInv
      <4>2. hist'[conv'[u]] = hist[conv[u]] BY <2>2, <2>4, <3>2, <4>1
      <4> QED BY <2>2, <2>5, <2>6, <4>2 DEF LastInv
    <3> QED BY <3>1, <3>2
  <2>7. pc'[t] = "push" /\ last'[t] # NoItem => hist'[conv'[t]] # <<>> /\ Last(hist'[conv'[t]]).user = last'[t]
        BY <2>1, <2>2 DEF Ways
  <2> QED BY <2>6, <2>7 DEF LastInv
<1>3. ASSUME NEW c \in Convs, ListExpires(c) PROVE LastInv'
  <2>1. /\ hist' = [hist EXCEPT ![c] = <<>>] /\ UNCHANGED <<pc, conv, last>>
        /\ \A u \in Turns : conv[u] = c => pc[u] \in {"new", "done"}
        BY <1>3 DEF ListExpires, turn
  <2>2. \A u \in Turns : Shared(u) => Shared(u)' BY <2>1 DEF Shared
  <2>3. \A u \in Turns : pc[u] = "push" => hist'[conv[u]] = hist[conv[u]]
        BY <2>1 DEF PlaceInv, HistTypes
  <2> QED BY <2>1, <2>2, <2>3 DEF LastInv
<1>4. CASE Reset \/ MappingExpires \/ UNCHANGED vars
      BY <1>4 DEF Reset, MappingExpires, vars, turn, LastInv, Shared
<1> QED BY <1>1, <1>2, <1>3, <1>4 DEF Next, Preludes

LEMMA HistoryInvariant == Spec => [](HistInv /\ LastInv)
<1>1. HistInv /\ LastInv /\ [Next]_vars => (HistInv /\ LastInv)'
  <2> SUFFICES ASSUME HistInv, LastInv, [Next]_vars PROVE HistInv' /\ LastInv' OBVIOUS
  <2>1. HistTypes' /\ PlaceInv' BY HistTypesKept DEF HistInv
  <2>2. OwnInv' BY OwnKept DEF HistInv
  <2>3. PairInv' BY PairKept DEF HistInv
  <2>4. ForgetInv' BY ForgetKept DEF HistInv
  <2>5. LastInv' BY LastKept DEF HistInv
  <2> QED BY <2>1, <2>2, <2>3, <2>4, <2>5 DEF HistInv
<1> QED BY InitHistory, <1>1, PTL DEF Spec

(* No exchange is in a list or in what a model was asked with that no turn *)
(* persisted, whatever commands fail (conversation.go:148, prompt.go:136). *)
THEOREM HistoryTypeCorrect == Spec => []TypeOK
<1>1. HistInv => TypeOK
  <2> SUFFICES ASSUME HistInv PROVE TypeOK OBVIOUS
  <2>1. \A t \in Turns : pc[t] \notin {"new", "mapping"} => conv[t] # NoConv
        BY HistoryAssumption DEF HistInv, PlaceInv, Convs
  <2>2. /\ \A c \in Convs : \A i \in DOMAIN hist[c] : hist[c][i] \in Items
        /\ \A t \in Turns : \A i \in DOMAIN todo[t] : todo[t][i] \in Items
        BY ItemTurns DEF HistInv
  <2>3. Early \cup Late = {"new", "mapping", "bound", "asked", "persist", "push", "expire", "trim",
                           "save", "question", "answer", "done"}
        BY DEF Early, Late, Writing, Held
  <2> QED BY <2>1, <2>2, <2>3 DEF HistInv, HistTypes, TypeOK
<1> QED BY HistoryInvariant, <1>1, PTL

(* A message that comes after a reset is asked with nothing that was       *)
(* answered before it, for any number of turns of the old conversation     *)
(* still at work (conversation.go:44-70, commands.go:56-62).               *)
THEOREM ResetsForget == Spec => []ResetForgets
<1>1. HistInv => ResetForgets BY DEF HistInv, ForgetInv
<1> QED BY HistoryInvariant, <1>1, PTL

(* The raw rows of an answer have their question, and an exchange in a     *)
(* list has its rows once its turn is done, unless a command of that turn  *)
(* failed (event_adapter.go:54-64).                                        *)
THEOREM RowsArePaired == Spec => []RecordsPaired
<1>1. HistInv => RecordsPaired BY PairedRecords DEF HistInv
<1> QED BY HistoryInvariant, <1>1, PTL

(* What takes the last exchange off a list is a turn with the same         *)
(* question, or turns that persist into the conversation at once           *)
(* (conversation.go:151-161).                                              *)
THEOREM OnlySameQuestionGoes == Spec => OnlySameQuestionReplaced
<1> DEFINE GoesRightly(t) ==
        LET c == conv[t] IN
        (c \in Convs /\ pc[t] = "push" /\ Len(hist'[c]) < Len(hist[c]) /\ last'[t] # last[t])
        => \/ Last(hist[c]).user = Head(todo[t]).user
           \/ \E u \in Turns \ {t} : conv[u] = c /\ pc[u] \notin {"new", "mapping", "bound", "asked"}
<1>1. ASSUME HistInv, LastInv, [Next]_vars, NEW t \in Turns PROVE GoesRightly(t)
  <2> SUFFICES ASSUME conv[t] \in Convs, pc[t] = "push", Len(hist'[conv[t]]) < Len(hist[conv[t]]), last'[t] # last[t]
               PROVE  \/ Last(hist[conv[t]]).user = Head(todo[t]).user
                      \/ \E u \in Turns \ {t} : conv[u] = conv[t] /\ pc[u] \notin {"new", "mapping", "bound", "asked"}
      OBVIOUS
  <2>1. HistTypes /\ PlaceInv BY <1>1 DEF HistInv
  <2>2. \A u \in Turns : ~Preludes(u) /\ ~Answered(u) BY <2>1, PreludeMoves, AnsweredMoves
  <2>3. ~Reset /\ ~MappingExpires /\ (\A c \in Convs : ~ListExpires(c)) /\ ~UNCHANGED vars
        BY DEF Reset, MappingExpires, ListExpires, vars, turn
  <2>4. PICK u \in Turns : Persist(u) BY <1>1, <2>2, <2>3 DEF Next, Preludes
  <2>5. HandTypes(u) /\ Ways(u) BY <2>1, <2>4, PersistWays
  <2>6. u = t BY <2>1, <2>5 DEF HandTypes, HistTypes
  <2>7. hist[conv[t]] \in Seq(Items) BY <2>1 DEF HistTypes
  <2>8. hist'[conv[t]] # Append(hist[conv[t]], Head(todo[t])) BY <2>7
  <2>9. Replaces(t) BY <2>5, <2>6, <2>8 DEF Ways
  <2> QED BY <1>1, <2>9 DEF LastInv, Replaces, Shared, Early
<1>2. HistInv /\ LastInv /\ [Next]_vars => [\A t \in Turns : GoesRightly(t)]_vars BY <1>1
<1> QED BY HistoryInvariant, <1>2, PTL DEF Spec, OnlySameQuestionReplaced

-----------------------------------------------------------------------------
(* The call.                                                               *)
OpenAIKinds    == {"text", "empty", "no_choices", "call"} \cup (Reasons \ {""})
AnthropicKinds == {"message_start", "text_delta", "thinking_delta", "tool_use",
                   "input_json_delta", "message_delta", "message_stop"}
CutKinds       == {"eof", "read_error", "[DONE]", "garbage"}

Lines  == [kind : OpenAIKinds \cup AnthropicKinds \cup CutKinds \cup Parts, n : Nat]
Usage  == [in : Nat, out : Nat, total : Nat]
Events == [text : Nat, calls : Seq(Nat), done : BOOLEAN, error : BOOLEAN,
           reason : Reasons, usage : Usage]
Blocks   == [type : PartTypes, id : Nat]
Requests == [role : {"user", "assistant"}, parts : Seq(Blocks) \ {<<>>}]

StreamTypes ==
    /\ provider \in Providers /\ mode \in Modes
    /\ phase \in {"prepare", "sent", "reading", "returned", "panicked"}
    /\ at \in Nat /\ messages \in Seq(Messages) /\ request \in Seq(Requests)
    /\ lines \in Seq(Lines) /\ calls \in Seq(Nat) /\ events \in Seq(Events)
    /\ usage \in Usage /\ usage.total = usage.in + usage.out
    /\ stopReason \in Reasons /\ wants \in BOOLEAN

ProviderKinds == CutKinds \cup IF provider = "openai" THEN OpenAIKinds ELSE AnthropicKinds

(* Before the answer there is nothing; each provider sends its own lines.  *)
LinesInv ==
    /\ phase \in {"prepare", "sent"} => lines = <<>> /\ events = <<>> /\ wants
    /\ \A i \in DOMAIN lines : lines[i].kind \in IF mode = "once" THEN Parts ELSE ProviderKinds

(* The calls gathered are the calls sent.  An argument belongs to a call   *)
(* by its number in the chunks of OpenAI, otherwise to the one opened last. *)
Chunked  == mode = "stream" /\ provider = "openai"
Argument == IF mode = "once" THEN "call" ELSE "input_json_delta"
Numbers  == {lines[i].n : i \in Places("call")}

CallsInv ==
    /\ Len(calls) <= MaxCalls
    /\ calls = [i \in 1..CallsSent |-> Fragments(i)]
    /\ Chunked => Numbers = 0..(Len(calls) - 1)

(* A consumer that is still there was handed every text.  Only the parser  *)
(* of Anthropic's stream reads on for one that has left.                   *)
TextUnits == UNION {{i} \X (1..events[i].text) : i \in DOMAIN events}

Lost == phase = "panicked" \/ (phase = "reading" /\ ~wants)

TextInv ==
    /\ phase \in {"prepare", "sent", "reading"} => \A i \in DOMAIN events : ~events[i].done /\ ~events[i].error
    /\ phase = "reading" /\ ~wants => provider = "anthropic" /\ mode = "stream"
    /\ Lost => ~Ended
    /\ mode = "once" /\ phase \in {"prepare", "sent", "reading"} => events = <<>>
    /\ \A i \in DOMAIN events : Len(events[i].calls) <= MaxCalls
    /\ IsFiniteSet(TextUnits)
    /\ mode = "stream" /\ ~Lost => AnswerText = Sent("text") + Sent("text_delta")

(* An end with calls is one the provider sent.                             *)
EndInv ==
    /\ Ended => \/ Last(events).calls = calls
                \/ lines # <<>> /\ Last(lines).kind \in CutKinds /\ Last(events).calls = <<>>
    /\ Ended /\ lines # <<>> /\ Last(lines).kind \in CutKinds => Last(events).calls = <<>>
    /\ Ended /\ mode = "once" => AnswerText = Sent("text")

StreamInv == StreamTypes /\ LinesInv /\ CallsInv /\ TextInv /\ EndInv

(* Where the loop over the messages is: everything converted is paired, or *)
(* the last message with calls is still being answered.                    *)
CallParts(m) == TextParts(m) \o [i \in DOMAIN m.ids |-> Part("tool_use", m.ids[i])]

ResultsMessage(m, d) == [role |-> "user", parts |-> [k \in 1..d |-> Part("tool_result", m.ids[k])]]

ResultsFor(r, i, id) == {k \in DOMAIN r[i].parts : r[i].parts[k] = Part("tool_result", id)}

PairedAt(r, i) ==
    \A j \in DOMAIN r[i].parts :
        LET p == r[i].parts[j] IN
        /\ p.type = "tool_use" =>
              /\ i + 1 \in DOMAIN r /\ r[i + 1].role = "user"
              /\ \E k \in ResultsFor(r, i + 1, p.id) : ResultsFor(r, i + 1, p.id) = {k}
        /\ p.type = "tool_result" =>
              i > 1 /\ Part("tool_use", p.id) \in ToSet(r[i - 1].parts)

PairedBefore(n) == \A i \in 1..n : PairedAt(request, i)

Awaits(a) ==
    LET m == messages[a]
        n == Len(request)
        d == at - a
    IN  /\ m.role = "assistant" /\ d \in 0..(Len(m.ids) - 1)
        /\ IF d = 0
           THEN /\ n > 0 /\ request[n] = [role |-> "assistant", parts |-> CallParts(m)]
                /\ PairedBefore(n - 1)
           ELSE /\ n > 1 /\ request[n - 1] = [role |-> "assistant", parts |-> CallParts(m)]
                /\ request[n] = ResultsMessage(m, d)
                /\ PairedBefore(n - 2)

Settled ==
    /\ \A a \in 1..at : messages[a].role = "assistant" => a + Len(messages[a].ids) <= at
    /\ PairedBefore(Len(request))

ConvertInv ==
    /\ phase = "prepare" => messages \in Conversations /\ at \in 0..Len(messages)
    /\ phase = "prepare" /\ provider = "anthropic" => Settled \/ \E a \in 1..at : Awaits(a)
    /\ phase = "prepare" /\ provider = "openai" => request = <<>>
    /\ phase = "sent" => PairedBefore(Len(request))

(* The range over the events: a call that has not returned has a consumer. *)
RangeInv ==
    /\ phase # "panicked"
    /\ phase \in {"prepare", "sent", "reading"} => wants

LEMMA UpTo == ASSUME NEW n \in Nat PROVE IsFiniteSet(1..n) /\ Cardinality(1..n) = n
  BY FS_Interval

(* Counting lines: one more line counts for its own kind.                  *)
LEMMA PlacesGrow ==
  ASSUME lines \in Seq(Lines), NEW l \in Lines, lines' = Append(lines, l), NEW kind
  PROVE  Places(kind)' = IF l.kind = kind THEN Places(kind) \cup {Len(lines) + 1} ELSE Places(kind)
<1>1. /\ DOMAIN lines' = DOMAIN lines \cup {Len(lines) + 1} /\ lines'[Len(lines) + 1] = l
      /\ \A i \in DOMAIN lines : lines'[i] = lines[i]
      OBVIOUS
<1> QED BY <1>1 DEF Places

LEMMA PlacesFinite ==
  ASSUME lines \in Seq(Lines), NEW kind
  PROVE  /\ Places(kind) \subseteq 1..Len(lines) /\ IsFiniteSet(Places(kind))
         /\ Sent(kind) \in Nat
<1>1. Places(kind) \subseteq 1..Len(lines) BY DEF Places
<1>2. Len(lines) \in Nat OBVIOUS
<1>3. IsFiniteSet(1..Len(lines)) BY <1>2, UpTo
<1> QED BY <1>1, <1>3, FS_Subset, FS_CardinalityType DEF Sent

LEMMA SentGrows ==
  ASSUME lines \in Seq(Lines), NEW l \in Lines, lines' = Append(lines, l), NEW kind
  PROVE  Sent(kind)' = IF l.kind = kind THEN Sent(kind) + 1 ELSE Sent(kind)
<1>1. Places(kind)' = IF l.kind = kind THEN Places(kind) \cup {Len(lines) + 1} ELSE Places(kind)
      BY PlacesGrow
<1>2. IsFiniteSet(Places(kind)) /\ Len(lines) + 1 \notin Places(kind) BY PlacesFinite
<1> QED BY <1>1, <1>2, FS_AddElement DEF Sent

(* Calls opened within the first j lines.                                  *)
LEMMA OpenedBound ==
  ASSUME lines \in Seq(Lines), NEW j \in 0..Len(lines)
  PROVE  /\ Opened(j) \in Nat /\ Opened(j) <= Opened(Len(lines))
         /\ Opened(Len(lines)) \in Nat /\ Opened(Len(lines)) <= Len(lines)
<1> DEFINE O(k) == {n \in 1..k : lines[n].kind \in Opening}
<1>0. Len(lines) \in Nat OBVIOUS
<1>1. IsFiniteSet(1..Len(lines)) /\ Cardinality(1..Len(lines)) = Len(lines) BY <1>0, UpTo
<1>2. IsFiniteSet(O(Len(lines))) /\ Cardinality(O(Len(lines))) <= Len(lines) BY <1>1, FS_Subset
<1>3. O(j) \in SUBSET O(Len(lines)) OBVIOUS
<1>4. IsFiniteSet(O(j)) /\ Cardinality(O(j)) <= Cardinality(O(Len(lines))) BY <1>2, <1>3, FS_Subset
<1>5. Cardinality(O(j)) \in Nat /\ Cardinality(O(Len(lines))) \in Nat BY <1>2, <1>4, FS_CardinalityType
<1> QED BY <1>2, <1>4, <1>5 DEF Opened

LEMMA OpenedGrows ==
  ASSUME lines \in Seq(Lines), NEW l \in Lines, lines' = Append(lines, l), mode' = mode,
         NEW n, n = Len(lines)
  PROVE  /\ \A j \in 0..n : Opened(j)' = Opened(j)
         /\ Opened(n + 1)' = IF l.kind \in Opening THEN Opened(n) + 1 ELSE Opened(n)
<1> DEFINE O(k) == {i \in 1..k : lines[i].kind \in Opening}
           P(k) == {i \in 1..k : lines'[i].kind \in Opening}
<1>0. Opening' = Opening /\ n \in Nat BY DEF Opening
<1>1. lines'[n + 1] = l /\ \A i \in 1..n : lines'[i] = lines[i] OBVIOUS
<1>2. \A k \in Nat : Opened(k)' = Cardinality(P(k)) /\ Opened(k) = Cardinality(O(k)) BY <1>0 DEF Opened
<1>3. \A j \in 0..n : P(j) = O(j) BY <1>1
<1>4. P(n + 1) = IF l.kind \in Opening THEN O(n) \cup {n + 1} ELSE O(n) BY <1>0, <1>1
<1>5. IsFiniteSet(O(n))
  <2>1. IsFiniteSet(1..n) BY <1>0, UpTo
  <2> QED BY <2>1, FS_Subset
<1>6. n + 1 \notin O(n) BY <1>0
<1>7. n \in Nat /\ n + 1 \in Nat /\ \A j \in 0..n : j \in Nat BY <1>0
<1> HIDE DEF O, P
<1>8. Cardinality(O(n) \cup {n + 1}) = Cardinality(O(n)) + 1 BY <1>5, <1>6, FS_AddElement
<1>9. Opened(n + 1)' = Cardinality(P(n + 1)) /\ Opened(n) = Cardinality(O(n)) BY <1>2, <1>7
<1>10. Opened(n + 1)' = IF l.kind \in Opening THEN Opened(n) + 1 ELSE Opened(n)
      BY <1>4, <1>8, <1>9
<1> QED BY <1>2, <1>3, <1>7, <1>10

(* Fragments of a call.                                                    *)
LEMMA ChunkFragments ==
  ASSUME lines \in Seq(Lines), NEW l \in Lines, lines' = Append(lines, l),
         UNCHANGED <<mode, provider>>, Chunked, NEW i
  PROVE  /\ Fragments(i)' = IF l.kind = "call" /\ l.n = i - 1 THEN Fragments(i) + 1 ELSE Fragments(i)
         /\ Fragments(i) \in Nat
         /\ i - 1 \notin {lines[j].n : j \in Places("call")} => Fragments(i) = 0
<1> DEFINE n == Len(lines)
           F == {j \in Places("call") : lines[j].n = i - 1}
           G == {j \in Places("call")' : lines'[j].n = i - 1}
<1>1. Fragments(i) = Cardinality(F) /\ Fragments(i)' = Cardinality(G) BY DEF Fragments, Chunked
<1>2. IsFiniteSet(F)
  <2>1. IsFiniteSet(Places("call")) BY PlacesFinite
  <2> QED BY <2>1, FS_Subset
<1>3. F \subseteq 1..n /\ n + 1 \notin F /\ n \in Nat BY PlacesFinite
<1>4. G = IF l.kind = "call" /\ l.n = i - 1 THEN F \cup {n + 1} ELSE F
  <2>1. Places("call")' = IF l.kind = "call" THEN Places("call") \cup {n + 1} ELSE Places("call")
        BY PlacesGrow
  <2>2. lines'[n + 1] = l /\ \A j \in Places("call") : j # n + 1 /\ lines'[j] = lines[j]
        BY DEF Places
  <2> QED BY <2>1, <2>2
<1> HIDE DEF F, G, n
<1>5. Cardinality(F \cup {n + 1}) = Cardinality(F) + 1 BY <1>2, <1>3, FS_AddElement
<1>6. Cardinality(F) \in Nat BY <1>2, FS_CardinalityType
<1>7. i - 1 \notin {lines[j].n : j \in Places("call")} => F = {} BY DEF F
<1> QED BY <1>1, <1>4, <1>5, <1>6, <1>7, FS_EmptySet

LEMMA BlockFragments ==
  ASSUME lines \in Seq(Lines), NEW l \in Lines, lines' = Append(lines, l),
         UNCHANGED <<mode, provider>>, ~Chunked, NEW n, n = Len(lines), NEW i \in Nat
  PROVE  /\ Fragments(i)' = IF l.kind = Argument /\ Opened(n + 1)' = i THEN Fragments(i) + 1 ELSE Fragments(i)
         /\ Fragments(i) \in Nat
         /\ i > Opened(n) => Fragments(i) = 0
<1> DEFINE F == {j \in Places(Argument) : Opened(j) = i}
           G == {j \in Places(Argument)' : Opened(j)' = i}
<1>0. Argument' = Argument /\ ~Chunked' BY DEF Argument, Chunked
<1>1. Fragments(i) = Cardinality(F) /\ Fragments(i)' = Cardinality(G)
      BY <1>0 DEF Fragments, Chunked, Argument
<1>2. IsFiniteSet(F)
  <2>1. IsFiniteSet(Places(Argument)) BY PlacesFinite
  <2> QED BY <2>1, FS_Subset
<1>3. Places(Argument) \subseteq 1..n /\ n \in Nat BY PlacesFinite
<1>4. G = IF l.kind = Argument /\ Opened(n + 1)' = i THEN F \cup {n + 1} ELSE F
  <2>1. Places(Argument)' = IF l.kind = Argument THEN Places(Argument) \cup {n + 1} ELSE Places(Argument)
    <3>1. \A kind \in {"call", "input_json_delta"} :
            Places(kind)' = IF l.kind = kind THEN Places(kind) \cup {n + 1} ELSE Places(kind)
          BY PlacesGrow
    <3> QED BY <1>0, <3>1 DEF Argument
  <2>2. \A j \in 0..n : Opened(j)' = Opened(j) BY OpenedGrows
  <2>3. \A j \in Places(Argument) : j # n + 1 /\ j \in 0..n BY <1>3
  <2> QED BY <2>1, <2>2, <2>3
<1>5. n + 1 \notin F BY <1>3
<1>6. i > Opened(n) => F = {}
  <2>1. \A j \in 0..n : Opened(j) \in Nat /\ Opened(j) <= Opened(n) BY OpenedBound
  <2>2. Opened(n) \in Nat BY <1>3, <2>1
  <2> QED BY <1>3, <2>1, <2>2
<1> HIDE DEF F, G
<1>7. Cardinality(F \cup {n + 1}) = Cardinality(F) + 1 BY <1>2, <1>5, FS_AddElement
<1>8. Cardinality(F) \in Nat BY <1>2, FS_CardinalityType
<1> QED BY <1>1, <1>4, <1>6, <1>7, <1>8, FS_EmptySet

LEMMA NumbersGrow ==
  ASSUME lines \in Seq(Lines), NEW l \in Lines, lines' = Append(lines, l)
  PROVE  Numbers' = IF l.kind = "call" THEN Numbers \cup {l.n} ELSE Numbers
<1> DEFINE n == Len(lines)
<1>1. Places("call")' = IF l.kind = "call" THEN Places("call") \cup {n + 1} ELSE Places("call")
      BY PlacesGrow
<1>2. lines'[n + 1] = l /\ \A j \in Places("call") : lines'[j] = lines[j] BY DEF Places
<1> DEFINE P == Places("call")
<1>3. Numbers = {lines[i].n : i \in P} /\ Numbers' = {lines'[i].n : i \in P'} BY DEF Numbers
<1> HIDE DEF P
<1>4. {lines'[i].n : i \in P} = Numbers
      BY <1>2, <1>3 DEF P
<1>5. CASE l.kind = "call"
  <2>1. {lines'[i].n : i \in P \cup {n + 1}} = {lines'[i].n : i \in P} \cup {l.n} BY <1>2
  <2> QED BY <1>1, <1>3, <1>4, <1>5, <2>1 DEF P
<1>6. CASE l.kind # "call" BY <1>1, <1>3, <1>4, <1>6 DEF P
<1> QED BY <1>5, <1>6

(* One more line, and what the parser does with it, leaves the calls       *)
(* gathered as they were sent.                                             *)
LEMMA ChunkGathered ==
  ASSUME lines \in Seq(Lines), calls \in Seq(Nat), CallsInv, Chunked,
         NEW l \in Lines, lines' = Append(lines, l), UNCHANGED <<mode, provider>>,
         l.kind = "call" => l.n \in {Len(calls) - 1, Len(calls)} /\ l.n < MaxCalls,
         calls' = Gathered(calls, l), NEW n, n = Len(calls)
  PROVE  CallsInv' /\ calls' \in Seq(Nat)
<1>0. n \in Nat /\ Chunked' /\ MaxCalls \in Nat /\ l.n \in Nat /\ n <= MaxCalls
  <2>1. n <= MaxCalls BY DEF CallsInv
  <2>2. Chunked' BY DEF Chunked
  <2> QED BY <2>1, <2>2, StreamAssumption DEF Lines
<1>1. Numbers = 0..(n - 1) BY DEF CallsInv
<1>2. CallsSent = Cardinality(Numbers) /\ CallsSent' = Cardinality(Numbers')
      BY <1>0 DEF CallsSent, Begun, Numbers, Chunked
<1>3. \A k \in Nat : Cardinality(0..(k - 1)) = k BY FS_Interval
<1>4. calls = [i \in 1..n |-> Fragments(i)] BY <1>0, <1>1, <1>2, <1>3 DEF CallsInv
<1>5. \A i \in Nat : /\ Fragments(i)' = IF l.kind = "call" /\ l.n = i - 1 THEN Fragments(i) + 1 ELSE Fragments(i)
                     /\ Fragments(i) \in Nat
                     /\ i - 1 \notin Numbers => Fragments(i) = 0
      BY ChunkFragments DEF Numbers
<1>6. Numbers' = IF l.kind = "call" THEN Numbers \cup {l.n} ELSE Numbers BY NumbersGrow
<1>7. CASE l.kind # "call"
  <2>1. calls' = calls BY <1>7 DEF Gathered
  <2>2. CallsSent' = n BY <1>0, <1>1, <1>2, <1>3, <1>6, <1>7
  <2>3. \A i \in 1..n : Fragments(i)' = Fragments(i) BY <1>0, <1>5, <1>7
  <2>4. calls' = [i \in 1..n |-> Fragments(i)'] BY <1>4, <2>1, <2>3
  <2> QED BY <1>0, <1>1, <1>6, <1>7, <2>1, <2>2, <2>4 DEF CallsInv
<1>8. CASE l.kind = "call" /\ l.n = n
  <2>1. calls' = [Append(calls, 0) EXCEPT ![n + 1] = @ + 1] BY <1>0, <1>8 DEF Gathered
  <2>2. /\ calls' \in Seq(Nat) /\ Len(calls') = n + 1 /\ calls'[n + 1] = 1
        /\ \A i \in 1..n : calls'[i] = calls[i]
    <3> DEFINE grown == Append(calls, 0)
    <3>1. /\ grown \in Seq(Nat) /\ Len(grown) = n + 1 /\ grown[n + 1] = 0
          /\ \A i \in 1..n : grown[i] = calls[i]
          BY <1>0
    <3>2. calls' = [grown EXCEPT ![n + 1] = @ + 1] BY <2>1
    <3> HIDE DEF grown
    <3> QED BY <1>0, <3>1, <3>2
  <2>3. Numbers' = 0..n BY <1>0, <1>1, <1>6, <1>8
  <2>4. CallsSent' = n + 1
    <3>1. 0..n = 0..((n + 1) - 1) BY <1>0
    <3> QED BY <1>0, <1>2, <1>3, <2>3, <3>1
  <2>5. Fragments(n + 1) = 0 BY <1>0, <1>1, <1>5
  <2>6. ASSUME NEW i \in 1..(n + 1) PROVE calls'[i] = Fragments(i)'
    <3>1. CASE i = n + 1
      <4>1. i \in Nat /\ l.n = i - 1 BY <1>0, <1>8, <3>1
      <4>2. Fragments(i)' = Fragments(i) + 1 BY <1>5, <1>8, <4>1
      <4> QED BY <2>2, <2>5, <3>1, <4>2
    <3>2. CASE i \in 1..n
      <4>1. i \in Nat /\ l.n # i - 1 BY <1>0, <1>8, <3>2
      <4>2. Fragments(i)' = Fragments(i) BY <1>5, <4>1
      <4>3. calls[i] = Fragments(i) BY <1>4, <3>2
      <4> QED BY <2>2, <3>2, <4>2, <4>3
    <3> QED BY <1>0, <3>1, <3>2
  <2>7. calls' = [i \in 1..(n + 1) |-> Fragments(i)'] BY <1>0, <2>2, <2>6
  <2>8. n + 1 <= MaxCalls BY <1>0, <1>8
  <2>9. Numbers' = 0..(Len(calls') - 1) BY <1>0, <2>2, <2>3
  <2> QED BY <2>2, <2>4, <2>7, <2>8, <2>9 DEF CallsInv
<1>9. CASE l.kind = "call" /\ l.n = n - 1
  <2>0. n > 0 BY <1>0, <1>9
  <2>1. calls' = [calls EXCEPT ![n] = @ + 1] 
    <3>1. ~(l.n >= Len(calls)) /\ l.n + 1 = n BY <1>0, <1>9
    <3> QED BY <1>9, <3>1 DEF Gathered
  <2>2. /\ calls' \in Seq(Nat) /\ Len(calls') = n /\ calls'[n] = calls[n] + 1
        /\ \A i \in 1..(n - 1) : calls'[i] = calls[i]
        BY <1>0, <2>0, <2>1
  <2>3. Numbers' = Numbers BY <1>0, <1>1, <1>6, <1>9
  <2>4. CallsSent' = n BY <1>0, <1>1, <1>2, <1>3, <2>3
  <2>6. ASSUME NEW i \in 1..n PROVE calls'[i] = Fragments(i)'
    <3>0. calls[i] = Fragments(i) /\ i \in Nat BY <1>0, <1>4
    <3>1. CASE i = n
      <4>1. l.n = i - 1 BY <1>9, <3>1
      <4> QED BY <1>5, <1>9, <2>2, <3>0, <3>1, <4>1
    <3>2. CASE i # n
      <4>1. i \in 1..(n - 1) /\ l.n # i - 1 BY <1>0, <1>9, <3>2
      <4> QED BY <1>5, <2>2, <3>0, <4>1
    <3> QED BY <3>1, <3>2
  <2>7. calls' = [i \in 1..n |-> Fragments(i)'] BY <1>0, <2>2, <2>6
  <2> QED BY <1>0, <1>1, <2>2, <2>3, <2>4, <2>7 DEF CallsInv
<1> QED BY <1>7, <1>8, <1>9

LEMMA BlockGathered ==
  ASSUME lines \in Seq(Lines), calls \in Seq(Nat), CallsInv, ~Chunked,
         NEW l \in Lines, lines' = Append(lines, l), UNCHANGED <<mode, provider>>,
         \/ /\ l.kind \in Opening /\ Len(calls) < MaxCalls
            /\ calls' = Append(calls, IF l.kind = Argument THEN 1 ELSE 0)
         \/ /\ l.kind \notin Opening /\ l.kind # Argument
            /\ calls' = calls
         \/ /\ l.kind \notin Opening /\ l.kind = Argument
            /\ calls' = IF calls = <<>> THEN calls ELSE [calls EXCEPT ![Len(calls)] = @ + 1],
         NEW n, n = Len(calls), NEW k, k = Len(lines)
  PROVE  CallsInv' /\ calls' \in Seq(Nat)
<1>0. n \in Nat /\ k \in Nat /\ ~Chunked' /\ MaxCalls \in Nat /\ n <= MaxCalls
  <2>1. n <= MaxCalls BY DEF CallsInv
  <2>2. ~Chunked' BY DEF Chunked
  <2> QED BY <2>1, <2>2, StreamAssumption
<1>1. Opened(k) \in Nat BY <1>0, OpenedBound
<1>2. CallsSent = Opened(k) BY DEF CallsSent, Chunked
<1>3. n = Opened(k) BY <1>1, <1>2 DEF CallsInv
<1>4. CallsSent' = Opened(k + 1)'
  <2>1. Len(lines') = k + 1 OBVIOUS
  <2>2. CallsSent' = Cardinality({i \in 1..Len(lines') : lines'[i].kind \in Opening'})
        BY <1>0 DEF CallsSent, Chunked, Opened
  <2>3. Opened(k + 1)' = Cardinality({i \in 1..(k + 1) : lines'[i].kind \in Opening'})
        BY DEF Opened
  <2> QED BY <2>1, <2>2, <2>3
<1>5. calls = [i \in 1..n |-> Fragments(i)] BY <1>2, <1>3 DEF CallsInv
<1>6. Opened(k + 1)' = IF l.kind \in Opening THEN n + 1 ELSE n BY <1>3, OpenedGrows
<1>7. \A i \in Nat : /\ Fragments(i)' = IF l.kind = Argument /\ Opened(k + 1)' = i THEN Fragments(i) + 1 ELSE Fragments(i)
                     /\ Fragments(i) \in Nat
                     /\ i > n => Fragments(i) = 0
      BY <1>3, BlockFragments, ZenonT(60)
<1>8. CASE l.kind \in Opening /\ n < MaxCalls /\ calls' = Append(calls, IF l.kind = Argument THEN 1 ELSE 0)
  <2>1. /\ calls' \in Seq(Nat) /\ Len(calls') = n + 1 /\ calls'[n + 1] = IF l.kind = Argument THEN 1 ELSE 0
        /\ \A i \in 1..n : calls'[i] = calls[i]
        BY <1>0, <1>8
  <2>2. ASSUME NEW i \in 1..(n + 1) PROVE calls'[i] = Fragments(i)'
    <3>0. i \in Nat BY <1>0
    <3>1. CASE i = n + 1
      <4>1. Opened(k + 1)' = i /\ i > n BY <1>0, <1>6, <1>8, <3>1
      <4>a. Fragments(i) = 0 BY <1>7, <3>0, <4>1
      <4>b. Fragments(i)' = IF l.kind = Argument THEN Fragments(i) + 1 ELSE Fragments(i) BY <1>7, <3>0, <4>1
      <4>2. Fragments(i)' = IF l.kind = Argument THEN 1 ELSE 0 BY <4>a, <4>b
      <4> QED BY <2>1, <3>1, <4>2
    <3>2. CASE i \in 1..n
      <4>1. Opened(k + 1)' # i BY <1>0, <1>6, <1>8, <3>2
      <4>2. calls[i] = Fragments(i) BY <1>5, <3>2
      <4> QED BY <1>7, <2>1, <3>0, <3>2, <4>1, <4>2
    <3> QED BY <1>0, <3>1, <3>2
  <2>3. calls' = [i \in 1..(n + 1) |-> Fragments(i)'] BY <1>0, <2>1, <2>2
  <2>4. n + 1 <= MaxCalls BY <1>0, <1>8
  <2> QED BY <1>0, <1>4, <1>6, <1>8, <2>1, <2>3, <2>4 DEF CallsInv
<1>9. CASE l.kind \notin Opening /\ l.kind # Argument /\ calls' = calls
  <2>0. \A i \in 1..n : Fragments(i)' = Fragments(i) BY <1>0, <1>7, <1>9
  <2>1. calls' = [i \in 1..n |-> Fragments(i)'] BY <1>5, <1>9, <2>0
  <2> QED BY <1>0, <1>4, <1>6, <1>9, <2>1 DEF CallsInv
<1>10. CASE /\ l.kind \notin Opening /\ l.kind = Argument
            /\ calls' = IF calls = <<>> THEN calls ELSE [calls EXCEPT ![n] = @ + 1]
  <2>1. CASE calls = <<>>
    <3>1. n = 0 /\ calls' = <<>> /\ calls' \in Seq(Nat) /\ Len(calls') = n BY <1>10, <2>1
    <3>2. calls' = [i \in 1..n |-> Fragments(i)']
      <4>1. \A i \in 1..n : Fragments(i) = Fragments(i)' BY <3>1
      <4> QED BY <1>5, <2>1, <3>1, <4>1
    <3>3. CallsSent' = n BY <1>4, <1>6, <1>10
    <3> QED BY <1>0, <3>1, <3>2, <3>3 DEF CallsInv
  <2>2. CASE calls # <<>>
    <3>0. n > 0 /\ calls' = [calls EXCEPT ![n] = @ + 1] BY <1>10, <2>2
    <3>1. /\ calls' \in Seq(Nat) /\ Len(calls') = n /\ calls'[n] = calls[n] + 1
          /\ \A i \in 1..(n - 1) : calls'[i] = calls[i]
          BY <1>0, <3>0
    <3>2. ASSUME NEW i \in 1..n PROVE calls'[i] = Fragments(i)'
      <4>0. calls[i] = Fragments(i) /\ i \in Nat BY <1>0, <1>5
      <4>1. CASE i = n BY <1>6, <1>7, <1>10, <3>1, <4>0, <4>1
      <4>2. CASE i # n
        <5>1. i \in 1..(n - 1) BY <1>0, <4>2
        <5> QED BY <1>6, <1>7, <1>10, <3>1, <4>0, <4>2, <5>1
      <4> QED BY <4>1, <4>2
    <3>3. calls' = [i \in 1..n |-> Fragments(i)'] BY <1>0, <3>1, <3>2
    <3> QED BY <1>0, <1>4, <1>6, <1>10, <3>1, <3>3 DEF CallsInv
  <2> QED BY <2>1, <2>2
<1> QED BY <1>8, <1>9, <1>10

(* One more event adds its text.                                           *)
LEMMA TextGrows ==
  ASSUME events \in Seq(Events), NEW e \in Events, events' = Append(events, e), IsFiniteSet(TextUnits)
  PROVE  IsFiniteSet(TextUnits') /\ AnswerText' = AnswerText + e.text
<1> DEFINE n == Len(events)
           more == {n + 1} \X (1..e.text)
<1>0. n \in Nat /\ e.text \in Nat BY DEF Events
<1>1. /\ DOMAIN events' = DOMAIN events \cup {n + 1} /\ events'[n + 1] = e
      /\ DOMAIN events = 1..n /\ \A i \in DOMAIN events : events'[i] = events[i]
      OBVIOUS
<1>2. TextUnits' = TextUnits \cup more BY <1>1 DEF TextUnits
<1>3. TextUnits \cap more = {} BY <1>0, <1>1 DEF TextUnits
<1>4. IsFiniteSet({n + 1}) /\ Cardinality({n + 1}) = 1 BY FS_Singleton
<1>5. IsFiniteSet(1..e.text) /\ Cardinality(1..e.text) = e.text BY <1>0, UpTo
<1>6. IsFiniteSet(more) /\ Cardinality(more) = Cardinality({n + 1}) * Cardinality(1..e.text)
      BY <1>4, <1>5, FS_Product
<1>7. Cardinality(more) = e.text BY <1>0, <1>4, <1>5, <1>6
<1>8. AnswerText = Cardinality(TextUnits) /\ AnswerText' = Cardinality(TextUnits') BY DEF AnswerText, TextUnits
<1>9. Cardinality(TextUnits) \in Nat BY FS_CardinalityType
<1> HIDE DEF more
<1>10. /\ IsFiniteSet(TextUnits \cup more)
       /\ Cardinality(TextUnits \cup more) =
             Cardinality(TextUnits) + Cardinality(more) - Cardinality(TextUnits \cap more)
       BY <1>6, FS_Union
<1>11. Cardinality(TextUnits \cap more) = 0 BY <1>3, FS_EmptySet
<1>12. Cardinality(TextUnits \cup more) = Cardinality(TextUnits) + e.text BY <1>0, <1>7, <1>9, <1>10, <1>11
<1> QED BY <1>2, <1>8, <1>10, <1>12

(* A line that is read is one the provider sends, and what is gathered so  *)
(* far says which call it may belong to.                                   *)
LEMMA ReadLine ==
  ASSUME StreamTypes, CallsInv, NEW l, Read(l)
  PROVE  /\ l \in Lines /\ lines' = Append(lines, l) /\ UNCHANGED asked
         /\ phase = "reading" /\ mode = "stream" /\ l.kind \in ProviderKinds
         /\ l.kind = "call" => l.n \in {Len(calls) - 1, Len(calls)} /\ l.n < MaxCalls
         /\ l.kind = "tool_use" => Len(calls) < MaxCalls
<1>1. /\ l \in NextLines /\ lines' = Append(lines, l) /\ UNCHANGED asked
      /\ phase = "reading" /\ mode = "stream"
      BY DEF Read
<1>2. Len(calls) \in Nat /\ MaxCalls \in Nat /\ lines \in Seq(Lines) BY StreamAssumption DEF StreamTypes
<1>3. CASE provider = "openai"
  <2>1. Begun = Len(calls)
    <3>1. Numbers = 0..(Len(calls) - 1) BY <1>1, <1>3 DEF CallsInv, Chunked
    <3>2. Begun = Cardinality(Numbers) BY DEF Begun, Numbers
    <3>3. \A k \in Nat : Cardinality(0..(k - 1)) = k BY FS_Interval
    <3> QED BY <1>2, <3>1, <3>2, <3>3
  <2>2. l \in OpenAILines BY <1>1, <1>3 DEF NextLines
  <2>3. \/ l \in Cuts
        \/ l.kind \in {"empty", "text", "no_choices", "stop", "tool_calls", "length"} /\ l = [kind |-> l.kind, n |-> l.n]
           /\ l.n \in 0..1
        \/ l = [kind |-> "call", n |-> l.n] /\ l.n \in {Len(calls) - 1, Len(calls)} /\ 0 <= l.n /\ l.n < MaxCalls
        BY <2>1, <2>2 DEF OpenAILines, Line
  <2>4. ProviderKinds = CutKinds \cup OpenAIKinds BY <1>3 DEF ProviderKinds
  <2>5. \A kind \in CutKinds \cup OpenAIKinds, n \in Nat : [kind |-> kind, n |-> n] \in Lines BY DEF Lines
  <2>6. CASE l \in Cuts
    <3>1. PICK kind \in CutKinds : l = [kind |-> kind, n |-> 0] BY <2>6 DEF Cuts, Line, CutKinds
    <3>2. kind \notin {"call", "tool_use"} BY DEF CutKinds
    <3> QED BY <1>1, <2>4, <2>5, <3>1, <3>2
  <2>7. CASE /\ l.kind \in {"empty", "text", "no_choices", "stop", "tool_calls", "length"}
             /\ l = [kind |-> l.kind, n |-> l.n] /\ l.n \in 0..1
    <3>1. l.kind \in OpenAIKinds BY <2>7 DEF OpenAIKinds, Reasons
    <3>2. l.kind \notin {"call", "tool_use"} /\ l.n \in Nat BY <2>7
    <3> QED BY <1>1, <2>4, <2>5, <2>7, <3>1, <3>2
  <2>8. CASE /\ l = [kind |-> "call", n |-> l.n] /\ l.n \in {Len(calls) - 1, Len(calls)}
             /\ 0 <= l.n /\ l.n < MaxCalls
    <3>1. l.n \in Nat /\ "call" \in OpenAIKinds /\ l.kind = "call" BY <1>2, <2>8 DEF OpenAIKinds
    <3> QED BY <1>1, <2>4, <2>5, <2>8, <3>1
  <2> QED BY <2>3, <2>6, <2>7, <2>8
<1>4. CASE provider = "anthropic"
  <2>1. l \in AnthropicLines BY <1>1, <1>4 DEF NextLines
  <2>2. \/ l \in Cuts
        \/ l.kind \in AnthropicKinds /\ l = [kind |-> l.kind, n |-> l.n] /\ l.n \in 0..1
           /\ (l.kind = "tool_use" => Sent("tool_use") < MaxCalls)
        BY <2>1 DEF AnthropicLines, Line, AnthropicKinds
  <2>3. Len(calls) = Sent("tool_use")
    <3>1. Len(calls) = Opened(Len(lines))
      <4>1. CallsSent = Opened(Len(lines)) BY <1>4 DEF CallsSent
      <4>2. Opened(Len(lines)) \in Nat
        <5>1. Len(lines) \in 0..Len(lines) BY <1>2
        <5> QED BY <1>2, <5>1, OpenedBound
      <4> QED BY <4>1, <4>2 DEF CallsInv
    <3>2. Opened(Len(lines)) = Sent("tool_use")
      <4>1. Opening = {"tool_use"} BY <1>1 DEF Opening
      <4>2. DOMAIN lines = 1..Len(lines) BY <1>2
      <4> QED BY <4>1, <4>2 DEF Opened, Sent, Places
    <3> QED BY <3>1, <3>2
  <2>4. l \in Lines /\ l.kind \in ProviderKinds /\ l.kind # "call"
        BY <1>4, <2>2 DEF Cuts, Line, Lines, ProviderKinds, CutKinds, AnthropicKinds
  <2>5. l.kind = "tool_use" => Len(calls) < MaxCalls BY <2>2, <2>3 DEF Cuts, Line
  <2> QED BY <1>1, <2>4, <2>5
<1> QED BY <1>3, <1>4 DEF StreamTypes, Providers

(* What one line does: it may hand over one event, which carries text only *)
(* if the line does, and is an end only if it returns.                     *)
HandsOver(l, e) ==
    /\ wants' \in BOOLEAN /\ (wants' => wants)
    /\ events' = IF wants THEN Append(events, e) ELSE events
    /\ e.text = IF l.kind \in {"text", "text_delta"} THEN 1 ELSE 0
    /\ Len(e.calls) <= MaxCalls
    /\ phase' \in IF wants THEN {"reading", "returned"} ELSE {"panicked"}
    /\ phase' = "reading" => ~e.done /\ ~e.error /\ (wants' \/ (provider = "anthropic" /\ StopsAtStart))
    /\ phase' = "returned" => e.done \/ e.error \/ ~wants'
    /\ e.done => e.calls = IF l.kind \in CutKinds THEN <<>> ELSE calls'

LineStep(l) ==
    /\ l \in Lines /\ lines' = Append(lines, l) /\ UNCHANGED asked
    /\ phase = "reading" /\ mode = "stream" /\ l.kind \in ProviderKinds
    /\ stopReason' \in Reasons /\ usage' \in Usage /\ usage'.total = usage'.in + usage'.out
    /\ CallsInv' /\ calls' \in Seq(Nat)
    /\ \/ UNCHANGED <<phase, events, wants>> /\ l.kind \notin {"text", "text_delta"}
       \/ \E e \in Events : HandsOver(l, e)

LEMMA EventTypes ==
  /\ NoUsage \in Usage /\ Event \in Events /\ Failure \in Events
  /\ [in |-> PromptTokens, out |-> AnswerTokens, total |-> PromptTokens + AnswerTokens] \in Usage
<1>1. NoUsage \in Usage BY DEF NoUsage, Usage
<1>2. <<>> \in Seq(Nat) OBVIOUS
<1>3. "" \in Reasons BY DEF Reasons
<1>4. Event \in Events BY <1>1, <1>2, <1>3 DEF Event, Events
<1>5. Failure \in Events BY <1>1, <1>2, <1>3 DEF Failure, Event, Events
<1> QED BY <1>1, <1>4, <1>5 DEF Usage, PromptTokens, AnswerTokens

LEMMA LineSteps ==
  ASSUME StreamTypes, CallsInv, TextInv, NEW l, StreamLine(l)
  PROVE  LineStep(l)
<1>1. Read(l)
      BY DEF StreamLine, ReadFails, Close, Skip, OpenAIChunk, MessageStart, ToolUse, InputJSON,
             Delta, MessageDelta, MessageStop
<1>2. /\ l \in Lines /\ lines' = Append(lines, l) /\ UNCHANGED asked
      /\ phase = "reading" /\ mode = "stream" /\ l.kind \in ProviderKinds
      /\ l.kind = "call" => l.n \in {Len(calls) - 1, Len(calls)} /\ l.n < MaxCalls
      /\ l.kind = "tool_use" => Len(calls) < MaxCalls
      BY <1>1, ReadLine
<1>3. /\ lines \in Seq(Lines) /\ calls \in Seq(Nat) /\ Len(calls) <= MaxCalls
      /\ stopReason \in Reasons /\ usage \in Usage /\ usage.total = usage.in + usage.out
      /\ provider \in Providers /\ wants \in BOOLEAN
      BY DEF StreamTypes, CallsInv
<1>4. UNCHANGED <<mode, provider>> BY <1>2 DEF asked
<1>5. MaxCalls \in Nat /\ StopsAtStart \in BOOLEAN BY StreamAssumption
<1>6. /\ Event.text = 0 /\ Event.calls = <<>> /\ ~Event.done /\ ~Event.error
      /\ Failure.text = 0 /\ Failure.calls = <<>> /\ ~Failure.done /\ Failure.error
      BY DEF Failure, Event
<1>10. ASSUME l.kind \notin {"call", "tool_use", "input_json_delta"}, calls' = calls
       PROVE  CallsInv' /\ calls' \in Seq(Nat)
  <2>1. CASE Chunked
    <3>1. calls' = Gathered(calls, l) BY <1>10 DEF Gathered
    <3> QED BY <1>2, <1>3, <1>4, <1>10, <2>1, <3>1, ChunkGathered
  <2>2. CASE ~Chunked
    <3>1. l.kind \notin Opening /\ l.kind # Argument BY <1>2, <1>10 DEF Opening, Argument
    <3> QED BY <1>2, <1>3, <1>4, <1>10, <2>2, <3>1, BlockGathered
  <2> QED BY <2>1, <2>2
<1>11. ASSUME UNCHANGED parser, l.kind \notin {"call", "tool_use", "input_json_delta"},
              NEW e \in Events, HandsOver(l, e)
       PROVE  LineStep(l)
       BY <1>2, <1>3, <1>10, <1>11 DEF parser, LineStep
<1>12. CASE ReadFails(l)
  <2>1. /\ l.kind \in {"read_error", "garbage"} /\ UNCHANGED parser
        /\ wants' = FALSE /\ events' = IF wants THEN Append(events, Failure) ELSE events
        /\ phase' = IF wants THEN "returned" ELSE "panicked"
        BY <1>12 DEF ReadFails, Yield, Returns
  <2>2. HandsOver(l, Failure)
    <3>1. Len(Failure.calls) <= MaxCalls BY <1>5, <1>6
    <3>2. ~wants' /\ wants' \in BOOLEAN BY <2>1
    <3>3. phase' # "reading" BY <2>1
    <3> QED BY <1>3, <1>6, <2>1, <3>1, <3>2, <3>3 DEF HandsOver
  <2> QED BY <1>11, <2>1, <2>2, EventTypes
<1>13. CASE Close(l)
  <2>1. PICK more \in BOOLEAN : Yield(CloseEvent, more) BY <1>13 DEF Close
  <2>2. /\ l.kind \in {"eof", "[DONE]"} /\ UNCHANGED parser
        /\ phase' = IF wants THEN "returned" ELSE "panicked"
        BY <1>13 DEF Close, Returns
  <2>3. /\ CloseEvent \in Events /\ CloseEvent.text = 0 /\ CloseEvent.calls = <<>> /\ CloseEvent.done
        /\ ~CloseEvent.error
        BY <1>3, EventTypes DEF CloseEvent, Event, Events
  <2>4. HandsOver(l, CloseEvent) BY <1>3, <1>5, <2>1, <2>2, <2>3 DEF HandsOver, Yield, CutKinds
  <2> QED BY <1>11, <2>2, <2>3, <2>4
<1>14. CASE Skip(l)
  <2>1. l.kind \in {"no_choices", "garbage"} /\ UNCHANGED <<phase, parser, events, wants>> BY <1>14 DEF Skip
  <2> QED BY <1>2, <1>3, <1>10, <2>1 DEF parser, LineStep
<1>15. CASE OpenAIChunk(l)
  <2>0. /\ provider = "openai" /\ wants /\ Chunked /\ calls' = Gathered(calls, l)
        /\ l.kind \in {"text", "empty", "call"} \cup Reasons /\ UNCHANGED <<stopReason, usage>>
        BY <1>2, <1>15 DEF OpenAIChunk, TextInv, Chunked
  <2>1. CallsInv' /\ calls' \in Seq(Nat) BY <1>2, <1>3, <1>4, <2>0, ChunkGathered
  <2>2. Len(calls') <= MaxCalls BY <2>1 DEF CallsInv
  <2> DEFINE e == [Event EXCEPT !.text = IF l.kind = "text" THEN 1 ELSE 0,
                              !.calls = calls',
                              !.reason = IF l.kind \in Reasons THEN l.kind ELSE "",
                              !.usage = IF l.kind \in Reasons /\ l.n = 1
                                        THEN [in |-> PromptTokens, out |-> AnswerTokens,
                                              total |-> PromptTokens + AnswerTokens]
                                        ELSE NoUsage,
                              !.done = EndsStream(calls', l)]
  <2>3. PICK more \in BOOLEAN :
            /\ Yield(e, more)
            /\ phase' = IF EndsStream(calls', l) \/ ~more THEN "returned" ELSE phase
        BY <1>15 DEF OpenAIChunk
  <2>4. EndsStream(calls', l) \in BOOLEAN BY DEF EndsStream
  <2>5. /\ e.text = IF l.kind = "text" THEN 1 ELSE 0
        /\ e.calls = calls' /\ e.done = EndsStream(calls', l) /\ e.error = FALSE
        BY DEF Event
  <2>6. e \in Events
    <3> DEFINE reason == IF l.kind \in Reasons THEN l.kind ELSE ""
               counts == IF l.kind \in Reasons /\ l.n = 1
                         THEN [in |-> PromptTokens, out |-> AnswerTokens,
                               total |-> PromptTokens + AnswerTokens]
                         ELSE NoUsage
               words  == IF l.kind = "text" THEN 1 ELSE 0
               end    == EndsStream(calls', l)
    <3>1. reason \in Reasons BY DEF Reasons
    <3>2. counts \in Usage BY EventTypes
    <3>3. words \in Nat OBVIOUS
    <3>4. end \in BOOLEAN BY <2>4
    <3>5. e = [Event EXCEPT !.text = words, !.calls = calls', !.reason = reason, !.usage = counts, !.done = end]
          OBVIOUS
    <3> HIDE DEF reason, counts, words, end, e
    <3>6. e = [text |-> words, calls |-> calls', done |-> end, error |-> FALSE, reason |-> reason, usage |-> counts]
          BY <3>5 DEF Event
    <3> QED BY <2>1, <3>1, <3>2, <3>3, <3>4, <3>6 DEF Events
  <2> HIDE DEF e
  <2>7. l.kind \notin {"text_delta"} \cup CutKinds BY <2>0 DEF CutKinds, Reasons
  <2>8. wants' = more /\ events' = Append(events, e) BY <2>0, <2>3 DEF Yield
  <2>9. HandsOver(l, e) BY <1>2, <2>0, <2>2, <2>3, <2>4, <2>5, <2>7, <2>8 DEF HandsOver
  <2> QED BY <1>2, <1>3, <2>0, <2>1, <2>6, <2>9 DEF LineStep
<1>16. CASE MessageStart(l)
  <2> DEFINE e == [Event EXCEPT !.usage = usage']
  <2>1. PICK more \in {TRUE, ~StopsAtStart} : Yield(e, more) BY <1>16 DEF MessageStart
  <2>2. /\ l.kind = "message_start" /\ UNCHANGED <<calls, stopReason>>
        /\ usage' = [in |-> PromptTokens, out |-> 0, total |-> PromptTokens]
        /\ phase' = IF wants THEN "reading" ELSE "panicked"
        BY <1>2, <1>16 DEF MessageStart, Returns
  <2>3. usage' \in Usage /\ usage'.total = usage'.in + usage'.out BY <2>2 DEF Usage, PromptTokens
  <2>4. e \in Events /\ e.text = 0 /\ e.calls = <<>> /\ ~e.done /\ ~e.error
        BY <2>3, EventTypes DEF Event, Events
  <2> HIDE DEF e
  <2>5. provider = "anthropic"
    <3>1. "message_start" \notin CutKinds \cup OpenAIKinds BY DEF CutKinds, OpenAIKinds, Reasons
    <3> QED BY <1>2, <1>3, <2>2, <3>1 DEF ProviderKinds, Providers
  <2>6. wants' = (wants /\ more) /\ events' = IF wants THEN Append(events, e) ELSE events BY <2>1 DEF Yield
  <2>7. Len(e.calls) <= MaxCalls BY <1>5, <2>4
  <2>8. HandsOver(l, e) BY <1>3, <1>5, <2>1, <2>2, <2>4, <2>5, <2>6, <2>7 DEF HandsOver
  <2>9. CallsInv' /\ calls' \in Seq(Nat) BY <1>10, <2>2
  <2> QED BY <1>2, <1>3, <2>2, <2>3, <2>4, <2>8, <2>9 DEF LineStep
<1>17. CASE ToolUse(l)
  <2>1. /\ l.kind = "tool_use" /\ calls' = Append(calls, 0)
        /\ UNCHANGED <<phase, stopReason, usage, events, wants>>
        BY <1>17 DEF ToolUse
  <2>2. ~Chunked
    <3>1. "tool_use" \notin CutKinds \cup OpenAIKinds BY DEF CutKinds, OpenAIKinds, Reasons
    <3> QED BY <1>2, <1>3, <2>1, <3>1 DEF ProviderKinds, Chunked
  <2>3. l.kind \in Opening /\ l.kind # Argument BY <1>2, <2>1 DEF Opening, Argument
  <2>4. CallsInv' /\ calls' \in Seq(Nat) BY <1>2, <1>3, <1>4, <2>1, <2>2, <2>3, BlockGathered
  <2> QED BY <1>2, <1>3, <2>1, <2>4 DEF LineStep
<1>18. CASE InputJSON(l)
  <2>1. /\ l.kind = "input_json_delta"
        /\ calls' = IF calls = <<>> THEN calls ELSE [calls EXCEPT ![Len(calls)] = @ + 1]
        /\ UNCHANGED <<phase, stopReason, usage, events, wants>>
        BY <1>18 DEF InputJSON
  <2>2. ~Chunked
    <3>1. "input_json_delta" \notin CutKinds \cup OpenAIKinds BY DEF CutKinds, OpenAIKinds, Reasons
    <3> QED BY <1>2, <1>3, <2>1, <3>1 DEF ProviderKinds, Chunked
  <2>3. l.kind \notin Opening /\ l.kind = Argument BY <1>2, <2>1 DEF Opening, Argument
  <2>4. CallsInv' /\ calls' \in Seq(Nat) BY <1>2, <1>3, <1>4, <2>1, <2>2, <2>3, BlockGathered
  <2> QED BY <1>2, <1>3, <2>1, <2>4 DEF LineStep
<1>19. CASE Delta(l)
  <2> DEFINE e == IF l.kind = "text_delta" THEN [Event EXCEPT !.text = 1, !.calls = calls] ELSE Event
  <2>1. PICK more \in BOOLEAN : Yield(e, more) /\ Returns(IF more THEN phase ELSE "returned")
        BY <1>19 DEF Delta
  <2>2. l.kind \in {"text_delta", "thinking_delta"} /\ UNCHANGED parser BY <1>19 DEF Delta
  <2>3. /\ e.text = IF l.kind \in {"text", "text_delta"} THEN 1 ELSE 0
        /\ e.calls \in {calls, <<>>} /\ ~e.done /\ ~e.error
        BY <2>2 DEF Event
  <2>4. e \in Events BY <1>3, EventTypes DEF Event, Events
  <2> HIDE DEF e
  <2>5. Len(e.calls) <= MaxCalls BY <1>3, <1>5, <2>3
  <2>6. /\ wants' = (wants /\ more) /\ events' = IF wants THEN Append(events, e) ELSE events
        /\ phase' = IF wants THEN IF more THEN "reading" ELSE "returned" ELSE "panicked"
        BY <1>2, <2>1 DEF Yield, Returns
  <2>7. HandsOver(l, e) BY <1>3, <2>3, <2>5, <2>6 DEF HandsOver
  <2> QED BY <1>11, <2>2, <2>4, <2>7
<1>20. CASE MessageDelta(l)
  <2> DEFINE e == [Event EXCEPT !.calls = calls, !.reason = stopReason', !.usage = usage']
  <2>1. PICK more \in BOOLEAN : Yield(e, more) /\ Returns(IF more THEN phase ELSE "returned")
        BY <1>20 DEF MessageDelta
  <2>2. /\ l.kind = "message_delta" /\ UNCHANGED calls /\ stopReason' = ReasonOf(l) /\ usage' = MergedUsage
        BY <1>20 DEF MessageDelta
  <2>3. stopReason' \in Reasons BY <2>2 DEF ReasonOf, Reasons
  <2>4. usage' \in Usage /\ usage'.total = usage'.in + usage'.out
    <3>1. usage = [in |-> usage.in, out |-> usage.out, total |-> usage.total] /\ usage.in \in Nat
          BY <1>3 DEF Usage
    <3>2. usage' = [in |-> usage.in, out |-> 1, total |-> usage.in + 1]
          BY <2>2, <3>1 DEF MergedUsage, AnswerTokens
    <3> QED BY <3>1, <3>2 DEF Usage
  <2>5. e \in Events /\ e.text = 0 /\ e.calls = calls /\ ~e.done /\ ~e.error
        BY <1>3, <2>3, <2>4 DEF Event, Events
  <2> HIDE DEF e
  <2>6. /\ wants' = (wants /\ more) /\ events' = IF wants THEN Append(events, e) ELSE events
        /\ phase' = IF wants THEN IF more THEN "reading" ELSE "returned" ELSE "panicked"
        BY <1>2, <2>1 DEF Yield, Returns
  <2>7. HandsOver(l, e) BY <1>3, <2>2, <2>5, <2>6 DEF HandsOver
  <2>8. CallsInv' /\ calls' \in Seq(Nat) BY <1>10, <2>2
  <2> QED BY <1>2, <1>3, <2>2, <2>3, <2>4, <2>5, <2>7, <2>8 DEF LineStep
<1>21. CASE MessageStop(l)
  <2>1. PICK more \in BOOLEAN : Yield(StopEvent, more) BY <1>21 DEF MessageStop
  <2>2. /\ l.kind = "message_stop" /\ UNCHANGED parser
        /\ phase' = IF wants THEN "returned" ELSE "panicked"
        BY <1>21 DEF MessageStop, Returns
  <2>3. /\ StopEvent \in Events /\ StopEvent.text = 0 /\ StopEvent.calls = calls /\ StopEvent.done
        /\ ~StopEvent.error
        BY <1>3, EventTypes DEF StopEvent, Event, Events
  <2>4. HandsOver(l, StopEvent)
        BY <1>3, <1>5, <2>1, <2>2, <2>3 DEF HandsOver, Yield, CutKinds, parser
  <2> QED BY <1>11, <2>2, <2>3, <2>4
<1> QED BY <1>12, <1>13, <1>14, <1>15, <1>16, <1>17, <1>18, <1>19, <1>20, <1>21 DEF StreamLine

LEMMA LineKept ==
  ASSUME StreamInv, NEW l, StreamLine(l)
  PROVE  StreamInv'
<1>1. LineStep(l) BY LineSteps DEF StreamInv
<1>2. /\ StreamTypes /\ LinesInv /\ CallsInv /\ TextInv /\ EndInv
      /\ lines \in Seq(Lines) /\ events \in Seq(Events) /\ wants \in BOOLEAN
      BY DEF StreamInv, StreamTypes
<1>3. /\ l \in Lines /\ lines' = Append(lines, l) /\ phase = "reading" /\ mode = "stream"
      /\ UNCHANGED asked /\ UNCHANGED <<mode, provider>> /\ l.kind \in ProviderKinds
      BY <1>1 DEF LineStep, asked
<1>4. lines' \in Seq(Lines) /\ lines' # <<>> /\ Last(lines') = l BY <1>2, <1>3 DEF Last
<1>5. \A kind \in {"text", "text_delta"} : Sent(kind)' = IF l.kind = kind THEN Sent(kind) + 1 ELSE Sent(kind)
      BY <1>2, <1>3, SentGrows
<1>6. \A kind \in {"text", "text_delta"} : Sent(kind) \in Nat BY <1>2, PlacesFinite
<1>7. LinesInv' /\ CallsInv'
  <2>1. phase' \notin {"prepare", "sent"} BY <1>1, <1>3 DEF LineStep, HandsOver
  <2>2. ProviderKinds' = ProviderKinds BY <1>3 DEF ProviderKinds
  <2>3. \A i \in DOMAIN lines' : lines'[i] = l \/ (i \in DOMAIN lines /\ lines'[i] = lines[i]) BY <1>2, <1>3
  <2>4. LinesInv' BY <1>2, <1>3, <2>1, <2>2, <2>3 DEF LinesInv
  <2> QED BY <1>1, <2>4 DEF LineStep
<1>8. ASSUME UNCHANGED <<phase, events, wants>>, l.kind \notin {"text", "text_delta"} PROVE StreamInv'
  <2>1. StreamTypes' BY <1>1, <1>2, <1>3, <1>4, <1>8 DEF StreamTypes, LineStep, asked
  <2>2. TextInv' BY <1>2, <1>3, <1>5, <1>8 DEF TextInv, Lost, Ended, TextUnits, AnswerText
  <2>3. ~Ended' BY <1>2, <1>3, <1>8 DEF TextInv, Ended, Last
  <2> QED BY <1>7, <2>1, <2>2, <2>3 DEF StreamInv, EndInv
<1>9. ASSUME NEW e \in Events, HandsOver(l, e), ~wants PROVE StreamInv'
  <2>1. events' = events /\ phase' = "panicked" /\ wants' = FALSE BY <1>9 DEF HandsOver
  <2>2. StreamTypes' BY <1>1, <1>2, <1>3, <1>4, <2>1 DEF StreamTypes, LineStep, asked
  <2>3. ~Ended' BY <1>2, <1>3, <1>9, <2>1 DEF TextInv, Lost, Ended
  <2>4. TextInv' BY <1>2, <1>3, <2>1, <2>3 DEF TextInv, Lost, TextUnits
  <2> QED BY <1>7, <2>2, <2>3, <2>4 DEF StreamInv, EndInv
<1>10. ASSUME NEW e \in Events, HandsOver(l, e), wants PROVE StreamInv'
  <2>1. /\ events' = Append(events, e) /\ phase' \in {"reading", "returned"} /\ wants' \in BOOLEAN
        /\ phase' = "reading" => ~e.done /\ ~e.error /\ (wants' \/ provider = "anthropic")
        /\ e.text = IF l.kind \in {"text", "text_delta"} THEN 1 ELSE 0
        /\ Len(e.calls) <= MaxCalls
        /\ e.done => e.calls = IF l.kind \in CutKinds THEN <<>> ELSE calls'
        BY <1>10 DEF HandsOver
  <2>2. /\ events' \in Seq(Events) /\ events' # <<>> /\ Last(events') = e
        /\ \A i \in DOMAIN events' : events'[i] = e \/ (i \in DOMAIN events /\ events'[i] = events[i])
        BY <1>2, <2>1 DEF Last
  <2>3. StreamTypes' BY <1>1, <1>2, <1>3, <1>4, <2>1, <2>2 DEF StreamTypes, LineStep, asked
  <2>4. Ended' <=> e.done BY <2>2 DEF Ended
  <2>5. IsFiniteSet(TextUnits') /\ AnswerText' = AnswerText + e.text
        BY <1>2, <2>1, TextGrows DEF TextInv
  <2>6. AnswerText = Sent("text") + Sent("text_delta") BY <1>2, <1>3, <1>10 DEF TextInv, Lost
  <2>7. AnswerText' = Sent("text")' + Sent("text_delta")' BY <1>5, <1>6, <2>1, <2>5, <2>6
  <2>8. TextInv'
    <3>1. \A i \in DOMAIN events : ~events[i].done /\ ~events[i].error /\ Len(events[i].calls) <= MaxCalls
          BY <1>2, <1>3 DEF TextInv
    <3>2. Lost' => ~Ended' BY <2>1, <2>4 DEF Lost
    <3>3. \A i \in DOMAIN events' : Len(events'[i].calls) <= MaxCalls BY <2>1, <2>2, <3>1
    <3>4. phase' = "reading" => \A i \in DOMAIN events' : ~events'[i].done /\ ~events'[i].error
          BY <2>1, <2>2, <3>1
    <3> QED BY <1>3, <2>1, <2>5, <2>7, <3>2, <3>3, <3>4 DEF TextInv
  <2>9. EndInv' BY <1>3, <1>4, <2>1, <2>2, <2>4 DEF EndInv
  <2> QED BY <1>7, <2>3, <2>8, <2>9 DEF StreamInv
<1> QED BY <1>1, <1>8, <1>9, <1>10 DEF LineStep

LEMMA NothingSaid == events = <<>> => AnswerText = 0 /\ IsFiniteSet(TextUnits) /\ ~Ended
<1> SUFFICES ASSUME events = <<>> PROVE AnswerText = 0 /\ IsFiniteSet(TextUnits) /\ ~Ended OBVIOUS
<1>1. TextUnits = {} BY DEF TextUnits
<1>2. AnswerText = Cardinality(TextUnits) BY DEF AnswerText, TextUnits
<1> QED BY <1>1, <1>2, FS_EmptySet DEF Ended

LEMMA CallsStay ==
  ASSUME CallsInv, UNCHANGED <<mode, provider, lines, calls>>
  PROVE  CallsInv'
<1>1. Opening' = Opening /\ \A kind : Places(kind)' = Places(kind) BY DEF Opening, Places
<1>2. \A j : Opened(j)' = Opened(j) BY <1>1 DEF Opened
<1>3. CallsSent' = CallsSent BY <1>1, <1>2 DEF CallsSent, Begun
<1>4. \A i : Fragments(i)' = Fragments(i) BY <1>1, <1>2 DEF Fragments
<1>5. Numbers' = Numbers BY <1>1 DEF Numbers
<1> QED BY <1>3, <1>4, <1>5 DEF CallsInv, Chunked

(* One event ends the call without a line.                                 *)
LEMMA EndKept ==
  ASSUME StreamInv, UNCHANGED <<mode, provider, lines, calls, stopReason, usage>>,
         phase \in {"prepare", "sent", "reading"}, phase' = "returned", wants,
         NEW e \in Events, Yield(e, FALSE), Len(e.calls) <= MaxCalls,
         IF e.done THEN mode = "once" /\ e.calls = calls /\ e.text = Sent("text") ELSE e.text = 0,
         at' \in Nat, messages' \in Seq(Messages), request' \in Seq(Requests)
  PROVE  StreamInv'
<1>2. /\ StreamTypes /\ LinesInv /\ CallsInv /\ TextInv /\ EndInv
      /\ lines \in Seq(Lines) /\ events \in Seq(Events)
      BY DEF StreamInv, StreamTypes
<1>3. events' = Append(events, e) /\ wants' = FALSE BY DEF Yield
<1>4. /\ events' \in Seq(Events) /\ events' # <<>> /\ Last(events') = e
      /\ \A i \in DOMAIN events' : events'[i] = e \/ (i \in DOMAIN events /\ events'[i] = events[i])
      BY <1>2, <1>3 DEF Last
<1>5. StreamTypes' BY <1>2, <1>3, <1>4 DEF StreamTypes
<1>6. LinesInv' BY <1>2 DEF LinesInv, ProviderKinds
<1>7. CallsInv' BY <1>2, CallsStay
<1>8. \A kind \in {"text", "text_delta"} : Sent(kind)' = Sent(kind) /\ Sent(kind) \in Nat
      BY <1>2, PlacesFinite DEF Sent, Places
<1>9. Ended' <=> e.done BY <1>4 DEF Ended
<1>10. IsFiniteSet(TextUnits') /\ AnswerText' = AnswerText + e.text
       BY <1>2, <1>3, TextGrows DEF TextInv
<1>11. TextInv'
  <2>1. mode = "stream" => AnswerText = Sent("text") + Sent("text_delta") /\ e.text = 0
        BY <1>2 DEF TextInv, Lost
  <2>2. mode' = "stream" => AnswerText' = Sent("text")' + Sent("text_delta")'
        BY <1>8, <1>10, <2>1
  <2>3. \A i \in DOMAIN events' : Len(events'[i].calls) <= MaxCalls BY <1>2, <1>4 DEF TextInv
  <2> QED BY <1>10, <2>2, <2>3 DEF TextInv, Lost
<1>12. EndInv'
  <2>1. e.done => AnswerText = 0 BY <1>2, NothingSaid DEF TextInv
  <2>2. e.done => AnswerText' = Sent("text")' BY <1>8, <1>10, <2>1
  <2>3. e.done /\ lines # <<>> => Last(lines).kind \notin CutKinds
    <3>1. lines # <<>> => Len(lines) \in DOMAIN lines BY <1>2
    <3>2. Parts \cap CutKinds = {} BY DEF Parts, CutKinds
    <3> QED BY <1>2, <3>1, <3>2 DEF LinesInv, Last
  <2> QED BY <1>4, <1>9, <2>2, <2>3 DEF EndInv
<1> QED BY <1>5, <1>6, <1>7, <1>11, <1>12 DEF StreamInv

(* A step that only gets on with the request.                              *)
LEMMA RestKept ==
  ASSUME StreamInv, UNCHANGED <<mode, provider, lines, parser, events, wants>>,
         \/ phase' = phase
         \/ phase = "prepare" /\ phase' = "sent"
         \/ phase = "sent" /\ phase' = "reading",
         at' \in Nat, messages' \in Seq(Messages), request' \in Seq(Requests)
  PROVE  StreamInv'
<1>1. StreamTypes /\ LinesInv /\ CallsInv /\ TextInv /\ EndInv /\ UNCHANGED <<calls, stopReason, usage>>
      BY DEF StreamInv, parser
<1>2. StreamTypes' BY <1>1 DEF StreamTypes
<1>3. LinesInv' BY <1>1 DEF LinesInv, ProviderKinds
<1>4. CallsInv' BY <1>1, CallsStay
<1>5. TextInv' BY <1>1 DEF TextInv, Lost, Ended, TextUnits, AnswerText, Sent, Places, LinesInv
<1>6. EndInv' BY <1>1 DEF EndInv, Ended, AnswerText, Sent, Places
<1> QED BY <1>2, <1>3, <1>4, <1>5, <1>6 DEF StreamInv

(* The blocks of a message: its text, then one block per call.             *)
LEMMA CallBlocks ==
  ASSUME NEW m \in Messages
  PROVE  /\ TextParts(m) \in Seq(Blocks) /\ CallParts(m) \in Seq(Blocks)
         /\ \A j \in DOMAIN TextParts(m) : TextParts(m)[j].type = "text"
         /\ \A j \in DOMAIN CallParts(m) :
               \/ CallParts(m)[j].type = "text"
               \/ \E k \in DOMAIN m.ids : CallParts(m)[j] = Part("tool_use", m.ids[k])
         /\ \A k \in DOMAIN m.ids : \E j \in DOMAIN CallParts(m) : CallParts(m)[j] = Part("tool_use", m.ids[k])
         /\ m.ids # <<>> => CallParts(m) # <<>>
<1> DEFINE tp == TextParts(m)
           cp == [i \in DOMAIN m.ids |-> Part("tool_use", m.ids[i])]
<1>1. m.ids \in Seq(Nat) BY DEF Messages
<1>2. Part("text", 0) \in Blocks /\ \A i \in DOMAIN m.ids : Part("tool_use", m.ids[i]) \in Blocks
      BY <1>1 DEF Part, Blocks, PartTypes
<1>3. tp \in Seq(Blocks) /\ \A j \in DOMAIN tp : tp[j].type = "text"
  <2>1. <<Part("text", 0)>> \in Seq(Blocks) BY <1>2, Single
  <2>2. <<>> \in Seq(Blocks) OBVIOUS
  <2> QED BY <2>1, <2>2 DEF TextParts, Part
<1>4. cp \in Seq(Blocks) /\ Len(cp) = Len(m.ids) /\ \A k \in 1..Len(m.ids) : cp[k] = Part("tool_use", m.ids[k])
      BY <1>1, <1>2
<1>5. CallParts(m) = tp \o cp BY DEF CallParts
<1> HIDE DEF tp, cp
<1>6. /\ tp \o cp \in Seq(Blocks) /\ Len(tp \o cp) = Len(tp) + Len(m.ids)
      /\ \A j \in 1..Len(tp) : (tp \o cp)[j] = tp[j]
      /\ \A k \in 1..Len(m.ids) : (tp \o cp)[Len(tp) + k] = Part("tool_use", m.ids[k])
  <2>1. tp \o cp \in Seq(Blocks) BY <1>3, <1>4, ConcatProperties
  <2>2. Len(tp \o cp) = Len(tp) + Len(cp) BY <1>3, <1>4, ConcatProperties
  <2>3. \A i \in 1..(Len(tp) + Len(cp)) : (tp \o cp)[i] = IF i <= Len(tp) THEN tp[i] ELSE cp[i - Len(tp)]
        BY <1>3, <1>4, ConcatProperties
  <2>4. Len(tp) \in Nat /\ Len(cp) \in Nat BY <1>3, <1>4
  <2>5. \A j \in 1..Len(tp) : (tp \o cp)[j] = tp[j] BY <2>3, <2>4
  <2>6. \A k \in 1..Len(cp) : (tp \o cp)[Len(tp) + k] = cp[k] BY <2>3, <2>4
  <2> QED BY <1>4, <2>1, <2>2, <2>5, <2>6
<1>7. Len(tp) \in Nat /\ Len(m.ids) \in Nat /\ DOMAIN m.ids = 1..Len(m.ids) /\ DOMAIN tp = 1..Len(tp)
      BY <1>1, <1>3
<1>8. DOMAIN (tp \o cp) = 1..(Len(tp) + Len(m.ids)) BY <1>6
<1>9. ASSUME NEW j \in DOMAIN (tp \o cp)
      PROVE  (tp \o cp)[j].type = "text" \/ \E k \in DOMAIN m.ids : (tp \o cp)[j] = Part("tool_use", m.ids[k])
  <2>1. CASE j \in 1..Len(tp) BY <1>3, <1>6, <1>7, <2>1
  <2>2. CASE j \notin 1..Len(tp)
    <3>1. j - Len(tp) \in 1..Len(m.ids) /\ j = Len(tp) + (j - Len(tp)) BY <1>7, <1>8, <2>2
    <3> QED BY <1>6, <1>7, <3>1
  <2> QED BY <2>1, <2>2
<1>10. ASSUME NEW k \in DOMAIN m.ids
       PROVE  \E j \in DOMAIN (tp \o cp) : (tp \o cp)[j] = Part("tool_use", m.ids[k])
  <2>1. Len(tp) + k \in DOMAIN (tp \o cp) BY <1>7, <1>8
  <2> QED BY <1>6, <1>7, <2>1
<1>11. m.ids # <<>> => tp \o cp # <<>>
  <2>1. m.ids # <<>> => 1 \in DOMAIN m.ids BY <1>1
  <2> QED BY <1>10, <2>1
<1>12. CallParts(m) \in Seq(Blocks) BY <1>5, <1>6
<1> QED BY <1>3, <1>5, <1>9, <1>10, <1>11, <1>12 DEF tp

LEMMA ConvertedTypes ==
  ASSUME NEW out \in Seq(Requests), NEW m \in Messages
  PROVE  Converted(out, m) \in Seq(Requests)
<1>1. ASSUME NEW parts \in Seq(Blocks), NEW role \in {"user", "assistant"}
      PROVE  WithParts(out, role, parts) \in Seq(Requests)
  <2>1. parts # <<>> => [role |-> role, parts |-> parts] \in Requests BY <1>1 DEF Requests
  <2> QED BY <2>1 DEF WithParts
<1>2. WithResult(out, m) \in Seq(Requests)
  <2>1. Part("tool_result", m.id) \in Blocks BY DEF Part, Blocks, PartTypes, Messages
  <2>2. [role |-> "user", parts |-> <<Part("tool_result", m.id)>>] \in Requests
    <3>1. <<Part("tool_result", m.id)>> \in Seq(Blocks) BY <2>1, Single
    <3> QED BY <3>1 DEF Requests
  <2>3. CASE out # <<>> /\ Last(out).role = "user"
    <3>1. Len(out) \in DOMAIN out /\ out[Len(out)] \in Requests BY <2>3
    <3>2. Append(out[Len(out)].parts, Part("tool_result", m.id)) \in Seq(Blocks) \ {<<>>}
      <4>1. out[Len(out)].parts \in Seq(Blocks) BY <3>1 DEF Requests
      <4> QED BY <2>1, <4>1
    <3>3. [out[Len(out)] EXCEPT !.parts = Append(@, Part("tool_result", m.id))] \in Requests
          BY <3>1, <3>2 DEF Requests
    <3> DEFINE grown == [out EXCEPT ![Len(out)].parts = Append(@, Part("tool_result", m.id))]
    <3>4. WithResult(out, m) = grown BY <2>3 DEF WithResult
    <3>5. /\ DOMAIN grown = 1..Len(out)
          /\ \A i \in 1..Len(out) : grown[i] = IF i = Len(out)
                THEN [out[Len(out)] EXCEPT !.parts = Append(@, Part("tool_result", m.id))] ELSE out[i]
          BY <3>1
    <3> QED BY <3>1, <3>3, <3>4, <3>5
  <2>4. CASE ~(out # <<>> /\ Last(out).role = "user") BY <2>2, <2>4 DEF WithResult
  <2> QED BY <2>3, <2>4
<1>3. m.role \in {"system", "user", "assistant", "tool"} BY DEF Messages
<1>4. TextParts(m) \in Seq(Blocks) /\ CallParts(m) \in Seq(Blocks) BY CallBlocks
<1>5. CASE m.role = "system" BY <1>5 DEF Converted
<1>6. CASE m.role = "tool" \/ (m.role = "user" /\ m.id # 0) BY <1>2, <1>6 DEF Converted
<1>7. CASE m.role = "user" /\ m.id = 0 BY <1>1, <1>4, <1>7 DEF Converted
<1>8. CASE m.role = "assistant" BY <1>1, <1>4, <1>8 DEF Converted, CallParts
<1> QED BY <1>3, <1>5, <1>6, <1>7, <1>8

LEMMA StreamKept == StreamInv /\ [StreamNext]_streamVars => StreamInv'
<1> SUFFICES ASSUME StreamInv, [StreamNext]_streamVars PROVE StreamInv' OBVIOUS
<1>1. StreamTypes /\ LinesInv /\ CallsInv /\ TextInv /\ EndInv BY DEF StreamInv
<1>2. /\ lines \in Seq(Lines) /\ calls \in Seq(Nat) /\ at \in Nat /\ Len(calls) <= MaxCalls
      /\ messages \in Seq(Messages) /\ request \in Seq(Requests)
      BY <1>1 DEF StreamTypes, CallsInv
<1>3. MaxCalls \in Nat BY StreamAssumption
<1>4. 0 \in Nat /\ <<>> \in Seq(Messages) /\ <<>> \in Seq(Requests) OBVIOUS
<1>5. CASE ToAnthropicMessages
  <2>1. /\ at' = at + 1 /\ at < Len(messages) /\ request' = Converted(request, messages[at'])
        /\ UNCHANGED <<provider, mode, phase, messages, lines, parser, events, wants>>
        BY <1>5 DEF ToAnthropicMessages
  <2>2. at' \in Nat /\ messages[at'] \in Messages BY <1>2, <2>1
  <2>3. request' \in Seq(Requests) BY <1>2, <2>1, <2>2, ConvertedTypes
  <2> QED BY <1>2, <2>1, <2>2, <2>3, RestKept
<1>6. CASE Prepare
  <2>1. /\ phase = "prepare" /\ phase' = "sent" /\ messages' = <<>> /\ at' = 0
        /\ UNCHANGED <<provider, mode, request, lines, parser, events, wants>>
        BY <1>6 DEF Prepare, AllConverted
  <2> QED BY <1>2, <1>4, <2>1, RestKept
<1>7. CASE Respond
  <2>1. /\ phase = "sent" /\ phase' = "reading" /\ request' = <<>>
        /\ UNCHANGED <<provider, mode, messages, at, lines, parser, events, wants>>
        BY <1>7 DEF Respond
  <2> QED BY <1>2, <1>4, <2>1, RestKept
<1>8. CASE SendFails
  <2>1. /\ phase \in {"prepare", "sent"} /\ phase' = "returned" /\ Yield(Failure, FALSE)
        /\ messages' = <<>> /\ at' = 0 /\ request' = <<>>
        /\ UNCHANGED <<provider, mode, lines, parser>>
        BY <1>8 DEF SendFails, AllConverted
  <2>2. Failure \in Events /\ Failure.text = 0 /\ ~Failure.done /\ Failure.calls = <<>>
        BY EventTypes DEF Failure, Event
  <2>3. wants BY <1>1, <2>1 DEF LinesInv
  <2>4. UNCHANGED <<calls, stopReason, usage>> BY <2>1 DEF parser
  <2>5. Len(Failure.calls) <= MaxCalls BY <1>3, <2>2
  <2> QED BY <1>4, <2>1, <2>2, <2>3, <2>4, <2>5, EndKept
<1>9. ASSUME NEW e \in {Failure, ChatEvent}, phase = "reading", mode = "once", phase' = "returned",
             Yield(e, FALSE), UNCHANGED <<asked, lines, parser>>
      PROVE  StreamInv'
  <2>1. Sent("text") \in Nat BY <1>2, PlacesFinite
  <2>2. Failure \in Events /\ Failure.text = 0 /\ ~Failure.done /\ Failure.calls = <<>>
        BY EventTypes DEF Failure, Event
  <2>3. ChatEvent \in Events /\ ChatEvent.text = Sent("text") /\ ChatEvent.done /\ ChatEvent.calls = calls
        BY <1>2, <2>1, EventTypes DEF ChatEvent, Event, Events
  <2>4. wants BY <1>1, <1>9 DEF TextInv, StreamTypes
  <2>5. e \in Events /\ Len(e.calls) <= MaxCalls BY <1>2, <1>3, <2>2, <2>3
  <2>6. IF e.done THEN mode = "once" /\ e.calls = calls /\ e.text = Sent("text") ELSE e.text = 0
        BY <1>9, <2>2, <2>3
  <2> QED BY <1>2, <1>9, <2>4, <2>5, <2>6, EndKept DEF asked, parser
<1>10. CASE Chat
  <2>1. \E e \in {Failure, ChatEvent} : Yield(e, FALSE) BY <1>10 DEF Chat
  <2> QED BY <1>9, <1>10, <2>1 DEF Chat
<1>11. CASE ChatUnreadable BY <1>9, <1>11 DEF ChatUnreadable
<1>12. ASSUME NEW l \in NextLines, StreamLine(l) PROVE StreamInv' BY <1>12, LineKept
<1>13. ASSUME NEW p \in Parts, ChatPart(p) PROVE StreamInv'
  <2>1. /\ phase = "reading" /\ mode = "once" /\ Len(lines) < MaxCalls /\ lines' = Append(lines, Line(p))
        /\ calls' = IF p = "text" THEN calls ELSE Append(calls, IF p = "call" THEN 1 ELSE 0)
        /\ UNCHANGED <<asked, phase, stopReason, usage, events, wants>>
        BY <1>13 DEF ChatPart
  <2>2. UNCHANGED <<mode, provider>> BY <2>1 DEF asked
  <2>3. Line(p) \in Lines /\ Line(p).kind = p BY DEF Line, Lines
  <2>4. Len(calls) < MaxCalls
    <3>1. CallsSent = Opened(Len(lines)) BY <2>1 DEF CallsSent
    <3>2. Opened(Len(lines)) \in Nat /\ Opened(Len(lines)) <= Len(lines)
      <4>1. Len(lines) \in 0..Len(lines) BY <1>2
      <4> QED BY <1>2, <4>1, OpenedBound
    <3>3. Len(calls) = Opened(Len(lines)) BY <1>1, <3>1, <3>2 DEF CallsInv
    <3>4. Len(lines) \in Nat BY <1>2
    <3> QED BY <1>3, <2>1, <3>2, <3>3, <3>4
  <2>5. CallsInv' /\ calls' \in Seq(Nat)
    <3>1. ~Chunked /\ Argument = "call" /\ Opening = {"call", "bare_call"}
          BY <2>1 DEF Chunked, Argument, Opening, Parts
    <3>2. p \in {"text", "call", "bare_call"} BY DEF Parts
    <3> DEFINE l == Line(p)
    <3>3. \/ /\ l.kind \in Opening /\ Len(calls) < MaxCalls
             /\ calls' = Append(calls, IF l.kind = Argument THEN 1 ELSE 0)
          \/ /\ l.kind \notin Opening /\ l.kind # Argument
             /\ calls' = calls
      <4>1. l.kind = p BY <2>3
      <4>2. CASE p = "text" BY <2>1, <3>1, <4>1, <4>2
      <4>3. CASE p # "text" BY <2>1, <2>4, <3>1, <3>2, <4>1, <4>3
      <4> QED BY <4>2, <4>3
    <3>4. l \in Lines /\ lines' = Append(lines, l) BY <2>1, <2>3
    <3> HIDE DEF l
    <3> QED BY <1>1, <1>2, <2>2, <3>1, <3>3, <3>4, BlockGathered
  <2>6. lines' \in Seq(Lines) BY <1>2, <2>1, <2>3
  <2>7. StreamTypes' BY <1>1, <2>1, <2>5, <2>6 DEF StreamTypes, asked
  <2>8. LinesInv'
    <3>1. \A i \in DOMAIN lines' : lines'[i] = Line(p) \/ (i \in DOMAIN lines /\ lines'[i] = lines[i])
          BY <1>2, <2>1, <2>3
    <3> QED BY <1>1, <2>1, <2>2, <2>3, <3>1 DEF LinesInv
  <2>9. TextInv' BY <1>1, <2>1, <2>2 DEF TextInv, Lost, Ended, TextUnits
  <2>10. ~Ended' BY <1>1, <2>1 DEF TextInv, Ended
  <2> QED BY <2>5, <2>7, <2>8, <2>9, <2>10 DEF StreamInv, EndInv
<1>14. CASE UNCHANGED streamVars
  <2>1. UNCHANGED <<mode, provider, lines, parser, events, wants, phase, at, messages, request>>
        BY <1>14 DEF streamVars, asked
  <2> QED BY <1>2, <2>1, RestKept
<1> QED BY <1>5, <1>6, <1>7, <1>8, <1>10, <1>11, <1>12, <1>13, <1>14 DEF StreamNext

LEMMA InitStream == StreamInit => StreamInv
<1> SUFFICES ASSUME StreamInit PROVE StreamInv OBVIOUS
<1>0. /\ messages \in Conversations /\ lines = <<>> /\ calls = <<>> /\ events = <<>> /\ request = <<>>
      /\ wants = TRUE /\ phase = "prepare" /\ at = 0
      /\ provider \in Providers /\ mode \in Modes /\ usage = NoUsage
      BY Zenon DEF StreamInit
<1>1. messages \in Seq(Messages) BY <1>0, ConversationsAssumption
<1>2. StreamTypes
  <2>1. usage \in Usage /\ usage.total = usage.in + usage.out BY <1>0, EventTypes DEF NoUsage
  <2>2. stopReason \in Reasons BY Zenon DEF StreamInit, Reasons
  <2>3. lines \in Seq(Lines) /\ calls \in Seq(Nat) /\ events \in Seq(Events) /\ request \in Seq(Requests)
        BY <1>0
  <2>4. phase \in {"prepare", "sent", "reading", "returned", "panicked"} /\ at \in Nat /\ wants \in BOOLEAN
        BY <1>0
  <2> QED BY <1>0, <1>1, <2>1, <2>2, <2>3, <2>4, Zenon DEF StreamTypes
<1>3. LinesInv BY <1>0 DEF LinesInv
<1>4. CallsInv
  <2>1. \A kind : Places(kind) = {} BY <1>0 DEF Places
  <2>2. Begun = 0 BY <2>1, FS_EmptySet DEF Begun
  <2>3. Opened(Len(lines)) = 0
    <3>1. Len(lines) = 0 BY <1>0
    <3>2. {k \in 1..0 : lines[k].kind \in Opening} = {} OBVIOUS
    <3> QED BY <3>1, <3>2, FS_EmptySet DEF Opened
  <2>4. CallsSent = 0 BY <2>2, <2>3 DEF CallsSent
  <2>5. [i \in 1..CallsSent |-> Fragments(i)] = <<>> BY <2>4
  <2>6. Numbers = {} BY <2>1 DEF Numbers
  <2>7. Len(calls) = 0 /\ MaxCalls \in Nat BY <1>0, StreamAssumption
  <2> QED BY <1>0, <2>5, <2>6, <2>7 DEF CallsInv
<1>5. TextInv
  <2>1. \A kind : Sent(kind) = 0
    <3>1. \A kind : Places(kind) = {} BY <1>0 DEF Places
    <3> QED BY <3>1, FS_EmptySet DEF Sent
  <2> QED BY <1>0, <2>1, NothingSaid DEF TextInv, Lost
<1>6. EndInv BY <1>0, NothingSaid DEF EndInv
<1> QED BY <1>2, <1>3, <1>4, <1>5, <1>6 DEF StreamInv

LEMMA StreamInvariant == StreamSpec => []StreamInv
  BY InitStream, StreamKept, PTL DEF StreamSpec

(* Types of a call: requests have blocks, a call has its fragments, usage  *)
(* adds up, and what is handed over is an event (LLMStreamProps).          *)
THEOREM StreamTypeCorrect == StreamSpec => []StreamTypeOK
<1>1. ASSUME StreamInv PROVE StreamTypeOK
  <2>1. StreamTypes /\ CallsInv /\ TextInv BY <1>1 DEF StreamInv
  <2>2. ASSUME NEW i \in DOMAIN request
        PROVE  /\ request[i].role \in {"user", "assistant"} /\ request[i].parts # <<>>
               /\ \A j \in DOMAIN request[i].parts : request[i].parts[j].type \in PartTypes
    <3>1. request[i] \in Requests BY <2>1 DEF StreamTypes
    <3>2. /\ request[i].role \in {"user", "assistant"} /\ request[i].parts # <<>>
          /\ request[i].parts \in Seq(Blocks)
          BY <3>1 DEF Requests
    <3>3. \A j \in DOMAIN request[i].parts : request[i].parts[j] \in Blocks BY <3>2
    <3>4. \A j \in DOMAIN request[i].parts : request[i].parts[j].type \in PartTypes BY <3>3 DEF Blocks
    <3> QED BY <3>2, <3>4
  <2>3. ASSUME NEW i \in DOMAIN events PROVE events[i].reason \in Reasons /\ Len(events[i].calls) <= MaxCalls
    <3>1. events[i] \in Events BY <2>1 DEF StreamTypes
    <3>2. events[i].reason \in Reasons BY <3>1 DEF Events
    <3> QED BY <2>1, <3>2 DEF TextInv
  <2> QED BY <2>1, <2>2, <2>3 DEF StreamTypeOK, StreamTypes, CallsInv
<1> QED BY StreamInvariant, <1>1, PTL

(* An answer that came to its end hands over exactly the calls that were   *)
(* sent, each with all its arguments, and all of its text: for any number  *)
(* of lines and calls, in whatever order the provider sends them.          *)
THEOREM AnswersAreWhole == StreamSpec => []AnswerIsWhole
<1>1. ASSUME StreamInv PROVE AnswerIsWhole
  <2> SUFFICES ASSUME Finished, Ended
               PROVE  /\ Taken = [i \in 1..CallsSent |-> Fragments(i)]
                      /\ AnswerText = Sent("text") + Sent("text_delta")
      BY DEF AnswerIsWhole
  <2>1. StreamTypes /\ LinesInv /\ CallsInv /\ TextInv /\ EndInv /\ lines \in Seq(Lines)
        BY <1>1 DEF StreamInv, StreamTypes
  <2>2. lines # <<>> /\ Len(lines) \in DOMAIN lines /\ Last(lines) = lines[Len(lines)]
        BY <2>1 DEF Finished, Last
  <2>3. Last(lines).kind \notin CutKinds
    <3>1. CASE mode = "once" BY <2>1, <2>2, <3>1 DEF LinesInv, Parts, CutKinds
    <3>2. CASE mode # "once" BY <3>2 DEF Finished, CutKinds
    <3> QED BY <3>1, <3>2
  <2>4. Taken = calls BY <2>1, <2>3 DEF EndInv, Taken
  <2>5. AnswerText = Sent("text") + Sent("text_delta")
    <3>1. CASE mode = "stream" BY <2>1, <3>1 DEF TextInv
    <3>2. CASE mode = "once"
      <4>1. Places("text_delta") = {} BY <2>1, <3>2 DEF LinesInv, Places, Parts
      <4>2. Sent("text_delta") = 0 BY <4>1, FS_EmptySet DEF Sent
      <4>3. Sent("text") \in Nat BY <2>1, PlacesFinite
      <4> QED BY <2>1, <3>2, <4>2, <4>3 DEF EndInv
    <3> QED BY <2>1, <3>1, <3>2 DEF StreamTypes, Modes
  <2> QED BY <2>1, <2>4, <2>5 DEF CallsInv
<1> QED BY StreamInvariant, <1>1, PTL

(* A stream that is cut, closed or turns unreadable before its end runs no *)
(* tool, whatever was gathered.                                            *)
THEOREM CutsRunNothing == StreamSpec => []CutRunsNothing
<1>1. ASSUME StreamInv PROVE CutRunsNothing
  <2>1. EndInv BY <1>1 DEF StreamInv
  <2>2. \A l \in Cuts : l.kind \in CutKinds BY DEF Cuts, Line, CutKinds
  <2> QED BY <2>1, <2>2 DEF EndInv, CutRunsNothing, Taken
<1> QED BY StreamInvariant, <1>1, PTL

-----------------------------------------------------------------------------
(* The request.  Whether a message is paired depends on its neighbours     *)
(* alone, and on the next one only if it has calls.                        *)
LEMMA PairedStays ==
  ASSUME NEW r, NEW s, NEW i \in Nat \ {0}, PairedAt(r, i), s[i] = r[i],
         i > 1 => s[i - 1] = r[i - 1],
         i + 1 \in DOMAIN r => i + 1 \in DOMAIN s /\ s[i + 1] = r[i + 1]
  PROVE  PairedAt(s, i)
<1> SUFFICES ASSUME NEW j \in DOMAIN s[i].parts
             PROVE  LET p == s[i].parts[j] IN
                    /\ p.type = "tool_use" =>
                          /\ i + 1 \in DOMAIN s /\ s[i + 1].role = "user"
                          /\ \E k \in ResultsFor(s, i + 1, p.id) : ResultsFor(s, i + 1, p.id) = {k}
                    /\ p.type = "tool_result" =>
                          i > 1 /\ Part("tool_use", p.id) \in ToSet(s[i - 1].parts)
    BY DEF PairedAt
<1> DEFINE p == r[i].parts[j]
<1>1. /\ p.type = "tool_use" =>
              /\ i + 1 \in DOMAIN r /\ r[i + 1].role = "user"
              /\ \E k \in ResultsFor(r, i + 1, p.id) : ResultsFor(r, i + 1, p.id) = {k}
      /\ p.type = "tool_result" =>
              i > 1 /\ Part("tool_use", p.id) \in ToSet(r[i - 1].parts)
      BY DEF PairedAt
<1>2. i + 1 \in DOMAIN r => ResultsFor(s, i + 1, p.id) = ResultsFor(r, i + 1, p.id) BY DEF ResultsFor
<1> HIDE DEF p
<1>3. p = s[i].parts[j] BY DEF p
<1> QED BY <1>1, <1>2, <1>3

(* A message without calls and results is paired.                          *)
LEMMA TextPaired ==
  ASSUME NEW r, NEW i, \A j \in DOMAIN r[i].parts : r[i].parts[j].type = "text"
  PROVE  PairedAt(r, i)
  BY DEF PairedAt

(* Calls and, in the next message, one result each in the same order.      *)
LEMMA ResultsPaired ==
  ASSUME NEW r, NEW i \in Nat \ {0}, i + 1 \in DOMAIN r, NEW m \in Messages,
         \A k, j \in DOMAIN m.ids : m.ids[j] = m.ids[k] => j = k,
         r[i] = [role |-> "assistant", parts |-> CallParts(m)],
         r[i + 1] = ResultsMessage(m, Len(m.ids))
  PROVE  PairedAt(r, i) /\ PairedAt(r, i + 1)
<1>1. /\ \A j \in DOMAIN CallParts(m) :
            \/ CallParts(m)[j].type = "text"
            \/ \E k \in DOMAIN m.ids : CallParts(m)[j] = Part("tool_use", m.ids[k])
      /\ \A k \in DOMAIN m.ids : \E j \in DOMAIN CallParts(m) : CallParts(m)[j] = Part("tool_use", m.ids[k])
      BY CallBlocks
<1>2. r[i].parts = CallParts(m) OBVIOUS
<1>3. /\ r[i + 1].role = "user" /\ DOMAIN r[i + 1].parts = DOMAIN m.ids
      /\ \A k \in DOMAIN m.ids : r[i + 1].parts[k] = Part("tool_result", m.ids[k])
  <2>1. m.ids \in Seq(Nat) BY DEF Messages
  <2>2. DOMAIN m.ids = 1..Len(m.ids) BY <2>1
  <2> QED BY <2>2 DEF ResultsMessage
<1>4. \A k \in DOMAIN m.ids : ResultsFor(r, i + 1, m.ids[k]) = {k}
  <2> TAKE k \in DOMAIN m.ids
  <2>1. \A j \in DOMAIN m.ids : Part("tool_result", m.ids[j]) = Part("tool_result", m.ids[k]) => j = k
        BY DEF Part
  <2> QED BY <1>3, <2>1 DEF ResultsFor
<1>5. \A id : Part("tool_use", id).type = "tool_use" /\ Part("tool_use", id).id = id
               /\ Part("tool_result", id).type = "tool_result" /\ Part("tool_result", id).id = id
      BY DEF Part
<1>6. PairedAt(r, i)
  <2>1. ASSUME NEW j \in DOMAIN r[i].parts, r[i].parts[j].type # "text"
        PROVE  /\ r[i].parts[j].type = "tool_use"
               /\ \E k \in ResultsFor(r, i + 1, r[i].parts[j].id) : ResultsFor(r, i + 1, r[i].parts[j].id) = {k}
    <3>1. PICK k \in DOMAIN m.ids : r[i].parts[j] = Part("tool_use", m.ids[k]) BY <1>1, <1>2, <2>1
    <3>2. r[i].parts[j].id = m.ids[k] /\ r[i].parts[j].type = "tool_use" BY <1>5, <3>1
    <3>3. ResultsFor(r, i + 1, r[i].parts[j].id) = {k} BY <1>4, <3>2
    <3> QED BY <3>2, <3>3
  <2>2. \A j \in DOMAIN r[i].parts : r[i].parts[j].type # "tool_result" BY <2>1
  <2> QED BY <1>3, <2>1, <2>2 DEF PairedAt
<1>7. PairedAt(r, i + 1)
  <2> SUFFICES ASSUME NEW k \in DOMAIN m.ids
               PROVE  Part("tool_use", m.ids[k]) \in ToSet(r[i].parts)
    <3>1. i + 1 > 1 /\ (i + 1) - 1 = i OBVIOUS
    <3>2. \A k \in DOMAIN r[i + 1].parts :
            /\ r[i + 1].parts[k].type = "tool_result"
            /\ Part("tool_use", r[i + 1].parts[k].id) \in ToSet(r[i].parts)
          BY <1>3, <1>5
    <3> QED BY <3>1, <3>2 DEF PairedAt
  <2> QED BY <1>1, <1>2 DEF ToSet
<1> QED BY <1>6, <1>7

(* One round: a result joins its siblings, anything else starts afresh.    *)
LEMMA ResultJoins ==
  ASSUME request \in Seq(Requests), messages \in Conversations, NEW a \in 1..at, at \in 0..(Len(messages) - 1),
         Awaits(a), request' = Converted(request, messages[at + 1]), at' = at + 1, messages' = messages
  PROVE  Settled' \/ Awaits(a)'
<1> DEFINE m == messages[a]
           n == Len(request)
           d == at - a
           b == messages[at + 1]
           o == request'
           top == IF d = 0 THEN n + 1 ELSE n
<1>1. /\ messages \in Seq(Messages) /\ m \in Messages /\ b \in Messages /\ m.ids \in Seq(Nat)
      /\ DOMAIN messages = 1..Len(messages) /\ Len(messages) \in Nat /\ at \in Nat /\ a \in Nat
  <2>1. messages \in Seq(Messages) BY ConversationsAssumption
  <2>2. a \in 1..Len(messages) /\ at + 1 \in 1..Len(messages) BY <2>1
  <2>3. m \in Messages /\ b \in Messages BY <2>1, <2>2
  <2>4. m.ids \in Seq(Nat) BY <2>3 DEF Messages
  <2> HIDE DEF m, b
  <2> QED BY <2>1, <2>2, <2>3, <2>4
<1>2. /\ m.role = "assistant" /\ d \in 0..(Len(m.ids) - 1)
      /\ IF d = 0
         THEN /\ n > 0 /\ request[n] = [role |-> "assistant", parts |-> CallParts(m)]
              /\ PairedBefore(n - 1)
         ELSE /\ n > 1 /\ request[n - 1] = [role |-> "assistant", parts |-> CallParts(m)]
              /\ request[n] = ResultsMessage(m, d)
              /\ PairedBefore(n - 2)
      BY DEF Awaits
<1>3. /\ n \in Nat /\ Len(m.ids) \in Nat /\ d \in Nat /\ d + 1 \in 1..Len(m.ids)
      /\ DOMAIN m.ids = 1..Len(m.ids) /\ a + (d + 1) = at + 1 /\ at - a = d
      BY <1>1, <1>2
<1>4. /\ \A k \in DOMAIN m.ids :
              /\ a + k \in DOMAIN messages /\ IsResult(messages[a + k]) /\ messages[a + k].id = m.ids[k]
              /\ \A j \in DOMAIN m.ids : m.ids[j] = m.ids[k] => j = k
      /\ \A i \in DOMAIN messages : IsResult(messages[i]) =>
            \E c \in 1..(i - 1) : messages[c].role = "assistant" /\ i - c \in DOMAIN messages[c].ids
  <2>1. a \in DOMAIN messages BY <1>1
  <2> QED BY <1>2, <2>1, ConversationsAssumption
<1>5. IsResult(b) /\ b.id = m.ids[d + 1]
  <2>1. d + 1 \in DOMAIN m.ids BY <1>3
  <2>2. IsResult(messages[a + (d + 1)]) /\ messages[a + (d + 1)].id = m.ids[d + 1] BY <1>4, <2>1
  <2> QED BY <1>3, <2>2
<1>6. o = WithResult(request, b)
  <2>1. b.role # "system" BY <1>5 DEF IsResult
  <2> QED BY <1>5, <2>1 DEF Converted, IsResult
<1>7. /\ o[top - 1] = [role |-> "assistant", parts |-> CallParts(m)] /\ o[top] = ResultsMessage(m, d + 1)
      /\ DOMAIN o = 1..top /\ Len(o) = top /\ top > 1 /\ top \in Nat
      /\ \A i \in 1..(top - 2) : o[i] = request[i]
  <2>1. CASE d = 0
    <3>1. request # <<>> /\ Last(request) = [role |-> "assistant", parts |-> CallParts(m)]
          BY <1>2, <1>3, <2>1 DEF Last
    <3>2. o = Append(request, [role |-> "user", parts |-> <<Part("tool_result", m.ids[d + 1])>>])
          BY <1>5, <1>6, <3>1 DEF WithResult
    <3>3. <<Part("tool_result", m.ids[d + 1])>> = [k \in 1..(d + 1) |-> Part("tool_result", m.ids[k])] BY <2>1
    <3>4. o = Append(request, ResultsMessage(m, d + 1)) BY <3>2, <3>3 DEF ResultsMessage
    <3> HIDE DEF m, b, d
    <3> QED BY <1>2, <1>3, <2>1, <3>4
  <2>2. CASE d # 0
    <3>1. request # <<>> /\ Last(request) = ResultsMessage(m, d) /\ Last(request).role = "user"
          BY <1>2, <1>3, <2>2 DEF Last, ResultsMessage
    <3>2. o = [request EXCEPT ![n].parts = Append(@, Part("tool_result", m.ids[d + 1]))]
          BY <1>5, <1>6, <3>1 DEF WithResult
    <3>3. request[n].parts = [k \in 1..d |-> Part("tool_result", m.ids[k])] /\ request[n].role = "user"
      <4>1. request[n] = ResultsMessage(m, d) BY <1>2, <2>2
      <4> HIDE DEF m, n, d
      <4> QED BY <4>1 DEF ResultsMessage
    <3>4. Append(request[n].parts, Part("tool_result", m.ids[d + 1]))
            = [k \in 1..(d + 1) |-> Part("tool_result", m.ids[k])]
          BY <1>3, <3>3
    <3>5. n \in 1..n /\ DOMAIN request = 1..n BY <1>2, <1>3, <2>2
    <3>6. o[n] = [request[n] EXCEPT !.parts = Append(request[n].parts, Part("tool_result", m.ids[d + 1]))]
          BY <3>2, <3>5
    <3>7. o[n] = ResultsMessage(m, d + 1)
      <4>1. request[n] = [role |-> "user", parts |-> request[n].parts] BY <1>2, <2>2 DEF ResultsMessage
      <4> DEFINE q == request[n]
                 more == Append(request[n].parts, Part("tool_result", m.ids[d + 1]))
      <4>2. o[n] = [role |-> "user", parts |-> more]
        <5>1. q = [role |-> "user", parts |-> q.parts] /\ o[n] = [q EXCEPT !.parts = more] BY <3>6, <4>1
        <5> HIDE DEF q, more, m, d, n, o
        <5> QED BY <5>1
      <4> QED BY <3>4, <4>2 DEF ResultsMessage
    <3>8. DOMAIN o = 1..n /\ Len(o) = n /\ \A i \in 1..(n - 1) : o[i] = request[i] BY <1>3, <3>2, <3>5
    <3>9. top = n /\ n > 1 /\ n \in Nat /\ n - 1 \in 1..(n - 1) BY <1>2, <1>3, <2>2
    <3>10. o[n - 1] = [role |-> "assistant", parts |-> CallParts(m)] BY <1>2, <2>2, <3>8, <3>9
    <3> HIDE DEF m, b, d, n, top, o
    <3> QED BY <3>7, <3>8, <3>9, <3>10
  <2> QED BY <2>1, <2>2
<1>8. ASSUME NEW i \in 1..(top - 2) PROVE PairedAt(o, i)
  <2>1. i \in Nat \ {0} /\ o[i] = request[i] /\ i + 1 <= top - 1 /\ i + 1 \in DOMAIN o /\ i <= n
    <3>1. top = n \/ top = n + 1 OBVIOUS
    <3> HIDE DEF top, o, n, d, m
    <3> QED BY <1>3, <1>7, <3>1
  <2>2. PairedAt(request, i)
    <3>1. IF d = 0 THEN PairedBefore(n - 1) /\ top = n + 1 ELSE PairedBefore(n - 2) /\ top = n BY <1>2
    <3>2. d # 0 => i \in 1..(n - 2) OBVIOUS
    <3>3. d = 0 => i \in 1..(n - 1) BY <1>3
    <3> HIDE DEF top, o, n, d, m
    <3> QED BY <3>1, <3>2, <3>3 DEF PairedBefore
  <2>3. i > 1 => o[i - 1] = request[i - 1] BY <1>7
  <2>4. o[i + 1] = request[i + 1]
    <3>1. CASE i + 1 \in 1..(top - 2) BY <1>7, <3>1
    <3>2. CASE i + 1 = top - 1 BY <1>2, <1>3, <1>7, <3>2
    <3> QED BY <1>7, <3>1, <3>2
  <2> QED BY <2>1, <2>2, <2>3, <2>4, PairedStays
<1>9. CASE d + 1 = Len(m.ids)
  <2>1. PairedAt(o, top - 1) /\ PairedAt(o, (top - 1) + 1)
    <3>1. top - 1 \in Nat \ {0} /\ (top - 1) + 1 = top /\ top \in DOMAIN o BY <1>7
    <3>2. \A k, j \in DOMAIN m.ids : m.ids[j] = m.ids[k] => j = k BY <1>4
    <3> HIDE DEF top, m, o, d
    <3> QED BY <1>1, <1>7, <1>9, <3>1, <3>2, ResultsPaired
  <2>2. \A i \in 1..top : PairedAt(o, i)
    <3>1. \A i \in 1..top : i \in 1..(top - 2) \/ i = top - 1 \/ i = top BY <1>7
    <3>2. (top - 1) + 1 = top BY <1>7
    <3> HIDE DEF top, o
    <3> QED BY <1>8, <2>1, <3>1, <3>2
  <2>3. ASSUME NEW c \in 1..(at + 1), messages[c].role = "assistant"
        PROVE  c + Len(messages[c].ids) <= at + 1
    <3>0. c \in DOMAIN messages /\ c \in Nat /\ messages[c].ids \in Seq(Nat) /\ a \in DOMAIN messages
      <4>1. c \in DOMAIN messages /\ c \in Nat /\ a \in DOMAIN messages BY <1>1
      <4>2. messages[c] \in Messages BY <1>1, <4>1
      <4> QED BY <4>1, <4>2 DEF Messages
    <3>1. CASE c = a BY <1>3, <1>9, <3>1
    <3>2. CASE c > a
      <4>1. c - a \in DOMAIN m.ids /\ a + (c - a) = c BY <1>1, <1>3, <1>9, <3>0, <3>2
      <4>2. IsResult(messages[c]) BY <1>4, <4>1
      <4> QED BY <2>3, <4>2 DEF IsResult
    <3>3. CASE c < a
      <4> DEFINE size == Len(messages[c].ids)
      <4>0. size \in Nat /\ a <= at /\ at \in Nat /\ a \in Nat /\ c \in Nat BY <1>1, <3>0
      <4>1. SUFFICES ASSUME ~(c + size <= at + 1) PROVE FALSE OBVIOUS
      <4>2. a - c \in 1..Len(messages[c].ids) /\ c + (a - c) = a
        <5>1. a - c \in 1..size /\ c + (a - c) = a
          <6> HIDE DEF size
          <6> QED BY <3>3, <4>0, <4>1
        <5> QED BY <5>1
      <4>3. a - c \in DOMAIN messages[c].ids
        <5>1. DOMAIN messages[c].ids = 1..Len(messages[c].ids) BY <3>0
        <5> QED BY <4>2, <5>1
      <4>4. IsResult(messages[c + (a - c)]) BY <2>3, <3>0, <4>3, ConversationsAssumption
      <4>5. IsResult(m) BY <4>2, <4>4
      <4> QED BY <1>2, <4>5 DEF IsResult
    <3> QED BY <1>1, <3>0, <3>1, <3>2, <3>3
  <2>4. Settled' BY <1>7, <2>2, <2>3 DEF Settled, PairedBefore
  <2> QED BY <2>4
<1>10. CASE d + 1 # Len(m.ids)
  <2>1. (at + 1) - a = d + 1 /\ d + 1 # 0 /\ d + 1 \in 0..(Len(m.ids) - 1)
    <3> DEFINE size == Len(m.ids)
    <3>1. at - a = d /\ d \in Nat /\ d + 1 \in 1..size /\ d + 1 # size /\ size \in Nat BY <1>3, <1>10
    <3>2. (at + 1) - a = (at - a) + 1 BY <1>1
    <3>3. d + 1 # 0 /\ d + 1 \in 0..(size - 1)
      <4> HIDE DEF d, size
      <4> QED BY <3>1
    <3> QED BY <3>1, <3>2, <3>3
  <2>2. \A i \in 1..(top - 2) : PairedAt(o, i) BY <1>8
  <2> QED BY <1>2, <1>7, <2>1, <2>2 DEF Awaits, PairedBefore
<1> QED BY <1>9, <1>10

LEMMA MessageStarts ==
  ASSUME request \in Seq(Requests), messages \in Conversations, at \in 0..(Len(messages) - 1),
         Settled, request' = Converted(request, messages[at + 1]), at' = at + 1, messages' = messages,
         NEW a, a = at + 1
  PROVE  Settled' \/ Awaits(a)'
<1> DEFINE b == messages[at + 1]
           n == Len(request)
<1>1. /\ messages \in Seq(Messages) /\ b \in Messages /\ at \in Nat
      /\ Len(messages) \in Nat /\ DOMAIN messages = 1..Len(messages) /\ at + 1 \in DOMAIN messages
  <2>1. messages \in Seq(Messages) BY ConversationsAssumption
  <2>2. at + 1 \in 1..Len(messages) BY <2>1
  <2> QED BY <2>1, <2>2
<1>2. /\ b.ids \in Seq(Nat) /\ Len(b.ids) \in Nat /\ b.role \in {"system", "user", "assistant", "tool"}
  <2>1. b.ids \in Seq(Nat) /\ b.role \in {"system", "user", "assistant", "tool"} BY <1>1 DEF Messages
  <2> HIDE DEF b
  <2> QED BY <2>1
<1>3. \A c \in 1..at : messages[c].role = "assistant" => c + Len(messages[c].ids) <= at BY DEF Settled
<1>4. ~IsResult(b)
  <2> SUFFICES ASSUME IsResult(b) PROVE FALSE OBVIOUS
  <2>1. PICK c \in 1..((at + 1) - 1) : messages[c].role = "assistant" /\ (at + 1) - c \in DOMAIN messages[c].ids
        BY <1>1, ConversationsAssumption
  <2>2. c \in 1..at /\ c \in Nat /\ messages[c] \in Messages BY <1>1, <2>1
  <2>3. messages[c].ids \in Seq(Nat) BY <2>2 DEF Messages
  <2>4. (at + 1) - c <= Len(messages[c].ids) /\ Len(messages[c].ids) \in Nat BY <2>1, <2>3
  <2> QED BY <1>1, <1>3, <2>1, <2>2, <2>4
<1>5. ASSUME NEW c \in 1..(at + 1), messages[c].role = "assistant", b.role = "assistant" => b.ids = <<>>
      PROVE  c + Len(messages[c].ids) <= at + 1
  <2>1. CASE c = at + 1
    <3>1. Len(messages[c].ids) = 0 BY <1>5, <2>1
    <3> QED BY <1>1, <2>1, <3>1
  <2>2. CASE c \in 1..at
    <3>1. c + Len(messages[c].ids) <= at /\ messages[c] \in Messages /\ c \in Nat BY <1>1, <1>3, <1>5, <2>2
    <3>2. messages[c].ids \in Seq(Nat) BY <3>1 DEF Messages
    <3>3. Len(messages[c].ids) \in Nat BY <3>2
    <3> QED BY <1>1, <3>1, <3>3
  <2> QED BY <1>1, <2>1, <2>2
<1>6. PairedBefore(n) /\ n \in Nat BY DEF Settled
<1>7. ASSUME NEW role, NEW parts, request' = Append(request, [role |-> role, parts |-> parts])
      PROVE  /\ Len(request') = n + 1 /\ request'[n + 1] = [role |-> role, parts |-> parts]
             /\ \A i \in 1..n : PairedAt(request', i)
  <2>1. /\ Len(request') = n + 1 /\ request'[n + 1] = [role |-> role, parts |-> parts]
        /\ DOMAIN request' = 1..(n + 1) /\ DOMAIN request = 1..n
        /\ \A i \in 1..n : request'[i] = request[i]
        BY <1>6, <1>7
  <2> HIDE DEF n
  <2>2. ASSUME NEW i \in 1..n PROVE PairedAt(request', i)
    <3>1. i \in Nat \ {0} /\ PairedAt(request, i) BY <1>6 DEF PairedBefore
    <3>2. request'[i] = request[i] /\ (i > 1 => request'[i - 1] = request[i - 1])
      <4>1. i > 1 => i - 1 \in 1..n BY <1>6
      <4> QED BY <2>1, <4>1
    <3>3. i + 1 \in DOMAIN request => i + 1 \in DOMAIN request' /\ request'[i + 1] = request[i + 1] BY <1>6, <2>1
    <3> QED BY <3>1, <3>2, <3>3, PairedStays
  <2> QED BY <2>1, <2>2
<1>8. ASSUME NEW role, NEW parts, request' = WithParts(request, role, parts),
             \A j \in DOMAIN parts : parts[j].type = "text", b.role = "assistant" => b.ids = <<>>
      PROVE  Settled'
  <2>1. PairedBefore(Len(request))'
    <3>1. CASE parts = <<>> BY <1>6, <1>8, <3>1 DEF WithParts, PairedBefore
    <3>2. CASE parts # <<>>
      <4>1. request' = Append(request, [role |-> role, parts |-> parts]) BY <1>8, <3>2 DEF WithParts
      <4>2. /\ Len(request') = n + 1 /\ request'[n + 1] = [role |-> role, parts |-> parts]
            /\ \A i \in 1..n : PairedAt(request', i)
            BY <1>7, <4>1
      <4>3. request'[n + 1].parts = parts BY <4>2
      <4>4. PairedAt(request', n + 1) BY <1>8, <4>3, TextPaired
      <4>5. \A i \in 1..(n + 1) : i \in 1..n \/ i = n + 1 BY <1>6
      <4> QED BY <4>2, <4>4, <4>5 DEF PairedBefore
    <3> QED BY <3>1, <3>2
  <2> QED BY <1>5, <1>8, <2>1 DEF Settled
<1>9. CASE b.role = "system"
  <2>1. request' = request BY <1>9 DEF Converted
  <2> QED BY <1>5, <1>6, <1>9, <2>1 DEF Settled, PairedBefore
<1>10. CASE b.role = "user"
  <2>1. request' = WithParts(request, "user", TextParts(b)) BY <1>4, <1>10 DEF Converted, IsResult
  <2> QED BY <1>1, <1>8, <1>10, <2>1, CallBlocks
<1>11. CASE b.role = "assistant" /\ b.ids = <<>>
  <2>1. request' = WithParts(request, "assistant", CallParts(b)) BY <1>11 DEF Converted, CallParts
  <2>2. \A j \in DOMAIN CallParts(b) : CallParts(b)[j].type = "text" BY <1>1, <1>11, CallBlocks
  <2> QED BY <1>8, <1>11, <2>1, <2>2
<1>12. CASE b.role = "assistant" /\ b.ids # <<>>
  <2>1. CallParts(b) # <<>> BY <1>1, <1>12, CallBlocks
  <2>2. request' = Append(request, [role |-> "assistant", parts |-> CallParts(b)])
        BY <1>12, <2>1 DEF Converted, CallParts, WithParts
  <2>3. /\ Len(request') = n + 1 /\ request'[n + 1] = [role |-> "assistant", parts |-> CallParts(b)]
        /\ \A i \in 1..n : PairedAt(request', i)
        BY <1>7, <2>2
  <2>4. Len(b.ids) > 0 BY <1>2, <1>12
  <2>5. n + 1 > 0 /\ (n + 1) - 1 = n /\ at' - a = 0 /\ 0 \in 0..(Len(b.ids) - 1) BY <1>1, <1>2, <1>6, <2>4
  <2>6. messages'[a] = b OBVIOUS
  <2> QED BY <1>12, <2>3, <2>5, <2>6 DEF Awaits, PairedBefore
<1>13. b.role # "tool" BY <1>4 DEF IsResult
<1> QED BY <1>2, <1>9, <1>10, <1>11, <1>12, <1>13

LEMMA ConvertKept == StreamInv /\ ConvertInv /\ [StreamNext]_streamVars => ConvertInv'
<1> SUFFICES ASSUME StreamInv, ConvertInv, [StreamNext]_streamVars PROVE ConvertInv' OBVIOUS
<1>0. StreamTypes /\ CallsInv /\ TextInv BY DEF StreamInv
<1>1. request \in Seq(Requests) /\ at \in Nat BY <1>0 DEF StreamTypes
<1>2. ASSUME phase' \notin {"prepare", "sent"} PROVE ConvertInv' BY <1>2 DEF ConvertInv
<1>3. CASE ToAnthropicMessages
  <2>1. /\ phase = "prepare" /\ provider = "anthropic" /\ at < Len(messages) /\ at' = at + 1
        /\ request' = Converted(request, messages[at + 1])
        /\ UNCHANGED <<provider, phase, messages>>
        BY <1>3 DEF ToAnthropicMessages
  <2>2. messages \in Conversations /\ at \in 0..Len(messages) BY <2>1 DEF ConvertInv
  <2>3. at \in 0..(Len(messages) - 1) /\ at' \in 0..Len(messages')
    <3>1. messages \in Seq(Messages) BY <2>2, ConversationsAssumption
    <3>2. Len(messages) \in Nat BY <3>1
    <3> QED BY <1>1, <2>1, <3>2
  <2>4. Settled' \/ \E a \in 1..at' : Awaits(a)'
    <3>1. CASE Settled
      <4>1. PICK a : a = at + 1 OBVIOUS
      <4>2. Settled' \/ Awaits(a)' BY <1>1, <2>1, <2>2, <2>3, <3>1, <4>1, MessageStarts
      <4>3. a \in 1..at' BY <1>1, <2>1, <4>1
      <4> QED BY <4>2, <4>3
    <3>2. ASSUME NEW a \in 1..at, Awaits(a) PROVE Settled' \/ \E c \in 1..at' : Awaits(c)'
      <4>1. Settled' \/ Awaits(a)' BY <1>1, <2>1, <2>2, <2>3, <3>2, ResultJoins
      <4>2. a \in 1..at' BY <1>1, <2>1
      <4> QED BY <4>1, <4>2
    <3> QED BY <2>1, <3>1, <3>2 DEF ConvertInv
  <2>5. phase' = "prepare" /\ provider' = "anthropic" /\ messages' \in Conversations BY <2>1, <2>2
  <2> QED BY <2>3, <2>4, <2>5 DEF ConvertInv
<1>4. CASE Prepare
  <2>1. /\ phase = "prepare" /\ phase' = "sent" /\ UNCHANGED request
        /\ provider = "anthropic" => at = Len(messages)
        BY <1>4 DEF Prepare, AllConverted
  <2>2. PairedBefore(Len(request))
    <3>1. CASE provider = "openai"
      <4>1. request = <<>> BY <2>1, <3>1 DEF ConvertInv
      <4>2. Len(request) = 0 BY <4>1
      <4> QED BY <4>2 DEF PairedBefore
    <3>2. CASE provider = "anthropic"
      <4>1. ASSUME NEW a \in 1..at, Awaits(a) PROVE FALSE
        <5>1. messages \in Conversations /\ at = Len(messages) BY <2>1, <3>2 DEF ConvertInv
        <5>2. messages \in Seq(Messages) BY <5>1, ConversationsAssumption
        <5>3. a \in DOMAIN messages /\ messages[a] \in Messages /\ a \in Nat BY <1>1, <5>1, <5>2
        <5>4. messages[a].ids \in Seq(Nat) BY <5>3 DEF Messages
        <5>5. messages[a].role = "assistant" /\ at - a \in 0..(Len(messages[a].ids) - 1) BY <4>1 DEF Awaits
        <5>6. (at - a) + 1 \in DOMAIN messages[a].ids
          <6>1. Len(messages[a].ids) \in Nat /\ DOMAIN messages[a].ids = 1..Len(messages[a].ids) BY <5>4
          <6> QED BY <1>1, <5>3, <5>5, <6>1
        <5>7. a + ((at - a) + 1) \in DOMAIN messages BY <5>1, <5>3, <5>5, <5>6, ConversationsAssumption
        <5>8. a + ((at - a) + 1) = at + 1 BY <1>1, <5>3
        <5> QED BY <1>1, <5>1, <5>2, <5>7, <5>8
      <4>2. Settled BY <2>1, <3>2, <4>1 DEF ConvertInv
      <4> QED BY <4>2 DEF Settled
    <3> QED BY <1>0, <3>1, <3>2 DEF StreamTypes, Providers
  <2>3. PairedBefore(Len(request))' BY <2>1, <2>2 DEF PairedBefore
  <2>4. phase' # "prepare" BY <2>1
  <2> QED BY <2>3, <2>4 DEF ConvertInv
<1>5. CASE SendFails BY <1>2, <1>5 DEF SendFails
<1>6. CASE Respond BY <1>2, <1>6 DEF Respond
<1>7. ASSUME NEW l \in NextLines, StreamLine(l) PROVE ConvertInv'
  <2>1. LineStep(l) BY <1>0, <1>7, LineSteps
  <2> QED BY <1>2, <2>1 DEF LineStep, HandsOver
<1>8. ASSUME NEW p \in Parts, ChatPart(p) PROVE ConvertInv' BY <1>2, <1>8 DEF ChatPart
<1>9. CASE Chat \/ ChatUnreadable BY <1>2, <1>9 DEF Chat, ChatUnreadable
<1>10. CASE UNCHANGED streamVars
  <2>1. UNCHANGED <<provider, phase, messages, at, request>> BY <1>10 DEF streamVars, asked
  <2> QED BY <2>1 DEF ConvertInv, Settled, Awaits, PairedBefore
<1> QED BY <1>3, <1>4, <1>5, <1>6, <1>7, <1>8, <1>9, <1>10 DEF StreamNext

(* Every call in a request for Anthropic is answered by exactly one result *)
(* with its id in the next message, a user message, and every result has   *)
(* its call: for all conversations that AgentLoop may ask with.            *)
THEOREM RequestsArePaired == StreamSpec => []RequestPaired
<1>1. StreamInit => ConvertInv
  <2> SUFFICES ASSUME StreamInit PROVE ConvertInv OBVIOUS
  <2>1. messages \in Conversations /\ at = 0 /\ request = <<>> /\ phase = "prepare" BY Zenon DEF StreamInit
  <2>2. messages \in Seq(Messages) BY <2>1, ConversationsAssumption
  <2>3. at \in 0..Len(messages) /\ Len(request) = 0 BY <2>1, <2>2
  <2>4. Settled BY <2>1, <2>3 DEF Settled, PairedBefore
  <2> QED BY <2>1, <2>3, <2>4 DEF ConvertInv
<1>2. ConvertInv /\ StreamInv => RequestPaired
  <2> SUFFICES ASSUME PairedBefore(Len(request)), request \in Seq(Requests)
               PROVE  \A i \in DOMAIN request : \A j \in DOMAIN request[i].parts :
                        LET p == request[i].parts[j] IN
                        /\ p.type = "tool_use" =>
                              /\ i + 1 \in DOMAIN request /\ request[i + 1].role = "user"
                              /\ \E k \in Answering(i + 1, p.id) : Answering(i + 1, p.id) = {k}
                        /\ p.type = "tool_result" =>
                              i > 1 /\ Part("tool_use", p.id) \in ToSet(request[i - 1].parts)
      BY DEF ConvertInv, StreamInv, StreamTypes, RequestPaired
  <2>1. \A i, id : Answering(i, id) = ResultsFor(request, i, id) BY DEF Answering, ResultsFor
  <2>2. \A i \in DOMAIN request : PairedAt(request, i) BY DEF PairedBefore
  <2> QED BY <2>1, <2>2 DEF PairedAt
<1> QED BY InitStream, StreamKept, ConvertKept, <1>1, <1>2, PTL DEF StreamSpec

-----------------------------------------------------------------------------
(* The range over the events.  While the consumer is there and nothing has *)
(* ended it is open.                                                       *)
LEMMA OpenRange ==
  ASSUME phase \in {"prepare", "sent", "reading"}, wants,
         events \in Seq(Events), \A i \in DOMAIN events : ~events[i].done /\ ~events[i].error
  PROVE  StreamState = "open"
<1>1. events # <<>> => Len(events) \in DOMAIN events /\ Last(events) = events[Len(events)] BY DEF Last
<1>2. ~Ended /\ (events # <<>> => ~Last(events).error) BY <1>1 DEF Ended
<1> QED BY <1>2 DEF StreamState

LEMMA OpenRangeNext ==
  ASSUME phase' \in {"prepare", "sent", "reading"}, wants',
         events' \in Seq(Events), \A i \in DOMAIN events' : ~events'[i].done /\ ~events'[i].error
  PROVE  StreamState' = "open"
<1>1. events' # <<>> => Len(events') \in DOMAIN events' /\ Last(events') = events'[Len(events')] BY DEF Last
<1>2. ~Ended' /\ (events' # <<>> => ~Last(events').error) BY <1>1 DEF Ended
<1> QED BY <1>2 DEF StreamState

(* An event handed to a consumer that is there moves the range on: it goes *)
(* on, or the call returns with an end or because the consumer has left.   *)
LEMMA HandedOver ==
  ASSUME StreamInv, RangeInv, StreamInv', phase \in {"prepare", "sent", "reading"},
         NEW e \in Events, events' = Append(events, e), wants' \in BOOLEAN,
         phase' \in {"reading", "returned"},
         phase' = "reading" => wants',
         phase' = "returned" => e.done \/ e.error \/ ~wants'
  PROVE  RangeInv' /\ Promise!Next
<1>1. /\ events \in Seq(Events) /\ events' \in Seq(Events)
      /\ \A i \in DOMAIN events : ~events[i].done /\ ~events[i].error
      /\ phase' = "reading" => \A i \in DOMAIN events' : ~events'[i].done /\ ~events'[i].error
      BY DEF StreamInv, StreamTypes, TextInv
<1>2. wants BY DEF RangeInv
<1>3. RangeInv' BY DEF RangeInv
<1>4. StreamState = "open" BY <1>1, <1>2, OpenRange
<1>5. Len(events') = Len(events) + 1 /\ events' # <<>> /\ Last(events') = e BY <1>1 DEF Last
<1>6. StreamState' \in {"open", "done", "failed", "left"}
  <2>1. CASE phase' = "reading" BY <1>1, <2>1, OpenRangeNext
  <2>2. CASE phase' = "returned"
    <3>1. Ended' <=> e.done BY <1>5 DEF Ended
    <3> QED BY <1>5, <2>2, <3>1 DEF StreamState
  <2> QED BY <2>1, <2>2
<1> QED BY <1>3, <1>4, <1>5, <1>6 DEF Promise!Next, Promise!Hand

(* A step that hands over nothing leaves the range where it is.            *)
LEMMA NothingHandedOver ==
  ASSUME StreamInv, RangeInv, phase \in {"prepare", "sent", "reading"},
         phase' \in {"prepare", "sent", "reading"}, UNCHANGED <<events, wants>>
  PROVE  RangeInv' /\ UNCHANGED <<StreamState, Len(events)>>
<1>1. events \in Seq(Events) /\ \A i \in DOMAIN events : ~events[i].done /\ ~events[i].error
      BY DEF StreamInv, StreamTypes, TextInv
<1>2. wants BY DEF RangeInv
<1>3. RangeInv' BY <1>2 DEF RangeInv
<1>4. StreamState = "open" BY <1>1, <1>2, OpenRange
<1>5. StreamState' = "open" BY <1>1, <1>2, OpenRangeNext
<1> QED BY <1>3, <1>4, <1>5

LEMMA RangeStep ==
  ASSUME ~StopsAtStart, StreamInv, RangeInv, StreamInv', [StreamNext]_streamVars
  PROVE  RangeInv' /\ [Promise!Next]_<<StreamState, Len(events)>>
<1>0. StreamTypes /\ CallsInv /\ TextInv BY DEF StreamInv
<1>1. 0 \in Nat /\ wants' \in BOOLEAN BY DEF StreamInv, StreamTypes
<1>2. ASSUME phase \in {"prepare", "sent", "reading"}, phase' \in {"prepare", "sent", "reading"},
             UNCHANGED <<events, wants>>
      PROVE  RangeInv' /\ [Promise!Next]_<<StreamState, Len(events)>>
      BY <1>2, NothingHandedOver
<1>3. ASSUME phase \in {"prepare", "sent", "reading"}, phase' = "returned",
             NEW e \in {Failure, ChatEvent}, Yield(e, FALSE)
      PROVE  RangeInv' /\ [Promise!Next]_<<StreamState, Len(events)>>
  <2>1. Failure \in Events /\ Failure.error BY EventTypes DEF Failure, Event
  <2>2. ChatEvent \in Events /\ ChatEvent.done
    <3>1. Sent("text") \in Nat BY <1>0, PlacesFinite DEF StreamTypes
    <3>2. calls \in Seq(Nat) BY <1>0 DEF StreamTypes
    <3> QED BY <3>1, <3>2, EventTypes DEF ChatEvent, Event, Events
  <2>3. wants BY <1>3 DEF RangeInv
  <2>4. events' = Append(events, e) BY <1>3, <2>3 DEF Yield
  <2> QED BY <1>1, <1>3, <2>1, <2>2, <2>4, HandedOver
<1>4. CASE ToAnthropicMessages BY <1>2, <1>4 DEF ToAnthropicMessages
<1>5. CASE Prepare BY <1>2, <1>5 DEF Prepare, AllConverted
<1>6. CASE SendFails BY <1>3, <1>6 DEF SendFails, AllConverted
<1>7. CASE Respond BY <1>2, <1>7 DEF Respond
<1>8. ASSUME NEW l \in NextLines, StreamLine(l)
      PROVE  RangeInv' /\ [Promise!Next]_<<StreamState, Len(events)>>
  <2>1. LineStep(l) BY <1>0, <1>8, LineSteps
  <2>2. phase = "reading" BY <2>1 DEF LineStep
  <2>3. wants BY <2>2 DEF RangeInv
  <2>4. CASE UNCHANGED <<phase, events, wants>> BY <1>2, <2>2, <2>4
  <2>5. ASSUME NEW e \in Events, HandsOver(l, e)
        PROVE  RangeInv' /\ [Promise!Next]_<<StreamState, Len(events)>>
    <3>1. /\ events' = Append(events, e) /\ phase' \in {"reading", "returned"}
          /\ phase' = "reading" => wants'
          /\ phase' = "returned" => e.done \/ e.error \/ ~wants'
          BY <2>3, <2>5 DEF HandsOver
    <3> QED BY <1>1, <2>2, <3>1, HandedOver
  <2> QED BY <2>1, <2>4, <2>5 DEF LineStep
<1>9. ASSUME NEW p \in Parts, ChatPart(p)
      PROVE  RangeInv' /\ [Promise!Next]_<<StreamState, Len(events)>>
      BY <1>2, <1>9 DEF ChatPart
<1>10. CASE Chat
  <2>1. PICK e \in {Failure, ChatEvent} : Yield(e, FALSE) BY <1>10 DEF Chat
  <2> QED BY <1>3, <1>10, <2>1 DEF Chat
<1>11. CASE ChatUnreadable BY <1>3, <1>11 DEF ChatUnreadable
<1>12. CASE UNCHANGED streamVars
  <2>1. UNCHANGED <<phase, events, wants>> BY <1>12 DEF streamVars
  <2>2. RangeInv' BY <2>1 DEF RangeInv
  <2>3. UNCHANGED <<StreamState, Len(events)>> BY <2>1 DEF StreamState, Ended
  <2> QED BY <2>2, <2>3
<1> QED BY <1>4, <1>5, <1>6, <1>7, <1>8, <1>9, <1>10, <1>11, <1>12 DEF StreamNext

(* The range over the events keeps the promise of EventStream: events,     *)
(* then one end, and nothing for a consumer that has left; if no consumer  *)
(* leaves at a message_start event, the one yield that is not checked.     *)
THEOREM StreamsAsPromised == ASSUME ~StopsAtStart PROVE StreamSpec => ImplementsEventStream
<1>1. StreamInit => RangeInv /\ Promise!Init
  <2> SUFFICES ASSUME StreamInit PROVE RangeInv /\ Promise!Init OBVIOUS
  <2>1. phase = "prepare" /\ wants = TRUE /\ events = <<>> BY Zenon DEF StreamInit
  <2>2. events \in Seq(Events) /\ DOMAIN events = {} /\ Len(events) = 0 BY <2>1
  <2>3. StreamState = "open" BY <2>1, <2>2, OpenRange
  <2> QED BY <2>1, <2>2, <2>3 DEF RangeInv, Promise!Init
<1>2. StreamInv /\ StreamInv' /\ RangeInv /\ [StreamNext]_streamVars
        => RangeInv' /\ [Promise!Next]_<<StreamState, Len(events)>>
      BY RangeStep
<1> QED BY StreamInvariant, <1>1, <1>2, PTL DEF StreamSpec, ImplementsEventStream, Promise!Spec
=============================================================================
