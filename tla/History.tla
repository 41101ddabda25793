------------------------------ MODULE History ------------------------------
(***************************************************************************)
(* The history of conversations: a Redis list per conversation that the    *)
(* model is asked with, a Redis mapping from a channel's session key to    *)
(* its conversation, and the raw message rows in PostgreSQL.               *)
(*                                                                         *)
(* Every Redis command and every row is a step of its own, turns run       *)
(* concurrently, and a command may fail.  A text is a model value, the     *)
(* empty text is NoText, a size is the number of texts.                    *)
(***************************************************************************)
EXTENDS Naturals, Sequences, FiniteSets, SequencesExt

CONSTANTS
    Turns,       \* the requests and messages that arrive
    Prompts,     \* what is asked
    NoText,      \* the empty text: a bare "/skill name", an event of usage
    WebConv,     \* the conversation the web turns name
    MaxHistory,  \* historyMaxLength
    MaxTokens,   \* historyLimitToken, in texts
    MaxOverlap,  \* bound: turns at work at a time
    MaxFaults,   \* bound: commands that fail
    MaxResets,   \* bound: reset commands
    MaxExpiries  \* bound: lists and mappings Redis drops

(* A conversation made for a first message is named by the turn that made  *)
(* it, its id being fresh.                                                 *)
Convs  == Turns \cup {WebConv}
NoConv == "none"

ASSUME HistoryAssumption ==
    /\ NoText \notin Prompts
    /\ WebConv \notin Turns /\ NoConv \notin Turns \cup {WebConv}
    /\ MaxHistory \in Nat \ {0} /\ MaxTokens \in Nat
    /\ MaxOverlap \in Nat \ {0} /\ MaxFaults \in Nat
    /\ MaxResets \in Nat /\ MaxExpiries \in Nat

VARIABLES
    pc,        \* where a turn is
    prompt,    \* what it asks
    web,       \* the turns that came as web requests
    conv,      \* its conversation
    todo,      \* the items it still has to persist
    last,      \* the question of the last item of the list, when it was read
    count,     \* the length RPUSH answered
    mapping,   \* platform:csid:<session key>
    hist,      \* convs-<id>: the list of each conversation
    context,   \* history: the exchanges the model was asked with, a set
    rows,      \* message rows
    faults, resets, expiries,
    failed,    \* history: turns one of whose commands failed
    forgotten  \* history: per turn, what was answered before the last reset it follows

turn == <<pc, prompt, web, conv, todo, last, count, context, failed>>
vars == <<turn, mapping, hist, rows, faults, resets, expiries, forgotten>>

NoItem == "no item"
Item(t, u, a) == [turn |-> t, user |-> u, answered |-> a]

Init ==
    /\ pc = [t \in Turns |-> "new"]
    /\ prompt = [t \in Turns |-> NoText]
    /\ web = {}
    /\ conv = [t \in Turns |-> NoConv]
    /\ todo = [t \in Turns |-> <<>>]
    /\ last = [t \in Turns |-> NoItem]
    /\ count = [t \in Turns |-> 0]
    /\ context = [t \in Turns |-> {}]
    /\ failed = {}
    /\ mapping = NoConv
    /\ hist = [c \in Convs |-> <<>>]
    /\ rows = {}
    /\ faults = 0 /\ resets = 0 /\ expiries = 0
    /\ forgotten = [t \in Turns |-> {}]

Goto(t, from, to) == pc[t] = from /\ pc' = [pc EXCEPT ![t] = to]

(* A command that fails; what the caller does next is the action's.        *)
Fault(t) ==
    /\ faults < MaxFaults
    /\ faults' = faults + 1
    /\ failed' = failed \cup {t}

Answers == {r.turn : r \in {q \in rows : q.role = "assistant"}}

-----------------------------------------------------------------------------
(* Which conversation a message belongs to.                                *)

MayArrive == Cardinality({t \in Turns : pc[t] \notin {"new", "done"}}) < MaxOverlap

(* prepareChatRequest: a web request names its conversation.               *)
ArriveWeb(t) ==
    /\ MayArrive /\ Goto(t, "new", "bound")
    /\ web' = web \cup {t}
    /\ \E p \in Prompts : prompt' = [prompt EXCEPT ![t] = p]
    /\ conv' = [conv EXCEPT ![t] = WebConv]
    /\ UNCHANGED <<todo, last, count, context, failed, mapping, hist, rows, faults,
                   resets, expiries, forgotten>>

(* MessageHandler: a message of the chat; "/skill name" leaves the rest of *)
(* the text as the prompt, which may be nothing.  The mapping is read ...  *)
ArriveChannel(t) ==
    /\ MayArrive /\ Goto(t, "new", "mapping")
    /\ \E p \in Prompts \cup {NoText} : prompt' = [prompt EXCEPT ![t] = p]
    /\ conv' = [conv EXCEPT ![t] = mapping]
    /\ UNCHANGED <<web, todo, last, count, context, failed, mapping, hist, rows, faults,
                   resets, expiries, forgotten>>

(* Mutant: the mapping is written anew where only its lifetime is renewed. *)
BindRewrites(t) ==
    /\ Goto(t, "mapping", "bound")
    /\ conv' = [conv EXCEPT ![t] = IF @ = NoConv THEN t ELSE @]
    /\ mapping' = conv'[t]
    /\ UNCHANGED <<prompt, web, todo, last, count, context, failed, hist, rows, faults,
                   resets, expiries, forgotten>>

(* ... and written when it was empty, or its lifetime renewed.  Neither    *)
(* command's error is looked at.                                           *)
Bind(t) ==
    /\ Goto(t, "mapping", "bound")
    /\ conv' = [conv EXCEPT ![t] = IF @ = NoConv THEN t ELSE @]
    /\ \/ /\ mapping' = IF conv[t] = NoConv THEN t ELSE mapping
          /\ UNCHANGED <<faults, failed>>
       \/ conv[t] = NoConv /\ Fault(t) /\ UNCHANGED mapping
    /\ UNCHANGED <<prompt, web, todo, last, count, context, hist, rows, resets, expiries, forgotten>>

(* handleResetCommand: the mapping goes, the conversation stays.           *)
Reset ==
    /\ resets < MaxResets
    /\ resets' = resets + 1
    /\ mapping' = NoConv
    /\ forgotten' = [t \in Turns |->
          IF pc[t] = "new" THEN Answers \ web ELSE forgotten[t]]
    /\ UNCHANGED <<turn, hist, rows, faults, expiries>>

-----------------------------------------------------------------------------
(* Asking the model.                                                       *)

Empty(item) == item.user = NoText /\ ~item.answered

SizeOf(items) ==
    Cardinality({n \in DOMAIN items : items[n].user # NoText})
      + Cardinality({n \in DOMAIN items : items[n].answered})

(* The places of the latest items that fit.                                *)
RecentlyWithTokens(items, size) ==
    {n \in DOMAIN items : SizeOf(SubSeq(items, n, Len(items))) <= size}

(* Channels: the whole list.  Web: what fits, without the last item when   *)
(* it has this very question or the request asks to regenerate it.         *)
AskedWith(t, items, regenerate) ==
    LET recent == RecentlyWithTokens(items, MaxTokens) IN
    IF t \notin web THEN DOMAIN items
    ELSE IF recent # {} /\ (regenerate \/ Last(items).user = prompt[t])
         THEN recent \ {Len(items)} ELSE recent

(* What cannot be read counts as empty; empty texts are no messages.       *)
Ask(t) ==
    /\ Goto(t, "bound", "asked")
    /\ \E regenerate, read \in BOOLEAN :
        /\ regenerate => t \in web
        /\ read \/ faults < MaxFaults
        /\ faults' = IF read THEN faults ELSE faults + 1
        /\ LET items == IF read THEN hist[conv[t]] ELSE <<>>
           IN  context' = [context EXCEPT ![t] =
                   {i \in {items[n] : n \in AskedWith(t, items, regenerate)} : ~Empty(i)}]
    /\ UNCHANGED <<prompt, web, conv, todo, last, count, failed, mapping, hist, rows, resets,
                   expiries, forgotten>>

(* The model is done.  An event of its usage, which a web stream hands on,  *)
(* is persisted first, as an item without question and answer, then the    *)
(* answer if there is one.                                                 *)
Answered(t) ==
    /\ Goto(t, "asked", "persist")
    /\ \E answered, counted \in BOOLEAN :
        /\ counted => t \in web
        /\ todo' = [todo EXCEPT ![t] =
            (IF counted THEN <<Item(t, NoText, FALSE)>> ELSE <<>>)
              \o (IF answered THEN <<Item(t, prompt[t], TRUE)>> ELSE <<>>)]
    /\ UNCHANGED <<prompt, web, conv, last, count, context, failed, mapping, hist, rows, faults,
                   resets, expiries, forgotten>>

-----------------------------------------------------------------------------
(* Runner.Persist of the first item of todo: AddHistory, Save, the message *)
(* rows.  An error ends it; the next item is tried all the same.           *)
Stays == UNCHANGED <<prompt, web, conv, context, mapping, resets, expiries, forgotten>>

GiveUp(t, from) ==
    /\ Goto(t, from, "persist")
    /\ todo' = [todo EXCEPT ![t] = Tail(@)]
    /\ last' = [last EXCEPT ![t] = NoItem]
    /\ count' = [count EXCEPT ![t] = 0]
    /\ Fault(t) /\ Stays

Finish(t) ==
    /\ Goto(t, "persist", "done")
    /\ todo[t] = <<>>
    /\ UNCHANGED <<todo, last, count, failed, faults, hist, rows>> /\ Stays

(* LINDEX -1.                                                              *)
ReadLast(t) ==
    /\ Goto(t, "persist", "push")
    /\ todo[t] # <<>>
    /\ \/ /\ last' = [last EXCEPT ![t] =
                        IF hist[conv[t]] = <<>> THEN NoItem ELSE Last(hist[conv[t]]).user]
          /\ UNCHANGED <<faults, failed>>
       \/ last' = [last EXCEPT ![t] = NoItem] /\ Fault(t)
    /\ UNCHANGED <<todo, count, hist, rows>> /\ Stays

(* Mutant: the last item is taken off whatever its question.               *)
ReplacesAny(t) == last[t] # NoItem

(* The last item has the question of the new one.                          *)
Replaces(t) == last[t] # NoItem /\ last[t] = Head(todo[t]).user

(* RPOP, whose error is only logged.                                       *)
Pop(t) ==
    /\ pc[t] = "push" /\ Replaces(t)
    /\ last' = [last EXCEPT ![t] = NoItem]
    /\ \/ /\ hist' = [hist EXCEPT ![conv[t]] = IF @ = <<>> THEN @ ELSE Front(@)]
          /\ UNCHANGED <<faults, failed>>
       \/ UNCHANGED hist /\ Fault(t)
    /\ UNCHANGED <<pc, todo, count, rows>> /\ Stays

(* RPUSH.                                                                  *)
Push(t) ==
    /\ pc[t] = "push" /\ ~Replaces(t)
    /\ \/ /\ Goto(t, "push", "expire")
          /\ hist' = [hist EXCEPT ![conv[t]] = Append(@, Head(todo[t]))]
          /\ count' = [count EXCEPT ![t] = Len(hist'[conv[t]])]
          /\ last' = [last EXCEPT ![t] = NoItem]
          /\ UNCHANGED <<todo, faults, failed, rows>> /\ Stays
       \/ GiveUp(t, "push") /\ UNCHANGED <<hist, rows>>

(* EXPIRE: an error leaves the list as long as it is.                      *)
Expire(t) ==
    \/ /\ Goto(t, "expire", "trim")
       /\ UNCHANGED <<todo, last, count, faults, failed, hist, rows>> /\ Stays
    \/ GiveUp(t, "expire") /\ UNCHANGED <<hist, rows>>

TooLong(n) == n > MaxHistory

(* LPOP.                                                                   *)
Trim(t) ==
    \/ /\ Goto(t, "trim", "save")
       /\ hist' = IF TooLong(count[t]) /\ hist[conv[t]] # <<>>
                  THEN [hist EXCEPT ![conv[t]] = Tail(@)] ELSE hist
       /\ count' = [count EXCEPT ![t] = 0]
       /\ UNCHANGED <<todo, last, faults, failed, rows>> /\ Stays
    \/ TooLong(count[t]) /\ GiveUp(t, "trim") /\ UNCHANGED <<hist, rows>>

(* The session row.                                                        *)
Save(t) ==
    \/ /\ Goto(t, "save", "question")
       /\ UNCHANGED <<todo, last, count, faults, failed, hist, rows>> /\ Stays
    \/ GiveUp(t, "save") /\ UNCHANGED <<hist, rows>>

Row(t, role) == [turn |-> t, role |-> role, conv |-> conv[t]]

(* Mutant: a failing row of the question is only logged.                   *)
QuestionLogged(t) ==
    \/ /\ Goto(t, "question", "answer")
       /\ rows' = IF Head(todo[t]).user = NoText THEN rows ELSE rows \cup {Row(t, "user")}
       /\ UNCHANGED <<todo, last, count, faults, failed, hist>> /\ Stays
    \/ /\ Goto(t, "question", "answer") /\ Fault(t)
       /\ UNCHANGED <<todo, last, count, hist, rows>> /\ Stays

(* appendMessage: nothing is written of an empty text.                     *)
Question(t) ==
    \/ /\ Goto(t, "question", "answer")
       /\ rows' = IF Head(todo[t]).user = NoText THEN rows ELSE rows \cup {Row(t, "user")}
       /\ UNCHANGED <<todo, last, count, faults, failed, hist>> /\ Stays
    \/ GiveUp(t, "question") /\ UNCHANGED <<hist, rows>>

Answer(t) ==
    \/ /\ Goto(t, "answer", "persist")
       /\ rows' = IF Head(todo[t]).answered THEN rows \cup {Row(t, "assistant")} ELSE rows
       /\ todo' = [todo EXCEPT ![t] = Tail(@)]
       /\ UNCHANGED <<last, count, faults, failed, hist>> /\ Stays
    \/ GiveUp(t, "answer") /\ UNCHANGED <<hist, rows>>

AddHistory(t) == ReadLast(t) \/ Pop(t) \/ Push(t) \/ Expire(t) \/ Trim(t)

Persist(t) == AddHistory(t) \/ Save(t) \/ Question(t) \/ Answer(t) \/ Finish(t)

-----------------------------------------------------------------------------
(* Redis drops a list a day after its last item, a mapping thirty days     *)
(* after its last message: not while a turn is at work on it.              *)
ListExpires(c) ==
    /\ expiries < MaxExpiries /\ hist[c] # <<>>
    /\ \A t \in Turns : conv[t] = c => pc[t] \in {"new", "done"}
    /\ hist' = [hist EXCEPT ![c] = <<>>]
    /\ expiries' = expiries + 1
    /\ UNCHANGED <<turn, mapping, rows, faults, resets, forgotten>>

MappingExpires ==
    /\ expiries < MaxExpiries /\ mapping # NoConv
    /\ \A t \in Turns \ web : pc[t] \in {"new", "done"}
    /\ mapping' = NoConv
    /\ expiries' = expiries + 1
    /\ UNCHANGED <<turn, hist, rows, faults, resets, forgotten>>

Next ==
    \/ \E t \in Turns : ArriveWeb(t) \/ ArriveChannel(t) \/ Bind(t) \/ Ask(t) \/ Answered(t)
                        \/ Persist(t)
    \/ Reset
    \/ \E c \in Convs : ListExpires(c)
    \/ MappingExpires

Spec == Init /\ [][Next]_vars
=============================================================================
