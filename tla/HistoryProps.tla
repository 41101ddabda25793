---------------------------- MODULE HistoryProps ----------------------------
(* What the history of a conversation promises, whatever commands fail and *)
(* however turns interleave.                                               *)
EXTENDS History

Items == [turn : Turns, user : Prompts \cup {NoText}, answered : BOOLEAN]

(* Every variable has its type; in particular a list and a model's context *)
(* hold only items some turn persisted (conversation.go:148, prompt.go:136). *)
TypeOK ==
    /\ pc \in [Turns -> {"new", "mapping", "bound", "asked", "persist", "push", "expire",
                         "trim", "save", "question", "answer", "done"}]
    /\ prompt \in [Turns -> Prompts \cup {NoText}]
    /\ web \subseteq Turns /\ failed \subseteq Turns
    /\ conv \in [Turns -> Convs \cup {NoConv}]
    /\ mapping \in Turns \cup {NoConv}
    /\ \A t \in Turns :
        /\ context[t] \subseteq Items
        /\ \A i \in DOMAIN todo[t] : todo[t][i] \in Items
        /\ last[t] \in Prompts \cup {NoText, NoItem}
        /\ count[t] \in Nat
        /\ pc[t] \notin {"new", "mapping"} => conv[t] # NoConv
    /\ \A c \in Convs : \A i \in DOMAIN hist[c] : hist[c][i] \in Items
    /\ faults \in 0..MaxFaults /\ resets \in 0..MaxResets /\ expiries \in 0..MaxExpiries

(* A message that arrives after a reset is never answered from an exchange *)
(* that was answered before the reset, although turns of the old           *)
(* conversation go on (conversation.go:44-70, commands.go:56-62).          *)
ResetForgets ==
    \A t \in Turns \ web : \A i \in context[t] : i.turn \notin forgotten[t]

(* The raw rows: an answer never stands without its question,              *)
(* in the same conversation, and a turn none of whose commands failed has  *)
(* left its rows even when its item has left the list                      *)
(* (event_adapter.go:54-64).                                               *)
RecordsPaired ==
    /\ \A r \in rows :
        (r.role = "assistant" /\ prompt[r.turn] # NoText) => [r EXCEPT !.role = "user"] \in rows
    /\ \A c \in Convs : \A i \in DOMAIN hist[c] :
        LET t == hist[c][i].turn
        IN  (pc[t] = "done" /\ t \notin failed /\ hist[c][i].answered) => t \in Answers

(* An exchange is taken off the end of the list only by a turn with the    *)
(* same question; another one's only when turns persist into the           *)
(* conversation at the same time (conversation.go:151-161).                *)
OnlySameQuestionReplaced ==
    [][\A t \in Turns :
         LET c == conv[t] IN
         (c \in Convs /\ pc[t] = "push" /\ Len(hist'[c]) < Len(hist[c])
            /\ last'[t] # last[t])
         => \/ Last(hist[c]).user = Head(todo[t]).user
            \/ \E u \in Turns \ {t} : conv[u] = c /\ pc[u] \notin {"new", "mapping", "bound", "asked"}]_vars
=============================================================================
