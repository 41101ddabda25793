---------------------------- MODULE MCLLMStream ----------------------------
(* Instances of LLMStream for TLC: conversations of a system prompt, a     *)
(* question, two rounds of tool calls or answers, and a question.          *)
EXTENDS LLMStreamProps

Text(role)       == [role |-> role, blank |-> FALSE, id |-> 0, ids |-> <<>>]
Calling(ids, b)  == [role |-> "assistant", blank |-> b, id |-> 0, ids |-> ids]
Result(role, id) == [role |-> role, blank |-> FALSE, id |-> id, ids |-> <<>>]
Blank(role)      == [role |-> role, blank |-> TRUE, id |-> 0, ids |-> <<>>]

Round(a, b, role) == {
    <<Calling(<<a>>, FALSE), Result(role, a)>>,
    <<Calling(<<a, b>>, TRUE), Result(role, a), Result(role, b)>>,
    <<Text("assistant"), Text("user")>>,
    <<Blank("assistant"), Blank("user")>>}

AskedWith == {
    <<Text("system"), Text("user")>> \o first \o second \o last :
        first \in Round(1, 2, "tool"), second \in Round(3, 4, "tool") \cup Round(3, 4, "user"),
        last \in {<<>>, <<Text("user")>>}}
=============================================================================
