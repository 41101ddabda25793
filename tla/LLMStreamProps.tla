--------------------------- MODULE LLMStreamProps ---------------------------
(***************************************************************************)
(* What one call of an LLM client promises its caller, over LLMStream.     *)
(***************************************************************************)
EXTENDS LLMStream

PartTypes == {"text", "tool_use", "tool_result"}

(* Types: a call keeps its fragments, a request its blocks, and nothing is *)
(* handed over without being an event.                                     *)
StreamTypeOK ==
    /\ provider \in Providers /\ mode \in Modes
    /\ phase \in {"prepare", "sent", "reading", "returned", "panicked"}
    /\ \A i \in DOMAIN request :
        /\ request[i].role \in {"user", "assistant"}
        /\ request[i].parts # <<>>
        /\ \A j \in DOMAIN request[i].parts : request[i].parts[j].type \in PartTypes
    /\ calls \in Seq(Nat) /\ Len(calls) <= MaxCalls
    /\ stopReason \in Reasons
    /\ usage.total = usage.in + usage.out
    /\ \A i \in DOMAIN events :
        events[i].reason \in Reasons /\ Len(events[i].calls) <= MaxCalls
    /\ wants \in BOOLEAN

-----------------------------------------------------------------------------
(* toAnthropicMessages: every tool_use block is answered by exactly one    *)
(* tool_result block with its id, in the message right after it, which is  *)
(* a user message; otherwise the provider refuses the request.  Also no    *)
(* result is lost or repeated.                                             *)
Answering(i, id) ==
    {j \in DOMAIN request[i].parts : request[i].parts[j] = Part("tool_result", id)}

RequestPaired ==
    phase = "sent" => \A i \in DOMAIN request : \A j \in DOMAIN request[i].parts :
        LET p == request[i].parts[j] IN
        /\ p.type = "tool_use" =>
              /\ i + 1 \in DOMAIN request /\ request[i + 1].role = "user"
              /\ \E k \in Answering(i + 1, p.id) : Answering(i + 1, p.id) = {k}
        /\ p.type = "tool_result" =>
              i > 1 /\ Part("tool_use", p.id) \in ToSet(request[i - 1].parts)

-----------------------------------------------------------------------------
(* What AgentLoop.Run takes from the stream: the calls of the event marked *)
(* Done; and what StreamChat makes of it: the text of all events.          *)
Ended == events # <<>> /\ Last(events).done
Taken == IF Ended THEN Last(events).calls ELSE <<>>
AnswerText == Cardinality(UNION {{i} \X (1..events[i].text) : i \in DOMAIN events})

(* The calls of an answer, from the lines alone: what opens a call, and    *)
(* how many lines carry arguments of the i-th.                             *)
Opening == IF mode = "once" THEN Parts \ {"text"} ELSE {"tool_use"}
Opened(j) == Cardinality({k \in 1..j : lines[k].kind \in Opening})

Fragments(i) ==
    IF mode = "stream" /\ provider = "openai"
    THEN Cardinality({j \in Places("call") : lines[j].n = i - 1})
    ELSE Cardinality({j \in Places(IF mode = "once" THEN "call" ELSE "input_json_delta") :
                        Opened(j) = i})

CallsSent ==
    IF mode = "stream" /\ provider = "openai" THEN Begun ELSE Opened(Len(lines))

Finished ==
    /\ lines # <<>>
    /\ \/ mode = "once"
       \/ Last(lines).kind \in {"message_stop", "stop", "tool_calls", "length"}

(* An answer that came to its end hands the tool executor exactly the      *)
(* calls the provider sent, in order, each with all its arguments, and the *)
(* consumer all of its text: streamed or not, whichever provider sent it.  *)
AnswerIsWhole ==
    Finished /\ Ended =>
        /\ Taken = [i \in 1..CallsSent |-> Fragments(i)]
        /\ AnswerText = Sent("text") + Sent("text_delta")

(* A stream that is cut, closed or turns unreadable before its end never   *)
(* runs a tool: what was gathered may lack arguments.                      *)
CutRunsNothing ==
    lines # <<>> /\ Last(lines) \in Cuts => Taken = <<>>

-----------------------------------------------------------------------------
(* The range over the events: one end, and no event for a consumer that    *)
(* has left ("the caller breaks out of the range loop": AgentLoop.Run).    *)
StreamState ==
    CASE phase = "panicked" -> "panicked"
      [] events # <<>> /\ Last(events).error -> "failed"
      [] Ended -> "done"
      [] events # <<>> /\ ~wants -> "left"
      [] OTHER -> IF phase = "returned" THEN "silent" ELSE "open"

Promise == INSTANCE EventStream WITH state <- StreamState, got <- Len(events)

ImplementsEventStream == Promise!Spec
=============================================================================
