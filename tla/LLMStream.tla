----------------------------- MODULE LLMStream -----------------------------
(***************************************************************************)
(* One call of an LLM client.  The messages are converted for the          *)
(* provider, the request is sent, and its answer is parsed: all at once    *)
(* (Chat) or line by line (StreamChat), where every event is pushed into   *)
(* the consumer's range loop, which may stop at any of them.               *)
(*                                                                         *)
(* Texts are counted, not kept.  A tool call is known by its place and by  *)
(* the number of argument fragments gathered for it; a message by its      *)
(* role, its call ids and whether its text is blank.                       *)
(***************************************************************************)
EXTENDS Naturals, Sequences, FiniteSets, SequencesExt

CONSTANTS
    Conversations,  \* the message lists callers ask with
    MaxLines,       \* bound: lines read of one answer
    MaxCalls,       \* bound: tool calls in one answer, parts of a whole one
    StopsAtStart    \* TRUE: the consumer may stop at a message_start event

ASSUME StreamAssumption ==
    /\ MaxLines \in Nat \ {0} /\ MaxCalls \in Nat
    /\ StopsAtStart \in BOOLEAN

(* What the loop asks with (AgentLoop keeps it so): the messages after one *)
(* with tool calls are their results, in order, and there are no others.   *)
Messages == [role : {"system", "user", "assistant", "tool"}, blank : BOOLEAN,
             id : Nat, ids : Seq(Nat)]

IsResult(m) == m.role = "tool" \/ (m.role = "user" /\ m.id # 0)

ASSUME ConversationsAssumption ==
    \A c \in Conversations :
        /\ c \in Seq(Messages)
        /\ \A a \in DOMAIN c : c[a].role = "assistant" =>
            \A k \in DOMAIN c[a].ids :
                /\ a + k \in DOMAIN c /\ IsResult(c[a + k]) /\ c[a + k].id = c[a].ids[k]
                /\ \A j \in DOMAIN c[a].ids : c[a].ids[j] = c[a].ids[k] => j = k
        /\ \A i \in DOMAIN c : IsResult(c[i]) =>
            \E a \in 1..(i - 1) : c[a].role = "assistant" /\ i - a \in DOMAIN c[a].ids

Providers == {"openai", "anthropic"}
Modes     == {"stream", "once"}
Reasons   == {"", "stop", "tool_calls", "length"}
NoUsage   == [in |-> 0, out |-> 0, total |-> 0]
PromptTokens == 2      \* what a provider counts for the prompt
AnswerTokens == 1      \* and for the answer

VARIABLES
    provider,
    mode,
    phase,       \* "prepare", "sent", "reading", "returned", "panicked"
    messages,    \* what the caller asks with, until it is converted
    at,          \* how many of them are converted
    request,     \* the converted messages, until they are sent
    lines,       \* history: the lines of the answer that were read
    calls,       \* currentToolCalls, or a result's: fragments gathered per call
    stopReason,  \* anthropicStreamState.stopReason
    usage,       \* anthropicStreamState.usage
    events,      \* history: what was handed to the consumer
    wants        \* FALSE once the consumer has left its range loop

asked  == <<provider, mode, messages, at, request>>
parser == <<calls, stopReason, usage>>
streamVars == <<asked, phase, lines, parser, events, wants>>

Event == [text |-> 0, calls |-> <<>>, done |-> FALSE, error |-> FALSE,
          reason |-> "", usage |-> NoUsage]
Failure == [Event EXCEPT !.error = TRUE]

StreamInit ==
    /\ provider \in Providers /\ mode \in Modes
    /\ messages \in Conversations /\ at = 0 /\ request = <<>>
    /\ phase = "prepare"
    /\ lines = <<>> /\ calls = <<>> /\ stopReason = "" /\ usage = NoUsage
    /\ events = <<>> /\ wants = TRUE

(* yield, called with an event: the consumer takes it and wants more or    *)
(* not.  Calling it after the consumer has left is a run-time panic.       *)
Yield(e, more) ==
    /\ wants' = (wants /\ more)
    /\ events' = IF wants THEN Append(events, e) ELSE events

(* Mutant: the parser goes on after the end.                               *)
NeverReturns(to) == UNCHANGED phase

Returns(to) == phase' = IF wants THEN to ELSE "panicked"

-----------------------------------------------------------------------------
(* toAnthropicMessages: system texts go elsewhere, a tool result joins the *)
(* user message before it, messages without content disappear.             *)
Part(type, id) == [type |-> type, id |-> id]

TextParts(m) == IF m.blank THEN <<>> ELSE <<Part("text", 0)>>

(* Mutant: a result always opens a message of its own.                     *)
ResultAlone(out, m) ==
    Append(out, [role |-> "user", parts |-> <<Part("tool_result", m.id)>>])

WithResult(out, m) ==
    IF out # <<>> /\ Last(out).role = "user"
    THEN [out EXCEPT ![Len(out)].parts = Append(@, Part("tool_result", m.id))]
    ELSE Append(out, [role |-> "user", parts |-> <<Part("tool_result", m.id)>>])

WithParts(out, role, parts) ==
    IF parts = <<>> THEN out ELSE Append(out, [role |-> role, parts |-> parts])

Converted(out, m) ==
    CASE m.role = "system" -> out
      [] m.role = "tool" \/ (m.role = "user" /\ m.id # 0) -> WithResult(out, m)
      [] m.role = "user" /\ m.id = 0 -> WithParts(out, "user", TextParts(m))
      [] m.role = "assistant" ->
            WithParts(out, "assistant",
                      TextParts(m) \o [i \in DOMAIN m.ids |-> Part("tool_use", m.ids[i])])

(* One round of the loop over the messages.                                *)
ToAnthropicMessages ==
    /\ phase = "prepare" /\ provider = "anthropic"
    /\ at < Len(messages)
    /\ at' = at + 1
    /\ request' = Converted(request, messages[at'])
    /\ UNCHANGED <<provider, mode, phase, messages, lines, parser, events, wants>>

AllConverted == phase = "prepare" /\ (provider = "anthropic" => at = Len(messages))

Prepare ==
    /\ AllConverted
    /\ phase' = "sent"
    /\ messages' = <<>> /\ at' = 0
    /\ UNCHANGED <<provider, mode, request, lines, parser, events, wants>>

(* A tool schema that does not convert, a failing connection, an error     *)
(* status: one error and the call returns.                                 *)
SendFails ==
    /\ AllConverted \/ phase = "sent"
    /\ Yield(Failure, FALSE)
    /\ phase' = "returned"
    /\ messages' = <<>> /\ at' = 0 /\ request' = <<>>
    /\ UNCHANGED <<provider, mode, lines, parser>>

Respond ==
    /\ phase = "sent"
    /\ phase' = "reading"
    /\ request' = <<>>
    /\ UNCHANGED <<provider, mode, messages, at, lines, parser, events, wants>>

-----------------------------------------------------------------------------
(* The provider's side: the lines it may send next.  Both number and order *)
(* what they send, but a connection may be cut or closed anywhere, and a   *)
(* stray line may be unreadable.                                           *)
Line(kind) == [kind |-> kind, n |-> 0]
Places(kind) == {i \in DOMAIN lines : lines[i].kind = kind}
Sent(kind) == Cardinality(Places(kind))

Cuts == {Line("eof"), Line("read_error"), Line("[DONE]"), Line("garbage")}

Begun == Cardinality({lines[i].n : i \in Places("call")})

(* OpenAI: prelude, text, then the calls with their fragments by index;    *)
(* n of a finish line says whether usage comes with it.                    *)
OpenAILines ==
    Cuts \cup {Line("empty")}
         \cup {[kind |-> "length", n |-> u] : u \in 0..1}
         \cup {[kind |-> "call", n |-> i] : i \in {j \in {Begun - 1, Begun} : 0 <= j /\ j < MaxCalls}}
         \cup (IF Begun = 0
               THEN {Line("text"), Line("no_choices")} \cup {[kind |-> "stop", n |-> u] : u \in 0..1}
               ELSE {[kind |-> "tool_calls", n |-> u] : u \in 0..1})

(* Anthropic: message_start, content blocks, message_delta, message_stop.  *)
AnthropicLines ==
    Cuts \cup
    (CASE Sent("message_start") = 0 -> {Line("message_start")}
       [] Sent("message_delta") > 0 -> {Line("message_stop")}
       [] OTHER ->
            {Line(k) : k \in {"text_delta", "thinking_delta"}}
              \cup (IF Sent("tool_use") < MaxCalls THEN {Line("tool_use")} ELSE {})
              \cup (IF Sent("tool_use") > 0 THEN {Line("input_json_delta")} ELSE {})
              \cup {[kind |-> "message_delta", n |-> r] : r \in 0..1})

NextLines == IF provider = "openai" THEN OpenAILines ELSE AnthropicLines

Read(l) ==
    /\ phase = "reading" /\ mode = "stream"
    /\ l \in NextLines
    /\ Len(lines) < MaxLines \/ (Len(lines) = MaxLines /\ l.kind \in {"eof", "read_error"})
    /\ lines' = Append(lines, l)
    /\ UNCHANGED asked

-----------------------------------------------------------------------------
(* Lines that end either parser, and lines either of them skips.           *)
ReadFails(l) ==
    /\ Read(l)
    /\ \/ l.kind = "read_error"
       \/ l.kind = "garbage" /\ provider = "openai"
    /\ Yield(Failure, FALSE)
    /\ Returns("returned")
    /\ UNCHANGED parser

(* Mutant: the calls gathered so far go with the closing event.            *)
CloseWithCalls == [Event EXCEPT !.done = TRUE, !.calls = calls]

CloseEvent ==
    IF provider = "openai" THEN [Event EXCEPT !.done = TRUE]
    ELSE [Event EXCEPT !.done = TRUE, !.reason = stopReason, !.usage = usage]

Close(l) ==
    /\ Read(l) /\ l.kind \in {"eof", "[DONE]"}
    /\ \E more \in BOOLEAN : Yield(CloseEvent, more)
    /\ Returns("returned")
    /\ UNCHANGED parser

Skip(l) ==
    /\ Read(l)
    /\ \/ l.kind = "no_choices"
       \/ l.kind = "garbage" /\ provider = "anthropic"
    /\ UNCHANGED <<phase, parser, events, wants>>

(* openAIProvider.parseStreamResponse, a chunk with a choice.              *)
(* Mutant: a fragment always goes to the call opened last.                 *)
GatheredLast(cs, l) ==
    IF l.kind # "call" THEN cs
    ELSE LET grown == IF l.n > Len(cs) THEN Append(cs, 0) ELSE cs
         IN  IF grown = <<>> THEN <<1>> ELSE [grown EXCEPT ![Len(grown)] = @ + 1]

Gathered(cs, l) ==
    IF l.kind # "call" THEN cs
    ELSE LET grown == IF l.n >= Len(cs) THEN Append(cs, 0) ELSE cs
         IN  [grown EXCEPT ![l.n + 1] = @ + 1]

EndsStream(cs, l) ==
    l.kind \in Reasons \/ (l.kind # "call" /\ cs # <<>>)

OpenAIChunk(l) ==
    /\ Read(l) /\ provider = "openai"
    /\ l.kind \in {"text", "empty", "call"} \cup Reasons
    /\ calls' = Gathered(calls, l)
    /\ \E more \in BOOLEAN :
        /\ Yield([Event EXCEPT !.text = IF l.kind = "text" THEN 1 ELSE 0,
                              !.calls = calls',
                              !.reason = IF l.kind \in Reasons THEN l.kind ELSE "",
                              !.usage = IF l.kind \in Reasons /\ l.n = 1
                                        THEN [in |-> PromptTokens, out |-> AnswerTokens,
                                              total |-> PromptTokens + AnswerTokens]
                                        ELSE NoUsage,
                              !.done = EndsStream(calls', l)], more)
        /\ phase' = IF EndsStream(calls', l) \/ ~more THEN "returned" ELSE phase
    /\ UNCHANGED <<stopReason, usage>>

(* anthropicProvider.handleStreamEvent, one disjunct per event type.       *)
MessageStart(l) ==
    /\ Read(l) /\ l.kind = "message_start"
    /\ usage' = [in |-> PromptTokens, out |-> 0, total |-> PromptTokens]
    /\ \E more \in {TRUE, ~StopsAtStart} :
        Yield([Event EXCEPT !.usage = usage'], more)
    /\ Returns(phase)
    /\ UNCHANGED <<calls, stopReason>>

ToolUse(l) ==
    /\ Read(l) /\ l.kind = "tool_use"
    /\ calls' = Append(calls, 0)
    /\ UNCHANGED <<phase, stopReason, usage, events, wants>>

InputJSON(l) ==
    /\ Read(l) /\ l.kind = "input_json_delta"
    /\ calls' = IF calls = <<>> THEN calls ELSE [calls EXCEPT ![Len(calls)] = @ + 1]
    /\ UNCHANGED <<phase, stopReason, usage, events, wants>>

Delta(l) ==
    /\ Read(l) /\ l.kind \in {"text_delta", "thinking_delta"}
    /\ \E more \in BOOLEAN :
        /\ Yield(IF l.kind = "text_delta" THEN [Event EXCEPT !.text = 1, !.calls = calls]
                                         ELSE Event, more)
        /\ Returns(IF more THEN phase ELSE "returned")
    /\ UNCHANGED parser

(* n = 0: end_turn.  n = 1: tool_use, or max_tokens when there is no call. *)
ReasonOf(l) ==
    IF l.n = 0 THEN "stop" ELSE IF calls # <<>> THEN "tool_calls" ELSE "length"

MergedUsage == [usage EXCEPT !.out = AnswerTokens, !.total = usage.in + AnswerTokens]

MessageDelta(l) ==
    /\ Read(l) /\ l.kind = "message_delta"
    /\ stopReason' = ReasonOf(l)
    /\ usage' = MergedUsage
    /\ \E more \in BOOLEAN :
        /\ Yield([Event EXCEPT !.calls = calls, !.reason = stopReason', !.usage = usage'], more)
        /\ Returns(IF more THEN phase ELSE "returned")
    /\ UNCHANGED calls

StopEvent == [Event EXCEPT !.done = TRUE, !.calls = calls, !.reason = stopReason,
                           !.usage = usage]

MessageStop(l) ==
    /\ Read(l) /\ l.kind = "message_stop"
    /\ \E more \in BOOLEAN : Yield(StopEvent, more)
    /\ Returns("returned")
    /\ UNCHANGED parser

StreamLine(l) ==
    \/ ReadFails(l) \/ Close(l) \/ Skip(l) \/ OpenAIChunk(l)
    \/ MessageStart(l) \/ ToolUse(l) \/ InputJSON(l) \/ Delta(l)
    \/ MessageDelta(l) \/ MessageStop(l)

-----------------------------------------------------------------------------
(* Chat: the whole answer at once, as texts and calls with or without      *)
(* arguments, gathered one by one.  No choices, an empty content or bad    *)
(* JSON is an error.                                                       *)
Parts == {"text", "call", "bare_call"}

ChatPart(p) ==
    /\ phase = "reading" /\ mode = "once"
    /\ Len(lines) < MaxCalls
    /\ lines' = Append(lines, Line(p))
    /\ calls' = IF p = "text" THEN calls ELSE Append(calls, IF p = "call" THEN 1 ELSE 0)
    /\ UNCHANGED <<asked, phase, stopReason, usage, events, wants>>

ChatEvent ==
    [Event EXCEPT
        !.done = TRUE, !.text = Sent("text"), !.calls = calls,
        !.usage = [in |-> PromptTokens, out |-> AnswerTokens,
                   total |-> PromptTokens + AnswerTokens]]

Chat ==
    /\ phase = "reading" /\ mode = "once"
    /\ phase' = "returned"
    /\ Yield(IF lines = <<>> /\ provider = "anthropic" THEN Failure ELSE ChatEvent, FALSE)
    /\ UNCHANGED <<asked, lines, parser>>

ChatUnreadable ==
    /\ phase = "reading" /\ mode = "once" /\ lines = <<>>
    /\ phase' = "returned"
    /\ Yield(Failure, FALSE)
    /\ UNCHANGED <<asked, lines, parser>>

StreamNext ==
    \/ ToAnthropicMessages \/ Prepare \/ SendFails \/ Respond
    \/ \E l \in NextLines : StreamLine(l)
    \/ (\E p \in Parts : ChatPart(p)) \/ Chat \/ ChatUnreadable

StreamSpec == StreamInit /\ [][StreamNext]_streamVars
=============================================================================
