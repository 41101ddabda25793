------------------------------ MODULE AgentLoop ------------------------------
(***************************************************************************)
(* One run of the agent loop: ask the model, execute the tool calls it     *)
(* answers with, append them and their results to the messages, hand the   *)
(* results to the caller, and ask again.  The calls of a batch run in      *)
(* goroutines of their own; a result that is too long is spilled to        *)
(* convo_tool_record there, and every result the caller is handed is       *)
(* upserted into the same table (Runner.Persist).                          *)
(*                                                                         *)
(* Texts are abstracted to what becomes of them: a result is spilled or    *)
(* not, a record holds the full text or what the model saw.                *)
(***************************************************************************)
EXTENDS Naturals, Sequences

CONSTANTS
    MaxLoop,      \* AgentLoopConfig.MaxLoop
    MaxBatch,     \* bound: tool calls in one answer of the model
    FallbackIds,  \* TRUE: the provider names calls by their place in the answer
    MaxDBFail     \* bound: failing calls to the record store

ASSUME ConfigAssumption ==
    /\ MaxLoop \in Nat \ {0} /\ MaxBatch \in Nat \ {0}
    /\ FallbackIds \in BOOLEAN /\ MaxDBFail \in Nat

Modes    == {"stream", "once"}                \* Run, RunNonStreaming
Sorts    == {"plain", "read", "malformed"}    \* what the model asked for
Outcomes == {"ok", "final", "error", "exit"}  \* what a tool did
Stages   == {"unborn", "start", "hooked", "returned"} \cup Outcomes
Ends     == {"running", "answered", "terminated", "exhausted", "failed", "stopped"}

Slots == 1..MaxBatch
Seqs  == Nat
Ids   == Nat

NoRow    == 0      \* "row id" of a result that was not spilled
NoResult == [id |-> 0, seq |-> 0, status |-> "none", terminate |-> FALSE,
             handle |-> NoRow]
Results  == [id: Ids, seq: Seqs, status: {"none", "ok", "error"},
             terminate: BOOLEAN, handle: Nat]
Messages == [role: {"assistant"}, ids: Seq(Ids)]
              \cup [role: {"tool"}, id: Ids, handle: Nat]
Rows     == [id: Ids, seq: Seqs, status: {"ok", "error"}, full: BOOLEAN]

VARIABLES
    mode,       \* which of the two loops runs
    pc,         \* "model", "batch", "deliver" or "done"
    round,      \* iterations begun before this one
    msgs,       \* the messages added to the conversation, by role and call id
    calls,      \* sorts of the current batch
    base,       \* seqBase of the current batch
    nextSeq,    \* ToolSeqCounter.n
    stage,      \* where the goroutine of each slot stands
    result,     \* results[idx] of the current batch
    toolRan,    \* turnToolTracker.called
    effects,    \* history: sequence numbers of the tools that were invoked
    at,         \* events of the batch already handed over
    delivered,  \* history: the events handed to the caller, in order
    ended,      \* how the loop ended
    records,    \* rows of convo_tool_record, in the order of their creation
    dbFails     \* how often the record store failed

loop  == <<mode, pc, round, msgs, ended>>
batch == <<calls, base, nextSeq, stage, result>>
vars  == <<loop, batch, toolRan, effects, at, delivered, records, dbFails>>

TypeOK ==
    /\ mode \in Modes
    /\ pc \in {"model", "batch", "deliver", "done"}
    /\ round \in 0..(MaxLoop - 1)
    /\ msgs \in Seq(Messages)
    /\ calls \in Seq(Sorts) /\ Len(calls) <= MaxBatch
    /\ base \in Seqs /\ nextSeq \in Seqs
    /\ stage \in [Slots -> Stages]
    /\ result \in [Slots -> Results]
    /\ toolRan \in BOOLEAN
    /\ effects \subseteq Seqs
    /\ at \in 0..MaxBatch
    /\ delivered \in Seq(Results)
    /\ ended \in Ends
    /\ records \in Seq(Rows)
    /\ dbFails \in 0..MaxDBFail

Init ==
    /\ mode \in Modes
    /\ pc = "model" /\ round = 0 /\ msgs = <<>> /\ ended = "running"
    /\ calls = <<>> /\ base = 0 /\ nextSeq = 0
    /\ stage = [i \in Slots |-> "unborn"]
    /\ result = [i \in Slots |-> NoResult]
    /\ toolRan = FALSE /\ effects = {}
    /\ at = 0 /\ delivered = <<>>
    /\ records = <<>> /\ dbFails = 0

Running == DOMAIN calls                  \* the slots of the current batch
SeqOf(i) == base + i - 1

(* The id a call goes by: the provider's, unique in the turn, or           *)
(* toolu_<index>, which starts again with every answer.                    *)
IdOf(i) == IF FallbackIds THEN i - 1 ELSE SeqOf(i)

DBFails == dbFails < MaxDBFail /\ dbFails' = dbFails + 1

End(how) == pc' = "done" /\ ended' = how

-----------------------------------------------------------------------------
(* The model answers with a final text, fails, or asks for tools.          *)
Answer ==
    /\ pc = "model"
    /\ End("answered")
    /\ UNCHANGED <<mode, round, msgs, batch, toolRan, effects, at, delivered,
                   records, dbFails>>

ModelFails ==
    /\ pc = "model"
    /\ End("failed")
    /\ UNCHANGED <<mode, round, msgs, batch, toolRan, effects, at, delivered,
                   records, dbFails>>

(* The caller of Run stops in the middle of the model's answer: an SSE     *)
(* write or StartStream failed.  No caller stops at a result event.        *)
CallerStops ==
    /\ pc = "model" /\ mode = "stream"
    /\ End("stopped")
    /\ UNCHANGED <<mode, round, msgs, batch, toolRan, effects, at, delivered,
                   records, dbFails>>

(* ToolSeqCounter.Next.                                                    *)
SeqBase == nextSeq

AskTools(sorts) ==
    /\ pc = "model"
    /\ pc' = "batch"
    /\ calls' = sorts
    /\ base' = SeqBase
    /\ nextSeq' = nextSeq + Len(sorts)
    /\ stage' = [i \in Slots |-> IF i \in DOMAIN sorts THEN "start" ELSE "unborn"]
    /\ result' = [i \in Slots |-> NoResult]
    /\ at' = 0
    /\ UNCHANGED <<mode, round, msgs, ended, toolRan, effects, delivered,
                   records, dbFails>>

-----------------------------------------------------------------------------
(* callTool, in the goroutine of slot i: a call of an unknown type or with *)
(* broken arguments is answered before the hook and the tool.              *)
Return(i, status, terminate, handle) ==
    /\ result' = [result EXCEPT ![i] =
                     [id |-> IdOf(i), seq |-> SeqOf(i), status |-> status,
                      terminate |-> terminate, handle |-> handle]]
    /\ stage' = [stage EXCEPT ![i] = "returned"]

(* BeforeToolCall of newToolExecutor.                                      *)
Tracked == TRUE

Check(i) ==
    /\ stage[i] = "start"
    /\ IF calls[i] = "malformed"
       THEN Return(i, "error", FALSE, NoRow) /\ UNCHANGED toolRan
       ELSE /\ toolRan' = Tracked
            /\ stage' = [stage EXCEPT ![i] = "hooked"]
            /\ UNCHANGED result
    /\ UNCHANGED <<loop, calls, base, nextSeq, effects, at, delivered, records,
                   dbFails>>

(* Registry.Invoke: it returns a result, an error (or panics, which is     *)
(* recovered into one), or ends the goroutine.                             *)
Invoke(i) ==
    /\ stage[i] = "hooked"
    /\ effects' = effects \cup {SeqOf(i)}
    /\ \E o \in Outcomes : stage' = [stage EXCEPT ![i] = o]
    /\ UNCHANGED <<loop, calls, base, nextSeq, result, toolRan, at, delivered,
                   records, dbFails>>

Row(i, status, full) ==
    [id |-> IdOf(i), seq |-> SeqOf(i), status |-> status, full |-> full]

(* A long result of a tool that answered is spilled, unless the tool is    *)
(* tool_result_read; when that fails the preview goes without a handle.    *)
Settle(i) ==
    /\ stage[i] \in Outcomes
    /\ LET status == IF stage[i] = "error" THEN "error" ELSE "ok" IN
       \/ /\ stage[i] # "exit"
          /\ Return(i, status, stage[i] = "final", NoRow)
          /\ UNCHANGED <<records, dbFails>>
       \/ /\ stage[i] # "exit" /\ calls[i] # "read"
          /\ records' = Append(records, Row(i, status, TRUE))
          /\ Return(i, status, stage[i] = "final", Len(records'))
          /\ UNCHANGED dbFails
       \/ /\ stage[i] # "exit" /\ calls[i] # "read"
          /\ DBFails
          /\ Return(i, status, stage[i] = "final", NoRow)
          /\ UNCHANGED records
       \/ /\ stage[i] = "exit"
          /\ stage' = [stage EXCEPT ![i] = "returned"]
          /\ UNCHANGED <<result, records, dbFails>>
    /\ UNCHANGED <<loop, calls, base, nextSeq, toolRan, effects, at, delivered>>

-----------------------------------------------------------------------------
(* Mutants: the batch is collected when one call has returned; it waits    *)
(* for a result of every call.                                             *)
OneReturned == \E i \in Running : stage[i] = "returned"
AllAnswered == \A i \in Running : result[i] # NoResult

AllReturned == \A i \in Running : stage[i] = "returned"

(* A goroutine that left no result gets an error result.                   *)
Event(i) ==
    IF result[i] # NoResult THEN result[i]
    ELSE [id |-> IdOf(i), seq |-> SeqOf(i), status |-> "error",
          terminate |-> FALSE, handle |-> NoRow]

ToolMessage(i) == [role |-> "tool", id |-> IdOf(i), handle |-> Event(i).handle]

(* Mutant: a call without a result is left out of the messages.            *)
OnlyAnswers ==
    LET answered(i) == result[i] # NoResult
        slots == SelectSeq([i \in 1..Len(calls) |-> i], answered)
    IN [n \in 1..Len(slots) |-> ToolMessage(slots[n])]

Answers == [i \in 1..Len(calls) |-> ToolMessage(i)]

Request ==
    [role |-> "assistant", ids |-> [i \in 1..Len(calls) |-> IdOf(i)]]

(* wg.Wait is over: the assistant's message and one message per call.      *)
Collect ==
    /\ pc = "batch"
    /\ AllReturned
    /\ msgs' = Append(msgs, Request) \o Answers
    /\ result' = [i \in Slots |-> IF i \in Running THEN Event(i) ELSE NoResult]
    /\ pc' = "deliver"
    /\ UNCHANGED <<mode, round, ended, calls, base, nextSeq, stage, toolRan,
                   effects, at, delivered, records, dbFails>>

(* UpsertToolRecord: the row of (turn, call id) gets the status and keeps  *)
(* its text; without a row one is made of what the model saw.              *)
RowsOf(ev) == {n \in DOMAIN records : records[n].id = ev.id}

(* Mutants: the update replaces the text as well; only rows that exist are *)
(* updated.                                                                *)
Overwritten(row, ev) == [row EXCEPT !.status = ev.status, !.full = FALSE]
NotCreated(ev) == records

Updated(row, ev) == [row EXCEPT !.status = ev.status]

Created(ev) ==
    Append(records, [id |-> ev.id, seq |-> ev.seq, status |-> ev.status,
                     full |-> FALSE])

Upsert(ev) ==
    \/ /\ \E n \in RowsOf(ev) :
             records' = [records EXCEPT ![n] = Updated(@, ev)]
       /\ UNCHANGED dbFails
    \/ RowsOf(ev) = {} /\ records' = Created(ev) /\ UNCHANGED dbFails
    \/ DBFails /\ UNCHANGED records

(* The caller is handed the next result event and persists it; the stream  *)
(* handlers note that a tool has run.                                      *)
Deliver ==
    /\ pc = "deliver" /\ at < Len(calls)
    /\ at' = at + 1
    /\ delivered' = Append(delivered, result[at'])
    /\ Upsert(result[at'])
    /\ toolRan' = (toolRan \/ mode = "stream")
    /\ UNCHANGED <<loop, batch, effects>>

AllTerminate == \A i \in Running : result[i].terminate

LastRound == round + 1 = MaxLoop

Continue ==
    /\ pc = "deliver" /\ at = Len(calls)
    /\ \/ AllTerminate /\ End("terminated") /\ UNCHANGED round
       \/ /\ ~AllTerminate /\ ~LastRound
          /\ round' = round + 1 /\ pc' = "model" /\ UNCHANGED ended
       \/ /\ ~AllTerminate /\ LastRound
          /\ End("exhausted") /\ UNCHANGED round
    /\ UNCHANGED <<mode, msgs, batch, toolRan, effects, at, delivered, records,
                   dbFails>>

-----------------------------------------------------------------------------
Batches == UNION {[1..n -> Sorts] : n \in Slots}

Ask == \E sorts \in Batches : AskTools(sorts)

Tool(i) == Check(i) \/ Invoke(i) \/ Settle(i)

Next ==
    \/ Answer \/ ModelFails \/ CallerStops \/ Ask
    \/ \E i \in Slots : Tool(i)
    \/ Collect \/ Deliver \/ Continue

Spec == Init /\ [][Next]_vars

(* The model answers or fails, tools return, and goroutines are scheduled. *)
FairSpec ==
    /\ Spec
    /\ WF_vars(Answer \/ ModelFails \/ Ask)
    /\ \A i \in Slots : WF_vars(Tool(i))
    /\ WF_vars(Collect) /\ WF_vars(Deliver \/ Continue)
=============================================================================
