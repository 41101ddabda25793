--------------------------- MODULE AgentLoopProps ---------------------------
(***************************************************************************)
(* What one run of the agent loop promises, over AgentLoop.                *)
(***************************************************************************)
EXTENDS AgentLoop

(* The messages a model is asked with are well paired: every message with  *)
(* tool calls is followed by one answer per call in the order of the       *)
(* calls, and every answer belongs to such a message; whatever failed,     *)
(* panicked or ended its goroutine.  A provider refuses anything else.     *)
AnswersOf(n) ==
    \A j \in DOMAIN msgs[n].ids :
        /\ n + j \in DOMAIN msgs
        /\ msgs[n + j].role = "tool"
        /\ msgs[n + j].id = msgs[n].ids[j]

IsAnswer(n) ==
    \E m \in 1..(n - 1) : msgs[m].role = "assistant" /\ n - m \in DOMAIN msgs[m].ids

Paired ==
    pc = "model" =>
        \A n \in DOMAIN msgs :
            IF msgs[n].role = "assistant" THEN AnswersOf(n) ELSE IsAnswer(n)

(* A turn whose tools have run is known to have side effects from before   *)
(* the first of them: a cancellation at any moment is recorded             *)
(* interrupted, never as a cancelled turn that may be rerun.               *)
TrackedBeforeEffect == effects # {} => toolRan

(* Tools run only while their batch is executed: none is still at work     *)
(* when the model is asked again, when results are handed over, or after   *)
(* the loop has ended and the turn been finished.                          *)
NoLateEffect == [][pc # "batch" => effects' = effects]_vars

(* Once the loop has ended after a batch, every tool that was invoked has  *)
(* its record, unless the record store failed.                             *)
EffectsRecorded ==
    pc = "done" /\ dbFails = 0 /\ ~FallbackIds =>
        \A q \in effects : \E n \in DOMAIN records : records[n].seq = q

(* A handle in the messages leads to the full text of that very call, as   *)
(* long as the run lasts and after it.                                     *)
HandlesReadable ==
    \A n \in DOMAIN msgs :
        msgs[n].role = "tool" /\ msgs[n].handle # NoRow =>
            /\ msgs[n].handle \in DOMAIN records
            /\ records[msgs[n].handle].full
            /\ records[msgs[n].handle].id = msgs[n].id

(* The results are handed over in the order of the calls over the whole    *)
(* turn, however the goroutines finished, with no number left out or used  *)
(* twice: (turn, seq) orders the records like the conversation.            *)
SeqOrder == \A n \in DOMAIN delivered : delivered[n].seq = n - 1

(* The model is denied a last word only when every tool of the batch       *)
(* succeeded and asked for the end: no failure is swallowed by a           *)
(* termination.                                                            *)
FailuresAreSeen ==
    ended = "terminated" =>
        \A n \in (Len(delivered) - Len(calls) + 1)..Len(delivered) :
            delivered[n].status = "ok"

(* The loop ends: with an answer, an error, or after MaxLoop rounds.       *)
LoopEnds == <>(pc = "done")
=============================================================================
