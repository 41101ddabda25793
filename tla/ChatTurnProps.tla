--------------------------- MODULE ChatTurnProps ---------------------------
(***************************************************************************)
(* What idempotent turns promise, over the handlers of ChatTurn.           *)
(***************************************************************************)
EXTENDS ChatTurn

(* As long as a turn was never rerun, at most one delivery of its key      *)
(* holds the execution right, whatever overlaps, fails, crashes or is      *)
(* reclaimed: the unique index of CreateTurn arbitrates the first run.     *)
FirstRunExclusive ==
    \A k \in Keys \ reopened : \A d, e \in Holders(k) : d = e

(* One idempotency key, one execution at a time: "only one of the repeated *)
(* requests of a key gets to execute" (the comment on the TurnStatus       *)
(* constants), reruns included.                                            *)
AtMostOneExecutor == \A k \in Keys : \A d, e \in Holders(k) : d = e

(* A delivery that is given a stored answer gets the answer of an          *)
(* execution of the same key and the same content, and never one of        *)
(* another user unless the turn itself belongs to nobody: the digest and   *)
(* owner checks of acquireTurn, across reruns, crashes and reclaims.       *)
SameParty(d, e) ==
    \/ req[d].owner = Anonymous \/ req[e].owner = Anonymous
    \/ req[d].owner = req[e].owner

ReplayIsGenuine ==
    \A d \in Deliveries :
        replay[d] # NoAnswer =>
            LET e == replay[d].by IN
            /\ e \in Deliveries
            /\ Key(e) = Key(d)
            /\ req[e].digest = req[d].digest
            /\ turn[Key(d)].owner = Anonymous \/ SameParty(d, e)

(* Tools of one key run in two executions only when some execution was     *)
(* recorded failed: a cancelled turn that may be rerun has had no side     *)
(* effect, an interrupted one is not rerun.                                *)
EffectsRepeatOnlyAfterFailure ==
    \A k \in Keys \ everFailed :
        \A d, e \in Deliveries :
            Key(d) = k /\ Key(e) = k /\ toolRan[d] /\ toolRan[e] => d = e

(* The answer of a succeeded turn is the whole answer of the model (turns  *)
(* answered without streaming).                                            *)
SucceededIsComplete ==
    \A k \in Keys : turn[k].status = "succeeded" => turn[k].result.whole

(* With requests of all kinds: as long as no database call failed, an      *)
(* unfinished row nobody executes has one of the two causes the code       *)
(* leaves open: a web client that went away while its request was being    *)
(* claimed (handle_turn.go:52), or a streamed reply that could not be      *)
(* started (handle_platform.go:261).  A crash, a reclaim or a rerun never  *)
(* is one.                                                                 *)
UnfinishedHasCause ==
    up /\ dbFails = 0 =>
        \A k \in Keys : turn[k].status \in Unfinished /\ Holders(k) = {} =>
            \E d \in Deliveries :
                /\ Key(d) = k
                /\ \/ cancelled[d]
                   \/ req[d].path = "channel_stream" /\ pc[d] = "done"

(* Every turn reaches a final status, by its execution or, after a crash,  *)
(* by the reclaim of the next start.                                       *)
TurnsSettle ==
    \A k \in Keys :
        turn[k].status \in Unfinished ~> turn[k].status \notin Unfinished

-----------------------------------------------------------------------------
(* The claim a row and the executions behind it stand for.                 *)
ClaimOf(k) ==
    IF Holders(k) # {} THEN "held"
    ELSE CASE turn[k].status = "succeeded" -> "answered"
           [] turn[k].status \in Rerunnable \cup {"absent"} -> "free"
           [] OTHER -> "sealed"

Claims == INSTANCE TurnClaim WITH
              claim   <- [k \in Keys |-> ClaimOf(k)],
              holders <- [k \in Keys |-> Holders(k)]

(* Deliveries that do not overlap while they claim a key implement the     *)
(* abstract claim: one holder at a time, answers and sealed keys final,    *)
(* through failing calls, crashes and reclaims.                            *)
ImplementsClaim == Claims!ClaimSpec
=============================================================================
