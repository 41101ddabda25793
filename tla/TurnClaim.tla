----------------------------- MODULE TurnClaim -----------------------------
(***************************************************************************)
(* What a claim on an idempotency key promises, without rows, statuses or  *)
(* database calls.  A key is free, held by the one execution that may run, *)
(* answered for good, or sealed: its outcome is unknown and no delivery    *)
(* may ever execute it again.                                              *)
(***************************************************************************)
CONSTANTS Deliveries, Keys

VARIABLES claim,    \* the state of each key
          holders   \* the deliveries that execute each key

claimVars == <<claim, holders>>

Claims == {"free", "held", "answered", "sealed"}

Init ==
    /\ claim = [k \in Keys |-> "free"]
    /\ holders = [k \in Keys |-> {}]

Claim(k, d) ==
    /\ claim[k] = "free"
    /\ claim' = [claim EXCEPT ![k] = "held"]
    /\ holders' = [holders EXCEPT ![k] = {d}]

(* The holder lets go: with an answer, with a failure that may be retried, *)
(* or without a trace of how it ended.                                     *)
Release(k) ==
    /\ claim[k] = "held"
    /\ \E c \in {"answered", "free", "sealed"} :
          claim' = [claim EXCEPT ![k] = c]
    /\ holders' = [holders EXCEPT ![k] = {}]

(* A claim is lost before anybody holds it.                                *)
Seal(k) ==
    /\ claim[k] = "free"
    /\ claim' = [claim EXCEPT ![k] = "sealed"]
    /\ UNCHANGED holders

(* Every holder is gone at once.                                           *)
SealAll ==
    /\ claim' = [k \in Keys |-> IF claim[k] = "held" THEN "sealed" ELSE claim[k]]
    /\ holders' = [k \in Keys |-> {}]

Next ==
    \/ SealAll
    \/ \E k \in Keys : Release(k) \/ Seal(k) \/ \E d \in Deliveries : Claim(k, d)

ClaimSpec == Init /\ [][Next]_claimVars
=============================================================================
