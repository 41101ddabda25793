---------------------------- MODULE EventStream ----------------------------
(***************************************************************************)
(* What a range over streamed events promises its consumer: events, then   *)
(* exactly one end, which is a last event marked Done or an error; and     *)
(* nothing at all once the consumer has left the range.                    *)
(***************************************************************************)
EXTENDS Naturals

VARIABLES
    state,   \* "open", "done", "failed" or "left"
    got      \* how many events the consumer has been handed

Init == state = "open" /\ got = 0

Hand(to) ==
    /\ state = "open"
    /\ got' = got + 1
    /\ state' = to

Next == Hand("open") \/ Hand("done") \/ Hand("failed") \/ Hand("left")

Spec == Init /\ [][Next]_<<state, got>>
=============================================================================
