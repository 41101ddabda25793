---------------------------- MODULE MCChatTurn ----------------------------
(* Instances of ChatTurn for TLC.                                          *)
EXTENDS ChatTurnProps, TLC

Request(k, dg, o, p) == [key |-> k, digest |-> dg, owner |-> o, path |-> p]

(* The key of a web request is derived from its user and content, so it    *)
(* always comes with them; only the way of answering may differ.           *)
WebRequests == {Request("kw", "d1", "u1", p) : p \in WebPaths}

(* A channel message is delivered again with the user not found or after   *)
(* an edit, and answered at once or as a stream.                           *)
Reply(dg, o) == Request("kc", dg, o, "channel_reply")
ReplyOnly    == {Reply("d1", "u1")}
StreamOnly   == {Request("kc", "d1", "u1", "channel_stream")}
Unkeyed      == {Request(NoKey, "d1", "u1", "channel_stream")}

AllRequests  == WebRequests \cup {Reply("d1", "u1"), Reply("d2", "u2"), Reply("d1", Anonymous)} \cup StreamOnly
LiveRequests == ReplyOnly \cup Unkeyed

DeliverySymmetry == Permutations(Deliveries)
=============================================================================
