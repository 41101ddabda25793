---------------------------- MODULE InboundProps ----------------------------
(* What a channel promises about a message the platform sends.             *)
EXTENDS Inbound

Pcs == {"none", "check", "fetch", "command", "session", "claim", "run", "fail", "close", "record", "reply", "done"}

(* Every variable has its type.                                            *)
TypeOK ==
    /\ mode \in Modes /\ kind \in [Msgs -> Kinds] /\ channel \in {"off", "on", "stopped"}
    /\ \A d \in Deliveries :
           /\ delivery[d].pc \in Pcs /\ delivery[d].stream \in {"none", "open", "finished"}
           /\ delivery[d].sent <= MaxDeltas
    /\ seen \subseteq Msgs /\ conv \in 0..convs /\ crashes \in 0..MaxCrashes
    /\ \A m \in Msgs : turn[m].status \in {"none", "running", "succeeded", "failed", "interrupted"}

(* All answers a message is shown are the answer of one run, whichever of  *)
(* its deliveries sends them (handle_platform.go:400-403).                 *)
OneAnswer ==
    \A m \in Msgs : kind[m] # "noid" =>
        Cardinality({s \in shown : s[1] = m /\ s[2][1] = "answer"}) <= 1

(* The history holds a message once, however often it was delivered and    *)
(* run, as long as the turn table can be written (handle_platform.go:293-303). *)
RecordedOnce ==
    \A m \in Msgs : kind[m] # "noid" => Cardinality({r \in recorded : r[2] = m}) <= 1

(* A message that is delivered several times is answered and recorded as   *)
(* one message, whichever of its deliveries comes through                  *)
(* (handle_platform.go:293-303, 400-403).                                  *)
HandledOnce == OneAnswer /\ RecordedOnce

(* A message the adapter accepts and nothing goes wrong with is not lost   *)
(* to an earlier delivery that failed: the dedup is a hint                 *)
(* (docs/solutions/logic-errors/wecom-http-missing-dedup.md:70).           *)
Accepted(m) == Takes(kind[m]) # "done"

SecondChance ==
    \A d \in Deliveries :
        At(d, "done") /\ ~delivery[d].fault /\ Accepted(Msg(d)) /\ Kind(d) \notin {"noid", "reset"}
            => turn[Msg(d)].status # "none"

(* A stream that was started is finished, with the answer or with an       *)
(* error, unless the connection fails                                      *)
(* (docs/solutions/runtime-errors/streaming-reply-multiple-startstream.md).*)
StreamsEnd ==
    \A d \in Deliveries : At(d, "done") /\ ~delivery[d].fault => delivery[d].stream # "open"
=============================================================================
