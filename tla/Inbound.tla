------------------------------ MODULE Inbound ------------------------------
(***************************************************************************)
(* A platform message on its way through a channel: the platform delivers  *)
(* it, possibly again; the adapter checks it, marks it as seen, downloads  *)
(* its media and hands it to the handler the four adapters share; the      *)
(* handler answers a command, or claims a turn, runs the agent loop,       *)
(* streams or sends the reply and records it.                              *)
(*                                                                         *)
(* A step of the turn machine is one step here (ChatTurn takes it apart),  *)
(* the agent loop is the deltas it yields (AgentLoop), a conversation its  *)
(* number (History).  A delivery is named by its place in the order of     *)
(* arrival, an answer by the delivery that produced it.                    *)
(***************************************************************************)
EXTENDS Naturals, FiniteSets

CONSTANTS
    Msgs,           \* messages of one chat
    Modes,          \* adapters that may be configured
    Kinds,          \* kinds of message the platform may send
    MaxDeliveries,  \* bound: deliveries, first ones and repeated ones
    MaxDeltas,      \* bound: pieces of an answer
    MaxCrashes      \* bound: restarts of the process

ASSUME InboundAssumption ==
    /\ MaxDeliveries \in Nat /\ MaxDeltas \in Nat \ {0} /\ MaxCrashes \in Nat
    /\ Modes \subseteq {"wecom-ws", "wecom-http", "feishu-ws", "feishu-http"}
    /\ Kinds \subseteq {"text", "blank", "reset", "image", "voice", "other", "stranger", "noid", "forged"}

Deliveries == 1..MaxDeliveries
None       == 0
Http       == {"wecom-http", "feishu-http"}
Media      == {"image", "voice"}

VARIABLES
    mode,      \* the adapter
    kind,      \* message -> its kind
    channel,   \* "off", "on", "stopped": started and tracked, stopped by StopAll
    delivery,  \* delivery -> where it is
    arrived,   \* how many there were
    seen,      \* keys of the Redis dedup
    conv,      \* the conversation the session key leads to; None before it is made
    convs,     \* conversations made
    turn,      \* message -> [status, by]
    recorded,  \* <<conversation, message, delivery>> in the history
    shown,     \* <<message, text>> the user was sent; a text is an answer, named by
               \* who produced it, or a notice of the handler
    crashes

vars == <<mode, kind, channel, delivery, arrived, seen, conv, convs, turn, recorded, shown, crashes>>

NoTurn    == [status |-> "none", by |-> None]
Answer(d) == <<"answer", d>>
Notice(t) == <<t, None>>
Waiting   == [pc |-> "none", msg |-> None, conv |-> None, turn |-> "", sent |-> 0, stream |-> "none", fault |-> FALSE]

Init ==
    /\ mode \in Modes /\ kind \in [Msgs -> Kinds] /\ channel = "off"
    /\ delivery = [d \in Deliveries |-> Waiting] /\ arrived = 0
    /\ seen = {} /\ conv = None /\ convs = 0
    /\ turn = [m \in Msgs |-> NoTurn] /\ recorded = {} /\ shown = {} /\ crashes = 0

-----------------------------------------------------------------------------
(* InitChannels and StopChannels.  An adapter that cannot be created or    *)
(* started is left out; StopAll stops a websocket, not a webhook.          *)

Start ==
    /\ channel = "off" /\ channel' = "on"
    /\ UNCHANGED <<mode, kind, delivery, arrived, seen, conv, convs, turn, recorded, shown, crashes>>

StopAll ==
    /\ channel = "on" /\ channel' = "stopped"
    /\ UNCHANGED <<mode, kind, delivery, arrived, seen, conv, convs, turn, recorded, shown, crashes>>

Receives == channel = "on" \/ (channel = "stopped" /\ mode \in Http)

-----------------------------------------------------------------------------
(* The adapters *)

Msg(d)      == delivery[d].msg
Kind(d)     == kind[Msg(d)]
At(d, pc)   == delivery[d].pc = pc
Put(d, r)   == delivery' = [delivery EXCEPT ![d] = r]
Goto(d, pc) == Put(d, [delivery[d] EXCEPT !.pc = pc])
Fails(d)    == Put(d, [delivery[d] EXCEPT !.pc = "done", !.fault = TRUE])

Deliver(m) ==
    /\ Receives /\ arrived < MaxDeliveries /\ arrived' = arrived + 1
    /\ Put(arrived + 1, [Waiting EXCEPT !.pc = "check", !.msg = m])
    /\ UNCHANGED <<mode, kind, channel, seen, conv, convs, turn, recorded, shown, crashes>>

(* What each adapter does with a kind of message: drop it, download its    *)
(* media first, or hand it over.  The signature comes first, then the id,  *)
(* the allow list and the type.  WeCom's websocket gets voice transcribed; *)
(* only Feishu drops an empty text.                                        *)
WecomWSTakes(k) == IF k \in {"stranger", "other", "image"} THEN "done" ELSE "command"

WecomHTTPTakes(k) ==
    IF k \in {"forged", "stranger", "other"} THEN "done" ELSE IF k \in Media THEN "fetch" ELSE "command"

FeishuWSTakes(k) ==
    IF k \in {"noid", "stranger", "other", "blank"} THEN "done" ELSE IF k \in Media THEN "fetch" ELSE "command"

FeishuHTTPTakes(k) == IF k = "forged" THEN "done" ELSE FeishuWSTakes(k)

Takes(k) ==
    CASE mode = "wecom-ws"    -> WecomWSTakes(k)
      [] mode = "wecom-http"  -> WecomHTTPTakes(k)
      [] mode = "feishu-ws"   -> FeishuWSTakes(k)
      [] mode = "feishu-http" -> FeishuHTTPTakes(k)

(* The dedup is a hint: a hit and a failing Redis change nothing.          *)
Marks(k) == mode # "wecom-http" /\ k # "noid" /\ (k = "forged" => mode \notin Http)

IsDuplicate(d) == seen' \in {seen, IF Marks(Kind(d)) THEN seen \cup {Msg(d)} ELSE seen}

(* Mutant: a hit of the dedup drops the message. *)
ScreenDedups(d) ==
    /\ At(d, "check") /\ IsDuplicate(d)
    /\ Goto(d, IF Marks(Kind(d)) /\ Msg(d) \in seen THEN "done" ELSE Takes(Kind(d)))
    /\ UNCHANGED <<mode, kind, channel, arrived, conv, convs, turn, recorded, shown, crashes>>

Screen(d) ==
    /\ At(d, "check") /\ IsDuplicate(d) /\ Goto(d, Takes(Kind(d)))
    /\ UNCHANGED <<mode, kind, channel, arrived, conv, convs, turn, recorded, shown, crashes>>

Forget ==
    /\ seen # {} /\ seen' = {}
    /\ UNCHANGED <<mode, kind, channel, delivery, arrived, conv, convs, turn, recorded, shown, crashes>>

(* The platform has had its 200 by now: a message whose media cannot be    *)
(* downloaded is given up.  Feishu's websocket takes what it could read.   *)
WecomDownload(d)   == mode = "wecom-http" /\ (Goto(d, "command") \/ Fails(d))
FeishuDownload(d)  == mode = "feishu-ws" /\ (Goto(d, "command") \/ Fails(d))
WebhookDownload(d) == mode = "feishu-http" /\ (Goto(d, "command") \/ Fails(d))

Fetch(d) ==
    /\ At(d, "fetch") /\ (WecomDownload(d) \/ FeishuDownload(d) \/ WebhookDownload(d))
    /\ UNCHANGED <<mode, kind, channel, arrived, seen, conv, convs, turn, recorded, shown, crashes>>

-----------------------------------------------------------------------------
(* MessageHandler *)

(* A reply arrives, or the connection or the platform's API fails: WeCom's *)
(* websocket is gone once it is stopped.                                   *)
Linked      == ~(mode = "wecom-ws" /\ channel = "stopped")
Show(m, t)  == shown' = shown \cup {<<m, t>>}
Ends(d, t)  == (Linked /\ Show(Msg(d), t) /\ Goto(d, "done")) \/ (Fails(d) /\ UNCHANGED shown)
EndsBadly(d) == Fails(d) /\ ((Linked /\ Show(Msg(d), Notice("error"))) \/ UNCHANGED shown)

(* A reset that fails goes on as an ordinary message.                      *)
Command(d) ==
    /\ At(d, "command")
    /\ \/ Kind(d) # "reset" /\ Goto(d, "session") /\ UNCHANGED <<conv, shown>>
       \/ Kind(d) = "reset" /\ conv' = None /\ Ends(d, Notice("reset"))
       \/ Kind(d) = "reset" /\ Put(d, [delivery[d] EXCEPT !.pc = "session", !.fault = TRUE]) /\ UNCHANGED <<conv, shown>>
    /\ UNCHANGED <<mode, kind, channel, arrived, seen, convs, turn, recorded, crashes>>

Session(d) ==
    /\ At(d, "session")
    /\ convs' = IF conv = None THEN convs + 1 ELSE convs
    /\ conv'  = IF conv = None THEN convs' ELSE conv
    /\ Put(d, [delivery[d] EXCEPT !.pc = "claim", !.conv = conv'])
    /\ UNCHANGED <<mode, kind, channel, arrived, seen, turn, recorded, shown, crashes>>

(* A stream may end without a delta: nothing is shown of an empty answer.  *)
Streams  == mode = "wecom-ws"
Empty(d) == Streams /\ delivery[d].sent = 0

Proceed(d) == Put(d, [delivery[d] EXCEPT !.pc = "run", !.turn = IF Kind(d) = "noid" THEN "free" ELSE "mine"])

(* Mutant: a succeeded turn is executed again. *)
ClaimAgain(d) ==
    /\ At(d, "claim") /\ Proceed(d)
    /\ IF Kind(d) = "noid" THEN UNCHANGED turn
       ELSE turn' = [turn EXCEPT ![Msg(d)] = [status |-> "running", by |-> d]]
    /\ UNCHANGED <<mode, kind, channel, arrived, seen, conv, convs, recorded, shown, crashes>>

Claim(d) ==
    /\ At(d, "claim")
    /\ IF Kind(d) = "noid" THEN Proceed(d) /\ UNCHANGED <<turn, shown>>
       ELSE CASE turn[Msg(d)].status \in {"none", "failed"} ->
                 /\ Proceed(d) /\ UNCHANGED shown
                 /\ turn' = [turn EXCEPT ![Msg(d)] = [status |-> "running", by |-> d]]
              [] turn[Msg(d)].status = "succeeded" ->
                 /\ IF Empty(turn[Msg(d)].by) THEN Goto(d, "done") /\ UNCHANGED shown ELSE Ends(d, Answer(turn[Msg(d)].by))
                 /\ UNCHANGED turn
              [] OTHER ->
                 Put(d, [delivery[d] EXCEPT !.pc = "done", !.turn = "held"]) /\ UNCHANGED <<turn, shown>>
    /\ UNCHANGED <<mode, kind, channel, arrived, seen, conv, convs, recorded, crashes>>

(* acquireTurn fails: nothing is executed.                                 *)
ClaimFails(d) ==
    /\ At(d, "claim") /\ Kind(d) # "noid" /\ EndsBadly(d)
    /\ UNCHANGED <<mode, kind, channel, arrived, seen, conv, convs, turn, recorded, crashes>>

-----------------------------------------------------------------------------
(* handleStreamingReply: WeCom's websocket.  The first delta starts the    *)
(* stream, each later one sends the whole text again.                      *)

(* Mutant: every end is written as a failure. *)
FinishFailed(d, status) ==
    IF delivery[d].turn = "mine"
    THEN turn' \in {turn, [turn EXCEPT ![Msg(d)] = [status |-> "failed", by |-> d]]}
    ELSE UNCHANGED turn

(* finishTurn: a write that fails is only logged.                          *)
Finish(d, status) ==
    IF delivery[d].turn = "mine"
    THEN turn' \in {turn, [turn EXCEPT ![Msg(d)] = [status |-> status, by |-> d]]}
    ELSE UNCHANGED turn

StartStream(d) ==
    /\ Streams /\ At(d, "run") /\ delivery[d].stream = "none"
    /\ \/ Linked /\ Put(d, [delivery[d] EXCEPT !.stream = "open", !.sent = 1]) /\ UNCHANGED shown
       \/ EndsBadly(d)
    /\ UNCHANGED <<mode, kind, channel, arrived, seen, conv, convs, turn, recorded, crashes>>

AppendStream(d) ==
    /\ At(d, "run") /\ delivery[d].stream = "open" /\ delivery[d].sent < MaxDeltas
    /\ Put(d, [delivery[d] EXCEPT !.sent = @ + 1])
    /\ UNCHANGED <<mode, kind, channel, arrived, seen, conv, convs, turn, recorded, shown, crashes>>

FinishStream(d, text, next) ==
    \/ Linked /\ Put(d, [delivery[d] EXCEPT !.pc = next, !.stream = "finished"]) /\ Show(Msg(d), text)
    \/ Put(d, [delivery[d] EXCEPT !.pc = next, !.fault = TRUE]) /\ UNCHANGED shown

(* Mutant: the error is sent beside the stream. *)
StreamErrorReplies(d) ==
    /\ Streams /\ At(d, "run") /\ Linked /\ Goto(d, "fail") /\ Show(Msg(d), Notice("error"))
    /\ UNCHANGED <<mode, kind, channel, arrived, seen, conv, convs, turn, recorded, crashes>>

(* The loop yields an error: it ends the stream, or is sent by itself; the *)
(* turn is finished after that.                                            *)
StreamError(d) ==
    /\ Streams /\ At(d, "run")
    /\ \/ delivery[d].stream = "open" /\ FinishStream(d, Notice("error"), "fail")
       \/ /\ Put(d, [delivery[d] EXCEPT !.pc = "fail", !.fault = TRUE])
          /\ (Linked /\ Show(Msg(d), Notice("error"))) \/ UNCHANGED shown
    /\ UNCHANGED <<mode, kind, channel, arrived, seen, conv, convs, turn, recorded, crashes>>

StreamFailed(d) ==
    /\ At(d, "fail") /\ Finish(d, "failed") /\ Goto(d, "done")
    /\ UNCHANGED <<mode, kind, channel, arrived, seen, conv, convs, recorded, shown, crashes>>

StreamEnd(d) ==
    /\ Streams /\ At(d, "run") /\ Finish(d, "succeeded")
    /\ Goto(d, IF delivery[d].stream = "open" THEN "close" ELSE "done")
    /\ UNCHANGED <<mode, kind, channel, arrived, seen, conv, convs, recorded, shown, crashes>>

CloseStream(d) ==
    /\ At(d, "close") /\ FinishStream(d, Answer(d), "record")
    /\ UNCHANGED <<mode, kind, channel, arrived, seen, conv, convs, turn, recorded, crashes>>

-----------------------------------------------------------------------------
(* handleRegularReply: the other three                                     *)

RunEnds(d) ==
    /\ ~Streams /\ At(d, "run")
    /\ \/ Finish(d, "succeeded") /\ Goto(d, "record") /\ UNCHANGED shown
       \/ Finish(d, "failed") /\ EndsBadly(d)
    /\ UNCHANGED <<mode, kind, channel, arrived, seen, conv, convs, recorded, crashes>>

Record(d) ==
    /\ At(d, "record") /\ Goto(d, IF Streams THEN "done" ELSE "reply")
    /\ recorded' = recorded \cup {<<delivery[d].conv, Msg(d), d>>}
    /\ UNCHANGED <<mode, kind, channel, arrived, seen, conv, convs, turn, shown, crashes>>

(* WeCom's webhook sends the answer in pieces: some may arrive before one  *)
(* fails.                                                                  *)
Part(d) == <<"part", d>>

WecomReply(d) ==
    /\ mode = "wecom-http"
    /\ Ends(d, Answer(d)) \/ (Fails(d) /\ Show(Msg(d), Part(d)))

FeishuReply(d)  == mode = "feishu-ws" /\ Ends(d, Answer(d))
WebhookReply(d) == mode = "feishu-http" /\ Ends(d, Answer(d))

Reply(d) ==
    /\ At(d, "reply") /\ (WecomReply(d) \/ FeishuReply(d) \/ WebhookReply(d))
    /\ UNCHANGED <<mode, kind, channel, arrived, seen, conv, convs, turn, recorded, crashes>>

-----------------------------------------------------------------------------
(* The process ends and starts again: what was on its way is lost, and a   *)
(* turn that was running becomes interrupted.                              *)
Crash ==
    /\ channel # "off" /\ crashes < MaxCrashes /\ crashes' = crashes + 1 /\ channel' = "off"
    /\ delivery' = [d \in Deliveries |->
           IF delivery[d].pc \in {"none", "done"} THEN delivery[d]
           ELSE [delivery[d] EXCEPT !.pc = "done", !.fault = TRUE]]
    /\ turn' = [m \in Msgs |-> IF turn[m].status = "running" THEN [turn[m] EXCEPT !.status = "interrupted"] ELSE turn[m]]
    /\ UNCHANGED <<mode, kind, arrived, seen, conv, convs, recorded, shown>>

Handle(d) ==
    \/ Screen(d) \/ Fetch(d) \/ Command(d) \/ Session(d) \/ Claim(d) \/ ClaimFails(d)
    \/ StartStream(d) \/ AppendStream(d) \/ StreamError(d) \/ StreamFailed(d) \/ StreamEnd(d) \/ CloseStream(d)
    \/ RunEnds(d) \/ Record(d) \/ Reply(d)

Next ==
    \/ Start \/ StopAll \/ Forget \/ Crash
    \/ \E m \in Msgs : Deliver(m)
    \/ \E d \in Deliveries : Handle(d)

Spec == Init /\ [][Next]_vars
=============================================================================
