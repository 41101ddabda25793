---------------------------- MODULE InboundProofs ----------------------------
(***************************************************************************)
(* Theorems about a platform message on its way through a channel, for any *)
(* number of messages, deliveries, pieces of an answer and restarts.       *)
(*                                                                         *)
(* The inductive invariant follows a turn from the delivery that claims it *)
(* to the answer: while the delivery runs the turn is its own; once it is  *)
(* over with an answer no other delivery can claim the turn again, so all  *)
(* the answers and the records there are of a message are of the delivery  *)
(* the turn names.                                                         *)
(***************************************************************************)
EXTENDS InboundProps, FiniteSetTheorems, TLAPS

Inside == {"run", "fail", "close", "record", "reply"}   \* a delivery that has its turn
Over   == {"close", "record", "reply", "done"}          \* one that runs no more

DeliveryType == [pc : Pcs, msg : Msgs \cup {None}, conv : Nat,
                 turn : {"", "free", "mine", "held"}, sent : 0..MaxDeltas,
                 stream : {"none", "open", "finished"}, fault : BOOLEAN]

TurnType == [status : {"none", "running", "succeeded", "failed", "interrupted"},
             by : Deliveries \cup {None}]

TypesInv ==
    /\ mode \in Modes /\ kind \in [Msgs -> Kinds] /\ channel \in {"off", "on", "stopped"}
    /\ delivery \in [Deliveries -> DeliveryType] /\ turn \in [Msgs -> TurnType]
    /\ arrived \in Nat /\ seen \subseteq Msgs /\ convs \in Nat /\ conv \in 0..convs
    /\ crashes \in 0..MaxCrashes

(* What arrived is a message, and has the turn of its message to itself    *)
(* when it runs; a message without an id has none.                         *)
PlacesInv ==
    \A d \in Deliveries :
        /\ d > arrived => At(d, "none")
        /\ ~At(d, "none") => Msg(d) \in Msgs
        /\ delivery[d].pc \in Inside =>
              delivery[d].turn = IF Kind(d) = "noid" THEN "free" ELSE "mine"

(* A turn belongs to the delivery that runs, until it has written how it   *)
(* ended; a turn that succeeded is of a delivery that is over.             *)
TurnsInv ==
    /\ \A d \in Deliveries : ~At(d, "none") /\ Kind(d) # "noid" =>
          /\ delivery[d].pc \in {"run", "fail"} => turn[Msg(d)] = [status |-> "running", by |-> d]
          /\ delivery[d].pc \in {"close", "record", "reply"} =>
                turn[Msg(d)].by = d /\ turn[Msg(d)].status \in {"running", "succeeded"}
    /\ \A m \in Msgs : turn[m].status = "succeeded" =>
          turn[m].by \in Deliveries /\ delivery[turn[m].by].pc \in Over

(* Nobody claims the turn of m any more: its delivery is over, and it did  *)
(* not fail.                                                               *)
Settled(m) ==
    /\ turn[m].status \in {"running", "succeeded", "interrupted"}
    /\ turn[m].by \in Deliveries /\ delivery[turn[m].by].pc \in Over

(* What the user has seen and the history holds is of the delivery that    *)
(* has the turn for good.                                                  *)
Stands(s) ==
    /\ s = <<s[1], s[2]>> /\ s[1] \in Msgs
    /\ s[2][1] = "answer" /\ kind[s[1]] # "noid" => s[2] = Answer(turn[s[1]].by) /\ Settled(s[1])

Holds(r, d) ==
    /\ delivery[d].pc \in {"reply", "done"} /\ r = <<delivery[d].conv, Msg(d), d>> /\ Msg(d) \in Msgs
    /\ Kind(d) # "noid" => turn[Msg(d)].by = d /\ Settled(Msg(d))

AnswersInv ==
    /\ \A s \in shown : Stands(s)
    /\ \A r \in recorded : \E d \in Deliveries : Holds(r, d)

(* A stream is open only while its delivery runs or closes it, unless      *)
(* something failed; only WeCom's websocket has streams.                   *)
StreamsInv ==
    \A d \in Deliveries :
        /\ delivery[d].stream = "open" => delivery[d].pc \in {"run", "close"} \/ delivery[d].fault
        /\ delivery[d].stream # "none" \/ At(d, "close") => Streams

InboundInv == TypesInv /\ PlacesInv /\ TurnsInv /\ AnswersInv /\ StreamsInv /\ SecondChance

LEMMA Numbers == 1 \in 0..MaxDeltas /\ 0 \in 0..MaxDeltas /\ \A d \in Deliveries : d \in Nat /\ d # None
BY InboundAssumption DEF Deliveries, None

-----------------------------------------------------------------------------
(* Where a step leaves a delivery: the others stay where they are, and a   *)
(* delivery stays one of its message.                                      *)
Walks(d) ==
    /\ delivery' \in [Deliveries -> DeliveryType]
    /\ \A e \in Deliveries : e # d => delivery'[e] = delivery[e]
    /\ delivery'[d].msg = delivery[d].msg

(* Only its place and whether something failed may be new.                 *)
Keeps(d, pc) ==
    /\ Walks(d) /\ delivery'[d].pc = pc
    /\ delivery'[d].conv = delivery[d].conv /\ delivery'[d].turn = delivery[d].turn
    /\ delivery'[d].sent = delivery[d].sent /\ delivery'[d].stream = delivery[d].stream

SameFault(d) == delivery'[d].fault = delivery[d].fault

(* What a step shows of the text t to the sender of d.                     *)
Shows(d, t) == shown' \subseteq shown \cup {<<Msg(d), t>>}

LEMMA Placed ==
    ASSUME TypesInv, NEW d \in Deliveries, NEW new \in DeliveryType, new.msg = Msg(d), Put(d, new)
    PROVE  Walks(d) /\ delivery'[d] = new
BY DEF TypesInv, Walks, Put, Msg

LEMMA Going ==
    ASSUME TypesInv, NEW d \in Deliveries, NEW pc \in Pcs, Goto(d, pc)
    PROVE  Keeps(d, pc) /\ SameFault(d)
<1> DEFINE new == [delivery[d] EXCEPT !.pc = pc]
<1>1. new \in DeliveryType /\ new.msg = Msg(d) /\ new.pc = pc /\ new.fault = delivery[d].fault
      BY DEF TypesInv, DeliveryType, Msg
<1>2. new.conv = delivery[d].conv /\ new.turn = delivery[d].turn /\ new.sent = delivery[d].sent
      /\ new.stream = delivery[d].stream
      BY DEF TypesInv, DeliveryType
<1>3. Put(d, new)
      BY DEF Goto
<1> HIDE DEF new
<1> QED BY <1>1, <1>2, <1>3, Placed DEF Keeps, SameFault

LEMMA GoingBadly ==
    ASSUME TypesInv, NEW d \in Deliveries, NEW pc \in Pcs,
           Put(d, [delivery[d] EXCEPT !.pc = pc, !.fault = TRUE])
    PROVE  Keeps(d, pc) /\ delivery'[d].fault
<1> DEFINE mid == [delivery[d] EXCEPT !.pc = pc]
           new == [mid EXCEPT !.fault = TRUE]
<1>1. mid \in DeliveryType /\ mid.msg = Msg(d) /\ mid.pc = pc
      BY DEF TypesInv, DeliveryType, Msg
<1>2. mid.conv = delivery[d].conv /\ mid.turn = delivery[d].turn /\ mid.sent = delivery[d].sent
      /\ mid.stream = delivery[d].stream
      BY DEF TypesInv, DeliveryType
<1>3. Put(d, new)
      OBVIOUS
<1> HIDE DEF mid
<1>4. new \in DeliveryType /\ new.msg = Msg(d) /\ new.pc = pc /\ new.fault = TRUE
      BY <1>1 DEF DeliveryType
<1>5. new.conv = delivery[d].conv /\ new.turn = delivery[d].turn /\ new.sent = delivery[d].sent
      /\ new.stream = delivery[d].stream
      BY <1>1, <1>2 DEF DeliveryType
<1> HIDE DEF new
<1> QED BY <1>3, <1>4, <1>5, Placed DEF Keeps

LEMMA Failing ==
    ASSUME TypesInv, NEW d \in Deliveries, Fails(d)
    PROVE  Keeps(d, "done") /\ delivery'[d].fault
BY GoingBadly DEF Fails, Pcs

(* A reply that does not come through is a fault of its delivery.          *)
LEMMA Ending ==
    ASSUME TypesInv, NEW d \in Deliveries, NEW t, Ends(d, t)
    PROVE  Keeps(d, "done") /\ Shows(d, t) /\ (SameFault(d) \/ delivery'[d].fault)
<1>1. CASE Goto(d, "done") /\ Show(Msg(d), t)
      BY <1>1, Going DEF Pcs, Show, Shows
<1>2. CASE Fails(d) /\ UNCHANGED shown
      BY <1>2, Failing DEF Shows
<1> QED BY <1>1, <1>2 DEF Ends

LEMMA EndingBadly ==
    ASSUME TypesInv, NEW d \in Deliveries, EndsBadly(d)
    PROVE  Keeps(d, "done") /\ delivery'[d].fault /\ Shows(d, Notice("error"))
BY Failing DEF EndsBadly, Show, Shows

LEMMA Finishing ==
    ASSUME TypesInv, NEW d \in Deliveries, NEW t, NEW pc \in Pcs, FinishStream(d, t, pc)
    PROVE  /\ Walks(d) /\ delivery'[d].pc = pc /\ Shows(d, t)
           /\ delivery'[d].conv = delivery[d].conv /\ delivery'[d].turn = delivery[d].turn
           /\ \/ delivery'[d].fault /\ delivery'[d].stream = delivery[d].stream
              \/ delivery'[d].stream = "finished" /\ SameFault(d)
<1>1. CASE Put(d, [delivery[d] EXCEPT !.pc = pc, !.fault = TRUE]) /\ UNCHANGED shown
      BY <1>1, GoingBadly DEF Keeps, Shows
<1>2. CASE Put(d, [delivery[d] EXCEPT !.pc = pc, !.stream = "finished"]) /\ Show(Msg(d), t)
  <2> DEFINE mid == [delivery[d] EXCEPT !.pc = pc]
             new == [mid EXCEPT !.stream = "finished"]
  <2>1. mid \in DeliveryType /\ mid.msg = Msg(d) /\ mid.pc = pc /\ mid.fault = delivery[d].fault
        /\ mid.conv = delivery[d].conv /\ mid.turn = delivery[d].turn
        BY DEF TypesInv, DeliveryType, Msg
  <2>2. Put(d, new)
        BY <1>2
  <2> HIDE DEF mid
  <2>3. new \in DeliveryType /\ new.msg = Msg(d) /\ new.pc = pc /\ new.stream = "finished"
        /\ new.fault = delivery[d].fault /\ new.conv = delivery[d].conv /\ new.turn = delivery[d].turn
        BY <2>1 DEF DeliveryType
  <2> HIDE DEF new
  <2> QED BY <1>2, <2>2, <2>3, Placed DEF Show, Shows, SameFault
<1> QED BY <1>1, <1>2 DEF FinishStream

-----------------------------------------------------------------------------
(* What a step does to a delivery, by how far it has come.  Before the     *)
(* claim: the turns are left alone, and only a message the adapter does    *)
(* not take, a reset or a fault ends it.                                   *)
Comes(d) ==
    /\ delivery[d].pc \in {"check", "fetch", "command", "session"}
    /\ Walks(d) /\ delivery'[d].pc \in {"fetch", "command", "session", "claim", "done"}
    /\ delivery'[d].stream = delivery[d].stream
    /\ delivery[d].fault => delivery'[d].fault
    /\ delivery'[d].pc = "done" => delivery'[d].fault \/ ~Accepted(Msg(d)) \/ Kind(d) = "reset"
    /\ turn' = turn /\ recorded' = recorded /\ Shows(d, Notice("reset"))

(* It does not get the turn: the answer there is of it is sent again.      *)
Misses(d) ==
    /\ At(d, "claim") /\ Walks(d) /\ delivery'[d].pc = "done"
    /\ delivery'[d].stream = delivery[d].stream
    /\ delivery[d].fault => delivery'[d].fault
    /\ delivery'[d].fault \/ turn[Msg(d)].status # "none"
    /\ turn' = turn /\ recorded' = recorded
    /\ \/ Shows(d, Notice("error"))
       \/ turn[Msg(d)].status = "succeeded" /\ Shows(d, Answer(turn[Msg(d)].by))

Gets(d) ==
    /\ At(d, "claim") /\ Walks(d) /\ delivery'[d].pc = "run"
    /\ delivery'[d].turn = IF Kind(d) = "noid" THEN "free" ELSE "mine"
    /\ delivery'[d].stream = delivery[d].stream
    /\ recorded' = recorded /\ shown' = shown
    /\ \/ Kind(d) = "noid" /\ turn' = turn
       \/ /\ turn[Msg(d)].status \in {"none", "failed"}
          /\ turn' = [turn EXCEPT ![Msg(d)] = [status |-> "running", by |-> d]]

(* It streams on.                                                          *)
Runs(d) ==
    /\ At(d, "run") /\ Walks(d) /\ delivery'[d].pc = "run"
    /\ delivery'[d].turn = delivery[d].turn
    /\ Streams \/ delivery'[d].stream = delivery[d].stream
    /\ turn' = turn /\ recorded' = recorded /\ shown' = shown

(* The run is over: its end is written, or that fails.                     *)
Stops(d) ==
    /\ delivery[d].pc \in {"run", "fail"} /\ Walks(d)
    /\ delivery'[d].pc \in {"fail", "close", "record", "done"}
    /\ delivery'[d].turn = delivery[d].turn
    /\ Streams \/ delivery'[d].stream = delivery[d].stream
    /\ delivery'[d].stream = "open" => delivery'[d].pc = "close" \/ delivery'[d].fault
    /\ delivery'[d].pc = "close" => Streams
    /\ recorded' = recorded /\ Shows(d, Notice("error"))
    /\ \/ turn' = turn
       \/ /\ delivery[d].turn = "mine" /\ delivery'[d].pc \in {"close", "record", "done"}
          /\ turn' = [turn EXCEPT ![Msg(d)] = [status |-> "succeeded", by |-> d]]
       \/ /\ delivery[d].turn = "mine" /\ delivery'[d].pc = "done"
          /\ turn' = [turn EXCEPT ![Msg(d)] = [status |-> "failed", by |-> d]]

(* The answer is sent and recorded.                                        *)
Answers(d) ==
    /\ delivery[d].pc \in {"close", "record", "reply"} /\ Walks(d)
    /\ delivery'[d].conv = delivery[d].conv /\ delivery'[d].turn = delivery[d].turn
    /\ delivery[d].pc = "close" => delivery'[d].pc = "record"
    /\ delivery[d].pc # "close" => delivery'[d].pc \in {"reply", "done"}
    /\ delivery'[d].stream # "none" => Streams
    /\ delivery'[d].stream = "open" => delivery'[d].fault
    /\ turn' = turn
    /\ \/ recorded' = recorded /\ (Shows(d, Answer(d)) \/ Shows(d, Part(d)))
       \/ /\ At(d, "record") /\ shown' = shown
          /\ recorded' = recorded \cup {<<delivery[d].conv, Msg(d), d>>}

LEMMA Takings == mode \in Modes => \A k : Takes(k) \in {"fetch", "command", "done"}
BY InboundAssumption DEF Takes, WecomWSTakes, WecomHTTPTakes, FeishuWSTakes, FeishuHTTPTakes

LEMMA Coming ==
    ASSUME TypesInv, PlacesInv, NEW d \in Deliveries,
           Screen(d) \/ Fetch(d) \/ Command(d) \/ Session(d)
    PROVE  Comes(d)
<1> USE DEF Pcs, At
<1>1. CASE Screen(d)
  <2>1. Takes(Kind(d)) \in {"fetch", "command", "done"}
        BY Takings DEF TypesInv
  <2>2. Keeps(d, Takes(Kind(d))) /\ SameFault(d)
        BY <1>1, <2>1, Going DEF Screen
  <2> QED BY <1>1, <2>1, <2>2 DEF Screen, Keeps, SameFault, Comes, Accepted, Kind, Shows
<1>2. CASE Fetch(d)
  <2>1. CASE Goto(d, "command")
        BY <1>2, <2>1, Going DEF Fetch, Comes, Keeps, SameFault, Shows
  <2>2. CASE Fails(d)
        BY <1>2, <2>2, Failing DEF Fetch, Comes, Keeps, Shows
  <2> QED BY <1>2, <2>1, <2>2 DEF Fetch, WecomDownload, FeishuDownload, WebhookDownload
<1>3. CASE Command(d)
  <2>1. CASE Goto(d, "session") /\ UNCHANGED <<conv, shown>>
        BY <1>3, <2>1, Going DEF Command, Comes, Keeps, SameFault, Shows
  <2>2. CASE Kind(d) = "reset" /\ Ends(d, Notice("reset"))
        BY <1>3, <2>2, Ending DEF Command, Comes, Keeps, SameFault
  <2>3. CASE Put(d, [delivery[d] EXCEPT !.pc = "session", !.fault = TRUE]) /\ UNCHANGED <<conv, shown>>
        BY <1>3, <2>3, GoingBadly DEF Command, Comes, Keeps, Shows
  <2> QED BY <1>3, <2>1, <2>2, <2>3 DEF Command
<1>4. CASE Session(d)
  <2> DEFINE mid == [delivery[d] EXCEPT !.pc = "claim"]
             new == [mid EXCEPT !.conv = conv']
  <2>1. conv' \in Nat
        BY <1>4 DEF Session, TypesInv
  <2>2. /\ mid \in DeliveryType /\ mid.msg = Msg(d) /\ mid.pc = "claim"
        /\ mid.stream = delivery[d].stream /\ mid.fault = delivery[d].fault
        BY DEF TypesInv, DeliveryType, Msg
  <2>3. Put(d, new)
        BY <1>4 DEF Session
  <2> HIDE DEF mid
  <2>4. /\ new \in DeliveryType /\ new.msg = Msg(d) /\ new.pc = "claim"
        /\ new.stream = delivery[d].stream /\ new.fault = delivery[d].fault
        BY <2>1, <2>2 DEF DeliveryType
  <2> HIDE DEF new
  <2> QED BY <1>4, <2>3, <2>4, Placed DEF Session, Comes, Shows
<1> QED BY <1>1, <1>2, <1>3, <1>4

LEMMA Proceeding ==
    ASSUME TypesInv, NEW d \in Deliveries, Proceed(d)
    PROVE  /\ Walks(d) /\ delivery'[d].pc = "run" /\ delivery'[d].stream = delivery[d].stream
           /\ delivery'[d].turn = IF Kind(d) = "noid" THEN "free" ELSE "mine"
<1> DEFINE t == IF Kind(d) = "noid" THEN "free" ELSE "mine"
           mid == [delivery[d] EXCEPT !.pc = "run"]
           new == [mid EXCEPT !.turn = t]
<1>1. t \in {"free", "mine"}
      OBVIOUS
<1>2. mid \in DeliveryType /\ mid.msg = Msg(d) /\ mid.pc = "run" /\ mid.stream = delivery[d].stream
      BY DEF TypesInv, DeliveryType, Msg, Pcs
<1>3. Put(d, new)
      BY DEF Proceed
<1> HIDE DEF mid, t
<1>4. new \in DeliveryType /\ new.msg = Msg(d) /\ new.pc = "run" /\ new.stream = delivery[d].stream /\ new.turn = t
      BY <1>1, <1>2 DEF DeliveryType
<1> HIDE DEF new
<1> QED BY <1>3, <1>4, Placed DEF t

LEMMA Claiming ==
    ASSUME TypesInv, PlacesInv, NEW d \in Deliveries, Claim(d) \/ ClaimFails(d)
    PROVE  Misses(d) \/ Gets(d)
<1> USE DEF At
<1>1. CASE ClaimFails(d)
      BY <1>1, EndingBadly DEF ClaimFails, Misses, Keeps
<1>2. CASE Claim(d) /\ Kind(d) = "noid"
      BY <1>2, Proceeding DEF Claim, Gets
<1>3. CASE Claim(d) /\ Kind(d) # "noid" /\ turn[Msg(d)].status \in {"none", "failed"}
  <2>1. /\ Proceed(d) /\ turn' = [turn EXCEPT ![Msg(d)] = [status |-> "running", by |-> d]]
        /\ UNCHANGED <<recorded, shown>> /\ delivery[d].pc = "claim"
        BY <1>3 DEF Claim
  <2> QED BY <1>3, <2>1, Proceeding DEF Gets
<1>4. CASE Claim(d) /\ Kind(d) # "noid" /\ turn[Msg(d)].status = "succeeded"
  <2>1. UNCHANGED <<turn, recorded>> /\ delivery[d].pc = "claim"
        BY <1>4 DEF Claim
  <2>2. CASE Goto(d, "done") /\ UNCHANGED shown
        BY <1>4, <2>1, <2>2, Going DEF Misses, Keeps, SameFault, Shows, Pcs
  <2>3. CASE Ends(d, Answer(turn[Msg(d)].by))
        BY <1>4, <2>1, <2>3, Ending DEF Misses, Keeps, SameFault
  <2> QED BY <1>4, <2>2, <2>3 DEF Claim
<1>5. CASE Claim(d) /\ Kind(d) # "noid" /\ turn[Msg(d)].status \notin {"none", "failed", "succeeded"}
  <2> DEFINE mid == [delivery[d] EXCEPT !.pc = "done"]
             new == [mid EXCEPT !.turn = "held"]
  <2>1. /\ mid \in DeliveryType /\ mid.msg = Msg(d) /\ mid.pc = "done"
        /\ mid.stream = delivery[d].stream /\ mid.fault = delivery[d].fault
        BY DEF TypesInv, DeliveryType, Msg, Pcs
  <2>2. Put(d, new) /\ UNCHANGED <<turn, recorded, shown>> /\ delivery[d].pc = "claim"
        BY <1>5 DEF Claim
  <2> HIDE DEF mid
  <2>3. /\ new \in DeliveryType /\ new.msg = Msg(d) /\ new.pc = "done"
        /\ new.stream = delivery[d].stream /\ new.fault = delivery[d].fault
        BY <2>1 DEF DeliveryType
  <2> HIDE DEF new
  <2> QED BY <1>5, <2>2, <2>3, Placed DEF Misses, Shows
<1> QED BY <1>1, <1>2, <1>3, <1>4, <1>5

LEMMA FinishingTurn ==
    ASSUME NEW d \in Deliveries, NEW status, Finish(d, status)
    PROVE  \/ turn' = turn
           \/ delivery[d].turn = "mine" /\ turn' = [turn EXCEPT ![Msg(d)] = [status |-> status, by |-> d]]
BY DEF Finish

LEMMA Streaming ==
    ASSUME TypesInv, StreamsInv, NEW d \in Deliveries, StartStream(d) \/ AppendStream(d)
    PROVE  Runs(d) \/ Stops(d)
<1> USE DEF At
<1>1. CASE StartStream(d) /\ EndsBadly(d)
      BY <1>1, EndingBadly DEF StartStream, Stops, Keeps
<1>2. CASE StartStream(d) /\ ~EndsBadly(d)
  <2> DEFINE mid == [delivery[d] EXCEPT !.stream = "open"]
             new == [mid EXCEPT !.sent = 1]
  <2>1. /\ Put(d, new) /\ UNCHANGED <<turn, recorded, shown>>
        /\ delivery[d].pc = "run" /\ Streams
        BY <1>2 DEF StartStream
  <2>2. /\ mid \in DeliveryType /\ mid.msg = Msg(d) /\ mid.pc = "run" /\ mid.turn = delivery[d].turn
        BY <2>1 DEF TypesInv, DeliveryType, Msg
  <2> HIDE DEF mid
  <2>3. new \in DeliveryType /\ new.msg = Msg(d) /\ new.pc = "run" /\ new.turn = delivery[d].turn
        BY <2>2, Numbers DEF DeliveryType
  <2> HIDE DEF new
  <2> QED BY <2>1, <2>3, Placed DEF Runs
<1>3. CASE AppendStream(d)
  <2> DEFINE next == delivery[d].sent + 1
             new == [delivery[d] EXCEPT !.sent = next]
  <2>1. /\ Put(d, new) /\ UNCHANGED <<turn, recorded, shown>>
        /\ delivery[d].pc = "run" /\ delivery[d].stream = "open" /\ delivery[d].sent < MaxDeltas
        BY <1>3 DEF AppendStream
  <2>2. delivery[d].sent \in 0..MaxDeltas /\ Streams
        BY <2>1 DEF TypesInv, DeliveryType, StreamsInv
  <2>3. next \in 0..MaxDeltas
        BY <2>1, <2>2, InboundAssumption
  <2> HIDE DEF next
  <2>4. new \in DeliveryType /\ new.msg = Msg(d) /\ new.pc = "run" /\ new.turn = delivery[d].turn
        BY <2>1, <2>3 DEF TypesInv, DeliveryType, Msg
  <2> HIDE DEF new
  <2> QED BY <2>1, <2>2, <2>4, Placed DEF Runs
<1> QED BY <1>1, <1>2, <1>3

LEMMA Stopping ==
    ASSUME TypesInv, StreamsInv, NEW d \in Deliveries,
           StreamError(d) \/ StreamFailed(d) \/ StreamEnd(d) \/ RunEnds(d)
    PROVE  Stops(d)
<1> USE DEF At
<1>0. /\ delivery[d].stream = "open" => delivery[d].pc \in {"run", "close"} \/ delivery[d].fault
      /\ delivery[d].stream # "none" \/ delivery[d].pc = "close" => Streams
      /\ {"fail", "close", "record", "done"} \subseteq Pcs
      BY DEF StreamsInv, Pcs, At
<1>1. CASE StreamError(d)
  <2>1. /\ delivery[d].pc = "run" /\ Streams /\ UNCHANGED <<turn, recorded>>
        /\ \/ FinishStream(d, Notice("error"), "fail")
           \/ /\ Put(d, [delivery[d] EXCEPT !.pc = "fail", !.fault = TRUE])
              /\ Show(Msg(d), Notice("error")) \/ UNCHANGED shown
        BY <1>1 DEF StreamError
  <2>2. CASE FinishStream(d, Notice("error"), "fail")
        BY <1>0, <2>1, <2>2, Finishing DEF Stops
  <2>3. CASE Put(d, [delivery[d] EXCEPT !.pc = "fail", !.fault = TRUE])
             /\ (Show(Msg(d), Notice("error")) \/ UNCHANGED shown)
        BY <1>0, <2>1, <2>3, GoingBadly DEF Stops, Keeps, Show, Shows
  <2> QED BY <2>1, <2>2, <2>3
<1>2. CASE StreamFailed(d)
  <2>1. /\ delivery[d].pc = "fail" /\ UNCHANGED <<recorded, shown>>
        /\ Finish(d, "failed") /\ Goto(d, "done")
        BY <1>2 DEF StreamFailed
  <2>2. Keeps(d, "done") /\ SameFault(d)
        BY <1>0, <2>1, Going
  <2> QED BY <1>0, <2>1, <2>2, FinishingTurn DEF Stops, Keeps, SameFault, Shows
<1>3. CASE StreamEnd(d)
  <2>1. /\ delivery[d].pc = "run" /\ UNCHANGED <<recorded, shown>> /\ Finish(d, "succeeded")
        /\ Goto(d, IF delivery[d].stream = "open" THEN "close" ELSE "done")
        BY <1>3 DEF StreamEnd
  <2>2. CASE delivery[d].stream = "open"
    <3>1. Keeps(d, "close") /\ Streams
          BY <1>0, <2>1, <2>2, Going
    <3> QED BY <1>0, <2>1, <3>1, FinishingTurn DEF Stops, Keeps, Shows
  <2>3. CASE delivery[d].stream # "open"
    <3>1. Keeps(d, "done")
          BY <1>0, <2>1, <2>3, Going
    <3> QED BY <1>0, <2>1, <2>3, <3>1, FinishingTurn DEF Stops, Keeps, Shows
  <2> QED BY <2>2, <2>3
<1>4. CASE RunEnds(d)
  <2>1. delivery[d].pc = "run" /\ UNCHANGED recorded /\ delivery[d].stream = "none"
        BY <1>0, <1>4 DEF RunEnds
  <2>2. CASE Finish(d, "succeeded") /\ Goto(d, "record") /\ UNCHANGED shown
    <3>1. Keeps(d, "record")
          BY <1>0, <2>2, Going
    <3> QED BY <2>1, <2>2, <3>1, FinishingTurn DEF Stops, Keeps, Shows
  <2>3. CASE Finish(d, "failed") /\ EndsBadly(d)
        BY <2>1, <2>3, FinishingTurn, EndingBadly DEF Stops, Keeps
  <2> QED BY <1>4, <2>2, <2>3 DEF RunEnds
<1> QED BY <1>1, <1>2, <1>3, <1>4

LEMMA Answering ==
    ASSUME TypesInv, StreamsInv, NEW d \in Deliveries, CloseStream(d) \/ Record(d) \/ Reply(d)
    PROVE  Answers(d)
<1> USE DEF At
<1>0. /\ delivery[d].stream = "open" => delivery[d].pc \in {"run", "close"} \/ delivery[d].fault
      /\ delivery[d].stream # "none" \/ delivery[d].pc = "close" => Streams
      /\ {"record", "reply", "done"} \subseteq Pcs
      BY DEF StreamsInv, Pcs, At
<1>1. CASE CloseStream(d)
  <2>1. delivery[d].pc = "close" /\ UNCHANGED <<turn, recorded>> /\ FinishStream(d, Answer(d), "record")
        BY <1>1 DEF CloseStream
  <2>2. /\ Walks(d) /\ delivery'[d].pc = "record" /\ Shows(d, Answer(d))
        /\ delivery'[d].conv = delivery[d].conv /\ delivery'[d].turn = delivery[d].turn
        /\ \/ delivery'[d].fault /\ delivery'[d].stream = delivery[d].stream
           \/ delivery'[d].stream = "finished" /\ SameFault(d)
        BY <1>0, <2>1, Finishing
  <2> QED BY <1>0, <2>1, <2>2 DEF Answers
<1>2. CASE Record(d)
  <2> DEFINE pc == IF Streams THEN "done" ELSE "reply"
  <2>1. /\ delivery[d].pc = "record" /\ UNCHANGED <<turn, shown>> /\ Goto(d, pc)
        /\ recorded' = recorded \cup {<<delivery[d].conv, Msg(d), d>>}
        BY <1>2 DEF Record
  <2>2. pc \in {"done", "reply"}
        OBVIOUS
  <2> HIDE DEF pc
  <2>3. Keeps(d, pc) /\ SameFault(d)
        BY <1>0, <2>1, <2>2, Going
  <2> QED BY <1>0, <2>1, <2>2, <2>3 DEF Answers, Keeps, SameFault
<1>3. CASE Reply(d)
  <2>1. /\ delivery[d].pc = "reply" /\ UNCHANGED <<turn, recorded>>
        /\ Ends(d, Answer(d)) \/ (Fails(d) /\ Show(Msg(d), Part(d)))
        BY <1>3 DEF Reply, WecomReply, FeishuReply, WebhookReply
  <2>2. CASE Ends(d, Answer(d))
        BY <1>0, <2>1, <2>2, Ending DEF Answers, Keeps, SameFault
  <2>3. CASE Fails(d) /\ Show(Msg(d), Part(d))
        BY <1>0, <2>1, <2>3, Failing DEF Answers, Keeps, Show, Shows
  <2> QED BY <2>1, <2>2, <2>3
<1> QED BY <1>1, <1>2, <1>3

LEMMA Handling ==
    ASSUME TypesInv, PlacesInv, StreamsInv, NEW d \in Deliveries, Handle(d)
    PROVE  /\ Comes(d) \/ Misses(d) \/ Gets(d) \/ Runs(d) \/ Stops(d) \/ Answers(d)
           /\ UNCHANGED <<mode, kind, channel, arrived, crashes>>
<1>1. Comes(d) \/ Misses(d) \/ Gets(d) \/ Runs(d) \/ Stops(d) \/ Answers(d)
      BY Coming, Claiming, Streaming, Stopping, Answering DEF Handle
<1>2. CASE Screen(d) \/ Fetch(d) \/ Command(d) \/ Session(d) \/ Claim(d)
      BY <1>1, <1>2 DEF Screen, Fetch, Command, Session, Claim
<1>3. CASE ClaimFails(d) \/ StartStream(d) \/ AppendStream(d) \/ StreamError(d) \/ StreamFailed(d)
      BY <1>1, <1>3 DEF ClaimFails, StartStream, AppendStream, StreamError, StreamFailed
<1>4. CASE StreamEnd(d) \/ CloseStream(d) \/ RunEnds(d) \/ Record(d) \/ Reply(d)
      BY <1>1, <1>4 DEF StreamEnd, CloseStream, RunEnds, Record, Reply
<1> QED BY <1>1, <1>2, <1>3, <1>4 DEF Handle

-----------------------------------------------------------------------------
(* The steps that are no delivery's: a new one arrives, or all those on    *)
(* their way are lost.                                                     *)
Arrives(d) ==
    /\ d \in Deliveries /\ d = arrived + 1 /\ arrived' = arrived + 1
    /\ delivery' \in [Deliveries -> DeliveryType]
    /\ \A e \in Deliveries : e # d => delivery'[e] = delivery[e]
    /\ delivery'[d].pc = "check" /\ delivery'[d].msg \in Msgs /\ delivery'[d].stream = "none"

LEMMA Arriving ==
    ASSUME TypesInv, NEW m \in Msgs, Deliver(m)
    PROVE  Arrives(arrived + 1)
<1> DEFINE d == arrived + 1
           mid == [Waiting EXCEPT !.pc = "check"]
           new == [mid EXCEPT !.msg = m]
<1>1. d \in Deliveries
      BY InboundAssumption DEF Deliver, TypesInv, Deliveries
<1>2. mid \in DeliveryType /\ mid.pc = "check" /\ mid.stream = "none"
      BY Numbers DEF Waiting, DeliveryType, Pcs, None
<1>3. Put(d, new) /\ arrived' = arrived + 1
      BY DEF Deliver
<1> HIDE DEF mid
<1>4. new \in DeliveryType /\ new.pc = "check" /\ new.msg = m /\ new.stream = "none"
      BY <1>2 DEF DeliveryType
<1> HIDE DEF new, d
<1>5. /\ delivery' \in [Deliveries -> DeliveryType] /\ delivery'[d] = new
      /\ \A e \in Deliveries : e # d => delivery'[e] = delivery[e]
      BY <1>1, <1>3, <1>4 DEF TypesInv, Put
<1> QED BY <1>1, <1>3, <1>4, <1>5 DEF Arrives, d

Lost ==
    /\ delivery' \in [Deliveries -> DeliveryType] /\ turn' \in [Msgs -> TurnType]
    /\ \A d \in Deliveries :
          /\ delivery'[d].msg = delivery[d].msg /\ delivery'[d].conv = delivery[d].conv
          /\ delivery'[d].pc = IF At(d, "none") THEN "none" ELSE "done"
          /\ delivery'[d].stream = delivery[d].stream
          /\ delivery'[d].fault = (delivery[d].fault \/ delivery[d].pc \notin {"none", "done"})
    /\ \A m \in Msgs :
          /\ turn'[m].by = turn[m].by
          /\ turn'[m].status = IF turn[m].status = "running" THEN "interrupted" ELSE turn[m].status
    /\ UNCHANGED <<mode, kind, arrived, seen, conv, convs, recorded, shown>>

LEMMA Losing ==
    ASSUME TypesInv, Crash
    PROVE  Lost
<1>1. ASSUME NEW d \in Deliveries
      PROVE  /\ delivery'[d] \in DeliveryType
             /\ delivery'[d].msg = delivery[d].msg /\ delivery'[d].conv = delivery[d].conv
             /\ delivery'[d].pc = IF At(d, "none") THEN "none" ELSE "done"
             /\ delivery'[d].stream = delivery[d].stream
             /\ delivery'[d].fault = (delivery[d].fault \/ delivery[d].pc \notin {"none", "done"})
  <2>1. delivery[d] \in DeliveryType
        BY DEF TypesInv
  <2>2. CASE delivery[d].pc \in {"none", "done"}
    <3>1. delivery'[d] = delivery[d]
          BY <2>2 DEF Crash
    <3>2. delivery[d].fault \in BOOLEAN
          BY <2>1 DEF DeliveryType
    <3>3. delivery[d].pc = IF At(d, "none") THEN "none" ELSE "done"
          BY <2>2 DEF At
    <3>4. delivery'[d].fault = (delivery[d].fault \/ delivery[d].pc \notin {"none", "done"})
          BY <2>2, <3>1, <3>2
    <3> QED BY <2>1, <3>1, <3>3, <3>4
  <2>3. CASE delivery[d].pc \notin {"none", "done"}
    <3> DEFINE mid == [delivery[d] EXCEPT !.pc = "done"]
               new == [mid EXCEPT !.fault = TRUE]
    <3>1. /\ mid \in DeliveryType /\ mid.msg = delivery[d].msg /\ mid.conv = delivery[d].conv
          /\ mid.pc = "done" /\ mid.stream = delivery[d].stream
          BY <2>1 DEF DeliveryType, Pcs
    <3>2. delivery'[d] = new
          BY <2>3 DEF Crash
    <3> HIDE DEF mid
    <3>3. /\ new \in DeliveryType /\ new.msg = delivery[d].msg /\ new.conv = delivery[d].conv
          /\ new.pc = "done" /\ new.stream = delivery[d].stream /\ new.fault = TRUE
          BY <3>1 DEF DeliveryType
    <3> HIDE DEF new
    <3> QED BY <2>3, <3>2, <3>3 DEF At
  <2> QED BY <2>2, <2>3
<1>2. ASSUME NEW m \in Msgs
      PROVE  /\ turn'[m] \in TurnType /\ turn'[m].by = turn[m].by
             /\ turn'[m].status = IF turn[m].status = "running" THEN "interrupted" ELSE turn[m].status
      BY DEF TypesInv, TurnType, Crash
<1>3. delivery' \in [Deliveries -> DeliveryType] /\ turn' \in [Msgs -> TurnType]
  <2>1. delivery' = [d \in Deliveries |-> delivery'[d]] /\ turn' = [m \in Msgs |-> turn'[m]]
        BY DEF Crash
  <2> QED BY <1>1, <1>2, <2>1
<1>4. UNCHANGED <<mode, kind, arrived, seen, conv, convs, recorded, shown>>
      BY DEF Crash
<1> QED BY <1>1, <1>2, <1>3, <1>4 DEF Lost

(* Nothing but the channel or the dedup changes.                           *)
Idles == UNCHANGED <<mode, kind, delivery, arrived, conv, convs, turn, recorded, shown>>

LEMMA StepIsOnes ==
    ASSUME TypesInv, PlacesInv, StreamsInv, [Next]_vars
    PROVE  /\ mode' = mode /\ kind' = kind
           /\ \/ Idles
              \/ Lost
              \/ \E d \in Deliveries : Arrives(d) /\ UNCHANGED <<turn, recorded, shown>>
              \/ /\ arrived' = arrived
                 /\ \E d \in Deliveries :
                       Comes(d) \/ Misses(d) \/ Gets(d) \/ Runs(d) \/ Stops(d) \/ Answers(d)
<1>1. CASE UNCHANGED vars \/ Start \/ StopAll \/ Forget
      BY <1>1 DEF vars, Start, StopAll, Forget, Idles
<1>2. CASE Crash
      BY <1>2, Losing DEF Lost
<1>3. ASSUME NEW m \in Msgs, Deliver(m) PROVE Arrives(arrived + 1) /\ UNCHANGED <<mode, kind, turn, recorded, shown>>
      BY <1>3, Arriving DEF Deliver
<1>4. ASSUME NEW m \in Msgs, Deliver(m) PROVE \E d \in Deliveries : Arrives(d) /\ UNCHANGED <<mode, kind, turn, recorded, shown>>
      BY <1>3, <1>4 DEF Arrives
<1>5. ASSUME NEW d \in Deliveries, Handle(d)
      PROVE  /\ Comes(d) \/ Misses(d) \/ Gets(d) \/ Runs(d) \/ Stops(d) \/ Answers(d)
             /\ UNCHANGED <<mode, kind, arrived>>
      BY <1>5, Handling
<1> QED BY <1>1, <1>2, <1>4, <1>5 DEF Next

LEMMA TypesKept == TypesInv /\ PlacesInv /\ StreamsInv /\ [Next]_vars => TypesInv'
<1> SUFFICES ASSUME TypesInv, PlacesInv, StreamsInv, [Next]_vars PROVE TypesInv'
    OBVIOUS
<1>1. /\ mode \in Modes /\ kind \in [Msgs -> Kinds] /\ channel \in {"off", "on", "stopped"}
      /\ delivery \in [Deliveries -> DeliveryType] /\ turn \in [Msgs -> TurnType]
      /\ arrived \in Nat /\ seen \subseteq Msgs /\ convs \in Nat /\ conv \in 0..convs
      /\ crashes \in 0..MaxCrashes
      BY DEF TypesInv
<1>2. CASE UNCHANGED vars \/ Start \/ StopAll \/ Forget
      BY <1>1, <1>2 DEF vars, Start, StopAll, Forget, TypesInv
<1>3. CASE Crash
  <2>1. crashes < MaxCrashes /\ crashes' = crashes + 1 /\ channel' = "off"
        BY <1>3 DEF Crash
  <2>2. crashes' \in 0..MaxCrashes
        BY <1>1, <2>1, InboundAssumption
  <2> QED BY <1>1, <1>3, <2>1, <2>2, Losing DEF Lost, TypesInv
<1>4. ASSUME NEW m \in Msgs, Deliver(m) PROVE TypesInv'
  <2>1. delivery' \in [Deliveries -> DeliveryType] /\ arrived' \in Nat
        BY <1>1, <1>4, Arriving DEF Arrives
  <2> QED BY <1>1, <1>4, <2>1 DEF Deliver, TypesInv
<1>5. ASSUME NEW d \in Deliveries, Handle(d) PROVE TypesInv'
  <2>1. Comes(d) \/ Misses(d) \/ Gets(d) \/ Runs(d) \/ Stops(d) \/ Answers(d)
        BY <1>5, Handling
  <2>2. UNCHANGED <<mode, kind, channel, arrived, crashes>>
        BY <1>5, Handling
  <2>3. delivery' \in [Deliveries -> DeliveryType] /\ delivery[d].pc # "none"
        BY <2>1 DEF Comes, Misses, Gets, Runs, Stops, Answers, Walks, At
  <2>4. Msg(d) \in Msgs
        BY <2>3 DEF PlacesInv, At
  <2>5. \A st \in {"running", "succeeded", "failed"} : [status |-> st, by |-> d] \in TurnType
        BY DEF TurnType
  <2>6. turn' \in [Msgs -> TurnType]
        BY <1>1, <2>1, <2>4, <2>5 DEF Comes, Misses, Gets, Runs, Stops, Answers
  <2>7. seen' \subseteq Msgs /\ convs' \in Nat /\ conv' \in 0..convs'
    <3>1. CASE Screen(d)
          BY <1>1, <2>4, <3>1 DEF Screen, IsDuplicate
    <3>2. CASE Command(d)
          BY <1>1, <3>2 DEF Command, None
    <3>3. CASE Session(d)
          BY <1>1, <3>3 DEF Session
    <3>4. CASE Fetch(d) \/ Claim(d) \/ ClaimFails(d) \/ StartStream(d)
          BY <1>1, <3>4 DEF Fetch, Claim, ClaimFails, StartStream
    <3>5. CASE AppendStream(d) \/ StreamError(d) \/ StreamFailed(d) \/ StreamEnd(d)
          BY <1>1, <3>5 DEF AppendStream, StreamError, StreamFailed, StreamEnd
    <3>6. CASE CloseStream(d) \/ RunEnds(d) \/ Record(d) \/ Reply(d)
          BY <1>1, <3>6 DEF CloseStream, RunEnds, Record, Reply
    <3> QED BY <1>5, <3>1, <3>2, <3>3, <3>4, <3>5, <3>6 DEF Handle
  <2> QED BY <1>1, <2>2, <2>3, <2>6, <2>7 DEF TypesInv
<1> QED BY <1>2, <1>3, <1>4, <1>5 DEF Next

-----------------------------------------------------------------------------
LEMMA PlacesKept == TypesInv /\ PlacesInv /\ StreamsInv /\ [Next]_vars => PlacesInv'
<1> SUFFICES ASSUME TypesInv, PlacesInv, StreamsInv, [Next]_vars, NEW e \in Deliveries
             PROVE  /\ e > arrived' => delivery'[e].pc = "none"
                    /\ delivery'[e].pc # "none" => delivery'[e].msg \in Msgs
                    /\ delivery'[e].pc \in Inside =>
                          delivery'[e].turn = IF kind'[delivery'[e].msg] = "noid" THEN "free" ELSE "mine"
    BY DEF PlacesInv, At, Msg, Kind
<1> USE DEF Inside
<1>1. /\ e > arrived => delivery[e].pc = "none"
      /\ delivery[e].pc # "none" => delivery[e].msg \in Msgs
      /\ delivery[e].pc \in Inside =>
            delivery[e].turn = IF kind[delivery[e].msg] = "noid" THEN "free" ELSE "mine"
      BY DEF PlacesInv, At, Msg, Kind
<1>2. kind' = kind
      BY StepIsOnes
<1>3. CASE Idles
      BY <1>1, <1>2, <1>3 DEF Idles
<1>4. CASE Lost
      BY <1>1, <1>4 DEF Lost, At
<1>5. ASSUME NEW d \in Deliveries, Arrives(d)
      PROVE  /\ e > arrived' => delivery'[e].pc = "none"
             /\ delivery'[e].pc # "none" => delivery'[e].msg \in Msgs
             /\ delivery'[e].pc \in Inside =>
                   delivery'[e].turn = IF kind'[delivery'[e].msg] = "noid" THEN "free" ELSE "mine"
  <2>1. e \in Nat /\ arrived \in Nat /\ d = arrived + 1 /\ arrived' = arrived + 1
        BY <1>5, Numbers DEF Arrives, TypesInv
  <2>2. CASE e = d
        BY <1>5, <2>1, <2>2 DEF Arrives
  <2>3. CASE e # d
    <3>1. delivery'[e] = delivery[e]
          BY <1>5, <2>3 DEF Arrives
    <3>2. e > arrived' => e > arrived
          BY <2>1
    <3> QED BY <1>1, <1>2, <3>1, <3>2
  <2> QED BY <2>2, <2>3
<1>6. ASSUME NEW d \in Deliveries, arrived' = arrived,
             Comes(d) \/ Misses(d) \/ Gets(d) \/ Runs(d) \/ Stops(d) \/ Answers(d)
      PROVE  /\ e > arrived' => delivery'[e].pc = "none"
             /\ delivery'[e].pc # "none" => delivery'[e].msg \in Msgs
             /\ delivery'[e].pc \in Inside =>
                   delivery'[e].turn = IF kind'[delivery'[e].msg] = "noid" THEN "free" ELSE "mine"
  <2>1. CASE e # d
    <3>1. delivery'[e] = delivery[e]
          BY <1>6, <2>1 DEF Comes, Misses, Gets, Runs, Stops, Answers, Walks
    <3> QED BY <1>1, <1>2, <1>6, <3>1
  <2>2. CASE e = d
    <3>1. delivery[e].pc # "none" /\ delivery'[e].msg = delivery[e].msg
          BY <1>6, <2>2 DEF Comes, Misses, Gets, Runs, Stops, Answers, Walks, At
    <3>2. delivery'[e].pc \in Inside =>
             delivery'[e].turn = IF kind[delivery[e].msg] = "noid" THEN "free" ELSE "mine"
      <4>1. CASE Comes(d) \/ Misses(d)
            BY <2>2, <4>1 DEF Comes, Misses
      <4>2. CASE Gets(d)
            BY <2>2, <4>2 DEF Gets, Kind, Msg
      <4>3. CASE Runs(d) \/ Stops(d) \/ Answers(d)
            BY <1>1, <2>2, <4>3 DEF Runs, Stops, Answers, At
      <4> QED BY <1>6, <4>1, <4>2, <4>3
    <3> QED BY <1>1, <1>2, <1>6, <3>1, <3>2
  <2> QED BY <2>1, <2>2
<1> QED BY <1>3, <1>4, <1>5, <1>6, StepIsOnes

LEMMA StreamsKept == TypesInv /\ PlacesInv /\ StreamsInv /\ [Next]_vars => StreamsInv'
<1> SUFFICES ASSUME TypesInv, PlacesInv, StreamsInv, [Next]_vars PROVE StreamsInv'
    OBVIOUS
<1>0. mode' = mode
      BY StepIsOnes
<1> SUFFICES ASSUME NEW e \in Deliveries
             PROVE  /\ delivery'[e].stream = "open" => delivery'[e].pc \in {"run", "close"} \/ delivery'[e].fault
                    /\ delivery'[e].stream # "none" \/ delivery'[e].pc = "close" => Streams
    BY <1>0 DEF StreamsInv, Streams, At
<1>1. /\ delivery[e].stream = "open" => delivery[e].pc \in {"run", "close"} \/ delivery[e].fault
      /\ delivery[e].stream # "none" \/ delivery[e].pc = "close" => Streams
      BY DEF StreamsInv, At
<1>3. CASE Idles
      BY <1>1, <1>3 DEF Idles
<1>4. CASE Lost
  <2>1. /\ delivery'[e].stream = delivery[e].stream
        /\ delivery'[e].pc = IF delivery[e].pc = "none" THEN "none" ELSE "done"
        /\ delivery'[e].fault = (delivery[e].fault \/ delivery[e].pc \notin {"none", "done"})
        BY <1>4 DEF Lost, At
  <2> QED BY <1>1, <2>1
<1>5. ASSUME NEW d \in Deliveries, Arrives(d)
      PROVE  /\ delivery'[e].stream = "open" => delivery'[e].pc \in {"run", "close"} \/ delivery'[e].fault
             /\ delivery'[e].stream # "none" \/ delivery'[e].pc = "close" => Streams
      BY <1>1, <1>5 DEF Arrives
<1>6. ASSUME NEW d \in Deliveries,
             Comes(d) \/ Misses(d) \/ Gets(d) \/ Runs(d) \/ Stops(d) \/ Answers(d)
      PROVE  /\ delivery'[e].stream = "open" => delivery'[e].pc \in {"run", "close"} \/ delivery'[e].fault
             /\ delivery'[e].stream # "none" \/ delivery'[e].pc = "close" => Streams
  <2>1. CASE e # d
    <3>1. delivery'[e] = delivery[e]
          BY <1>6, <2>1 DEF Comes, Misses, Gets, Runs, Stops, Answers, Walks
    <3> QED BY <1>1, <3>1
  <2>2. CASE e = d /\ (Comes(d) \/ Misses(d) \/ Gets(d))
        BY <1>1, <2>2 DEF Comes, Misses, Gets, At
  <2>3. CASE e = d /\ (Runs(d) \/ Stops(d))
        BY <1>1, <2>3 DEF Runs, Stops, At
  <2>4. CASE e = d /\ Answers(d)
        BY <1>1, <2>4 DEF Answers
  <2> QED BY <1>6, <2>1, <2>2, <2>3, <2>4
<1> QED BY <1>3, <1>4, <1>5, <1>6, StepIsOnes

LEMMA SecondChanceKept ==
    TypesInv /\ PlacesInv /\ TurnsInv /\ StreamsInv /\ SecondChance /\ [Next]_vars => SecondChance'
<1> SUFFICES ASSUME TypesInv, PlacesInv, TurnsInv, StreamsInv, SecondChance, [Next]_vars
             PROVE  SecondChance'
    OBVIOUS
<1>same. mode' = mode /\ kind' = kind
      BY StepIsOnes
<1>takes. \A k : Takes(k)' = Takes(k)
      BY <1>same DEF Takes, WecomWSTakes, WecomHTTPTakes, FeishuWSTakes, FeishuHTTPTakes
<1> SUFFICES ASSUME NEW e \in Deliveries, delivery'[e].pc = "done", ~delivery'[e].fault,
                    Takes(kind[delivery'[e].msg]) # "done", kind[delivery'[e].msg] \notin {"noid", "reset"}
             PROVE  turn'[delivery'[e].msg].status # "none"
    BY <1>same, <1>takes DEF SecondChance, Accepted, Kind, Msg, At
<1> DEFINE m == delivery'[e].msg
<1>1. m \in Msgs
      BY PlacesKept DEF PlacesInv, At, Msg
<1>2. turn[m].status # "none" => turn'[m].status # "none"
  <2>1. CASE turn' = turn
        BY <2>1
  <2>2. CASE Lost
        BY <1>1, <2>2 DEF Lost
  <2>3. ASSUME NEW n, NEW r, r.status # "none", turn' = [turn EXCEPT ![n] = r]
        PROVE  turn[m].status # "none" => turn'[m].status # "none"
        BY <1>1, <2>3 DEF TypesInv
  <2>4. ASSUME NEW d \in Deliveries,
               Comes(d) \/ Misses(d) \/ Gets(d) \/ Runs(d) \/ Stops(d) \/ Answers(d)
        PROVE  turn' = turn \/ \E st \in {"running", "succeeded", "failed"} :
                  turn' = [turn EXCEPT ![Msg(d)] = [status |-> st, by |-> d]]
        BY <2>4 DEF Comes, Misses, Gets, Runs, Stops, Answers
  <2>5. \A d : \A st \in {"running", "succeeded", "failed"} : [status |-> st, by |-> d].status # "none"
        OBVIOUS
  <2>6. CASE \E d \in Deliveries :
                Comes(d) \/ Misses(d) \/ Gets(d) \/ Runs(d) \/ Stops(d) \/ Answers(d)
    <3> PICK d \in Deliveries : Comes(d) \/ Misses(d) \/ Gets(d) \/ Runs(d) \/ Stops(d) \/ Answers(d)
        BY <2>6
    <3>1. CASE turn' = turn
          BY <3>1
    <3>2. ASSUME NEW st \in {"running", "succeeded", "failed"},
                 turn' = [turn EXCEPT ![Msg(d)] = [status |-> st, by |-> d]]
          PROVE  turn[m].status # "none" => turn'[m].status # "none"
          BY <2>3, <2>5, <3>2
    <3> QED BY <2>4, <3>1, <3>2
  <2> QED BY <2>1, <2>2, <2>6, StepIsOnes DEF Idles
<1> HIDE DEF m
<1>3. CASE delivery'[e] = delivery[e]
  <2>1. turn[m].status # "none"
        BY <1>3 DEF SecondChance, Accepted, Kind, Msg, At, m
  <2> QED BY <1>2, <2>1 DEF m
<1>4. CASE Lost
  <2>1. delivery[e].pc = "done" /\ ~delivery[e].fault /\ delivery[e].msg = m
        BY <1>4 DEF Lost, m, At
  <2>2. turn[m].status # "none"
        BY <2>1 DEF SecondChance, Accepted, Kind, Msg, At, m
  <2> QED BY <1>2, <2>2 DEF m
<1>5. ASSUME NEW d \in Deliveries, d = e, arrived' = arrived,
             Comes(d) \/ Misses(d) \/ Gets(d) \/ Runs(d) \/ Stops(d) \/ Answers(d)
      PROVE  turn'[m].status # "none"
  <2>1. delivery[e].msg = m
        BY <1>5 DEF Comes, Misses, Gets, Runs, Stops, Answers, Walks, m
  <2>2. ~Comes(d) /\ ~Gets(d) /\ ~Runs(d)
        BY <1>5, <2>1 DEF Comes, Gets, Runs, Accepted, Kind, Msg, m
  <2>3. CASE Misses(d)
        BY <1>2, <1>5, <2>1, <2>3 DEF Misses, Msg
  <2>4. CASE Stops(d) \/ Answers(d)
    <3>1. delivery[d].pc \in {"run", "fail", "close", "record", "reply"}
          BY <2>4 DEF Stops, Answers
    <3>2. kind[delivery[d].msg] # "noid" /\ delivery[d].msg = m /\ delivery[d].pc # "none"
          BY <1>5, <2>1, <3>1 DEF m
    <3>3. \/ turn[m] = [status |-> "running", by |-> d]
          \/ turn[m].status \in {"running", "succeeded"}
          BY <3>1, <3>2 DEF TurnsInv, Kind, Msg, At
    <3>4. turn[m].status # "none"
          BY <3>3
    <3> QED BY <1>2, <3>4
  <2> QED BY <1>5, <2>2, <2>3, <2>4
<1>6. ASSUME NEW d \in Deliveries, d # e,
             Comes(d) \/ Misses(d) \/ Gets(d) \/ Runs(d) \/ Stops(d) \/ Answers(d) \/ Arrives(d)
      PROVE  delivery'[e] = delivery[e]
      BY <1>6 DEF Comes, Misses, Gets, Runs, Stops, Answers, Walks, Arrives
<1>7. ASSUME NEW d \in Deliveries, Arrives(d) PROVE d # e
      BY <1>7 DEF Arrives
<1> QED BY <1>3, <1>4, <1>5, <1>6, <1>7, StepIsOnes DEF Idles, m

-----------------------------------------------------------------------------
(* A delivery that is over stays over, one that is recorded stays so.      *)
LEMMA OverStays ==
    ASSUME TypesInv, PlacesInv, StreamsInv, [Next]_vars, NEW e \in Deliveries
    PROVE  /\ delivery[e].pc \in Over => delivery'[e].pc \in Over /\ delivery'[e].msg = delivery[e].msg
           /\ delivery[e].pc \in {"reply", "done"} =>
                 /\ delivery'[e].pc \in {"reply", "done"} /\ delivery'[e].conv = delivery[e].conv
<1> USE DEF Over
<1>1. CASE delivery'[e] = delivery[e]
      BY <1>1
<1>2. CASE Lost
      BY <1>2 DEF Lost, At
<1>3. ASSUME NEW d \in Deliveries, Arrives(d) PROVE d = e => delivery[e].pc = "none"
      BY <1>3, Numbers DEF Arrives, PlacesInv, At, TypesInv
<1>4. ASSUME NEW d \in Deliveries, d # e,
             Comes(d) \/ Misses(d) \/ Gets(d) \/ Runs(d) \/ Stops(d) \/ Answers(d) \/ Arrives(d)
      PROVE  delivery'[e] = delivery[e]
      BY <1>4 DEF Comes, Misses, Gets, Runs, Stops, Answers, Walks, Arrives
<1>5. CASE Comes(e) \/ Misses(e) \/ Gets(e) \/ Runs(e) \/ Stops(e)
      BY <1>5 DEF Comes, Misses, Gets, Runs, Stops, At
<1>6. CASE Answers(e)
      BY <1>6 DEF Answers, Walks
<1>7. CASE Idles
      BY <1>7 DEF Idles
<1> QED BY <1>1, <1>2, <1>3, <1>4, <1>5, <1>6, <1>7, StepIsOnes

(* A turn of another delivery that runs is not touched by the step of d.   *)
TurnIsOf(d) ==
    \/ turn' = turn
    \/ /\ At(d, "claim") /\ turn[Msg(d)].status \in {"none", "failed"}
       /\ turn' = [turn EXCEPT ![Msg(d)] = [status |-> "running", by |-> d]]
    \/ /\ turn[Msg(d)] = [status |-> "running", by |-> d] /\ delivery[d].pc \in {"run", "fail"}
       /\ \E st \in {"succeeded", "failed"} :
             /\ turn' = [turn EXCEPT ![Msg(d)] = [status |-> st, by |-> d]]
             /\ st = "succeeded" => delivery'[d].pc \in Over

LEMMA TurnSteps ==
    ASSUME TypesInv, PlacesInv, TurnsInv, NEW d \in Deliveries,
           Comes(d) \/ Misses(d) \/ Gets(d) \/ Runs(d) \/ Stops(d) \/ Answers(d)
    PROVE  TurnIsOf(d) /\ Msg(d) \in Msgs
<1>1. Msg(d) \in Msgs
      BY DEF Comes, Misses, Gets, Runs, Stops, Answers, PlacesInv, At
<1>2. CASE Comes(d) \/ Misses(d) \/ Runs(d) \/ Answers(d)
      BY <1>1, <1>2 DEF Comes, Misses, Runs, Answers, TurnIsOf
<1>3. CASE Gets(d)
      BY <1>1, <1>3 DEF Gets, TurnIsOf
<1>4. CASE Stops(d)
  <2>1. CASE delivery[d].turn = "mine"
    <3>1. Kind(d) # "noid" /\ ~At(d, "none") /\ delivery[d].pc \in {"run", "fail"}
          BY <1>4, <2>1 DEF Stops, PlacesInv, Inside, At
    <3>2. turn[Msg(d)] = [status |-> "running", by |-> d]
          BY <3>1 DEF TurnsInv
    <3> QED BY <1>1, <1>4, <3>1, <3>2 DEF Stops, TurnIsOf, Over
  <2>2. CASE delivery[d].turn # "mine"
        BY <1>1, <1>4, <2>2 DEF Stops, TurnIsOf
  <2> QED BY <2>1, <2>2
<1> QED BY <1>2, <1>3, <1>4

(* A turn that is settled stays of the same delivery (acquireTurn runs     *)
(* again only a turn that failed).                                         *)
LEMMA SettledStays ==
    ASSUME TypesInv, PlacesInv, TurnsInv, StreamsInv, [Next]_vars, NEW m \in Msgs, Settled(m)
    PROVE  turn'[m].by = turn[m].by /\ Settled(m)'
<1> DEFINE e == turn[m].by
<1>1. /\ turn[m].status \in {"running", "succeeded", "interrupted"}
      /\ e \in Deliveries /\ delivery[e].pc \in Over
      BY DEF Settled
<1>2. delivery'[e].pc \in Over
      BY <1>1, OverStays
<1>3. turn'[m].by = e /\ turn'[m].status \in {"running", "succeeded", "interrupted"}
  <2>1. CASE turn' = turn
        BY <1>1, <2>1
  <2>2. CASE Lost
        BY <1>1, <2>2 DEF Lost
  <2>3. ASSUME NEW d \in Deliveries, TurnIsOf(d), Msg(d) \in Msgs
        PROVE  turn'[m].by = e /\ turn'[m].status \in {"running", "succeeded", "interrupted"}
    <3>1. CASE Msg(d) = m
      <4>1. turn[m].status \notin {"none", "failed"}
            BY <1>1
      <4>2. turn[m] = [status |-> "running", by |-> d] => delivery[d].pc \in Over
            BY <1>1
      <4>3. delivery[d].pc \in {"run", "fail"} => delivery[d].pc \notin Over
            BY DEF Over
      <4> QED BY <2>1, <2>3, <3>1, <4>1, <4>2, <4>3 DEF TurnIsOf
    <3>2. CASE Msg(d) # m
          BY <1>1, <2>3, <3>2 DEF TurnIsOf, TypesInv
    <3> QED BY <3>1, <3>2
  <2> QED BY <2>1, <2>2, <2>3, TurnSteps, StepIsOnes DEF Idles
<1> QED BY <1>1, <1>2, <1>3 DEF Settled

LEMMA TurnsKept == TypesInv /\ PlacesInv /\ TurnsInv /\ StreamsInv /\ [Next]_vars => TurnsInv'
<1> SUFFICES ASSUME TypesInv, PlacesInv, TurnsInv, StreamsInv, [Next]_vars PROVE TurnsInv'
    OBVIOUS
<1>1. kind' = kind
      BY StepIsOnes
<1>2. ASSUME NEW e \in Deliveries, delivery'[e].pc \in Inside, kind[delivery'[e].msg] # "noid"
      PROVE  /\ delivery'[e].pc \in {"run", "fail"} =>
                   turn'[delivery'[e].msg] = [status |-> "running", by |-> e]
             /\ delivery'[e].pc \in {"close", "record", "reply"} =>
                   /\ turn'[delivery'[e].msg].by = e
                   /\ turn'[delivery'[e].msg].status \in {"running", "succeeded"}
  <2> DEFINE m == delivery'[e].msg
  <2>1. ASSUME delivery[e].pc \in Inside, delivery[e].msg = m
        PROVE  /\ m \in Msgs /\ turn[m].by = e /\ turn[m].status \in {"running", "succeeded"}
               /\ delivery[e].pc \in {"run", "fail"} => turn[m] = [status |-> "running", by |-> e]
               /\ delivery[e].pc \in {"close", "record", "reply"} =>
                     turn[m].by = e /\ turn[m].status \in {"running", "succeeded"}
    <3>1. ~At(e, "none") /\ Kind(e) # "noid" /\ Msg(e) = m
          BY <1>2, <2>1 DEF Inside, At, Kind, Msg
    <3>2. m \in Msgs
          BY <3>1 DEF PlacesInv
    <3>3. /\ delivery[e].pc \in {"run", "fail"} => turn[m] = [status |-> "running", by |-> e]
          /\ delivery[e].pc \in {"close", "record", "reply"} =>
                turn[m].by = e /\ turn[m].status \in {"running", "succeeded"}
          BY <3>1 DEF TurnsInv
    <3> QED BY <2>1, <3>2, <3>3 DEF Inside
  <2>2. CASE delivery'[e] = delivery[e] /\ turn' = turn
        BY <1>2, <2>1, <2>2
  <2>3. CASE Lost
        BY <1>2, <2>3 DEF Lost, Inside
  <2>4. ASSUME NEW d \in Deliveries, d # e, TurnIsOf(d), Msg(d) \in Msgs, delivery'[e] = delivery[e]
        PROVE  turn'[m] = turn[m]
    <3>1. m \in Msgs /\ turn[m].by = e /\ turn[m].status \in {"running", "succeeded"}
          BY <1>2, <2>1, <2>4
    <3>2. CASE Msg(d) = m
      <4>1. turn[m] # [status |-> "running", by |-> d]
            BY <2>4, <3>1
      <4> QED BY <2>4, <3>1, <3>2, <4>1 DEF TurnIsOf
    <3>3. CASE Msg(d) # m
          BY <2>4, <3>1, <3>3 DEF TurnIsOf, TypesInv
    <3> QED BY <3>2, <3>3
  <2>5. CASE Gets(e)
    <3>1. delivery'[e].pc = "run" /\ m = Msg(e) /\ Msg(e) \in Msgs
          BY <2>5 DEF Gets, Walks, Msg, PlacesInv, At
    <3>2. turn' = [turn EXCEPT ![m] = [status |-> "running", by |-> e]]
          BY <1>2, <2>5, <3>1 DEF Gets, Kind
    <3> QED BY <3>1, <3>2 DEF TypesInv
  <2>6. CASE Runs(e)
        BY <2>1, <2>6 DEF Runs, Walks, Inside, At
  <2>7. CASE Stops(e)
    <3>1. delivery[e].pc \in {"run", "fail"} /\ delivery[e].msg = m /\ Msg(e) = m
          BY <2>7 DEF Stops, Walks, Msg
    <3>2. m \in Msgs /\ turn[m] = [status |-> "running", by |-> e]
          BY <2>1, <3>1 DEF Inside
    <3>3. CASE turn' = turn
          BY <1>2, <3>2, <3>3
    <3>4. CASE delivery'[e].pc \in {"close", "record", "done"}
               /\ turn' = [turn EXCEPT ![m] = [status |-> "succeeded", by |-> e]]
          BY <3>2, <3>4 DEF TypesInv
    <3>5. CASE delivery'[e].pc = "done"
          BY <3>5
    <3> QED BY <2>7, <3>1, <3>3, <3>4, <3>5 DEF Stops
  <2>8. CASE Answers(e)
        BY <2>1, <2>8 DEF Answers, Walks, Inside
  <2>9. ASSUME NEW d \in Deliveries, d # e,
               Comes(d) \/ Misses(d) \/ Gets(d) \/ Runs(d) \/ Stops(d) \/ Answers(d) \/ Arrives(d)
        PROVE  delivery'[e] = delivery[e]
        BY <2>9 DEF Comes, Misses, Gets, Runs, Stops, Answers, Walks, Arrives
  <2>10. ~Arrives(e) /\ ~Comes(e) /\ ~Misses(e)
        BY <1>2 DEF Arrives, Comes, Misses, Inside
  <2>11. ASSUME NEW d \in Deliveries, d # e,
                Comes(d) \/ Misses(d) \/ Gets(d) \/ Runs(d) \/ Stops(d) \/ Answers(d)
         PROVE  /\ delivery'[e].pc \in {"run", "fail"} => turn'[m] = [status |-> "running", by |-> e]
                /\ delivery'[e].pc \in {"close", "record", "reply"} =>
                      turn'[m].by = e /\ turn'[m].status \in {"running", "succeeded"}
    <3>1. delivery'[e] = delivery[e]
          BY <2>9, <2>11
    <3>2. turn'[m] = turn[m]
          BY <2>4, <2>11, <3>1, TurnSteps
    <3> QED BY <1>2, <2>1, <3>1, <3>2
  <2>12. CASE Idles
         BY <2>2, <2>12 DEF Idles
  <2>13. ASSUME NEW d \in Deliveries, Arrives(d), turn' = turn
         PROVE  delivery'[e] = delivery[e]
         BY <2>9, <2>10, <2>13
  <2> QED BY <2>2, <2>3, <2>5, <2>6, <2>7, <2>8, <2>10, <2>11, <2>12, <2>13, StepIsOnes
<1>3. ASSUME NEW m \in Msgs, turn'[m].status = "succeeded"
      PROVE  turn'[m].by \in Deliveries /\ delivery'[turn'[m].by].pc \in Over
  <2>1. ASSUME turn[m].status = "succeeded", turn'[m].by = turn[m].by
        PROVE  turn'[m].by \in Deliveries /\ delivery'[turn'[m].by].pc \in Over
    <3>1. turn[m].by \in Deliveries /\ delivery[turn[m].by].pc \in Over
          BY <2>1 DEF TurnsInv
    <3> QED BY <2>1, <3>1, OverStays
  <2>2. CASE turn' = turn
        BY <1>3, <2>1, <2>2
  <2>3. CASE Lost
        BY <1>3, <2>1, <2>3 DEF Lost
  <2>4. ASSUME NEW d \in Deliveries, TurnIsOf(d), Msg(d) \in Msgs
        PROVE  turn'[m].by \in Deliveries /\ delivery'[turn'[m].by].pc \in Over
    <3>1. CASE turn'[m] = turn[m]
          BY <1>3, <2>1, <3>1
    <3>2. ASSUME NEW st \in {"running", "succeeded", "failed"},
                 turn' = [turn EXCEPT ![Msg(d)] = [status |-> st, by |-> d]], Msg(d) = m
          PROVE  turn'[m].by = d /\ st = "succeeded"
          BY <1>3, <3>2 DEF TypesInv
    <3>3. CASE Msg(d) # m
          BY <2>4, <3>1, <3>3 DEF TurnIsOf, TypesInv
    <3>4. CASE Msg(d) = m
          BY <2>4, <3>1, <3>2, <3>4 DEF TurnIsOf
    <3> QED BY <3>3, <3>4
  <2> QED BY <2>2, <2>3, <2>4, TurnSteps, StepIsOnes DEF Idles
<1> QED BY <1>1, <1>2, <1>3 DEF TurnsInv, At, Kind, Msg, Inside

-----------------------------------------------------------------------------
LEMMA AnswersKept == TypesInv /\ PlacesInv /\ TurnsInv /\ StreamsInv /\ AnswersInv /\ [Next]_vars => AnswersInv'
<1> SUFFICES ASSUME TypesInv, PlacesInv, TurnsInv, StreamsInv, AnswersInv, [Next]_vars PROVE AnswersInv'
    OBVIOUS
<1>1. kind' = kind
      BY StepIsOnes
<1>2. ASSUME NEW m \in Msgs, NEW t, t[1] = "answer" /\ kind[m] # "noid" => t = Answer(turn[m].by) /\ Settled(m)
      PROVE  t[1] = "answer" /\ kind[m] # "noid" => t = Answer(turn'[m].by) /\ Settled(m)'
      BY <1>2, SettledStays DEF Answer
<1>3. ASSUME NEW s, s \in shown PROVE Stands(s)'
  <2>1. s = <<s[1], s[2]>> /\ s[1] \in Msgs
        BY <1>3 DEF AnswersInv, Stands
  <2>2. s[2][1] = "answer" /\ kind[s[1]] # "noid" => s[2] = Answer(turn[s[1]].by) /\ Settled(s[1])
        BY <1>3 DEF AnswersInv, Stands
  <2>3. s[2][1] = "answer" /\ kind[s[1]] # "noid" => s[2] = Answer(turn'[s[1]].by) /\ Settled(s[1])'
        BY <1>2, <2>1, <2>2
  <2> QED BY <1>1, <2>1, <2>3 DEF Stands, Answer
<1>4. ASSUME NEW m \in Msgs, NEW t, shown' \subseteq shown \cup {<<m, t>>},
             t[1] = "answer" /\ kind[m] # "noid" => t = Answer(turn[m].by) /\ Settled(m)
      PROVE  \A s \in shown' : Stands(s)'
  <2> DEFINE s == <<m, t>>
  <2>1. t[1] = "answer" /\ kind[m] # "noid" => t = Answer(turn'[m].by) /\ Settled(m)'
        BY <1>2, <1>4
  <2>2. s[1] = m /\ s[2] = t /\ s = <<s[1], s[2]>>
        OBVIOUS
  <2> HIDE DEF s
  <2>3. ASSUME NEW q \in shown' PROVE q \in shown \/ q = s
        BY <1>4, <2>3 DEF s
  <2>4. Stands(s)'
        BY <1>1, <2>1, <2>2 DEF Stands, Answer, Settled
  <2> QED BY <1>3, <2>3, <2>4
<1>5. \A s \in shown' : Stands(s)'
  <2>1. CASE shown' \subseteq shown
        BY <1>3, <2>1
  <2>2. ASSUME NEW d \in Deliveries,
               Comes(d) \/ Misses(d) \/ Gets(d) \/ Runs(d) \/ Stops(d) \/ Answers(d), ~(shown' \subseteq shown)
        PROVE  \A s \in shown' : Stands(s)'
    <3>0. Msg(d) \in Msgs
          BY <2>2, TurnSteps
    <3>1. ASSUME NEW t, Shows(d, t),
                 t[1] = "answer" /\ Kind(d) # "noid" => t = Answer(turn[Msg(d)].by) /\ Settled(Msg(d))
          PROVE  \A s \in shown' : Stands(s)'
          BY <1>4, <3>0, <3>1 DEF Shows, Kind
    <3>2. Notice("error")[1] # "answer" /\ Notice("reset")[1] # "answer" /\ Part(d)[1] # "answer"
          BY DEF Notice, Part
    <3>3. CASE Shows(d, Notice("error")) \/ Shows(d, Notice("reset")) \/ Shows(d, Part(d))
          BY <3>1, <3>2, <3>3
    <3>4. CASE turn[Msg(d)].status = "succeeded" /\ Shows(d, Answer(turn[Msg(d)].by))
      <4>1. Settled(Msg(d))
            BY <3>0, <3>4 DEF TurnsInv, Settled
      <4> QED BY <3>1, <3>4, <4>1
    <3>5. CASE Answers(d) /\ Shows(d, Answer(d))
      <4>1. delivery[d].pc \in {"close", "record", "reply"} /\ ~At(d, "none")
            BY <3>5 DEF Answers, At
      <4>2. Kind(d) # "noid" => turn[Msg(d)].by = d /\ turn[Msg(d)].status \in {"running", "succeeded"}
            BY <4>1 DEF TurnsInv
      <4>3. Kind(d) # "noid" => turn[Msg(d)].by = d /\ Settled(Msg(d))
            BY <4>1, <4>2 DEF Settled, Over
      <4> QED BY <3>1, <3>5, <4>3
    <3>6. CASE Gets(d) \/ Runs(d)
          BY <2>2, <3>6 DEF Gets, Runs
    <3>7. CASE Comes(d) \/ Misses(d) \/ Stops(d)
          BY <3>3, <3>4, <3>7 DEF Comes, Misses, Stops
    <3>8. CASE Answers(d)
          BY <2>2, <3>3, <3>5, <3>8 DEF Answers
    <3> QED BY <2>2, <3>6, <3>7, <3>8
  <2> QED BY <2>1, <2>2, StepIsOnes DEF Idles, Lost
<1>6. ASSUME NEW r, NEW d \in Deliveries, Holds(r, d)
      PROVE  \E e \in Deliveries : Holds(r, e)'
  <2>1. /\ delivery[d].pc \in {"reply", "done"} /\ Msg(d) \in Msgs
        /\ r = <<delivery[d].conv, Msg(d), d>>
        /\ Kind(d) # "noid" => turn[Msg(d)].by = d /\ Settled(Msg(d))
        BY <1>6 DEF Holds
  <2>2. /\ delivery'[d].pc \in {"reply", "done"} /\ delivery'[d].conv = delivery[d].conv
        /\ delivery'[d].msg = delivery[d].msg
        BY <2>1, OverStays DEF Over
  <2> PICK m \in Msgs : m = Msg(d)
      BY <2>1
  <2>3. Kind(d) # "noid" => turn'[m].by = d /\ Settled(m)'
        BY <2>1, SettledStays
  <2>4. Msg(d)' = m /\ Kind(d)' = Kind(d)
        BY <1>1, <2>2 DEF Msg, Kind
  <2>5. Holds(r, d)'
        BY <2>1, <2>2, <2>3, <2>4 DEF Holds, Settled
  <2> QED BY <2>5
<1>7. ASSUME NEW d \in Deliveries, Answers(d), At(d, "record"), NEW r, r = <<delivery[d].conv, Msg(d), d>>
      PROVE  Holds(r, d)'
  <2>1. Msg(d) \in Msgs /\ ~At(d, "none")
        BY <1>7 DEF PlacesInv, At
  <2>2. Kind(d) # "noid" => turn[Msg(d)].by = d /\ Settled(Msg(d))
        BY <1>7, <2>1 DEF TurnsInv, Settled, Over, At
  <2> PICK m \in Msgs : m = Msg(d)
      BY <2>1
  <2>3. Kind(d) # "noid" => turn'[m].by = d /\ Settled(m)'
        BY <2>1, <2>2, SettledStays
  <2>4. /\ delivery'[d].pc \in {"reply", "done"} /\ delivery'[d].conv = delivery[d].conv
        /\ delivery'[d].msg = delivery[d].msg
        BY <1>7 DEF Answers, Walks, At
  <2>5. Msg(d)' = m /\ Kind(d)' = Kind(d)
        BY <1>1, <2>4 DEF Msg, Kind
  <2> QED BY <1>7, <2>1, <2>3, <2>4, <2>5 DEF Holds, Settled
<1>8. ASSUME NEW r \in recorded' PROVE \E e \in Deliveries : Holds(r, e)'
  <2>1. CASE r \in recorded
        BY <1>6, <2>1 DEF AnswersInv
  <2>2. ASSUME NEW d \in Deliveries, r \notin recorded,
               Comes(d) \/ Misses(d) \/ Gets(d) \/ Runs(d) \/ Stops(d) \/ Answers(d)
        PROVE  \E e \in Deliveries : Holds(r, e)'
    <3>1. Answers(d) /\ At(d, "record") /\ r = <<delivery[d].conv, Msg(d), d>>
          BY <1>8, <2>2 DEF Comes, Misses, Gets, Runs, Stops, Answers
    <3> QED BY <1>7, <3>1
  <2> QED BY <2>1, <2>2, StepIsOnes DEF Idles, Lost
<1> QED BY <1>5, <1>8 DEF AnswersInv

-----------------------------------------------------------------------------
(* The invariant holds as long as the process handles messages, loses them *)
(* in a restart and handles them again.                                    *)
THEOREM InboundKept == Spec => []InboundInv
<1>1. Init => InboundInv
  <2> SUFFICES ASSUME Init PROVE InboundInv
      OBVIOUS
  <2>1. \A d \in Deliveries : delivery[d] = Waiting
        BY DEF Init
  <2>2. Waiting \in DeliveryType /\ NoTurn \in TurnType
        BY Numbers DEF Waiting, DeliveryType, Pcs, NoTurn, TurnType, None
  <2>3. Waiting.pc = "none" /\ Waiting.stream = "none"
        BY DEF Waiting
  <2>4. delivery \in [Deliveries -> DeliveryType] /\ turn \in [Msgs -> TurnType]
        BY <2>2 DEF Init
  <2>5. 0 \in 0..MaxCrashes /\ 0 \in Nat /\ 0 \in 0..0
        BY InboundAssumption
  <2>6. TypesInv
        BY <2>4, <2>5 DEF Init, TypesInv, None
  <2>7. PlacesInv /\ StreamsInv /\ SecondChance
        BY <2>1, <2>3 DEF PlacesInv, StreamsInv, SecondChance, At, Inside
  <2>8. \A m \in Msgs : turn[m].status # "succeeded"
        BY DEF Init, NoTurn
  <2>9. TurnsInv
        BY <2>1, <2>3, <2>8 DEF TurnsInv, At
  <2>10. AnswersInv
        BY DEF AnswersInv, Init
  <2> QED BY <2>6, <2>7, <2>9, <2>10 DEF InboundInv
<1>2. InboundInv /\ [Next]_vars => InboundInv'
      BY TypesKept, PlacesKept, TurnsKept, AnswersKept, StreamsKept, SecondChanceKept DEF InboundInv
<1> QED BY <1>1, <1>2, PTL DEF Spec

(* Every variable has its type, no stream is longer than its answer, and   *)
(* the session's conversation is one that was made.                        *)
THEOREM TypeCorrect == Spec => []TypeOK
<1>1. InboundInv => TypeOK
  <2> SUFFICES ASSUME InboundInv PROVE TypeOK
      OBVIOUS
  <2>1. TypesInv
        BY DEF InboundInv
  <2>2. ASSUME NEW d \in Deliveries
        PROVE  /\ delivery[d].pc \in Pcs /\ delivery[d].stream \in {"none", "open", "finished"}
               /\ delivery[d].sent \in 0..MaxDeltas
        BY <2>1 DEF TypesInv, DeliveryType
  <2>3. \A d \in Deliveries : delivery[d].sent <= MaxDeltas
        BY <2>2, InboundAssumption
  <2>4. \A m \in Msgs : turn[m].status \in {"none", "running", "succeeded", "failed", "interrupted"}
        BY <2>1 DEF TypesInv, TurnType
  <2> QED BY <2>1, <2>2, <2>3, <2>4 DEF TypesInv, TypeOK
<1> QED BY <1>1, InboundKept, PTL

LEMMA AtMostOne ==
    ASSUME NEW S, NEW x, S \subseteq {x}
    PROVE  Cardinality(S) <= 1
<1>1. IsFiniteSet({x}) /\ Cardinality({x}) = 1
      BY FS_Singleton
<1>2. Cardinality(S) <= Cardinality({x})
      BY <1>1, FS_Subset
<1> QED BY <1>1, <1>2

(* However often the platform delivers a message, whichever delivery gets  *)
(* the turn, dies or finds the answer there: all answers shown of it are   *)
(* one, and the history holds it once (handle_platform.go:293-303,         *)
(* 400-403).                                                               *)
THEOREM MessagesAreHandledOnce == Spec => []HandledOnce
<1>1. InboundInv => HandledOnce
  <2> SUFFICES ASSUME InboundInv, NEW m \in Msgs, kind[m] # "noid"
               PROVE  /\ Cardinality({s \in shown : s[1] = m /\ s[2][1] = "answer"}) <= 1
                      /\ Cardinality({r \in recorded : r[2] = m}) <= 1
      BY DEF HandledOnce, OneAnswer, RecordedOnce
  <2>1. {s \in shown : s[1] = m /\ s[2][1] = "answer"} \subseteq {<<m, Answer(turn[m].by)>>}
        BY DEF InboundInv, AnswersInv, Stands
  <2>2. {r \in recorded : r[2] = m} \subseteq {<<delivery[turn[m].by].conv, m, turn[m].by>>}
    <3> SUFFICES ASSUME NEW r \in recorded, r[2] = m
                 PROVE  r = <<delivery[turn[m].by].conv, m, turn[m].by>>
        OBVIOUS
    <3>1. PICK d \in Deliveries : Holds(r, d)
          BY DEF InboundInv, AnswersInv
    <3>2. r = <<delivery[d].conv, Msg(d), d>> /\ Msg(d) = m
          BY <3>1 DEF Holds
    <3> QED BY <3>1, <3>2 DEF Holds, Kind
  <2> QED BY <2>1, <2>2, AtMostOne
<1> QED BY <1>1, InboundKept, PTL

(* No earlier delivery takes a message away from a later one: where        *)
(* nothing failed, the message was claimed (handle_platform.go:400-403;    *)
(* docs/solutions/logic-errors/wecom-http-missing-dedup.md:70).            *)
THEOREM NobodyLosesTheMessage == Spec => []SecondChance
<1>1. InboundInv => SecondChance
      BY DEF InboundInv
<1> QED BY <1>1, InboundKept, PTL

(* A stream that was started is finished where nothing failed, with an     *)
(* answer or with an error.                                                *)
THEOREM StreamsAreFinished == Spec => []StreamsEnd
<1>1. InboundInv => StreamsEnd
      BY DEF InboundInv, StreamsInv, StreamsEnd, At
<1> QED BY <1>1, InboundKept, PTL
=============================================================================
