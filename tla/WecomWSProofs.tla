---------------------------- MODULE WecomWSProofs ----------------------------
(***************************************************************************)
(* Theorems about the WeCom websocket channel, for any number of callers,  *)
(* connections and pieces of a message, and any limit of missed answers.   *)
(***************************************************************************)
EXTENDS WecomWSProps, TLAPS

(* The loop publishes the connection it works on, from the dialling to the *)
(* end of the reading, and has closed it before it dials again.            *)
Published == {"subscribe", "subscribing", "check", "read", "leave"}
Over      == {"tell", "backoff", "dial", "done"}

LoopInv ==
    /\ loop \in Loops /\ cur \in Conns \cup {NoConn} /\ stopped \in BOOLEAN
    /\ loop \in Published \cup {"publish", "close"} => cur \in Conns
    /\ conn = IF loop \in Published THEN cur ELSE NoConn
    /\ open \subseteq Conns /\ open \subseteq {cur} /\ broken \subseteq Conns
    /\ loop \in Over => open = {}

(* A heartbeat belongs to a connection that was read from, and is          *)
(* cancelled when the loop leaves it.  While it goes on, no ping is        *)
(* counted that did not go out on that connection.                         *)
HeartInv ==
    /\ heart \in [Conns -> {"off", "wait", "beat"}] /\ cancelled \subseteq Conns
    /\ missed \in Nat /\ silent \in [Conns -> Nat]
    /\ \A c \in Conns : c > cur => heart[c] = "off"
    /\ cur \in Conns /\ heart[cur] # "off" /\ cur \notin cancelled =>
           loop \in {"check", "read", "leave"}
    /\ cur \in open \ (broken \cup cancelled) /\ heart[cur] # "off" => missed <= silent[cur]

(* What a caller is doing: which piece it is at, and on which connection.  *)
SenderPcs == {"idle", "store", "write", "wait", "start", "finish", "done"}
Asking    == {"write", "wait"}
SenderType == [pc : SenderPcs, n : Nat, i : Nat, on : Conns \cup {NoConn}]

SendersInv ==
    /\ sender \in [Senders -> SenderType]
    /\ \A s \in Senders : sender[s].pc \in Asking \cup {"store"} =>
           sender[s].i \in 1..sender[s].n /\ sender[s].n <= MaxChunks

(* A caller that asks is in the table or has its answer, not both; nobody  *)
(* else is in it or has one.                                               *)
TableInv ==
    /\ pending \subseteq Reqs /\ box \in [Reqs -> {"", "ok", "refused", "closed"}]
    /\ \A r \in Reqs : r \in pending \/ box[r] # "" =>
           \E s \in Senders : r = Req(s) /\ sender[s].pc \in Asking
    /\ \A r \in pending : box[r] = ""
    /\ \A s \in Senders : sender[s].pc \in Asking => Req(s) \in pending \/ box[Req(s)] # ""

(* Nobody is in the table for a connection that is gone.                   *)
ToldInv ==
    \A s \in Senders :
        At(s, "wait") /\ (sender[s].on # cur \/ loop \in {"backoff", "dial", "done"}) =>
            Req(s) \notin pending

WecomInv == LoopInv /\ HeartInv /\ SendersInv /\ TableInv /\ ToldInv

LEMMA Bounds == NoConn \notin Conns /\ MaxConns \in Nat /\ MaxMissed \in Nat /\ MaxChunks \in Nat
BY WecomAssumption DEF Conns, NoConn

-----------------------------------------------------------------------------
(* A step is the loop's, the server's or Stop's, a heartbeat's or a        *)
(* caller's.                                                               *)
LEMMA StepIsOnes ==
    ASSUME [Next]_vars
    PROVE  \/ UNCHANGED vars
           \/ Run \/ Server \/ Stop
           \/ \E c \in Conns : Beats(c)
           \/ \E s \in Senders : Begin(s) \/ Goes(s) \/ Cancel(s)
BY DEF Next

LEMMA SenderSteps ==
    ASSUME NEW s \in Senders, Begin(s) \/ Goes(s) \/ Cancel(s)
    PROVE  UNCHANGED <<loopVars, hearts>>
BY DEF Begin, Goes, Cancel, Store, Write, Take, Timeout, Stream

LEMMA LoopKept == LoopInv /\ [Next]_vars => LoopInv'
<1> SUFFICES ASSUME LoopInv, [Next]_vars PROVE LoopInv'
    OBVIOUS
<1> USE Bounds DEF LoopInv, Loops, Published, Over
<1>1. CASE UNCHANGED loopVars
      BY <1>1 DEF loopVars
<1>2. CASE Dial
  <2>1. cur + 1 \in Conns /\ cur' = cur + 1 /\ open' = open \cup {cur + 1} /\ open = {}
        BY <1>2 DEF Dial, Goto, Conns, NoConn
  <2> QED BY <1>2, <2>1 DEF Dial, Goto
<1>3. CASE DialFails \/ Publish \/ Subscribe \/ Subscribed
      BY <1>3 DEF DialFails, Publish, Subscribe, Subscribed, Goto, hearts
<1>4. CASE Rejected \/ Check \/ ReadFails \/ ReadFrame
      BY <1>4 DEF Rejected, Check, ReadFails, ReadFrame, Goto
<1>5. CASE Leave \/ CloseConn
      BY <1>5 DEF Leave, CloseConn, Goto
<1>6. CASE Tell \/ Backoff \/ Stop \/ Break
      BY <1>6 DEF Tell, Backoff, Stop, Break, Goto
<1>7. ASSUME NEW c \in Conns, Beats(c) PROVE LoopInv'
      BY <1>7 DEF Beats, Tick, Beat, HeartEnds, loopVars
<1>8. CASE Run \/ Server
      BY <1>2, <1>3, <1>4, <1>5, <1>6, <1>8 DEF Run, Server
<1> HIDE DEF LoopInv
<1> QED BY <1>1, <1>6, <1>7, <1>8, StepIsOnes, SenderSteps DEF vars

-----------------------------------------------------------------------------
LEMMA HeartKept == LoopInv /\ HeartInv /\ [Next]_vars => HeartInv'
<1> SUFFICES ASSUME LoopInv, HeartInv, [Next]_vars PROVE HeartInv'
    OBVIOUS
<1> USE Bounds
<1>1. /\ heart \in [Conns -> {"off", "wait", "beat"}] /\ cancelled \subseteq Conns
      /\ missed \in Nat /\ silent \in [Conns -> Nat]
      /\ \A c \in Conns : c > cur => heart[c] = "off"
      /\ cur \in Conns /\ heart[cur] # "off" /\ cur \notin cancelled =>
             loop \in {"check", "read", "leave"}
      /\ cur \in open \ (broken \cup cancelled) /\ heart[cur] # "off" => missed <= silent[cur]
      BY DEF HeartInv
<1>2. CASE UNCHANGED <<hearts, cur, open, broken>> /\ (UNCHANGED loop \/ loop' \in {"check", "read", "leave"} \/ loop \notin {"check", "read", "leave"})
      BY <1>1, <1>2 DEF HeartInv, hearts
<1>3. CASE Dial
  <2>1. cur' = cur + 1 /\ cur \in Nat /\ cur' \in Conns
        BY <1>3 DEF Dial, LoopInv, Conns, NoConn
  <2>2. \A c \in Conns : c > cur' => c > cur
        BY <2>1 DEF Conns
  <2>3. heart[cur'] = "off" /\ \A c \in Conns : c > cur' => heart[c] = "off"
        BY <1>1, <2>1, <2>2
  <2>4. UNCHANGED hearts
        BY <1>3 DEF Dial
  <2> QED BY <1>1, <2>3, <2>4 DEF HeartInv, hearts
<1>4. CASE DialFails \/ Publish \/ Subscribe \/ Rejected \/ ReadFails
      BY <1>2, <1>4 DEF DialFails, Publish, Subscribe, Rejected, ReadFails, Goto
<1>5. CASE Check \/ Tell \/ Backoff
      BY <1>2, <1>5 DEF Check, Tell, Backoff, Goto
<1>6. CASE Subscribed
  <2>1. /\ cur \in Conns /\ cur' = cur /\ loop' = "check" /\ missed' = 0
        /\ heart' = [heart EXCEPT ![cur] = "wait"] /\ UNCHANGED <<cancelled, silent>>
        BY <1>6 DEF Subscribed, Goto, LoopInv, Published
  <2>2. silent'[cur] \in Nat /\ missed' <= silent'[cur]
        BY <1>1, <2>1
  <2>3. \A c \in Conns : c > cur => c # cur
        BY DEF Conns
  <2>4. \A c \in Conns : c > cur' => heart'[c] = "off"
        BY <1>1, <2>1, <2>3
  <2> QED BY <1>1, <2>1, <2>2, <2>4 DEF HeartInv
<1>7. CASE ReadFrame
  <2>1. \/ missed' = 0 /\ silent' = [silent EXCEPT ![cur] = 0]
        \/ UNCHANGED <<missed, silent>>
        BY <1>7 DEF ReadFrame, Answer, Pong, Deliver
  <2>2. /\ UNCHANGED <<cur, open, broken, heart, cancelled>> /\ loop' = "check"
        BY <1>7 DEF ReadFrame, Goto
  <2>3. missed' \in Nat /\ silent' \in [Conns -> Nat]
        BY <1>1, <2>1
  <2>4. cur \in Conns /\ missed <= silent[cur] => missed' <= silent'[cur]
        BY <1>1, <2>1
  <2>5. cur \in open => cur \in Conns
        BY DEF LoopInv
  <2> QED BY <1>1, <2>2, <2>3, <2>4, <2>5 DEF HeartInv
<1>8. CASE Leave
  <2>1. /\ cancelled' = cancelled \cup {cur} /\ cur \in Conns
        /\ UNCHANGED <<cur, open, broken, missed, heart, silent>>
        BY <1>8 DEF Leave, Goto, LoopInv, Published
  <2> QED BY <1>1, <2>1 DEF HeartInv
<1>9. CASE CloseConn
  <2>1. /\ open' = open \ {cur} /\ silent' = [silent EXCEPT ![cur] = 0]
        /\ loop = "close" /\ UNCHANGED <<cur, missed, heart, cancelled>>
        BY <1>9 DEF CloseConn, Goto
  <2> QED BY <1>1, <2>1 DEF HeartInv
<1>10. CASE Stop
      BY <1>1, <1>10 DEF Stop, HeartInv, hearts
<1>11. CASE Break
      BY <1>1, <1>11 DEF Break, HeartInv, hearts
<1>12. ASSUME NEW c \in Conns, Tick(c) \/ HeartEnds(c) PROVE HeartInv'
  <2>1. /\ heart' \in [Conns -> {"off", "wait", "beat"}]
        /\ \A d \in Conns : heart[d] = "off" => heart'[d] = "off"
        /\ open' \subseteq open
        /\ UNCHANGED <<loop, cur, broken, missed, cancelled, silent>>
        BY <1>1, <1>12 DEF Tick, HeartEnds, loopVars
  <2>2. cur \in open => cur \in Conns
        BY DEF LoopInv
  <2>3. \A d \in Conns : d > cur' => heart'[d] = "off"
        BY <1>1, <2>1
  <2>4. /\ cur \in Conns /\ heart'[cur] # "off" /\ cur \notin cancelled =>
              loop \in {"check", "read", "leave"}
        /\ cur \in open' \ (broken \cup cancelled) /\ heart'[cur] # "off" =>
              missed <= silent[cur]
        BY <1>1, <2>1, <2>2
  <2> QED BY <1>1, <2>1, <2>3, <2>4 DEF HeartInv
<1>13. ASSUME NEW c \in Conns, Beat(c) PROVE HeartInv'
  <2>1. /\ heart' \in [Conns -> {"off", "wait", "beat"}]
        /\ \A d \in Conns : heart[d] = "off" => heart'[d] = "off"
        /\ missed' = missed + 1 /\ UNCHANGED <<loop, cur, conn, open, broken, cancelled>>
        BY <1>1, <1>13 DEF Beat, loopVars
  <2>2. conn \in Conns \cup {NoConn}
        BY DEF LoopInv, Published
  <2>3. \/ CanWrite /\ silent' = [silent EXCEPT ![conn] = @ + 1]
        \/ CanFail /\ silent' = silent
        BY <1>13 DEF Beat
  <2>4. silent' \in [Conns -> Nat]
        BY <1>1, <2>2, <2>3 DEF CanWrite
  <2>5. ASSUME cur \in open \ (broken \cup cancelled), heart'[cur] # "off"
        PROVE  missed' <= silent'[cur]
    <3>1. cur \in Conns /\ heart[cur] # "off"
          BY <2>1, <2>5 DEF LoopInv
    <3>2. loop \in {"check", "read", "leave"} /\ conn = cur
          BY <1>1, <2>5, <3>1 DEF LoopInv, Published
    <3>3. silent'[cur] = silent[cur] + 1
          BY <1>1, <2>3, <2>5, <3>1, <3>2 DEF CanFail
    <3>4. missed <= silent[cur] /\ silent[cur] \in Nat /\ missed \in Nat
          BY <1>1, <2>5, <3>1
    <3> QED BY <2>1, <3>3, <3>4
  <2>6. missed' \in Nat
        BY <1>1, <2>1
  <2> QED BY <1>1, <2>1, <2>4, <2>5, <2>6 DEF HeartInv
<1>14. CASE UNCHANGED <<loopVars, hearts>>
      BY <1>2, <1>14 DEF loopVars
<1>15. CASE Run \/ Server
      BY <1>3, <1>4, <1>5, <1>6, <1>7, <1>8, <1>9, <1>11, <1>15 DEF Run, Server
<1>16. ASSUME NEW c \in Conns, Beats(c) PROVE HeartInv'
      BY <1>12, <1>13, <1>16 DEF Beats
<1> QED BY <1>10, <1>14, <1>15, <1>16, StepIsOnes, SenderSteps DEF vars

-----------------------------------------------------------------------------
(* What a step of a caller does to its own place, and to nobody else's.    *)
Others(s) ==
    /\ sender' \in [Senders -> SenderType]
    /\ \A t \in Senders \ {s} : sender'[t] = sender[t]

LEMMA Placed ==
    ASSUME sender \in [Senders -> SenderType], NEW s \in Senders, NEW new \in SenderType,
           sender' = [sender EXCEPT ![s] = new]
    PROVE  Others(s) /\ sender'[s] = new
BY DEF Others

(* A caller that goes on keeps its piece, takes the next one or is done.   *)
Keeps(s) == sender'[s].n = sender[s].n /\ sender'[s].i = sender[s].i
Done(s)  == Others(s) /\ sender'[s].pc = "done"

LEMMA IdleType == Idle \in SenderType /\ [Idle EXCEPT !.pc = "done"] \in SenderType
BY DEF Idle, SenderType, SenderPcs

LEMMA EndsDone ==
    ASSUME SendersInv, NEW s \in Senders, Ends(s)
    PROVE  Done(s)
<1> DEFINE new == [Idle EXCEPT !.pc = "done"]
<1>1. new \in SenderType /\ new.pc = "done"
      BY IdleType DEF Idle
<1>2. sender' = [sender EXCEPT ![s] = new]
      BY DEF Ends
<1> HIDE DEF new
<1> QED BY <1>1, <1>2, Placed DEF SendersInv, Done

LEMMA NextGoesOn ==
    ASSUME SendersInv, NEW s \in Senders, At(s, "wait"), NextChunk(s)
    PROVE  \/ Done(s)
           \/ /\ Others(s) /\ sender'[s].pc = "store"
              /\ sender'[s].n = sender[s].n /\ sender'[s].i = sender[s].i + 1
              /\ sender[s].i < sender[s].n
<1>1. CASE sender[s].i < sender[s].n
  <2> DEFINE next == sender[s].i + 1
             new  == [sender[s] EXCEPT !.pc = "store", !.i = next]
  <2>1. sender[s] \in SenderType /\ sender[s].i \in Nat /\ next \in Nat
        BY DEF SendersInv, SenderType
  <2>2. [sender[s] EXCEPT !.pc = "store"] \in SenderType
        BY <2>1 DEF SenderType, SenderPcs
  <2> HIDE DEF next
  <2>3. new \in SenderType
        BY <2>1, <2>2 DEF SenderType
  <2> USE DEF next
  <2>4. new.pc = "store" /\ new.n = sender[s].n /\ new.i = next
        BY <2>1 DEF SenderType
  <2>5. sender' = [sender EXCEPT ![s] = new]
        BY <1>1, <2>1 DEF NextChunk, SendersInv, SenderType
  <2> HIDE DEF new
  <2> QED BY <1>1, <2>3, <2>4, <2>5, Placed DEF SendersInv
<1>2. CASE ~(sender[s].i < sender[s].n)
      BY <1>2, EndsDone DEF NextChunk
<1> QED BY <1>1, <1>2

LEMMA BeginsSo ==
    ASSUME SendersInv, NEW s \in Senders, Begin(s)
    PROVE  /\ Others(s) /\ At(s, "idle")
           /\ \/ sender'[s].pc = "start"
              \/ /\ sender'[s].pc = "store" /\ sender'[s].i = 1
                 /\ sender'[s].n \in 1..MaxChunks
<1>1. sender[s] \in SenderType /\ At(s, "idle")
      BY DEF SendersInv, Begin
<1>2. ASSUME NEW n \in 1..MaxChunks,
             sender' = [sender EXCEPT ![s] = [Idle EXCEPT !.pc = "store", !.n = n, !.i = 1]]
      PROVE  Others(s) /\ sender'[s].pc = "store" /\ sender'[s].i = 1 /\ sender'[s].n = n
  <2> DEFINE new == [Idle EXCEPT !.pc = "store", !.n = n, !.i = 1]
  <2>1. n \in Nat
        BY Bounds
  <2>2. [Idle EXCEPT !.pc = "store"] \in SenderType
        BY IdleType DEF SenderType, SenderPcs
  <2>3. [[Idle EXCEPT !.pc = "store"] EXCEPT !.n = n] \in SenderType
        BY <2>1, <2>2 DEF SenderType
  <2>4. new \in SenderType
        BY <2>3 DEF SenderType
  <2>5. new.pc = "store" /\ new.i = 1 /\ new.n = n
        BY IdleType DEF SenderType
  <2> HIDE DEF new
  <2> QED BY <1>2, <2>4, <2>5, Placed DEF SendersInv, new
<1>3. ASSUME sender' = [sender EXCEPT ![s].pc = "start"]
      PROVE  Others(s) /\ sender'[s].pc = "start"
      BY <1>1, <1>3 DEF Others, SendersInv, SenderType, SenderPcs
<1> QED BY <1>1, <1>2, <1>3 DEF Begin

LEMMA StoresSo ==
    ASSUME SendersInv, NEW s \in Senders, Store(s)
    PROVE  Others(s) /\ Keeps(s) /\ At(s, "store") /\ sender'[s].pc = "write"
<1>1. sender[s] \in SenderType /\ At(s, "store") /\ sender' = [sender EXCEPT ![s].pc = "write"]
      BY DEF SendersInv, Store
<1> QED BY <1>1 DEF Others, Keeps, SendersInv, SenderType, SenderPcs

LEMMA WritesSo ==
    ASSUME LoopInv, SendersInv, NEW s \in Senders, Write(s)
    PROVE  /\ At(s, "write")
           /\ \/ Done(s) /\ Forget(s)
              \/ /\ Others(s) /\ Keeps(s) /\ CanWrite /\ UNCHANGED acks
                 /\ sender'[s].pc = "wait" /\ sender'[s].on = conn
<1>1. At(s, "write")
      BY DEF Write
<1>2. CASE Ends(s) /\ Forget(s)
      BY <1>1, <1>2, EndsDone
<1>3. CASE /\ CanWrite /\ UNCHANGED acks
           /\ sender' = [sender EXCEPT ![s].pc = "wait", ![s].on = conn]
  <2> DEFINE new == [sender[s] EXCEPT !.pc = "wait", !.on = conn]
  <2>1. sender[s] \in SenderType /\ conn \in Conns \cup {NoConn}
        BY DEF SendersInv, LoopInv, Published
  <2>2. [sender[s] EXCEPT !.pc = "wait"] \in SenderType
        BY <2>1 DEF SenderType, SenderPcs
  <2>3. new \in SenderType
        BY <2>1, <2>2 DEF SenderType
  <2>4. new.pc = "wait" /\ new.on = conn /\ new.n = sender[s].n /\ new.i = sender[s].i
        BY <2>1 DEF SenderType
  <2>5. sender' = [sender EXCEPT ![s] = new]
        BY <1>3, <2>1 DEF SendersInv
  <2> HIDE DEF new
  <2> QED BY <1>1, <1>3, <2>3, <2>4, <2>5, Placed DEF SendersInv, Keeps
<1> QED BY <1>2, <1>3 DEF Write

LEMMA StreamsSo ==
    ASSUME SendersInv, NEW s \in Senders, Stream(s)
    PROVE  /\ Others(s) /\ UNCHANGED acks /\ sender'[s].pc \in {"finish", "done"}
           /\ sender[s].pc \notin Asking
<1>1. sender[s] \in SenderType /\ UNCHANGED acks /\ sender[s].pc \notin Asking
      BY DEF SendersInv, Stream, At, Asking
<1>2. Ends(s) \/ sender' = [sender EXCEPT ![s].pc = "finish"]
      BY DEF Stream
<1>3. CASE sender' = [sender EXCEPT ![s].pc = "finish"]
      BY <1>1, <1>3 DEF Others, SendersInv, SenderType, SenderPcs
<1> QED BY <1>1, <1>2, <1>3, EndsDone DEF Done

(* Only callers change what they do.                                       *)
LEMMA SenderOrNot ==
    ASSUME [Next]_vars
    PROVE  \/ sender' = sender
           \/ \E s \in Senders : Begin(s) \/ Goes(s) \/ Cancel(s)
<1>1. Run \/ Server \/ Stop => sender' = sender
      BY DEF Run, Server, Dial, DialFails, Publish, Subscribe, Subscribed, Rejected, Check,
             ReadFails, ReadFrame, Leave, CloseConn, Tell, Backoff, Stop, Break
<1>2. \A c \in Conns : Beats(c) => sender' = sender
      BY DEF Beats, Tick, Beat, HeartEnds
<1> QED BY <1>1, <1>2, StepIsOnes DEF vars

LEMMA SendersKept == LoopInv /\ SendersInv /\ [Next]_vars => SendersInv'
<1> SUFFICES ASSUME LoopInv, SendersInv, [Next]_vars PROVE SendersInv'
    OBVIOUS
<1> DEFINE Fine(s) == sender'[s].pc \in Asking \cup {"store"} =>
                          sender'[s].i \in 1..sender'[s].n /\ sender'[s].n <= MaxChunks
<1>1. ASSUME NEW s \in Senders, Others(s), Fine(s) PROVE SendersInv'
      BY <1>1 DEF Others, SendersInv
<1>2. ASSUME NEW s \in Senders, Done(s) PROVE SendersInv'
      BY <1>1, <1>2 DEF Done, Asking
<1>3. ASSUME NEW s \in Senders, Begin(s) PROVE SendersInv'
  <2>1. Fine(s)
        BY <1>3, Bounds, BeginsSo DEF Asking
  <2> QED BY <1>1, <1>3, <2>1, BeginsSo
<1>4. ASSUME NEW s \in Senders, Store(s) \/ Write(s) PROVE SendersInv'
  <2>1. Done(s) \/ (Others(s) /\ Keeps(s) /\ sender[s].pc \in Asking \cup {"store"})
        BY <1>4, StoresSo, WritesSo DEF At, Asking
  <2> QED BY <1>1, <1>2, <2>1 DEF Keeps, SendersInv
<1>5. ASSUME NEW s \in Senders, Take(s) \/ Timeout(s) \/ Cancel(s) PROVE SendersInv'
  <2>1. At(s, "wait") /\ (Ends(s) \/ NextChunk(s))
        BY <1>5 DEF Take, Timeout, Cancel
  <2>2. ASSUME Others(s), sender'[s].n = sender[s].n, sender'[s].i = sender[s].i + 1,
               sender[s].i < sender[s].n
        PROVE  Fine(s)
    <3>1. sender[s].i \in 1..sender[s].n /\ sender[s].n <= MaxChunks /\ sender[s].n \in Nat
          BY <2>1 DEF SendersInv, SenderType, At, Asking
    <3> QED BY <2>2, <3>1
  <2> QED BY <1>1, <1>2, <2>1, <2>2, EndsDone, NextGoesOn
<1>6. ASSUME NEW s \in Senders, Stream(s) PROVE SendersInv'
      BY <1>1, <1>6, StreamsSo DEF Asking
<1>7. CASE sender' = sender
      BY <1>7 DEF SendersInv
<1> QED BY <1>3, <1>4, <1>5, <1>6, <1>7, SenderOrNot DEF Goes

-----------------------------------------------------------------------------
(* The requests of two callers differ.                                     *)
LEMMA OwnRequest ==
    ASSUME NEW s, NEW t, Req(s) = Req(t)
    PROVE  s = t
BY DEF Req

LEMMA RequestType ==
    ASSUME SendersInv, NEW s \in Senders, sender[s].pc \in Asking \cup {"store"}
    PROVE  Req(s) \in Reqs
<1>1. sender[s].i \in 1..sender[s].n /\ sender[s].n <= MaxChunks /\ sender[s].n \in Nat
      BY DEF SendersInv, SenderType
<1>2. sender[s].i \in 1..MaxChunks
      BY <1>1, Bounds
<1> QED BY <1>2 DEF Req, Reqs

(* A caller that asks for nothing leaves the table as it should be, once   *)
(* its own request is out of it.                                           *)
LEMMA TableWithout ==
    ASSUME TableInv, SendersInv, NEW s \in Senders, Others(s), sender'[s].pc \notin Asking,
           pending' \subseteq pending, box' \in [Reqs -> {"", "ok", "refused", "closed"}],
           sender[s].pc \in Asking => Req(s) \notin pending' /\ box'[Req(s)] = "",
           \A r \in Reqs : r # Req(s) \/ sender[s].pc \notin Asking =>
               (r \in pending' <=> r \in pending) /\ box'[r] = box[r]
    PROVE  TableInv'
<1> DEFINE Req2(t) == <<t, sender'[t].i>>
<1>1. \A t \in Senders : t # s => Req2(t) = Req(t) /\ sender'[t] = sender[t] /\ Req(t) # Req(s)
      BY OwnRequest DEF Others, Req
<1>2. \A r \in Reqs : r \in pending' \/ box'[r] # "" =>
          \E t \in Senders : r = Req2(t) /\ sender'[t].pc \in Asking
  <2> SUFFICES ASSUME NEW r \in Reqs, r \in pending' \/ box'[r] # ""
               PROVE  \E t \in Senders : r = Req2(t) /\ sender'[t].pc \in Asking
      OBVIOUS
  <2>1. r # Req(s) \/ sender[s].pc \notin Asking
        OBVIOUS
  <2>2. PICK t \in Senders : r = Req(t) /\ sender[t].pc \in Asking
        BY <2>1 DEF TableInv
  <2> QED BY <1>1, <2>1, <2>2
<1>3. \A r \in pending' : box'[r] = ""
      BY DEF TableInv
<1>4. \A t \in Senders : sender'[t].pc \in Asking => Req2(t) \in pending' \/ box'[Req2(t)] # ""
  <2> SUFFICES ASSUME NEW t \in Senders, sender'[t].pc \in Asking
               PROVE  Req2(t) \in pending' \/ box'[Req2(t)] # ""
      OBVIOUS
  <2>1. t # s /\ sender[t].pc \in Asking /\ Req2(t) = Req(t) /\ Req(t) # Req(s)
        BY <1>1
  <2>2. Req(t) \in Reqs
        BY <2>1, RequestType
  <2> QED BY <2>1, <2>2 DEF TableInv
<1>5. pending' \subseteq Reqs
      BY DEF TableInv
<1>6. \A t : Req2(t) = Req(t)'
      BY DEF Req
<1> HIDE DEF Req2
<1> QED BY <1>2, <1>3, <1>4, <1>5, <1>6 DEF TableInv

LEMMA TableWhenForgotten ==
    ASSUME TableInv, SendersInv, NEW s \in Senders, Others(s), sender'[s].pc \notin Asking,
           sender[s].pc \in Asking,
           pending' \in {pending, pending \ {Req(s)}}, box' = [box EXCEPT ![Req(s)] = ""],
           Req(s) \notin pending'
    PROVE  TableInv'
<1>1. Req(s) \in Reqs
      BY RequestType
<1>2. box' \in [Reqs -> {"", "ok", "refused", "closed"}] /\ box'[Req(s)] = ""
      BY <1>1 DEF TableInv
<1>3. \A r \in Reqs : r # Req(s) => (r \in pending' <=> r \in pending) /\ box'[r] = box[r]
      BY DEF TableInv
<1> QED BY <1>2, <1>3, TableWithout

LEMMA TableKept == LoopInv /\ SendersInv /\ TableInv /\ [Next]_vars => TableInv'
<1> SUFFICES ASSUME LoopInv, SendersInv, TableInv, [Next]_vars PROVE TableInv'
    OBVIOUS
<1>1. CASE UNCHANGED <<acks, sender>>
      BY <1>1 DEF TableInv, acks, Req
<1>2. ASSUME NEW s \in Senders, Others(s), sender'[s].pc \notin Asking,
             sender[s].pc \notin Asking, UNCHANGED acks
      PROVE  TableInv'
  <2>1. pending' = pending /\ box' = box
        BY <1>2 DEF acks
  <2>2. box \in [Reqs -> {"", "ok", "refused", "closed"}]
        BY DEF TableInv
  <2> QED BY <1>2, <2>1, <2>2, TableWithout
<1>3. ASSUME NEW s \in Senders, Begin(s) \/ Stream(s) PROVE TableInv'
  <2>1. UNCHANGED acks /\ Others(s) /\ sender'[s].pc \notin Asking /\ sender[s].pc \notin Asking
        BY <1>3, BeginsSo, StreamsSo DEF Begin, At, Asking
  <2> QED BY <1>2, <2>1
<1>4. ASSUME NEW s \in Senders, Store(s) PROVE TableInv'
  <2>1. /\ Others(s) /\ Keeps(s) /\ sender[s].pc = "store" /\ sender'[s].pc = "write"
        /\ pending' = pending \cup {Req(s)} /\ box' = box
        BY <1>4, StoresSo DEF Store, At
  <2>2. Req(s) \in Reqs
        BY <2>1, RequestType
  <2>3. box[Req(s)] = ""
    <3>1. \A t \in Senders : Req(t) = Req(s) => sender[t].pc \notin Asking
          BY <2>1, OwnRequest DEF Asking
    <3> QED BY <2>2, <3>1 DEF TableInv
  <2> DEFINE Req2(t) == <<t, sender'[t].i>>
  <2>4. \A t \in Senders : Req2(t) = Req(t)
        BY <2>1 DEF Req, Others, Keeps
  <2>5. \A t \in Senders : (sender[t].pc \in Asking => sender'[t].pc \in Asking)
                           /\ (sender'[t].pc \in Asking => sender[t].pc \in Asking \/ t = s)
        BY <2>1 DEF Others, Asking
  <2>6. \A r \in Reqs : r \in pending' \/ box'[r] # "" =>
            \E t \in Senders : r = Req2(t) /\ sender'[t].pc \in Asking
    <3>1. \A r \in Reqs : r \in pending \/ box[r] # "" =>
              \E t \in Senders : r = Req2(t) /\ sender'[t].pc \in Asking
          BY <2>4, <2>5 DEF TableInv
    <3>2. Req(s) = Req2(s) /\ sender'[s].pc \in Asking
          BY <2>1, <2>4 DEF Asking
    <3> QED BY <2>1, <3>1, <3>2
  <2>7. \A t \in Senders : sender'[t].pc \in Asking =>
            Req2(t) \in pending' \/ box'[Req2(t)] # ""
        BY <2>1, <2>4, <2>5 DEF TableInv
  <2>8. \A t : Req2(t) = Req(t)'
        BY DEF Req
  <2>9. pending' \subseteq Reqs /\ \A r \in pending' : box'[r] = ""
        BY <2>1, <2>2, <2>3 DEF TableInv
  <2> HIDE DEF Req2
  <2> QED BY <2>1, <2>6, <2>7, <2>8, <2>9 DEF TableInv
<1>5. ASSUME NEW s \in Senders, Write(s) PROVE TableInv'
  <2>1. CASE Done(s) /\ Forget(s)
    <3>1. sender[s].pc \in Asking
          BY <1>5, WritesSo DEF At, Asking
    <3> QED BY <2>1, <3>1, TableWhenForgotten DEF Done, Forget, Asking
  <2>2. CASE Others(s) /\ Keeps(s) /\ UNCHANGED acks /\ sender'[s].pc = "wait"
    <3>1. sender[s].pc = "write" /\ pending' = pending /\ box' = box
          BY <1>5, <2>2 DEF Write, At, acks
    <3> DEFINE Req2(t) == <<t, sender'[t].i>>
    <3>2. \A t \in Senders : /\ Req2(t) = Req(t)
                             /\ sender'[t].pc \in Asking <=> sender[t].pc \in Asking
          BY <2>2, <3>1 DEF Req, Others, Keeps, Asking
    <3>3. /\ \A r \in Reqs : r \in pending' \/ box'[r] # "" =>
                \E t \in Senders : r = Req2(t) /\ sender'[t].pc \in Asking
          /\ \A t \in Senders : sender'[t].pc \in Asking =>
                Req2(t) \in pending' \/ box'[Req2(t)] # ""
          BY ZenonT(40), <3>1, <3>2 DEF TableInv
    <3>4. \A t : Req2(t) = Req(t)'
          BY DEF Req
    <3> HIDE DEF Req2
    <3> QED BY <3>1, <3>3, <3>4 DEF TableInv
  <2> QED BY <1>5, <2>1, <2>2, WritesSo
<1>6. ASSUME NEW s \in Senders, Take(s) \/ Timeout(s) \/ Cancel(s) PROVE TableInv'
  <2>1. sender[s].pc = "wait" /\ sender[s].pc \in Asking /\ (Ends(s) \/ NextChunk(s))
        BY <1>6 DEF Take, Timeout, Cancel, At, Asking
  <2>2. Others(s) /\ sender'[s].pc \notin Asking
        BY <2>1, EndsDone, NextGoesOn DEF At, Done, Asking
  <2>3. Timeout(s) \/ Cancel(s) =>
            pending' = pending \ {Req(s)} /\ box' = [box EXCEPT ![Req(s)] = ""]
        BY DEF Timeout, Cancel, Forget
  <2>4. Take(s) => /\ pending' = pending /\ box' = [box EXCEPT ![Req(s)] = ""]
                   /\ Req(s) \notin pending
        BY DEF Take, TableInv
  <2> QED BY <1>6, <2>1, <2>2, <2>3, <2>4, TableWhenForgotten
<1>7. ASSUME sender' = sender, pending' \subseteq pending,
             box' \in [Reqs -> {"", "ok", "refused", "closed"}],
             \A r \in Reqs : r \in pending' => box'[r] = "",
             \A r \in Reqs : box[r] # "" => box'[r] # "",
             \A r \in Reqs : box'[r] # "" => box[r] # "" \/ r \in pending,
             \A r \in pending \ pending' : box'[r] # ""
      PROVE  TableInv'
  <2>1. \A r \in Reqs : r \in pending' \/ box'[r] # "" =>
            \E t \in Senders : r = Req(t) /\ sender[t].pc \in Asking
        BY <1>7 DEF TableInv
  <2>2. \A t \in Senders : sender[t].pc \in Asking => Req(t) \in pending' \/ box'[Req(t)] # ""
        BY <1>7, RequestType DEF TableInv
  <2>3. \A t : Req(t) = Req(t)'
        BY <1>7 DEF Req
  <2>4. pending' \subseteq Reqs
        BY <1>7 DEF TableInv
  <2> QED BY <1>7, <2>1, <2>2, <2>3, <2>4 DEF TableInv
<1>8. CASE ReadFrame
  <2>1. sender' = sender
        BY <1>8 DEF ReadFrame
  <2>2. \/ UNCHANGED acks
        \/ \E r \in pending, answer \in {"ok", "refused"} :
              pending' = pending \ {r} /\ box' = [box EXCEPT ![r] = answer]
        BY <1>8 DEF ReadFrame, Answer, Pong, Deliver
  <2>3. ASSUME NEW r \in pending, NEW answer \in {"ok", "refused"},
               pending' = pending \ {r}, box' = [box EXCEPT ![r] = answer]
        PROVE  TableInv'
    <3>1. r \in Reqs /\ box \in [Reqs -> {"", "ok", "refused", "closed"}]
          BY DEF TableInv
    <3>2. box' \in [Reqs -> {"", "ok", "refused", "closed"}] /\ box'[r] # ""
          /\ \A q \in Reqs : q # r => box'[q] = box[q]
          BY <2>3, <3>1
    <3>3. \A q \in pending : box[q] = ""
          BY DEF TableInv
    <3> QED BY <1>7, <2>1, <2>3, <3>2, <3>3
  <2> QED BY <1>1, <2>1, <2>2, <2>3
<1>9. CASE Tell
  <2>1. /\ sender' = sender /\ pending' = {}
        /\ box' = [r \in Reqs |-> IF r \in pending /\ box[r] = "" THEN "closed" ELSE box[r]]
        BY <1>9 DEF Tell
  <2>2. /\ box \in [Reqs -> {"", "ok", "refused", "closed"}] /\ pending \subseteq Reqs
        /\ \A r \in pending : box[r] = ""
        BY DEF TableInv
  <2> QED BY <1>7, <2>1, <2>2
<1>10. Run \/ Server \/ Stop => ReadFrame \/ Tell \/ UNCHANGED <<acks, sender>>
      BY DEF Run, Server, Dial, DialFails, Publish, Subscribe, Subscribed, Rejected, Check,
             ReadFails, Leave, CloseConn, Backoff, Stop, Break
<1>11. \A c \in Conns : Beats(c) => UNCHANGED <<acks, sender>>
      BY DEF Beats, Tick, Beat, HeartEnds
<1> QED BY <1>1, <1>3, <1>4, <1>5, <1>6, <1>8, <1>9, <1>10, <1>11, StepIsOnes DEF vars, Goes

-----------------------------------------------------------------------------
(* What a step of the loop does to those who wait.                         *)
LEMMA LoopSteps ==
    ASSUME LoopInv, SendersInv, [Next]_vars, sender' = sender
    PROVE  /\ pending' \subseteq pending
           /\ \/ cur' = cur
              \/ loop = "dial"
           /\ \/ loop' \in {"backoff", "dial", "done"} => loop \in {"backoff", "dial", "done"}
              \/ pending' = {}
<1>1. CASE Run \/ Server \/ Stop
  <2>1. CASE Dial \/ DialFails \/ Backoff
        BY <2>1 DEF Dial, DialFails, Backoff, Goto, acks
  <2>2. CASE Publish \/ Subscribe \/ Subscribed \/ Rejected \/ Check
        BY <2>2 DEF Publish, Subscribe, Subscribed, Rejected, Check, Goto, acks
  <2>3. CASE ReadFails \/ Leave \/ CloseConn \/ Tell \/ Stop \/ Break
        BY <2>3 DEF ReadFails, Leave, CloseConn, Tell, Stop, Break, Goto, acks
  <2>4. CASE ReadFrame
    <3>1. pending' \subseteq pending
          BY <2>4 DEF ReadFrame, Answer, Pong, Deliver, acks
    <3> QED BY <2>4, <3>1 DEF ReadFrame, Goto
  <2> QED BY <1>1, <2>1, <2>2, <2>3, <2>4 DEF Run, Server
<1>2. ASSUME NEW c \in Conns, Beats(c) PROVE UNCHANGED <<pending, cur, loop>>
      BY <1>2 DEF Beats, Tick, Beat, HeartEnds, acks, loopVars
<1>3. ASSUME NEW s \in Senders, Begin(s) \/ Goes(s) \/ Cancel(s), UNCHANGED sender
      PROVE  pending' \subseteq pending
  <2>1. ~Store(s)
        BY <1>3, StoresSo DEF At
  <2> QED BY <1>3, <2>1 DEF Begin, Goes, Cancel, Write, Take, Timeout, Stream, Forget, acks
<1> QED BY <1>1, <1>2, <1>3, StepIsOnes, SenderSteps DEF vars, loopVars, acks

LEMMA ToldKept ==
    LoopInv /\ SendersInv /\ TableInv /\ ToldInv /\ [Next]_vars => ToldInv'
<1> SUFFICES ASSUME LoopInv, SendersInv, TableInv, ToldInv, [Next]_vars PROVE ToldInv'
    OBVIOUS
<1> DEFINE Gone(s) == sender[s].on # cur \/ loop \in {"backoff", "dial", "done"}
           Gone2(s) == sender'[s].on # cur' \/ loop' \in {"backoff", "dial", "done"}
           Req2(s) == <<s, sender'[s].i>>
<1>1. SUFFICES ASSUME NEW s \in Senders, sender'[s].pc = "wait", Gone2(s)
               PROVE  Req2(s) \notin pending'
  <2>1. \A s \in Senders : sender'[s].pc = "wait" /\ Gone2(s) => Req2(s) \notin pending'
        BY <1>1
  <2>2. \A s : Req2(s) = Req(s)' /\ At(s, "wait")' = (sender'[s].pc = "wait")
        BY DEF Req, At
  <2> HIDE DEF Req2
  <2> QED BY <2>1, <2>2 DEF ToldInv
<1>2. ASSUME Gone(s), sender[s].pc = "wait" PROVE Req(s) \notin pending
      BY <1>2 DEF ToldInv, At
<1>3. CASE sender' = sender
  <2>1. Req2(s) = Req(s) /\ sender[s].pc = "wait"
        BY <1>1, <1>3 DEF Req
  <2>2. Gone(s) \/ pending' = {}
        BY <1>1, <1>3, LoopSteps
  <2> QED BY <1>2, <1>3, <2>1, <2>2, LoopSteps
<1>4. ASSUME NEW t \in Senders, Begin(t) \/ Goes(t) \/ Cancel(t) PROVE Req2(s) \notin pending'
  <2>1. UNCHANGED <<cur, loop>>
        BY <1>4, SenderSteps DEF loopVars
  <2>2. Others(t) /\ pending' \subseteq pending \cup {Req(t)}
    <3>1. CASE Begin(t) \/ Stream(t) \/ Store(t)
          BY <3>1, BeginsSo, StreamsSo, StoresSo DEF Begin, Store, acks
    <3>2. CASE Write(t)
          BY <3>2, WritesSo DEF Done, Forget, acks
    <3>3. CASE Take(t) \/ Timeout(t) \/ Cancel(t)
          BY <3>3, EndsDone, NextGoesOn DEF Take, Timeout, Cancel, Done, Forget
    <3> QED BY <1>4, <3>1, <3>2, <3>3 DEF Goes
  <2>3. CASE t # s
    <3>1. sender'[s] = sender[s] /\ Req2(s) = Req(s) /\ Req(s) # Req(t)
          BY <2>2, <2>3, OwnRequest DEF Others, Req
    <3> QED BY <1>1, <1>2, <2>1, <2>2, <3>1
  <2>4. CASE t = s
    <3>1. Write(s) /\ CanWrite /\ sender'[s].on = conn
      <4>1. ~Begin(s) /\ ~Store(s) /\ ~Stream(s)
            BY <1>1, BeginsSo, StoresSo, StreamsSo
      <4>2. ~Take(s) /\ ~Timeout(s) /\ ~Cancel(s)
            BY <1>1, EndsDone, NextGoesOn DEF Take, Timeout, Cancel, Done
      <4> QED BY <1>1, <1>4, <2>4, <4>1, <4>2, WritesSo DEF Goes, Done
    <3>2. conn = cur /\ loop \in Published
          BY <3>1 DEF CanWrite, LoopInv
    <3> QED BY <1>1, <2>1, <3>1, <3>2 DEF Published
  <2> QED BY <2>3, <2>4
<1> QED BY <1>3, <1>4, SenderOrNot

-----------------------------------------------------------------------------
LEMMA InitWecom == Init => WecomInv
<1> SUFFICES ASSUME Init PROVE WecomInv
    OBVIOUS
<1> USE Bounds
<1>1. LoopInv
      BY DEF Init, LoopInv, Loops, Published, Over
<1>2. HeartInv
      BY DEF Init, HeartInv
<1>3. sender = [s \in Senders |-> Idle] /\ Idle \in SenderType /\ Idle.pc = "idle"
      BY IdleType DEF Init, Idle
<1>4. \A s \in Senders : sender[s].pc = "idle"
      BY <1>3
<1>5. SendersInv
      BY <1>3, <1>4 DEF SendersInv, Asking
<1>6. pending = {} /\ box = [r \in Reqs |-> ""]
      BY DEF Init
<1>7. TableInv
      BY <1>4, <1>6 DEF TableInv, Asking
<1>8. ToldInv
      BY <1>6 DEF ToldInv
<1> QED BY <1>1, <1>2, <1>5, <1>7, <1>8 DEF WecomInv

LEMMA WecomKept == Spec => []WecomInv
<1>1. WecomInv /\ [Next]_vars => WecomInv'
      BY LoopKept, HeartKept, SendersKept, TableKept, ToldKept DEF WecomInv
<1> QED BY <1>1, InitWecom, PTL DEF Spec

(* Every variable has its type; at most the connection of the loop is      *)
(* published, and none but it is open (websocket.go:184-192).              *)
THEOREM TypeCorrect == Spec => []TypeOK
<1>1. WecomInv => TypeOK
  <2> SUFFICES ASSUME WecomInv PROVE TypeOK
      OBVIOUS
  <2>1. \A s \in Senders : sender[s].pc \in SenderPcs
        BY DEF WecomInv, SendersInv, SenderType
  <2> QED BY <2>1 DEF WecomInv, LoopInv, HeartInv, TableInv, TypeOK, SenderPcs
<1> QED BY <1>1, WecomKept, PTL

(* The table of waiting callers holds only callers that wait, and none     *)
(* that was answered (websocket.go:286-288, 536-556).                      *)
THEOREM TableStaysExact == Spec => []TableIsExact
<1>1. WecomInv => TableIsExact
  <2> SUFFICES ASSUME WecomInv, NEW r \in pending
               PROVE  /\ box[r] = ""
                      /\ sender[r[1]].i = r[2] /\ sender[r[1]].pc \in {"write", "wait"}
      BY DEF TableIsExact
  <2>1. box[r] = ""
        BY DEF WecomInv, TableInv
  <2>2. PICK s \in Senders : r = Req(s) /\ sender[s].pc \in Asking
        BY DEF WecomInv, TableInv
  <2>3. r[1] = s /\ r[2] = sender[s].i
        BY <2>2 DEF Req
  <2> QED BY <2>1, <2>2, <2>3 DEF Asking
<1> QED BY <1>1, WecomKept, PTL

(* A caller whose frame went into a connection that is gone has been told  *)
(* (websocket.go:193-207).                                                 *)
THEOREM LostIsAlwaysTold == Spec => []LostIsTold
<1>1. WecomInv => LostIsTold
  <2> SUFFICES ASSUME WecomInv, NEW s \in Senders, At(s, "wait"),
                      sender[s].on # cur \/ loop \in {"backoff", "dial", "done"}
               PROVE  box[Req(s)] # ""
      BY DEF LostIsTold
  <2>1. Req(s) \notin pending
        BY DEF WecomInv, ToldInv
  <2> QED BY <2>1 DEF WecomInv, TableInv, At, Asking
<1> QED BY <1>1, WecomKept, PTL

(* A heartbeat gives up its connection only after MaxMissed pings of it    *)
(* without an answer, or one that is broken or being left, although all    *)
(* heartbeats count in one variable (websocket.go:293-321).                *)
THEOREM GivenUpForSilence == Spec => OnlySilenceCloses
<1>1. ASSUME WecomInv, NEW c \in Conns, Tick(c), open' # open
      PROVE  silent[c] >= MaxMissed \/ c \in broken \cup cancelled
  <2>1. heart[c] = "wait" /\ missed >= MaxMissed /\ open' = open \ {c}
        BY <1>1 DEF Tick
  <2>2. c \in open /\ c = cur
        BY <1>1, <2>1 DEF WecomInv, LoopInv
  <2>3. c \notin broken \cup cancelled => missed <= silent[c]
        BY <1>1, <2>1, <2>2 DEF WecomInv, HeartInv
  <2>4. missed \in Nat /\ silent[c] \in Nat
        BY <1>1 DEF WecomInv, HeartInv
  <2> QED BY <2>1, <2>3, <2>4, Bounds
<1>2. WecomInv => [\A c \in Conns :
          Tick(c) /\ open' # open => silent[c] >= MaxMissed \/ c \in broken \cup cancelled]_vars
      BY <1>1
<1> QED BY <1>2, WecomKept, PTL DEF OnlySilenceCloses
=============================================================================
