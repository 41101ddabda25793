------------------------------ MODULE WecomWS ------------------------------
(***************************************************************************)
(* The WeCom websocket channel: the loop that connects, subscribes, reads  *)
(* and reconnects; one heartbeat per connection; and the callers that send *)
(* through whatever connection is published, wait for an acknowledgement   *)
(* of their own request, or stream a reply without waiting.                *)
(*                                                                         *)
(* A frame of the server answers a frame on the wire, in any order, more   *)
(* than once or never.  Durations are abstracted: a timer that runs may    *)
(* fire.  What arrives for the chat itself is the matter of Inbound.       *)
(***************************************************************************)
EXTENDS Naturals, FiniteSets

CONSTANTS
    Senders,    \* callers of Send and Reply
    MaxChunks,  \* bound: pieces a message is split into
    MaxConns,   \* bound: connections dialled
    MaxMissed,  \* wsMaxMissed
    AckCmds     \* the cmd a server puts into an acknowledgement

ASSUME WecomAssumption ==
    MaxChunks \in Nat \ {0} /\ MaxConns \in Nat /\ MaxMissed \in Nat \ {0}

Conns   == 1..MaxConns
NoConn  == 0
Reqs    == Senders \X (1..MaxChunks)
Sub     == <<"aibot_subscribe", 0>>
Ping    == <<"ping", 0>>
Respond == <<"aibot_respond_msg", 0>>

VARIABLES
    loop,       \* where connectLoop and runConnection are
    cur,        \* the connection of runConnection, numbered as dialled
    conn,       \* p.conn
    open,       \* connections nobody closed here
    broken,     \* connections the network broke
    stopped,    \* p.ctx is cancelled
    missed,     \* p.missedPong
    heart,      \* connection -> where its heartbeat is
    cancelled,  \* connections whose heartbeat was cancelled
    pending,    \* keys of p.pendingAcks
    box,        \* request -> what is in its channel
    sender,     \* what each caller does and where it is
    wire,       \* connection -> frames the server has not answered for good
    silent      \* history: connection -> pings written since an answer to one

loopVars == <<loop, cur, conn, open, broken, stopped>>
hearts   == <<missed, heart, cancelled, silent>>
acks     == <<pending, box>>
vars     == <<loopVars, hearts, acks, sender, wire>>

Idle == [pc |-> "idle", n |-> 0, i |-> 0, on |-> NoConn]

Init ==
    /\ loop = "dial" /\ cur = NoConn /\ conn = NoConn /\ open = {} /\ broken = {} /\ stopped = FALSE
    /\ missed = 0 /\ heart = [c \in Conns |-> "off"] /\ cancelled = {} /\ silent = [c \in Conns |-> 0]
    /\ pending = {} /\ box = [r \in Reqs |-> ""]
    /\ sender = [s \in Senders |-> Idle] /\ wire = [c \in Conns |-> {}]

(* writeJSON: the frame goes to the published connection, or not at all.   *)
CanWrite  == conn # NoConn /\ conn \in open
CanFail   == conn = NoConn \/ conn \notin open \/ conn \in broken
OnWire(f) == wire' = [wire EXCEPT ![conn] = @ \cup {f}]

-----------------------------------------------------------------------------
(* connectLoop and runConnection *)

Goto(from, to) == loop = from /\ loop' = to

Dial ==
    /\ ~stopped /\ cur < MaxConns
    /\ Goto("dial", "publish") /\ cur' = cur + 1 /\ open' = open \cup {cur + 1}
    /\ UNCHANGED <<conn, broken, stopped, hearts, acks, sender, wire>>

DialFails ==
    /\ Goto("dial", "backoff")
    /\ UNCHANGED <<cur, conn, open, broken, stopped, hearts, acks, sender, wire>>

Publish ==
    /\ Goto("publish", "subscribe") /\ conn' = cur
    /\ UNCHANGED <<cur, open, broken, stopped, hearts, acks, sender, wire>>

Subscribe ==
    /\ \/ CanWrite /\ OnWire(Sub) /\ Goto("subscribe", "subscribing")
       \/ CanFail /\ Goto("subscribe", "leave") /\ UNCHANGED wire
    /\ UNCHANGED <<cur, conn, open, broken, stopped, hearts, acks, sender>>

CanRead == cur \in open \ broken

(* Mutant: a new connection keeps the count of the former one. *)
SubscribedStale ==
    /\ CanRead /\ Sub \in wire[cur] /\ Goto("subscribing", "check")
    /\ wire' = [wire EXCEPT ![cur] = @ \ {Sub}]
    /\ heart' = [heart EXCEPT ![cur] = "wait"]
    /\ UNCHANGED <<cur, conn, open, broken, stopped, missed, cancelled, silent, acks, sender>>

(* The first frame is taken for the answer to the subscription, also when  *)
(* it rejects a message that another caller sent before it.                *)
Subscribed ==
    /\ CanRead /\ Sub \in wire[cur] /\ Goto("subscribing", "check")
    /\ wire' = [wire EXCEPT ![cur] = @ \ {Sub}]
    /\ missed' = 0 /\ heart' = [heart EXCEPT ![cur] = "wait"]
    /\ UNCHANGED <<cur, conn, open, broken, stopped, cancelled, silent, acks, sender>>

Rejected ==
    /\ CanRead /\ wire[cur] # {} /\ Goto("subscribing", "leave")
    /\ UNCHANGED <<cur, conn, open, broken, stopped, hearts, acks, sender, wire>>

Check ==
    /\ loop = "check" /\ loop' = IF stopped THEN "leave" ELSE "read"
    /\ UNCHANGED <<cur, conn, open, broken, stopped, hearts, acks, sender, wire>>

ReadFails ==
    /\ ~CanRead /\ loop \in {"subscribing", "read"} /\ loop' = "leave"
    /\ UNCHANGED <<cur, conn, open, broken, stopped, hearts, acks, sender, wire>>

(* handleFrame: an empty cmd is a heartbeat's answer, whatever it answers. *)
Pong == missed' = 0 /\ silent' = [silent EXCEPT ![cur] = 0] /\ UNCHANGED acks

Deliver(r, answer) ==
    /\ IF r \in pending
       THEN pending' = pending \ {r} /\ box' = [box EXCEPT ![r] = answer]
       ELSE UNCHANGED acks
    /\ UNCHANGED <<missed, silent>>

Answer(f, cmd, answer) ==
    IF f = Ping \/ cmd = "" THEN Pong
    ELSE IF f = Respond THEN UNCHANGED <<missed, silent, acks>>
    ELSE Deliver(f, answer)

ReadFrame ==
    /\ CanRead /\ Goto("read", "check")
    /\ \E f \in wire[cur] \ {Sub}, cmd \in AckCmds, answer \in {"ok", "refused"}, again \in BOOLEAN :
           /\ f \in Reqs => box[f] = ""         \* a send to a full channel blocks
           /\ Answer(f, cmd, answer)
           /\ wire' = [wire EXCEPT ![cur] = IF again THEN @ ELSE @ \ {f}]
    /\ UNCHANGED <<cur, conn, open, broken, stopped, heart, cancelled, sender>>

(* The deferred calls: the heartbeat is cancelled, the connection taken    *)
(* back and closed, and whoever still waits is told.                       *)
Leave ==
    /\ Goto("leave", "close") /\ cancelled' = cancelled \cup {cur} /\ conn' = NoConn
    /\ UNCHANGED <<cur, open, broken, stopped, missed, heart, silent, acks, sender, wire>>

CloseConn ==
    /\ Goto("close", "tell") /\ open' = open \ {cur} /\ broken' = broken \ {cur}
    /\ wire' = [wire EXCEPT ![cur] = {}] /\ silent' = [silent EXCEPT ![cur] = 0]
    /\ UNCHANGED <<cur, conn, stopped, missed, heart, cancelled, acks, sender>>

(* Mutant: the table is cleared without telling anyone. *)
TellNobody ==
    /\ Goto("tell", "backoff") /\ pending' = {}
    /\ UNCHANGED <<cur, conn, open, broken, stopped, hearts, box, sender, wire>>

Tell ==
    /\ Goto("tell", "backoff") /\ pending' = {}
    /\ box' = [r \in Reqs |-> IF r \in pending /\ box[r] = "" THEN "closed" ELSE box[r]]
    /\ UNCHANGED <<cur, conn, open, broken, stopped, hearts, sender, wire>>

Backoff ==
    /\ loop = "backoff" /\ loop' = IF stopped THEN "done" ELSE "dial"
    /\ UNCHANGED <<cur, conn, open, broken, stopped, hearts, acks, sender, wire>>

(* Mutant: Stop leaves the connection to the loop. *)
StopKeepsConn ==
    /\ ~stopped /\ stopped' = TRUE
    /\ UNCHANGED <<loop, cur, conn, open, broken, hearts, acks, sender, wire>>

Stop ==
    /\ ~stopped /\ stopped' = TRUE /\ open' = open \ {conn}
    /\ UNCHANGED <<loop, cur, conn, broken, hearts, acks, sender, wire>>

Break ==
    /\ \E c \in open \ broken : broken' = broken \cup {c}
    /\ UNCHANGED <<loop, cur, conn, open, stopped, hearts, acks, sender, wire>>

-----------------------------------------------------------------------------
(* heartbeat *)

Tick(c) ==
    /\ heart[c] = "wait"
    /\ IF missed >= MaxMissed
       THEN heart' = [heart EXCEPT ![c] = "off"] /\ open' = open \ {c}
       ELSE heart' = [heart EXCEPT ![c] = "beat"] /\ UNCHANGED open
    /\ UNCHANGED <<loop, cur, conn, broken, stopped, missed, cancelled, silent, acks, sender, wire>>

(* Mutant: a ping is not counted. *)
BeatUncounted(c) ==
    /\ heart[c] = "beat"
    /\ \/ /\ CanWrite /\ OnWire(Ping) /\ silent' = [silent EXCEPT ![conn] = IF @ = MaxMissed THEN @ ELSE @ + 1]
          /\ heart' = [heart EXCEPT ![c] = "wait"]
       \/ CanFail /\ heart' = [heart EXCEPT ![c] = "off"] /\ UNCHANGED <<wire, silent>>
    /\ UNCHANGED <<loopVars, missed, cancelled, acks, sender>>

Beat(c) ==
    /\ heart[c] = "beat" /\ missed' = missed + 1
    /\ \/ /\ CanWrite /\ OnWire(Ping) /\ silent' = [silent EXCEPT ![conn] = @ + 1]
          /\ heart' = [heart EXCEPT ![c] = "wait"]
       \/ CanFail /\ heart' = [heart EXCEPT ![c] = "off"] /\ UNCHANGED <<wire, silent>>
    /\ UNCHANGED <<loopVars, cancelled, acks, sender>>

HeartEnds(c) ==
    /\ heart[c] = "wait" /\ (c \in cancelled \/ stopped) /\ heart' = [heart EXCEPT ![c] = "off"]
    /\ UNCHANGED <<loopVars, missed, cancelled, silent, acks, sender, wire>>

-----------------------------------------------------------------------------
(* Send, and Reply with its stream *)

Req(s) == <<s, sender[s].i>>
At(s, pc) == sender[s].pc = pc

Begin(s) ==
    /\ At(s, "idle")
    /\ \/ \E n \in 1..MaxChunks : sender' = [sender EXCEPT ![s] = [Idle EXCEPT !.pc = "store", !.n = n, !.i = 1]]
       \/ sender' = [sender EXCEPT ![s].pc = "start"]
    /\ UNCHANGED <<loopVars, hearts, acks, wire>>

Store(s) ==
    /\ At(s, "store") /\ sender' = [sender EXCEPT ![s].pc = "write"] /\ pending' = pending \cup {Req(s)}
    /\ UNCHANGED <<loopVars, hearts, box, wire>>

(* Mutant: the caller's entry stays in the table. *)
ForgetNothing(s) == UNCHANGED pending /\ box' = [box EXCEPT ![Req(s)] = ""]

Forget(s) == pending' = pending \ {Req(s)} /\ box' = [box EXCEPT ![Req(s)] = ""]
Ends(s) == sender' = [sender EXCEPT ![s] = [Idle EXCEPT !.pc = "done"]]

Write(s) ==
    /\ At(s, "write")
    /\ \/ /\ CanWrite /\ OnWire(Req(s)) /\ UNCHANGED acks
          /\ sender' = [sender EXCEPT ![s].pc = "wait", ![s].on = conn]
       \/ CanFail /\ Ends(s) /\ Forget(s) /\ UNCHANGED wire
    /\ UNCHANGED <<loopVars, hearts>>

NextChunk(s) ==
    IF sender[s].i < sender[s].n
    THEN sender' = [sender EXCEPT ![s].pc = "store", ![s].i = @ + 1]
    ELSE Ends(s)

Take(s) ==
    /\ At(s, "wait") /\ box[Req(s)] # ""
    /\ IF box[Req(s)] = "ok" THEN NextChunk(s) ELSE Ends(s)
    /\ box' = [box EXCEPT ![Req(s)] = ""]
    /\ UNCHANGED <<loopVars, hearts, pending, wire>>

(* Mutant: there is no timer. *)
NoTimeout(s) == FALSE /\ UNCHANGED vars

Timeout(s) ==
    /\ At(s, "wait") /\ Forget(s) /\ NextChunk(s)
    /\ UNCHANGED <<loopVars, hearts, wire>>

Cancel(s) ==
    /\ At(s, "wait") /\ Forget(s) /\ Ends(s)
    /\ UNCHANGED <<loopVars, hearts, wire>>

(* StartStream, then FinishStream with the whole text: two frames.         *)
Stream(s) ==
    /\ \E pc \in {"start", "finish"} :
           /\ At(s, pc)
           /\ \/ /\ CanWrite /\ OnWire(Respond)
                 /\ IF pc = "start" THEN sender' = [sender EXCEPT ![s].pc = "finish"] ELSE Ends(s)
              \/ CanFail /\ Ends(s) /\ UNCHANGED wire
    /\ UNCHANGED <<loopVars, hearts, acks>>

-----------------------------------------------------------------------------
Run      ==
    \/ Publish \/ Subscribe \/ Check \/ ReadFails \/ Leave \/ CloseConn \/ Tell \/ Backoff
    \/ stopped /\ DialFails
Server   == Dial \/ DialFails \/ Subscribed \/ Rejected \/ ReadFrame \/ Break
Beats(c) == Tick(c) \/ Beat(c) \/ HeartEnds(c)
Goes(s)  == Store(s) \/ Write(s) \/ Take(s) \/ Timeout(s) \/ Stream(s)

Next ==
    \/ Run \/ Server \/ Stop
    \/ \E c \in Conns : Beats(c)
    \/ \E s \in Senders : Begin(s) \/ Goes(s) \/ Cancel(s)

Spec == Init /\ [][Next]_vars

(* Goroutines that can run do, tickers and timers fire, and a connection   *)
(* that is closed fails its reader.  Nothing is asked of the server.       *)
FairSpec ==
    /\ Spec /\ WF_vars(Run)
    /\ \A c \in Conns : WF_vars(Beats(c))
    /\ \A s \in Senders : WF_vars(Goes(s))
=============================================================================
