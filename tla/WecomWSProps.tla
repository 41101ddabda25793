---------------------------- MODULE WecomWSProps ----------------------------
(* What the websocket channel promises its callers and the server.         *)
EXTENDS WecomWS

Loops == {"dial", "publish", "subscribe", "subscribing", "check", "read", "leave", "close", "tell", "backoff", "done"}

(* Every variable has its type; at most the connection of the loop is      *)
(* published, and none but it is open (websocket.go:184-192).              *)
TypeOK ==
    /\ loop \in Loops /\ cur \in Conns \cup {NoConn} /\ conn \in {cur, NoConn}
    /\ open \subseteq {cur} /\ broken \subseteq Conns /\ stopped \in BOOLEAN
    /\ missed \in Nat /\ heart \in [Conns -> {"off", "wait", "beat"}] /\ cancelled \subseteq Conns
    /\ pending \subseteq Reqs /\ box \in [Reqs -> {"", "ok", "refused", "closed"}]
    /\ \A s \in Senders : sender[s].pc \in {"idle", "store", "write", "wait", "start", "finish", "done"}

(* A caller whose frame went into a connection that is gone has been told: *)
(* it does not sit out its timeout and report success                      *)
(* (websocket.go:193-207).                                                 *)
LostIsTold ==
    \A s \in Senders :
        At(s, "wait") /\ (sender[s].on # cur \/ loop \in {"backoff", "dial", "done"}) => box[Req(s)] # ""

(* The table of waiting callers holds only callers that wait, and never    *)
(* one that was answered: it neither leaks nor lets a second answer block  *)
(* the read loop (websocket.go:286-288, 536-556).                          *)
TableIsExact ==
    \A r \in pending :
        /\ box[r] = ""
        /\ sender[r[1]].i = r[2] /\ sender[r[1]].pc \in {"write", "wait"}

(* A heartbeat gives a connection up only after MaxMissed pings of it have *)
(* gone without an answer, or it is broken or being left, although          *)
(* heartbeats of former connections count in the same variable             *)
(* (websocket.go:293-321).                                                 *)
OnlySilenceCloses ==
    [][\A c \in Conns :
           Tick(c) /\ open' # open => silent[c] >= MaxMissed \/ c \in broken \cup cancelled]_vars

(* A connection whose server falls silent is given up                      *)
(* (websocket.go:302-307).                                                 *)
SilenceCloses ==
    \A c \in Conns : (heart[c] # "off" /\ silent[c] > 0) ~> (silent[c] = 0 \/ c \notin open)

(* Every call returns, whatever the server and the connections do          *)
(* (websocket.go:536-556).                                                 *)
CallsReturn == \A s \in Senders : ~At(s, "idle") ~> At(s, "done")

(* Stop ends the loop, unless the server owes the answer to a subscription *)
(* sent after it (websocket.go:513-524).                                   *)
StopEnds == stopped ~> loop \in {"done", "subscribing"}

(* Nobody waits for ever: not the loop for a silent server, not a caller   *)
(* for its acknowledgement, not Stop for the loop, although the goroutines *)
(* of successive connections share one counter and one table               *)
(* (websocket.go:193-207, 302-307, 513-556).                               *)
EverythingEnds == SilenceCloses /\ CallsReturn /\ StopEnds
=============================================================================
