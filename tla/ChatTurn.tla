------------------------------ MODULE ChatTurn ------------------------------
(***************************************************************************)
(* Idempotent chat turns.  Every chat request (a web call or a message a   *)
(* channel platform delivers, possibly again and again) claims a row of    *)
(* convo_chat_turn by its idempotency key before the model and the tools   *)
(* run, and writes the turn's final status when they have run.             *)
(* acquireTurn makes two to three separate database calls, so deliveries   *)
(* of one key interleave between them; the process may crash at any point  *)
(* and marks the rows it left behind when it starts again (InitDB).        *)
(*                                                                         *)
(* A database call is one atomic step.  UpdateChatTurn reads the row and   *)
(* then writes the columns that differ from what it read; the write is     *)
(* modelled at the point of that read, which gives the same row unless two *)
(* executions of one key finish together with an empty answer.             *)
(***************************************************************************)
EXTENDS Naturals, FiniteSets

CONSTANTS
    Deliveries,   \* requests that arrive, each one handled by a goroutine
    Keys,         \* idempotency keys
    Digests,      \* digests of request contents (turnDigest is never empty)
    Owners,       \* logged-in users
    Requests,     \* the requests a delivery may carry
    NoKey,        \* "key" of a channel message the platform gave no id
    Anonymous,    \* oid.ZeroID: no logged-in user
    NoOne,        \* "producer" of a result that is not an answer
    Spaced,       \* TRUE: deliveries of one key do not overlap while claiming
    MaxDBFail,    \* bound: database calls that fail
    MaxCrash,     \* bound: crashes of the serving process
    MaxForeign    \* bound: InitDB runs of another process (CLI) meanwhile

WebPaths     == {"web_json", "web_sse"}
ChannelPaths == {"channel_reply", "channel_stream"}
Paths        == WebPaths \cup ChannelPaths
NoDigest     == "nodigest"

RequestType ==
    [key: Keys \cup {NoKey}, digest: Digests, owner: Owners \cup {Anonymous},
     path: Paths]

ASSUME NamesAssumption ==
    /\ NoKey \notin Keys
    /\ Anonymous \notin Owners
    /\ NoOne \notin Deliveries
    /\ NoDigest \notin Digests

ASSUME RequestsAssumption ==
    /\ Requests \subseteq RequestType
    /\ \A r \in Requests : r.key = NoKey => r.path \in ChannelPaths

ASSUME BoundsAssumption ==
    /\ Spaced \in BOOLEAN
    /\ MaxDBFail \in Nat /\ MaxCrash \in Nat /\ MaxForeign \in Nat

(* The constants TurnStatus...; "absent" stands for a key without a row.   *)
Statuses    == {"absent", "queued", "running", "succeeded", "failed",
                "cancelled", "interrupted"}
Unfinished  == {"queued", "running"}
Rerunnable  == {"failed", "cancelled"}

(* A result column: the answer of one execution, whole or cut short, or no *)
(* answer at all ("" and error texts).                                     *)
Answers  == [by: Deliveries \cup {NoOne}, whole: BOOLEAN]
NoAnswer == [by |-> NoOne, whole |-> FALSE]

Rows  == [status: Statuses, result: Answers, digest: Digests \cup {NoDigest},
          owner: Owners \cup {Anonymous}]
NoRow == [status |-> "absent", result |-> NoAnswer, digest |-> NoDigest,
          owner |-> Anonymous]

(* Where the goroutine of a delivery stands: before CreateTurn, before the *)
(* update that follows the insert, before GetTurnByIdempotencyKey, before  *)
(* the update that reruns a turn, in the agent loop, returned, or lost     *)
(* with the process.                                                       *)
Acquiring == {"insert", "created", "dup", "rerun"}
Phases    == {"idle", "exec", "done", "lost"} \cup Acquiring

VARIABLES
    turn,       \* the table convo_chat_turn, by idempotency key
    req,        \* the request of each delivery (never changes)
    pc,         \* phase of each delivery
    toolRan,    \* turnToolTracker.called of each delivery
    cancelled,  \* the request's context is done (web only)
    replay,     \* the stored answer a delivery was given, if any
    up,         \* the serving process is running
    dbFails, crashes, foreigns,   \* how often each bounded event happened
    reopened,   \* history: keys whose turn was ever rerun
    everFailed  \* history: keys whose turn was ever recorded failed

bounds  == <<dbFails, crashes, foreigns>>
history == <<reopened, everFailed>>
local   == <<req, toolRan, cancelled>>
vars    == <<turn, req, pc, toolRan, cancelled, replay, up, bounds, history>>

TypeOK ==
    /\ turn \in [Keys -> Rows]
    /\ req \in [Deliveries -> Requests]
    /\ pc \in [Deliveries -> Phases]
    /\ toolRan \in [Deliveries -> BOOLEAN]
    /\ cancelled \in [Deliveries -> BOOLEAN]
    /\ replay \in [Deliveries -> Answers]
    /\ up \in BOOLEAN
    /\ dbFails \in 0..MaxDBFail
    /\ crashes \in 0..MaxCrash
    /\ foreigns \in 0..MaxForeign
    /\ reopened \in SUBSET Keys
    /\ everFailed \in SUBSET Keys

Init ==
    /\ turn = [k \in Keys |-> NoRow]
    /\ req \in [Deliveries -> Requests]
    /\ pc = [d \in Deliveries |-> "idle"]
    /\ toolRan = [d \in Deliveries |-> FALSE]
    /\ cancelled = [d \in Deliveries |-> FALSE]
    /\ replay = [d \in Deliveries |-> NoAnswer]
    /\ up = TRUE
    /\ dbFails = 0 /\ crashes = 0 /\ foreigns = 0
    /\ reopened = {} /\ everFailed = {}

Key(d) == req[d].key

(* The deliveries of key k that hold its execution right.                  *)
Holders(k) == {d \in Deliveries : Key(d) = k /\ pc[d] \in {"created", "exec"}}

Goto(d, phase) == pc' = [pc EXCEPT ![d] = phase]

(* A database call of delivery d fails: the connection is bad, or the      *)
(* client went away and the call runs under the request's context.         *)
CallFails(d) ==
    \/ cancelled[d] /\ UNCHANGED dbFails
    \/ dbFails < MaxDBFail /\ dbFails' = dbFails + 1

-----------------------------------------------------------------------------
(* A request arrives.  A channel message without an id skips the claim.    *)
Arrive(d) ==
    /\ up
    /\ pc[d] = "idle"
    /\ Spaced => \A e \in Deliveries : Key(e) = Key(d) => pc[e] \notin Acquiring
    /\ Goto(d, IF Key(d) = NoKey THEN "exec" ELSE "insert")
    /\ UNCHANGED <<turn, local, replay, up, bounds, history>>

(* CreateTurn: a plain INSERT that the unique index on the key arbitrates. *)
NewRow(d) == [status |-> "queued", result |-> NoAnswer,
              digest |-> req[d].digest, owner |-> req[d].owner]

CanInsert(d) == turn[Key(d)].status = "absent"

Insert(d) ==
    /\ pc[d] = "insert"
    /\ IF CanInsert(d)
       THEN turn' = [turn EXCEPT ![Key(d)] = NewRow(d)] /\ Goto(d, "created")
       ELSE UNCHANGED turn /\ Goto(d, "dup")
    /\ UNCHANGED <<local, replay, up, bounds, history>>

(* The insert fails; it may have been committed all the same.              *)
InsertFails(d) ==
    /\ pc[d] = "insert"
    /\ CallFails(d)
    /\ \/ UNCHANGED turn
       \/ CanInsert(d) /\ turn' = [turn EXCEPT ![Key(d)] = NewRow(d)]
    /\ Goto(d, "done")
    /\ UNCHANGED <<local, replay, up, crashes, foreigns, history>>

(* UpdateTurnStatus(running, ""), whatever the row says by now.            *)
MakeRunning(k) ==
    turn' = [turn EXCEPT ![k] = [@ EXCEPT !.status = "running",
                                          !.result = NoAnswer]]

SetRunning(d) ==
    /\ pc[d] = "created"
    /\ MakeRunning(Key(d))
    /\ Goto(d, "exec")
    /\ UNCHANGED <<local, replay, up, bounds, history>>

SetRunningFails(d) ==
    /\ pc[d] = "created"
    /\ CallFails(d)
    /\ UNCHANGED turn \/ MakeRunning(Key(d))
    /\ Goto(d, "done")
    /\ UNCHANGED <<local, replay, up, crashes, foreigns, history>>

(* After a duplicate insert the existing row decides.                      *)
(* Mutant: the digest is not compared.                                     *)
AnyContent(row, d) == TRUE

SameContent(row, d) == row.digest = req[d].digest

SameOwner(row, d) ==
    row.owner = Anonymous \/ req[d].owner = Anonymous \/ row.owner = req[d].owner

MayUse(row, d) == SameContent(row, d) /\ SameOwner(row, d)

(* Mutant: interrupted turns are replayed.                                 *)
MayReplayInterrupted(row) == row.status \in Rerunnable \cup {"interrupted"}

MayRerun(row) == row.status \in Rerunnable

ReadExisting(d) ==
    LET row == turn[Key(d)] IN
    /\ pc[d] = "dup"
    /\ \/ /\ MayUse(row, d) /\ MayRerun(row)
          /\ Goto(d, "rerun")
          /\ UNCHANGED replay
       \/ /\ MayUse(row, d) /\ row.status = "succeeded"
          /\ Goto(d, "done")
          /\ replay' = [replay EXCEPT ![d] = row.result]
       \/ /\ \/ ~MayUse(row, d)
             \/ ~MayRerun(row) /\ row.status # "succeeded"
          /\ Goto(d, "done")
          /\ UNCHANGED replay
    /\ UNCHANGED <<turn, local, up, bounds, history>>

ReadExistingFails(d) ==
    /\ pc[d] = "dup"
    /\ CallFails(d)
    /\ Goto(d, "done")
    /\ UNCHANGED <<turn, local, replay, up, crashes, foreigns, history>>

(* The rerun of a failed or cancelled turn: an unconditional update.       *)
Rerun(d) ==
    /\ pc[d] = "rerun"
    /\ MakeRunning(Key(d))
    /\ reopened' = reopened \cup {Key(d)}
    /\ Goto(d, "exec")
    /\ UNCHANGED <<local, replay, up, bounds, everFailed>>

RerunFails(d) ==
    /\ pc[d] = "rerun"
    /\ CallFails(d)
    /\ \/ UNCHANGED <<turn, reopened>>
       \/ MakeRunning(Key(d)) /\ reopened' = reopened \cup {Key(d)}
    /\ Goto(d, "done")
    /\ UNCHANGED <<local, replay, up, crashes, foreigns, everFailed>>

-----------------------------------------------------------------------------
(* The agent loop is about to run a tool: BeforeToolCall sets the flag.    *)
RunTool(d) ==
    /\ pc[d] = "exec"
    /\ ~toolRan[d]
    /\ toolRan' = [toolRan EXCEPT ![d] = TRUE]
    /\ UNCHANGED <<turn, req, pc, cancelled, replay, up, bounds, history>>

(* Mutants: tools are forgotten; the error is dropped.                     *)
FinalStatusNoTools(d, runErr) ==
    IF ~runErr THEN "succeeded" ELSE IF cancelled[d] THEN "cancelled" ELSE "failed"
FinalStatusNoError(d, runErr) == "succeeded"

(* finishTurn.  runErr is TRUE when the agent loop ended with an error.    *)
FinalStatus(d, runErr) ==
    IF ~runErr THEN "succeeded"
    ELSE IF ~cancelled[d] THEN "failed"
    ELSE IF toolRan[d] THEN "interrupted" ELSE "cancelled"

FinalResult(d, runErr, whole) ==
    IF FinalStatus(d, runErr) = "failed" THEN NoAnswer
    ELSE [by |-> d, whole |-> whole]

FinishTurn(d, runErr, whole) ==
    LET k == Key(d)
        write ==
            /\ turn' = [turn EXCEPT ![k] =
                           [@ EXCEPT !.status = FinalStatus(d, runErr),
                                     !.result = FinalResult(d, runErr, whole)]]
            /\ everFailed' = IF FinalStatus(d, runErr) = "failed"
                             THEN everFailed \cup {k} ELSE everFailed
        lose == UNCHANGED <<turn, everFailed>>
    IN
    /\ pc[d] = "exec"
    /\ Goto(d, "done")
    /\ IF k = NoKey THEN lose /\ UNCHANGED dbFails
       ELSE \/ write /\ UNCHANGED dbFails
            \/ /\ dbFails < MaxDBFail /\ dbFails' = dbFails + 1
               /\ write \/ lose
    /\ UNCHANGED <<local, replay, up, crashes, foreigns, reopened>>

(* How an execution reaches finishTurn: the model's answer is complete;    *)
(* the loop failed; an SSE write failed because the client left, and the   *)
(* loop is left by `break` with runErr still nil; or the provider closed   *)
(* the stream early, which parseStreamResponse takes for its end.          *)
StreamPaths == {"web_sse", "channel_stream"}

Complete(d)    == FinishTurn(d, FALSE, TRUE)
Fail(d)        == FinishTurn(d, TRUE, FALSE)
BreakStream(d) == /\ req[d].path = "web_sse"
                  /\ cancelled[d]
                  /\ FinishTurn(d, FALSE, FALSE)
StreamCutOff(d) == /\ req[d].path \in StreamPaths
                   /\ ~cancelled[d]
                   /\ FinishTurn(d, FALSE, FALSE)

(* handleStreamingReply returns when StartStream fails.                    *)
StartStreamFails(d) ==
    /\ pc[d] = "exec"
    /\ req[d].path = "channel_stream"
    /\ Goto(d, "done")
    /\ UNCHANGED <<turn, local, replay, up, bounds, history>>

(* A web client closes its connection; channel handlers run under          *)
(* context.Background and are never cancelled.                             *)
ClientCancel(d) ==
    /\ pc[d] \in Acquiring \cup {"exec"}
    /\ req[d].path \in WebPaths
    /\ ~cancelled[d]
    /\ cancelled' = [cancelled EXCEPT ![d] = TRUE]
    /\ UNCHANGED <<turn, req, pc, toolRan, replay, up, bounds, history>>

-----------------------------------------------------------------------------
(* The process dies with everything in flight, and later starts again.     *)
Crash ==
    /\ up
    /\ crashes < MaxCrash
    /\ crashes' = crashes + 1
    /\ up' = FALSE
    /\ pc' = [d \in Deliveries |->
                IF pc[d] \in Acquiring \cup {"exec"} THEN "lost" ELSE pc[d]]
    /\ UNCHANGED <<turn, local, replay, dbFails, foreigns, history>>

(* Mutant: the WHERE clause names one status only.                         *)
ReclaimedRunning ==
    [k \in Keys |-> IF turn[k].status = "running"
                    THEN [turn[k] EXCEPT !.status = "interrupted"]
                    ELSE turn[k]]

(* ReclaimInterruptedTurns: one UPDATE over the whole table.               *)
Reclaimed ==
    [k \in Keys |-> IF turn[k].status \in Unfinished
                    THEN [turn[k] EXCEPT !.status = "interrupted"]
                    ELSE turn[k]]

Restart ==
    /\ ~up
    /\ up' = TRUE
    /\ turn' = Reclaimed
    /\ UNCHANGED <<pc, local, replay, bounds, history>>

(* InitDB only warns when the reclaiming update fails.                     *)
RestartWithoutReclaim ==
    /\ ~up
    /\ dbFails < MaxDBFail
    /\ dbFails' = dbFails + 1
    /\ up' = TRUE
    /\ UNCHANGED <<turn, pc, local, replay, crashes, foreigns, history>>

(* `morign initdb` or `morign agent` runs InitDB while the server serves.  *)
ForeignInitDB ==
    /\ up
    /\ foreigns < MaxForeign
    /\ foreigns' = foreigns + 1
    /\ turn' = Reclaimed
    /\ UNCHANGED <<pc, local, replay, up, dbFails, crashes, history>>

-----------------------------------------------------------------------------
Acquire(d) ==
    \/ Insert(d) \/ SetRunning(d) \/ ReadExisting(d) \/ Rerun(d)

CallFailure(d) ==
    \/ InsertFails(d) \/ SetRunningFails(d) \/ ReadExistingFails(d)
    \/ RerunFails(d)

Conclude(d) == Complete(d) \/ Fail(d)

Step(d) ==
    \/ Arrive(d) \/ Acquire(d) \/ CallFailure(d) \/ RunTool(d) \/ Conclude(d)
    \/ BreakStream(d) \/ StreamCutOff(d) \/ StartStreamFails(d)
    \/ ClientCancel(d)

Process == Crash \/ Restart \/ RestartWithoutReclaim \/ ForeignInitDB

Next == (\E d \in Deliveries : Step(d)) \/ Process

Spec == Init /\ [][Next]_vars

(* Goroutines are scheduled, the model client and MaxLoop bound a run of   *)
(* the agent loop, and the process is started again after a crash.         *)
Fairness ==
    /\ \A d \in Deliveries : WF_vars(Acquire(d)) /\ WF_vars(Conclude(d))
    /\ WF_vars(Restart)

FairSpec == Spec /\ Fairness
=============================================================================
