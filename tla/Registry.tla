------------------------------ MODULE Registry ------------------------------
(***************************************************************************)
(* The tool registry: built-in tools, the tools of the MCP servers that    *)
(* administrators activate and deactivate, the tools a chat channel has of *)
(* its own, the policy that says who may call what, and the locks all this *)
(* runs under.  toolsMu and serversMu are modelled as locks, because they  *)
(* are held over a tool call and over closing a connection; so is the lock *)
(* of a channel's set.  Shorter critical sections are one step.            *)
(*                                                                         *)
(* Names that differ only in case are not distinguished.  A client is      *)
(* named by the operation that made it.                                    *)
(***************************************************************************)
EXTENDS Naturals, FiniteSets, Functions

CONSTANTS
    Callers,   \* tool calls of turns
    MaxOps,    \* bound: requests that change the registry, numbered as they come
    Servers,   \* names of MCP servers
    Names,     \* names of the tools they may list
    Channels   \* channels with servers of their own

NoChan   == ""

(* A channel and a server have a name: AddServer takes "" for no channel,  *)
(* and "" stands for the server of a built-in tool here.                   *)
ASSUME RegistryAssumption ==
    MaxOps \in Nat /\ NoChan \notin Channels /\ "" \notin Servers

Ops      == 1..MaxOps
NoOp     == 0
Self     == 0          \* the client of a built-in tool
Nothing  == "nothing"
Sources  == {"builtin-public", "builtin-keeper", "mcp-global", "mcp-channel", ""}

Key(ch, s, t) == [chan |-> ch, server |-> s, tool |-> t]
KBSearch == Key(NoChan, "", "kb_search")
KBCreate == Key(NoChan, "", "kb_create")
Keys     == {KBSearch, KBCreate} \cup [chan : Channels \cup {NoChan}, server : Servers, tool : Names]
Contexts == [keeper : BOOLEAN, channel : Channels \cup {NoChan}]
Kinds    == {"load", "activate", "deactivate", "channel_add", "channel_remove"}

VARIABLES
    tools,        \* r.tools and r.privTools: [key, client]
    invokers,     \* key -> client
    categories,   \* key -> source
    servers,      \* name -> [client, keys]
    channelTools, \* channel -> the set made for it, named by its maker
    sets,         \* the sets: [tools, servers]
    open,         \* clients that are connected
    rows,         \* mcp server rows: [active, status]
    readers,      \* toolsMu: the calls that hold it for reading
    writer,       \* toolsMu: the operation that holds it
    waiting,      \* toolsMu: operations that wait to write, which holds up readers
    serversMu,    \* the operation that holds serversMu for writing
    setMu,        \* sets that are locked for writing
    op,           \* what each operation does and where it is
    call          \* what each call does and where it is

registry == <<tools, invokers, categories, servers, channelTools, sets, open>>
locks    == <<readers, writer, waiting, serversMu, setMu>>
vars     == <<registry, rows, locks, op, call>>

Entry(k, c) == [key |-> k, client |-> c]
EmptySet    == [tools |-> {}, servers |-> <<>>]
MapPut(f, k, v)  == [x \in DOMAIN f \cup {k} |-> IF x = k THEN v ELSE f[x]]
MapDrop(f, ks)   == Restrict(f, DOMAIN f \ ks)

NoCall == [pc |-> "new", key |-> KBSearch, registered |-> FALSE, source |-> "",
           ctx |-> [keeper |-> FALSE, channel |-> NoChan]]

(* initTools, one tool of each source.                                     *)
Init ==
    /\ tools = {Entry(KBSearch, Self), Entry(KBCreate, Self)}
    /\ invokers = [k \in {KBSearch, KBCreate} |-> Self]
    /\ categories = [k \in {KBSearch, KBCreate} |->
                        IF k = KBSearch THEN "builtin-public" ELSE "builtin-keeper"]
    /\ servers = <<>> /\ channelTools = <<>>
    /\ sets = [o \in Ops |-> EmptySet]
    /\ open = {}
    /\ rows = [s \in Servers |-> [active |-> TRUE, status |-> "connected"]]
    /\ readers = {} /\ writer = NoOp /\ waiting = {} /\ serversMu = NoOp /\ setMu = {}
    /\ op = [o \in Ops |-> [pc |-> "new", kind |-> "load", server |-> Nothing,
                            channel |-> NoChan, listed |-> {}, status |-> Nothing, set |-> NoOp]]
    /\ call = [c \in Callers |-> NoCall]

(* What an operation or a call that has ended knew is forgotten.           *)
Ended == {"done", "failed"}
Move(o, from, to) ==
    /\ op[o].pc = from
    /\ op' = [op EXCEPT ![o] = IF to \in Ended
                   THEN [@ EXCEPT !.pc = to, !.status = Nothing, !.listed = {}, !.set = NoOp]
                   ELSE [@ EXCEPT !.pc = to]]
Step(c, from, to) ==
    /\ call[c].pc = from
    /\ call' = [call EXCEPT ![c] = IF to = "done" THEN [NoCall EXCEPT !.pc = to]
                                   ELSE [@ EXCEPT !.pc = to]]

-----------------------------------------------------------------------------
FirstStep(kind) ==
    CASE kind = "load"           -> "check"
      [] kind = "activate"       -> "mark"
      [] kind = "deactivate"     -> "lock"
      [] kind = "channel_add"    -> "contact"
      [] kind = "channel_remove" -> "detach"

(* What an operation is about.  Rows are read first: putMCPServerActivate  *)
(* and -Deactivate; loadServers takes the active rows; a channel's servers *)
(* come from the presets and have a name each.                             *)
Begin(o) ==
    /\ op[o].pc = "new" /\ \A p \in Ops : p < o => op[p].pc # "new"
    /\ \E kind \in Kinds, s \in Servers, ch \in Channels \cup {NoChan} :
        /\ (ch # NoChan) <=> kind \in {"channel_add", "channel_remove"}
        /\ kind = "load" => rows[s].active
        /\ kind = "channel_add" =>
              \A p \in Ops : ~(op[p].kind = kind /\ op[p].server = s /\ op[p].channel = ch)
        /\ op' = [op EXCEPT ![o] = [@ EXCEPT
              !.kind = kind, !.server = s, !.channel = ch, !.status = rows[s].status,
              !.pc = FirstStep(kind)]]
    /\ UNCHANGED <<registry, rows, locks, call>>

(* The row is active and connecting before anything is connected.          *)
Mark(o) ==
    /\ \/ /\ Move(o, "mark", "check")
          /\ rows' = [rows EXCEPT ![op[o].server] = [active |-> TRUE, status |-> "connecting"]]
       \/ Move(o, "mark", "failed") /\ UNCHANGED rows
    /\ UNCHANGED <<registry, locks, call>>

(* checkServerNameConflict, before the network is used.                    *)
CheckName(o) ==
    /\ serversMu = NoOp
    /\ Move(o, "check", IF op[o].server \in DOMAIN servers THEN "failed" ELSE "contact")
    /\ UNCHANGED <<registry, rows, locks, call>>

(* Start, Initialize and ListTools of a new client.                        *)
Contact(o) ==
    /\ op[o].pc = "contact"
    /\ \/ /\ \E listed \in SUBSET Names :
                op' = [op EXCEPT ![o].pc = IF op[o].channel = NoChan THEN "lock" ELSE "attach",
                                 ![o].listed = listed]
          /\ open' = open \cup {o}
       \/ Move(o, "contact", "failed") /\ UNCHANGED open
    /\ UNCHANGED <<tools, invokers, categories, servers, channelTools, sets, rows, locks, call>>

-----------------------------------------------------------------------------
(* Locking toolsMu and serversMu for writing.                              *)
(* Mutant: RemoveServer takes serversMu first.                             *)
LockServersFirst(o) ==
    IF op[o].kind = "deactivate"
    THEN /\ serversMu = NoOp /\ Move(o, "lock", "wait") /\ serversMu' = o
         /\ waiting' = waiting \cup {o}
         /\ UNCHANGED <<registry, rows, readers, writer, setMu, call>>
    ELSE /\ Move(o, "lock", "wait") /\ waiting' = waiting \cup {o}
         /\ UNCHANGED <<registry, rows, readers, writer, serversMu, setMu, call>>

Lock(o) ==
    /\ Move(o, "lock", "wait")
    /\ waiting' = waiting \cup {o}
    /\ UNCHANGED <<registry, rows, readers, writer, serversMu, setMu, call>>

GetToolsMu(o) ==
    /\ readers = {} /\ writer = NoOp
    /\ Move(o, "wait", "wait2")
    /\ writer' = o /\ waiting' = waiting \ {o}
    /\ UNCHANGED <<registry, rows, readers, serversMu, setMu, call>>

GetServersMu(o) ==
    /\ serversMu \in {NoOp, o}
    /\ Move(o, "wait2", IF op[o].kind = "deactivate" THEN "find" ELSE "register")
    /\ serversMu' = o
    /\ UNCHANGED <<registry, rows, readers, writer, waiting, setMu, call>>

Unlock == writer' = NoOp /\ serversMu' = NoOp /\ UNCHANGED <<readers, waiting, setMu>>

KeysOf(o) == {Key(op[o].channel, op[o].server, t) : t \in op[o].listed}

(* Mutant: tool names are not compared once the lock is held.              *)
NoConflict(o) == FALSE

(* checkToolNameConflict for each tool the server lists.                   *)
Conflict(o) == \E e \in tools : e.key \in KeysOf(o)

(* registerToolsLocked for a global server.                                *)
Register(o) ==
    /\ op[o].pc = "register"
    /\ IF Conflict(o)
       THEN /\ Move(o, "register", "failed")
            /\ open' = open \ {o}
            /\ UNCHANGED <<tools, invokers, categories, servers>>
       ELSE /\ Move(o, "register", IF op[o].kind = "activate" THEN "settle" ELSE "done")
            /\ tools' = tools \cup {Entry(k, o) : k \in KeysOf(o)}
            /\ invokers' = [k \in DOMAIN invokers \cup KeysOf(o) |->
                              IF k \in KeysOf(o) THEN o ELSE invokers[k]]
            /\ categories' = [k \in DOMAIN categories \cup KeysOf(o) |->
                              IF k \in KeysOf(o) THEN "mcp-global" ELSE categories[k]]
            /\ servers' = MapPut(servers, op[o].server, [client |-> o, keys |-> KeysOf(o)])
            /\ UNCHANGED open
    /\ Unlock
    /\ UNCHANGED <<channelTools, sets, rows, call>>

(* The row is connected, unless it was when it was read.                   *)
Settle(o) ==
    /\ \/ /\ Move(o, "settle", "done")
          /\ rows' = IF op[o].status = "connected" THEN rows
                     ELSE [rows EXCEPT ![op[o].server].status = "connected"]
       \/ op[o].status # "connected" /\ Move(o, "settle", "failed") /\ UNCHANGED rows
    /\ UNCHANGED <<registry, locks, call>>

-----------------------------------------------------------------------------
(* RemoveServer: unknown names fail, a known one's client is closed ...    *)
Find(o) ==
    /\ op[o].pc = "find"
    /\ IF op[o].server \in DOMAIN servers
       THEN /\ Move(o, "find", "remove")
            /\ open' = open \ {servers[op[o].server].client}
            /\ UNCHANGED locks
       ELSE Move(o, "find", "failed") /\ Unlock /\ UNCHANGED open
    /\ UNCHANGED <<tools, invokers, categories, servers, channelTools, sets, rows, call>>

(* Mutant: the invokers of a removed server stay.                          *)
RemoveListed(o) ==
    LET gone == servers[op[o].server].keys IN
    /\ Move(o, "remove", "unmark")
    /\ tools' = {e \in tools : e.key \notin gone}
    /\ servers' = MapDrop(servers, {op[o].server})
    /\ Unlock
    /\ UNCHANGED <<invokers, categories, channelTools, sets, open, rows, call>>

(* Mutant: only the server's name goes.                                    *)
RemoveName(o) ==
    /\ Move(o, "remove", "unmark")
    /\ servers' = MapDrop(servers, {op[o].server})
    /\ Unlock
    /\ UNCHANGED <<tools, invokers, categories, channelTools, sets, open, rows, call>>

(* ... and its tools go.                                                   *)
Remove(o) ==
    LET gone == servers[op[o].server].keys IN
    /\ Move(o, "remove", "unmark")
    /\ tools' = {e \in tools : e.key \notin gone}
    /\ invokers' = MapDrop(invokers, gone)
    /\ categories' = MapDrop(categories, gone)
    /\ servers' = MapDrop(servers, {op[o].server})
    /\ Unlock
    /\ UNCHANGED <<channelTools, sets, open, rows, call>>

Unmark(o) ==
    /\ \/ /\ Move(o, "unmark", "done")
          /\ rows' = [rows EXCEPT ![op[o].server] = [active |-> FALSE, status |-> "disconnected"]]
       \/ Move(o, "unmark", "failed") /\ UNCHANGED rows
    /\ UNCHANGED <<registry, locks, call>>

-----------------------------------------------------------------------------
(* AddServer for a channel: find or make its set, lock it, and register    *)
(* under a read lock of toolsMu.                                           *)
Attach(o) ==
    LET ch == op[o].channel IN
    /\ op[o].pc = "attach"
    /\ channelTools' = IF ch \in DOMAIN channelTools THEN channelTools
                       ELSE MapPut(channelTools, ch, o)
    /\ op' = [op EXCEPT ![o].pc = "lock_set", ![o].set = channelTools'[ch]]
    /\ UNCHANGED <<tools, invokers, categories, servers, sets, open, rows, locks, call>>

LockSet(o) ==
    /\ op[o].set \notin setMu
    /\ Move(o, "lock_set", IF op[o].kind = "channel_add" THEN "register_set" ELSE "close_set")
    /\ setMu' = setMu \cup {op[o].set}
    /\ UNCHANGED <<registry, rows, readers, writer, waiting, serversMu, call>>

RegisterInSet(o) ==
    LET i == op[o].set IN
    /\ writer = NoOp /\ waiting = {}
    /\ Move(o, "register_set", IF Conflict(o) THEN "failed" ELSE "done")
    /\ setMu' = setMu \ {i}
    /\ IF Conflict(o) THEN open' = open \ {o} /\ UNCHANGED sets
       ELSE /\ sets' = [sets EXCEPT ![i].tools = @ \cup {Entry(k, o) : k \in KeysOf(o)},
                                    ![i].servers = MapPut(@, op[o].server, o)]
            /\ UNCHANGED open
    /\ UNCHANGED <<tools, invokers, categories, servers, channelTools, rows, readers, writer,
                   waiting, serversMu, call>>

(* RemoveChannelTools: the set goes first, then its clients are closed.    *)
Detach(o) ==
    LET ch == op[o].channel IN
    /\ op[o].pc = "detach"
    /\ IF ch \in DOMAIN channelTools
       THEN /\ op' = [op EXCEPT ![o].pc = "lock_set", ![o].set = channelTools[ch]]
            /\ channelTools' = MapDrop(channelTools, {ch})
       ELSE Move(o, "detach", "done") /\ UNCHANGED channelTools
    /\ UNCHANGED <<tools, invokers, categories, servers, sets, open, rows, locks, call>>

CloseSet(o) ==
    /\ Move(o, "close_set", "done")
    /\ open' = open \ Range(sets[op[o].set].servers)
    /\ setMu' = setMu \ {op[o].set}
    /\ UNCHANGED <<tools, invokers, categories, servers, channelTools, sets, rows, readers,
                   writer, waiting, serversMu, call>>

Operate(o) ==
    \/ Mark(o) \/ CheckName(o) \/ Contact(o) \/ Lock(o) \/ GetToolsMu(o) \/ GetServersMu(o)
    \/ Register(o) \/ Settle(o) \/ Find(o) \/ Remove(o) \/ Unmark(o)
    \/ Attach(o) \/ LockSet(o) \/ RegisterInSet(o) \/ Detach(o) \/ CloseSet(o)

-----------------------------------------------------------------------------
(* The policy.                                                             *)
ToolsOf(ch) == IF ch \in DOMAIN channelTools THEN sets[channelTools[ch]].tools ELSE {}

OwnerOf(k) == {ch \in DOMAIN channelTools : \E e \in ToolsOf(ch) : e.key = k}

Source(k) ==
    IF k \in DOMAIN categories THEN categories[k]
    ELSE IF OwnerOf(k) # {} THEN "mcp-channel" ELSE ""

(* Mutant: the keeper's tools are for everybody.                           *)
AllowsAll(source, k, ctx) ==
    \/ source \in {"builtin-public", "mcp-global", "builtin-keeper"}
    \/ source = "mcp-channel" /\ ctx.channel \in OwnerOf(k)

Allows(source, k, ctx) ==
    \/ source \in {"builtin-public", "mcp-global"}
    \/ source = "builtin-keeper" /\ ctx.keeper
    \/ source = "mcp-channel" /\ ctx.channel \in OwnerOf(k)

(* ToolsFor: what the model is shown.                                      *)
ToolsFor(ctx) == {e \in tools \cup ToolsOf(ctx.channel) : Allows(Source(e.key), e.key, ctx)}

-----------------------------------------------------------------------------
(* Invoke.  PolicyFor reads the global maps under toolsMu, then the sets.  *)
MayRead == writer = NoOp /\ waiting = {}

Ask(c) ==
    /\ MayRead /\ call[c].pc = "new"
    /\ \E ctx \in Contexts, k \in Keys :
        call' = [call EXCEPT ![c] = [pc |-> "policy", ctx |-> ctx, key |-> k,
                    registered |-> k \in DOMAIN invokers \/ \E e \in tools : e.key = k,
                    source |-> IF k \in DOMAIN categories THEN categories[k] ELSE ""]]
    /\ UNCHANGED <<registry, rows, locks, op>>

Decide(c) ==
    LET k == call[c].key
        source == IF call[c].source # "" THEN call[c].source
                  ELSE IF OwnerOf(k) # {} THEN "mcp-channel" ELSE ""
        ok == (call[c].registered \/ OwnerOf(k) # {}) /\ Allows(source, k, call[c].ctx)
    IN  /\ Range(channelTools) \cap setMu = {}
        /\ Step(c, "policy", IF ~ok THEN "done"
                             ELSE IF call[c].ctx.channel = NoChan THEN "global" ELSE "channel")
        /\ UNCHANGED <<registry, rows, locks, op>>

(* A channel's tool runs without a lock.                                   *)
InvokeChannel(c) ==
    LET ch == call[c].ctx.channel
        found == \E e \in ToolsOf(ch) : e.key = call[c].key
    IN  /\ ch \in DOMAIN channelTools => channelTools[ch] \notin setMu
        /\ Step(c, "channel", IF found THEN "running" ELSE "global")
        /\ UNCHANGED <<registry, rows, locks, op>>

(* A global tool runs under the read lock of toolsMu.                      *)
InvokeGlobal(c) ==
    LET found == call[c].key \in DOMAIN invokers IN
    /\ MayRead
    /\ Step(c, "global", IF found THEN "locked" ELSE "done")
    /\ readers' = IF found THEN readers \cup {c} ELSE readers
    /\ UNCHANGED <<registry, rows, writer, waiting, serversMu, setMu, op>>

Return(c) ==
    /\ Step(c, "running", "done") \/ Step(c, "locked", "done")
    /\ readers' = readers \ {c}
    /\ UNCHANGED <<registry, rows, writer, waiting, serversMu, setMu, op>>

Invoke(c) == Decide(c) \/ InvokeChannel(c) \/ InvokeGlobal(c) \/ Return(c)

Next == (\E o \in Ops : Begin(o) \/ Operate(o)) \/ (\E c \in Callers : Ask(c) \/ Invoke(c))

Spec == Init /\ [][Next]_vars

(* What was begun goes on: a goroutine that can run does, a server and a   *)
(* tool answer or time out.                                                *)
FairSpec ==
    /\ Spec
    /\ \A o \in Ops : WF_vars(Operate(o))
    /\ \A c \in Callers : WF_vars(Invoke(c))
=============================================================================
