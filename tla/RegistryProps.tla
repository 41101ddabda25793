--------------------------- MODULE RegistryProps ---------------------------
(* What the registry promises while servers come and go.                   *)
EXTENDS Registry

Clients == Ops \cup {Self}

(* Every variable has its type, and the maps agree: a global tool has an   *)
(* invoker and a category (registry.go:396-405).                           *)
TypeOK ==
    /\ tools \subseteq [key : Keys, client : Clients]
    /\ DOMAIN invokers = DOMAIN categories /\ DOMAIN invokers \subseteq Keys
    /\ {e.key : e \in tools} = DOMAIN invokers
    /\ Range(categories) \subseteq Sources
    /\ DOMAIN servers \subseteq Servers /\ DOMAIN channelTools \subseteq Channels
    /\ Range(channelTools) \subseteq Ops
    /\ open \subseteq Ops /\ readers \subseteq Callers /\ waiting \subseteq Ops
    /\ writer \in Ops \cup {NoOp} /\ serversMu \in Ops \cup {NoOp}
    /\ writer # NoOp => readers = {}

(* The list the model is shown has no name twice, although a server may be *)
(* added by several requests at once (registry.go:381-388).                *)
NoDuplicateNames ==
    \A ctx \in Contexts : \A e, f \in ToolsFor(ctx) : e.key = f.key => e = f

(* Whoever may read the lists finds no tool of a closed connection         *)
(* (registry.go:583-602).                                                  *)
ClosedNotServed ==
    MayRead => \A ctx \in Contexts : \A e \in ToolsFor(ctx) : e.client \in open \cup {Self}

(* Whoever reads a list of tools gets a sound one, although a server is    *)
(* contacted between the check of its names and their registration, and    *)
(* closed between its removal from two maps (registry.go:299-405, 583-602).*)
ListsAreSound == NoDuplicateNames /\ ClosedNotServed

(* What is shown can be called by name and what is not cannot: one policy  *)
(* for both (policy.go:19-20).                                             *)
Callable(ctx) ==
    {k \in Keys :
        /\ k \in DOMAIN invokers \/ (\E e \in tools : e.key = k) \/ OwnerOf(k) # {}
        /\ Allows(Source(k), k, ctx)
        /\ k \in DOMAIN invokers \/ \E e \in ToolsOf(ctx.channel) : e.key = k}

VisibleIsCallable ==
    \A ctx \in Contexts : Callable(ctx) = {e.key : e \in ToolsFor(ctx)}

(* A tool that runs was its caller's to call, however the registry has     *)
(* changed since the decision: a keeper's tool runs for a keeper, a        *)
(* channel's tool in its channel (policy.go:105-117, registry.go:104-148). *)
CallsAllowed ==
    \A c \in Callers : call[c].pc \in {"running", "locked"} =>
        /\ call[c].key = KBCreate => call[c].ctx.keeper
        /\ call[c].key.chan \in {NoChan, call[c].ctx.channel}

(* One policy governs what a caller sees, may call and runs, while servers *)
(* come and go between the three (policy.go:19-20, registry.go:104-148).   *)
OnePolicy == VisibleIsCallable /\ CallsAllowed

(* Nobody waits for ever for a lock: calls return and requests end, though *)
(* toolsMu is held over tool calls and over serversMu (registry.go:140,    *)
(* 349, 369, 573).                                                         *)
AllReturn ==
    /\ \A c \in Callers : call[c].pc # "new" ~> call[c].pc = "done"
    /\ \A o \in Ops : op[o].pc # "new" ~> op[o].pc \in {"done", "failed"}
=============================================================================
