--------------------------- MODULE RegistryProofs ---------------------------
(***************************************************************************)
(* Theorems about the tool registry, for any number of requests, calls,    *)
(* servers, tools and channels.                                            *)
(***************************************************************************)
EXTENDS RegistryProps, Sequences, TLAPS

LEMMA EmptyMap == ASSUME NEW S PROVE <<>> \in [{} -> S] /\ DOMAIN <<>> = {}
<1>1. <<>> \in Seq(S) /\ Len(<<>>) = 0
      OBVIOUS
<1>2. 1..0 = {}
      OBVIOUS
<1> QED BY <1>1, <1>2

(* No operation is numbered like none, or like the built-in client.        *)
LEMMA Numbers == NoOp \notin Ops /\ Self \notin Ops
<1>1. MaxOps \in Nat
      BY RegistryAssumption
<1>2. 0 \notin 1..MaxOps
      BY <1>1
<1> QED BY <1>2 DEF Ops, NoOp, Self

USE Numbers

Clashing   == {"load", "activate"}               \* requests that add a global server
Registered == {"settle", "done", "failed"}       \* where one is once its tools are in
Statuses   == {"connecting", "connected", "disconnected", Nothing}

Pcs == {"new", "check", "mark", "contact", "lock", "wait", "wait2", "register",
        "settle", "find", "remove", "unmark", "attach", "lock_set", "register_set",
        "detach", "close_set", "done", "failed"}

OpType == [pc : Pcs, kind : Kinds, server : Servers \cup {Nothing},
           channel : Channels \cup {NoChan}, listed : SUBSET Names, status : Statuses,
           set : Ops \cup {NoOp}]

(* What kinds of requests reach a step, and what they are about there.     *)
Course(o) ==
    /\ op[o].channel # NoChan <=> op[o].kind \in {"channel_add", "channel_remove"}
    /\ op[o].pc # "new" => op[o].server \in Servers
    /\ op[o].pc = "new" => op[o].kind = "load" /\ op[o].set = NoOp
    /\ op[o].pc \in {"mark", "check", "register", "settle"} => op[o].kind \in Clashing
    /\ op[o].pc \in {"find", "remove", "unmark"} => op[o].kind = "deactivate"
    /\ op[o].pc \in {"lock", "wait", "wait2"} => op[o].kind \in Clashing \cup {"deactivate"}
    /\ op[o].pc = "contact" => op[o].kind \in Clashing \cup {"channel_add"}
    /\ op[o].pc \in {"attach", "register_set"} => op[o].kind = "channel_add"
    /\ op[o].pc \in {"detach", "close_set"} => op[o].kind = "channel_remove"
    /\ op[o].pc = "lock_set" => op[o].kind \in {"channel_add", "channel_remove"}
    /\ op[o].pc \in {"lock_set", "register_set", "close_set"} <=> op[o].set # NoOp

OpsInv == op \in [Ops -> OpType] /\ \A o \in Ops : Course(o)

RowsOK == rows \in [Servers -> [active : BOOLEAN, status : Statuses]]

Maps(S, T) == UNION {[D -> T] : D \in SUBSET S}

ChannelsOK ==
    /\ DOMAIN channelTools \subseteq Channels
    /\ channelTools \in [DOMAIN channelTools -> Ops]

(* The global tools.  A client whose tools are in has nothing left to do   *)
(* but its row; a server knows all the tools of its client.                *)
Settled(o) == o \in Ops /\ op[o].kind \in Clashing /\ op[o].pc \in Registered

ToolsInv ==
    /\ tools \subseteq [key : Keys, client : Clients]
    /\ \A e \in tools : e.key.chan = NoChan /\ (e.client = Self \/ Settled(e.client))
    /\ \A e, f \in tools : e.key = f.key => e = f
    /\ {e.key : e \in tools} = DOMAIN invokers
    /\ DOMAIN invokers = DOMAIN categories
    /\ \A k \in DOMAIN categories : categories[k] \in Sources
    /\ KBCreate \in DOMAIN categories /\ categories[KBCreate] = "builtin-keeper"

ServersInv ==
    /\ DOMAIN servers \subseteq Servers
    /\ \A s \in DOMAIN servers :
          /\ Settled(servers[s].client)
          /\ \A k \in servers[s].keys : k.server = s
          /\ \A e \in tools : e.client = servers[s].client => e.key \in servers[s].keys

(* toolsMu is held from its locking to the end of the change.              *)
LocksInv ==
    /\ writer \in Ops \cup {NoOp} /\ serversMu \in Ops \cup {NoOp}
    /\ readers \subseteq Callers /\ waiting \subseteq Ops
    /\ writer # NoOp => readers = {}
    /\ \A o \in Ops :
          /\ op[o].pc \in {"wait2", "register", "find", "remove"} => writer = o
          /\ op[o].pc = "remove" => op[o].server \in DOMAIN servers

(* The sets of the channels.  A set is made by one request and for one     *)
(* channel; a request joins one set, and brings tools of its own.          *)
Attached(o) ==
    /\ o \in Ops /\ op[o].kind = "channel_add"
    /\ op[o].pc \in {"lock_set", "register_set", "done", "failed"}

Joined(i) == {e.client : e \in sets[i].tools} \cup Range(sets[i].servers)

SetsInv ==
    /\ sets \in [Ops -> [tools : SUBSET [key : Keys, client : Ops],
                         servers : Maps(Servers, Ops)]]
    /\ \A i \in Ops :
          /\ \A x \in Joined(i) : op[x].kind = "channel_add" /\ op[x].pc = "done"
          /\ \A e \in sets[i].tools :
                /\ e.key.chan = op[e.client].channel /\ e.key.server = op[e.client].server
                /\ op[e.client].channel = op[i].channel
          /\ sets[i].tools # {} => Attached(i)
    /\ \A i, j \in Ops : i # j => Joined(i) \cap Joined(j) = {}

MakersInv ==
    /\ \A ch \in DOMAIN channelTools :
          Attached(channelTools[ch]) /\ op[channelTools[ch]].channel = ch
    /\ \A o \in Ops : op[o].set # NoOp =>
          /\ Attached(op[o].set) /\ op[op[o].set].channel = op[o].channel
          /\ op[o].kind = "channel_remove" =>
                \A ch \in DOMAIN channelTools : channelTools[ch] # op[o].set
    /\ \A o, p \in Ops :
          /\ op[o].kind = "channel_add" /\ op[p].kind = "channel_add"
          /\ op[o].server = op[p].server /\ op[o].channel = op[p].channel
          => o = p

(* A client is connected until its tools are out.                          *)
Pending(o) ==
    \/ op[o].kind \in Clashing /\ op[o].pc \in {"lock", "wait", "wait2", "register"}
    \/ op[o].kind = "channel_add" /\ op[o].pc \in {"attach", "lock_set", "register_set"}

Leaving(k) == \E o \in Ops : op[o].pc = "remove" /\ k \in servers[op[o].server].keys

OpenInv ==
    /\ open \subseteq Ops
    /\ \A o \in Ops : Pending(o) => o \in open
    /\ \A e \in tools : e.client \in open \cup {Self} \/ Leaving(e.key)
    /\ \A ch \in DOMAIN channelTools :
          \A e \in sets[channelTools[ch]].tools : e.client \in open

(* What a call may do is settled when it is decided.                       *)
Theirs(c) ==
    /\ call[c].key = KBCreate => call[c].ctx.keeper
    /\ call[c].key.chan \in {NoChan, call[c].ctx.channel}

CallPcs == {"new", "policy", "global", "channel", "running", "locked", "done"}

CallsInv ==
    /\ call \in [Callers -> [pc : CallPcs, key : Keys, registered : BOOLEAN,
                             source : Sources, ctx : Contexts]]
    /\ \A c \in Callers :
          /\ call[c].pc = "policy" =>
                /\ call[c].key = KBCreate => call[c].source = "builtin-keeper"
                /\ call[c].source # "" => call[c].key.chan = NoChan
          /\ call[c].pc \in {"global", "channel", "running", "locked"} => Theirs(c)

(* A request that goes a step on keeps what it is about.                   *)
Others(o) == op' \in [Ops -> OpType] /\ \A p \in Ops \ {o} : op'[p] = op[p]

Keeps(o) ==
    /\ op'[o].kind = op[o].kind /\ op'[o].server = op[o].server
    /\ op'[o].channel = op[o].channel

LEMMA Placed ==
    ASSUME op \in [Ops -> OpType], NEW o \in Ops, NEW new \in OpType,
           op' = [op EXCEPT ![o] = new]
    PROVE  Others(o) /\ op'[o] = new
BY DEF Others

Moved(o, from, to) ==
    /\ Others(o) /\ Keeps(o)
    /\ op[o].pc = from /\ op'[o].pc = to
    /\ to \notin Ended => op'[o].set = op[o].set /\ op'[o].listed = op[o].listed
    /\ to \in Ended => op'[o].set = NoOp

LEMMA Moves ==
    ASSUME op \in [Ops -> OpType], NEW o \in Ops, NEW from, NEW to \in Pcs,
           Move(o, from, to)
    PROVE  Moved(o, from, to)
<1>1. op[o] \in OpType
      OBVIOUS
<1>2. CASE to \in Ended
  <2> DEFINE new == [op[o] EXCEPT !.pc = to, !.status = Nothing, !.listed = {}, !.set = NoOp]
  <2>1. op' = [op EXCEPT ![o] = new]
        BY <1>2 DEF Move
  <2>2. /\ new.pc = to /\ new.kind = op[o].kind /\ new.server = op[o].server
        /\ new.channel = op[o].channel /\ new.set = NoOp /\ new.listed = {}
        BY <1>1 DEF OpType
  <2>3. new \in OpType
        BY <1>1 DEF OpType, Statuses
  <2> HIDE DEF new
  <2> QED BY <1>2, <2>1, <2>2, <2>3, Placed DEF Move, Keeps, Moved
<1>3. CASE to \notin Ended
  <2> DEFINE new == [op[o] EXCEPT !.pc = to]
  <2>1. op' = [op EXCEPT ![o] = new]
        BY <1>3 DEF Move
  <2>2. /\ new.pc = to /\ new.kind = op[o].kind /\ new.server = op[o].server
        /\ new.channel = op[o].channel /\ new.set = op[o].set /\ new.listed = op[o].listed
        BY <1>1 DEF OpType
  <2>3. new \in OpType
        BY <1>1 DEF OpType
  <2> HIDE DEF new
  <2> QED BY <1>3, <2>1, <2>2, <2>3, Placed DEF Move, Keeps, Moved
<1> QED BY <1>2, <1>3

LEMMA InitOps == Init => OpsInv /\ RowsOK /\ ChannelsOK
<1> SUFFICES ASSUME Init PROVE OpsInv /\ RowsOK /\ ChannelsOK
    OBVIOUS
<1> DEFINE new == [pc |-> "new", kind |-> "load", server |-> Nothing, channel |-> NoChan,
                   listed |-> {}, status |-> Nothing, set |-> NoOp]
<1>1. op = [o \in Ops |-> new]
      BY DEF Init
<1>2. new \in OpType
      BY DEF OpType, Pcs, Kinds, Statuses
<1>3. \A o \in Ops : Course(o)
      BY <1>1 DEF Course, Clashing
<1>4. op \in [Ops -> OpType]
      BY <1>1, <1>2
<1>5. RowsOK
      BY DEF Init, RowsOK, Statuses
<1>6. ChannelsOK
  <2>1. channelTools = <<>>
        BY DEF Init
  <2> QED BY <2>1, EmptyMap DEF ChannelsOK
<1> QED BY <1>3, <1>4, <1>5, <1>6 DEF OpsInv

-----------------------------------------------------------------------------
(* How a request begins.                                                   *)
Begun(o, kind, s, ch) ==
    [op[o] EXCEPT !.kind = kind, !.server = s, !.channel = ch,
                  !.status = rows[s].status, !.pc = FirstStep(kind)]

LEMMA BegunType ==
    ASSUME OpsInv, RowsOK, NEW o \in Ops, NEW kind \in Kinds, NEW s \in Servers,
           NEW ch \in Channels \cup {NoChan}
    PROVE  /\ Begun(o, kind, s, ch) \in OpType
           /\ Begun(o, kind, s, ch).kind = kind
           /\ Begun(o, kind, s, ch).server = s
           /\ Begun(o, kind, s, ch).channel = ch
           /\ Begun(o, kind, s, ch).set = op[o].set
           /\ Begun(o, kind, s, ch).pc = FirstStep(kind)
<1>1. op[o] \in OpType
      BY DEF OpsInv
<1>2. FirstStep(kind) \in Pcs
      BY DEF FirstStep, Kinds, Pcs
<1>3. rows[s].status \in Statuses
      BY DEF RowsOK
<1> DEFINE r1 == [op[o] EXCEPT !.kind = kind]
           r2 == [r1 EXCEPT !.server = s]
           r3 == [r2 EXCEPT !.channel = ch]
           r4 == [r3 EXCEPT !.status = rows[s].status]
<1>4. r1 \in OpType
      BY <1>1 DEF OpType
<1>5. r2 \in OpType
      BY <1>4 DEF OpType
<1>6. r3 \in OpType
      BY <1>5 DEF OpType
<1>7. r4 \in OpType
      BY <1>3, <1>6 DEF OpType
<1>8. Begun(o, kind, s, ch) \in OpType
      BY <1>2, <1>7 DEF OpType, Begun
<1>9. /\ Begun(o, kind, s, ch).kind = kind
      /\ Begun(o, kind, s, ch).server = s
      /\ Begun(o, kind, s, ch).channel = ch
      /\ Begun(o, kind, s, ch).set = op[o].set
      /\ Begun(o, kind, s, ch).pc = FirstStep(kind)
      BY <1>1 DEF OpType, Begun
<1> QED BY <1>8, <1>9

LEMMA Begins ==
    ASSUME OpsInv, RowsOK, NEW o \in Ops, Begin(o)
    PROVE  Others(o) /\ op[o].pc = "new" /\ op'[o].pc # "new" /\ Course(o)'
<1>1. op \in [Ops -> OpType] /\ op[o].pc = "new" /\ op[o].set = NoOp
      BY DEF Begin, OpsInv, Course
<1>2. \E kind \in Kinds, s \in Servers, ch \in Channels \cup {NoChan} :
         /\ (ch # NoChan) <=> kind \in {"channel_add", "channel_remove"}
         /\ op' = [op EXCEPT ![o] = Begun(o, kind, s, ch)]
      BY DEF Begin, Begun
<1>3. PICK kind \in Kinds, s \in Servers, ch \in Channels \cup {NoChan} :
         /\ (ch # NoChan) <=> kind \in {"channel_add", "channel_remove"}
         /\ op' = [op EXCEPT ![o] = Begun(o, kind, s, ch)]
      BY <1>2
<1>4. /\ Others(o)
      /\ op'[o].kind = kind /\ op'[o].server = s /\ op'[o].channel = ch
      /\ op'[o].set = op[o].set /\ op'[o].pc = FirstStep(kind)
  <2> DEFINE new == Begun(o, kind, s, ch)
  <2>1. /\ new \in OpType /\ new.kind = kind /\ new.server = s /\ new.channel = ch
        /\ new.set = op[o].set /\ new.pc = FirstStep(kind)
        BY BegunType
  <2>2. op' = [op EXCEPT ![o] = new]
        BY <1>3
  <2> HIDE DEF new
  <2>3. Others(o) /\ op'[o] = new
        BY <1>1, <2>1, <2>2, Placed
  <2> QED BY <2>1, <2>3
<1>5. Course(o)' /\ op'[o].pc # "new"
  <2>1. /\ kind = "load" => op'[o].pc = "check"
        /\ kind = "activate" => op'[o].pc = "mark"
        /\ kind = "deactivate" => op'[o].pc = "lock"
        /\ kind = "channel_add" => op'[o].pc = "contact"
        /\ kind = "channel_remove" => op'[o].pc = "detach"
        BY <1>4 DEF FirstStep
  <2>2. kind \in {"load", "activate", "deactivate", "channel_add", "channel_remove"}
        BY DEF Kinds
  <2>3. op'[o].set = NoOp /\ op'[o].kind = kind /\ op'[o].server \in Servers
        /\ op'[o].channel = ch
        BY <1>1, <1>4
  <2> QED BY <1>3, <2>1, <2>2, <2>3 DEF Course, Clashing
<1> QED BY <1>1, <1>4, <1>5

-----------------------------------------------------------------------------
(* A request that is given a set or a list of tools.                       *)
LEMMA Given ==
    ASSUME op \in [Ops -> OpType], NEW o \in Ops, NEW to \in Pcs
    PROVE  /\ \A set \in Ops :
                op' = [op EXCEPT ![o].pc = to, ![o].set = set] =>
                    Others(o) /\ Keeps(o) /\ op'[o].pc = to /\ op'[o].set = set
                    /\ op'[o].listed = op[o].listed
           /\ \A listed \in SUBSET Names :
                op' = [op EXCEPT ![o].pc = to, ![o].listed = listed] =>
                    Others(o) /\ Keeps(o) /\ op'[o].pc = to /\ op'[o].set = op[o].set
                    /\ op'[o].listed = listed
<1>1. op[o] \in OpType
      OBVIOUS
<1>2. ASSUME NEW set \in Ops, op' = [op EXCEPT ![o].pc = to, ![o].set = set]
      PROVE  Others(o) /\ Keeps(o) /\ op'[o].pc = to /\ op'[o].set = set
             /\ op'[o].listed = op[o].listed
  <2> DEFINE new == [op[o] EXCEPT !.pc = to, !.set = set]
  <2>1. op' = [op EXCEPT ![o] = new]
        BY <1>2
  <2>2. /\ new.pc = to /\ new.kind = op[o].kind /\ new.server = op[o].server
        /\ new.channel = op[o].channel /\ new.set = set /\ new.listed = op[o].listed
        BY <1>1 DEF OpType
  <2>3. [op[o] EXCEPT !.pc = to] \in OpType
        BY <1>1 DEF OpType
  <2>4. new \in OpType
        BY <2>3 DEF OpType
  <2> HIDE DEF new
  <2> QED BY <2>1, <2>2, <2>4, Placed DEF Keeps
<1>3. ASSUME NEW listed \in SUBSET Names,
             op' = [op EXCEPT ![o].pc = to, ![o].listed = listed]
      PROVE  Others(o) /\ Keeps(o) /\ op'[o].pc = to /\ op'[o].set = op[o].set
             /\ op'[o].listed = listed
  <2> DEFINE new == [op[o] EXCEPT !.pc = to, !.listed = listed]
  <2>1. op' = [op EXCEPT ![o] = new]
        BY <1>3
  <2>2. /\ new.pc = to /\ new.kind = op[o].kind /\ new.server = op[o].server
        /\ new.channel = op[o].channel /\ new.set = op[o].set /\ new.listed = listed
        BY <1>1 DEF OpType
  <2>3. [op[o] EXCEPT !.pc = to] \in OpType
        BY <1>1 DEF OpType
  <2>4. new \in OpType
        BY <2>3 DEF OpType
  <2> HIDE DEF new
  <2> QED BY <2>1, <2>2, <2>4, Placed DEF Keeps
<1> QED BY <1>2, <1>3

-----------------------------------------------------------------------------
(* From where to where each step takes its request.                        *)
LEMMA Places ==
    ASSUME OpsInv, NEW o \in Ops
    PROVE  /\ Mark(o) => \E to \in {"check", "failed"} : Moved(o, "mark", to)
           /\ CheckName(o) => \E to \in {"contact", "failed"} : Moved(o, "check", to)
           /\ Lock(o) => Moved(o, "lock", "wait")
           /\ GetToolsMu(o) => Moved(o, "wait", "wait2")
           /\ GetServersMu(o) => \E to \in {"find", "register"} :
                 Moved(o, "wait2", to) /\ (to = "find" <=> op[o].kind = "deactivate")
           /\ Register(o) => \E to \in {"failed", "settle", "done"} : Moved(o, "register", to)
           /\ Settle(o) => \E to \in {"failed", "done"} : Moved(o, "settle", to)
           /\ Find(o) => \E to \in {"failed", "remove"} : Moved(o, "find", to)
           /\ Remove(o) => Moved(o, "remove", "unmark")
           /\ Unmark(o) => \E to \in {"failed", "done"} : Moved(o, "unmark", to)
           /\ LockSet(o) => \E to \in {"register_set", "close_set"} :
                 Moved(o, "lock_set", to) /\ (to = "register_set" <=> op[o].kind = "channel_add")
           /\ RegisterInSet(o) => \E to \in {"failed", "done"} : Moved(o, "register_set", to)
           /\ CloseSet(o) => Moved(o, "close_set", "done")
<1>1. op \in [Ops -> OpType]
      BY DEF OpsInv
<1>2. Mark(o) => \E to \in {"check", "failed"} : Moved(o, "mark", to)
  <2> HAVE Mark(o)
  <2>1. PICK to \in {"check", "failed"} : Move(o, "mark", to)
        BY DEF Mark
  <2> QED BY <1>1, <2>1, Moves DEF Pcs
<1>3. CheckName(o) => \E to \in {"contact", "failed"} : Moved(o, "check", to)
  <2> HAVE CheckName(o)
  <2>1. PICK to \in {"contact", "failed"} : Move(o, "check", to)
        BY DEF CheckName
  <2> QED BY <1>1, <2>1, Moves DEF Pcs
<1>4. Lock(o) => Moved(o, "lock", "wait")
      BY <1>1, Moves DEF Lock, Pcs
<1>5. GetToolsMu(o) => Moved(o, "wait", "wait2")
      BY <1>1, Moves DEF GetToolsMu, Pcs
<1>6. GetServersMu(o) => \E to \in {"find", "register"} :
          Moved(o, "wait2", to) /\ (to = "find" <=> op[o].kind = "deactivate")
  <2> HAVE GetServersMu(o)
  <2>1. PICK to \in {"find", "register"} :
            Move(o, "wait2", to) /\ (to = "find" <=> op[o].kind = "deactivate")
        BY DEF GetServersMu
  <2> QED BY <1>1, <2>1, Moves DEF Pcs
<1>7. Register(o) => \E to \in {"failed", "settle", "done"} : Moved(o, "register", to)
  <2> HAVE Register(o)
  <2>1. PICK to \in {"failed", "settle", "done"} : Move(o, "register", to)
        BY DEF Register
  <2> QED BY <1>1, <2>1, Moves DEF Pcs
<1>8. Settle(o) => \E to \in {"failed", "done"} : Moved(o, "settle", to)
  <2> HAVE Settle(o)
  <2>1. PICK to \in {"failed", "done"} : Move(o, "settle", to)
        BY DEF Settle
  <2> QED BY <1>1, <2>1, Moves DEF Pcs
<1>9. Find(o) => \E to \in {"failed", "remove"} : Moved(o, "find", to)
  <2> HAVE Find(o)
  <2>1. PICK to \in {"failed", "remove"} : Move(o, "find", to)
        BY DEF Find
  <2> QED BY <1>1, <2>1, Moves DEF Pcs
<1>10. Remove(o) => Moved(o, "remove", "unmark")
      BY <1>1, Moves DEF Remove, Pcs
<1>11. Unmark(o) => \E to \in {"failed", "done"} : Moved(o, "unmark", to)
  <2> HAVE Unmark(o)
  <2>1. PICK to \in {"failed", "done"} : Move(o, "unmark", to)
        BY DEF Unmark
  <2> QED BY <1>1, <2>1, Moves DEF Pcs
<1>12. LockSet(o) => \E to \in {"register_set", "close_set"} :
          Moved(o, "lock_set", to) /\ (to = "register_set" <=> op[o].kind = "channel_add")
  <2> HAVE LockSet(o)
  <2>1. PICK to \in {"register_set", "close_set"} :
            Move(o, "lock_set", to) /\ (to = "register_set" <=> op[o].kind = "channel_add")
        BY DEF LockSet
  <2> QED BY <1>1, <2>1, Moves DEF Pcs
<1>13. RegisterInSet(o) => \E to \in {"failed", "done"} : Moved(o, "register_set", to)
  <2> HAVE RegisterInSet(o)
  <2>1. PICK to \in {"failed", "done"} : Move(o, "register_set", to)
        BY DEF RegisterInSet
  <2> QED BY <1>1, <2>1, Moves DEF Pcs
<1>14. CloseSet(o) => Moved(o, "close_set", "done")
      BY <1>1, Moves DEF CloseSet, Pcs
<1> QED BY <1>2, <1>3, <1>4, <1>5, <1>6, <1>7, <1>8, <1>9, <1>10, <1>11, <1>12, <1>13, <1>14

LEMMA GivenPlaces ==
    ASSUME OpsInv, ChannelsOK, NEW o \in Ops
    PROVE  /\ Contact(o) =>
                \/ Moved(o, "contact", "failed") /\ open' = open
                \/ /\ Others(o) /\ Keeps(o)
                   /\ op[o].pc = "contact" /\ op'[o].set = op[o].set
                   /\ op'[o].pc = IF op[o].channel = NoChan THEN "lock" ELSE "attach"
                   /\ open' = open \cup {o}
           /\ Attach(o) =>
                /\ Others(o) /\ Keeps(o)
                /\ op[o].pc = "attach" /\ op'[o].pc = "lock_set"
                /\ op'[o].set = channelTools'[op[o].channel] /\ op'[o].set \in Ops
           /\ Detach(o) =>
                \/ /\ Moved(o, "detach", "done") /\ op[o].channel \notin DOMAIN channelTools
                   /\ channelTools' = channelTools
                \/ /\ Others(o) /\ Keeps(o)
                   /\ op[o].pc = "detach" /\ op'[o].pc = "lock_set"
                   /\ op[o].channel \in DOMAIN channelTools
                   /\ channelTools' = MapDrop(channelTools, {op[o].channel})
                   /\ op'[o].set = channelTools[op[o].channel] /\ op'[o].set \in Ops
<1>1. op \in [Ops -> OpType]
      BY DEF OpsInv
<1> USE DEF Pcs
<1>2. ASSUME Contact(o), ~Move(o, "contact", "failed")
      PROVE  /\ Others(o) /\ Keeps(o)
             /\ op[o].pc = "contact" /\ op'[o].set = op[o].set
             /\ op'[o].pc = IF op[o].channel = NoChan THEN "lock" ELSE "attach"
             /\ open' = open \cup {o}
  <2>1. op[o].pc = "contact" /\ open' = open \cup {o}
        BY <1>2 DEF Contact
  <2>2. PICK listed \in SUBSET Names :
           op' = [op EXCEPT ![o].pc = IF op[o].channel = NoChan THEN "lock" ELSE "attach",
                            ![o].listed = listed]
        BY <1>2 DEF Contact
  <2>3. CASE op[o].channel = NoChan
    <3>1. op' = [op EXCEPT ![o].pc = "lock", ![o].listed = listed]
          BY <2>2, <2>3
    <3> QED BY <1>1, <2>1, <2>3, <3>1, Given
  <2>4. CASE op[o].channel # NoChan
    <3>1. op' = [op EXCEPT ![o].pc = "attach", ![o].listed = listed]
          BY <2>2, <2>4
    <3> QED BY ZenonT(40), <1>1, <2>1, <2>4, <3>1, Given
  <2> QED BY <2>3, <2>4
<1>3. Contact(o) /\ Move(o, "contact", "failed") => Moved(o, "contact", "failed") /\ open' = open
  <2>1. Contact(o) /\ Move(o, "contact", "failed") => op'[o].pc = "failed"
        BY <1>1, Moves DEF Moved
  <2>2. Contact(o) /\ open' # open => op'[o].pc # "failed"
        BY <1>1, Given DEF Contact
  <2> QED BY <1>1, <2>1, <2>2, Moves
<1>4. ASSUME NEW set \in Ops, op' = [op EXCEPT ![o].pc = "lock_set", ![o].set = set]
      PROVE  Others(o) /\ Keeps(o) /\ op'[o].pc = "lock_set" /\ op'[o].set = set
      BY <1>1, <1>4, Given
<1>5. ASSUME Attach(o)
      PROVE  /\ Others(o) /\ Keeps(o)
             /\ op[o].pc = "attach" /\ op'[o].pc = "lock_set"
             /\ op'[o].set = channelTools'[op[o].channel] /\ op'[o].set \in Ops
  <2>1. channelTools'[op[o].channel] \in Ops
    <3>1. CASE op[o].channel \in DOMAIN channelTools
          BY <1>5, <3>1 DEF Attach, ChannelsOK
    <3>2. CASE op[o].channel \notin DOMAIN channelTools
      <4>1. channelTools' = MapPut(channelTools, op[o].channel, o)
            BY <1>5, <3>2 DEF Attach
      <4> QED BY <4>1 DEF MapPut
    <3> QED BY <3>1, <3>2
  <2>2. /\ op[o].pc = "attach"
        /\ op' = [op EXCEPT ![o].pc = "lock_set", ![o].set = channelTools'[op[o].channel]]
        BY <1>5 DEF Attach
  <2> QED BY <1>4, <2>1, <2>2
<1>6. ASSUME Detach(o), op[o].channel \in DOMAIN channelTools
      PROVE  /\ Others(o) /\ Keeps(o)
             /\ op[o].pc = "detach" /\ op'[o].pc = "lock_set"
             /\ channelTools' = MapDrop(channelTools, {op[o].channel})
             /\ op'[o].set = channelTools[op[o].channel] /\ op'[o].set \in Ops
  <2>1. channelTools[op[o].channel] \in Ops
        BY <1>6 DEF ChannelsOK
  <2>2. /\ op[o].pc = "detach"
        /\ channelTools' = MapDrop(channelTools, {op[o].channel})
        /\ op' = [op EXCEPT ![o].pc = "lock_set", ![o].set = channelTools[op[o].channel]]
        BY <1>6 DEF Detach
  <2> QED BY <1>4, <2>1, <2>2
<1>7. ASSUME Detach(o), op[o].channel \notin DOMAIN channelTools
      PROVE  Moved(o, "detach", "done") /\ channelTools' = channelTools
      BY <1>1, <1>7, Moves DEF Detach
<1> QED BY <1>2, <1>3, <1>5, <1>6, <1>7

-----------------------------------------------------------------------------
(* What a request does to its own place, and to nobody else's.             *)
LEMMA OpSteps ==
    ASSUME OpsInv, RowsOK, ChannelsOK, NEW o \in Ops, Operate(o)
    PROVE  Others(o) /\ Keeps(o) /\ Course(o)'
<1>1. op \in [Ops -> OpType] /\ op[o] \in OpType /\ Course(o)
      BY DEF OpsInv
<1> USE DEF Ended, Pcs
<1>2. CASE Mark(o)
      BY <1>1, <1>2, Places DEF Moved, Course, Keeps, Clashing
<1>3. CASE CheckName(o)
      BY <1>1, <1>3, Places DEF Moved, Course, Keeps, Clashing
<1>4. CASE Contact(o)
      BY <1>1, <1>4, GivenPlaces DEF Moved, Course, Keeps, Clashing
<1>5. CASE Lock(o)
      BY <1>1, <1>5, Places DEF Moved, Course, Keeps, Clashing
<1>6. CASE GetToolsMu(o)
      BY <1>1, <1>6, Places DEF Moved, Course, Keeps, Clashing
<1>7. CASE GetServersMu(o)
      BY <1>1, <1>7, Places DEF Moved, Course, Keeps, Clashing
<1>8. CASE Register(o)
      BY <1>1, <1>8, Places DEF Moved, Course, Keeps, Clashing
<1>9. CASE Settle(o)
      BY <1>1, <1>9, Places DEF Moved, Course, Keeps, Clashing
<1>10. CASE Find(o)
      BY <1>1, <1>10, Places DEF Moved, Course, Keeps, Clashing
<1>11. CASE Remove(o)
      BY <1>1, <1>11, Places DEF Moved, Course, Keeps, Clashing
<1>12. CASE Unmark(o)
      BY <1>1, <1>12, Places DEF Moved, Course, Keeps, Clashing
<1>14. CASE Attach(o)
      BY <1>1, <1>14, GivenPlaces DEF Moved, Course, Keeps, Clashing
<1>15. CASE LockSet(o)
      BY <1>1, <1>15, Places DEF Moved, Course, Keeps, Clashing
<1>16. CASE RegisterInSet(o)
      BY <1>1, <1>16, Places DEF Moved, Course, Keeps, Clashing
<1>17. CASE Detach(o)
      BY <1>1, <1>17, GivenPlaces DEF Moved, Course, Keeps, Clashing
<1>18. CASE CloseSet(o)
      BY <1>1, <1>18, Places DEF Moved, Course, Keeps, Clashing
<1> QED BY <1>2, <1>3, <1>4, <1>5, <1>6, <1>7, <1>8, <1>9, <1>10, <1>11, <1>12, <1>14,
           <1>15, <1>16, <1>17, <1>18 DEF Operate

-----------------------------------------------------------------------------
(* A step is one request's or one call's; neither touches what is the      *)
(* other's.                                                                *)
LEMMA StepIsOnes ==
    ASSUME [Next]_vars
    PROVE  \/ UNCHANGED vars
           \/ \E c \in Callers : (Ask(c) \/ Invoke(c)) /\ UNCHANGED <<registry, rows, op>>
           \/ \E o \in Ops : Begin(o) /\ UNCHANGED <<registry, rows, locks, call>>
           \/ \E o \in Ops : Operate(o) /\ UNCHANGED call
<1>1. \A c \in Callers : Ask(c) \/ Invoke(c) => UNCHANGED <<registry, rows, op>>
      BY DEF Ask, Invoke, Decide, InvokeChannel, InvokeGlobal, Return
<1>2. \A o \in Ops : Begin(o) => UNCHANGED <<registry, rows, locks, call>>
      BY DEF Begin
<1>3. \A o \in Ops : Operate(o) => UNCHANGED call
      BY DEF Operate, Mark, CheckName, Contact, Lock, GetToolsMu, GetServersMu, Register,
             Settle, Find, Remove, Unmark, Attach, LockSet, RegisterInSet, Detach, CloseSet
<1> QED BY <1>1, <1>2, <1>3 DEF Next

PlacesInv == OpsInv /\ RowsOK /\ ChannelsOK

LEMMA PlacesStay == PlacesInv /\ [Next]_vars => PlacesInv'
<1> SUFFICES ASSUME PlacesInv, [Next]_vars PROVE PlacesInv'
    OBVIOUS
<1> USE DEF PlacesInv
<1>1. CASE UNCHANGED <<channelTools, rows, op>>
      BY <1>1 DEF OpsInv, RowsOK, ChannelsOK, Course
<1>2. ASSUME NEW o \in Ops, Begin(o) PROVE PlacesInv'
  <2>1. Others(o) /\ Course(o)'
        BY <1>2, Begins
  <2>2. OpsInv'
        BY <2>1 DEF OpsInv, Others, Course
  <2>3. UNCHANGED <<channelTools, rows>>
        BY <1>2 DEF Begin, registry
  <2> QED BY <2>2, <2>3 DEF RowsOK, ChannelsOK
<1>3. ASSUME NEW o \in Ops, Operate(o) PROVE PlacesInv'
  <2>1. Others(o) /\ Course(o)'
        BY <1>3, OpSteps
  <2>2. OpsInv'
        BY <2>1 DEF OpsInv, Others, Course
  <2>3. op[o].pc # "new"
        BY <1>3, Places, GivenPlaces DEF Operate, Moved
  <2>4. RowsOK'
    <3>1. op[o].server \in Servers
          BY <2>3 DEF OpsInv, Course
    <3>2. CASE Mark(o)
      <4>1. [active |-> TRUE, status |-> "connecting"] \in [active : BOOLEAN, status : Statuses]
            BY DEF Statuses
      <4> QED BY <3>1, <3>2, <4>1 DEF Mark, RowsOK
    <3>3. CASE Unmark(o)
      <4>1. [active |-> FALSE, status |-> "disconnected"]
                \in [active : BOOLEAN, status : Statuses]
            BY DEF Statuses
      <4> QED BY <3>1, <3>3, <4>1 DEF Unmark, RowsOK
    <3>4. CASE Settle(o)
      <4>1. \A s \in Servers : rows[s] \in [active : BOOLEAN, status : Statuses]
            BY DEF RowsOK
      <4>2. [rows[op[o].server] EXCEPT !.status = "connected"]
                \in [active : BOOLEAN, status : Statuses]
            BY <3>1, <4>1 DEF Statuses
      <4> QED BY <3>1, <3>4, <4>2 DEF Settle, RowsOK
    <3>5. ~Mark(o) /\ ~Unmark(o) /\ ~Settle(o) => rows' = rows
          BY <1>3 DEF Operate, CheckName, Contact, Lock, GetToolsMu, GetServersMu, Register,
                   Find, Remove, Attach, LockSet, RegisterInSet, Detach, CloseSet
    <3> QED BY <3>2, <3>3, <3>4, <3>5 DEF RowsOK
  <2>5. ChannelsOK'
    <3>1. CASE Attach(o)
      <4>1. op[o].channel \in Channels
            BY <3>1, GivenPlaces DEF OpsInv, Course, OpType
      <4>2. channelTools' = channelTools
            \/ channelTools' = MapPut(channelTools, op[o].channel, o)
            BY <3>1 DEF Attach
      <4> QED BY <4>1, <4>2 DEF MapPut, ChannelsOK
    <3>2. CASE Detach(o)
      <4>1. \/ channelTools' = channelTools
            \/ channelTools' = MapDrop(channelTools, {op[o].channel})
            BY <3>2 DEF Detach
      <4> QED BY <4>1 DEF MapDrop, Restrict, ChannelsOK
    <3>3. ~Attach(o) /\ ~Detach(o) => channelTools' = channelTools
          BY <1>3 DEF Operate, Mark, CheckName, Contact, Lock, GetToolsMu, GetServersMu,
                   Register, Settle, Find, Remove, Unmark, LockSet, RegisterInSet, CloseSet,
                   registry
    <3> QED BY <3>1, <3>2, <3>3 DEF ChannelsOK
  <2> QED BY <2>2, <2>4, <2>5
<1>4. CASE UNCHANGED vars \/ UNCHANGED <<registry, rows, op>>
      BY <1>1, <1>4 DEF vars, registry
<1> HIDE DEF PlacesInv
<1> QED BY <1>2, <1>3, <1>4, StepIsOnes

(* What becomes of a request in any step: it does not change its mind, and *)
(* one whose tools are in, or that has failed, has no more than its row to *)
(* write.                                                                  *)
LEMMA Onward ==
    ASSUME PlacesInv, [Next]_vars, NEW p \in Ops
    PROVE  \/ op'[p] = op[p]
           \/ Begin(p) /\ op[p].pc = "new"
           \/ /\ Operate(p) /\ Keeps(p) /\ op[p].pc \notin {"new", "done", "failed"}
              /\ op[p].pc = "settle" => op'[p].pc \in {"done", "failed"}
<1> USE DEF PlacesInv
<1>1. \A o \in Ops : Begin(o) => Others(o) /\ op[o].pc = "new"
      BY Begins
<1>2. \A o \in Ops : Operate(o) => Others(o) /\ Keeps(o)
      BY OpSteps
<1>3. Operate(p) => /\ op[p].pc \notin {"new", "done", "failed"}
                    /\ op[p].pc = "settle" => op'[p].pc \in {"done", "failed"}
      BY Places, GivenPlaces DEF Operate, Moved
<1> QED BY <1>1, <1>2, <1>3, StepIsOnes DEF Others, vars

-----------------------------------------------------------------------------
LEMMA SettledStays ==
    ASSUME PlacesInv, [Next]_vars, NEW o, Settled(o)
    PROVE  Settled(o)'
BY Onward DEF Settled, Keeps, Registered

(* The global maps change when a server's tools come in and when they go.  *)
LEMMA MapsSteps ==
    ASSUME [Next]_vars
    PROVE  \/ UNCHANGED <<tools, invokers, categories, servers>>
           \/ \E o \in Ops : Register(o) /\ ~Conflict(o)
           \/ \E o \in Ops : Remove(o)
<1>1. ASSUME NEW o \in Ops, Operate(o), ~Remove(o), ~(Register(o) /\ ~Conflict(o))
      PROVE  UNCHANGED <<tools, invokers, categories, servers>>
      BY <1>1 DEF Operate, Mark, CheckName, Contact, Lock, GetToolsMu, GetServersMu,
             Register, Settle, Find, Unmark, Attach, LockSet, RegisterInSet, Detach,
             CloseSet, registry
<1> QED BY <1>1, StepIsOnes DEF registry, vars

LEMMA KeysType ==
    ASSUME PlacesInv, NEW o \in Ops, op[o].pc # "new"
    PROVE  /\ KeysOf(o) \subseteq Keys
           /\ \A k \in KeysOf(o) : k.chan = op[o].channel /\ k.server = op[o].server
<1>1. op[o].server \in Servers /\ op[o].channel \in Channels \cup {NoChan}
      /\ op[o].listed \subseteq Names
      BY DEF PlacesInv, OpsInv, Course, OpType
<1> QED BY <1>1 DEF KeysOf, Key, Keys

(* A server's tools come in.                                               *)
LEMMA RegisterKeeps ==
    ASSUME PlacesInv, ToolsInv, ServersInv, [Next]_vars,
           NEW o \in Ops, Register(o), ~Conflict(o)
    PROVE  ToolsInv' /\ ServersInv'
<1>1. /\ op[o].pc = "register" /\ op[o].kind \in Clashing /\ op[o].channel = NoChan
      /\ op[o].server \in Servers
      BY Places DEF Moved, PlacesInv, OpsInv, Course, Clashing
<1>2. /\ tools' = tools \cup {Entry(k, o) : k \in KeysOf(o)}
      /\ invokers' = [k \in DOMAIN invokers \cup KeysOf(o) |->
                        IF k \in KeysOf(o) THEN o ELSE invokers[k]]
      /\ categories' = [k \in DOMAIN categories \cup KeysOf(o) |->
                          IF k \in KeysOf(o) THEN "mcp-global" ELSE categories[k]]
      /\ servers' = MapPut(servers, op[o].server, [client |-> o, keys |-> KeysOf(o)])
      BY DEF Register
<1>3. /\ KeysOf(o) \subseteq Keys
      /\ \A k \in KeysOf(o) : k.chan = NoChan /\ k.server = op[o].server
      BY <1>1, KeysType
<1>4. Settled(o)' /\ ~Settled(o)
      BY <1>1, Places DEF Settled, Registered, Moved, Keeps, PlacesInv
<1>5. \A e \in tools : e.key \notin KeysOf(o)
      BY DEF Conflict
<1>6. \A e \in tools' : e \in tools \/ (e.client = o /\ e.key \in KeysOf(o) /\ e = Entry(e.key, o))
      BY <1>2 DEF Entry
<1>7. ToolsInv'
  <2>1. tools' \subseteq [key : Keys, client : Clients]
        BY <1>2, <1>3 DEF ToolsInv, Entry, Clients
  <2>2. \A e \in tools' : e.key.chan = NoChan /\ (e.client = Self \/ Settled(e.client)')
        BY <1>3, <1>4, <1>6, SettledStays DEF ToolsInv
  <2>3. \A e, f \in tools' : e.key = f.key => e = f
        BY <1>5, <1>6 DEF ToolsInv
  <2>4. {e.key : e \in tools'} = DOMAIN invokers \cup KeysOf(o)
    <3>1. \A k \in KeysOf(o) : Entry(k, o) \in tools' /\ Entry(k, o).key = k
          BY <1>2 DEF Entry
    <3>2. tools \subseteq tools'
          BY <1>2
    <3> QED BY <1>6, <3>1, <3>2 DEF ToolsInv
  <2>5. DOMAIN invokers' = DOMAIN invokers \cup KeysOf(o)
        /\ DOMAIN categories' = DOMAIN categories \cup KeysOf(o)
        BY <1>2
  <2>6. \A k \in DOMAIN categories' : categories'[k] \in Sources
        BY <1>2, <2>5 DEF ToolsInv, Sources
  <2>7. KBCreate \in DOMAIN categories' /\ categories'[KBCreate] = "builtin-keeper"
    <3>1. KBCreate \notin KeysOf(o)
          BY <1>1, <1>3, RegistryAssumption DEF KBCreate, Key
    <3> QED BY <1>2, <2>5, <3>1 DEF ToolsInv
  <2> QED BY <2>1, <2>2, <2>3, <2>4, <2>5, <2>6, <2>7 DEF ToolsInv
<1>8. ServersInv'
  <2> DEFINE name == op[o].server
             In(x) == x \in Ops /\ op'[x].kind \in Clashing /\ op'[x].pc \in Registered
  <2>1. /\ DOMAIN servers' = DOMAIN servers \cup {name}
        /\ servers'[name] = [client |-> o, keys |-> KeysOf(o)]
        /\ \A s \in DOMAIN servers \ {name} : servers'[s] = servers[s]
        BY <1>2 DEF MapPut
  <2>2. (\A e \in tools : e.client # o) /\ In(o)
        BY <1>4 DEF ToolsInv, Settled
  <2>3. ASSUME NEW s \in DOMAIN servers'
        PROVE  /\ In(servers'[s].client)
               /\ \A k \in servers'[s].keys : k.server = s
               /\ \A e \in tools' : e.client = servers'[s].client => e.key \in servers'[s].keys
    <3>1. CASE s = name
      <4>1. servers'[s].client = o /\ servers'[s].keys = KeysOf(o)
            BY <2>1, <3>1
      <4> QED BY <1>3, <1>6, <2>2, <3>1, <4>1
    <3>2. CASE s # name
      <4>1. servers'[s] = servers[s] /\ s \in DOMAIN servers
            BY <2>1, <3>2
      <4>2. Settled(servers[s].client)
            BY <4>1 DEF ServersInv
      <4>3. servers[s].client # o /\ In(servers[s].client)
            BY <1>4, <4>2, SettledStays DEF Settled
      <4> QED BY <1>6, <4>1, <4>3 DEF ServersInv
    <3> QED BY <3>1, <3>2
  <2>4. DOMAIN servers' \subseteq Servers
        BY <1>1, <2>1 DEF ServersInv
  <2> QED BY <2>3, <2>4 DEF ServersInv, Settled
<1> QED BY <1>7, <1>8

(* A server's tools go; the built-in ones belong to no server.             *)
LEMMA RemoveKeeps ==
    ASSUME PlacesInv, ToolsInv, ServersInv, LocksInv, [Next]_vars,
           NEW o \in Ops, Remove(o)
    PROVE  ToolsInv' /\ ServersInv'
<1> DEFINE name == op[o].server
           gone == servers[name].keys
<1>1. /\ tools' = {e \in tools : e.key \notin gone}
      /\ invokers' = MapDrop(invokers, gone)
      /\ categories' = MapDrop(categories, gone)
      /\ servers' = MapDrop(servers, {name})
      BY DEF Remove
<1>2. name \in DOMAIN servers /\ name \in Servers
      BY Places DEF Moved, PlacesInv, LocksInv, ServersInv
<1>3. KBCreate \notin gone
  <2>1. KBCreate.server \notin Servers
        BY RegistryAssumption DEF KBCreate, Key
  <2>2. \A k \in gone : k.server \in Servers
        BY <1>2 DEF ServersInv
  <2> QED BY <2>1, <2>2
<1>4. /\ DOMAIN invokers' = DOMAIN invokers \ gone
      /\ DOMAIN categories' = DOMAIN categories \ gone
      /\ \A k \in DOMAIN categories' : categories'[k] = categories[k]
      BY <1>1 DEF MapDrop, Restrict
<1>5. ToolsInv'
  <2>1. \A e \in tools' : e.key.chan = NoChan /\ (e.client = Self \/ Settled(e.client)')
        BY <1>1, SettledStays DEF ToolsInv
  <2>2. {e.key : e \in tools'} = DOMAIN invokers'
        BY <1>1, <1>4 DEF ToolsInv
  <2>3. KBCreate \in DOMAIN categories' /\ categories'[KBCreate] = "builtin-keeper"
        BY <1>3, <1>4 DEF ToolsInv
  <2>4. \A k \in DOMAIN categories' : categories'[k] \in Sources
        BY <1>4 DEF ToolsInv
  <2>5. tools' \subseteq [key : Keys, client : Clients]
        /\ (\A e, f \in tools' : e.key = f.key => e = f)
        /\ DOMAIN invokers' = DOMAIN categories'
        BY <1>1, <1>4 DEF ToolsInv
  <2> QED BY <2>1, <2>2, <2>3, <2>4, <2>5 DEF ToolsInv
<1>6. ServersInv'
  <2> DEFINE In(x) == x \in Ops /\ op'[x].kind \in Clashing /\ op'[x].pc \in Registered
  <2>1. /\ DOMAIN servers' = DOMAIN servers \ {name}
        /\ \A s \in DOMAIN servers' : servers'[s] = servers[s]
        BY <1>1 DEF MapDrop, Restrict
  <2>2. \A s \in DOMAIN servers : In(servers[s].client)
        BY SettledStays DEF ServersInv, Settled
  <2>3. \A s \in DOMAIN servers' :
           /\ In(servers'[s].client)
           /\ \A k \in servers'[s].keys : k.server = s
           /\ \A e \in tools' : e.client = servers'[s].client => e.key \in servers'[s].keys
        BY <1>1, <2>1, <2>2 DEF ServersInv
  <2>4. DOMAIN servers' \subseteq Servers
        BY <2>1 DEF ServersInv
  <2> QED BY <2>3, <2>4 DEF ServersInv, Settled
<1> QED BY <1>5, <1>6

LEMMA MapsKept ==
    PlacesInv /\ ToolsInv /\ ServersInv /\ LocksInv /\ [Next]_vars => ToolsInv' /\ ServersInv'
<1> SUFFICES ASSUME PlacesInv, ToolsInv, ServersInv, LocksInv, [Next]_vars
             PROVE  ToolsInv' /\ ServersInv'
    OBVIOUS
<1>1. CASE UNCHANGED <<tools, invokers, categories, servers>>
  <2>1. \A e \in tools : e.client = Self \/ Settled(e.client)'
        BY SettledStays DEF ToolsInv
  <2>2. ToolsInv'
        BY <1>1, <2>1 DEF ToolsInv
  <2> DEFINE In(x) == x \in Ops /\ op'[x].kind \in Clashing /\ op'[x].pc \in Registered
  <2>3. \A s \in DOMAIN servers : In(servers[s].client)
        BY SettledStays DEF ServersInv, Settled
  <2>4. ServersInv'
        BY <1>1, <2>3 DEF ServersInv, Settled
  <2> QED BY <2>2, <2>4
<1> QED BY <1>1, MapsSteps, RegisterKeeps, RemoveKeeps

-----------------------------------------------------------------------------
(* Who is where the lock is held has got it or keeps it.                   *)
Held == {"wait2", "register", "find", "remove"}

LEMMA Holders ==
    ASSUME PlacesInv, [Next]_vars, NEW p \in Ops
    PROVE  /\ op'[p].pc \in Held => op[p].pc \in Held \/ GetToolsMu(p)
           /\ op'[p].pc = "remove" =>
                 op'[p] = op[p] \/ (Find(p) /\ op[p].server \in DOMAIN servers /\ Keeps(p))
<1> USE DEF PlacesInv
<1>1. Begin(p) => op'[p].pc \in {"check", "mark", "lock", "contact", "detach"}
  <2> HAVE Begin(p)
  <2>1. PICK kind \in Kinds, s \in Servers, ch \in Channels \cup {NoChan} :
            op' = [op EXCEPT ![p] = Begun(p, kind, s, ch)]
        BY DEF Begin, Begun
  <2>2. op'[p].pc = FirstStep(kind)
        BY <2>1, BegunType DEF OpsInv
  <2> QED BY <2>2 DEF FirstStep, Kinds
<1>2. Operate(p) =>
          /\ op'[p].pc \in Held => op[p].pc \in Held \/ GetToolsMu(p)
          /\ op'[p].pc = "remove" => Find(p)
      BY Places, GivenPlaces DEF Operate, Moved, Held
<1>3. Find(p) /\ op'[p].pc = "remove" => op[p].server \in DOMAIN servers
  <2> SUFFICES ASSUME Find(p), op[p].server \notin DOMAIN servers
               PROVE  op'[p].pc # "remove"
      OBVIOUS
  <2>1. Move(p, "find", "failed")
        BY DEF Find
  <2> QED BY <2>1, Moves DEF Moved, Pcs, OpsInv
<1> QED BY <1>1, <1>2, <1>3, Onward DEF Held

(* Who changes the maps or the lock holds it, or gets it when it is free.  *)
LEMMA LockSteps ==
    ASSUME PlacesInv, LocksInv, [Next]_vars
    PROVE  /\ \/ writer' = writer
              \/ \E o \in Ops : GetToolsMu(o) /\ writer = NoOp /\ readers = {} /\ writer' = o
              \/ \E o \in Ops : writer = o /\ writer' = NoOp /\ op'[o].pc \notin Held
           /\ \/ servers' = servers
              \/ \E o \in Ops : writer = o /\ op'[o].pc \notin Held
<1>1. ASSUME NEW o \in Ops, Register(o) \/ Remove(o)
      PROVE  writer = o /\ writer' = NoOp /\ op'[o].pc \notin Held
      BY <1>1, Places DEF Register, Remove, Unlock, Moved, Held, LocksInv, PlacesInv
<1>2. ASSUME NEW o \in Ops, Find(o)
      PROVE  writer' = writer \/ (writer = o /\ writer' = NoOp /\ op'[o].pc \notin Held)
  <2>1. op[o].pc = "find" /\ writer = o
        BY <1>2 DEF Find, LocksInv
  <2>2. writer' = writer \/ (writer' = NoOp /\ Move(o, "find", "failed"))
        BY <1>2 DEF Find, Unlock, locks
  <2> QED BY <2>1, <2>2, Moves DEF Moved, Pcs, OpsInv, PlacesInv, Held
<1>3. ASSUME NEW o \in Ops, Operate(o), ~Register(o), ~Remove(o)
      PROVE  /\ servers' = servers
             /\ writer' = writer \/ GetToolsMu(o) \/ Find(o)
      BY <1>3 DEF Operate, Mark, CheckName, Contact, Lock, GetServersMu, Find,
             Settle, Unmark, Attach, LockSet, RegisterInSet, Detach, CloseSet,
             registry, locks, GetToolsMu
<1>4. ASSUME NEW o \in Ops, GetToolsMu(o)
      PROVE  writer = NoOp /\ readers = {} /\ writer' = o
      BY <1>4 DEF GetToolsMu
<1>5. ASSUME NEW c \in Callers, Ask(c) \/ Invoke(c) PROVE writer' = writer
      BY <1>5 DEF Ask, Invoke, Decide, InvokeChannel, InvokeGlobal, Return, locks
<1>6. /\ servers' = servers \/ \E o \in Ops : Register(o) \/ Remove(o)
      /\ writer' = writer \/ \E o \in Ops : Register(o) \/ Remove(o) \/ GetToolsMu(o) \/ Find(o)
      BY <1>3, <1>5, StepIsOnes DEF vars, registry, locks
<1> QED BY <1>1, <1>2, <1>4, <1>6

LEMMA LocksKept == PlacesInv /\ ServersInv /\ LocksInv /\ [Next]_vars => LocksInv'
<1> SUFFICES ASSUME PlacesInv, ServersInv, LocksInv, [Next]_vars PROVE LocksInv'
    OBVIOUS
<1>1. ASSUME NEW p \in Ops
      PROVE  /\ op'[p].pc \in Held => writer' = p
             /\ op'[p].pc = "remove" => op'[p].server \in DOMAIN servers'
  <2>1. op'[p].pc \in Held => writer' = p
    <3> SUFFICES ASSUME op'[p].pc \in Held PROVE writer' = p
        OBVIOUS
    <3>1. CASE op[p].pc \in Held
      <4>1. writer = p
            BY <3>1 DEF LocksInv, Held
      <4> QED BY <4>1, LockSteps
    <3>2. CASE GetToolsMu(p)
          BY <3>2 DEF GetToolsMu
    <3> QED BY <3>1, <3>2, Holders
  <2>2. ASSUME op'[p].pc = "remove" PROVE op'[p].server \in DOMAIN servers'
    <3>1. op'[p].pc \in Held
          BY <2>2 DEF Held
    <3>2. op[p].server \in DOMAIN servers /\ op'[p].server = op[p].server
          BY <2>2, Holders DEF LocksInv, Keeps
    <3>3. op[p].pc \in Held /\ writer = p
          BY <2>2, Holders, Places DEF LocksInv, Held, Moved, PlacesInv
    <3>4. servers' = servers
          BY <3>1, <3>3, LockSteps
    <3> QED BY <3>2, <3>4
  <2> QED BY <2>1, <2>2
<1>2. writer' \in Ops \cup {NoOp}
      BY LockSteps DEF LocksInv
<1>3. /\ serversMu' \in Ops \cup {NoOp} /\ readers' \subseteq Callers /\ waiting' \subseteq Ops
      /\ readers' \subseteq readers \/ (writer = NoOp /\ writer' = writer)
  <2>1. CASE UNCHANGED <<serversMu, readers, waiting>>
        BY <2>1 DEF LocksInv
  <2>2. ASSUME NEW o \in Ops, Operate(o)
        PROVE  /\ serversMu' \in {serversMu, o, NoOp} /\ readers' = readers
               /\ waiting' \in {waiting, waiting \cup {o}, waiting \ {o}}
    <3>1. CASE Lock(o) \/ GetToolsMu(o) \/ GetServersMu(o)
          BY <3>1 DEF Lock, GetToolsMu, GetServersMu
    <3>2. CASE Register(o) \/ Find(o) \/ Remove(o)
          BY <3>2 DEF Register, Find, Remove, Unlock, locks
    <3>3. CASE Mark(o) \/ CheckName(o) \/ Contact(o) \/ Settle(o) \/ Unmark(o)
          BY <3>3 DEF Mark, CheckName, Contact, Settle, Unmark, locks
    <3>4. CASE Attach(o) \/ LockSet(o) \/ RegisterInSet(o) \/ Detach(o) \/ CloseSet(o)
          BY <3>4 DEF Attach, LockSet, RegisterInSet, Detach, CloseSet, locks
    <3> QED BY <2>2, <3>1, <3>2, <3>3, <3>4 DEF Operate
  <2>3. ASSUME NEW c \in Callers, Ask(c) \/ Invoke(c)
        PROVE  /\ UNCHANGED <<serversMu, waiting, writer>>
               /\ readers' \in {readers, readers \ {c}}
                  \/ (readers' = readers \cup {c} /\ writer = NoOp)
        BY <2>3 DEF Ask, Invoke, Decide, InvokeChannel, InvokeGlobal, Return, locks, MayRead
  <2> QED BY <2>1, <2>2, <2>3, StepIsOnes DEF LocksInv, vars, locks
<1>4. writer' # NoOp => readers' = {}
      BY <1>3, LockSteps DEF LocksInv
<1> QED BY <1>1, <1>2, <1>3, <1>4 DEF LocksInv, Held

-----------------------------------------------------------------------------
LEMMA AttachedStays ==
    ASSUME PlacesInv, [Next]_vars, NEW o, Attached(o)
    PROVE  Attached(o)' /\ op'[o].channel = op[o].channel
<1>1. o \in Ops /\ op[o].kind = "channel_add" /\ op[o].pc # "new"
      BY DEF Attached
<1>2. CASE op'[o] = op[o]
      BY <1>2 DEF Attached
<1>3. CASE Operate(o) /\ Keeps(o)
  <2>1. LockSet(o) \/ RegisterInSet(o)
        BY <1>1, <1>3, Places, GivenPlaces DEF Operate, Moved, Attached, PlacesInv
  <2>2. op'[o].pc \in {"register_set", "done", "failed"}
        BY <1>1, <2>1, Places DEF Moved, PlacesInv
  <2> QED BY <1>1, <1>3, <2>2 DEF Attached, Keeps
<1> QED BY <1>1, <1>2, <1>3, Onward

(* A request has the set it was given, until it ends.                      *)
LEMMA SetSteps ==
    ASSUME PlacesInv, [Next]_vars, NEW p \in Ops
    PROVE  \/ op'[p].set = NoOp
           \/ op'[p].set = op[p].set /\ Keeps(p)
           \/ Attach(p) \/ Detach(p)
<1> USE DEF PlacesInv
<1>1. Begin(p) => op'[p].set = NoOp
  <2> HAVE Begin(p)
  <2>1. PICK kind \in Kinds, s \in Servers, ch \in Channels \cup {NoChan} :
            op' = [op EXCEPT ![p] = Begun(p, kind, s, ch)]
        BY DEF Begin, Begun
  <2>2. op[p].set = NoOp
        BY DEF Begin, OpsInv, Course
  <2> QED BY <2>1, <2>2, BegunType DEF OpsInv
<1>2. Operate(p) /\ ~Attach(p) /\ ~Detach(p) => op'[p].set \in {NoOp, op[p].set} /\ Keeps(p)
      BY Places, GivenPlaces DEF Operate, Moved
<1> QED BY <1>1, <1>2, Onward DEF Keeps

LEMMA AddsDiffer ==
    ASSUME PlacesInv, NEW o \in Ops, Begin(o), op'[o].kind = "channel_add", NEW p \in Ops,
           op[p].kind = "channel_add", op[p].server = op'[o].server
    PROVE  op[p].channel # op'[o].channel
<1>1. PICK kind \in Kinds, s \in Servers, ch \in Channels \cup {NoChan} :
         /\ kind = "channel_add" =>
              \A q \in Ops : ~(op[q].kind = kind /\ op[q].server = s /\ op[q].channel = ch)
         /\ op' = [op EXCEPT ![o] = Begun(o, kind, s, ch)]
      BY DEF Begin, Begun
<1>2. op'[o].kind = kind /\ op'[o].server = s /\ op'[o].channel = ch
      BY <1>1, BegunType DEF OpsInv, PlacesInv
<1> QED BY <1>1, <1>2

LEMMA ChannelSteps ==
    ASSUME [Next]_vars
    PROVE  \/ channelTools' = channelTools
           \/ \E o \in Ops : Attach(o) \/ Detach(o)
<1>1. \A o \in Ops : Operate(o) /\ ~Attach(o) /\ ~Detach(o) => channelTools' = channelTools
      BY DEF Operate, Mark, CheckName, Contact, Lock, GetToolsMu, GetServersMu, Register,
             Settle, Find, Remove, Unmark, LockSet, RegisterInSet, CloseSet, registry
<1> QED BY <1>1, StepIsOnes DEF registry, vars

(* Only what was in the map stays there, and a maker that attaches.        *)
LEMMA MapOfChannels ==
    ASSUME PlacesInv, [Next]_vars, NEW ch \in DOMAIN channelTools'
    PROVE  \/ ch \in DOMAIN channelTools /\ channelTools'[ch] = channelTools[ch]
           \/ \E o \in Ops : /\ Attach(o) /\ channelTools'[ch] = o /\ op[o].channel = ch
                             /\ ch \notin DOMAIN channelTools
<1>1. ASSUME NEW o \in Ops, Attach(o)
      PROVE  \/ ch \in DOMAIN channelTools /\ channelTools'[ch] = channelTools[ch]
             \/ channelTools'[ch] = o /\ op[o].channel = ch /\ ch \notin DOMAIN channelTools
  <2>1. \/ channelTools' = channelTools
        \/ /\ op[o].channel \notin DOMAIN channelTools
           /\ channelTools' = MapPut(channelTools, op[o].channel, o)
        BY <1>1 DEF Attach
  <2> QED BY <2>1 DEF MapPut
<1>2. ASSUME NEW o \in Ops, Detach(o)
      PROVE  ch \in DOMAIN channelTools /\ channelTools'[ch] = channelTools[ch]
  <2>1. \/ channelTools' = channelTools
        \/ channelTools' = MapDrop(channelTools, {op[o].channel})
        BY <1>2 DEF Detach
  <2> QED BY <2>1 DEF MapDrop, Restrict
<1> QED BY <1>1, <1>2, ChannelSteps

LEMMA MakersKept == PlacesInv /\ MakersInv /\ [Next]_vars => MakersInv'
<1> SUFFICES ASSUME PlacesInv, MakersInv, [Next]_vars PROVE MakersInv'
    OBVIOUS
<1> DEFINE Was(i) == /\ i \in Ops /\ op'[i].kind = "channel_add"
                     /\ op'[i].pc \in {"lock_set", "register_set", "done", "failed"}
<1>1. \A i : Attached(i) => Was(i) /\ op'[i].channel = op[i].channel
      BY AttachedStays DEF Attached
<1>2. \A o \in Ops : Attach(o) => Was(o) /\ op'[o].channel = op[o].channel /\ ~Attached(o)
      BY GivenPlaces DEF Keeps, PlacesInv, OpsInv, Course, Attached
<1>3. ASSUME NEW ch \in DOMAIN channelTools'
      PROVE  Was(channelTools'[ch]) /\ op'[channelTools'[ch]].channel = ch
  <2>1. CASE ch \in DOMAIN channelTools /\ channelTools'[ch] = channelTools[ch]
        BY <1>1, <2>1 DEF MakersInv
  <2>2. ASSUME NEW o \in Ops, Attach(o), channelTools'[ch] = o, op[o].channel = ch
        PROVE  Was(channelTools'[ch]) /\ op'[channelTools'[ch]].channel = ch
        BY <1>2, <2>2
  <2> QED BY <2>1, <2>2, MapOfChannels
<1>4. ASSUME NEW o \in Ops, op'[o].set # NoOp
      PROVE  /\ Was(op'[o].set) /\ op'[op'[o].set].channel = op'[o].channel
             /\ op'[o].kind = "channel_remove" =>
                   \A ch \in DOMAIN channelTools' : channelTools'[ch] # op'[o].set
  <2>1. CASE op'[o].set = op[o].set /\ Keeps(o)
    <3>1. /\ Attached(op[o].set) /\ op[op[o].set].channel = op[o].channel
          /\ op[o].kind = "channel_remove" =>
                \A ch \in DOMAIN channelTools : channelTools[ch] # op[o].set
          BY <1>4, <2>1 DEF MakersInv
    <3>2. op[o].kind = "channel_remove" =>
              \A ch \in DOMAIN channelTools' : channelTools'[ch] # op[o].set
          BY <1>2, <3>1, MapOfChannels
    <3> QED BY <1>1, <2>1, <3>1, <3>2 DEF Keeps
  <2>2. CASE Attach(o)
    <3>1. /\ op'[o].kind = "channel_add" /\ op'[o].channel = op[o].channel
          /\ op'[o].set = channelTools'[op[o].channel]
          BY <1>2, <2>2, GivenPlaces DEF PlacesInv
    <3>2. op[o].channel \in DOMAIN channelTools'
          BY <2>2 DEF Attach, MapPut
    <3> QED BY <1>3, <3>1, <3>2
  <2>3. CASE Detach(o)
    <3>1. /\ op[o].channel \in DOMAIN channelTools /\ Keeps(o)
          /\ channelTools' = MapDrop(channelTools, {op[o].channel})
          /\ op'[o].set = channelTools[op[o].channel]
          BY <1>4, <2>3, GivenPlaces DEF Moved, PlacesInv, Ended
    <3>2. /\ Attached(op'[o].set) /\ op[op'[o].set].channel = op[o].channel
          BY <3>1 DEF MakersInv
    <3>3. /\ DOMAIN channelTools' = DOMAIN channelTools \ {op[o].channel}
          /\ \A ch \in DOMAIN channelTools' : channelTools'[ch] = channelTools[ch]
          BY <3>1 DEF MapDrop, Restrict
    <3>4. \A ch \in DOMAIN channelTools' : channelTools'[ch] # op'[o].set
          BY <3>2, <3>3 DEF MakersInv
    <3> QED BY <1>1, <3>1, <3>2, <3>4 DEF Keeps
  <2> QED BY <1>4, <2>1, <2>2, <2>3, SetSteps
<1>5. ASSUME NEW o \in Ops, NEW p \in Ops,
             op'[o].kind = "channel_add", op'[p].kind = "channel_add",
             op'[o].server = op'[p].server, op'[o].channel = op'[p].channel
      PROVE  o = p
  <2>1. CASE Begin(o) \/ Begin(p)
    <3>1. (Begin(o) => \A q \in Ops \ {o} : op'[q] = op[q])
          /\ (Begin(p) => \A q \in Ops \ {p} : op'[q] = op[q])
          BY Begins DEF Others, PlacesInv
    <3> QED BY <1>5, <2>1, <3>1, AddsDiffer
  <2>2. CASE ~Begin(o) /\ ~Begin(p)
    <3>1. (op'[o] = op[o] \/ Keeps(o)) /\ (op'[p] = op[p] \/ Keeps(p))
          BY <2>2, Onward
    <3> QED BY <1>5, <3>1 DEF Keeps, MakersInv
  <2> QED BY <2>1, <2>2
<1> QED BY <1>3, <1>4, <1>5 DEF MakersInv, Attached

-----------------------------------------------------------------------------
(* A request that brings tools to its set.                                 *)
SetType == [tools : SUBSET [key : Keys, client : Ops], servers : Maps(Servers, Ops)]

LEMMA SetChanges ==
    ASSUME [Next]_vars
    PROVE  \/ sets' = sets
           \/ \E o \in Ops : RegisterInSet(o) /\ ~Conflict(o)
<1>1. \A o \in Ops : Operate(o) /\ ~(RegisterInSet(o) /\ ~Conflict(o)) => sets' = sets
      BY ZenonT(40) DEF Operate, Mark, CheckName, Contact, Lock, GetToolsMu, GetServersMu, Register,
             Settle, Find, Remove, Unmark, Attach, Detach, LockSet, RegisterInSet, CloseSet,
             registry
<1> QED BY <1>1, StepIsOnes DEF registry, vars

LEMMA MapPutType ==
    ASSUME NEW S, NEW T, NEW f \in Maps(S, T), NEW k \in S, NEW v \in T
    PROVE  MapPut(f, k, v) \in Maps(S, T) /\ Range(MapPut(f, k, v)) \subseteq Range(f) \cup {v}
<1>1. PICK D \in SUBSET S : f \in [D -> T]
      BY DEF Maps
<1>2. MapPut(f, k, v) \in [D \cup {k} -> T]
      BY <1>1 DEF MapPut
<1>3. D \cup {k} \in SUBSET S
      OBVIOUS
<1>4. Range(MapPut(f, k, v)) \subseteq Range(f) \cup {v}
      BY <1>1 DEF MapPut, Range
<1> QED BY <1>2, <1>3, <1>4 DEF Maps

LEMMA Joins ==
    ASSUME PlacesInv, SetsInv, MakersInv, NEW o \in Ops, RegisterInSet(o), ~Conflict(o)
    PROVE  /\ Moved(o, "register_set", "done")
           /\ op[o].kind = "channel_add" /\ op[o].set \in Ops
           /\ Attached(op[o].set) /\ op[op[o].set].channel = op[o].channel
           /\ sets' \in [Ops -> SetType]
           /\ \A j \in Ops \ {op[o].set} : sets'[j] = sets[j]
           /\ sets'[op[o].set].tools =
                  sets[op[o].set].tools \cup {Entry(k, o) : k \in KeysOf(o)}
           /\ Range(sets'[op[o].set].servers) \subseteq
                  Range(sets[op[o].set].servers) \cup {o}
           /\ KeysOf(o) \subseteq Keys
           /\ \A k \in KeysOf(o) : k.chan = op[o].channel /\ k.server = op[o].server
<1> DEFINE i == op[o].set
           brought == {Entry(k, o) : k \in KeysOf(o)}
           put == MapPut(sets[i].servers, op[o].server, o)
           new == [[sets[i] EXCEPT !.tools = @ \cup brought] EXCEPT !.servers = put]
<1>1. Moved(o, "register_set", "done")
  <2>1. Move(o, "register_set", "done")
        BY DEF RegisterInSet
  <2> QED BY <2>1, Moves DEF PlacesInv, OpsInv, Pcs
<1>2. /\ op[o].pc = "register_set" /\ op[o].kind = "channel_add" /\ i \in Ops
      /\ op[o].server \in Servers
      BY <1>1 DEF Moved, PlacesInv, OpsInv, OpType, Course
<1>3. Attached(i) /\ op[i].channel = op[o].channel
      BY <1>2 DEF MakersInv
<1>4. /\ KeysOf(o) \subseteq Keys
      /\ \A k \in KeysOf(o) : k.chan = op[o].channel /\ k.server = op[o].server
      BY <1>2, KeysType
<1>5. brought \subseteq [key : Keys, client : Ops]
      BY <1>4 DEF Entry
<1>6. sets \in [Ops -> SetType] /\ sets[i] \in SetType
      BY <1>2 DEF SetsInv, SetType
<1>7. put \in Maps(Servers, Ops) /\ Range(put) \subseteq Range(sets[i].servers) \cup {o}
      BY <1>2, <1>6, MapPutType DEF SetType
<1>8. sets' = [sets EXCEPT ![i] = new]
      BY <1>2 DEF RegisterInSet
<1> HIDE DEF brought, put
<1>9. new \in SetType /\ new.tools = sets[i].tools \cup brought /\ new.servers = put
  <2>1. [sets[i] EXCEPT !.tools = @ \cup brought] \in SetType
        BY <1>5, <1>6 DEF SetType
  <2>2. new \in SetType
        BY <1>7, <2>1 DEF SetType
  <2> QED BY <1>6, <2>2 DEF SetType
<1> HIDE DEF new
<1>10. sets' \in [Ops -> SetType] /\ sets'[i] = new /\ \A j \in Ops \ {i} : sets'[j] = sets[j]
      BY <1>2, <1>6, <1>8, <1>9
<1> QED BY <1>1, <1>2, <1>3, <1>4, <1>7, <1>9, <1>10 DEF brought

(* A request that has ended stays as it is.                                *)
LEMMA DoneStays ==
    ASSUME PlacesInv, [Next]_vars, NEW p \in Ops, op[p].pc = "done"
    PROVE  op'[p] = op[p]
BY Onward

LEMMA SetsKept == PlacesInv /\ SetsInv /\ MakersInv /\ [Next]_vars => SetsInv'
<1> SUFFICES ASSUME PlacesInv, SetsInv, MakersInv, [Next]_vars PROVE SetsInv'
    OBVIOUS
<1> DEFINE Was(i) == /\ i \in Ops /\ op'[i].kind = "channel_add"
                     /\ op'[i].pc \in {"lock_set", "register_set", "done", "failed"}
           Joined2(i) == {e.client : e \in sets'[i].tools} \cup Range(sets'[i].servers)
           Sound(i) ==
              /\ \A x \in Joined2(i) : op'[x].kind = "channel_add" /\ op'[x].pc = "done"
              /\ \A e \in sets'[i].tools :
                    /\ e.key.chan = op'[e.client].channel
                    /\ e.key.server = op'[e.client].server
                    /\ op'[e.client].channel = op'[i].channel
              /\ sets'[i].tools # {} => Was(i)
<1>1. \A i \in Ops : Joined(i) \subseteq Ops /\ \A x \in Joined(i) : op'[x] = op[x]
  <2> TAKE i \in Ops
  <2>1. sets[i] \in SetType
        BY DEF SetsInv, SetType
  <2>2. Joined(i) \subseteq Ops
        BY <2>1 DEF SetType, Joined, Range, Maps
  <2> QED BY <2>2, DoneStays DEF SetsInv
<1>2. \A i \in Ops : Attached(i) => Was(i) /\ op'[i].channel = op[i].channel
      BY AttachedStays DEF Attached
<1>3. ASSUME NEW i \in Ops, sets'[i] = sets[i]
      PROVE  Sound(i) /\ Joined2(i) = Joined(i)
  <2>1. Joined2(i) = Joined(i)
        BY <1>3 DEF Joined
  <2>2. \A e \in sets[i].tools : e.client \in Joined(i)
        BY DEF Joined
  <2>3. \A e \in sets[i].tools : op'[e.client] = op[e.client]
        BY <1>1, <2>2
  <2>4. sets[i].tools # {} => Attached(i)
        BY DEF SetsInv
  <2>5. \A x \in Joined2(i) : op'[x].kind = "channel_add" /\ op'[x].pc = "done"
        BY <1>1, <2>1 DEF SetsInv
  <2>6. \A e \in sets'[i].tools :
              /\ e.key.chan = op'[e.client].channel
              /\ e.key.server = op'[e.client].server
              /\ op'[e.client].channel = op'[i].channel
        BY <1>2, <1>3, <2>3, <2>4 DEF SetsInv
  <2> QED BY <1>2, <1>3, <2>1, <2>4, <2>5, <2>6
<1>4. ASSUME sets' \in [Ops -> SetType], \A i \in Ops : Sound(i),
             \A i, j \in Ops : i # j => Joined2(i) \cap Joined2(j) = {}
      PROVE  SetsInv'
  <2>1. \A i \in Ops : Was(i) = Attached(i)' /\ Joined2(i) = Joined(i)'
        BY DEF Attached, Joined
  <2> HIDE DEF Was, Joined2
  <2> QED BY <1>4, <2>1 DEF SetsInv, SetType
<1> HIDE DEF Sound
<1>6. CASE sets' = sets
  <2>1. \A i, j \in Ops : i # j => Joined2(i) \cap Joined2(j) = {}
        BY <1>3, <1>6 DEF SetsInv
  <2>2. sets' \in [Ops -> SetType]
        BY <1>6 DEF SetsInv, SetType
  <2> HIDE DEF Joined2
  <2> QED BY <1>3, <1>4, <1>6, <2>1, <2>2
<1>5. ASSUME NEW o \in Ops, RegisterInSet(o), ~Conflict(o) PROVE SetsInv'
  <2> DEFINE i == op[o].set
  <2>1. /\ Moved(o, "register_set", "done")
        /\ op[o].kind = "channel_add" /\ i \in Ops
        /\ Attached(i) /\ op[i].channel = op[o].channel
        /\ sets' \in [Ops -> SetType]
        /\ \A j \in Ops \ {i} : sets'[j] = sets[j]
        /\ sets'[i].tools = sets[i].tools \cup {Entry(k, o) : k \in KeysOf(o)}
        /\ Range(sets'[i].servers) \subseteq Range(sets[i].servers) \cup {o}
        /\ \A k \in KeysOf(o) : k.chan = op[o].channel /\ k.server = op[o].server
        BY <1>5, Joins
  <2>2. op'[o].kind = "channel_add" /\ op'[o].pc = "done" /\ op'[o].channel = op[o].channel
        /\ op'[o].server = op[o].server /\ op[o].pc = "register_set"
        BY <2>1 DEF Moved, Keeps
  <2> HIDE DEF i
  <2>3. Joined2(i) \subseteq Joined(i) \cup {o}
        BY <2>1 DEF Joined, Entry
  <2>4. \A j \in Ops : o \notin Joined(j)
        BY <2>2 DEF SetsInv
  <2>5. Sound(i)
    <3>1. \A x \in Joined2(i) : op'[x].kind = "channel_add" /\ op'[x].pc = "done"
          BY <1>1, <2>1, <2>2, <2>3 DEF SetsInv
    <3>2. \A e \in sets'[i].tools :
              e \in sets[i].tools \/ (e.client = o /\ e.key \in KeysOf(o))
          BY <2>1 DEF Entry
    <3>3. \A e \in sets[i].tools : op'[e.client] = op[e.client]
          BY <1>1, <2>1 DEF Joined
    <3>4. \A e \in sets'[i].tools :
              /\ e.key.chan = op'[e.client].channel
              /\ e.key.server = op'[e.client].server
              /\ op'[e.client].channel = op'[i].channel
          BY <1>2, <2>1, <2>2, <3>2, <3>3 DEF SetsInv
    <3> QED BY <1>2, <2>1, <3>1, <3>4 DEF Sound
  <2> HIDE DEF Joined2
  <2>6. \A j \in Ops : Sound(j)
        BY <1>3, <2>1, <2>5
  <2>7. \A j \in Ops \ {i} : Joined2(j) = Joined(j)
        BY <1>3, <2>1
  <2>8. \A j, k \in Ops : j # k => Joined2(j) \cap Joined2(k) = {}
        BY <2>1, <2>3, <2>4, <2>7 DEF SetsInv
  <2> QED BY <1>4, <2>1, <2>6, <2>8
<1> QED BY <1>5, <1>6, SetChanges

-----------------------------------------------------------------------------
(* When connections are made and closed.                                   *)
LEMMA OpenSteps ==
    ASSUME [Next]_vars
    PROVE  \/ open' = open
           \/ \E o \in Ops : Contact(o) /\ open' = open \cup {o}
           \/ \E o \in Ops : Register(o) /\ Conflict(o)
           \/ \E o \in Ops : RegisterInSet(o) /\ Conflict(o)
           \/ \E o \in Ops : Find(o) /\ op[o].server \in DOMAIN servers
           \/ \E o \in Ops : CloseSet(o)
<1>1. ASSUME NEW o \in Ops, Operate(o), ~CloseSet(o),
             ~(Contact(o) /\ open' = open \cup {o}),
             ~(Register(o) /\ Conflict(o)), ~(RegisterInSet(o) /\ Conflict(o)),
             ~(Find(o) /\ op[o].server \in DOMAIN servers)
      PROVE  open' = open
      BY <1>1 DEF Operate, Mark, CheckName, Contact, Lock, GetToolsMu, GetServersMu,
             Register, Settle, Find, Remove, Unmark, Attach, LockSet, RegisterInSet, Detach,
             CloseSet, registry
<1> QED BY <1>1, StepIsOnes DEF registry, vars

(* A request that leaves its server's tools to be removed removes them, or *)
(* nobody changes the servers meanwhile.                                   *)
LEMMA LeavingOn ==
    ASSUME PlacesInv, LocksInv, [Next]_vars, NEW p \in Ops, op[p].pc = "remove"
    PROVE  Remove(p) \/ (op'[p] = op[p] /\ servers' = servers)
<1>1. writer = p
      BY DEF LocksInv
<1>2. CASE op'[p] = op[p]
  <2>1. op'[p].pc \in Held
        BY <1>2 DEF Held
  <2> QED BY <1>1, <1>2, <2>1, LockSteps
<1>3. Operate(p) => Remove(p)
      BY Places, GivenPlaces DEF Operate, Moved, PlacesInv
<1> QED BY <1>2, <1>3, Onward

LEMMA BegunPlace ==
    ASSUME PlacesInv, NEW p \in Ops, Begin(p)
    PROVE  op'[p].pc \in {"check", "mark", "contact", "detach"} \/ op'[p].kind = "deactivate"
<1>1. PICK kind \in Kinds, s \in Servers, ch \in Channels \cup {NoChan} :
          op' = [op EXCEPT ![p] = Begun(p, kind, s, ch)]
      BY DEF Begin, Begun
<1>2. op'[p].pc = FirstStep(kind) /\ op'[p].kind = kind
      BY <1>1, BegunType DEF OpsInv, PlacesInv
<1> QED BY <1>2 DEF FirstStep, Kinds

LEMMA PendingOn ==
    ASSUME PlacesInv, [Next]_vars, NEW p \in Ops, Pending(p)'
    PROVE  Pending(p) \/ (p \in open' /\ Contact(p))
<1> USE DEF PlacesInv
<1>1. CASE op'[p] = op[p]
      BY <1>1 DEF Pending
<1>2. CASE Begin(p)
      BY <1>2, BegunPlace DEF Pending, Clashing
<1>3. CASE Operate(p)
  <2>1. Course(p) /\ Course(p)' /\ Keeps(p)
        BY <1>3, OpSteps DEF OpsInv
  <2>2. CASE Contact(p)
    <3>1. CASE op'[p].pc = "failed"
          BY <3>1 DEF Pending
    <3>2. CASE open' = open \cup {p}
          BY <2>2, <3>2
    <3> QED BY <2>2, <3>1, <3>2, GivenPlaces DEF Moved
  <2>3. CASE Mark(p) \/ CheckName(p) \/ Lock(p) \/ GetToolsMu(p) \/ GetServersMu(p)
        BY <2>1, <2>3, Places DEF Moved, Pending, Keeps, Course, Clashing
  <2>4. CASE Register(p) \/ Settle(p) \/ Find(p) \/ Remove(p) \/ Unmark(p)
        BY <2>1, <2>4, Places DEF Moved, Pending, Keeps, Course, Clashing
  <2>5. CASE Attach(p) \/ LockSet(p) \/ RegisterInSet(p) \/ CloseSet(p)
        BY <2>1, <2>5, Places, GivenPlaces DEF Moved, Pending, Keeps, Course, Clashing
  <2>6. CASE Detach(p)
        BY <2>1, <2>6, GivenPlaces DEF Moved, Pending, Keeps, Course, Clashing
  <2> QED BY <1>3, <2>2, <2>3, <2>4, <2>5, <2>6 DEF Operate
<1> QED BY <1>1, <1>2, <1>3, Onward

(* Whose connection is closed waits for nothing, and what it served is on  *)
(* its way out or is in nobody's list.                                     *)
LEMMA Closings ==
    ASSUME PlacesInv, ToolsInv, ServersInv, LocksInv, SetsInv, MakersInv, [Next]_vars,
           NEW x \in open, x \notin open'
    PROVE  /\ x \in Ops => ~Pending(x)'
           /\ \A e \in tools : e.client = x => Leaving(e.key)'
           /\ sets' = sets /\ channelTools' = channelTools
           /\ \A ch \in DOMAIN channelTools : \A e \in sets[channelTools[ch]].tools : e.client # x
<1>1. \A e \in tools : e.client = Self \/ Settled(e.client)
      BY DEF ToolsInv
<1>2. \A ch \in DOMAIN channelTools : channelTools[ch] \in Ops
      BY DEF PlacesInv, ChannelsOK
<1>3. \A i \in Ops : \A e \in sets[i].tools : e.client \in Joined(i)
      BY DEF Joined
<1>4. \A i \in Ops : \A y \in Joined(i) : y \in Ops /\ op[y].kind = "channel_add" /\ op[y].pc = "done"
  <2> TAKE i \in Ops
  <2>1. sets[i] \in SetType
        BY DEF SetsInv, SetType
  <2> QED BY <2>1 DEF SetsInv, SetType, Joined, Range, Maps
<1>5. ASSUME NEW o \in Ops, (Register(o) \/ RegisterInSet(o)) /\ Conflict(o)
      PROVE  /\ x = o /\ o \in Ops /\ op'[o].pc = "failed" /\ ~Settled(o)
             /\ op[o].pc # "done" /\ sets' = sets /\ channelTools' = channelTools
  <2>1. /\ open' = open \ {o} /\ sets' = sets /\ channelTools' = channelTools
        /\ Move(o, "register", "failed") \/ Move(o, "register_set", "failed")
        BY <1>5 DEF Register, RegisterInSet
  <2> QED BY <2>1, Moves DEF Moved, Pcs, Settled, Registered, PlacesInv, OpsInv
<1>6. ASSUME NEW o \in Ops, (Register(o) \/ RegisterInSet(o)) /\ Conflict(o)
      PROVE  /\ x \in Ops => ~Pending(x)'
             /\ \A e \in tools : e.client = x => Leaving(e.key)'
             /\ \A ch \in DOMAIN channelTools :
                   \A e \in sets[channelTools[ch]].tools : e.client # x
  <2>1. x \in Ops => ~Pending(x)'
        BY <1>5, <1>6 DEF Pending
  <2>2. \A e \in tools : e.client # x
        BY <1>1, <1>5, <1>6
  <2>3. \A ch \in DOMAIN channelTools : \A e \in sets[channelTools[ch]].tools : e.client # x
        BY <1>2, <1>3, <1>4, <1>5, <1>6
  <2> QED BY <2>1, <2>2, <2>3
<1>7. ASSUME NEW o \in Ops, Find(o), op[o].server \in DOMAIN servers
      PROVE  /\ x \in Ops => ~Pending(x)'
             /\ \A e \in tools : e.client = x => Leaving(e.key)'
             /\ sets' = sets /\ channelTools' = channelTools
             /\ \A ch \in DOMAIN channelTools :
                   \A e \in sets[channelTools[ch]].tools : e.client # x
  <2>1. /\ open' = open \ {servers[op[o].server].client}
        /\ Move(o, "find", "remove")
        /\ sets' = sets /\ channelTools' = channelTools /\ servers' = servers
        BY <1>7 DEF Find
  <2>2. op'[o].pc = "remove" /\ op'[o].server = op[o].server
        BY <2>1, Moves DEF Moved, Pcs, Keeps, PlacesInv, OpsInv
  <2>3. x = servers[op[o].server].client /\ Settled(x)
        BY <1>7, <2>1 DEF ServersInv
  <2>4. x \in Ops => ~Pending(x)'
    <3>1. x \in Ops /\ op'[x].kind \in Clashing /\ op'[x].pc \in Registered
          BY <2>3, SettledStays DEF Settled
    <3> QED BY <3>1 DEF Pending, Registered, Clashing
  <2>5. \A e \in tools : e.client = x => e.key \in servers'[op'[o].server].keys
        BY <1>7, <2>1, <2>2, <2>3 DEF ServersInv
  <2>6. \A e \in tools : e.client = x => Leaving(e.key)'
        BY <2>2, <2>5 DEF Leaving
  <2>7. \A ch \in DOMAIN channelTools : \A e \in sets[channelTools[ch]].tools : e.client # x
        BY <1>2, <1>3, <1>4, <2>3 DEF Settled, Clashing
  <2> QED BY <2>1, <2>4, <2>6, <2>7
<1>8. ASSUME NEW o \in Ops, CloseSet(o)
      PROVE  /\ x \in Ops => ~Pending(x)'
             /\ \A e \in tools : e.client = x => Leaving(e.key)'
             /\ sets' = sets /\ channelTools' = channelTools
             /\ \A ch \in DOMAIN channelTools :
                   \A e \in sets[channelTools[ch]].tools : e.client # x
  <2>1. /\ x \in Range(sets[op[o].set].servers)
        /\ sets' = sets /\ channelTools' = channelTools
        BY <1>8 DEF CloseSet
  <2>2. /\ op[o].pc = "close_set" /\ op[o].kind = "channel_remove" /\ op[o].set \in Ops
        BY <1>8, Places DEF Moved, PlacesInv, OpsInv, Course, OpType
  <2>3. x \in Joined(op[o].set)
        BY <2>1 DEF Joined
  <2>4. x \in Ops /\ op[x].kind = "channel_add" /\ op[x].pc = "done"
        BY <1>4, <2>2, <2>3
  <2>5. ~Pending(x)'
        BY <2>4, DoneStays DEF Pending, Clashing
  <2>6. \A e \in tools : e.client # x
        BY <1>1, <2>4 DEF Settled, Clashing
  <2>7. \A ch \in DOMAIN channelTools : channelTools[ch] # op[o].set
        BY <2>2 DEF MakersInv
  <2>8. \A ch \in DOMAIN channelTools : x \notin Joined(channelTools[ch])
        BY <1>2, <2>2, <2>3, <2>7 DEF SetsInv
  <2>9. \A ch \in DOMAIN channelTools : \A e \in sets[channelTools[ch]].tools : e.client # x
        BY <1>2, <1>3, <2>8
  <2> QED BY <2>1, <2>5, <2>6, <2>9
<1> QED BY <1>5, <1>6, <1>7, <1>8, OpenSteps

LEMMA OpenKept ==
    /\ PlacesInv /\ ToolsInv /\ ServersInv /\ LocksInv /\ SetsInv /\ MakersInv
    /\ OpenInv /\ [Next]_vars
    => OpenInv'
<1> SUFFICES ASSUME PlacesInv, ToolsInv, ServersInv, LocksInv, SetsInv, MakersInv,
                    OpenInv, [Next]_vars
             PROVE  OpenInv'
    OBVIOUS
<1>1. \A o \in Ops : Pending(o) => o \in open
      BY DEF OpenInv
<1>2. open' \subseteq Ops
      BY OpenSteps DEF OpenInv, Register, RegisterInSet, Find, CloseSet
<1>3. ASSUME NEW p \in Ops, Pending(p)' PROVE p \in open'
      BY <1>1, <1>3, PendingOn, Closings
<1>4. ASSUME NEW e \in tools' PROVE e.client \in open' \cup {Self} \/ Leaving(e.key)'
  <2>1. CASE e \in tools /\ Leaving(e.key)
    <3>1. PICK p \in Ops : op[p].pc = "remove" /\ e.key \in servers[op[p].server].keys
          BY <2>1 DEF Leaving
    <3>2. CASE Remove(p)
      <4>1. e.key \notin servers[op[p].server].keys
            BY <3>2 DEF Remove
      <4> QED BY <3>1, <4>1
    <3>3. CASE op'[p] = op[p] /\ servers' = servers
          BY <3>1, <3>3 DEF Leaving
    <3> QED BY <3>1, <3>2, <3>3, LeavingOn
  <2>2. CASE e \in tools /\ e.client \in open
        BY <2>2, Closings
  <2>3. CASE e \notin tools
    <3>1. PICK o \in Ops : Register(o) /\ ~Conflict(o)
          BY <1>4, <2>3, MapsSteps DEF Remove
    <3>2. e.client = o /\ open' = open
          BY <1>4, <2>3, <3>1 DEF Register, Entry
    <3>3. Pending(o)
          BY <3>1, Places DEF Moved, Pending, PlacesInv, OpsInv, Course
    <3> QED BY <1>1, <3>2, <3>3
  <2> QED BY <2>1, <2>2, <2>3 DEF OpenInv
<1>5. ASSUME NEW ch \in DOMAIN channelTools', NEW e \in sets'[channelTools'[ch]].tools
      PROVE  e.client \in open'
  <2>1. ASSUME NEW o \in Ops, Attach(o), channelTools'[ch] = o PROVE FALSE
    <3>1. sets' = sets
          BY <2>1 DEF Attach
    <3>2. ~Attached(o)
          BY <2>1, GivenPlaces DEF PlacesInv, Attached
    <3> QED BY <2>1, <3>1, <3>2 DEF SetsInv
  <2>2. CASE ch \in DOMAIN channelTools /\ channelTools'[ch] = channelTools[ch]
    <3>1. CASE e \in sets[channelTools[ch]].tools
          BY <2>2, <3>1, Closings DEF OpenInv
    <3>2. CASE e \notin sets[channelTools[ch]].tools
      <4>1. PICK o \in Ops : RegisterInSet(o) /\ ~Conflict(o)
            BY <1>5, <2>2, <3>2, SetChanges
      <4>2. channelTools[ch] \in Ops
            BY <2>2 DEF PlacesInv, ChannelsOK
      <4>3. e.client = o
            BY <2>2, <3>2, <4>1, <4>2, Joins DEF Entry
      <4>4. Pending(o) /\ open' = open
            BY <4>1, Joins DEF Moved, Pending, RegisterInSet
      <4> QED BY <1>1, <4>3, <4>4
    <3> QED BY <3>1, <3>2
  <2> QED BY <2>1, <2>2, MapOfChannels
<1> QED BY <1>2, <1>3, <1>4, <1>5 DEF OpenInv

-----------------------------------------------------------------------------
(* What a call does to its own place.                                      *)
CallType == [pc : CallPcs, key : Keys, registered : BOOLEAN, source : Sources, ctx : Contexts]

LEMMA NoCallType == NoCall \in CallType /\ KBCreate \in Keys
<1>1. KBSearch \in Keys /\ KBCreate \in Keys
      BY DEF Keys
<1>2. [keeper |-> FALSE, channel |-> NoChan] \in Contexts
      BY DEF Contexts
<1> QED BY <1>1, <1>2 DEF NoCall, CallType, CallPcs, Sources

Went(c, from, to) ==
    /\ call' \in [Callers -> CallType]
    /\ \A d \in Callers \ {c} : call'[d] = call[d]
    /\ call[c].pc = from /\ call'[c].pc = to
    /\ to # "done" => call'[c].key = call[c].key /\ call'[c].ctx = call[c].ctx

LEMMA Goes ==
    ASSUME call \in [Callers -> CallType], NEW c \in Callers, NEW from, NEW to \in CallPcs,
           Step(c, from, to)
    PROVE  Went(c, from, to)
<1>1. call[c] \in CallType
      OBVIOUS
<1>2. CASE to = "done"
  <2>1. [NoCall EXCEPT !.pc = to] \in CallType /\ [NoCall EXCEPT !.pc = to].pc = to
        BY NoCallType DEF CallType
  <2>2. call' = [call EXCEPT ![c] = [NoCall EXCEPT !.pc = to]]
        BY <1>2 DEF Step
  <2> QED BY <1>2, <2>1, <2>2 DEF Went, Step
<1>3. CASE to # "done"
  <2> DEFINE new == [call[c] EXCEPT !.pc = to]
  <2>1. new \in CallType /\ new.pc = to /\ new.key = call[c].key /\ new.ctx = call[c].ctx
        BY <1>1 DEF CallType
  <2>2. call' = [call EXCEPT ![c] = new]
        BY <1>3 DEF Step
  <2> HIDE DEF new
  <2> QED BY <2>1, <2>2 DEF Went, Step
<1> QED BY <1>2, <1>3

(* The tools of a channel's set are named for the channel.                 *)
LEMMA OwnersOwn ==
    ASSUME PlacesInv, SetsInv, MakersInv, NEW k, NEW ch \in OwnerOf(k)
    PROVE  k.chan = ch
<1>1. ch \in DOMAIN channelTools
      BY DEF OwnerOf
<1>2. PICK e \in sets[channelTools[ch]].tools : e.key = k
      BY <1>1 DEF OwnerOf, ToolsOf
<1>3. channelTools[ch] \in Ops /\ op[channelTools[ch]].channel = ch
      BY <1>1 DEF PlacesInv, ChannelsOK, MakersInv
<1> QED BY <1>2, <1>3 DEF SetsInv

(* A call that is decided was its caller's to make.                        *)
LEMMA Decided ==
    ASSUME PlacesInv, SetsInv, MakersInv, CallsInv, NEW c \in Callers, Decide(c)
    PROVE  \/ Went(c, "policy", "done")
           \/ Theirs(c) /\ \E to \in {"global", "channel"} : Went(c, "policy", to)
<1> DEFINE k == call[c].key
           source == IF call[c].source # "" THEN call[c].source
                     ELSE IF OwnerOf(k) # {} THEN "mcp-channel" ELSE ""
           allowed == Allows(source, k, call[c].ctx)
<1>1. call \in [Callers -> CallType] /\ call[c].pc = "policy"
      BY DEF CallsInv, CallType, Decide, Step
<1>2. \/ Step(c, "policy", "done")
      \/ allowed /\ \E to \in {"global", "channel"} : Step(c, "policy", to)
      BY DEF Decide
<1>3. ASSUME allowed PROVE Theirs(c)
  <2>1. CASE call[c].source # ""
    <3>1. k.chan = NoChan /\ source = call[c].source
          BY <1>1, <2>1 DEF CallsInv
    <3>2. k = KBCreate => source = "builtin-keeper"
          BY <1>1, <3>1 DEF CallsInv
    <3> QED BY <1>3, <3>1, <3>2 DEF Allows, Theirs
  <2>2. CASE call[c].source = ""
    <3>1. k # KBCreate
          BY <1>1, <2>2 DEF CallsInv
    <3>2. call[c].ctx.channel \in OwnerOf(k)
          BY <1>3, <2>2 DEF Allows
    <3> QED BY <3>1, <3>2, OwnersOwn DEF Theirs
  <2> QED BY <2>1, <2>2
<1> QED BY <1>1, <1>2, <1>3, Goes DEF CallPcs

(* What is asked for while the policy is read.                             *)
LEMMA Asked ==
    ASSUME ToolsInv, CallsInv, NEW c \in Callers, Ask(c)
    PROVE  /\ call' \in [Callers -> CallType]
           /\ \A d \in Callers \ {c} : call'[d] = call[d]
           /\ call'[c].pc = "policy"
           /\ call'[c].key = KBCreate => call'[c].source = "builtin-keeper"
           /\ call'[c].source # "" => call'[c].key.chan = NoChan
<1>1. PICK ctx \in Contexts, k \in Keys :
        call' = [call EXCEPT ![c] = [pc |-> "policy", ctx |-> ctx, key |-> k,
                    registered |-> k \in DOMAIN invokers \/ \E e \in tools : e.key = k,
                    source |-> IF k \in DOMAIN categories THEN categories[k] ELSE ""]]
      BY DEF Ask
<1> DEFINE source == IF k \in DOMAIN categories THEN categories[k] ELSE ""
           registered == k \in DOMAIN invokers \/ \E e \in tools : e.key = k
           new == [pc |-> "policy", ctx |-> ctx, key |-> k, registered |-> registered,
                   source |-> source]
<1>2. source \in Sources
      BY DEF ToolsInv, Sources
<1>3. k \in DOMAIN categories => k.chan = NoChan
      BY DEF ToolsInv
<1>4. k = KBCreate => source = "builtin-keeper"
      BY DEF ToolsInv
<1>5. source # "" => k.chan = NoChan
      BY <1>3
<1>6. registered \in BOOLEAN
      OBVIOUS
<1>7. call' = [call EXCEPT ![c] = new]
      BY <1>1
<1> HIDE DEF source, registered
<1>8. new \in CallType /\ new.pc = "policy" /\ new.key = k /\ new.source = source
      BY <1>2, <1>6 DEF CallType, CallPcs
<1> HIDE DEF new
<1>9. call \in [Callers -> CallType]
      BY DEF CallsInv, CallType
<1> QED BY <1>4, <1>5, <1>7, <1>8, <1>9

LEMMA CallsKept ==
    PlacesInv /\ ToolsInv /\ SetsInv /\ MakersInv /\ CallsInv /\ [Next]_vars => CallsInv'
<1> SUFFICES ASSUME PlacesInv, ToolsInv, SetsInv, MakersInv, CallsInv, [Next]_vars
             PROVE  CallsInv'
    OBVIOUS
<1> DEFINE Fine(c) ==
              /\ call'[c].pc = "policy" =>
                    /\ call'[c].key = KBCreate => call'[c].source = "builtin-keeper"
                    /\ call'[c].source # "" => call'[c].key.chan = NoChan
              /\ call'[c].pc \in {"global", "channel", "running", "locked"} =>
                    /\ call'[c].key = KBCreate => call'[c].ctx.keeper
                    /\ call'[c].key.chan \in {NoChan, call'[c].ctx.channel}
<1>1. \A c \in Callers : call'[c] = call[c] => Fine(c)
      BY DEF CallsInv, Theirs
<1>2. call \in [Callers -> CallType]
      BY DEF CallsInv, CallType
<1>3. ASSUME call' \in [Callers -> CallType], NEW c \in Callers, Fine(c),
             \A d \in Callers \ {c} : call'[d] = call[d]
      PROVE  CallsInv'
      BY <1>1, <1>3 DEF CallsInv, CallType, Theirs
<1>4. ASSUME NEW c \in Callers, NEW from \in {"channel", "global", "running", "locked"},
             NEW to \in {"global", "running", "locked", "done"}, Step(c, from, to)
      PROVE  CallsInv'
  <2>1. Went(c, from, to)
        BY <1>2, <1>4, Goes DEF CallPcs
  <2>2. Theirs(c)
        BY <2>1 DEF CallsInv, Went
  <2>3. Fine(c)
        BY <2>1, <2>2 DEF Went, Theirs
  <2> QED BY <1>3, <2>1, <2>3 DEF Went
<1>5. ASSUME NEW c \in Callers, Ask(c) PROVE CallsInv'
      BY <1>3, <1>5, Asked
<1>6. ASSUME NEW c \in Callers, Decide(c) PROVE CallsInv'
  <2>1. PICK to \in {"global", "channel", "done"} :
            Went(c, "policy", to) /\ (to # "done" => Theirs(c))
        BY <1>6, Decided
  <2>2. Fine(c)
        BY <2>1 DEF Went, Theirs
  <2> QED BY <1>3, <2>1, <2>2 DEF Went
<1>7. ASSUME NEW c \in Callers, InvokeChannel(c) PROVE CallsInv'
  <2>1. PICK to \in {"running", "global"} : Step(c, "channel", to)
        BY <1>7 DEF InvokeChannel
  <2> QED BY <1>4, <2>1
<1>8. ASSUME NEW c \in Callers, InvokeGlobal(c) PROVE CallsInv'
  <2>1. PICK to \in {"locked", "done"} : Step(c, "global", to)
        BY <1>8 DEF InvokeGlobal
  <2> QED BY <1>4, <2>1
<1>9. ASSUME NEW c \in Callers, Return(c) PROVE CallsInv'
  <2>1. PICK from \in {"running", "locked"} : Step(c, from, "done")
        BY <1>9 DEF Return
  <2> QED BY <1>4, <2>1
<1>10. CASE call' = call
      BY <1>10 DEF CallsInv, Theirs
<1> QED BY <1>5, <1>6, <1>7, <1>8, <1>9, <1>10, StepIsOnes DEF vars, Invoke

-----------------------------------------------------------------------------
(* The registry starts with its built-in tools, and nobody in it.          *)
LEMMA InitMaps == Init => ToolsInv /\ ServersInv
<1> SUFFICES ASSUME Init PROVE ToolsInv /\ ServersInv
    OBVIOUS
<1>1. /\ tools = {Entry(KBSearch, Self), Entry(KBCreate, Self)}
      /\ invokers = [k \in {KBSearch, KBCreate} |-> Self]
      /\ categories = [k \in {KBSearch, KBCreate} |->
                          IF k = KBSearch THEN "builtin-public" ELSE "builtin-keeper"]
      BY DEF Init
<1>2. /\ KBSearch \in Keys /\ KBCreate \in Keys /\ KBSearch # KBCreate
      /\ KBSearch.chan = NoChan /\ KBCreate.chan = NoChan
      BY DEF Keys, KBSearch, KBCreate, Key
<1>3. /\ tools \subseteq [key : Keys, client : Clients]
      /\ \A e \in tools : e.key.chan = NoChan /\ e.client = Self
      /\ \A e, f \in tools : e.key = f.key => e = f
      BY <1>1, <1>2 DEF Entry, Clients
<1>4. {e.key : e \in tools} = {KBSearch, KBCreate}
      BY <1>1 DEF Entry
<1>5. /\ DOMAIN invokers = {KBSearch, KBCreate} /\ DOMAIN categories = {KBSearch, KBCreate}
      /\ \A k \in DOMAIN categories : categories[k] \in Sources
      /\ categories[KBCreate] = "builtin-keeper"
      BY <1>1, <1>2 DEF Sources
<1>6. ToolsInv
      BY <1>3, <1>4, <1>5 DEF ToolsInv
<1>7. servers = <<>>
      BY DEF Init
<1> QED BY <1>6, <1>7, EmptyMap DEF ServersInv

LEMMA InitRest == Init => LocksInv /\ SetsInv /\ MakersInv /\ OpenInv /\ CallsInv
<1> SUFFICES ASSUME Init PROVE LocksInv /\ SetsInv /\ MakersInv /\ OpenInv /\ CallsInv
    OBVIOUS
<1>1. /\ \A o \in Ops : /\ op[o].pc = "new" /\ op[o].kind = "load" /\ op[o].set = NoOp
      BY DEF Init
<1>2. channelTools = <<>> /\ DOMAIN channelTools = {}
      BY EmptyMap DEF Init
<1>3. LocksInv
      BY <1>1 DEF Init, LocksInv
<1>4. \A i \in Ops : sets[i] = EmptySet
      BY DEF Init
<1>5. EmptySet.tools = {} /\ EmptySet.servers = <<>>
      BY DEF EmptySet
<1>6. <<>> \in Maps(Servers, Ops) /\ Range(<<>>) = {}
      BY EmptyMap DEF Maps, Range
<1>7. EmptySet \in SetType
      BY <1>6 DEF EmptySet, SetType
<1>8. sets \in [Ops -> SetType]
      BY <1>7 DEF Init
<1>9. \A i \in Ops : Joined(i) = {}
      BY <1>4, <1>5, <1>6 DEF Joined
<1>10. SetsInv
      BY <1>4, <1>5, <1>8, <1>9 DEF SetsInv, SetType
<1>11. MakersInv
      BY <1>1, <1>2 DEF MakersInv
<1>12. OpenInv
      BY <1>1, <1>2 DEF Init, OpenInv, Pending, Entry
<1>13. CallsInv
  <2>1. call = [c \in Callers |-> NoCall] /\ NoCall.pc = "new"
        BY DEF Init, NoCall
  <2> HIDE DEF NoCall
  <2> QED BY <2>1, NoCallType DEF CallsInv, CallType
<1> QED BY <1>3, <1>10, <1>11, <1>12, <1>13

RegistryInv ==
    /\ PlacesInv /\ ToolsInv /\ ServersInv /\ LocksInv /\ SetsInv /\ MakersInv
    /\ OpenInv /\ CallsInv

LEMMA RegistryKept == Spec => []RegistryInv
<1>1. Init => RegistryInv
      BY InitOps, InitMaps, InitRest DEF RegistryInv, PlacesInv
<1>2. RegistryInv /\ [Next]_vars => RegistryInv'
      BY PlacesStay, MapsKept, LocksKept, SetsKept, MakersKept, OpenKept, CallsKept
      DEF RegistryInv
<1> QED BY <1>1, <1>2, PTL DEF Spec

(* Every variable has its type, and a global tool has an invoker and a     *)
(* category (registry.go:396-405).                                         *)
THEOREM TypeCorrect == Spec => []TypeOK
<1>1. RegistryInv => TypeOK
  <2> SUFFICES ASSUME RegistryInv PROVE TypeOK
      OBVIOUS
  <2>1. /\ tools \subseteq [key : Keys, client : Clients]
        /\ DOMAIN invokers = DOMAIN categories
        /\ {e.key : e \in tools} = DOMAIN invokers
        /\ DOMAIN servers \subseteq Servers
        BY DEF RegistryInv, ToolsInv, ServersInv
  <2>2. DOMAIN invokers \subseteq Keys
        BY <2>1
  <2>3. Range(categories) \subseteq Sources
        BY DEF RegistryInv, ToolsInv, Range
  <2>4. DOMAIN channelTools \subseteq Channels /\ Range(channelTools) \subseteq Ops
        BY DEF RegistryInv, PlacesInv, ChannelsOK, Range
  <2>5. /\ open \subseteq Ops /\ readers \subseteq Callers /\ waiting \subseteq Ops
        /\ writer \in Ops \cup {NoOp} /\ serversMu \in Ops \cup {NoOp}
        /\ writer # NoOp => readers = {}
        BY DEF RegistryInv, OpenInv, LocksInv
  <2> QED BY <2>1, <2>2, <2>3, <2>4, <2>5 DEF TypeOK
<1> QED BY <1>1, RegistryKept, PTL

-----------------------------------------------------------------------------
(* What a reader of the lists is shown.                                    *)
LEMMA Shown ==
    ASSUME RegistryInv, NEW ch
    PROVE  /\ \A e \in ToolsOf(ch) : e.key.chan = ch /\ ch \in Channels
           /\ \A e, f \in ToolsOf(ch) : e.key = f.key => e = f
           /\ \A e \in ToolsOf(ch) : e.client \in open
           /\ \A e \in tools : e.key.chan = NoChan
<1> USE DEF RegistryInv
<1>1. ASSUME ch \in DOMAIN channelTools
      PROVE  /\ \A e \in ToolsOf(ch) : e.key.chan = ch /\ ch \in Channels
             /\ \A e, f \in ToolsOf(ch) : e.key = f.key => e = f
             /\ \A e \in ToolsOf(ch) : e.client \in open
  <2> DEFINE i == channelTools[ch]
  <2>1. i \in Ops /\ op[i].channel = ch /\ ch \in Channels
        BY <1>1 DEF PlacesInv, ChannelsOK, MakersInv
  <2>2. ToolsOf(ch) = sets[i].tools
        BY <1>1 DEF ToolsOf
  <2>3. sets[i] \in SetType
        BY <2>1 DEF SetsInv, SetType
  <2>4. \A e \in sets[i].tools : e \in [key : Keys, client : Ops] /\ e.client \in Joined(i)
        BY <2>3 DEF SetType, Joined
  <2>5. \A e \in sets[i].tools :
           /\ e.key.chan = op[e.client].channel /\ e.key.server = op[e.client].server
           /\ op[e.client].channel = ch /\ op[e.client].kind = "channel_add"
        BY <2>1, <2>4 DEF SetsInv
  <2>6. \A e, f \in sets[i].tools : e.key = f.key => e.client = f.client
        BY <2>4, <2>5 DEF MakersInv
  <2>7. \A e, f \in sets[i].tools : e.key = f.key => e = f
        BY <2>4, <2>6
  <2>8. \A e \in sets[i].tools : e.client \in open
        BY <1>1 DEF OpenInv
  <2> QED BY <2>1, <2>2, <2>5, <2>7, <2>8
<1>2. ch \notin DOMAIN channelTools => ToolsOf(ch) = {}
      BY DEF ToolsOf
<1>3. \A e \in tools : e.key.chan = NoChan
      BY DEF ToolsInv
<1> QED BY <1>1, <1>2, <1>3

(* No list shows two tools of one name, and none that a reader may read    *)
(* shows a tool of a closed connection, however servers come and go        *)
(* (registry.go:299-405, 583-602).                                         *)
THEOREM ListsStaySound == Spec => []ListsAreSound
<1>1. RegistryInv => NoDuplicateNames
  <2> SUFFICES ASSUME RegistryInv, NEW ctx \in Contexts,
                      NEW e \in ToolsFor(ctx), NEW f \in ToolsFor(ctx), e.key = f.key
               PROVE  e = f
      BY DEF NoDuplicateNames
  <2>1. e \in tools \cup ToolsOf(ctx.channel) /\ f \in tools \cup ToolsOf(ctx.channel)
        BY DEF ToolsFor
  <2>2. \A a, b \in tools : a.key = b.key => a = b
        BY DEF RegistryInv, ToolsInv
  <2>3. NoChan \notin Channels
        BY RegistryAssumption
  <2> QED BY <2>1, <2>2, <2>3, Shown
<1>2. RegistryInv => ClosedNotServed
  <2> SUFFICES ASSUME RegistryInv, MayRead, NEW ctx \in Contexts, NEW e \in ToolsFor(ctx)
               PROVE  e.client \in open \cup {Self}
      BY DEF ClosedNotServed
  <2>1. e \in tools \cup ToolsOf(ctx.channel)
        BY DEF ToolsFor
  <2>2. \A k : ~Leaving(k)
        BY DEF RegistryInv, LocksInv, MayRead, Leaving
  <2>3. e \in tools => e.client \in open \cup {Self}
        BY <2>2 DEF RegistryInv, OpenInv
  <2> QED BY <2>1, <2>3, Shown
<1> QED BY <1>1, <1>2, RegistryKept, PTL DEF ListsAreSound

(* What is shown can be called and what is not cannot, and what runs was   *)
(* its caller's to call, whatever came and went between the decision and   *)
(* the call (policy.go:19-20, 105-117, registry.go:104-148).               *)
THEOREM PolicyIsOne == Spec => []OnePolicy
<1>1. RegistryInv => VisibleIsCallable
  <2> SUFFICES ASSUME RegistryInv, NEW ctx \in Contexts
               PROVE  Callable(ctx) = {e.key : e \in ToolsFor(ctx)}
      BY DEF VisibleIsCallable
  <2> DEFINE ch == ctx.channel
  <2>1. {e.key : e \in tools} = DOMAIN invokers /\ DOMAIN invokers \subseteq Keys
        BY DEF RegistryInv, ToolsInv
  <2>2. \A e \in ToolsOf(ch) : e.key \in Keys /\ ch \in OwnerOf(e.key)
    <3>1. ToolsOf(ch) # {} => ch \in DOMAIN channelTools
          BY DEF ToolsOf
    <3>2. ch \in DOMAIN channelTools => sets[channelTools[ch]] \in SetType
          BY DEF RegistryInv, PlacesInv, ChannelsOK, SetsInv, SetType
    <3> QED BY <3>1, <3>2 DEF ToolsOf, OwnerOf, SetType
  <2>3. \A k \in Callable(ctx) : \E e \in ToolsFor(ctx) : e.key = k
        BY <2>1 DEF Callable, ToolsFor
  <2>4. \A e \in ToolsFor(ctx) : e.key \in Callable(ctx)
        BY <2>1, <2>2 DEF Callable, ToolsFor
  <2> QED BY <2>3, <2>4
<1>2. RegistryInv => CallsAllowed
      BY DEF RegistryInv, CallsInv, CallsAllowed, Theirs
<1> QED BY <1>1, <1>2, RegistryKept, PTL DEF OnePolicy
=============================================================================
