-------------------------- MODULE AgentLoopProofs --------------------------
(***************************************************************************)
(* Theorems about the agent loop, for any number of rounds and any size    *)
(* of batch.                                                               *)
(***************************************************************************)
EXTENDS AgentLoopProps, SequenceTheorems, TLAPS

USE DEF Slots, Seqs, Ids, NoRow

LEMMA NoResultType == NoResult \in Results
BY DEF NoResult, Results

(* A call that left no result still has an event of its own.               *)
LEMMA EventType ==
    ASSUME TypeOK, NEW i \in Slots
    PROVE  Event(i) \in Results /\ ToolMessage(i) \in Messages
<1>1. IdOf(i) \in Nat /\ SeqOf(i) \in Nat
      BY ConfigAssumption DEF TypeOK, IdOf, SeqOf
<1>2. Event(i) \in Results
      BY <1>1 DEF TypeOK, Event, Results
<1>3. Event(i).handle \in Nat
      BY <1>2 DEF Results
<1> QED BY <1>1, <1>2, <1>3 DEF ToolMessage, Messages

(* What Collect adds is a sequence of messages.                            *)
LEMMA CollectedMessages ==
    ASSUME TypeOK
    PROVE  /\ Request \in Messages
           /\ Answers \in Seq(Messages)
           /\ Len(Answers) = Len(calls)
           /\ \A i \in 1..Len(calls) : Answers[i] = ToolMessage(i)
           /\ Append(msgs, Request) \o Answers \in Seq(Messages)
<1>1. Len(calls) \in Nat /\ \A i \in 1..Len(calls) : i \in Slots
      BY ConfigAssumption DEF TypeOK
<1>2. \A i \in 1..Len(calls) : IdOf(i) \in Nat
      BY <1>1, ConfigAssumption DEF TypeOK, IdOf, SeqOf
<1>3. [i \in 1..Len(calls) |-> IdOf(i)] \in Seq(Nat)
      BY <1>1, <1>2
<1>4. Request \in Messages
      BY <1>3 DEF Request, Messages
<1>5. \A i \in 1..Len(calls) : ToolMessage(i) \in Messages
      BY <1>1, EventType
<1>6. Answers \in Seq(Messages) /\ Len(Answers) = Len(calls)
      BY <1>1, <1>5 DEF Answers
<1>7. Append(msgs, Request) \in Seq(Messages)
      BY <1>4 DEF TypeOK
<1>8. \A i \in 1..Len(calls) : Answers[i] = ToolMessage(i)
      BY DEF Answers
<1> QED BY <1>4, <1>6, <1>7, <1>8

(* Whatever is in result is a result, and after the batch every call has   *)
(* one.                                                                    *)
Filled ==
    /\ \A i \in Slots : result[i] = NoResult \/ result[i].status # "none"
    /\ pc = "deliver" => \A i \in Running : result[i].status # "none"

-----------------------------------------------------------------------------
LEMMA ReturnTypes ==
    ASSUME TypeOK, NEW i \in Slots, NEW status \in {"ok", "error"},
           NEW terminate \in BOOLEAN, NEW handle \in Nat,
           Return(i, status, terminate, handle)
    PROVE  result' \in [Slots -> Results] /\ stage' \in [Slots -> Stages]
<1>1. IdOf(i) \in Nat /\ SeqOf(i) \in Nat
      BY DEF IdOf, SeqOf, TypeOK
<1>2. [id |-> IdOf(i), seq |-> SeqOf(i), status |-> status,
       terminate |-> terminate, handle |-> handle] \in Results
      BY <1>1 DEF Results
<1> QED BY <1>2 DEF Return, TypeOK, Stages

LEMMA InitTypes == Init => TypeOK
<1> SUFFICES ASSUME Init PROVE TypeOK
    OBVIOUS
<1>1. stage \in [Slots -> Stages] /\ result \in [Slots -> Results]
      BY NoResultType DEF Init, Stages
<1>2. <<>> \in Seq(Messages) /\ <<>> \in Seq(Sorts) /\ <<>> \in Seq(Results)
      /\ <<>> \in Seq(Rows) /\ Len(<<>>) = 0
      OBVIOUS
<1>3. 0 \in 0..(MaxLoop - 1) /\ 0 \in 0..MaxBatch /\ 0 \in 0..MaxDBFail
      BY ConfigAssumption
<1>4. /\ round \in 0..(MaxLoop - 1) /\ at \in 0..MaxBatch
      /\ dbFails \in 0..MaxDBFail /\ base \in Nat /\ nextSeq \in Nat
      BY <1>3 DEF Init
<1>5. /\ msgs \in Seq(Messages) /\ calls \in Seq(Sorts) /\ Len(calls) <= MaxBatch
      /\ delivered \in Seq(Results) /\ records \in Seq(Rows)
      BY <1>2, ConfigAssumption DEF Init
<1>6. toolRan \in BOOLEAN /\ effects \subseteq Nat /\ ended \in Ends
      BY DEF Init, Ends
<1> QED BY <1>1, <1>4, <1>5, <1>6 DEF Init, TypeOK

LEMMA StepTypes == TypeOK /\ Filled /\ [Next]_vars => TypeOK'
<1> SUFFICES ASSUME TypeOK, Filled, [Next]_vars PROVE TypeOK'
    OBVIOUS
<1> USE ConfigAssumption
<1>1. CASE Answer
      BY <1>1 DEF Answer, End, TypeOK, batch, Ends
<1>2. CASE ModelFails
      BY <1>2 DEF ModelFails, End, TypeOK, batch, Ends
<1>3. CASE CallerStops
      BY <1>3 DEF CallerStops, End, TypeOK, batch, Ends
<1>4. CASE Ask
  <2> PICK sorts \in Batches : AskTools(sorts)
      BY <1>4 DEF Ask
  <2>1. sorts \in Seq(Sorts) /\ Len(sorts) <= MaxBatch
        BY DEF Batches
  <2>2. stage' \in [Slots -> Stages]
        BY DEF AskTools, Stages
  <2>3. result' \in [Slots -> Results]
        BY NoResultType DEF AskTools
  <2>4. base' \in Nat /\ nextSeq' \in Nat
        BY <2>1 DEF AskTools, SeqBase, TypeOK
  <2>5. /\ pc' = "batch" /\ calls' = sorts /\ at' \in 0..MaxBatch
        /\ UNCHANGED <<mode, round, msgs, ended, toolRan, effects, delivered,
                       records, dbFails>>
        BY DEF AskTools
  <2> QED BY <2>1, <2>2, <2>3, <2>4, <2>5 DEF TypeOK
<1>5. ASSUME NEW i \in Slots, Check(i) PROVE TypeOK'
  <2>1. IdOf(i) \in Nat /\ SeqOf(i) \in Nat
        BY DEF IdOf, SeqOf, TypeOK
  <2>2. stage' \in [Slots -> Stages]
        BY <1>5 DEF Check, Return, TypeOK, Stages
  <2>3. result' \in [Slots -> Results]
        BY <1>5, ReturnTypes DEF Check, TypeOK
  <2>4. /\ toolRan' \in BOOLEAN
        /\ UNCHANGED <<mode, pc, round, msgs, ended, calls, base, nextSeq, effects,
                       at, delivered, records, dbFails>>
        BY <1>5 DEF Check, Tracked, TypeOK, loop
  <2> QED BY <2>2, <2>3, <2>4 DEF TypeOK
<1>6. ASSUME NEW i \in Slots, Invoke(i) PROVE TypeOK'
  <2>1. SeqOf(i) \in Nat
        BY DEF SeqOf, TypeOK
  <2>2. stage' \in [Slots -> Stages]
        BY <1>6 DEF Invoke, TypeOK, Stages
  <2> QED BY <1>6, <2>1, <2>2 DEF Invoke, TypeOK, loop
<1>7. ASSUME NEW i \in Slots, Settle(i) PROVE TypeOK'
  <2>1. IdOf(i) \in Nat /\ SeqOf(i) \in Nat
        BY DEF IdOf, SeqOf, TypeOK
  <2>2. stage' \in [Slots -> Stages]
        BY <1>7 DEF Settle, Return, TypeOK, Stages
  <2>3. \A s \in {"ok", "error"} : Row(i, s, TRUE) \in Rows
        BY <2>1 DEF Row, Rows
  <2>4. records' \in Seq(Rows)
    <3>1. \/ UNCHANGED records
          \/ \E s \in {"ok", "error"} : records' = Append(records, Row(i, s, TRUE))
          BY <1>7 DEF Settle
    <3>2. \A row \in Rows : Append(records, row) \in Seq(Rows)
          BY DEF TypeOK
    <3> QED BY <2>3, <3>1, <3>2 DEF TypeOK
  <2>5. dbFails' \in 0..MaxDBFail
    <3>1. UNCHANGED dbFails \/ DBFails
          BY <1>7 DEF Settle
    <3> QED BY <3>1 DEF DBFails, TypeOK
  <2>6. Len(records') \in Nat
        BY <2>4
  <2>7. result' \in [Slots -> Results]
    <3> DEFINE status == IF stage[i] = "error" THEN "error" ELSE "ok"
    <3>1. status \in {"ok", "error"} /\ (stage[i] = "final") \in BOOLEAN
          OBVIOUS
    <3>2. \/ Return(i, status, stage[i] = "final", NoRow)
          \/ Return(i, status, stage[i] = "final", Len(records'))
          \/ result' = result
          BY <1>7 DEF Settle
    <3> QED BY <2>6, <3>1, <3>2, ReturnTypes DEF TypeOK
  <2> QED BY <1>7, <2>2, <2>4, <2>5, <2>7 DEF Settle, TypeOK, loop
<1>8. CASE Collect
  <2>1. result' \in [Slots -> Results]
        BY <1>8, EventType, NoResultType DEF Collect
  <2>2. msgs' \in Seq(Messages)
        BY <1>8, CollectedMessages DEF Collect
  <2> QED BY <1>8, <2>1, <2>2 DEF Collect, TypeOK
<1>9. CASE Deliver
  <2>1. at' \in Slots /\ at' \in 0..MaxBatch
        BY <1>9 DEF Deliver, TypeOK
  <2>2. result[at'] \in Results
        BY <2>1 DEF TypeOK
  <2>3. delivered' \in Seq(Results)
        BY <1>9, <2>2 DEF Deliver, TypeOK
  <2>4. toolRan' \in BOOLEAN
        BY <1>9 DEF Deliver, TypeOK
  <2>5. records' \in Seq(Rows) /\ dbFails' \in 0..MaxDBFail
    <3>1. at' \in Running
          BY <1>9, <2>1 DEF Deliver, Running, TypeOK
    <3>2. result[at'].status \in {"ok", "error"}
          BY <1>9, <2>2, <3>1 DEF Deliver, Filled, Results
    <3>3. \A row \in Rows : Updated(row, result[at']) \in Rows
          BY <3>2 DEF Updated, Rows
    <3>4. Created(result[at']) \in Seq(Rows)
          BY SMTT(30), <2>2, <3>2 DEF Created, Rows, Results, TypeOK
    <3>5. \A n \in RowsOf(result[at']) :
             [records EXCEPT ![n] = Updated(@, result[at'])] \in Seq(Rows)
          BY <3>3 DEF RowsOf, TypeOK
    <3>6. Upsert(result[at'])
          BY <1>9 DEF Deliver
    <3> QED BY SMTT(30), <3>4, <3>5, <3>6 DEF Upsert, DBFails, TypeOK
  <2> QED BY <1>9, <2>1, <2>3, <2>4, <2>5 DEF Deliver, TypeOK, loop, batch
<1>10. CASE Continue
      BY <1>10 DEF Continue, End, LastRound, TypeOK, batch, Ends
<1>11. CASE UNCHANGED vars
      BY <1>11 DEF vars, loop, batch, TypeOK
<1> QED BY <1>1, <1>2, <1>3, <1>4, <1>5, <1>6, <1>7, <1>8, <1>9, <1>10, <1>11
        DEF Next, Tool

-----------------------------------------------------------------------------
LEMMA FilledStays == TypeOK /\ Filled /\ [Next]_vars => Filled'
<1> SUFFICES ASSUME TypeOK, Filled, [Next]_vars PROVE Filled'
    OBVIOUS
<1>1. CASE Answer \/ ModelFails \/ CallerStops
      BY <1>1 DEF Answer, ModelFails, CallerStops, End, Filled, batch, Running
<1>2. CASE Ask
      BY <1>2 DEF Ask, AskTools, Filled
<1>3. ASSUME NEW i \in Slots, Check(i) \/ Invoke(i) \/ Settle(i) PROVE Filled'
  <2>1. \/ result' = result
        \/ \E s \in {"ok", "error"}, t \in BOOLEAN, h \in Nat \cup {Len(records')} :
              Return(i, s, t, h)
        BY <1>3 DEF Check, Invoke, Settle
  <2>2. pc' = pc /\ calls' = calls
        BY <1>3 DEF Check, Invoke, Settle, loop
  <2>3. ASSUME NEW j \in Slots
        PROVE  result'[j] = result[j] \/ result'[j].status # "none"
    <3>1. CASE result' = result
          BY <3>1
    <3>2. ASSUME NEW s \in {"ok", "error"}, NEW t, NEW h, Return(i, s, t, h)
          PROVE  result'[j] = result[j] \/ result'[j].status # "none"
          BY <3>2 DEF Return, TypeOK
    <3> QED BY <2>1, <3>1, <3>2
  <2>4. Running' = Running /\ Running \subseteq Slots
        BY <2>2, ConfigAssumption DEF Running, TypeOK
  <2> QED BY <2>2, <2>3, <2>4 DEF Filled
<1>4. CASE Collect
  <2>1. ASSUME NEW i \in Slots PROVE Event(i).status # "none"
    <3>1. CASE result[i] = NoResult
      <4>1. Event(i).status = "error"
            BY <3>1 DEF Event
      <4> QED BY <4>1
    <3>2. CASE result[i] # NoResult
      <4>1. Event(i) = result[i]
            BY <3>2 DEF Event
      <4> QED BY <3>2, <4>1 DEF Filled
    <3> QED BY <3>1, <3>2
  <2>2. Running' = Running /\ Running \subseteq Slots
        BY <1>4, ConfigAssumption DEF Collect, Running, TypeOK
  <2>3. \A i \in Slots : result'[i] = IF i \in Running THEN Event(i) ELSE NoResult
        BY <1>4 DEF Collect
  <2> QED BY <2>1, <2>2, <2>3 DEF Filled
<1>5. CASE Deliver \/ Continue
      BY <1>5 DEF Deliver, Continue, End, Filled, loop, batch, Running
<1>6. CASE UNCHANGED vars
      BY <1>6 DEF vars, loop, batch, Filled, Running
<1> QED BY <1>1, <1>2, <1>3, <1>4, <1>5, <1>6 DEF Next, Tool

LEMMA TypesHold == Spec => [](TypeOK /\ Filled)
<1>1. Init => Filled
      BY DEF Init, Filled
<1> QED BY <1>1, InitTypes, StepTypes, FilledStays, PTL DEF Spec

(* Every variable keeps its type, for any number of rounds, any size of    *)
(* batch and any number of failing calls to the record store.              *)
THEOREM LoopTypeCorrect == Spec => []TypeOK
BY TypesHold, PTL

-----------------------------------------------------------------------------
(* Where goroutines may be at work: in the slots of the batch, while it is *)
(* executed.                                                               *)
Quiet ==
    /\ \A i \in Slots : i \notin Running => stage[i] = "unborn"
    /\ pc # "batch" => \A i \in Slots : stage[i] \in {"unborn", "returned"}

LEMMA QuietStays == TypeOK /\ Quiet /\ [Next]_vars => Quiet'
<1> SUFFICES ASSUME TypeOK, Quiet, [Next]_vars PROVE Quiet'
    OBVIOUS
<1>1. CASE Answer \/ ModelFails \/ CallerStops
      BY <1>1 DEF Answer, ModelFails, CallerStops, End, Quiet, batch, Running
<1>2. CASE Ask
      BY <1>2 DEF Ask, AskTools, Quiet, Running
<1>3. ASSUME NEW i \in Slots, Check(i) \/ Invoke(i) \/ Settle(i) PROVE Quiet'
  <2>1. stage[i] \in {"start", "hooked"} \cup Outcomes
        BY <1>3 DEF Check, Invoke, Settle
  <2>2. pc = "batch" /\ i \in Running
        BY <2>1 DEF Quiet, Outcomes
  <2>3. /\ pc' = pc /\ calls' = calls
        /\ \A j \in Slots : j # i => stage'[j] = stage[j]
        BY <1>3 DEF Check, Invoke, Settle, Return, loop, TypeOK
  <2> QED BY <2>2, <2>3 DEF Quiet, Running
<1>4. CASE Collect
      BY <1>4 DEF Collect, AllReturned, Quiet, Running
<1>5. CASE Deliver \/ Continue
      BY <1>5 DEF Deliver, Continue, End, Quiet, loop, batch, Running
<1>6. CASE UNCHANGED vars
      BY <1>6 DEF vars, loop, batch, Quiet, Running
<1> QED BY <1>1, <1>2, <1>3, <1>4, <1>5, <1>6 DEF Next, Tool

LEMMA QuietHolds == Spec => []Quiet
<1>1. Init => Quiet
      BY DEF Init, Quiet
<1> QED BY <1>1, TypesHold, QuietStays, PTL DEF Spec

(* Tools run only while their batch is executed: the wait for every        *)
(* goroutine of a batch leaves none behind.                                *)
THEOREM NoToolIsLate == Spec => NoLateEffect
<1>1. Quiet /\ [Next]_vars => [pc # "batch" => effects' = effects]_vars
  <2> SUFFICES ASSUME Quiet, [Next]_vars, pc # "batch", effects' # effects
               PROVE  FALSE
      OBVIOUS
  <2>1. \A i \in Slots : ~Invoke(i)
        BY DEF Quiet, Invoke
  <2>2. \A i \in Slots : Check(i) \/ Settle(i) => effects' = effects
        BY DEF Check, Settle
  <2>3. Answer \/ ModelFails \/ CallerStops \/ Ask \/ Collect \/ Deliver \/ Continue
          => effects' = effects
        BY DEF Answer, ModelFails, CallerStops, Ask, AskTools, Collect, Deliver,
               Continue
  <2> QED BY <2>1, <2>2, <2>3 DEF Next, Tool, vars
<1> QED BY <1>1, QuietHolds, PTL DEF Spec, NoLateEffect

-----------------------------------------------------------------------------
(* A call that has passed the hook has set the flag.                       *)
Tracking ==
    /\ \A i \in Slots : stage[i] \in {"hooked"} \cup Outcomes => toolRan
    /\ TrackedBeforeEffect

LEMMA TrackingStays == TypeOK /\ Tracking /\ [Next]_vars => Tracking'
<1> SUFFICES ASSUME TypeOK, Tracking, [Next]_vars PROVE Tracking'
    OBVIOUS
<1> USE DEF Tracking, TrackedBeforeEffect
<1>1. CASE Answer \/ ModelFails \/ CallerStops
      BY <1>1 DEF Answer, ModelFails, CallerStops, batch
<1>2. CASE Ask
      BY <1>2 DEF Ask, AskTools, Outcomes
<1>3. ASSUME NEW i \in Slots, Check(i) PROVE Tracking'
      BY <1>3 DEF Check, Tracked, Return, TypeOK, Outcomes
<1>4. ASSUME NEW i \in Slots, Invoke(i) PROVE Tracking'
      BY <1>4 DEF Invoke, TypeOK, Outcomes
<1>5. ASSUME NEW i \in Slots, Settle(i) PROVE Tracking'
  <2>1. /\ toolRan' = toolRan /\ effects' = effects
        /\ stage' = [stage EXCEPT ![i] = "returned"]
        BY <1>5 DEF Settle, Return
  <2> QED BY <2>1 DEF TypeOK, Outcomes
<1>6. CASE Collect
      BY <1>6 DEF Collect
<1>7. CASE Deliver \/ Continue
      BY <1>7 DEF Deliver, Continue, batch, TypeOK
<1>8. CASE UNCHANGED vars
      BY <1>8 DEF vars, batch
<1> QED BY <1>1, <1>2, <1>3, <1>4, <1>5, <1>6, <1>7, <1>8 DEF Next, Tool

(* No tool runs in a turn that is not yet known to have side effects, so a *)
(* cancellation is never recorded as one without.                          *)
THEOREM EffectsAreTracked == Spec => []TrackedBeforeEffect
<1>1. Init => Tracking
      BY DEF Init, Tracking, TrackedBeforeEffect, Outcomes
<1>2. Tracking => TrackedBeforeEffect
      BY DEF Tracking
<1> QED BY <1>1, <1>2, TypesHold, TrackingStays, PTL DEF Spec

-----------------------------------------------------------------------------
(* The numbers of the batch follow on those already handed over, and every *)
(* result carries the number of its slot.                                  *)
Numbering ==
    /\ SeqOrder
    /\ pc = "model" => nextSeq = Len(delivered)
    /\ pc = "batch" => base = Len(delivered) /\ at = 0
    /\ pc = "deliver" => /\ at <= Len(calls)
                         /\ Len(delivered) = base + at
                         /\ \A i \in Running : result[i].seq = SeqOf(i)
    /\ pc \in {"batch", "deliver"} => nextSeq = base + Len(calls)
    /\ \A i \in Running : result[i] = NoResult \/ result[i].seq = SeqOf(i)

LEMMA NumberingStays == TypeOK /\ Quiet /\ Numbering /\ [Next]_vars => Numbering'
<1> SUFFICES ASSUME TypeOK, Quiet, Numbering, [Next]_vars PROVE Numbering'
    OBVIOUS
<1> USE DEF Numbering, SeqOrder
<1>0. Running \subseteq Slots /\ Len(calls) \in Nat /\ Len(delivered) \in Nat
      BY ConfigAssumption DEF Running, TypeOK
<1>1. CASE Answer \/ ModelFails \/ CallerStops
      BY <1>1 DEF Answer, ModelFails, CallerStops, End, batch, Running, SeqOf
<1>2. CASE Ask
  <2> PICK sorts \in Batches : AskTools(sorts)
      BY <1>2 DEF Ask
  <2>1. /\ pc = "model" /\ pc' = "batch" /\ calls' = sorts /\ base' = nextSeq
        /\ nextSeq' = nextSeq + Len(sorts) /\ at' = 0 /\ delivered' = delivered
        /\ \A i \in Slots : result'[i] = NoResult
        BY DEF AskTools, SeqBase
  <2>2. Running' \subseteq Slots
        BY <2>1, ConfigAssumption DEF Running, Batches
  <2> QED BY <2>1, <2>2
<1>3. ASSUME NEW i \in Slots, Check(i) \/ Invoke(i) \/ Settle(i)
      PROVE  Numbering'
  <2>1. pc = "batch" /\ i \in Running
        BY <1>3 DEF Check, Invoke, Settle, Quiet, Outcomes
  <2>2. UNCHANGED <<pc, calls, base, nextSeq, at, delivered>>
        BY <1>3 DEF Check, Invoke, Settle, loop
  <2>3. \/ result' = result
        \/ \E s \in {"ok", "error"}, t \in BOOLEAN, h \in Nat \cup {Len(records')} :
              Return(i, s, t, h)
        BY <1>3 DEF Check, Invoke, Settle
  <2>4. ASSUME NEW j \in Running PROVE result'[j] = result[j] \/ result'[j].seq = SeqOf(j)
    <3>1. ASSUME NEW s \in {"ok", "error"}, NEW t, NEW h, Return(i, s, t, h)
          PROVE  result'[j] = result[j] \/ result'[j].seq = SeqOf(j)
          BY <1>0, <3>1 DEF Return, TypeOK
    <3> QED BY <2>3, <3>1
  <2>5. Running' = Running /\ \A j \in Running : SeqOf(j)' = SeqOf(j)
        BY <2>2 DEF Running, SeqOf
  <2> QED BY <2>1, <2>2, <2>4, <2>5
<1>4. CASE Collect
  <2>1. /\ pc = "batch" /\ pc' = "deliver"
        /\ UNCHANGED <<calls, base, nextSeq, at, delivered>>
        BY <1>4 DEF Collect
  <2>2. Running' = Running /\ \A j \in Running : SeqOf(j)' = SeqOf(j)
        BY <2>1 DEF Running, SeqOf
  <2>3. \A i \in Running : result'[i] = Event(i)
        BY <1>0, <1>4 DEF Collect
  <2>4. ASSUME NEW i \in Running PROVE Event(i).seq = SeqOf(i)
    <3>1. CASE result[i] = NoResult
      <4>1. Event(i).seq = SeqOf(i)
            BY <3>1 DEF Event
      <4> QED BY <4>1
    <3>2. CASE result[i] # NoResult
      <4>1. Event(i) = result[i]
            BY <3>2 DEF Event
      <4> QED BY <3>2, <4>1
    <3> QED BY <3>1, <3>2
  <2>5. at = 0 /\ base \in Nat
        BY <2>1 DEF TypeOK
  <2> QED BY <1>0, <2>1, <2>2, <2>3, <2>4, <2>5
<1>5. CASE Deliver
  <2>1. /\ pc = "deliver" /\ at < Len(calls) /\ at' = at + 1
        /\ delivered' = Append(delivered, result[at'])
        /\ UNCHANGED <<pc, calls, base, nextSeq, result>>
        BY <1>5 DEF Deliver, loop, batch
  <2>2. Running' = Running /\ \A j \in Running : SeqOf(j)' = SeqOf(j)
        BY <2>1 DEF Running, SeqOf
  <2>3. at \in Nat /\ base \in Nat
        BY DEF TypeOK
  <2>4. at' \in Running /\ at' \in Slots /\ result[at'].seq = base + at
    <3>1. at' \in 1..Len(calls) BY <2>1, <2>3
    <3>2. at' \in Running /\ SeqOf(at') = base + at BY <1>0, <2>1, <2>3, <3>1 DEF Running, SeqOf
    <3> QED BY <1>0, <2>1, <3>2
  <2>5. delivered \in Seq(Results) /\ result[at'] \in Results
        BY <2>4 DEF TypeOK
  <2>6. /\ Len(delivered') = Len(delivered) + 1
        /\ DOMAIN delivered' = 1..(Len(delivered) + 1)
        /\ \A n \in 1..Len(delivered) : delivered'[n] = delivered[n]
        /\ delivered'[Len(delivered) + 1] = result[at']
        /\ DOMAIN delivered = 1..Len(delivered)
        BY <2>1, <2>5
  <2>7. SeqOrder'
        BY <1>0, <2>1, <2>3, <2>4, <2>6
  <2>8. Len(delivered') = base' + at' /\ at' <= Len(calls')
        BY <1>0, <2>1, <2>3, <2>6
  <2> QED BY <2>1, <2>2, <2>7, <2>8
<1>6. CASE Continue
  <2>1. /\ pc = "deliver" /\ at = Len(calls) /\ pc' \in {"model", "done"}
        /\ UNCHANGED <<calls, base, nextSeq, result, at, delivered>>
        BY <1>6 DEF Continue, End, batch
  <2>2. Running' = Running /\ \A j \in Running : SeqOf(j)' = SeqOf(j)
        BY <2>1 DEF Running, SeqOf
  <2> QED BY <2>1, <2>2
<1>7. CASE UNCHANGED vars
      BY <1>7 DEF vars, loop, batch, Running, SeqOf
<1> QED BY <1>1, <1>2, <1>3, <1>4, <1>5, <1>6, <1>7 DEF Next, Tool

(* The results handed over are numbered 0, 1, 2, ... over the whole turn.  *)
THEOREM ResultsInOrder == Spec => []SeqOrder
<1>1. Init => Numbering
      BY DEF Init, Numbering, SeqOrder, Running
<1>2. Numbering => SeqOrder
      BY DEF Numbering
<1> QED BY <1>1, <1>2, TypesHold, QuietHolds, NumberingStays, PTL DEF Spec

-----------------------------------------------------------------------------
(* The messages are paired at every moment, since a batch is added to them *)
(* in one piece.                                                           *)
AlwaysPaired ==
    \A n \in DOMAIN msgs :
        IF msgs[n].role = "assistant" THEN AnswersOf(n) ELSE IsAnswer(n)

LEMMA ConcatPlaces ==
    ASSUME NEW S, NEW s \in Seq(S), NEW t \in Seq(S)
    PROVE  /\ DOMAIN (s \o t) = 1..(Len(s) + Len(t))
           /\ \A n \in 1..Len(s) : (s \o t)[n] = s[n]
           /\ \A j \in 1..Len(t) : (s \o t)[Len(s) + j] = t[j]
OBVIOUS

(* The messages after a batch, place by place.                             *)
LEMMA CollectedPlaces ==
    ASSUME TypeOK, Collect
    PROVE  LET L == Len(msgs)  K == Len(calls) IN
           /\ L \in Nat /\ K \in Nat
           /\ DOMAIN msgs = 1..L /\ DOMAIN msgs' = 1..(L + 1 + K)
           /\ \A n \in 1..L : msgs'[n] = msgs[n]
           /\ msgs'[L + 1] = Request
           /\ \A j \in 1..K : msgs'[L + 1 + j] = ToolMessage(j)
<1> DEFINE L == Len(msgs)  K == Len(calls)
<1>1. L \in Nat /\ K \in Nat /\ msgs \in Seq(Messages)
      BY DEF TypeOK
<1>2. /\ Request \in Messages /\ Answers \in Seq(Messages) /\ Len(Answers) = K
      /\ \A i \in 1..K : Answers[i] = ToolMessage(i)
      BY CollectedMessages
<1>3. msgs' = Append(msgs, Request) \o Answers
      BY DEF Collect
<1>4. /\ Append(msgs, Request) \in Seq(Messages) /\ Len(Append(msgs, Request)) = L + 1
      /\ \A n \in 1..L : Append(msgs, Request)[n] = msgs[n]
      /\ Append(msgs, Request)[L + 1] = Request
      BY <1>1, <1>2
<1>5. /\ DOMAIN msgs' = 1..(L + 1 + K)
      /\ \A n \in 1..(L + 1) : msgs'[n] = Append(msgs, Request)[n]
      /\ \A j \in 1..K : msgs'[L + 1 + j] = Answers[j]
  <2> DEFINE head == Append(msgs, Request)
  <2>1. head \in Seq(Messages) /\ Len(head) = L + 1
        BY <1>4
  <2>2. msgs' = head \o Answers
        BY <1>3
  <2> HIDE DEF head
  <2>3. /\ DOMAIN msgs' = 1..(Len(head) + Len(Answers))
        /\ \A n \in 1..Len(head) : msgs'[n] = head[n]
        /\ \A j \in 1..Len(Answers) : msgs'[Len(head) + j] = Answers[j]
    <3> DEFINE whole == head \o Answers
    <3>1. /\ DOMAIN whole = 1..(Len(head) + Len(Answers))
          /\ \A n \in 1..Len(head) : whole[n] = head[n]
          /\ \A j \in 1..Len(Answers) : whole[Len(head) + j] = Answers[j]
      <4>1. head \in Seq(Messages) /\ Answers \in Seq(Messages)
            BY <1>2, <2>1
      <4>2. \A t \in Seq(Messages) :
               /\ DOMAIN (head \o t) = 1..(Len(head) + Len(t))
               /\ \A n \in 1..Len(head) : (head \o t)[n] = head[n]
               /\ \A j \in 1..Len(t) : (head \o t)[Len(head) + j] = t[j]
            BY <4>1, ConcatPlaces
      <4> QED BY <4>1, <4>2, Zenon
    <3>2. msgs' = whole
          BY <2>2
    <3> HIDE DEF whole
    <3> QED BY <3>1, <3>2
  <2>4. /\ DOMAIN msgs' = 1..(L + 1 + K)
        /\ \A n \in 1..(L + 1) : msgs'[n] = head[n]
        /\ \A j \in 1..K : msgs'[L + 1 + j] = Answers[j]
        BY <1>2, <2>1, <2>3
  <2> QED BY <2>4 DEF head
<1>6. \A n \in 1..L : msgs'[n] = msgs[n]
      BY <1>1, <1>4, <1>5
<1>7. L + 1 \in 1..(L + 1) /\ msgs'[L + 1] = Request
      BY <1>1, <1>4, <1>5
<1>8. DOMAIN msgs = 1..L /\ \A j \in 1..K : msgs'[L + 1 + j] = ToolMessage(j)
      BY <1>1, <1>2, <1>5
<1> QED BY <1>1, <1>5, <1>6, <1>7, <1>8

LEMMA PairedStays == TypeOK /\ AlwaysPaired /\ [Next]_vars => AlwaysPaired'
<1> SUFFICES ASSUME TypeOK, AlwaysPaired, [Next]_vars PROVE AlwaysPaired'
    OBVIOUS
<1>1. CASE msgs' = msgs
      BY <1>1 DEF AlwaysPaired, AnswersOf, IsAnswer
<1>2. CASE Collect
  <2> DEFINE L == Len(msgs)  K == Len(calls)
  <2>1. /\ L \in Nat /\ K \in Nat
        /\ DOMAIN msgs = 1..L /\ DOMAIN msgs' = 1..(L + 1 + K)
        /\ \A n \in 1..L : msgs'[n] = msgs[n]
        /\ msgs'[L + 1] = Request
        /\ \A j \in 1..K : msgs'[L + 1 + j] = ToolMessage(j)
        BY <1>2, CollectedPlaces
  <2>2. /\ Request.role = "assistant" /\ DOMAIN Request.ids = 1..K
        /\ \A j \in 1..K : Request.ids[j] = IdOf(j)
        BY DEF Request
  <2>3. \A j : ToolMessage(j).role = "tool" /\ ToolMessage(j).id = IdOf(j)
        BY DEF ToolMessage
  <2> SUFFICES ASSUME NEW n \in 1..(L + 1 + K)
               PROVE  IF msgs'[n].role = "assistant" THEN AnswersOf(n)'
                                                     ELSE IsAnswer(n)'
      BY <2>1 DEF AlwaysPaired
  <2>4. CASE n \in 1..L
    <3>1. msgs'[n] = msgs[n]
          BY <2>1, <2>4
    <3>2. CASE msgs[n].role = "assistant"
      <4>1. AnswersOf(n)
            BY <2>1, <2>4, <3>2 DEF AlwaysPaired
      <4>2. \A j \in DOMAIN msgs[n].ids : n + j \in 1..L
            BY <2>1, <4>1 DEF AnswersOf
      <4>3. AnswersOf(n)'
            BY <2>1, <3>1, <4>1, <4>2 DEF AnswersOf
      <4> QED BY <3>1, <3>2, <4>3
    <3>3. CASE msgs[n].role # "assistant"
      <4>1. IsAnswer(n)
            BY <2>1, <2>4, <3>3 DEF AlwaysPaired
      <4>2. IsAnswer(n)'
            BY <2>1, <2>4, <4>1 DEF IsAnswer
      <4> QED BY <3>1, <3>3, <4>2
    <3> QED BY <3>2, <3>3
  <2>5. CASE n = L + 1
    <3>1. msgs'[n] = Request
          BY <2>1, <2>5
    <3>2. \A j \in 1..K : n + j \in 1..(L + 1 + K) /\ msgs'[n + j] = ToolMessage(j)
          BY <2>1, <2>5
    <3>3. AnswersOf(n)'
          BY <2>1, <2>2, <2>3, <3>1, <3>2 DEF AnswersOf
    <3> QED BY <2>2, <3>1, <3>3
  <2>6. CASE n \in (L + 2)..(L + 1 + K)
    <3>1. /\ L + 1 \in 1..(n - 1) /\ n - (L + 1) \in 1..K
          /\ n = L + 1 + (n - (L + 1))
          BY <2>1, <2>6
    <3>2. msgs'[n] = ToolMessage(n - (L + 1))
          BY <2>1, <3>1
    <3>3. msgs'[L + 1].role = "assistant" /\ DOMAIN msgs'[L + 1].ids = 1..K
          BY <2>1, <2>2
    <3>4. IsAnswer(n)'
          BY <3>1, <3>3 DEF IsAnswer
    <3> QED BY <2>3, <3>2, <3>4
  <2> QED BY <2>1, <2>4, <2>5, <2>6
<1>3. Answer \/ ModelFails \/ CallerStops \/ Ask \/ Deliver \/ Continue => msgs' = msgs
      BY DEF Answer, ModelFails, CallerStops, Ask, AskTools, Deliver, Continue, loop
<1>4. \A i \in Slots : Tool(i) => msgs' = msgs
      BY DEF Tool, Check, Invoke, Settle, loop
<1> QED BY <1>1, <1>2, <1>3, <1>4 DEF Next, vars, loop

(* Whatever becomes of the calls, the model is asked with paired messages. *)
THEOREM MessagesArePaired == Spec => []Paired
<1>1. Init => AlwaysPaired
      BY DEF Init, AlwaysPaired
<1>2. AlwaysPaired => Paired
      BY DEF AlwaysPaired, Paired
<1> QED BY <1>1, <1>2, TypesHold, PairedStays, PTL DEF Spec

-----------------------------------------------------------------------------
(* A handle is kept by a row of the same call with the full text.          *)
Kept(handle, id) ==
    /\ handle \in DOMAIN records
    /\ records[handle].full /\ records[handle].id = id

HandlesKept ==
    /\ HandlesReadable
    /\ \A i \in Running : result[i].handle # NoRow => Kept(result[i].handle, IdOf(i))

(* No step removes a row, its call or its full text.                       *)
LEMMA RowsStay ==
    ASSUME TypeOK, [Next]_vars, NEW handle, NEW id, Kept(handle, id)
    PROVE  Kept(handle, id)'
<1> DEFINE Grows(r) == records' = Append(records, r)
<1>1. records \in Seq(Rows)
      BY DEF TypeOK
<1>2. CASE records' = records
      BY <1>2 DEF Kept
<1>3. ASSUME NEW r, Grows(r) PROVE Kept(handle, id)'
  <2>1. DOMAIN records = 1..Len(records) /\ Len(records) \in Nat
        BY <1>1
  <2>2. \A n \in DOMAIN records : n \in DOMAIN records' /\ records'[n] = records[n]
        BY <1>1, <1>3, <2>1
  <2> QED BY <2>2 DEF Kept
<1>4. ASSUME NEW ev, NEW n \in DOMAIN records,
             records' = [records EXCEPT ![n] = Updated(@, ev)]
      PROVE  Kept(handle, id)'
  <2>1. /\ DOMAIN records' = DOMAIN records
        /\ \A m \in DOMAIN records :
              records'[m] = IF m = n THEN Updated(records[m], ev) ELSE records[m]
        BY <1>4
  <2>2. \A m \in DOMAIN records :
           /\ Updated(records[m], ev).full = records[m].full
           /\ Updated(records[m], ev).id = records[m].id
    <3>1. \A m \in DOMAIN records : records[m] \in Rows
          BY <1>1
    <3> QED BY <3>1 DEF Updated, Rows
  <2> QED BY <2>1, <2>2 DEF Kept
<1>5. CASE Deliver
  <2>1. Upsert(result[at'])
        BY <1>5 DEF Deliver
  <2> QED BY <1>2, <1>3, <1>4, <2>1 DEF Upsert, Created, RowsOf
<1>6. ASSUME NEW i \in Slots, Settle(i) PROVE Kept(handle, id)'
  <2>1. records' = records \/ \E s \in {"ok", "error"} : Grows(Row(i, s, TRUE))
        BY <1>6 DEF Settle
  <2> QED BY <1>2, <1>3, <2>1
<1>7. /\ Answer \/ ModelFails \/ CallerStops \/ Ask \/ Collect \/ Continue
           => records' = records
      /\ \A i \in Slots : Check(i) \/ Invoke(i) => records' = records
      BY DEF Answer, ModelFails, CallerStops, Ask, AskTools, Collect, Continue,
             Check, Invoke
<1> QED BY <1>2, <1>5, <1>6, <1>7 DEF Next, Tool, vars

LEMMA HandlesStay ==
    TypeOK /\ Quiet /\ HandlesKept /\ [Next]_vars => HandlesKept'
<1> SUFFICES ASSUME TypeOK, Quiet, HandlesKept, [Next]_vars PROVE HandlesKept'
    OBVIOUS
<1> DEFINE KeptNext(h, x) ==
               h \in DOMAIN records' /\ records'[h].full /\ records'[h].id = x
<1>a. Running \subseteq Slots
      BY ConfigAssumption DEF Running, TypeOK
<1>b. \A h, x : Kept(h, x) => KeptNext(h, x)
  <2> TAKE h, x
  <2> HAVE Kept(h, x)
  <2>1. Kept(h, x)'
        BY RowsStay
  <2> QED BY <2>1 DEF Kept
<1>1. CASE msgs' = msgs /\ UNCHANGED <<calls, base, result>>
  <2>1. Running' = Running /\ \A i \in Running : IdOf(i)' = IdOf(i)
        BY <1>1 DEF Running, IdOf, SeqOf
  <2>2. \A n \in DOMAIN msgs : msgs[n].role = "tool" /\ msgs[n].handle # NoRow
           => Kept(msgs[n].handle, msgs[n].id)
        BY DEF HandlesKept, HandlesReadable, Kept
  <2>3. HandlesReadable'
        BY <1>1, <1>b, <2>2 DEF HandlesReadable
  <2>4. \A i \in Running : result[i].handle # NoRow => KeptNext(result[i].handle, IdOf(i))
        BY <1>b DEF HandlesKept
  <2> QED BY <1>1, <2>1, <2>3, <2>4 DEF HandlesKept, Kept
<1>2. CASE Ask
  <2> PICK sorts \in Batches : AskTools(sorts)
      BY <1>2 DEF Ask
  <2>1. /\ calls' = sorts /\ msgs' = msgs /\ records' = records
        /\ \A i \in Slots : result'[i] = NoResult
        BY DEF AskTools
  <2>2. Running' \subseteq Slots
        BY <2>1, ConfigAssumption DEF Running, Batches
  <2> QED BY <2>1, <2>2 DEF HandlesKept, HandlesReadable, NoResult
<1>3. ASSUME NEW i \in Slots, Check(i) \/ Settle(i) PROVE HandlesKept'
  <2>1. msgs' = msgs /\ UNCHANGED <<calls, base>>
        BY <1>3 DEF Check, Settle, loop
  <2>2. Running' = Running /\ \A j \in Running : IdOf(j)' = IdOf(j)
        BY <2>1 DEF Running, IdOf, SeqOf
  <2>3. \A n \in DOMAIN msgs : msgs[n].role = "tool" /\ msgs[n].handle # NoRow
           => Kept(msgs[n].handle, msgs[n].id)
        BY DEF HandlesKept, HandlesReadable, Kept
  <2>4. HandlesReadable'
        BY <1>b, <2>1, <2>3 DEF HandlesReadable
  <2>5. ASSUME NEW j \in Running, result'[j].handle # NoRow
        PROVE  KeptNext(result'[j].handle, IdOf(j))
    <3>1. CASE result'[j] = result[j]
      <4>1. Kept(result[j].handle, IdOf(j))
            BY <2>5, <3>1 DEF HandlesKept
      <4> QED BY <1>b, <3>1, <4>1
    <3>2. ASSUME NEW s, NEW t, Return(i, s, t, NoRow)
          PROVE  result'[j] = result[j]
          BY <1>a, <2>5, <3>2 DEF Return, TypeOK
    <3>3. ASSUME NEW s \in {"ok", "error"}, NEW t,
                 records' = Append(records, Row(i, s, TRUE)),
                 Return(i, s, t, Len(records'))
          PROVE  result'[j] = result[j] \/ KeptNext(result'[j].handle, IdOf(j))
      <4>1. CASE j # i
            BY <1>a, <3>3, <4>1 DEF Return, TypeOK
      <4>2. CASE j = i
        <5>1. result'[j].handle = Len(records')
              BY <3>3, <4>2 DEF Return, TypeOK
        <5>2. records \in Seq(Rows)
              BY DEF TypeOK
        <5>3. Len(records') \in DOMAIN records' /\ records'[Len(records')] = Row(i, s, TRUE)
          <6> DEFINE row == Row(i, s, TRUE)
          <6>1. row \in Rows
            <7>1. IdOf(i) \in Nat /\ SeqOf(i) \in Nat
                  BY DEF IdOf, SeqOf, TypeOK
            <7> QED BY <7>1 DEF Row, Rows
          <6> HIDE DEF row
          <6>2. Len(Append(records, row)) \in DOMAIN Append(records, row)
                /\ Append(records, row)[Len(Append(records, row))] = row
                BY <5>2, <6>1
          <6> QED BY <3>3, <6>2 DEF row
        <5>4. Row(i, s, TRUE).full /\ Row(i, s, TRUE).id = IdOf(i)
              BY DEF Row
        <5> QED BY <4>2, <5>1, <5>3, <5>4
      <4> QED BY <4>1, <4>2
    <3>4. \/ result' = result
          \/ \E s \in {"ok", "error"}, t \in BOOLEAN : Return(i, s, t, NoRow)
          \/ \E s \in {"ok", "error"}, t \in BOOLEAN :
                /\ records' = Append(records, Row(i, s, TRUE))
                /\ Return(i, s, t, Len(records'))
          BY <1>3 DEF Check, Settle
    <3> QED BY <3>1, <3>2, <3>3, <3>4
  <2> QED BY <2>2, <2>4, <2>5 DEF HandlesKept, Kept
<1>4. CASE Collect
  <2>1. UNCHANGED <<calls, base, records>>
        BY <1>4 DEF Collect
  <2>2. Running' = Running /\ \A j \in Running : IdOf(j)' = IdOf(j)
        BY <2>1 DEF Running, IdOf, SeqOf
  <2>3. ASSUME NEW i \in Running, Event(i).handle # NoRow
        PROVE  Kept(Event(i).handle, IdOf(i))
    <3>1. CASE result[i] = NoResult
      <4>1. Event(i).handle = NoRow
            BY <3>1 DEF Event
      <4> QED BY <2>3, <4>1
    <3>2. CASE result[i] # NoResult
      <4>1. Event(i) = result[i]
            BY <3>2 DEF Event
      <4> QED BY <2>3, <4>1 DEF HandlesKept
    <3> QED BY <3>1, <3>2
  <2>4. \A i \in Running : result'[i] = Event(i)
        BY <1>a, <1>4 DEF Collect
  <2>5. ASSUME NEW n \in DOMAIN msgs', msgs'[n].role = "tool",
               msgs'[n].handle # NoRow
        PROVE  Kept(msgs'[n].handle, msgs'[n].id)
    <3> DEFINE L == Len(msgs)  K == Len(calls)
    <3>1. /\ L \in Nat /\ K \in Nat
          /\ DOMAIN msgs = 1..L /\ DOMAIN msgs' = 1..(L + 1 + K)
          /\ \A m \in 1..L : msgs'[m] = msgs[m]
          /\ msgs'[L + 1] = Request
          /\ \A j \in 1..K : msgs'[L + 1 + j] = ToolMessage(j)
          BY <1>4, CollectedPlaces
    <3>2. CASE n \in 1..L
      <4>1. msgs'[n] = msgs[n] /\ n \in DOMAIN msgs
            BY <3>1, <3>2
      <4> QED BY <2>5, <4>1 DEF HandlesKept, HandlesReadable, Kept
    <3>3. CASE n = L + 1
      <4>1. msgs'[n].role = "assistant"
            BY <3>1, <3>3 DEF Request
      <4> QED BY <2>5, <4>1
    <3>4. CASE n \in (L + 2)..(L + 1 + K)
      <4>1. n - (L + 1) \in 1..K /\ n = L + 1 + (n - (L + 1))
            BY <3>1, <3>4
      <4> DEFINE j == n - (L + 1)
      <4>2. msgs'[n] = ToolMessage(j)
            BY <3>1, <4>1
      <4>3. j \in Running
            BY <3>1, <4>1 DEF Running, TypeOK
      <4>4. ToolMessage(j).handle = Event(j).handle /\ ToolMessage(j).id = IdOf(j)
            BY DEF ToolMessage
      <4> QED BY <2>3, <2>5, <4>2, <4>3, <4>4
    <3> QED BY <3>1, <3>2, <3>3, <3>4
  <2>6. HandlesReadable'
        BY <2>1, <2>5 DEF HandlesReadable, Kept
  <2> QED BY <2>1, <2>2, <2>3, <2>4, <2>6 DEF HandlesKept, Kept
<1>5. Answer \/ ModelFails \/ CallerStops \/ Deliver \/ Continue
        => msgs' = msgs /\ UNCHANGED <<calls, base, result>>
      BY DEF Answer, ModelFails, CallerStops, Deliver, Continue, loop, batch
<1>6. \A i \in Slots : Invoke(i) => msgs' = msgs /\ UNCHANGED <<calls, base, result>>
      BY DEF Invoke, loop
<1> QED BY <1>1, <1>2, <1>3, <1>4, <1>5, <1>6 DEF Next, Tool, vars, loop, batch

(* A handle the model is given leads to the full text of that call for as  *)
(* long as the turn lasts.                                                 *)
THEOREM HandlesStayReadable == Spec => []HandlesReadable
<1>1. Init => HandlesKept
      BY DEF Init, HandlesKept, HandlesReadable, Running
<1>2. HandlesKept => HandlesReadable
      BY DEF HandlesKept
<1> QED BY <1>1, <1>2, TypesHold, QuietHolds, HandlesStay, PTL DEF Spec

-----------------------------------------------------------------------------
(* Only a success asks for the end, and what was handed over of the batch  *)
(* are its results.                                                        *)
Ending ==
    /\ pc # "done" => ended = "running"
    /\ \A i \in Slots : result[i].terminate => result[i].status = "ok"
    /\ pc = "deliver" => \A n \in 1..at : delivered[base + n] = result[n]
    /\ FailuresAreSeen

LEMMA EndingStays ==
    TypeOK /\ Quiet /\ Numbering /\ Ending /\ [Next]_vars => Ending'
<1> SUFFICES ASSUME TypeOK, Quiet, Numbering, Ending, [Next]_vars PROVE Ending'
    OBVIOUS
<1> USE DEF Ending, FailuresAreSeen
<1>1. CASE Answer \/ ModelFails \/ CallerStops
      BY <1>1 DEF Answer, ModelFails, CallerStops, End, batch
<1>2. CASE Ask
      BY <1>2 DEF Ask, AskTools, NoResult
<1>3. ASSUME NEW i \in Slots, Check(i) \/ Invoke(i) \/ Settle(i) PROVE Ending'
  <2>1. pc = "batch" /\ ended = "running" /\ UNCHANGED <<pc, ended>>
        BY <1>3 DEF Check, Invoke, Settle, Quiet, Outcomes, loop
  <2>2. \/ result' = result
        \/ \E s, t, h : Return(i, s, t, h) /\ (t => s = "ok")
        BY <1>3 DEF Check, Invoke, Settle
  <2>3. ASSUME NEW j \in Slots, NEW s, NEW t, NEW h, Return(i, s, t, h), t => s = "ok",
               result'[j].terminate
        PROVE  result'[j].status = "ok"
        BY <2>3 DEF Return, TypeOK
  <2> QED BY <2>1, <2>2, <2>3
<1>4. CASE Collect
  <2>1. ASSUME NEW i \in Slots, Event(i).terminate PROVE Event(i).status = "ok"
    <3>1. CASE result[i] = NoResult
      <4>1. ~Event(i).terminate
            BY <3>1 DEF Event
      <4> QED BY <2>1, <4>1
    <3>2. CASE result[i] # NoResult
      <4>1. Event(i) = result[i]
            BY <3>2 DEF Event
      <4> QED BY <2>1, <4>1
    <3> QED BY <3>1, <3>2
  <2>2. \A i \in Slots : result'[i] = IF i \in Running THEN Event(i) ELSE NoResult
        BY <1>4 DEF Collect
  <2>3. /\ pc = "batch" /\ pc' = "deliver" /\ ended' = ended /\ at' = 0
        BY <1>4 DEF Collect, Numbering
  <2>4. ended = "running" /\ \A n : n \notin 1..at'
        BY <2>3
  <2>5. ~NoResult.terminate
        BY DEF NoResult
  <2>6. \A i \in Slots : result'[i].terminate => result'[i].status = "ok"
        BY <2>1, <2>2, <2>5
  <2> QED BY <2>3, <2>4, <2>6
<1>5. CASE Deliver
  <2>0. at' \in Slots
        BY <1>5, ConfigAssumption DEF Deliver, TypeOK
  <2>1. /\ pc = "deliver" /\ at' = at + 1 /\ at' \in Slots
        /\ delivered' = Append(delivered, result[at'])
        /\ UNCHANGED <<pc, ended, base, result>>
        BY <1>5, <2>0 DEF Deliver, loop, batch
  <2>2. /\ at \in Nat /\ base \in Nat /\ Len(delivered) = base + at
        /\ delivered \in Seq(Results)
        BY <2>1 DEF Numbering, TypeOK
  <2>3. result[at'] \in Results
        BY <2>1 DEF TypeOK
  <2>4. ASSUME NEW n \in 1..at' PROVE delivered'[base + n] = result[n]
    <3>1. CASE n \in 1..at
      <4>1. base + n \in 1..Len(delivered)
            BY <2>2, <3>1
      <4>2. delivered'[base + n] = delivered[base + n]
            BY <2>1, <2>2, <2>3, <4>1
      <4> QED BY <2>1, <3>1, <4>2
    <3>2. CASE n = at'
      <4>1. base + n = Len(delivered) + 1
            BY <2>1, <2>2, <3>2
      <4>2. \A x \in Results : Append(delivered, x)[Len(delivered) + 1] = x
            BY <2>2
      <4> QED BY <2>1, <2>3, <3>2, <4>1, <4>2
    <3> QED BY SMTT(30), <2>1, <2>2, <3>1, <3>2
  <2> QED BY <2>1, <2>4
<1>6. CASE Continue
  <2>1. /\ pc = "deliver" /\ at = Len(calls)
        /\ UNCHANGED <<calls, base, result, at, delivered>>
        /\ pc' \in {"model", "done"} /\ (pc' = "model" => ended' = ended)
        /\ ended' = "terminated" => AllTerminate
        BY <1>6 DEF Continue, End, batch
  <2>2. at \in Nat /\ base \in Nat /\ Len(delivered) = base + at
        BY <2>1 DEF Numbering, TypeOK
  <2>3. ASSUME ended' = "terminated",
               NEW n \in (Len(delivered) - Len(calls) + 1)..Len(delivered)
        PROVE  delivered[n].status = "ok"
    <3>1. n - base \in 1..at /\ n = base + (n - base)
          BY SMTT(30), <2>1, <2>2
    <3>2. n - base \in Running /\ n - base \in Slots
          BY <2>1, <3>1, ConfigAssumption DEF Running, TypeOK
    <3>3. delivered[n] = result[n - base]
          BY <2>1, <3>1
    <3> QED BY <2>1, <2>3, <3>2, <3>3 DEF AllTerminate
  <2> QED BY <2>1, <2>3
<1>7. CASE UNCHANGED vars
      BY <1>7 DEF vars, loop, batch
<1> QED BY <1>1, <1>2, <1>3, <1>4, <1>5, <1>6, <1>7 DEF Next, Tool

(* A loop that ends without asking the model again has no failure to show. *)
THEOREM TerminationHidesNoFailure == Spec => []FailuresAreSeen
<1>1. Init => Ending
      BY DEF Init, Ending, FailuresAreSeen, NoResult
<1>2. Init => Numbering
      BY DEF Init, Numbering, SeqOrder, Running
<1>3. Ending => FailuresAreSeen
      BY DEF Ending
<1> QED BY <1>1, <1>2, <1>3, TypesHold, QuietHolds, NumberingStays, EndingStays, PTL
        DEF Spec

-----------------------------------------------------------------------------
(* When the provider names its calls, a call's number is its id, in the    *)
(* results and in the rows; and an invoked tool has its row or is still to *)
(* be handed over.                                                         *)
Stored(q) == \E n \in DOMAIN records : records[n].seq = q

Pending(q) ==
    \E i \in Running :
        q = SeqOf(i) /\ (pc = "batch" \/ (pc = "deliver" /\ i > at))

OwnIds ==
    /\ \A n \in DOMAIN records : records[n].seq = records[n].id
    /\ \A i \in Running : result[i] = NoResult \/ result[i].id = SeqOf(i)

Recording ==
    ~FallbackIds =>
        OwnIds /\ (dbFails = 0 => \A q \in effects : Stored(q) \/ Pending(q))

(* What a step does to the table: nothing, one more row, or a new status.  *)
LEMMA RecordSteps ==
    ASSUME TypeOK, [Next]_vars
    PROVE  \/ records' = records
           \/ \E i \in Slots, s \in {"ok", "error"} :
                 Settle(i) /\ records' = Append(records, Row(i, s, TRUE))
           \/ Deliver /\ Upsert(result[at'])
<1>1. Deliver => Upsert(result[at'])
      BY DEF Deliver
<1>2. \A i \in Slots : Settle(i) =>
          \/ records' = records
          \/ \E s \in {"ok", "error"} : records' = Append(records, Row(i, s, TRUE))
      BY DEF Settle
<1>3. /\ Answer \/ ModelFails \/ CallerStops \/ Ask \/ Collect \/ Continue
           => records' = records
      /\ \A i \in Slots : Check(i) \/ Invoke(i) => records' = records
      BY DEF Answer, ModelFails, CallerStops, Ask, AskTools, Collect, Continue,
             Check, Invoke
<1> QED BY <1>1, <1>2, <1>3 DEF Next, Tool, vars

(* No step takes a row's number away, and with the provider's ids a result *)
(* that is handed over leaves a row with its number.                       *)
LEMMA StoredStays ==
    ASSUME TypeOK, [Next]_vars, NEW q, Stored(q)
    PROVE  Stored(q)'
<1>1. PICK n \in DOMAIN records : records[n].seq = q
      BY DEF Stored
<1>2. records \in Seq(Rows) /\ n \in 1..Len(records) /\ Len(records) \in Nat
      BY DEF TypeOK
<1>3. CASE records' = records
      BY <1>1, <1>3 DEF Stored
<1>4. ASSUME NEW row, records' = Append(records, row)
      PROVE  Stored(q)'
  <2>1. n \in DOMAIN records' /\ records'[n] = records[n]
        BY <1>2, <1>4
  <2> QED BY <1>1, <2>1 DEF Stored
<1>5. ASSUME NEW ev, NEW m \in DOMAIN records,
             records' = [records EXCEPT ![m] = Updated(@, ev)]
      PROVE  Stored(q)'
  <2>1. records[n] \in Rows /\ records[m] \in Rows
        BY <1>2, <1>5
  <2>2. Updated(records[m], ev).seq = records[m].seq
        BY <2>1 DEF Updated, Rows
  <2>3. n \in DOMAIN records' /\ records'[n].seq = records[n].seq
        BY <1>2, <1>5, <2>2
  <2> QED BY <1>1, <2>3 DEF Stored
<1> QED BY <1>3, <1>4, <1>5, RecordSteps DEF Upsert, Created, RowsOf

LEMMA OwnIdsStay ==
    ASSUME TypeOK, Filled, Quiet, Numbering, ~FallbackIds, OwnIds, [Next]_vars
    PROVE  OwnIds'
<1> USE ConfigAssumption
<1>a. Running \subseteq Slots
      BY DEF Running, TypeOK
<1>b. records \in Seq(Rows) /\ Len(records) \in Nat /\ DOMAIN records = 1..Len(records)
      BY DEF TypeOK
<1>c. \A i : IdOf(i) = SeqOf(i)
      BY DEF IdOf
<1>d. \A n \in DOMAIN records : records[n].seq = records[n].id
      BY DEF OwnIds
<1>e. ASSUME NEW row, row.seq = row.id, records' = Append(records, row)
      PROVE  \A n \in DOMAIN records' : records'[n].seq = records'[n].id
  <2> TAKE n \in DOMAIN records'
  <2>1. n \in 1..(Len(records) + 1)
        BY <1>b, <1>e
  <2>2. records'[n] = IF n = Len(records) + 1 THEN row ELSE records[n]
        BY <1>b, <1>e, <2>1
  <2> QED BY <1>b, <1>d, <1>e, <2>1, <2>2
<1>1. \A n \in DOMAIN records' : records'[n].seq = records'[n].id
  <2>1. CASE records' = records
        BY <1>d, <2>1
  <2>2. ASSUME NEW i \in Slots, NEW s \in {"ok", "error"},
               records' = Append(records, Row(i, s, TRUE))
        PROVE  \A n \in DOMAIN records' : records'[n].seq = records'[n].id
    <3>1. Row(i, s, TRUE).seq = Row(i, s, TRUE).id
          BY <1>c DEF Row
    <3> QED BY <1>e, <2>2, <3>1
  <2>3. CASE Deliver /\ Upsert(result[at'])
    <3>1. at' \in Running
          BY <2>3 DEF Deliver, Running, TypeOK
    <3>2. result[at'].seq = SeqOf(at') /\ result[at'] # NoResult
          BY <2>3, <3>1 DEF Deliver, Numbering, Filled, NoResult
    <3>3. result[at'].id = result[at'].seq
          BY <3>1, <3>2 DEF OwnIds
    <3>4. ASSUME records' = Created(result[at'])
          PROVE  \A n \in DOMAIN records' : records'[n].seq = records'[n].id
          BY <1>e, <3>3, <3>4 DEF Created
    <3>5. ASSUME NEW m \in DOMAIN records,
                 records' = [records EXCEPT ![m] = Updated(@, result[at'])]
          PROVE  \A n \in DOMAIN records' : records'[n].seq = records'[n].id
      <4>1. records[m] \in Rows
            BY <1>b
      <4>2. /\ Updated(records[m], result[at']).seq = records[m].seq
            /\ Updated(records[m], result[at']).id = records[m].id
            BY <4>1 DEF Updated, Rows
      <4> QED BY <1>d, <3>5, <4>2
    <3> QED BY <2>1, <2>3, <3>4, <3>5 DEF Upsert, RowsOf
  <2> QED BY <2>1, <2>2, <2>3, RecordSteps
<1>2. \A i \in Running' : result'[i] = NoResult \/ result'[i].id = SeqOf(i)'
  <2>1. CASE UNCHANGED <<calls, base, result>>
        BY <2>1 DEF OwnIds, Running, SeqOf
  <2>2. CASE Ask
        BY <2>2 DEF Ask, AskTools, Batches, Running
  <2>3. ASSUME NEW i \in Slots, Check(i) \/ Settle(i)
        PROVE  \A j \in Running' : result'[j] = NoResult \/ result'[j].id = SeqOf(j)'
    <3>1. UNCHANGED <<calls, base>>
          BY <2>3 DEF Check, Settle
    <3>2. Running' = Running /\ \A j \in Running : SeqOf(j)' = SeqOf(j)
          BY <3>1 DEF Running, SeqOf
    <3>3. result' = result \/ \E s, t, h : Return(i, s, t, h)
          BY <2>3 DEF Check, Settle
    <3>4. ASSUME NEW s, NEW t, NEW h, Return(i, s, t, h), NEW j \in Slots
          PROVE  result'[j] = result[j] \/ result'[j].id = SeqOf(j)
          BY <1>c, <3>4 DEF Return, TypeOK
    <3> QED BY <1>a, <3>2, <3>3, <3>4 DEF OwnIds
  <2>4. CASE Collect
    <3>1. UNCHANGED <<calls, base>>
          BY <2>4 DEF Collect
    <3>2. Running' = Running /\ \A j \in Running : SeqOf(j)' = SeqOf(j)
          BY <3>1 DEF Running, SeqOf
    <3>3. \A j \in Running : result'[j] = Event(j)
          BY <1>a, <2>4 DEF Collect
    <3>4. ASSUME NEW j \in Running PROVE Event(j).id = SeqOf(j)
          BY <1>c DEF Event, OwnIds
    <3> QED BY <3>2, <3>3, <3>4
  <2>5. Answer \/ ModelFails \/ CallerStops \/ Deliver \/ Continue
          => UNCHANGED <<calls, base, result>>
        BY DEF Answer, ModelFails, CallerStops, Deliver, Continue, loop, batch
  <2>6. \A i \in Slots : Invoke(i) => UNCHANGED <<calls, base, result>>
        BY DEF Invoke
  <2> QED BY <2>1, <2>2, <2>3, <2>4, <2>5, <2>6 DEF Next, Tool, vars, batch
<1> QED BY <1>1, <1>2 DEF OwnIds

LEMMA RecordingStays ==
    TypeOK /\ Filled /\ Quiet /\ Numbering /\ Recording /\ [Next]_vars => Recording'
<1> SUFFICES ASSUME TypeOK, Filled, Quiet, Numbering, Recording, [Next]_vars,
                    ~FallbackIds
             PROVE  /\ OwnIds'
                    /\ dbFails' = 0 => \A q \in effects' : Stored(q)' \/ Pending(q)'
    BY DEF Recording
<1> USE ConfigAssumption
<1>1. OwnIds /\ OwnIds'
      BY OwnIdsStay DEF Recording
<1>2. dbFails' = 0 => dbFails = 0
  <2>1. \A i \in Slots : Tool(i) => dbFails' = dbFails \/ DBFails
        BY DEF Tool, Check, Invoke, Settle
  <2>2. Answer \/ ModelFails \/ CallerStops \/ Ask \/ Collect \/ Deliver \/ Continue
          => dbFails' = dbFails \/ DBFails
        BY DEF Answer, ModelFails, CallerStops, Ask, AskTools, Collect, Deliver, Upsert,
               Continue
  <2> QED BY <2>1, <2>2 DEF DBFails, Next, vars, TypeOK
<1> SUFFICES ASSUME dbFails' = 0, NEW q \in effects'
             PROVE  Stored(q)' \/ Pending(q)'
    BY <1>1
<1>3. \A p \in effects : Stored(p) \/ Pending(p)
      BY <1>2 DEF Recording
<1>4. q \in effects /\ Stored(q) => Stored(q)'
      BY StoredStays
<1>5. CASE UNCHANGED <<pc, calls, base, at, effects>>
      BY <1>3, <1>4, <1>5 DEF Pending, Running, SeqOf
<1>6. CASE pc = "model" /\ effects' = effects
      BY <1>3, <1>4, <1>6 DEF Pending
<1>7. ASSUME NEW i \in Slots, Invoke(i) PROVE Stored(q)' \/ Pending(q)'
  <2>1. UNCHANGED <<pc, calls, base, at>> /\ effects' = effects \cup {SeqOf(i)}
        BY <1>7 DEF Invoke, loop
  <2>2. pc = "batch" /\ i \in Running
        BY <1>7 DEF Invoke, Quiet
  <2>3. q \in effects \/ q = SeqOf(i)
        BY <2>1
  <2>4. q = SeqOf(i) => Pending(q)'
        BY <2>1, <2>2 DEF Pending, Running, SeqOf
  <2>5. Pending(q) => Pending(q)'
        BY <2>1 DEF Pending, Running, SeqOf
  <2> QED BY <1>3, <1>4, <2>3, <2>4, <2>5
<1>8. ASSUME NEW i \in Slots, Check(i) \/ Settle(i)
      PROVE  UNCHANGED <<pc, calls, base, at, effects>>
      BY <1>8 DEF Check, Settle, loop
<1>9. CASE Collect
  <2>1. /\ pc = "batch" /\ pc' = "deliver" /\ at' = 0
        /\ UNCHANGED <<calls, base, effects>>
        BY <1>9 DEF Collect, Numbering
  <2>2. \A i \in Running : i > 0
        BY DEF Running, TypeOK
  <2> QED BY <1>3, <1>4, <2>1, <2>2 DEF Pending, Running, SeqOf
<1>10. CASE Deliver
  <2>1. /\ pc = "deliver" /\ at' = at + 1 /\ at \in Nat /\ at' \in Running
        /\ UNCHANGED <<pc, calls, base, effects>> /\ Upsert(result[at'])
        BY <1>10 DEF Deliver, Running, TypeOK, loop, batch
  <2>2. result[at'].seq = SeqOf(at') /\ result[at'] # NoResult
        BY <2>1 DEF Numbering, Filled, NoResult
  <2>3. result[at'].id = SeqOf(at')
        BY <1>1, <2>1, <2>2 DEF OwnIds
  <2>4. \E n \in DOMAIN records' : records'[n].seq = SeqOf(at')
    <3>1. records \in Seq(Rows) /\ Len(records) \in Nat
          BY DEF TypeOK
    <3>2. ASSUME NEW n \in RowsOf(result[at']),
                 records' = [records EXCEPT ![n] = Updated(@, result[at'])]
          PROVE  \E m \in DOMAIN records' : records'[m].seq = SeqOf(at')
      <4>1. n \in DOMAIN records /\ records[n].id = result[at'].id /\ records[n] \in Rows
            BY <3>1 DEF RowsOf
      <4>2. records[n].seq = SeqOf(at')
            BY <1>1, <2>3, <4>1 DEF OwnIds
      <4>3. Updated(records[n], result[at']).seq = records[n].seq
            BY <4>1 DEF Updated, Rows
      <4>4. n \in DOMAIN records' /\ records'[n].seq = SeqOf(at')
            BY <3>2, <4>1, <4>2, <4>3
      <4> QED BY <4>4
    <3>3. ASSUME records' = Created(result[at'])
          PROVE  \E m \in DOMAIN records' : records'[m].seq = SeqOf(at')
      <4> DEFINE row == [id |-> result[at'].id, seq |-> result[at'].seq,
                         status |-> result[at'].status, full |-> FALSE]
      <4>1. row.seq = SeqOf(at') /\ records' = Append(records, row)
            BY <2>2, <3>3 DEF Created
      <4> HIDE DEF row
      <4>2. Len(records) + 1 \in DOMAIN records' /\ records'[Len(records) + 1] = row
            BY <3>1, <4>1
      <4> QED BY <4>1, <4>2
    <3>4. ~DBFails
          BY DEF DBFails, TypeOK
    <3> QED BY <2>1, <3>2, <3>3, <3>4 DEF Upsert
  <2>5. ASSUME Pending(q), q # SeqOf(at') PROVE Pending(q)'
    <3>1. PICK i \in Running : q = SeqOf(i) /\ i > at
          BY <2>1, <2>5 DEF Pending
    <3>2. i > at'
          BY <2>1, <2>5, <3>1 DEF Running, TypeOK
    <3> QED BY <2>1, <3>1, <3>2 DEF Pending, Running, SeqOf
  <2> QED BY <1>3, <1>4, <2>1, <2>4, <2>5 DEF Stored
<1>11. CASE Continue
  <2>1. /\ pc = "deliver" /\ at = Len(calls) /\ effects' = effects
        BY <1>11 DEF Continue
  <2>2. ~Pending(q)
        BY <2>1 DEF Pending, Running, TypeOK
  <2> QED BY <1>3, <1>4, <2>1, <2>2
<1>12. Answer \/ ModelFails \/ CallerStops \/ Ask => pc = "model" /\ effects' = effects
      BY DEF Answer, ModelFails, CallerStops, Ask, AskTools
<1>13. UNCHANGED vars => UNCHANGED <<pc, calls, base, at, effects>>
      BY DEF vars, loop, batch
<1> QED BY <1>5, <1>6, <1>7, <1>8, <1>9, <1>10, <1>11, <1>12, <1>13 DEF Next, Tool

(* When the loop has ended, every tool that was invoked has its record,    *)
(* whichever calls were spilled, failed or ended their goroutine; unless   *)
(* the record store failed or the provider named calls by their place.     *)
THEOREM InvokedIsRecorded == Spec => []EffectsRecorded
<1>1. Init => Recording
      BY DEF Init, Recording, OwnIds, Running
<1>2. Init => Numbering
      BY DEF Init, Numbering, SeqOrder, Running
<1>3. Recording => EffectsRecorded
      BY DEF Recording, Pending, Stored, EffectsRecorded
<1> QED BY <1>1, <1>2, <1>3, TypesHold, QuietHolds, NumberingStays, RecordingStays, PTL
        DEF Spec

=============================================================================
