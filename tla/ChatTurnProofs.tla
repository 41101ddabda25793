--------------------------- MODULE ChatTurnProofs ---------------------------
(***************************************************************************)
(* Proofs about ChatTurn for every set of deliveries, keys and requests    *)
(* and every bound on failures.                                            *)
(***************************************************************************)
EXTENDS ChatTurnProps, TLAPS

(* A goroutine in front of a database call of acquireTurn has a key.       *)
ClaimsAreKeyed == \A d \in Deliveries : pc[d] \in Acquiring => Key(d) \in Keys

TypeInv == TypeOK /\ ClaimsAreKeyed

(* The row a delivery works on, and that of every holder, exists.          *)
RowsExist ==
    \A d \in Deliveries :
        pc[d] \in {"created", "dup", "rerun", "exec"} /\ Key(d) \in Keys
            => turn[Key(d)].status # "absent"

(* Whoever holds or is about to take a key was let through by the digest   *)
(* and owner checks against the row as it still is.                        *)
ClaimantsMatch ==
    \A d \in Deliveries :
        pc[d] \in {"created", "rerun", "exec"} /\ Key(d) \in Keys
            => MayUse(turn[Key(d)], d)

(* A stored answer was produced by a delivery the row would admit.         *)
AnswersMatch ==
    \A k \in Keys :
        turn[k].status = "succeeded" =>
            /\ turn[k].result.by \in Deliveries
            /\ Key(turn[k].result.by) = k
            /\ MayUse(turn[k], turn[k].result.by)

(* A replayed answer came from the row, and the row still admits both the  *)
(* delivery that got it and the one that produced it.                      *)
ReplaysMatch ==
    \A d \in Deliveries :
        replay[d] # NoAnswer =>
            /\ Key(d) \in Keys
            /\ turn[Key(d)].status # "absent"
            /\ replay[d].by \in Deliveries
            /\ Key(replay[d].by) = Key(d)
            /\ MayUse(turn[Key(d)], d)
            /\ MayUse(turn[Key(d)], replay[d].by)

ReplayInv == RowsExist /\ ClaimantsMatch /\ AnswersMatch /\ ReplaysMatch

-----------------------------------------------------------------------------
(* The final status is one of the statuses, the final result an answer.    *)
LEMMA FinalTypes ==
    ASSUME NEW d \in Deliveries, NEW e \in BOOLEAN, NEW w \in BOOLEAN
    PROVE  /\ FinalStatus(d, e) \in {"succeeded", "failed", "interrupted", "cancelled"}
           /\ FinalResult(d, e, w) \in Answers
           /\ FinalStatus(d, e) = "succeeded" => FinalResult(d, e, w).by = d
  BY DEF FinalStatus, FinalResult, Answers, NoAnswer

(* A row whose status and result are overwritten is still a row.           *)
LEMMA RowUpdate ==
    ASSUME NEW row \in Rows, NEW s \in Statuses, NEW a \in Answers
    PROVE  [row EXCEPT !.status = s, !.result = a] \in Rows
  BY DEF Rows

LEMMA StatusUpdate ==
    ASSUME NEW row \in Rows, NEW s \in Statuses
    PROVE  [row EXCEPT !.status = s] \in Rows
  BY DEF Rows

LEMMA InitTypes == Init => TypeInv
  BY NamesAssumption, RequestsAssumption, BoundsAssumption
  DEF Init, TypeInv, TypeOK, ClaimsAreKeyed, Rows, NoRow, Statuses, Answers,
      NoAnswer, Phases, Acquiring

LEMMA StepTypes ==
    ASSUME TypeInv, [Next]_vars
    PROVE  TypeInv'
  <1> USE NamesAssumption, RequestsAssumption, BoundsAssumption
  <1> USE DEF TypeInv, TypeOK, ClaimsAreKeyed, Key, Goto, bounds, history, local
  <1>1. \A d \in Deliveries : Key(d) \in Keys \cup {NoKey}
    BY DEF RequestType
  <1>2. ASSUME NEW d \in Deliveries, Arrive(d)
        PROVE  TypeInv'
    BY <1>1, <1>2 DEF Arrive, Phases, Acquiring
  <1>3. ASSUME NEW d \in Deliveries, NewRow(d) \in Rows,
               Insert(d) \/ InsertFails(d)
        PROVE  TypeInv'
    BY <1>1, <1>3 DEF Insert, InsertFails, CallFails, Phases, Acquiring
  <1>4. \A d \in Deliveries : NewRow(d) \in Rows
    BY DEF NewRow, Rows, Statuses, Answers, NoAnswer, RequestType
  <1>5. ASSUME NEW k \in Keys, MakeRunning(k)
        PROVE  turn' \in [Keys -> Rows]
    <2>1. NoAnswer \in Answers /\ "running" \in Statuses
      BY DEF NoAnswer, Answers, Statuses
    <2>2. [turn[k] EXCEPT !.status = "running", !.result = NoAnswer] \in Rows
      BY <2>1, RowUpdate
    <2> QED
      BY <1>5, <2>2 DEF MakeRunning
  <1>6. ASSUME NEW d \in Deliveries,
               SetRunning(d) \/ SetRunningFails(d) \/ Rerun(d) \/ RerunFails(d)
        PROVE  TypeInv'
    <2>1. Key(d) \in Keys
      BY <1>6 DEF SetRunning, SetRunningFails, Rerun, RerunFails, Acquiring
    <2>2. turn' \in [Keys -> Rows]
      BY <1>5, <1>6, <2>1 DEF SetRunning, SetRunningFails, Rerun, RerunFails
    <2> QED
      BY <1>6, <2>1, <2>2 DEF SetRunning, SetRunningFails, Rerun, RerunFails,
           CallFails, Phases, Acquiring
  <1>7. ASSUME NEW d \in Deliveries, ReadExisting(d) \/ ReadExistingFails(d)
        PROVE  TypeInv'
    <2>1. Key(d) \in Keys
      BY <1>7 DEF ReadExisting, ReadExistingFails, Acquiring
    <2>2. turn[Key(d)].result \in Answers
      BY <2>1 DEF Rows
    <2> QED
      BY <1>7, <2>1, <2>2 DEF ReadExisting, ReadExistingFails, CallFails,
           Phases, Acquiring
  <1>8. ASSUME NEW d \in Deliveries, NEW e \in BOOLEAN, NEW w \in BOOLEAN,
               FinishTurn(d, e, w)
        PROVE  TypeInv'
    <2>1. FinalStatus(d, e) \in Statuses /\ FinalResult(d, e, w) \in Answers
      BY FinalTypes DEF Statuses
    <2>2. turn' \in [Keys -> Rows]
      <3> DEFINE row == [turn[Key(d)] EXCEPT !.status = FinalStatus(d, e),
                                             !.result = FinalResult(d, e, w)]
      <3>1. Key(d) \in Keys => row \in Rows
        BY <2>1, RowUpdate
      <3>2. turn' = turn \/ turn' = [turn EXCEPT ![Key(d)] = row]
        BY <1>8 DEF FinishTurn
      <3> QED
        BY <3>1, <3>2
    <2>3. everFailed' \in SUBSET Keys
      BY <1>1, <1>8 DEF FinishTurn
    <2> QED
      BY <1>8, <2>2, <2>3 DEF FinishTurn, Phases, Acquiring
  <1>9. ASSUME NEW d \in Deliveries,
               RunTool(d) \/ StartStreamFails(d) \/ ClientCancel(d)
        PROVE  TypeInv'
    BY <1>9 DEF RunTool, StartStreamFails, ClientCancel, Phases, Acquiring
  <1>10. Reclaimed \in [Keys -> Rows]
    <2>1. \A k \in Keys : [turn[k] EXCEPT !.status = "interrupted"] \in Rows
      BY StatusUpdate DEF Statuses
    <2> QED
      BY <2>1 DEF Reclaimed
  <1>11. CASE Process
    <2>1. CASE Crash
      <3>1. \A d \in Deliveries : pc'[d] \in {pc[d], "lost"}
        BY <2>1 DEF Crash
      <3>2. pc' \in [Deliveries -> Phases]
        BY <2>1 DEF Crash, Phases
      <3>3. "lost" \notin Acquiring
        BY DEF Acquiring
      <3>4. crashes' \in 0..MaxCrash
        BY <2>1 DEF Crash
      <3> QED
        BY <2>1, <3>1, <3>2, <3>3, <3>4 DEF Crash
    <2>2. CASE Restart
      BY <1>10, <2>2 DEF Restart
    <2>3. CASE RestartWithoutReclaim
      BY <2>3 DEF RestartWithoutReclaim
    <2>4. CASE ForeignInitDB
      <3>1. foreigns' \in 0..MaxForeign
        BY <2>4 DEF ForeignInitDB
      <3> QED
        BY <1>10, <2>4, <3>1 DEF ForeignInitDB
    <2> QED
      BY <1>11, <2>1, <2>2, <2>3, <2>4 DEF Process
  <1>12. CASE UNCHANGED vars
    BY <1>12 DEF vars
  <1> QED
    BY <1>2, <1>3, <1>4, <1>6, <1>7, <1>8, <1>9, <1>11, <1>12
    DEF Next, Step, Acquire, CallFailure, Conclude, Complete, Fail, BreakStream,
        StreamCutOff

LEMMA TypeInvariant == Spec => []TypeInv
  BY InitTypes, StepTypes, PTL DEF Spec

(* Every row, phase, flag and counter of the handlers keeps its type.      *)
THEOREM TypeCorrect == Spec => []TypeOK
  <1>1. TypeInv => TypeOK
    BY DEF TypeInv
  <1> QED
    BY <1>1, TypeInvariant, PTL

-----------------------------------------------------------------------------
(* What one step may do to a delivery's phase, to a row and to a replayed  *)
(* answer; the invariants below follow from these three facts.             *)
PhaseMove(d) ==
    \/ pc'[d] = pc[d]
    \/ pc'[d] \in {"insert", "done", "lost"}
    \/ pc'[d] = "exec" /\ Key(d) \notin Keys
    \/ /\ pc[d] = "insert" /\ pc'[d] = "created"
       /\ turn[Key(d)].status = "absent" /\ turn'[Key(d)] = NewRow(d)
       /\ \A e \in Deliveries \ {d} : pc'[e] = pc[e]
    \/ /\ pc[d] = "insert" /\ pc'[d] = "dup"
       /\ turn[Key(d)].status # "absent"
    \/ pc[d] = "created" /\ pc'[d] = "exec"
    \/ pc[d] = "dup" /\ pc'[d] = "rerun" /\ MayUse(turn[Key(d)], d)
    \/ pc[d] = "rerun" /\ pc'[d] = "exec" /\ Key(d) \in reopened'

RowMove(k) ==
    /\ turn[k].status # "absent" =>
          /\ turn'[k].status # "absent"
          /\ turn'[k].digest = turn[k].digest
          /\ turn'[k].owner = turn[k].owner
    /\ turn'[k].status = "succeeded" =>
          \/ turn'[k] = turn[k]
          \/ \E d \in Deliveries :
                Key(d) = k /\ pc[d] = "exec" /\ turn'[k].result.by = d

ReplayMove(d) ==
    \/ replay'[d] = replay[d]
    \/ /\ pc[d] = "dup"
       /\ turn[Key(d)].status = "succeeded"
       /\ MayUse(turn[Key(d)], d)
       /\ replay'[d] = turn[Key(d)].result

LEMMA Moves ==
    ASSUME TypeInv, [Next]_vars
    PROVE  /\ req' = req /\ reopened \subseteq reopened'
           /\ \A d \in Deliveries : PhaseMove(d)
           /\ \A k \in Keys : RowMove(k)
           /\ \A d \in Deliveries : ReplayMove(d)
  <1> DEFINE Goal ==
        /\ req' = req /\ reopened \subseteq reopened'
        /\ \A d \in Deliveries : PhaseMove(d)
        /\ \A k \in Keys : RowMove(k)
        /\ \A d \in Deliveries : ReplayMove(d)
  <1> USE NamesAssumption
  <1> USE DEF TypeInv, TypeOK, ClaimsAreKeyed, Goto, bounds, history, local,
              PhaseMove, RowMove, ReplayMove
  <1>1. ASSUME NEW d \in Deliveries, Arrive(d)
        PROVE  Goal
    BY <1>1 DEF Arrive
  <1>2. ASSUME NEW d \in Deliveries, Insert(d)
        PROVE  Goal
    BY <1>2 DEF Insert, CanInsert, NewRow, Acquiring
  <1>3. ASSUME NEW d \in Deliveries, InsertFails(d)
        PROVE  Goal
    BY <1>3 DEF InsertFails, CanInsert, NewRow, Acquiring
  <1>4. ASSUME NEW k \in Keys, MakeRunning(k)
        PROVE  \A j \in Keys : RowMove(j)
    <2>1. \A j \in Keys \ {k} : turn'[j] = turn[j]
      BY <1>4 DEF MakeRunning
    <2>2. /\ turn'[k].status = "running"
          /\ turn'[k].digest = turn[k].digest /\ turn'[k].owner = turn[k].owner
      BY <1>4 DEF MakeRunning, Rows
    <2> QED
      BY <2>1, <2>2
  <1>5. ASSUME NEW d \in Deliveries,
               SetRunning(d) \/ SetRunningFails(d) \/ Rerun(d) \/ RerunFails(d)
        PROVE  Goal
    <2>1. Key(d) \in Keys
      BY <1>5 DEF SetRunning, SetRunningFails, Rerun, RerunFails, Acquiring
    <2>2. \A j \in Keys : RowMove(j)
      BY <1>4, <1>5, <2>1 DEF SetRunning, SetRunningFails, Rerun, RerunFails
    <2> QED
      BY <1>5, <2>2 DEF SetRunning, SetRunningFails, Rerun, RerunFails
  <1>6. ASSUME NEW d \in Deliveries, ReadExisting(d) \/ ReadExistingFails(d)
        PROVE  Goal
    BY <1>6 DEF ReadExisting, ReadExistingFails
  <1>7. ASSUME NEW d \in Deliveries, NEW e \in BOOLEAN, NEW w \in BOOLEAN,
               FinishTurn(d, e, w)
        PROVE  Goal
    <2> DEFINE row == [turn[Key(d)] EXCEPT !.status = FinalStatus(d, e),
                                           !.result = FinalResult(d, e, w)]
    <2>1. turn' = turn \/ turn' = [turn EXCEPT ![Key(d)] = row]
      BY <1>7 DEF FinishTurn
    <2>2. Key(d) \in Keys =>
            /\ row.status = FinalStatus(d, e) /\ row.result = FinalResult(d, e, w)
            /\ row.digest = turn[Key(d)].digest /\ row.owner = turn[Key(d)].owner
      BY DEF Rows
    <2>3. pc[d] = "exec"
      BY <1>7 DEF FinishTurn
    <2> HIDE DEF row
    <2>4. \A k \in Keys : RowMove(k)
      BY <2>1, <2>2, <2>3, FinalTypes
    <2> QED
      BY <1>7, <2>4 DEF FinishTurn
  <1>8. ASSUME NEW d \in Deliveries,
               RunTool(d) \/ StartStreamFails(d) \/ ClientCancel(d)
        PROVE  Goal
    BY <1>8 DEF RunTool, StartStreamFails, ClientCancel
  <1>9. CASE Process
    <2>1. CASE turn' = Reclaimed
      <3>1. \A k \in Keys : RowMove(k)
        <4> TAKE k \in Keys
        <4>1. CASE turn[k].status \in Unfinished
          BY <2>1, <4>1 DEF Reclaimed, Rows, Unfinished
        <4>2. CASE turn[k].status \notin Unfinished
          BY <2>1, <4>2 DEF Reclaimed
        <4> QED
          BY <4>1, <4>2
      <3> QED
        BY <1>9, <3>1 DEF Process, Crash, Restart, RestartWithoutReclaim,
             ForeignInitDB
    <2>2. CASE UNCHANGED turn
      BY <1>9, <2>2 DEF Process, Crash, Restart, RestartWithoutReclaim,
           ForeignInitDB
    <2> QED
      BY <1>9, <2>1, <2>2 DEF Process, Crash, Restart, RestartWithoutReclaim,
           ForeignInitDB
  <1>10. CASE UNCHANGED vars
    BY <1>10 DEF vars
  <1> QED
    BY <1>1, <1>2, <1>3, <1>5, <1>6, <1>7, <1>8, <1>9, <1>10
    DEF Next, Step, Acquire, CallFailure, Conclude, Complete, Fail, BreakStream,
        StreamCutOff

-----------------------------------------------------------------------------
(* The first run of a key is exclusive because a holder's row exists and   *)
(* the insert that makes another holder needs it not to.                   *)
FirstRunInv == RowsExist /\ FirstRunExclusive

LEMMA RowsExistStep ==
    ASSUME TypeInv, RowsExist, [Next]_vars
    PROVE  RowsExist'
  <1> SUFFICES ASSUME NEW d \in Deliveries,
                      pc'[d] \in {"created", "dup", "rerun", "exec"},
                      Key(d)' \in Keys
               PROVE  turn'[Key(d)'].status # "absent"
    BY DEF RowsExist
  <1>1. Key(d)' = Key(d) /\ PhaseMove(d) /\ RowMove(Key(d))
    BY Moves DEF Key
  <1>2. NewRow(d).status # "absent"
    BY DEF NewRow
  <1> QED
    BY <1>1, <1>2 DEF RowsExist, PhaseMove, RowMove

LEMMA FirstRunStep ==
    ASSUME TypeInv, FirstRunInv, [Next]_vars
    PROVE  FirstRunInv'
  <1>1. RowsExist'
    BY RowsExistStep DEF FirstRunInv
  <1>2. ASSUME NEW k \in Keys \ reopened', NEW d \in Holders(k)',
               NEW e \in Holders(k)'
        PROVE  d = e
    <2>1. /\ d \in Deliveries /\ e \in Deliveries
          /\ Key(d) = k /\ Key(e) = k
          /\ pc'[d] \in {"created", "exec"} /\ pc'[e] \in {"created", "exec"}
      BY Moves DEF Holders, Key
    <2>2. PhaseMove(d) /\ PhaseMove(e) /\ k \in Keys \ reopened
      BY <2>1, Moves
    <2>3. CASE d \in Holders(k) /\ e \in Holders(k)
      BY <2>2, <2>3 DEF FirstRunInv, FirstRunExclusive
    <2>4. ASSUME NEW f \in {d, e}, f \notin Holders(k)
          PROVE  /\ turn[k].status = "absent"
                 /\ \A g \in Deliveries \ {f} : pc'[g] = pc[g]
      BY <2>1, <2>2, <2>4 DEF Holders, PhaseMove
    <2>5. turn[k].status = "absent" => Holders(k) = {}
      BY DEF FirstRunInv, RowsExist, Holders
    <2>6. CASE d \notin Holders(k)
      BY <2>1, <2>4, <2>5, <2>6 DEF Holders
    <2>7. CASE e \notin Holders(k)
      BY <2>1, <2>4, <2>5, <2>7 DEF Holders
    <2> QED
      BY <2>3, <2>6, <2>7
  <1> QED
    BY <1>1, <1>2 DEF FirstRunInv, FirstRunExclusive

(* However deliveries overlap, fail, crash and are reclaimed, a key that   *)
(* was never rerun has at most one execution.                              *)
THEOREM FirstRunIsExclusive == Spec => []FirstRunExclusive
  <1>1. Init => FirstRunInv
    BY DEF Init, FirstRunInv, RowsExist, FirstRunExclusive, Holders
  <1>2. TypeInv /\ FirstRunInv /\ [Next]_vars => FirstRunInv'
    BY FirstRunStep
  <1>3. FirstRunInv => FirstRunExclusive
    BY DEF FirstRunInv
  <1> QED
    BY <1>1, <1>2, <1>3, TypeInvariant, PTL DEF Spec

-----------------------------------------------------------------------------
(* The digest and owner of a row never change, so who was admitted once    *)
(* stays admitted.                                                         *)
LEMMA AdmissionStays ==
    ASSUME TypeInv, [Next]_vars, NEW k \in Keys, NEW d \in Deliveries,
           turn[k].status # "absent", MayUse(turn[k], d)
    PROVE  MayUse(turn'[k], d) /\ turn'[k].status # "absent"
  BY Moves DEF RowMove, MayUse, SameContent, SameOwner

LEMMA ReplayStep ==
    ASSUME TypeInv, ReplayInv, [Next]_vars
    PROVE  ReplayInv'
  <1>1. RowsExist'
    BY RowsExistStep DEF ReplayInv
  <1>2. \A d \in Deliveries : Key(d)' = Key(d)
    BY Moves DEF Key
  <1>3. \A d \in Deliveries, k \in Keys :
          MayUse(turn[k], d)' <=> MayUse(turn'[k], d)
    BY Moves DEF MayUse, SameContent, SameOwner
  <1>4. ClaimantsMatch'
    <2> SUFFICES ASSUME NEW d \in Deliveries,
                        pc'[d] \in {"created", "rerun", "exec"}, Key(d) \in Keys
                 PROVE  MayUse(turn'[Key(d)], d)
      BY <1>2, <1>3 DEF ClaimantsMatch
    <2>1. PhaseMove(d)
      BY Moves
    <2>2. CASE pc[d] \in {"created", "rerun", "exec"}
      BY <2>2, AdmissionStays, <1>2 DEF ReplayInv, RowsExist, ClaimantsMatch
    <2>3. CASE pc[d] = "insert" /\ turn'[Key(d)] = NewRow(d)
      BY <2>3, <1>2, Moves DEF NewRow, MayUse, SameContent, SameOwner
    <2>4. CASE pc[d] = "dup" /\ MayUse(turn[Key(d)], d)
      BY <2>4, AdmissionStays, <1>2 DEF ReplayInv, RowsExist
    <2> QED
      BY <2>1, <2>2, <2>3, <2>4 DEF PhaseMove
  <1>5. AnswersMatch'
    <2> SUFFICES ASSUME NEW k \in Keys, turn'[k].status = "succeeded"
                 PROVE  /\ turn'[k].result.by \in Deliveries
                        /\ Key(turn'[k].result.by) = k
                        /\ MayUse(turn'[k], turn'[k].result.by)
      BY <1>2, <1>3, Moves DEF AnswersMatch, MayUse, SameContent, SameOwner
    <2>1. CASE turn'[k] = turn[k]
      BY <2>1, AdmissionStays DEF ReplayInv, AnswersMatch
    <2>2. ASSUME NEW d \in Deliveries, Key(d) = k, pc[d] = "exec",
                 turn'[k].result.by = d
          PROVE  MayUse(turn'[k], d)
      BY <2>2, AdmissionStays DEF ReplayInv, RowsExist, ClaimantsMatch
    <2> QED
      BY <2>1, <2>2, Moves DEF RowMove
  <1>6. ReplaysMatch'
    <2> SUFFICES ASSUME NEW d \in Deliveries, replay'[d] # NoAnswer
                 PROVE  /\ Key(d) \in Keys
                        /\ turn'[Key(d)].status # "absent"
                        /\ replay'[d].by \in Deliveries
                        /\ Key(replay'[d].by) = Key(d)
                        /\ MayUse(turn'[Key(d)], d)
                        /\ MayUse(turn'[Key(d)], replay'[d].by)
      BY <1>2, Moves DEF ReplaysMatch, MayUse, SameContent, SameOwner
    <2>1. CASE replay'[d] = replay[d]
      BY <2>1, <1>2, AdmissionStays DEF ReplayInv, ReplaysMatch
    <2>2. CASE /\ pc[d] = "dup"
               /\ turn[Key(d)].status = "succeeded"
               /\ MayUse(turn[Key(d)], d)
               /\ replay'[d] = turn[Key(d)].result
      <3>1. Key(d) \in Keys
        BY <2>2 DEF TypeInv, ClaimsAreKeyed, Acquiring
      <3> QED
        BY <2>2, <3>1, <1>2, AdmissionStays DEF ReplayInv, AnswersMatch
    <2> QED
      BY <2>1, <2>2, Moves DEF ReplayMove
  <1> QED
    BY <1>1, <1>4, <1>5, <1>6 DEF ReplayInv

(* A replayed answer was produced by an execution of the same key and      *)
(* content, and of no other user unless the turn is anonymous.             *)
THEOREM ReplaysAreGenuine == Spec => []ReplayIsGenuine
  <1>1. Init => ReplayInv
    BY DEF Init, ReplayInv, RowsExist, ClaimantsMatch, AnswersMatch,
           ReplaysMatch, NoRow
  <1>2. TypeInv /\ ReplayInv /\ [Next]_vars => ReplayInv'
    BY ReplayStep
  <1>3. TypeInv /\ ReplayInv => ReplayIsGenuine
    BY DEF TypeInv, TypeOK, ReplayInv, ReplaysMatch, ReplayIsGenuine, SameParty,
           MayUse, SameContent, SameOwner
  <1> QED
    BY <1>1, <1>2, <1>3, TypeInvariant, PTL DEF Spec

-----------------------------------------------------------------------------
(* Deliveries that do not overlap while they claim a key.  Then the row a  *)
(* claimant read cannot change under it: it is changed by the holder only, *)
(* and a row that may be rerun has none.                                   *)
OneClaimant ==
    \A d, e \in Deliveries :
        Key(d) = Key(e) /\ pc[d] \in Acquiring /\ pc[e] \in Acquiring => d = e

HeldStatuses == {"queued", "running", "interrupted"}

HeldRows ==
    \A d \in Deliveries :
        pc[d] \in {"created", "exec"} /\ Key(d) \in Keys
            => turn[Key(d)].status \in HeldStatuses

RerunRows ==
    \A d \in Deliveries : pc[d] = "rerun" => turn[Key(d)].status \in Rerunnable

OneHolder ==
    \A d, e \in Deliveries :
        /\ Key(d) = Key(e) /\ Key(d) \in Keys
        /\ pc[d] \in {"created", "exec"} /\ pc[e] \in {"created", "exec"}
        => d = e

SpacedInv == OneClaimant /\ HeldRows /\ RerunRows /\ OneHolder

(* How the status of a row changes: only the delivery that steps changes a *)
(* row, and only the row of its key; a reclaim changes unfinished rows.    *)
LEMMA RowStatus ==
    ASSUME TypeInv, NEW k \in Keys
    PROVE  /\ MakeRunning(k) =>
                 \A j \in Keys : turn'[j].status = IF j = k THEN "running" ELSE turn[j].status
           /\ \A j \in Keys : Reclaimed[j].status =
                 IF turn[j].status \in Unfinished THEN "interrupted" ELSE turn[j].status
<1> USE DEF TypeInv, TypeOK
<1>1. ASSUME MakeRunning(k), NEW j \in Keys
      PROVE  turn'[j].status = IF j = k THEN "running" ELSE turn[j].status
      BY <1>1 DEF MakeRunning, Rows
<1>2. ASSUME NEW j \in Keys
      PROVE  Reclaimed[j].status =
                 IF turn[j].status \in Unfinished THEN "interrupted" ELSE turn[j].status
      BY DEF Reclaimed, Rows
<1> QED BY <1>1, <1>2

LEMMA StepSpaced ==
    ASSUME Spaced, TypeInv, SpacedInv, [Next]_vars
    PROVE  SpacedInv'
<1> USE NamesAssumption
<1> USE DEF TypeInv, TypeOK, ClaimsAreKeyed, Goto, bounds, history, local, Key, Acquiring,
            SpacedInv, OneClaimant, HeldRows, RerunRows, OneHolder, HeldStatuses, Rerunnable
<1>1. ASSUME NEW d \in Deliveries, Arrive(d)
      PROVE  SpacedInv'
      BY <1>1 DEF Arrive
<1>2. ASSUME NEW d \in Deliveries, Insert(d)
      PROVE  SpacedInv'
      BY SMTT(30), <1>2 DEF Insert, CanInsert, NewRow
<1>3. ASSUME NEW d \in Deliveries, InsertFails(d)
      PROVE  SpacedInv'
      BY <1>3 DEF InsertFails, CanInsert, NewRow
<1>4. ASSUME NEW d \in Deliveries, SetRunning(d) \/ SetRunningFails(d)
      PROVE  SpacedInv'
      BY <1>4, RowStatus DEF SetRunning, SetRunningFails
<1>5. ASSUME NEW d \in Deliveries, Rerun(d) \/ RerunFails(d)
      PROVE  SpacedInv'
      BY SMTT(30), <1>5, RowStatus DEF Rerun, RerunFails
<1>6. ASSUME NEW d \in Deliveries, ReadExisting(d) \/ ReadExistingFails(d)
      PROVE  SpacedInv'
      BY <1>6 DEF ReadExisting, ReadExistingFails, MayRerun
<1>7. ASSUME NEW d \in Deliveries, NEW e \in BOOLEAN, NEW w \in BOOLEAN, FinishTurn(d, e, w)
      PROVE  SpacedInv'
  <2>1. \A j \in Keys : j # Key(d) => turn'[j] = turn[j]
        BY <1>7 DEF FinishTurn
  <2> QED BY <1>7, <2>1 DEF FinishTurn
<1>8. ASSUME NEW d \in Deliveries, RunTool(d) \/ StartStreamFails(d) \/ ClientCancel(d)
      PROVE  SpacedInv'
      BY <1>8 DEF RunTool, StartStreamFails, ClientCancel
<1>9. CASE Crash
      BY <1>9 DEF Crash
<1>10. CASE UNCHANGED <<pc, req>> /\ turn' \in {turn, Reclaimed}
       BY <1>10, RowStatus DEF Unfinished
<1> QED BY <1>1, <1>2, <1>3, <1>4, <1>5, <1>6, <1>7, <1>8, <1>9, <1>10
        DEF Next, Step, Acquire, CallFailure, Conclude, Complete, Fail, BreakStream, StreamCutOff,
            Process, Restart, RestartWithoutReclaim, ForeignInitDB, vars

LEMMA InitSpaced == Init => SpacedInv
BY DEF Init, SpacedInv, OneClaimant, HeldRows, RerunRows, OneHolder, Acquiring

LEMMA SpacedInvariant == ASSUME Spaced PROVE Spec => []SpacedInv
<1>1. TypeInv /\ SpacedInv /\ [Next]_vars => SpacedInv'
      BY StepSpaced
<1> QED BY <1>1, InitSpaced, TypeInvariant, PTL DEF Spec

(* "Only one of the repeated requests of a key gets to execute" (the       *)
(* comment on the TurnStatus constants) when the deliveries of a key do    *)
(* not overlap while they claim it, reruns included; turn_rerun_race shows *)
(* that this assumption cannot be dropped.                                 *)
THEOREM SpacedIsExclusive == ASSUME Spaced PROVE Spec => []AtMostOneExecutor
<1>1. SpacedInv => AtMostOneExecutor
      BY DEF SpacedInv, OneHolder, AtMostOneExecutor, Holders
<1> QED BY <1>1, SpacedInvariant, PTL

-----------------------------------------------------------------------------
(* Side effects.  Where tools ran, their execution still runs, or nobody   *)
(* holds the key and its row can no longer be rerun, unless an execution   *)
(* was recorded failed.                                                    *)
EffectsKept ==
    \A d \in Deliveries :
        toolRan[d] =>
            /\ pc[d] \in {"exec", "done", "lost"}
            /\ Key(d) \in Keys \ everFailed =>
                  \/ pc[d] = "exec"
                  \/ /\ \A e \in Deliveries : Key(e) = Key(d) => pc[e] \notin {"created", "exec"}
                     /\ turn[Key(d)].status \notin Rerunnable \cup {"absent"}

EffectsInv == EffectsKept /\ EffectsRepeatOnlyAfterFailure

(* A turn whose tools ran is recorded cancelled by no one.                 *)
LEMMA ToolsAreRemembered ==
    ASSUME TypeInv, NEW d \in Deliveries, NEW e \in BOOLEAN, NEW w \in BOOLEAN,
           FinishTurn(d, e, w), toolRan[d], Key(d) \in Keys, Key(d) \notin everFailed'
    PROVE  \/ turn' = turn
           \/ turn'[Key(d)].status \in {"succeeded", "interrupted"}
<1>1. FinalStatus(d, e) = "failed" => turn' = turn
      BY DEF FinishTurn
<1>2. CASE turn'[Key(d)] = [turn[Key(d)] EXCEPT !.status = FinalStatus(d, e),
                                                !.result = FinalResult(d, e, w)]
      BY <1>1, <1>2 DEF FinalStatus, TypeInv, TypeOK, Rows
<1> QED BY <1>2, NamesAssumption DEF FinishTurn, TypeInv, TypeOK

LEMMA StepEffects ==
    ASSUME TypeInv, SpacedInv, EffectsInv, [Next]_vars
    PROVE  EffectsInv'
<1> USE NamesAssumption
<1> USE DEF TypeInv, TypeOK, ClaimsAreKeyed, Goto, bounds, history, local, Key, Acquiring,
            Rerunnable, EffectsInv, EffectsKept, EffectsRepeatOnlyAfterFailure
<1>1. ASSUME NEW d \in Deliveries, Arrive(d)
      PROVE  EffectsInv'
      BY <1>1 DEF Arrive
<1>2. ASSUME NEW d \in Deliveries, Insert(d) \/ InsertFails(d)
      PROVE  EffectsInv'
      BY <1>2 DEF Insert, InsertFails, CanInsert, NewRow
<1>3. ASSUME NEW d \in Deliveries, SetRunning(d) \/ SetRunningFails(d)
      PROVE  EffectsInv'
      BY <1>3, RowStatus DEF SetRunning, SetRunningFails
<1>4. ASSUME NEW d \in Deliveries, Rerun(d) \/ RerunFails(d)
      PROVE  EffectsInv'
      BY <1>4, RowStatus DEF Rerun, RerunFails, SpacedInv, RerunRows
<1>5. ASSUME NEW d \in Deliveries, ReadExisting(d) \/ ReadExistingFails(d)
      PROVE  EffectsInv'
      BY <1>5 DEF ReadExisting, ReadExistingFails
<1>6. ASSUME NEW d \in Deliveries, RunTool(d)
      PROVE  EffectsInv'
  <2>1. ASSUME NEW e \in Deliveries, toolRan[e], Key(e) = Key(d), Key(d) \in Keys \ everFailed
        PROVE  e = d
        BY <1>6, <2>1 DEF RunTool, SpacedInv, OneHolder
  <2> QED BY <1>6, <2>1 DEF RunTool
<1>7. ASSUME NEW d \in Deliveries, NEW e \in BOOLEAN, NEW w \in BOOLEAN, FinishTurn(d, e, w)
      PROVE  EffectsInv'
  <2>1. /\ \A j \in Keys : j # Key(d) => turn'[j] = turn[j]
        /\ pc' = [pc EXCEPT ![d] = "done"] /\ pc[d] = "exec"
        /\ everFailed \subseteq everFailed' /\ UNCHANGED <<req, toolRan>>
        BY <1>7 DEF FinishTurn
  <2>2. EffectsRepeatOnlyAfterFailure'
        BY <2>1
  <2>3. ASSUME NEW f \in Deliveries, toolRan[f], Key(f) \in Keys \ everFailed'
        PROVE  \/ pc'[f] = "exec"
               \/ /\ \A g \in Deliveries : Key(g) = Key(f) => pc'[g] \notin {"created", "exec"}
                  /\ turn'[Key(f)].status \notin Rerunnable \cup {"absent"}
    <3>1. CASE f = d
      <4>1. \A g \in Deliveries : Key(g) = Key(f) => pc'[g] \notin {"created", "exec"}
            BY <2>1, <2>3, <3>1 DEF SpacedInv, OneHolder
      <4>2. turn[Key(d)].status \in HeldStatuses
            BY <2>1, <2>3, <3>1 DEF SpacedInv, HeldRows
      <4>3. turn'[Key(f)].status \notin Rerunnable \cup {"absent"}
        <5>1. \/ turn' = turn
              \/ turn'[Key(d)].status \in {"succeeded", "interrupted"}
              BY <1>7, <2>3, <3>1, ToolsAreRemembered
        <5>2. turn'[Key(f)].status = turn'[Key(d)].status
              BY <3>1
        <5> QED BY <4>2, <5>1, <5>2 DEF HeldStatuses, Rerunnable
      <4> QED BY <4>1, <4>3
    <3>2. CASE f # d /\ pc[f] = "exec"
          BY <2>1, <3>2
    <3>3. CASE f # d /\ pc[f] # "exec"
          BY <2>1, <2>3, <3>3
    <3> QED BY <3>1, <3>2, <3>3
  <2> QED BY <2>1, <2>2, <2>3
<1>8. ASSUME NEW d \in Deliveries, StartStreamFails(d)
      PROVE  EffectsInv'
      BY <1>8 DEF StartStreamFails, SpacedInv, OneHolder, HeldRows, HeldStatuses
<1>9. ASSUME NEW d \in Deliveries, ClientCancel(d)
      PROVE  EffectsInv'
      BY <1>9 DEF ClientCancel
<1>10. CASE Crash
       BY <1>10 DEF Crash, SpacedInv, HeldRows, HeldStatuses
<1>11. CASE UNCHANGED <<pc, req, toolRan, everFailed>> /\ turn' \in {turn, Reclaimed}
       BY <1>11, RowStatus DEF Unfinished
<1> QED BY <1>1, <1>2, <1>3, <1>4, <1>5, <1>6, <1>7, <1>8, <1>9, <1>10, <1>11
        DEF Next, Step, Acquire, CallFailure, Conclude, Complete, Fail, BreakStream, StreamCutOff,
            Process, Restart, RestartWithoutReclaim, ForeignInitDB, vars

(* Tools of one key run in two executions only when one was recorded       *)
(* failed: a cancelled turn that may be rerun has had no side effect, and  *)
(* an interrupted one is never rerun (finishTurn, acquireTurn).            *)
THEOREM EffectsRepeatOnlyThen == ASSUME Spaced PROVE Spec => []EffectsRepeatOnlyAfterFailure
<1>1. Init => EffectsInv
      BY DEF Init, EffectsInv, EffectsKept, EffectsRepeatOnlyAfterFailure
<1>2. TypeInv /\ SpacedInv /\ EffectsInv /\ [Next]_vars => EffectsInv'
      BY StepEffects
<1>3. EffectsInv => EffectsRepeatOnlyAfterFailure
      BY DEF EffectsInv
<1> QED BY <1>1, <1>2, <1>3, TypeInvariant, SpacedInvariant, PTL DEF Spec

-----------------------------------------------------------------------------
(* What leaves a row unfinished for good, and how it stays a cause.        *)
Cause(k) ==
    \E d \in Deliveries :
        /\ Key(d) = k
        /\ \/ cancelled[d]
           \/ req[d].path = "channel_stream" /\ pc[d] = "done"

Idle(k) == \A d \in Deliveries : Key(d) = k => pc[d] \notin {"created", "exec"}

LEMMA IdleIsUnheld == \A k : Idle(k) <=> Holders(k) = {}
BY DEF Idle, Holders

LEMMA CauseStays == ASSUME TypeInv, [Next]_vars, NEW k \in Keys, Cause(k) PROVE Cause(k)'
<1> USE DEF TypeInv, TypeOK, Goto, bounds, history, local, Key, Cause, Acquiring
<1>1. ASSUME NEW d \in Deliveries,
             \/ Arrive(d) \/ Insert(d) \/ InsertFails(d) \/ SetRunning(d) \/ SetRunningFails(d)
             \/ ReadExisting(d) \/ ReadExistingFails(d) \/ Rerun(d) \/ RerunFails(d)
             \/ RunTool(d) \/ StartStreamFails(d) \/ ClientCancel(d)
      PROVE  Cause(k)'
      BY <1>1 DEF Arrive, Insert, InsertFails, SetRunning, SetRunningFails, ReadExisting,
                  ReadExistingFails, Rerun, RerunFails, RunTool, StartStreamFails, ClientCancel
<1>2. ASSUME NEW d \in Deliveries, NEW e \in BOOLEAN, NEW w \in BOOLEAN, FinishTurn(d, e, w)
      PROVE  Cause(k)'
      BY <1>2 DEF FinishTurn
<1>3. CASE Process
      BY <1>3 DEF Process, Crash, Restart, RestartWithoutReclaim, ForeignInitDB
<1>4. CASE UNCHANGED vars
      BY <1>4 DEF vars
<1> QED BY <1>1, <1>2, <1>3, <1>4
        DEF Next, Step, Acquire, CallFailure, Conclude, Complete, Fail, BreakStream, StreamCutOff

(* When the last holder of a key leaves an unfinished row behind and no    *)
(* call failed, it was cancelled or its stream did not start.              *)
LEMMA StepUnfinished ==
    ASSUME TypeInv, UnfinishedHasCause, [Next]_vars
    PROVE  UnfinishedHasCause'
<1> DEFINE Explained(k) == up /\ dbFails = 0 /\ turn[k].status \in Unfinished /\ Idle(k) => Cause(k)
<1>0. UnfinishedHasCause' <=> \A k \in Keys : Explained(k)'
      BY DEF UnfinishedHasCause, Cause, Idle, Holders
<1> SUFFICES ASSUME NEW k \in Keys PROVE Explained(k)'
    BY <1>0
<1>1. Explained(k)
      BY IdleIsUnheld DEF UnfinishedHasCause, Cause
<1>2. Cause(k) => Cause(k)'
      BY CauseStays
<1> HIDE DEF Explained
<1>c. ASSUME ~Cause(k) PROVE up /\ dbFails = 0 /\ turn[k].status \in Unfinished => ~Idle(k)
      BY <1>1, <1>c DEF Explained
<1> SUFFICES ASSUME ~Cause(k)', up', dbFails' = 0, turn'[k].status \in Unfinished
             PROVE  ~Idle(k)'
    BY DEF Explained
<1>3. up /\ dbFails = 0 /\ turn[k].status \in Unfinished => ~Idle(k)
      BY <1>2, <1>c
<1> USE NamesAssumption, BoundsAssumption
<1> USE DEF TypeInv, TypeOK, ClaimsAreKeyed, Goto, bounds, history, local, Key, Acquiring, Idle
<1>4. ASSUME NEW d \in Deliveries, Arrive(d) \/ RunTool(d) \/ ClientCancel(d)
      PROVE  ~Idle(k)'
      BY <1>3, <1>4 DEF Arrive, RunTool, ClientCancel
<1>5. ASSUME NEW d \in Deliveries, Insert(d)
      PROVE  ~Idle(k)'
      BY <1>3, <1>5 DEF Insert, CanInsert, NewRow
<1>6. ASSUME NEW d \in Deliveries, CallFails(d), Key(d) = k, cancelled' = cancelled, req' = req
      PROVE  FALSE
      BY <1>6 DEF CallFails, Cause
<1>7. ASSUME NEW d \in Deliveries, InsertFails(d)
      PROVE  ~Idle(k)'
      BY <1>3, <1>6, <1>7 DEF InsertFails, CanInsert, CallFails
<1>8. ASSUME NEW d \in Deliveries, SetRunning(d)
      PROVE  ~Idle(k)'
      BY <1>3, <1>8, RowStatus DEF SetRunning
<1>9. ASSUME NEW d \in Deliveries, SetRunningFails(d)
      PROVE  ~Idle(k)'
      BY <1>3, <1>6, <1>9, RowStatus DEF SetRunningFails, CallFails
<1>10. ASSUME NEW d \in Deliveries, Rerun(d)
       PROVE  ~Idle(k)'
       BY <1>3, <1>10, RowStatus DEF Rerun
<1>11. ASSUME NEW d \in Deliveries, RerunFails(d)
       PROVE  ~Idle(k)'
       BY <1>3, <1>6, <1>11, RowStatus DEF RerunFails, CallFails
<1>12. ASSUME NEW d \in Deliveries, ReadExisting(d) \/ ReadExistingFails(d)
       PROVE  ~Idle(k)'
  <2>1. /\ turn' = turn /\ up' = up /\ req' = req /\ dbFails = 0
        /\ \E phase \in {"rerun", "done"} : pc' = [pc EXCEPT ![d] = phase]
    <3>1. CASE ReadExisting(d)
          BY <3>1 DEF ReadExisting
    <3>2. CASE ReadExistingFails(d)
      <4>1. dbFails' = dbFails \/ dbFails' = dbFails + 1
            BY <3>2 DEF ReadExistingFails, CallFails
      <4>2. dbFails = 0
            BY <4>1
      <4> QED BY <3>2, <4>2 DEF ReadExistingFails
    <3> QED BY <1>12, <3>1, <3>2
  <2>2. pc[d] = "dup"
        BY <1>12 DEF ReadExisting, ReadExistingFails
  <2> QED BY <1>3, <2>1, <2>2
<1>13. ASSUME NEW d \in Deliveries, NEW e \in BOOLEAN, NEW w \in BOOLEAN, FinishTurn(d, e, w)
       PROVE  ~Idle(k)'
  <2>1. CASE Key(d) # k
    <3>1. turn'[k] = turn[k] /\ dbFails = 0 /\ up
          BY <1>13, <2>1 DEF FinishTurn
    <3> QED BY <1>3, <1>13, <2>1, <3>1 DEF FinishTurn
  <2>2. CASE Key(d) = k
    <3>1. turn'[k] = [turn[k] EXCEPT !.status = FinalStatus(d, e), !.result = FinalResult(d, e, w)]
          BY <1>13, <2>2 DEF FinishTurn
    <3>2. turn'[k].status = FinalStatus(d, e)
          BY <3>1 DEF Rows
    <3> QED BY <3>2, FinalTypes DEF Unfinished
  <2> QED BY <2>1, <2>2
<1>14. ASSUME NEW d \in Deliveries, StartStreamFails(d)
       PROVE  ~Idle(k)'
       BY <1>3, <1>14 DEF StartStreamFails, Cause
<1>15. CASE Crash \/ RestartWithoutReclaim
       BY <1>15 DEF Crash, RestartWithoutReclaim
<1>16. CASE turn' = Reclaimed
       BY <1>16, RowStatus DEF Unfinished
<1>17. CASE UNCHANGED vars
       BY <1>3, <1>17 DEF vars
<1> QED BY <1>4, <1>5, <1>7, <1>8, <1>9, <1>10, <1>11, <1>12, <1>13, <1>14, <1>15, <1>16, <1>17
        DEF Next, Step, Acquire, CallFailure, Conclude, Complete, Fail, BreakStream, StreamCutOff,
            Process, Restart, ForeignInitDB

(* An unfinished row that nobody executes has one of the two causes the    *)
(* code leaves open (UnfinishedHasCause), whether deliveries overlap or    *)
(* not: a crash, a reclaim or a rerun is none of them.                     *)
THEOREM UnfinishedIsExplained == Spec => []UnfinishedHasCause
<1>1. Init => UnfinishedHasCause
      BY DEF Init, UnfinishedHasCause, NoRow, Unfinished
<1> QED BY <1>1, StepUnfinished, TypeInvariant, PTL DEF Spec

-----------------------------------------------------------------------------
(* Only a stream can end early without an error, so without streams the    *)
(* answer of a succeeded turn is whole.                                    *)
NoKeyedStream == \A r \in Requests : r.key \in Keys => r.path \notin StreamPaths

LEMMA StepComplete ==
    ASSUME NoKeyedStream, TypeInv, SucceededIsComplete, [Next]_vars
    PROVE  SucceededIsComplete'
<1> USE NamesAssumption
<1> USE DEF TypeInv, TypeOK, SucceededIsComplete, bounds, history, local
<1>1. ASSUME NEW d \in Deliveries, NEW e \in BOOLEAN, NEW w \in BOOLEAN, FinishTurn(d, e, w),
             Key(d) \in Keys => e \/ w
      PROVE  SucceededIsComplete'
  <2>1. CASE Key(d) \in Keys /\ turn' = [turn EXCEPT ![Key(d)] =
                  [turn[Key(d)] EXCEPT !.status = FinalStatus(d, e), !.result = FinalResult(d, e, w)]]
    <3>1. turn'[Key(d)].status = FinalStatus(d, e) /\ turn'[Key(d)].result = FinalResult(d, e, w)
          BY <2>1 DEF Rows
    <3>2. FinalStatus(d, e) = "succeeded" => FinalResult(d, e, w).whole
          BY <1>1, <2>1 DEF FinalStatus, FinalResult
    <3> QED BY <2>1, <3>1, <3>2
  <2> QED BY <1>1, <2>1 DEF FinishTurn
<1>2. ASSUME NEW d \in Deliveries, BreakStream(d) \/ StreamCutOff(d)
      PROVE  Key(d) \notin Keys
      BY <1>2 DEF BreakStream, StreamCutOff, NoKeyedStream, StreamPaths, Key
<1>3. ASSUME NEW k \in Keys, MakeRunning(k)
      PROVE  SucceededIsComplete'
  <2>1. \A j \in Keys \ {k} : turn'[j] = turn[j]
        BY <1>3 DEF MakeRunning
  <2> QED BY <1>3, <2>1, RowStatus
<1>4. CASE turn' = turn
      BY <1>4
<1>5. CASE turn' = Reclaimed
      BY <1>5 DEF Reclaimed, Rows, Unfinished
<1>6. ASSUME NEW d \in Deliveries, turn' = [turn EXCEPT ![Key(d)] = NewRow(d)]
      PROVE  SucceededIsComplete'
      BY <1>6 DEF NewRow
<1>7. ASSUME NEW d \in Deliveries,
             \/ Arrive(d) \/ Insert(d) \/ InsertFails(d) \/ SetRunning(d) \/ SetRunningFails(d)
             \/ ReadExisting(d) \/ ReadExistingFails(d) \/ Rerun(d) \/ RerunFails(d)
             \/ RunTool(d) \/ StartStreamFails(d) \/ ClientCancel(d)
      PROVE  SucceededIsComplete'
      BY <1>3, <1>4, <1>6, <1>7
      DEF Arrive, Insert, InsertFails, SetRunning, SetRunningFails, ReadExisting,
          ReadExistingFails, Rerun, RerunFails, RunTool, StartStreamFails, ClientCancel,
          ClaimsAreKeyed, Acquiring
<1>8. ASSUME NEW d \in Deliveries, Complete(d) \/ Fail(d) \/ BreakStream(d) \/ StreamCutOff(d)
      PROVE  SucceededIsComplete'
      BY <1>1, <1>2, <1>8 DEF Complete, Fail, BreakStream, StreamCutOff
<1> QED BY <1>4, <1>5, <1>7, <1>8
        DEF Next, Step, Acquire, CallFailure, Conclude, Process, Crash, Restart,
            RestartWithoutReclaim, ForeignInitDB, vars

(* The answer of a succeeded turn is the model's whole answer, as long as  *)
(* no request with a key is answered by a stream (finishTurn).             *)
THEOREM SucceededIsWhole == ASSUME NoKeyedStream PROVE Spec => []SucceededIsComplete
<1>1. Init => SucceededIsComplete
      BY DEF Init, SucceededIsComplete, NoRow
<1>2. TypeInv /\ SucceededIsComplete /\ [Next]_vars => SucceededIsComplete'
      BY StepComplete
<1> QED BY <1>1, <1>2, TypeInvariant, PTL DEF Spec

-----------------------------------------------------------------------------
(* The refinement of TurnClaim.  A step moves one key at most, except for  *)
(* a crash, which ends every execution, and a reclaim, which changes rows  *)
(* that are held or sealed already.                                        *)
LEMMA ClaimValues ==
    ASSUME NEW k \in Keys
    PROVE  /\ Holders(k) # {} => ClaimOf(k) = "held"
           /\ Holders(k) = {} =>
                 /\ turn[k].status = "succeeded" => ClaimOf(k) = "answered"
                 /\ turn[k].status \in {"failed", "cancelled", "absent"} => ClaimOf(k) = "free"
                 /\ turn[k].status \in {"queued", "running", "interrupted"} => ClaimOf(k) = "sealed"
BY DEF ClaimOf, Rerunnable

LEMMA ClaimValuesNext ==
    ASSUME NEW k \in Keys
    PROVE  /\ Holders(k)' # {} => ClaimOf(k)' = "held"
           /\ Holders(k)' = {} =>
                 /\ turn'[k].status = "succeeded" => ClaimOf(k)' = "answered"
                 /\ turn'[k].status \in {"failed", "cancelled", "absent"} => ClaimOf(k)' = "free"
                 /\ turn'[k].status \in {"queued", "running", "interrupted"} => ClaimOf(k)' = "sealed"
BY DEF ClaimOf, Rerunnable

Same(j) == ClaimOf(j)' = ClaimOf(j) /\ Holders(j)' = Holders(j)

OnlyKey(k) == \A j \in Keys : j # k => Same(j)

(* A key's claim depends on its row's status and on who holds it.          *)
LEMMA Untouched ==
    ASSUME req' = req, NEW j \in Keys, turn'[j].status = turn[j].status,
           \A d \in Deliveries :
               Key(d) = j => (pc'[d] \in {"created", "exec"} <=> pc[d] \in {"created", "exec"})
    PROVE  Same(j)
<1>1. Holders(j)' = Holders(j)
      BY DEF Holders, Key
<1> QED BY <1>1 DEF Same, ClaimOf

LEMMA ClaimSteps ==
    ASSUME NEW k \in Keys, NEW d \in Deliveries, OnlyKey(k)
    PROVE  /\ Same(k) => UNCHANGED Claims!claimVars
           /\ ClaimOf(k) = "free" /\ ClaimOf(k)' = "held" /\ Holders(k)' = {d}
                 => Claims!Claim(k, d)
           /\ ClaimOf(k) = "held" /\ ClaimOf(k)' \in {"answered", "free", "sealed"} /\ Holders(k)' = {}
                 => Claims!Release(k)
           /\ ClaimOf(k) = "free" /\ ClaimOf(k)' = "sealed" /\ Holders(k)' = Holders(k)
                 => Claims!Seal(k)
<1> USE DEF OnlyKey, Same
<1>1. ASSUME Same(k) PROVE UNCHANGED Claims!claimVars
      BY <1>1 DEF Claims!claimVars
<1>2. ASSUME ClaimOf(k) = "free", ClaimOf(k)' = "held", Holders(k)' = {d}
      PROVE  Claims!Claim(k, d)
      BY <1>2 DEF Claims!Claim
<1>3. ASSUME ClaimOf(k) = "held", ClaimOf(k)' \in {"answered", "free", "sealed"}, Holders(k)' = {}
      PROVE  Claims!Release(k)
      BY <1>3 DEF Claims!Release
<1>4. ASSUME ClaimOf(k) = "free", ClaimOf(k)' = "sealed", Holders(k)' = Holders(k)
      PROVE  Claims!Seal(k)
      BY <1>4 DEF Claims!Seal
<1> QED BY <1>1, <1>2, <1>3, <1>4

LEMMA StepImplements ==
    ASSUME TypeInv, RowsExist, SpacedInv, [Next]_vars
    PROVE  [Claims!Next]_(Claims!claimVars)
<1> USE NamesAssumption
<1> USE DEF TypeInv, TypeOK, ClaimsAreKeyed, Goto, bounds, history, local, Acquiring
<1>1. ASSUME NEW d \in Deliveries, Key(d) \in Keys \cup {NoKey}, req' = req,
             \A j \in Keys : j # Key(d) => turn'[j] = turn[j],
             \A e \in Deliveries : e # d => pc'[e] = pc[e]
      PROVE  OnlyKey(Key(d))
      BY <1>1, Untouched DEF OnlyKey
<1>2. \A d \in Deliveries : Key(d) \in Keys \cup {NoKey}
      BY RequestsAssumption DEF Key, RequestType
<1>3. ASSUME \A j \in Keys : Same(j)
      PROVE  UNCHANGED Claims!claimVars
      BY <1>3 DEF Same, Claims!claimVars
<1>4. ASSUME NEW k \in Keys
      PROVE  /\ Holders(k) = {e \in Deliveries : Key(e) = k /\ pc[e] \in {"created", "exec"}}
             /\ req' = req =>
                   Holders(k)' = {e \in Deliveries : Key(e) = k /\ pc'[e] \in {"created", "exec"}}
      BY DEF Holders, Key
<1>5. ASSUME NEW d \in Deliveries, pc[d] \in {"created", "exec"}, Key(d) \in Keys
      PROVE  Holders(Key(d)) = {d} /\ ClaimOf(Key(d)) = "held"
      BY <1>4, <1>5, ClaimValues DEF SpacedInv, OneHolder
<1>6. ASSUME NEW k \in Keys, turn[k].status \in {"absent", "failed", "cancelled", "succeeded"}
      PROVE  Holders(k) = {}
      BY <1>6 DEF SpacedInv, HeldRows, HeldStatuses, Holders
<1>7. ASSUME NEW d \in Deliveries,
             Arrive(d) \/ ReadExisting(d) \/ ReadExistingFails(d) \/ RunTool(d) \/ ClientCancel(d)
      PROVE  UNCHANGED Claims!claimVars
      BY <1>2, <1>3, <1>7, Untouched
      DEF Arrive, ReadExisting, ReadExistingFails, RunTool, ClientCancel
<1>8. ASSUME NEW d \in Deliveries, Insert(d)
      PROVE  [Claims!Next]_(Claims!claimVars)
  <2>k. Key(d) \in Keys
        BY <1>2, <1>8 DEF Insert
  <2> PICK k \in Keys : k = Key(d)
      BY <2>k
  <2>1. k \in Keys /\ OnlyKey(k) /\ pc[d] = "insert" /\ req' = req
        BY <1>1, <1>2, <1>8 DEF Insert
  <2>2. CASE CanInsert(d)
    <3>1. Holders(k) = {} /\ ClaimOf(k) = "free"
          BY <1>6, <2>1, <2>2, ClaimValues DEF CanInsert
    <3>2. Holders(k)' = {d}
          BY <1>4, <1>8, <2>1, <2>2, <3>1 DEF Insert
    <3>3. ClaimOf(k)' = "held"
          BY <2>1, <3>2, ClaimValuesNext
    <3> QED BY <2>1, <3>1, <3>2, <3>3, ClaimSteps DEF Claims!Next
  <2>3. CASE ~CanInsert(d)
        BY <1>3, <1>8, <2>1, <2>3, Untouched DEF Insert
  <2> QED BY <2>2, <2>3
<1>9. ASSUME NEW d \in Deliveries, InsertFails(d)
      PROVE  [Claims!Next]_(Claims!claimVars)
  <2>k. Key(d) \in Keys
        BY <1>2, <1>9 DEF InsertFails
  <2> PICK k \in Keys : k = Key(d)
      BY <2>k
  <2>1. k \in Keys /\ OnlyKey(k) /\ pc[d] = "insert" /\ req' = req /\ pc' = [pc EXCEPT ![d] = "done"]
        BY <1>1, <1>2, <1>9 DEF InsertFails
  <2>2. CASE CanInsert(d) /\ turn' = [turn EXCEPT ![k] = NewRow(d)]
    <3>1. Holders(k) = {} /\ ClaimOf(k) = "free"
          BY <1>6, <2>1, <2>2, ClaimValues DEF CanInsert
    <3>2. Holders(k)' = {}
          BY <1>4, <2>1, <3>1
    <3>3. ClaimOf(k)' = "sealed"
          BY <2>1, <2>2, <3>2, ClaimValuesNext DEF NewRow
    <3> QED BY <2>1, <3>1, <3>2, <3>3, ClaimSteps DEF Claims!Next
  <2>3. CASE turn' = turn
        BY <1>3, <2>1, <2>3, Untouched
  <2> QED BY <1>9, <2>2, <2>3 DEF InsertFails
<1>10. ASSUME NEW d \in Deliveries, SetRunning(d)
       PROVE  [Claims!Next]_(Claims!claimVars)
  <2>k. Key(d) \in Keys
        BY <1>2, <1>10 DEF SetRunning
  <2> PICK k \in Keys : k = Key(d)
      BY <2>k
  <2>1. k \in Keys /\ OnlyKey(k) /\ pc[d] = "created" /\ req' = req /\ pc' = [pc EXCEPT ![d] = "exec"]
        BY <1>1, <1>2, <1>10 DEF SetRunning, MakeRunning
  <2>2. Holders(k) = {d} /\ ClaimOf(k) = "held"
        BY <1>5, <2>1
  <2>3. Holders(k)' = {d}
        BY <1>4, <2>1, <2>2
  <2>4. ClaimOf(k)' = "held"
        BY <2>1, <2>3, ClaimValuesNext
  <2> QED BY <2>1, <2>2, <2>3, <2>4, ClaimSteps DEF Same
<1>11. ASSUME NEW d \in Deliveries, Key(d) \in Keys, OnlyKey(Key(d)), req' = req,
              pc[d] \in {"created", "exec"}, pc' = [pc EXCEPT ![d] = "done"],
              turn'[Key(d)].status \in HeldStatuses \cup {"succeeded", "failed", "cancelled"}
       PROVE  [Claims!Next]_(Claims!claimVars)
  <2> PICK k \in Keys : k = Key(d)
      BY <1>11
  <2>1. Holders(k) = {d} /\ ClaimOf(k) = "held"
        BY <1>5, <1>11
  <2>2. Holders(k)' = {}
        BY <1>4, <1>11, <2>1
  <2>3. ClaimOf(k)' \in {"answered", "free", "sealed"}
        BY <1>11, <2>2, ClaimValuesNext DEF HeldStatuses
  <2> QED BY <1>11, <2>1, <2>2, <2>3, ClaimSteps DEF Claims!Next
<1>12. ASSUME NEW d \in Deliveries, SetRunningFails(d)
       PROVE  [Claims!Next]_(Claims!claimVars)
  <2>1. Key(d) \in Keys /\ OnlyKey(Key(d)) /\ pc[d] = "created" /\ req' = req
        BY <1>1, <1>2, <1>12 DEF SetRunningFails, MakeRunning
  <2>2. turn[Key(d)].status \in HeldStatuses
        BY <2>1 DEF SpacedInv, HeldRows
  <2>3. turn'[Key(d)].status \in HeldStatuses
        BY <1>12, <2>1, <2>2, RowStatus DEF SetRunningFails, HeldStatuses
  <2> QED BY <1>11, <1>12, <2>1, <2>3 DEF SetRunningFails
<1>13. ASSUME NEW d \in Deliveries, Rerun(d)
       PROVE  [Claims!Next]_(Claims!claimVars)
  <2>k. Key(d) \in Keys
        BY <1>2, <1>13 DEF Rerun
  <2> PICK k \in Keys : k = Key(d)
      BY <2>k
  <2>1. k \in Keys /\ OnlyKey(k) /\ pc[d] = "rerun" /\ req' = req /\ pc' = [pc EXCEPT ![d] = "exec"]
        BY <1>1, <1>2, <1>13 DEF Rerun, MakeRunning
  <2>2. Holders(k) = {} /\ ClaimOf(k) = "free"
        BY <1>6, <2>1, ClaimValues DEF SpacedInv, RerunRows, Rerunnable
  <2>3. Holders(k)' = {d}
        BY <1>4, <2>1, <2>2
  <2>4. ClaimOf(k)' = "held"
        BY <2>1, <2>3, ClaimValuesNext
  <2> QED BY <2>1, <2>2, <2>3, <2>4, ClaimSteps DEF Claims!Next
<1>14. ASSUME NEW d \in Deliveries, RerunFails(d)
       PROVE  [Claims!Next]_(Claims!claimVars)
  <2>k. Key(d) \in Keys
        BY <1>2, <1>14 DEF RerunFails
  <2> PICK k \in Keys : k = Key(d)
      BY <2>k
  <2>1. k \in Keys /\ OnlyKey(k) /\ pc[d] = "rerun" /\ req' = req /\ pc' = [pc EXCEPT ![d] = "done"]
        BY <1>1, <1>2, <1>14 DEF RerunFails, MakeRunning
  <2>2. Holders(k) = {} /\ ClaimOf(k) = "free"
        BY <1>6, <2>1, ClaimValues DEF SpacedInv, RerunRows, Rerunnable
  <2>3. Holders(k)' = {}
        BY <1>4, <2>1, <2>2
  <2>4. CASE MakeRunning(k)
    <3>1. ClaimOf(k)' = "sealed"
          BY <2>1, <2>3, <2>4, RowStatus, ClaimValuesNext
    <3> QED BY <2>1, <2>2, <2>3, <3>1, ClaimSteps DEF Claims!Next
  <2>5. CASE turn' = turn
        BY <1>3, <2>1, <2>5, Untouched
  <2> QED BY <1>14, <2>4, <2>5 DEF RerunFails
<1>15. ASSUME NEW d \in Deliveries, NEW e \in BOOLEAN, NEW w \in BOOLEAN, FinishTurn(d, e, w)
       PROVE  [Claims!Next]_(Claims!claimVars)
  <2>1. /\ pc[d] = "exec" /\ req' = req /\ pc' = [pc EXCEPT ![d] = "done"]
        /\ \A j \in Keys : j # Key(d) => turn'[j] = turn[j]
        BY <1>15 DEF FinishTurn
  <2>2. OnlyKey(Key(d))
        BY <1>1, <1>2, <2>1
  <2>3. CASE Key(d) \notin Keys
        BY <1>3, <2>2, <2>3 DEF OnlyKey
  <2>4. CASE Key(d) \in Keys
    <3>1. turn[Key(d)].status \in HeldStatuses
          BY <2>1, <2>4 DEF SpacedInv, HeldRows
    <3>2. CASE turn' = turn
          BY <1>11, <2>1, <2>2, <2>4, <3>1, <3>2
    <3>3. CASE turn' = [turn EXCEPT ![Key(d)] =
                 [turn[Key(d)] EXCEPT !.status = FinalStatus(d, e), !.result = FinalResult(d, e, w)]]
      <4>1. turn'[Key(d)].status = FinalStatus(d, e)
            BY <2>4, <3>3 DEF Rows
      <4> QED BY <1>11, <2>1, <2>2, <2>4, <4>1, FinalTypes DEF HeldStatuses
    <3> QED BY <1>15, <3>2, <3>3 DEF FinishTurn
  <2> QED BY <2>3, <2>4
<1>16. ASSUME NEW d \in Deliveries, StartStreamFails(d)
       PROVE  [Claims!Next]_(Claims!claimVars)
  <2>1. /\ pc[d] = "exec" /\ req' = req /\ pc' = [pc EXCEPT ![d] = "done"] /\ turn' = turn
        BY <1>16 DEF StartStreamFails
  <2>2. OnlyKey(Key(d))
        BY <1>1, <1>2, <2>1
  <2>3. CASE Key(d) \notin Keys
        BY <1>3, <2>2, <2>3 DEF OnlyKey
  <2>4. CASE Key(d) \in Keys
        BY <1>11, <2>1, <2>2, <2>4 DEF SpacedInv, HeldRows
  <2> QED BY <2>3, <2>4
<1>17. CASE Crash
  <2>1. req' = req /\ turn' = turn /\ \A d \in Deliveries : pc'[d] \notin {"created", "exec"}
        BY <1>17 DEF Crash
  <2>2. \A k \in Keys : Holders(k)' = {}
        BY <2>1 DEF Holders
  <2>3. ASSUME NEW k \in Keys
        PROVE  ClaimOf(k)' = IF ClaimOf(k) = "held" THEN "sealed" ELSE ClaimOf(k)
    <3>1. CASE Holders(k) = {}
      <4>1. ClaimOf(k)' = ClaimOf(k)
            BY <2>1, <2>2, <3>1 DEF ClaimOf
      <4>2. ClaimOf(k) # "held"
            BY <3>1 DEF ClaimOf
      <4> QED BY <4>1, <4>2
    <3>2. CASE Holders(k) # {}
      <4>1. turn[k].status \in HeldStatuses
            BY <3>2 DEF Holders, SpacedInv, HeldRows
      <4> QED BY <2>1, <2>2, <3>2, <4>1, ClaimValues, ClaimValuesNext DEF HeldStatuses
    <3> QED BY <3>1, <3>2
  <2>4. Claims!SealAll
        BY <2>2, <2>3 DEF Claims!SealAll
  <2> QED BY <2>4 DEF Claims!Next
<1>18. CASE UNCHANGED <<pc, req>> /\ turn' \in {turn, Reclaimed}
  <2>1. ASSUME NEW k \in Keys PROVE Same(k)
    <3>1. Holders(k)' = Holders(k)
          BY <1>18 DEF Holders, Key
    <3>2. CASE turn'[k].status = turn[k].status
          BY <3>1, <3>2 DEF Same, ClaimOf
    <3>3. CASE turn[k].status \in Unfinished /\ turn'[k].status = "interrupted"
          BY <3>1, <3>3, ClaimValues, ClaimValuesNext DEF Same, Unfinished
    <3> QED BY <1>18, <3>2, <3>3, RowStatus
  <2> QED BY <1>3, <2>1
<1> QED BY <1>7, <1>8, <1>9, <1>10, <1>12, <1>13, <1>14, <1>15, <1>16, <1>17, <1>18
        DEF Next, Step, Acquire, CallFailure, Conclude, Complete, Fail, BreakStream, StreamCutOff,
            Process, Restart, RestartWithoutReclaim, ForeignInitDB, vars

(* Deliveries that do not overlap while they claim a key implement the     *)
(* abstract claim (ImplementsClaim): one holder at a time, and answered    *)
(* and sealed keys stay as they are, through failing calls, crashes,       *)
(* restarts and reclaims.                                                  *)
THEOREM ClaimIsImplemented == ASSUME Spaced PROVE Spec => ImplementsClaim
<1>1. Init => Claims!Init
  <2> SUFFICES ASSUME Init PROVE Claims!Init
      OBVIOUS
  <2>1. \A k \in Keys : Holders(k) = {} /\ turn[k].status = "absent"
        BY DEF Init, Holders, NoRow
  <2> QED BY <2>1, ClaimValues DEF Claims!Init
<1>2. TypeInv /\ FirstRunInv /\ SpacedInv /\ [Next]_vars => [Claims!Next]_(Claims!claimVars)
      BY StepImplements DEF FirstRunInv
<1>3. Init => FirstRunInv
      BY DEF Init, FirstRunInv, RowsExist, FirstRunExclusive, Holders
<1>4. TypeInv /\ FirstRunInv /\ [Next]_vars => FirstRunInv'
      BY FirstRunStep
<1> QED BY <1>1, <1>2, <1>3, <1>4, TypeInvariant, SpacedInvariant, PTL
        DEF Spec, ImplementsClaim, Claims!ClaimSpec
=============================================================================
