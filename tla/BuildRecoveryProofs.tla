------------------------- MODULE BuildRecoveryProofs -------------------------
(***************************************************************************)
(* Proofs about executions and repairs (BuildRecovery).  The first half is *)
(* about the executions alone: whatever happens around a run, its receipt  *)
(* is earned, and is never touched again.  The second follows a repair     *)
(* through the records that name each other.                               *)
(***************************************************************************)
EXTENDS BuildRecovery, TLAPS

(***************************************************************************)
(* The invariant of the executions                                         *)
(***************************************************************************)

(* How far a run has come, and what it can still say that it completed on. *)
RunSound(r) ==
  /\ r.phase \in {"inputs", "launch"} => r.reason = "COMPLETED"
  /\ r.phase \in {"launch", "running", "after"} => r.before # Gone
  /\ r.phase \in {"running", "after"} => r.invoked
  /\ r.phase \in {"inputs", "launch", "running", "after", "publish"} =>
       (r.reason = "COMPLETED" => ~r.truncated)
  /\ r.phase = "publish" /\ r.reason = "COMPLETED" =>
       r.invoked /\ r.before = r.after /\ r.before # Gone

(* Executions are started in order, and a receipt ends its run. *)
InOrder(e) ==
  /\ run[e].phase # "idle" => e <= started
  /\ HasReceipt(e) => run[e].phase = "over"

(* What a receipt claims it has earned (PassIsEarned). *)
Earned(r) ==
  r # NoReceipt =>
    /\ r.result \in {"PASS", "FAIL"} =>
         /\ r.invoked /\ r.complete
         /\ r.reason = "COMPLETED"
         /\ r.before = r.after
         /\ r.before # Gone
         /\ r.exit # "none"
    /\ r.result = "PASS" => r.exit = "zero"
    /\ r.testRun => r.kind = "TEST" /\ r.result \in {"PASS", "FAIL"}

ExecInv ==
  /\ ExecTypeOK
  /\ \A e \in Executions : RunSound(run[e]) /\ InOrder(e) /\ Earned(receipts[e])

(* What an execution step leaves alone. *)
ReceiptsStay ==
  /\ \A e \in Executions : HasReceipt(e) => receipts'[e] = receipts[e]
  /\ started <= started'

LEMMA UnderwayType ==
  ASSUME NEW r \in Run, r.phase \notin {"idle", "over"}
  PROVE  r \in Underway
  BY DEF Run, Idle

LEMMA UnderwayRuns ==
  ASSUME NEW r \in Underway
  PROVE  r \in Run /\ r.phase \notin {"idle", "over"}
  BY DEF Run, Underway

LEMMA Counting ==
  ASSUME ExecInv
  PROVE  started \in Nat
  BY ExecutionAssumption DEF ExecInv, ExecTypeOK

LEMMA MeetType ==
  ASSUME ExecTypeOK, NEW kind, Meet(kind)
  PROVE  budget' \in Budget
<1>1. budget \in [executions : 0..MaxExecutions, troubles : SUBSET Troubles,
                 meetings : 0..MaxTroubles, pipes : BOOLEAN]
  BY DEF ExecTypeOK, Budget
<1>2. budget.meetings - 1 \in 0..MaxTroubles
  <2>1. MaxTroubles \in Nat /\ budget.meetings \in 0..MaxTroubles
        /\ budget.meetings > 0
    BY <1>1, ExecutionAssumption DEF Meet
  <2> QED
    BY <2>1
<1> QED
  BY <1>1, <1>2 DEF Meet, Budget

(* Steps that change one run, and no receipt, keep the invariant when the  *)
(* run they leave is sound.                                                *)
LEMMA OneRun ==
  ASSUME ExecInv, NEW e \in Executions, NEW r \in Underway, RunSound(r),
         run[e].phase \notin {"idle", "over"},
         run' = [run EXCEPT ![e] = r],
         budget' \in Budget,
         UNCHANGED <<source, started, receipts>>
  PROVE  ExecInv' /\ ReceiptsStay
<1>1. r \in Run /\ r.phase \notin {"idle", "over"}
  BY UnderwayRuns
<1>2. run \in [Executions -> Run] /\ started \in Nat
  BY DEF ExecInv, ExecTypeOK
<1>3. run' \in [Executions -> Run] /\ run'[e] = r
      /\ \A d \in Executions \ {e} : run'[d] = run[d]
  BY <1>1, <1>2
<1>4. ExecTypeOK'
  BY <1>3 DEF ExecInv, ExecTypeOK
<1>5. ASSUME NEW d \in Executions
      PROVE  RunSound(run'[d]) /\ InOrder(d)' /\ Earned(receipts'[d])
  <2>1. CASE d = e
    BY <2>1, <1>1, <1>3 DEF ExecInv, InOrder, HasReceipt
  <2>2. CASE d # e
    BY <2>2, <1>3 DEF ExecInv, InOrder, HasReceipt
  <2> QED
    BY <2>1, <2>2
<1>6. ReceiptsStay
  BY <1>2 DEF ReceiptsStay
<1> QED
  BY <1>4, <1>5, <1>6 DEF ExecInv

LEMMA ExecStutter ==
  ASSUME ExecInv, UNCHANGED execVars
  PROVE  ExecInv' /\ ReceiptsStay
<1>1. started \in Nat
  BY DEF ExecInv, ExecTypeOK
<1> QED
  BY <1>1 DEF ExecInv, ExecTypeOK, execVars, InOrder, HasReceipt, ReceiptsStay

(* A phase names a run that is under way.                                  *)
LEMMA RunUnderway ==
  ASSUME ExecInv, NEW e \in Executions, run[e].phase \notin {"idle", "over"}
  PROVE  run[e] \in Underway /\ RunSound(run[e])
  BY UnderwayType DEF ExecInv, ExecTypeOK

(***************************************************************************)
(* The steps of a run                                                      *)
(***************************************************************************)

LEMMA ReadInputsKeeps ==
  ASSUME ExecInv, NEW e \in Executions, ReadInputs(e)
  PROVE  ExecInv' /\ ReceiptsStay
<1>1. run[e].phase = "inputs" /\ source \in Revisions
  BY DEF ReadInputs, ExecInv, ExecTypeOK
<1>2. run[e] \in Underway /\ RunSound(run[e])
  BY <1>1, RunUnderway
<1>3. PICK reason \in {"INPUT_UNAVAILABLE", "INPUT_DRIFT", "COMPLETED"} :
        /\ reason = "COMPLETED" => source # Gone
        /\ run' = [run EXCEPT
             ![e].before = source, ![e].after = source, ![e].reason = reason,
             ![e].phase = IF reason = "COMPLETED" THEN "launch" ELSE "publish"]
  BY DEF ReadInputs
<1> DEFINE r == [run[e] EXCEPT
       !.before = source, !.after = source, !.reason = reason,
       !.phase = IF reason = "COMPLETED" THEN "launch" ELSE "publish"]
<1>4. r \in Underway
  BY <1>1, <1>2 DEF Underway, Reasons
<1>5. RunSound(r)
  BY <1>1, <1>2, <1>3 DEF Underway, RunSound
<1>6. run' = [run EXCEPT ![e] = r]
  BY <1>3 DEF ExecInv, ExecTypeOK
<1>7. UNCHANGED <<budget, source, started, receipts>>
  BY DEF ReadInputs
<1> HIDE DEF r
<1> QED
  BY <1>1, <1>4, <1>5, <1>6, <1>7, OneRun DEF ExecInv, ExecTypeOK

LEMMA LaunchKeeps ==
  ASSUME ExecInv, NEW e \in Executions, Launch(e)
  PROVE  ExecInv' /\ ReceiptsStay
<1>1. run[e].phase = "launch"
  BY DEF Launch
<1>2. run[e] \in Underway /\ RunSound(run[e])
  BY <1>1, RunUnderway
<1>3. UNCHANGED <<source, started, receipts>>
  BY DEF Launch
<1> DEFINE up == [run[e] EXCEPT !.phase = "running", !.invoked = TRUE,
                                !.child = TRUE, !.open = TRUE]
           down == [run[e] EXCEPT !.phase = "after", !.invoked = TRUE,
                                  !.reason = "RUNNER_ERROR"]
<1>4. up \in Underway /\ down \in Underway
  BY <1>2 DEF Underway, Reasons
<1>5. RunSound(up) /\ RunSound(down)
  BY <1>1, <1>2 DEF Underway, RunSound
<1>6. \/ run' = [run EXCEPT ![e] = up] /\ UNCHANGED budget
      \/ run' = [run EXCEPT ![e] = down] /\ Meet("runner error")
  BY DEF Launch, ExecInv, ExecTypeOK
<1> HIDE DEF up, down
<1>7. budget' \in Budget
  BY <1>6, MeetType DEF ExecInv, ExecTypeOK
<1>8. CASE run' = [run EXCEPT ![e] = up]
  BY <1>1, <1>3, <1>4, <1>5, <1>7, <1>8, OneRun
<1>9. CASE run' = [run EXCEPT ![e] = down]
  BY <1>1, <1>3, <1>4, <1>5, <1>7, <1>9, OneRun
<1> QED
  BY <1>6, <1>8, <1>9

(* Steps that change neither reason, inputs nor phase of a run that is     *)
(* running.                                                                *)
LEMMA RunningKeeps ==
  ASSUME ExecInv, NEW e \in Executions, NEW r \in Underway,
         run[e].phase \notin {"idle", "over"},
         r.phase = run[e].phase, r.before = run[e].before,
         r.after = run[e].after, r.invoked = run[e].invoked,
         \/ r.reason = run[e].reason /\ r.truncated = run[e].truncated
         \/ r.reason # "COMPLETED" /\ r.phase = "running",
         run' = [run EXCEPT ![e] = r],
         budget' \in Budget,
         UNCHANGED <<source, started, receipts>>
  PROVE  ExecInv' /\ ReceiptsStay
<1>1. run[e] \in Underway /\ RunSound(run[e])
  BY RunUnderway
<1>2. RunSound(r)
  BY <1>1 DEF RunSound
<1> QED
  BY <1>2, OneRun

LEMMA ChildExitsKeeps ==
  ASSUME ExecInv, NEW e \in Executions, ChildExits(e)
  PROVE  ExecInv' /\ ReceiptsStay
<1>1. run[e].phase = "running"
  BY DEF ChildExits
<1>2. run[e] \in Underway
  BY <1>1, RunUnderway
<1>3. source \in Contents \cup {Gone} /\ run[e].request.kind \in Kinds
  BY <1>2 DEF ExecInv, ExecTypeOK, Revisions, Underway, Request
<1>4. ChildCodes[run[e].request.kind][source] \subseteq {"zero", "one", "other"}
  BY <1>3, ExecutionAssumption
<1>5. PICK code \in {"zero", "one", "other"}, open \in BOOLEAN :
        run' = [run EXCEPT ![e].child = FALSE, ![e].exit = code,
                           ![e].open = open]
  BY <1>2, <1>4 DEF ChildExits, Underway
<1> DEFINE r == [run[e] EXCEPT !.child = FALSE, !.exit = code, !.open = open]
<1>6. r \in Underway /\ r.phase = run[e].phase /\ r.before = run[e].before
      /\ r.after = run[e].after /\ r.invoked = run[e].invoked
      /\ r.reason = run[e].reason /\ r.truncated = run[e].truncated
  BY <1>2 DEF Underway, ExitCodes
<1>7. run' = [run EXCEPT ![e] = r]
  BY <1>5 DEF ExecInv, ExecTypeOK
<1>8. UNCHANGED <<budget, source, started, receipts>>
  BY DEF ChildExits
<1> HIDE DEF r
<1> QED
  BY <1>1, <1>6, <1>7, <1>8, RunningKeeps DEF ExecInv, ExecTypeOK

LEMMA PipesCloseKeeps ==
  ASSUME ExecInv, NEW e \in Executions, PipesClose(e)
  PROVE  ExecInv' /\ ReceiptsStay
<1>1. run[e].phase = "running"
  BY DEF PipesClose
<1>2. run[e] \in Underway
  BY <1>1, RunUnderway
<1> DEFINE r == [run[e] EXCEPT !.open = FALSE]
<1>3. r \in Underway /\ r.phase = run[e].phase /\ r.before = run[e].before
      /\ r.after = run[e].after /\ r.invoked = run[e].invoked
      /\ r.reason = run[e].reason /\ r.truncated = run[e].truncated
  BY <1>2 DEF Underway
<1>4. run' = [run EXCEPT ![e] = r]
  BY DEF PipesClose, ExecInv, ExecTypeOK
<1>5. UNCHANGED <<budget, source, started, receipts>>
  BY DEF PipesClose
<1> HIDE DEF r
<1> QED
  BY <1>1, <1>3, <1>4, <1>5, RunningKeeps DEF ExecInv, ExecTypeOK

LEMMA TimePassesKeeps ==
  ASSUME ExecInv, NEW e \in Executions, TimePasses(e)
  PROVE  ExecInv' /\ ReceiptsStay
<1>1. run[e].phase = "running" /\ run[e].time < 2
  BY DEF TimePasses
<1>2. run[e] \in Underway
  BY <1>1, RunUnderway
<1> DEFINE r == [run[e] EXCEPT !.time = @ + 1]
<1>3. r \in Underway /\ r.phase = run[e].phase /\ r.before = run[e].before
      /\ r.after = run[e].after /\ r.invoked = run[e].invoked
      /\ r.reason = run[e].reason /\ r.truncated = run[e].truncated
  BY <1>1, <1>2 DEF Underway
<1>4. run' = [run EXCEPT ![e] = r]
  BY DEF TimePasses, ExecInv, ExecTypeOK
<1>5. UNCHANGED <<source, started, receipts>>
      /\ (UNCHANGED budget \/ Meet("timeout"))
  BY DEF TimePasses
<1>6. budget' \in Budget
  BY <1>5, MeetType DEF ExecInv, ExecTypeOK
<1> HIDE DEF r
<1> QED
  BY <1>1, <1>3, <1>4, <1>5, <1>6, RunningKeeps

LEMMA CancelKeeps ==
  ASSUME ExecInv, NEW e \in Executions, Cancel(e)
  PROVE  ExecInv' /\ ReceiptsStay
<1>1. run[e].phase \notin {"idle", "over"}
  BY DEF Cancel, Busy
<1>2. run[e] \in Underway
  BY <1>1, RunUnderway
<1> DEFINE r == [run[e] EXCEPT !.cancel = TRUE]
<1>3. r \in Underway /\ r.phase = run[e].phase /\ r.before = run[e].before
      /\ r.after = run[e].after /\ r.invoked = run[e].invoked
      /\ r.reason = run[e].reason /\ r.truncated = run[e].truncated
  BY <1>2 DEF Underway
<1>4. run' = [run EXCEPT ![e] = r]
  BY DEF Cancel, ExecInv, ExecTypeOK
<1>5. UNCHANGED <<source, started, receipts>> /\ Meet("cancel")
  BY DEF Cancel
<1>6. budget' \in Budget
  BY <1>5, MeetType DEF ExecInv
<1> HIDE DEF r
<1> QED
  BY <1>1, <1>3, <1>4, <1>5, <1>6, RunningKeeps

LEMMA StopKeeps ==
  ASSUME ExecInv, NEW e \in Executions, NEW reason \in {"CANCELLED", "TIMEOUT"},
         Stop(e, reason)
  PROVE  ExecInv' /\ ReceiptsStay
<1>1. run[e].phase = "running"
  BY DEF Stop, InLoop
<1>2. run[e] \in Underway
  BY <1>1, RunUnderway
<1> DEFINE r == [run[e] EXCEPT !.reason = reason, !.killed = TRUE]
<1>3. r \in Underway /\ r.phase = run[e].phase /\ r.before = run[e].before
      /\ r.after = run[e].after /\ r.invoked = run[e].invoked
      /\ r.reason # "COMPLETED"
  BY <1>2 DEF Underway, Reasons
<1>4. run' = [run EXCEPT ![e] = r]
  BY DEF Stop, ExecInv, ExecTypeOK
<1>5. UNCHANGED <<budget, source, started, receipts>>
  BY DEF Stop
<1> HIDE DEF r
<1> QED
  BY <1>1, <1>3, <1>4, <1>5, RunningKeeps DEF ExecInv, ExecTypeOK

LEMMA OutputLimitKeeps ==
  ASSUME ExecInv, NEW e \in Executions, OutputLimit(e)
  PROVE  ExecInv' /\ ReceiptsStay
<1>1. run[e].phase = "running"
  BY DEF OutputLimit, InLoop
<1>2. run[e] \in Underway
  BY <1>1, RunUnderway
<1> DEFINE r == [run[e] EXCEPT
       !.truncated = TRUE, !.killed = TRUE,
       !.reason = IF @ = "COMPLETED" THEN "OUTPUT_LIMIT" ELSE @]
<1>3. r \in Underway /\ r.phase = run[e].phase /\ r.before = run[e].before
      /\ r.after = run[e].after /\ r.invoked = run[e].invoked
      /\ r.reason # "COMPLETED"
  BY <1>2 DEF Underway, Reasons
<1>4. run' = [run EXCEPT ![e] = r]
  BY DEF OutputLimit, ExecInv, ExecTypeOK
<1>5. UNCHANGED <<source, started, receipts>> /\ Meet("output limit")
  BY DEF OutputLimit
<1>6. budget' \in Budget
  BY <1>5, MeetType DEF ExecInv
<1> HIDE DEF r
<1> QED
  BY <1>1, <1>3, <1>4, <1>5, <1>6, RunningKeeps

LEMMA GiveUpKeeps ==
  ASSUME ExecInv, NEW e \in Executions, GiveUp(e)
  PROVE  ExecInv' /\ ReceiptsStay
<1>1. run[e].phase = "running" /\ run[e].reason # "COMPLETED"
  BY DEF GiveUp, InLoop
<1>2. run[e] \in Underway /\ RunSound(run[e])
  BY <1>1, RunUnderway
<1> DEFINE r == IF run[e].child
       THEN [run[e] EXCEPT !.phase = "after", !.open = FALSE, !.child = FALSE,
                           !.reason = "RUNNER_ERROR", !.exit = "none",
                           !.truncated = FALSE]
       ELSE [run[e] EXCEPT !.phase = "after", !.open = FALSE]
<1>3. r \in Underway
  BY <1>2 DEF Underway, Reasons, ExitCodes
<1>4. RunSound(r)
  BY <1>1, <1>2 DEF Underway, RunSound
<1>5. run' = [run EXCEPT ![e] = r]
  BY DEF GiveUp, ExecInv, ExecTypeOK
<1>6. UNCHANGED <<budget, source, started, receipts>>
  BY DEF GiveUp
<1> HIDE DEF r
<1> QED
  BY <1>1, <1>3, <1>4, <1>5, <1>6, OneRun DEF ExecInv, ExecTypeOK

LEMMA ReadAfterKeeps ==
  ASSUME ExecInv, NEW e \in Executions, ReadAfter(e)
  PROVE  ExecInv' /\ ReceiptsStay
<1>1. run[e].phase \in {"running", "after"} /\ source \in Revisions
  BY DEF ReadAfter, ExecInv, ExecTypeOK
<1>2. run[e] \in Underway /\ RunSound(run[e])
  BY <1>1, RunUnderway
<1>3. PICK reason \in {"INPUT_DRIFT", "ARTIFACT_LIMIT", run[e].reason} :
        /\ reason = "COMPLETED" =>
             run[e].reason = "COMPLETED" /\ source = run[e].before
        /\ run' = [run EXCEPT ![e].phase = "publish", ![e].after = source,
                              ![e].reason = reason]
  BY <1>2 DEF ReadAfter, Underway
<1> DEFINE r == [run[e] EXCEPT !.phase = "publish", !.after = source,
                               !.reason = reason]
<1>4. r \in Underway
  BY <1>1, <1>2, <1>3 DEF Underway, Reasons
<1>5. RunSound(r)
  BY <1>1, <1>2, <1>3 DEF Underway, RunSound
<1>6. run' = [run EXCEPT ![e] = r]
  BY <1>3 DEF ExecInv, ExecTypeOK
<1>7. UNCHANGED <<source, started, receipts>>
      /\ (UNCHANGED budget \/ Meet("artifact limit"))
  BY DEF ReadAfter
<1>8. budget' \in Budget
  BY <1>7, MeetType DEF ExecInv, ExecTypeOK
<1> HIDE DEF r
<1> QED
  BY <1>1, <1>4, <1>5, <1>6, <1>7, <1>8, OneRun

(***************************************************************************)
(* The receipt                                                             *)
(***************************************************************************)

LEMMA ResultType ==
  ASSUME NEW kind \in Kinds, NEW exit \in ExitCodes, NEW reason \in Reasons
  PROVE  ResultOf(kind, exit, reason) \in Results
  BY ExecutionAssumption DEF ResultOf, Results, Reasons, ExitCodes, Kinds

(* Only a run that completed passes or fails.                              *)
LEMMA ResultEarned ==
  ASSUME NEW kind \in Kinds, NEW exit \in ExitCodes, NEW reason \in Reasons
  PROVE  /\ ResultOf(kind, exit, reason) \in {"PASS", "FAIL"} =>
              reason = "COMPLETED" /\ exit # "none"
         /\ ResultOf(kind, exit, reason) = "PASS" => exit = "zero"
  BY ExecutionAssumption DEF ResultOf, Results, Reasons, ExitCodes, Kinds

LEMMA ReceiptEarned ==
  ASSUME ExecInv, NEW e \in Executions, run[e].phase = "publish"
  PROVE  ReceiptOf(e) \in Receipt /\ Earned(ReceiptOf(e))
<1>1. run[e] \in Underway /\ RunSound(run[e])
  BY RunUnderway
<1> DEFINE r == run[e]
           result == ResultOf(r.request.kind, r.exit, r.reason)
           complete == ~r.truncated
           testRun == /\ r.request.kind = "TEST"
                      /\ result \in {"PASS", "FAIL"}
                      /\ r.reason = "COMPLETED"
<1>2. /\ r.request.kind \in Kinds /\ r.request.canonical \in 0..MaxCanonical
      /\ r.exit \in ExitCodes /\ r.reason \in Reasons
      /\ r.before \in Revisions /\ r.after \in Revisions
      /\ r.truncated \in BOOLEAN /\ r.invoked \in BOOLEAN
  BY <1>1 DEF Underway, Request
<1>3. result \in Results
  BY <1>2, ResultType
<1>4. /\ result \in {"PASS", "FAIL"} => r.reason = "COMPLETED" /\ r.exit # "none"
      /\ result = "PASS" => r.exit = "zero"
  BY <1>2, ResultEarned
<1>5. r.reason = "COMPLETED" =>
        ~r.truncated /\ r.invoked /\ r.before = r.after /\ r.before # Gone
  BY <1>1 DEF RunSound
<1>6. complete \in BOOLEAN /\ testRun \in BOOLEAN
      /\ (r.reason = "COMPLETED" => complete)
      /\ (testRun => r.request.kind = "TEST" /\ result \in {"PASS", "FAIL"})
  BY <1>5
<1>7. ReceiptOf(e) =
        [kind |-> r.request.kind, canonical |-> r.request.canonical,
         before |-> r.before, after |-> r.after,
         reason |-> r.reason, exit |-> r.exit, complete |-> complete,
         invoked |-> r.invoked, result |-> result, testRun |-> testRun]
  BY DEF ReceiptOf
<1> HIDE DEF result, complete, testRun
<1>8. ReceiptOf(e) \in Receipt
  BY <1>2, <1>3, <1>6, <1>7 DEF Receipt
<1>9. Earned(ReceiptOf(e))
  BY <1>2, <1>4, <1>5, <1>6, <1>7 DEF Earned
<1> QED
  BY <1>8, <1>9

(* The receipt appears when there is none, and the run is over.            *)
LEMMA PublishKeeps ==
  ASSUME ExecInv, NEW e \in Executions, Publish(e)
  PROVE  ExecInv' /\ ReceiptsStay
<1>1. run[e].phase = "publish" /\ run \in [Executions -> Run]
      /\ receipts \in [Executions -> Receipt] /\ started \in Nat
  BY Counting DEF Publish, ExecInv, ExecTypeOK
<1>2. ReceiptOf(e) \in Receipt /\ Earned(ReceiptOf(e))
  BY <1>1, ReceiptEarned
<1>3. e <= started /\ ~HasReceipt(e)
  BY <1>1 DEF ExecInv, InOrder
<1>4. run' = [run EXCEPT ![e] = [phase |-> "over"]]
      /\ UNCHANGED <<source, started>>
  BY DEF Publish
<1>5. \/ receipts' = [receipts EXCEPT ![e] = ReceiptOf(e)] /\ UNCHANGED budget
      \/ Meet("write error") /\ UNCHANGED receipts
  BY DEF Publish
<1>6. budget' \in Budget
  BY <1>5, MeetType DEF ExecInv, ExecTypeOK
<1>7. receipts' \in [Executions -> Receipt] /\ Earned(receipts'[e])
      /\ \A d \in Executions \ {e} : receipts'[d] = receipts[d]
  BY <1>1, <1>2, <1>5 DEF ExecInv
<1>8. run' \in [Executions -> Run] /\ run'[e] = [phase |-> "over"]
      /\ \A d \in Executions \ {e} : run'[d] = run[d]
  BY <1>1, <1>4 DEF Run
<1>9. ExecTypeOK'
  BY <1>4, <1>6, <1>7, <1>8 DEF ExecInv, ExecTypeOK
<1>10. ASSUME NEW d \in Executions
       PROVE  RunSound(run'[d]) /\ InOrder(d)' /\ Earned(receipts'[d])
  <2>1. CASE d = e
    BY <2>1, <1>3, <1>4, <1>7, <1>8 DEF InOrder, RunSound
  <2>2. CASE d # e
    BY <2>2, <1>4, <1>7, <1>8 DEF ExecInv, InOrder, HasReceipt
  <2> QED
    BY <2>1, <2>2
<1>11. ReceiptsStay
  BY <1>1, <1>3, <1>4, <1>7 DEF ReceiptsStay
<1> QED
  BY <1>9, <1>10, <1>11 DEF ExecInv

LEMMA EditKeeps ==
  ASSUME ExecInv, NEW quiet, Edit(quiet)
  PROVE  ExecInv' /\ ReceiptsStay
<1>1. source' \in Revisions
  BY DEF Edit, Revisions
<1>2. budget' \in Budget
  BY MeetType DEF Edit, ExecInv, ExecTypeOK
<1>3. UNCHANGED <<started, run, receipts>> /\ started \in Nat
  BY Counting DEF Edit
<1> QED
  BY <1>1, <1>2, <1>3 DEF ExecInv, ExecTypeOK, InOrder, HasReceipt, ReceiptsStay

LEMMA AbortRunsKeeps ==
  ASSUME ExecInv, AbortRuns
  PROVE  ExecInv' /\ ReceiptsStay
<1>1. UNCHANGED <<source, started, receipts>> /\ started \in Nat
  BY Counting DEF AbortRuns
<1>2. budget' \in Budget
  BY MeetType DEF AbortRuns, ExecInv, ExecTypeOK
<1>3. run' = [e \in Executions |->
        IF run[e].phase = "idle" THEN Idle ELSE [phase |-> "over"]]
  BY DEF AbortRuns
<1>4. run' \in [Executions -> Run]
  BY <1>3 DEF Run
<1>5. ExecTypeOK'
  BY <1>1, <1>2, <1>4 DEF ExecInv, ExecTypeOK
<1>6. ASSUME NEW e \in Executions
      PROVE  RunSound(run'[e]) /\ InOrder(e)' /\ Earned(receipts'[e])
  BY <1>1, <1>3 DEF ExecInv, InOrder, HasReceipt, RunSound, Idle
<1> QED
  BY <1>1, <1>5, <1>6 DEF ExecInv, ReceiptsStay

(* A new execution has neither run nor receipt before. *)
LEMMA StartKeeps ==
  ASSUME ExecInv, NEW request \in Request, Start(request),
         UNCHANGED <<budget, source, receipts>>
  PROVE  /\ ExecInv' /\ ReceiptsStay
         /\ started + 1 \in Executions /\ started' = started + 1
<1> DEFINE r == [phase |-> "inputs", request |-> request, before |-> Gone,
        after |-> Gone, reason |-> "COMPLETED", exit |-> "none",
        truncated |-> FALSE, invoked |-> FALSE, child |-> FALSE,
        open |-> FALSE, killed |-> FALSE, cancel |-> FALSE, time |-> 0]
           e == started + 1
<1>1. started \in 0..MaxExecutions /\ MaxExecutions \in Nat
      /\ budget.executions \in 0..MaxExecutions
      /\ run \in [Executions -> Run]
  BY ExecutionAssumption DEF ExecInv, ExecTypeOK, Budget
<1>2. started < budget.executions /\ started' = e /\ run' = [run EXCEPT ![e] = r]
  BY DEF Start
<1>3. e \in Executions /\ started' \in 0..MaxExecutions
  BY <1>1, <1>2 DEF Executions
<1>4. r \in Underway /\ r.phase = "inputs"
  BY DEF Underway, Revisions, Reasons, ExitCodes
<1>5. RunSound(r)
  BY DEF RunSound
<1> HIDE DEF r
<1>6. r \in Run
  BY <1>4, UnderwayRuns
<1>7. run' \in [Executions -> Run] /\ run'[e] = r
      /\ \A d \in Executions \ {e} : run'[d] = run[d]
  BY <1>1, <1>2, <1>3, <1>6
<1>8. ExecTypeOK'
  BY <1>3, <1>7 DEF ExecInv, ExecTypeOK
<1>9. ~HasReceipt(e)
  <2>1. ~(e <= started)
    BY <1>1
  <2>2. run[e].phase = "idle"
    BY <1>3, <2>1 DEF ExecInv, InOrder
  <2> QED
    BY <1>3, <2>2 DEF ExecInv, InOrder
<1>10. ASSUME NEW d \in Executions
       PROVE  RunSound(run'[d]) /\ InOrder(d)' /\ Earned(receipts'[d])
  <2>1. CASE d = e
    BY <2>1, <1>1, <1>2, <1>5, <1>7, <1>9 DEF ExecInv, InOrder, HasReceipt
  <2>2. CASE d # e
    <3>1. d \in Nat /\ started \in Nat
      BY <1>1 DEF Executions
    <3> QED
      BY <2>2, <3>1, <1>2, <1>7 DEF ExecInv, InOrder, HasReceipt
  <2> QED
    BY <2>1, <2>2
<1>11. ReceiptsStay
  BY <1>1, <1>2 DEF ReceiptsStay
<1> QED
  BY <1>2, <1>3, <1>8, <1>10, <1>11 DEF ExecInv

LEMMA ExecStepKeeps ==
  ASSUME ExecInv, ExecStep
  PROVE  ExecInv' /\ ReceiptsStay
<1>1. CASE Edit(claiming = Free)
  BY <1>1, EditKeeps
<1>2. ASSUME NEW e \in Executions, RunnerStep(e)
      PROVE  ExecInv' /\ ReceiptsStay
  <2>1. CASE ReadInputs(e)
    BY <2>1, ReadInputsKeeps
  <2>2. CASE Launch(e)
    BY <2>2, LaunchKeeps
  <2>3. CASE StopCancelled(e)
    BY <2>3, StopKeeps DEF StopCancelled
  <2>4. CASE StopTimeout(e)
    BY <2>4, StopKeeps DEF StopTimeout
  <2>5. CASE OutputLimit(e)
    BY <2>5, OutputLimitKeeps
  <2>6. CASE GiveUp(e)
    BY <2>6, GiveUpKeeps
  <2>7. CASE ReadAfter(e)
    BY <2>7, ReadAfterKeeps
  <2>8. CASE Publish(e)
    BY <2>8, PublishKeeps
  <2> QED
    BY <1>2, <2>1, <2>2, <2>3, <2>4, <2>5, <2>6, <2>7, <2>8 DEF RunnerStep
<1>3. ASSUME NEW e \in Executions, ProcessStep(e)
      PROVE  ExecInv' /\ ReceiptsStay
  BY <1>3, ChildExitsKeeps, PipesCloseKeeps, TimePassesKeeps, CancelKeeps
     DEF ProcessStep
<1> QED
  BY <1>1, <1>2, <1>3 DEF ExecStep

LEMMA ExecInitially == Init => ExecInv
<1> SUFFICES ASSUME Init PROVE ExecInv
  OBVIOUS
<1>1. ExecTypeOK
  BY ExecutionAssumption DEF Init, ExecInit, ExecTypeOK, Revisions, Run, Receipt
<1>2. ASSUME NEW e \in Executions
      PROVE  RunSound(run[e]) /\ InOrder(e) /\ Earned(receipts[e])
  BY DEF Init, ExecInit, RunSound, InOrder, HasReceipt, Earned, Idle
<1> QED
  BY <1>1, <1>2 DEF ExecInv

LEMMA OnlyBudget ==
  ASSUME ExecInv, UNCHANGED <<source, started, run, receipts>>,
         UNCHANGED budget \/ \E kind \in Troubles : Meet(kind)
  PROVE  ExecInv' /\ ReceiptsStay
<1>1. budget' \in Budget
  BY MeetType DEF ExecInv, ExecTypeOK
<1> QED
  BY <1>1, Counting DEF ExecInv, ExecTypeOK, InOrder, HasReceipt, ReceiptsStay

(***************************************************************************)
(* The records of attempts and applications                                *)
(***************************************************************************)

RecTypes ==
  /\ change \in Change
  /\ attempts \in [Executions -> Attempt]
  /\ applications \in [Applications -> Application]
  /\ building \in [Executions -> Building]
  /\ claiming \in Claiming

Made(p) == applications[p] # NoApplication

(* A build either names nothing or the application, recorded with the      *)
(* change and claiming these files, that was made to the attempt before.   *)
Chain(previous, application, files) ==
  /\ (previous # None) <=> (application # None)
  /\ application # None =>
       /\ previous \in Executions /\ HasAttempt(previous)
       /\ Made(application)
       /\ applications[application].previous = previous
       /\ applications[application].claim = files
       /\ application \in change.recorded

AttemptOK(e) ==
  HasAttempt(e) =>
    /\ HasReceipt(e)
    /\ attempts[e].status = "BUILD_FIXED_BUT_UNVERIFIED" =>
         /\ attempts[e].previous # None /\ attempts[e].previous < e
         /\ attempts[attempts[e].previous].status \notin PassStatus
         /\ Chain(attempts[e].previous, attempts[e].application, attempts[e].files)
         /\ receipts[e].result = "PASS"

BuildingOK(e) ==
  building[e] # Free =>
    /\ Chain(building[e].previous, building[e].application, building[e].files)
    /\ building[e].previous # None => building[e].previous < e

ApplicationOK(p) ==
  Made(p) => p \in change.recorded /\ HasAttempt(applications[p].previous)

ClaimingOK ==
  /\ claiming.step = "expect" =>
       Chain(claiming.previous, claiming.application, claiming.files)
  /\ claiming.step \in {"record", "publish"} =>
       ~Made(claiming.id) /\ HasAttempt(claiming.previous)
  /\ claiming.step = "publish" => claiming.id \in change.recorded

ChangeOK ==
  /\ \A e \in change.adopted : HasReceipt(e)
  /\ change.state \in {"VERIFIED", "CLOSED"} =>
       /\ change.used \in change.adopted
       /\ receipts[change.used].canonical = change.evidence

RecInv ==
  /\ RecTypes
  /\ \A e \in Executions : AttemptOK(e) /\ BuildingOK(e)
  /\ \A p \in Applications : ApplicationOK(p)
  /\ ClaimingOK /\ ChangeOK

(* Records are published once, and the change forgets none.                *)
RecordsGrow ==
  /\ \A a \in Executions : HasAttempt(a) => attempts'[a] = attempts[a]
  /\ \A p \in Applications : Made(p) => applications'[p] = applications[p]
  /\ change.recorded \subseteq change'.recorded

LEMMA NoneIsNoExecution == None \notin Executions /\ None \notin Applications
  BY RecoveryAssumption, ExecutionAssumption DEF Executions

LEMMA ChainStays ==
  ASSUME RecordsGrow, NEW previous, NEW application \in Applications \cup {None},
         NEW files, Chain(previous, application, files)
  PROVE  Chain(previous, application, files)'
<1>1. CASE application = None
  BY <1>1 DEF Chain
<1>2. CASE application # None
  BY <1>2 DEF Chain, RecordsGrow, HasAttempt, Made
<1> QED
  BY <1>1, <1>2

Builds == [step : {"build"}, files : Contents,
           previous : Executions \cup {None},
           application : Applications \cup {None}]
Attempted == [status : Statuses, files : Contents, previous : Executions \cup {None},
          application : Applications \cup {None}, diagnosed : BOOLEAN]
Expecting == [step : {"expect"}, files : Contents, evidence : 0..MaxCanonical,
              previous : Executions \cup {None},
              application : Applications \cup {None}]
Recording == [step : {"record", "publish"}, id : Applications,
              previous : Executions, claim : Contents,
              version : 1..MaxVersion]

LEMMA RecordTypes ==
  ASSUME RecTypes
  PROVE  /\ \A e \in Executions : building[e] # Free => building[e] \in Builds
         /\ \A e \in Executions : HasAttempt(e) => attempts[e] \in Attempted
         /\ \A p \in Applications : Made(p) =>
              applications[p] \in [previous : Executions, claim : Contents,
                                   version : 1..MaxVersion]
         /\ claiming.step = "expect" => claiming \in Expecting
         /\ claiming.step \in {"record", "publish"} => claiming \in Recording
<1>1. ASSUME NEW e \in Executions, building[e] # Free
      PROVE  building[e] \in Builds
  BY <1>1 DEF RecTypes, Building, Builds
<1>2. ASSUME NEW e \in Executions, HasAttempt(e)
      PROVE  attempts[e] \in Attempted
  BY <1>2 DEF RecTypes, Attempt, Attempted, HasAttempt
<1>3. ASSUME NEW p \in Applications, Made(p)
      PROVE  applications[p] \in [previous : Executions, claim : Contents,
                                  version : 1..MaxVersion]
  BY <1>3 DEF RecTypes, Application, Made
<1>4. claiming.step = "expect" => claiming \in Expecting
  BY DEF RecTypes, Claiming, Expecting, Free
<1>5. claiming.step \in {"record", "publish"} => claiming \in Recording
  BY DEF RecTypes, Claiming, Recording, Free
<1> QED
  BY <1>1, <1>2, <1>3, <1>4, <1>5

(* What a step does not touch goes on holding.                             *)
LEMMA RecordsKeep ==
  ASSUME ExecInv, RecInv, ReceiptsStay, RecordsGrow, RecTypes',
         \A e \in Executions : attempts'[e] = attempts[e] \/ AttemptOK(e)',
         \A e \in Executions :
           building'[e] \in {building[e], Free} \/ BuildingOK(e)',
         \A p \in Applications :
           applications'[p] = applications[p] \/ ApplicationOK(p)',
         \/ claiming' = claiming /\ applications' = applications
         \/ claiming' = Free
         \/ ClaimingOK',
         change' = change \/ ChangeOK'
  PROVE  RecInv'
<1>1. ASSUME NEW e \in Executions
      PROVE  AttemptOK(e)'
  <2>1. CASE attempts'[e] = attempts[e] /\ HasAttempt(e)
    <3>1. attempts[e] \in Attempted /\ HasReceipt(e) /\ receipts'[e] = receipts[e]
      BY <2>1, RecordTypes DEF RecInv, AttemptOK, ReceiptsStay
    <3>2. HasReceipt(e)'
      BY <3>1 DEF HasReceipt
    <3>3. ASSUME attempts[e].status = "BUILD_FIXED_BUT_UNVERIFIED"
          PROVE  /\ Chain(attempts[e].previous, attempts[e].application, attempts[e].files)'
                 /\ attempts'[attempts[e].previous].status \notin PassStatus
      <4>1. /\ Chain(attempts[e].previous, attempts[e].application, attempts[e].files)
            /\ attempts[e].previous # None
            /\ attempts[attempts[e].previous].status \notin PassStatus
        BY <2>1, <3>3 DEF RecInv, AttemptOK
      <4>2. Chain(attempts[e].previous, attempts[e].application, attempts[e].files)'
        <5>1. PICK previous, application, files :
                /\ previous = attempts[e].previous
                /\ application = attempts[e].application
                /\ files = attempts[e].files
          OBVIOUS
        <5>2. application \in Applications \cup {None}
          BY <3>1, <5>1 DEF Attempted
        <5>3. Chain(previous, application, files)
          BY <4>1, <5>1
        <5>4. Chain(previous, application, files)'
          BY <5>2, <5>3, ChainStays
        <5> QED
          BY <2>1, <5>1, <5>4
      <4> QED
        BY <4>1, <4>2 DEF RecordsGrow, Chain
    <3> QED
      BY <2>1, <3>1, <3>2, <3>3 DEF RecInv, AttemptOK
  <2>2. CASE attempts'[e] = attempts[e] /\ ~HasAttempt(e)
    BY <2>2 DEF AttemptOK, HasAttempt
  <2> QED
    BY <2>1, <2>2
<1>2. ASSUME NEW e \in Executions
      PROVE  BuildingOK(e)'
  <2>1. CASE building'[e] = building[e] /\ building[e] # Free
    <3>1. PICK previous, application, files :
            /\ previous = building[e].previous
            /\ application = building[e].application
            /\ files = building[e].files
      OBVIOUS
    <3>2. application \in Applications \cup {None}
      BY <2>1, <3>1, RecordTypes DEF RecInv, Builds
    <3>3. Chain(previous, application, files) /\ (previous # None => previous < e)
      BY <2>1, <3>1 DEF RecInv, BuildingOK
    <3>4. Chain(previous, application, files)'
      BY <3>2, <3>3, ChainStays
    <3> QED
      BY <2>1, <3>1, <3>3, <3>4 DEF BuildingOK
  <2>2. CASE building'[e] = Free
    BY <2>2 DEF BuildingOK
  <2> QED
    BY <2>1, <2>2
<1>3. ASSUME NEW p \in Applications
      PROVE  ApplicationOK(p)'
  <2>1. CASE applications'[p] = applications[p] /\ Made(p)
    <3>1. applications[p].previous \in Executions /\ p \in change.recorded
          /\ HasAttempt(applications[p].previous)
      BY <2>1, RecordTypes DEF RecInv, ApplicationOK
    <3>2. HasAttempt(applications[p].previous)'
      BY <2>1, <3>1 DEF RecordsGrow, HasAttempt
    <3> QED
      BY <2>1, <3>1, <3>2 DEF RecordsGrow, ApplicationOK
  <2>2. CASE applications'[p] = applications[p] /\ ~Made(p)
    BY <2>2 DEF ApplicationOK, Made
  <2> QED
    BY <2>1, <2>2
<1>4. ClaimingOK'
  <2>1. CASE claiming' = Free
    BY <2>1 DEF ClaimingOK, Free
  <2>2. CASE claiming' = claiming /\ applications' = applications
    <3>1. ASSUME claiming.step = "expect"
          PROVE  Chain(claiming.previous, claiming.application, claiming.files)'
      <4>1. PICK previous, application, files :
              /\ previous = claiming.previous
              /\ application = claiming.application
              /\ files = claiming.files
        OBVIOUS
      <4>2. application \in Applications \cup {None}
        BY <3>1, <4>1, RecordTypes DEF RecInv, Expecting
      <4>3. Chain(previous, application, files)
        BY <3>1, <4>1 DEF RecInv, ClaimingOK
      <4>4. Chain(previous, application, files)'
        BY <4>2, <4>3, ChainStays
      <4> QED
        BY <2>2, <4>1, <4>4
    <3>2. ASSUME claiming.step \in {"record", "publish"}
          PROVE  ~Made(claiming.id)' /\ HasAttempt(claiming.previous)'
      <4>1. claiming.previous \in Executions
        BY <3>2, RecordTypes DEF RecInv, Recording
      <4>2. ~Made(claiming.id) /\ HasAttempt(claiming.previous)
        BY <3>2 DEF RecInv, ClaimingOK
      <4> QED
        BY <2>2, <4>1, <4>2 DEF RecordsGrow, HasAttempt, Made
    <3> QED
      BY <2>2, <3>1, <3>2 DEF RecInv, ClaimingOK, RecordsGrow
  <2> QED
    BY <2>1, <2>2
<1>5. ChangeOK'
  <2>1. CASE change' = change
    <3>1. change.adopted \subseteq Executions
      BY DEF RecInv, RecTypes, Change
    <3> QED
      BY <2>1, <3>1 DEF RecInv, ChangeOK, ReceiptsStay, HasReceipt
  <2> QED
    BY <2>1
<1> QED
  BY <1>1, <1>2, <1>3, <1>4, <1>5 DEF RecInv

(* Steps of the executions, and calls that only read.                      *)
LEMMA OnlyExecutions ==
  ASSUME ExecInv, RecInv, ReceiptsStay, UNCHANGED recoveryVars
  PROVE  RecInv'
<1>1. RecTypes' /\ RecordsGrow
  BY DEF RecInv, RecTypes, RecordsGrow, recoveryVars
<1> QED
  BY <1>1, RecordsKeep DEF recoveryVars

(***************************************************************************)
(* run                                                                     *)
(***************************************************************************)

LEMMA BeginRunKeeps ==
  ASSUME ExecInv, RecInv, BeginRun
  PROVE  ExecInv' /\ RecInv'
<1>1. UNCHANGED <<execVars, change, attempts, applications, building>>
  BY DEF BeginRun
<1>2. ExecInv' /\ ReceiptsStay
  BY <1>1, ExecStutter
<1>3. PICK previous \in {a \in Executions : HasAttempt(a)} \cup {None},
           application \in {p \in Applications : applications[p] # NoApplication}
                             \cup {None} :
        /\ (previous # None) <=> (application # None)
        /\ application # None =>
             /\ applications[application].previous = previous
             /\ applications[application].claim = source
        /\ claiming' = [step |-> "expect", files |-> source,
                        evidence |-> change.evidence,
                        previous |-> previous, application |-> application]
  BY DEF BeginRun
<1>4. source \in Contents /\ change.evidence \in 0..MaxCanonical
  BY DEF BeginRun, ExecInv, ExecTypeOK, Revisions, RecInv, RecTypes, Change
<1>5. claiming' \in Claiming
  BY <1>3, <1>4 DEF Claiming
<1>6. RecTypes' /\ RecordsGrow
  BY <1>1, <1>5 DEF RecInv, RecTypes, RecordsGrow
<1>7. Chain(previous, application, source)
  BY <1>3 DEF Chain, RecInv, ApplicationOK, Made
<1>8. Chain(previous, application, source)'
  BY <1>1, <1>7 DEF Chain, Made, HasAttempt, execVars
<1>9. ClaimingOK'
  BY <1>1, <1>3, <1>8 DEF ClaimingOK, execVars
<1> QED
  BY <1>1, <1>2, <1>6, <1>9, RecordsKeep

LEMMA RequestBuildKeeps ==
  ASSUME ExecInv, RecInv, RequestBuild
  PROVE  ExecInv' /\ RecInv'
<1>1. claiming.step = "expect" /\ claiming' = Free
      /\ UNCHANGED <<change, attempts, applications>>
  BY DEF RequestBuild
<1>2. claiming \in Expecting
      /\ Chain(claiming.previous, claiming.application, claiming.files)
  BY <1>1, RecordTypes DEF RecInv, ClaimingOK
<1>3. Free \in Claiming
  BY DEF Claiming
<1>4. CASE UNCHANGED <<execVars, building>>
  <2>1. ExecInv' /\ ReceiptsStay
    BY <1>4, ExecStutter
  <2>2. RecTypes' /\ RecordsGrow
    BY <1>1, <1>3, <1>4 DEF RecInv, RecTypes, RecordsGrow
  <2> QED
    BY <1>1, <1>4, <2>1, <2>2, RecordsKeep
<1>5. ASSUME source # Gone,
             Start([kind |-> "BUILD", expected |-> source,
                    canonical |-> claiming.evidence]),
             building' = [building EXCEPT ![started + 1] =
               [step |-> "build", files |-> claiming.files,
                previous |-> claiming.previous,
                application |-> claiming.application]],
             UNCHANGED <<budget, source, receipts>>
      PROVE  ExecInv' /\ RecInv'
  <2> DEFINE request == [kind |-> "BUILD", expected |-> source,
                         canonical |-> claiming.evidence]
             build == [step |-> "build", files |-> claiming.files,
                       previous |-> claiming.previous,
                       application |-> claiming.application]
  <2>1. request \in Request
    BY <1>2, <1>5 DEF Request, Kinds, Expecting, ExecInv, ExecTypeOK, Revisions
  <2>2. ExecInv' /\ ReceiptsStay /\ started + 1 \in Executions
    BY <1>5, <2>1, StartKeeps
  <2>3. build \in Building /\ build # Free
    BY <1>2 DEF Expecting, Building, Free
  <2>4. RecTypes' /\ RecordsGrow
    BY <1>1, <1>3, <1>5, <2>2, <2>3 DEF RecInv, RecTypes, RecordsGrow
  <2>5. PICK e \in Executions :
          /\ e = started + 1 /\ building'[e] = build
          /\ \A d \in Executions \ {e} : building'[d] = building[d]
    BY <1>5, <2>2 DEF RecInv, RecTypes
  <2>6. Chain(claiming.previous, claiming.application, claiming.files)
    BY <1>2
  <2>7. claiming.previous # None => claiming.previous < started + 1
    <3>1. SUFFICES ASSUME claiming.previous # None
                   PROVE  claiming.previous < started + 1
      OBVIOUS
    <3>2. claiming.previous \in Executions /\ HasAttempt(claiming.previous)
      BY <2>6, <3>1 DEF Chain
    <3>3. HasReceipt(claiming.previous)
      BY <3>2 DEF RecInv, AttemptOK
    <3>4. claiming.previous <= started
      BY <3>2, <3>3 DEF ExecInv, InOrder
    <3> QED
      BY <3>2, <3>4, Counting DEF Executions
  <2>8. BuildingOK(e)'
    <3>1. PICK previous, application, files :
            /\ previous = claiming.previous
            /\ application = claiming.application
            /\ files = claiming.files
      OBVIOUS
    <3>2. Chain(previous, application, files)
      BY <2>6, <3>1
    <3>3. Chain(previous, application, files)'
      BY <1>1, <3>2 DEF Chain, Made, HasAttempt
    <3> QED
      BY <2>5, <2>7, <3>1, <3>3 DEF BuildingOK
  <2> QED
    BY <1>1, <2>2, <2>4, <2>5, <2>8, RecordsKeep
<1> QED
  BY <1>4, <1>5 DEF RequestBuild

(* Only an execution that passes after an attempt that did not counts as   *)
(* a fixed build.                                                          *)
LEMMA StatusFacts ==
  ASSUME ExecInv, RecInv, NEW e \in Executions, building[e] # Free, HasReceipt(e)
  PROVE  /\ StatusOf(e) \in Statuses
         /\ StatusOf(e) = "BUILD_FIXED_BUT_UNVERIFIED" =>
              /\ receipts[e].result = "PASS"
              /\ building[e].previous # None
              /\ attempts[building[e].previous].status \notin PassStatus
<1>1. receipts[e].result \in Results /\ receipts[e].reason \in Reasons
  BY DEF ExecInv, ExecTypeOK, Receipt, HasReceipt
<1> QED
  BY <1>1 DEF StatusOf, Statuses, PassStatus, Results

LEMMA PublishAttemptKeeps ==
  ASSUME ExecInv, RecInv, NEW e \in Executions, PublishAttempt(e)
  PROVE  ExecInv' /\ RecInv'
<1>1. building[e] # Free /\ HasReceipt(e) /\ ~HasAttempt(e)
      /\ UNCHANGED <<execVars, change, applications, claiming>>
  BY DEF PublishAttempt
<1>2. ExecInv' /\ ReceiptsStay
  BY <1>1, ExecStutter
<1>3. building[e] \in Builds
  BY <1>1, RecordTypes DEF RecInv
<1>0. PICK previous, application, files, status, diagnosed :
        /\ previous = building[e].previous
        /\ application = building[e].application
        /\ files = building[e].files /\ status = StatusOf(e)
        /\ diagnosed = (receipts[e].exit # "none")
  OBVIOUS
<1>4. /\ previous = building[e].previous
      /\ application = building[e].application
      /\ files = building[e].files /\ status = StatusOf(e)
      /\ attempts' = [attempts EXCEPT ![e] =
           [status |-> status, files |-> files, previous |-> previous,
            application |-> application, diagnosed |-> diagnosed]]
      /\ building' = [building EXCEPT ![e] = Free]
  BY <1>0 DEF PublishAttempt
<1>5. /\ status \in Statuses
      /\ status = "BUILD_FIXED_BUT_UNVERIFIED" =>
           /\ receipts[e].result = "PASS" /\ previous # None
           /\ attempts[previous].status \notin PassStatus
  BY <1>1, <1>4, StatusFacts
<1>6. application \in Applications \cup {None} /\ files \in Contents
      /\ previous \in Executions \cup {None}
  BY <1>3, <1>4 DEF Builds
<1> DEFINE new == [status |-> status, files |-> files, previous |-> previous,
                   application |-> application, diagnosed |-> diagnosed]
<1>7. new \in Attempt /\ Free \in Building
  BY <1>0, <1>5, <1>6 DEF Attempt, Building
<1>8. attempts' \in [Executions -> Attempt] /\ attempts'[e] = new
      /\ \A d \in Executions \ {e} : attempts'[d] = attempts[d]
  BY <1>4, <1>7 DEF RecInv, RecTypes
<1>9. RecTypes'
  BY <1>1, <1>4, <1>7, <1>8 DEF RecInv, RecTypes
<1>10. RecordsGrow
  BY <1>1, <1>8 DEF RecordsGrow
<1>11. Chain(previous, application, files) /\ (previous # None => previous < e)
  BY <1>1, <1>4 DEF RecInv, BuildingOK
<1>12. Chain(previous, application, files)'
  BY <1>6, <1>10, <1>11, ChainStays
<1>13. previous # None => attempts'[previous] = attempts[previous]
  BY <1>6, <1>10, <1>11 DEF Chain, RecordsGrow
<1>14. AttemptOK(e)'
  <2>1. receipts' = receipts
    BY <1>1 DEF execVars
  <2> QED
    BY <1>1, <1>5, <1>8, <1>11, <1>12, <1>13, <2>1 DEF AttemptOK, HasReceipt
<1>15. \A d \in Executions : building'[d] \in {building[d], Free}
  BY <1>4 DEF RecInv, RecTypes
<1> QED
  BY <1>1, <1>2, <1>8, <1>9, <1>10, <1>14, <1>15, RecordsKeep

LEMMA RunRaisesKeeps ==
  ASSUME ExecInv, RecInv, NEW e \in Executions, RunRaises(e)
  PROVE  ExecInv' /\ RecInv'
<1>1. building' = [building EXCEPT ![e] = Free]
      /\ UNCHANGED <<source, started, run, receipts, change, attempts,
                     applications, claiming>>
  BY DEF RunRaises
<1>2. ExecInv' /\ ReceiptsStay
  <2>1. UNCHANGED budget \/ Meet("write error")
    BY DEF RunRaises
  <2> QED
    BY <1>1, <2>1, OnlyBudget DEF Troubles
<1>3. RecTypes' /\ RecordsGrow
  BY <1>1 DEF RecInv, RecTypes, RecordsGrow, Building
<1>4. \A d \in Executions : building'[d] \in {building[d], Free}
  BY <1>1 DEF RecInv, RecTypes
<1> QED
  BY <1>1, <1>2, <1>3, <1>4, RecordsKeep

(***************************************************************************)
(* record_application                                                      *)
(***************************************************************************)

LEMMA BeginApplicationKeeps ==
  ASSUME ExecInv, RecInv, BeginApplication
  PROVE  ExecInv' /\ RecInv'
<1>1. UNCHANGED <<execVars, change, attempts, applications, building>>
  BY DEF BeginApplication
<1>2. ExecInv' /\ ReceiptsStay
  BY <1>1, ExecStutter
<1>3. PICK p \in Applications, a \in Executions :
        /\ applications[p] = NoApplication /\ HasAttempt(a)
        /\ claiming' = [step |-> "record", id |-> p, previous |-> a,
                        claim |-> source, version |-> change.version]
  BY DEF BeginApplication
<1>4. source \in Contents /\ change.version \in 1..MaxVersion
  BY DEF BeginApplication, ExecInv, ExecTypeOK, Revisions, RecInv, RecTypes, Change
<1>5. claiming' \in Claiming
  BY <1>3, <1>4 DEF Claiming
<1>6. RecTypes' /\ RecordsGrow
  BY <1>1, <1>5 DEF RecInv, RecTypes, RecordsGrow
<1>7. ClaimingOK'
  BY <1>1, <1>3 DEF ClaimingOK, Made, HasAttempt
<1> QED
  BY <1>1, <1>2, <1>6, <1>7, RecordsKeep

LEMMA RecordWithChangeKeeps ==
  ASSUME ExecInv, RecInv, RecordWithChange
  PROVE  ExecInv' /\ RecInv'
<1>1. claiming.step = "record"
      /\ UNCHANGED <<execVars, attempts, applications, building>>
  BY DEF RecordWithChange
<1>2. ExecInv' /\ ReceiptsStay
  BY <1>1, ExecStutter
<1>3. claiming \in Recording
      /\ ~Made(claiming.id) /\ HasAttempt(claiming.previous)
  BY <1>1, RecordTypes DEF RecInv, ClaimingOK
<1>4. CASE claiming' = Free /\ UNCHANGED change
  <2>1. RecTypes' /\ RecordsGrow
    BY <1>1, <1>4 DEF RecInv, RecTypes, RecordsGrow, Claiming
  <2> QED
    BY <1>1, <1>2, <1>4, <2>1, RecordsKeep
<1>5. ASSUME change.state = "IMPLEMENTING", change.version < MaxVersion,
             change' = [change EXCEPT !.recorded = @ \cup {claiming.id},
                                      !.observed = FALSE, !.version = @ + 1],
             claiming' = [claiming EXCEPT !.step = "publish"]
      PROVE  ExecInv' /\ RecInv'
  <2>1. change' \in Change /\ change'.state = "IMPLEMENTING"
        /\ change'.recorded = change.recorded \cup {claiming.id}
        /\ change'.adopted = change.adopted
    <3>1. change \in Change /\ claiming.id \in Applications
      BY <1>3 DEF RecInv, RecTypes, Recording
    <3>2. change.version + 1 \in 1..MaxVersion
      BY <1>5, <3>1, RecoveryAssumption DEF Change
    <3>3. change.recorded \cup {claiming.id} \in SUBSET Applications
      BY <3>1 DEF Change
    <3>4. change' = [change EXCEPT !.recorded = change.recorded \cup {claiming.id},
                       !.observed = FALSE, !.version = change.version + 1]
      BY <1>5
    <3> QED
      BY <1>5, <3>1, <3>2, <3>3, <3>4 DEF Change
  <2>2. claiming' \in Recording /\ claiming'.step = "publish"
        /\ claiming'.id = claiming.id /\ claiming'.previous = claiming.previous
    BY <1>3, <1>5 DEF Recording
  <2>3. claiming' \in Claiming
    BY <2>2 DEF Recording, Claiming
  <2>4. RecTypes' /\ RecordsGrow
    BY <1>1, <2>1, <2>3 DEF RecInv, RecTypes, RecordsGrow
  <2>5. ClaimingOK'
    BY <1>1, <1>3, <2>1, <2>2 DEF ClaimingOK, Made, HasAttempt
  <2>6. ChangeOK'
    BY <1>1, <2>1 DEF RecInv, ChangeOK, HasReceipt, execVars
  <2> QED
    BY <1>1, <1>2, <2>4, <2>5, <2>6, RecordsKeep
<1> QED
  BY <1>4, <1>5 DEF RecordWithChange

LEMMA PublishApplicationKeeps ==
  ASSUME ExecInv, RecInv, PublishApplication
  PROVE  ExecInv' /\ RecInv'
<1>1. claiming.step = "publish" /\ claiming' = Free
      /\ UNCHANGED <<execVars, change, attempts, building>>
  BY DEF PublishApplication
<1>2. ExecInv' /\ ReceiptsStay
  BY <1>1, ExecStutter
<1>3. claiming \in Recording /\ claiming.id \in change.recorded
      /\ ~Made(claiming.id) /\ HasAttempt(claiming.previous)
  BY <1>1, RecordTypes DEF RecInv, ClaimingOK
<1>4. PICK p \in Applications, a \in Executions, claim \in Contents,
           version \in 1..MaxVersion :
        /\ p = claiming.id /\ a = claiming.previous
        /\ applications' = [applications EXCEPT ![p] =
             [previous |-> a, claim |-> claim, version |-> version]]
  BY <1>3 DEF PublishApplication, Recording
<1>5. [previous |-> a, claim |-> claim, version |-> version] \in Application
  BY DEF Application
<1>6. RecTypes'
  BY <1>1, <1>4, <1>5 DEF RecInv, RecTypes, Claiming
<1>7. applications'[p].previous = a
      /\ \A q \in Applications \ {p} : applications'[q] = applications[q]
  BY <1>4 DEF RecInv, RecTypes
<1>8. RecordsGrow
  BY <1>1, <1>3, <1>4, <1>7 DEF RecordsGrow
<1>9. ApplicationOK(p)'
  BY <1>1, <1>3, <1>4, <1>7 DEF ApplicationOK, HasAttempt
<1> QED
  BY <1>1, <1>2, <1>6, <1>7, <1>8, <1>9, RecordsKeep

(***************************************************************************)
(* The lifecycle                                                           *)
(***************************************************************************)

LEMMA ChangeMoves ==
  ASSUME ExecInv, RecInv, ReceiptsStay,
         UNCHANGED <<attempts, applications, building, claiming>>,
         change' \in Change, change.recorded \subseteq change'.recorded,
         ChangeOK'
  PROVE  RecInv'
<1>1. RecTypes' /\ RecordsGrow
  BY DEF RecInv, RecTypes, RecordsGrow
<1> QED
  BY <1>1, RecordsKeep

(* The change goes on to a state in which no test has been used yet, or    *)
(* keeps the one it used and what it was about.                            *)
LEMMA AdvanceKeeps ==
  ASSUME ExecInv, RecInv, NEW update \in Change, Advance(update),
         update.recorded = change.recorded, update.adopted = change.adopted,
         \/ update.state \notin {"VERIFIED", "CLOSED"}
         \/ /\ update.used \in update.adopted
            /\ receipts[update.used].canonical = update.evidence
  PROVE  ExecInv' /\ RecInv'
<1>1. change.version < MaxVersion
      /\ change' = [update EXCEPT !.version = change.version + 1]
      /\ UNCHANGED <<execVars, attempts, applications, building, claiming>>
  BY DEF Advance
<1>2. ExecInv' /\ ReceiptsStay
  BY <1>1, ExecStutter
<1>3. change.version + 1 \in 1..MaxVersion
  BY <1>1, RecoveryAssumption DEF RecInv, RecTypes, Change
<1>4. change' \in Change /\ change'.recorded = change.recorded
      /\ change'.adopted = change.adopted /\ change'.state = update.state
      /\ change'.used = update.used /\ change'.evidence = update.evidence
  BY <1>1, <1>3 DEF Change
<1>5. receipts' = receipts
  BY <1>1 DEF execVars
<1>6. ChangeOK'
  BY <1>4, <1>5 DEF RecInv, ChangeOK, HasReceipt
<1> QED
  BY <1>1, <1>2, <1>4, <1>6, ChangeMoves

LEMMA RequestTestKeeps ==
  ASSUME ExecInv, RecInv, RequestTest
  PROVE  ExecInv' /\ RecInv'
<1> DEFINE request == [kind |-> "TEST", expected |-> NoRevision,
              canonical |-> IF change.evidence = 0 THEN 1 ELSE change.evidence]
<1>1. Start(request) /\ UNCHANGED <<budget, source, receipts, recoveryVars>>
  BY DEF RequestTest
<1>2. change.evidence \in 0..MaxCanonical
  BY DEF RecInv, RecTypes, Change
<1>3. request \in Request
  BY <1>2, RecoveryAssumption, ExecutionAssumption DEF Request, Kinds
<1> HIDE DEF request
<1>4. ExecInv' /\ ReceiptsStay
  BY <1>1, <1>3, StartKeeps
<1> QED
  BY <1>1, <1>4, OnlyExecutions

LEMMA BeginImplementationKeeps ==
  ASSUME ExecInv, RecInv, BeginImplementation
  PROVE  ExecInv' /\ RecInv'
<1> DEFINE update == [change EXCEPT !.state = "IMPLEMENTING", !.evidence = 1,
                                    !.observed = FALSE]
<1>1. change \in Change
  BY DEF RecInv, RecTypes
<1>2. update \in Change /\ update.recorded = change.recorded
      /\ update.adopted = change.adopted /\ update.state = "IMPLEMENTING"
  <2>1. 1 \in 0..MaxCanonical
    BY RecoveryAssumption, ExecutionAssumption
  <2> QED
    BY <1>1, <2>1 DEF Change, States
<1>3. Advance(update)
  BY DEF BeginImplementation
<1> HIDE DEF update
<1> QED
  BY <1>2, <1>3, AdvanceKeeps

LEMMA AdoptIndexJobKeeps ==
  ASSUME ExecInv, RecInv, AdoptIndexJob
  PROVE  ExecInv' /\ RecInv'
<1>1. change \in Change
  BY DEF RecInv, RecTypes
<1>2. PICK revision \in change.evidence..MaxCanonical :
        Advance([change EXCEPT !.evidence = revision, !.observed = TRUE])
  BY DEF AdoptIndexJob
<1> DEFINE update == [change EXCEPT !.evidence = revision, !.observed = TRUE]
<1>3. revision \in 0..MaxCanonical
  BY <1>1, <1>2, ExecutionAssumption DEF Change
<1>4. update \in Change /\ update.recorded = change.recorded
      /\ update.adopted = change.adopted /\ update.state = change.state
  BY <1>1, <1>3 DEF Change
<1>5. Advance(update) /\ change.state = "IMPLEMENTING"
  BY <1>2 DEF AdoptIndexJob
<1> HIDE DEF update
<1> QED
  BY <1>4, <1>5, AdvanceKeeps

LEMMA EvaluateKeeps ==
  ASSUME ExecInv, RecInv, EvaluateExpectedActual
  PROVE  ExecInv' /\ RecInv'
<1> DEFINE update == [change EXCEPT !.state = "EVIDENCE_MATCHED"]
<1>1. change \in Change
  BY DEF RecInv, RecTypes
<1>2. update \in Change /\ update.recorded = change.recorded
      /\ update.adopted = change.adopted /\ update.state = "EVIDENCE_MATCHED"
  BY <1>1 DEF Change, States
<1>3. Advance(update)
  BY DEF EvaluateExpectedActual
<1> HIDE DEF update
<1> QED
  BY <1>2, <1>3, AdvanceKeeps

LEMMA VerifyKeeps ==
  ASSUME ExecInv, RecInv, Verify
  PROVE  ExecInv' /\ RecInv'
<1>1. change \in Change
  BY DEF RecInv, RecTypes
<1>2. PICK e \in change.adopted :
        /\ receipts[e].canonical = change.evidence
        /\ Advance([change EXCEPT !.state = "VERIFIED", !.used = e])
  BY DEF Verify
<1> DEFINE update == [change EXCEPT !.state = "VERIFIED", !.used = e]
<1>3. e \in Executions
  BY <1>1 DEF Change
<1>4. update \in Change /\ update.recorded = change.recorded
      /\ update.adopted = change.adopted /\ update.used = e
      /\ update.evidence = change.evidence
  BY <1>1, <1>3 DEF Change, States
<1>5. Advance(update)
  BY <1>2
<1> HIDE DEF update
<1> QED
  BY <1>2, <1>4, <1>5, AdvanceKeeps

LEMMA CloseKeeps ==
  ASSUME ExecInv, RecInv, Close
  PROVE  ExecInv' /\ RecInv'
<1> DEFINE update == [change EXCEPT !.state = "CLOSED"]
<1>1. change \in Change
  BY DEF RecInv, RecTypes
<1>2. update \in Change /\ update.recorded = change.recorded
      /\ update.adopted = change.adopted /\ update.used = change.used
      /\ update.evidence = change.evidence
  BY <1>1 DEF Change, States
<1>3. Advance(update) /\ change.state = "VERIFIED"
  BY DEF Close
<1> HIDE DEF update
<1>4. change.used \in change.adopted
      /\ receipts[change.used].canonical = change.evidence
  BY <1>3 DEF RecInv, ChangeOK
<1> QED
  BY <1>2, <1>3, <1>4, AdvanceKeeps

LEMMA AdoptTestRunKeeps ==
  ASSUME ExecInv, RecInv, NEW e \in Executions, AdoptTestRun(e)
  PROVE  ExecInv' /\ RecInv'
<1>1. HasReceipt(e) /\ change' = [change EXCEPT !.adopted = @ \cup {e}]
      /\ UNCHANGED <<execVars, attempts, applications, building, claiming>>
  BY DEF AdoptTestRun, Admissible, TestRunAvailable
<1>2. ExecInv' /\ ReceiptsStay
  BY <1>1, ExecStutter
<1>3. change \in Change
  BY DEF RecInv, RecTypes
<1>4. change.adopted \cup {e} \in SUBSET Executions
      /\ change' = [change EXCEPT !.adopted = change.adopted \cup {e}]
  BY <1>1, <1>3 DEF Change
<1>5. change' \in Change /\ change'.adopted = change.adopted \cup {e}
      /\ change'.recorded = change.recorded /\ change'.state = change.state
      /\ change'.used = change.used /\ change'.evidence = change.evidence
  BY <1>3, <1>4 DEF Change
<1>6. receipts' = receipts
  BY <1>1 DEF execVars
<1>7. ChangeOK'
  BY <1>1, <1>5, <1>6 DEF RecInv, ChangeOK, HasReceipt
<1> QED
  BY <1>1, <1>2, <1>5, <1>7, ChangeMoves

LEMMA AbandonKeeps ==
  ASSUME ExecInv, RecInv, Abandon
  PROVE  ExecInv' /\ RecInv'
<1>1. Meet("abandon") /\ change.version < MaxVersion
      /\ change' = [change EXCEPT !.state = "ABANDONED", !.version = @ + 1]
      /\ UNCHANGED <<source, started, run, receipts, attempts, applications,
                     building, claiming>>
  BY DEF Abandon
<1>2. ExecInv' /\ ReceiptsStay
  BY <1>1, OnlyBudget DEF Troubles
<1>3. change \in Change
  BY DEF RecInv, RecTypes
<1>4. change' \in Change /\ change'.state = "ABANDONED"
      /\ change'.adopted = change.adopted /\ change'.recorded = change.recorded
  <2>1. change.version + 1 \in 1..MaxVersion
        /\ change' = [change EXCEPT !.state = "ABANDONED",
                                    !.version = change.version + 1]
    BY <1>1, <1>3, RecoveryAssumption DEF Change
  <2> QED
    BY <1>3, <2>1 DEF Change, States
<1>5. ChangeOK'
  BY <1>1, <1>4 DEF RecInv, ChangeOK, HasReceipt
<1> QED
  BY <1>1, <1>2, <1>4, <1>5, ChangeMoves

LEMMA ServerDiesKeeps ==
  ASSUME ExecInv, RecInv, ServerDies
  PROVE  ExecInv' /\ RecInv'
<1>1. AbortRuns /\ building' = [e \in Executions |-> Free] /\ claiming' = Free
      /\ UNCHANGED <<change, attempts, applications>>
  BY DEF ServerDies
<1>2. ExecInv' /\ ReceiptsStay
  BY <1>1, AbortRunsKeeps
<1>3. RecTypes' /\ RecordsGrow
  BY <1>1 DEF RecInv, RecTypes, RecordsGrow, Building, Claiming
<1> QED
  BY <1>1, <1>2, <1>3, RecordsKeep

(***************************************************************************)
(* The invariant                                                           *)
(***************************************************************************)

RepairInv == ExecInv /\ RecInv

LEMMA RepairInitially == Init => RepairInv
<1> SUFFICES ASSUME Init PROVE RepairInv
  OBVIOUS
<1>1. ExecInv
  BY ExecInitially
<1>2. change \in Change /\ change.adopted = {} /\ change.state = "PLANNED"
  BY RecoveryAssumption, ExecutionAssumption DEF Init, Change, States
<1>3. RecTypes
  BY <1>2 DEF Init, RecTypes, Attempt, Application, Building, Claiming
<1>4. ASSUME NEW e \in Executions
      PROVE  AttemptOK(e) /\ BuildingOK(e)
  BY DEF Init, AttemptOK, BuildingOK, HasAttempt
<1>5. ASSUME NEW p \in Applications
      PROVE  ApplicationOK(p)
  BY DEF Init, ApplicationOK, Made
<1>6. ClaimingOK /\ ChangeOK
  BY <1>2 DEF Init, ClaimingOK, ChangeOK, Free
<1> QED
  BY <1>1, <1>3, <1>4, <1>5, <1>6 DEF RepairInv, RecInv

LEMMA RepairStep == RepairInv /\ [Next]_vars => RepairInv'
<1> SUFFICES ASSUME ExecInv, RecInv, [Next]_vars
             PROVE  ExecInv' /\ RecInv'
  BY DEF RepairInv
<1>1. CASE ServiceStep
  <2>1. ASSUME NEW e \in Executions, PublishAttempt(e) \/ RunRaises(e)
        PROVE  ExecInv' /\ RecInv'
    BY <2>1, PublishAttemptKeeps, RunRaisesKeeps
  <2> QED
    BY <1>1, <2>1, BeginRunKeeps, RequestBuildKeeps, BeginApplicationKeeps,
       RecordWithChangeKeeps, PublishApplicationKeeps DEF ServiceStep
<1>2. CASE LifecycleStep
  <2>1. ASSUME NEW e \in Executions, AdoptTestRun(e)
        PROVE  ExecInv' /\ RecInv'
    BY <2>1, AdoptTestRunKeeps
  <2> QED
    BY <1>2, <2>1, RequestTestKeeps, BeginImplementationKeeps,
       AdoptIndexJobKeeps, EvaluateKeeps, VerifyKeeps, CloseKeeps, AbandonKeeps
       DEF LifecycleStep
<1>3. CASE ExecStep
  BY <1>3, ExecStepKeeps, OnlyExecutions DEF ExecStep
<1>4. CASE ServerDies
  BY <1>4, ServerDiesKeeps
<1>5. CASE UNCHANGED vars
  BY <1>5, ExecStutter, OnlyExecutions DEF vars
<1> QED
  BY <1>1, <1>2, <1>3, <1>4, <1>5 DEF Next

LEMMA RepairInvariant == Spec => []RepairInv
  BY RepairInitially, RepairStep, PTL DEF Spec

(* Every run, receipt, attempt, application and call keeps its type        *)
(* (execution_authority.py, build_recovery.py).                            *)
THEOREM RecoveryTypeCorrect == Spec => []RecoveryTypeOK
<1>1. RepairInv => RecoveryTypeOK
  BY DEF RepairInv, ExecInv, RecInv, RecTypes, RecoveryTypeOK
<1> QED
  BY <1>1, RepairInvariant, PTL

(* Whatever meets a run, in whatever order, its receipt says PASS or FAIL  *)
(* only of a run that completed on the inputs it names (execute).          *)
THEOREM PassesAreEarned == Spec => []PassIsEarned
<1>1. RepairInv => PassIsEarned
  BY DEF RepairInv, ExecInv, Earned, PassIsEarned, HasReceipt
<1> QED
  BY <1>1, RepairInvariant, PTL

(* A fixed build is the end of a repair, for any number of attempts,       *)
(* applications and tests (verification_status, record_application).       *)
THEOREM FixedBuildsHaveLineage == Spec => []FixedBuildHasLineage
<1>1. RepairInv => FixedBuildHasLineage
  <2> SUFFICES ASSUME RepairInv, NEW a \in Executions, HasAttempt(a),
                      attempts[a].status = "BUILD_FIXED_BUT_UNVERIFIED"
               PROVE  LET p == attempts[a].previous
                          application == attempts[a].application
                      IN /\ p # None /\ application # None
                         /\ HasAttempt(p) /\ p < a
                         /\ attempts[p].status \notin PassStatus
                         /\ applications[application].previous = p
                         /\ applications[application].claim = attempts[a].files
                         /\ application \in change.recorded
    BY DEF FixedBuildHasLineage
  <2> QED
    BY DEF RepairInv, RecInv, AttemptOK, Chain
<1> QED
  BY <1>1, RepairInvariant, PTL

(* A repair is called verified only if it is of the change as it was       *)
(* verified and the source as it is (assess_repair).                       *)
THEOREM VerifiedRepairsAreOfTheChange == Spec => []VerifiedRepairIsTheChange
<1>1. RepairInv => VerifiedRepairIsTheChange
  <2> SUFFICES ASSUME RepairInv, NEW a \in Executions, NEW t \in Executions,
                      HasAttempt(a), Assess(a, t) = "VERIFIED_REPAIR"
               PROVE  /\ receipts[a].result = "PASS" /\ receipts[t].result = "PASS"
                      /\ receipts[a].canonical = change.evidence
                      /\ receipts[t].before = source /\ change.used = t
                      /\ attempts[a].files = source
    BY DEF VerifiedRepairIsTheChange
  <2>1. attempts[a] \in Attempted
    BY RecordTypes DEF RepairInv, RecInv
  <2>2. attempts[a].status # "VERIFIED_REPAIR"
    BY <2>1 DEF Attempted, Statuses, PassStatus
  <2>3. /\ attempts[a].status = "BUILD_FIXED_BUT_UNVERIFIED"
        /\ receipts[t].canonical = receipts[a].canonical
        /\ source = attempts[a].files /\ receipts[t].before = attempts[a].files
        /\ change.state \in {"VERIFIED", "CLOSED"}
        /\ Adopted(a, t) /\ change.used = t
    BY <2>2 DEF Assess
  <2>4. receipts[a].result = "PASS"
    BY <2>3 DEF RepairInv, RecInv, AttemptOK
  <2>5. receipts[t].canonical = change.evidence
    BY <2>3 DEF RepairInv, RecInv, ChangeOK
  <2> QED
    BY <2>3, <2>4, <2>5 DEF Adopted
<1> QED
  BY <1>1, RepairInvariant, PTL
=============================================================================
