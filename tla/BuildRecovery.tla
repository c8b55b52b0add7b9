--------------------------- MODULE BuildRecovery ---------------------------
(***************************************************************************)
(* Build attempts, repair applications and their assessment                *)
(* (build_recovery.py, server/api/build_recovery.py) over the executions   *)
(* of ExecutionAuthority, for one design change.                           *)
(*                                                                         *)
(* A repair is: an attempt that failed, an application recorded with the   *)
(* change that claims the repaired source, a rebuild under it, and a       *)
(* trusted test.  Each of these reads the source, the change and earlier   *)
(* records one after the other, and publishes its record last; an edit, a  *)
(* lifecycle command or the death of the server can come in between.  An   *)
(* attempt has the number of its execution.                                *)
(***************************************************************************)
EXTENDS ExecutionAuthority

CONSTANTS
  Applications,     \* identities for repair applications
  None,             \* no previous attempt, no application, no test used
  MaxVersion,       \* bound on the versions of the change
  MaxTests          \* bound on the TEST executions

ASSUME RecoveryAssumption ==
  /\ None \notin Applications /\ None \notin Nat
  /\ MaxVersion \in Nat /\ MaxVersion > 0
  /\ MaxTests \in Nat /\ MaxCanonical > 0

VARIABLES
  change,        \* the design change, as far as builds and tests look at it
  attempts,      \* the directories attempts/<id>
  applications,  \* the directories applications/<id>
  building,      \* the call of run behind each execution
  claiming       \* the call of record_application in progress

recoveryVars == <<change, attempts, applications, building, claiming>>
vars == <<execVars, recoveryVars>>

States == {"PLANNED", "IMPLEMENTING", "EVIDENCE_MATCHED", "VERIFIED",
           "CLOSED", "ABANDONED"}
Terminal == {"CLOSED", "ABANDONED"}

(* evidence: implementation.current_evidence_revision, 0 before there is   *)
(* an implementation; 1 is the base revision.  It stands for the design    *)
(* revision too, which no longer changes once there is one.  observed: the *)
(* observation is recorded.  recorded, adopted: the identities in the      *)
(* implementation's repair applications and in its test receipts; used:    *)
(* the test verify took.                                                   *)
Change == [state : States, version : 1..MaxVersion,
           evidence : 0..MaxCanonical, observed : BOOLEAN,
           recorded : SUBSET Applications, adopted : SUBSET Executions,
           used : Executions \cup {None}]

PassStatus == {"BUILD_PASS_ONLY", "BUILD_FIXED_BUT_UNVERIFIED"}
Statuses == PassStatus \cup
  {"BUILD_TIMEOUT", "BUILD_INPUT_DRIFT", "BUILD_EXECUTION_ERROR",
   "BUILD_FAILED", "REGRESSION"}

NoAttempt == [status |-> "none"]
Attempt ==
  {NoAttempt}
  \cup [status : Statuses, files : Contents, previous : Executions \cup {None},
        application : Applications \cup {None}, diagnosed : BOOLEAN]

NoApplication == [previous |-> None]
Application ==
  {NoApplication}
  \cup [previous : Executions, claim : Contents,
        version : 1..MaxVersion]

Free == [step |-> "free"]
Building ==
  {Free} \cup [step : {"build"}, files : Contents,
               previous : Executions \cup {None},
               application : Applications \cup {None}]
Claiming ==
  {Free}
  \cup [step : {"record", "publish"}, id : Applications,
        previous : Executions, claim : Contents,
        version : 1..MaxVersion]
  \cup [step : {"expect"}, files : Contents, evidence : 0..MaxCanonical,
        previous : Executions \cup {None},
        application : Applications \cup {None}]

RecoveryTypeOK ==
  /\ ExecTypeOK
  /\ change \in Change
  /\ attempts \in [Executions -> Attempt]
  /\ applications \in [Applications -> Application]
  /\ building \in [Executions -> Building]
  /\ claiming \in Claiming

Init ==
  /\ ExecInit
  /\ change = [state |-> "PLANNED", version |-> 1,
               evidence |-> 0, observed |-> FALSE, recorded |-> {},
               adopted |-> {}, used |-> None]
  /\ attempts = [e \in Executions |-> NoAttempt]
  /\ applications = [p \in Applications |-> NoApplication]
  /\ building = [e \in Executions |-> Free]
  /\ claiming = Free

(***************************************************************************)
(* run                                                                     *)
(***************************************************************************)

HasAttempt(a) == attempts[a] # NoAttempt

(* Slip: the source is not looked for before the build is asked for, and   *)
(* its claim not compared.                                                 *)
BeginUnclaimed ==
  /\ claiming = Free /\ started < budget.executions
  /\ change.state \notin Terminal
  /\ \E previous \in {a \in Executions : HasAttempt(a)} \cup {None},
        application \in {p \in Applications : applications[p] # NoApplication}
                          \cup {None} :
       /\ (previous # None) <=> (application # None)
       /\ application # None => applications[application].previous = previous
       /\ claiming' = [step |-> "expect", files |-> source,
                       evidence |-> change.evidence,
                       previous |-> previous, application |-> application]
  /\ UNCHANGED <<execVars, change, attempts, applications, building>>

(* The checks of run on its arguments and on the change, and the reading   *)
(* of the source files the attempt will name.  A rebuild needs the receipt *)
(* of an application to the attempt before, on the source it claimed.      *)
BeginRun ==
  /\ claiming = Free /\ started < budget.executions
  /\ change.state \notin Terminal
  /\ source # Gone
  /\ \E previous \in {a \in Executions : HasAttempt(a)} \cup {None},
        application \in {p \in Applications : applications[p] # NoApplication}
                          \cup {None} :
       /\ (previous # None) <=> (application # None)
       /\ application # None =>
            /\ applications[application].previous = previous
            /\ applications[application].claim = source
       /\ claiming' = [step |-> "expect", files |-> source,
                       evidence |-> change.evidence,
                       previous |-> previous, application |-> application]
  /\ UNCHANGED <<execVars, change, attempts, applications, building>>

(* The source is read once more, for the revision the execution is to      *)
(* expect, and handed to the authority; a missing file raises.             *)
RequestBuild ==
  /\ claiming.step = "expect"
  /\ \/ /\ source # Gone
        /\ Start([kind |-> "BUILD", expected |-> source,
                  canonical |-> claiming.evidence])
        /\ building' = [building EXCEPT ![started + 1] =
             [step |-> "build", files |-> claiming.files,
              previous |-> claiming.previous,
              application |-> claiming.application]]
        /\ UNCHANGED <<budget, source, receipts>>
     \/ /\ source = Gone \/ started = budget.executions
        /\ UNCHANGED <<execVars, building>>
  /\ claiming' = Free
  /\ UNCHANGED <<change, attempts, applications>>

(* verification_status *)
StatusOf(e) ==
  LET r == receipts[e]
      previous == building[e].previous
  IN CASE r.reason = "TIMEOUT" -> "BUILD_TIMEOUT"
       [] r.reason = "INPUT_DRIFT" -> "BUILD_INPUT_DRIFT"
       [] r.reason \notin {"TIMEOUT", "INPUT_DRIFT"}
            /\ r.result \notin {"PASS", "FAIL"} -> "BUILD_EXECUTION_ERROR"
       [] r.result = "FAIL" ->
            IF previous # None /\ receipts[previous].exit = "zero"
            THEN "REGRESSION" ELSE "BUILD_FAILED"
       [] r.result = "PASS" ->
            IF previous # None /\ attempts[previous].status \notin PassStatus
            THEN "BUILD_FIXED_BUT_UNVERIFIED" ELSE "BUILD_PASS_ONLY"

(* The attempt is published after its execution.  Its diagnostics come     *)
(* from stderr, so there are none when nothing was captured; whatever ran  *)
(* is taken to have written something.                                     *)
PublishAttempt(e) ==
  /\ building[e] # Free /\ HasReceipt(e) /\ ~HasAttempt(e)
  /\ attempts' = [attempts EXCEPT ![e] =
       [status |-> StatusOf(e), files |-> building[e].files,
        previous |-> building[e].previous,
        application |-> building[e].application,
        diagnosed |-> receipts[e].exit # "none"]]
  /\ building' = [building EXCEPT ![e] = Free]
  /\ UNCHANGED <<execVars, change, applications, claiming>>

(* Any step after the execution may raise, and the execution itself may. *)
RunRaises(e) ==
  /\ building[e] # Free /\ run[e].phase = "over"
  /\ IF HasReceipt(e) THEN Meet("write error") ELSE UNCHANGED budget
  /\ building' = [building EXCEPT ![e] = Free]
  /\ UNCHANGED <<source, started, run, receipts, change, attempts, applications, claiming>>

(***************************************************************************)
(* record_application                                                      *)
(***************************************************************************)

(* A candidate is a diagnostic of the attempt before; the change and the   *)
(* source are read.                                                        *)
BeginApplication ==
  /\ claiming = Free
  /\ change.state \in {"PLANNED", "IMPLEMENTING", "EVIDENCE_MATCHED"}
  /\ source # Gone
  /\ \E p \in Applications, a \in Executions :
       /\ applications[p] = NoApplication /\ p \notin change.recorded
       /\ HasAttempt(a) /\ attempts[a].diagnosed
       /\ claiming' = [step |-> "record", id |-> p, previous |-> a,
                       claim |-> source, version |-> change.version]
  /\ UNCHANGED <<execVars, change, attempts, applications, building>>

(* The lifecycle records it first, and only while the change is being      *)
(* implemented and at the version that was read.                           *)
RecordWithChange ==
  /\ claiming.step = "record"
  /\ \/ /\ change.state = "IMPLEMENTING" /\ change.version = claiming.version
        /\ change.version < MaxVersion
        /\ change' = [change EXCEPT !.recorded = @ \cup {claiming.id},
                                    !.observed = FALSE, !.version = @ + 1]
        /\ claiming' = [claiming EXCEPT !.step = "publish"]
     \/ /\ change.state # "IMPLEMENTING" \/ change.version # claiming.version
        /\ claiming' = Free
        /\ UNCHANGED change
  /\ UNCHANGED <<execVars, attempts, applications, building>>

PublishApplication ==
  /\ claiming.step = "publish"
  /\ applications' = [applications EXCEPT ![claiming.id] =
       [previous |-> claiming.previous, claim |-> claiming.claim,
        version |-> claiming.version]]
  /\ claiming' = Free
  /\ UNCHANGED <<execVars, change, attempts, building>>

(***************************************************************************)
(* Test executions and the lifecycle                                       *)
(***************************************************************************)

IsTest(e) ==
  \/ Busy(e) /\ run[e].request.kind = "TEST"
  \/ receipts[e].kind = "TEST"

(* POST executions with a TEST profile: the change is read, then the       *)
(* execution starts.  Before there is an implementation the request names  *)
(* the base revision, where a build names none.                            *)
RequestTest ==
  /\ change.state \notin Terminal
  /\ Cardinality({e \in 1..started : IsTest(e)}) < MaxTests
  /\ Start([kind |-> "TEST", expected |-> NoRevision,
            canonical |-> IF change.evidence = 0 THEN 1 ELSE change.evidence])
  /\ UNCHANGED <<budget, source, receipts, recoveryVars>>

Advance(update) ==
  /\ change.version < MaxVersion
  /\ change' = [update EXCEPT !.version = change.version + 1]
  /\ UNCHANGED <<execVars, attempts, applications, building, claiming>>

BeginImplementation ==
  /\ change.state = "PLANNED"
  /\ Advance([change EXCEPT !.state = "IMPLEMENTING", !.evidence = 1,
                            !.observed = FALSE])
(* The linked job published a revision of its own, or kept its input. *)
AdoptIndexJob ==
  /\ change.state = "IMPLEMENTING" /\ ~change.observed
  /\ \E revision \in change.evidence..MaxCanonical :
       Advance([change EXCEPT !.evidence = revision, !.observed = TRUE])
EvaluateExpectedActual ==
  /\ change.state = "IMPLEMENTING" /\ change.observed
  /\ Advance([change EXCEPT !.state = "EVIDENCE_MATCHED"])

(* adopt_test_run: only a test of the current design and revision, whose   *)
(* inputs have not moved, is taken over as an independent receipt.         *)
AdoptTestRun(e) ==
  /\ change.state \notin Terminal /\ change.observed
  /\ e \notin change.adopted
  /\ Admissible(e)
  /\ receipts[e].canonical = change.evidence
  /\ change' = [change EXCEPT !.adopted = @ \cup {e}]
  /\ UNCHANGED <<execVars, attempts, applications, building, claiming>>

(* The change has a required criterion of kind test. *)
Verify ==
  /\ change.state = "EVIDENCE_MATCHED"
  /\ \E e \in change.adopted :
       /\ receipts[e].result = "PASS"
       /\ receipts[e].canonical = change.evidence
       /\ Advance([change EXCEPT !.state = "VERIFIED", !.used = e])
Close ==
  /\ change.state = "VERIFIED"
  /\ Advance([change EXCEPT !.state = "CLOSED"])
Abandon ==
  /\ Meet("abandon")
  /\ change.state \notin Terminal /\ change.version < MaxVersion
  /\ change' = [change EXCEPT !.state = "ABANDONED", !.version = @ + 1]
  /\ UNCHANGED <<source, started, run, receipts, attempts, applications,
                 building, claiming>>

(* The server dies: its threads and calls go, what was renamed stays. *)
ServerDies ==
  /\ AbortRuns
  /\ building' = [e \in Executions |-> Free]
  /\ claiming' = Free
  /\ UNCHANGED <<change, attempts, applications>>

(***************************************************************************)
(* assess_repair                                                           *)
(***************************************************************************)

Adopted(a, t) ==
  /\ t \in change.adopted
  /\ receipts[t].result = "PASS"
  /\ receipts[t].canonical = receipts[a].canonical

(* Slip: a verified change is enough, whatever became of the source. *)
AssessByLifecycle(a, t) ==
  IF attempts[a].status # "BUILD_FIXED_BUT_UNVERIFIED" \/ t = None
  THEN attempts[a].status
  ELSE IF ~TestRunAvailable(t) THEN "TEST_RUN_UNAVAILABLE"
  ELSE IF change.state \in {"VERIFIED", "CLOSED"} /\ Adopted(a, t)
  THEN "VERIFIED_REPAIR" ELSE "BUILD_FIXED_TEST_PASS_PENDING_LIFECYCLE"

(* The status of the repair that ends in attempt a, with test run t.  The  *)
(* question whether the owner approved, which comes last, is left out.     *)
Assess(a, t) ==
  IF attempts[a].status # "BUILD_FIXED_BUT_UNVERIFIED" \/ t = None
  THEN attempts[a].status
  ELSE IF ~TestRunAvailable(t) THEN "TEST_RUN_UNAVAILABLE"
  ELSE IF receipts[t].canonical # receipts[a].canonical
       THEN "TEST_BINDING_MISMATCH"
  ELSE IF source # attempts[a].files THEN "REPAIR_SOURCE_DRIFT"
  ELSE IF receipts[t].before # attempts[a].files THEN "TEST_SOURCE_MISMATCH"
  ELSE IF receipts[t].result = "FAIL" THEN "BUILD_FIXED_TEST_FAILED"
  ELSE IF \/ change.state \notin {"VERIFIED", "CLOSED"}
          \/ ~Adopted(a, t) \/ change.used # t
       THEN "BUILD_FIXED_TEST_PASS_PENDING_LIFECYCLE"
  ELSE "VERIFIED_REPAIR"

(***************************************************************************)
(* The specification                                                       *)
(***************************************************************************)

ServiceStep ==
  \/ BeginRun \/ RequestBuild
  \/ \E e \in Executions : PublishAttempt(e) \/ RunRaises(e)
  \/ BeginApplication \/ RecordWithChange \/ PublishApplication
LifecycleStep ==
  \/ RequestTest \/ BeginImplementation \/ AdoptIndexJob
  \/ EvaluateExpectedActual \/ (\E e \in Executions : AdoptTestRun(e))
  \/ Verify \/ Close \/ Abandon
ExecStep ==
  /\ \/ Edit(claiming = Free)
     \/ \E e \in Executions : RunnerStep(e) \/ ProcessStep(e)
  /\ UNCHANGED recoveryVars

Next == ServiceStep \/ LifecycleStep \/ ExecStep \/ ServerDies

(* Threads that are not killed go on.  Either the child ends by itself, or *)
(* time passes; once something has stopped it nothing is assumed of it: it *)
(* may run, and hold its pipes, for ever.                                  *)
Fairness ==
  \A e \in Executions :
    /\ WF_vars(RunnerStep(e) /\ UNCHANGED recoveryVars)
    /\ WF_vars(TimePasses(e) /\ UNCHANGED recoveryVars)
    /\ WF_vars(/\ run[e].phase = "running" /\ run[e].time = 0
               /\ ChildExits(e) \/ PipesClose(e)
               /\ UNCHANGED recoveryVars)

Spec == Init /\ [][Next]_vars
FairSpec == Spec /\ Fairness

(***************************************************************************)
(* Properties                                                              *)
(***************************************************************************)

(* An attempt that counts as a fixed build stands at the end of a repair:  *)
(* an earlier attempt that had not passed, an application made to that     *)
(* very attempt and recorded with the change, which claimed the source the *)
(* new attempt names.                                                      *)
FixedBuildHasLineage ==
  \A a \in Executions :
    HasAttempt(a) /\ attempts[a].status = "BUILD_FIXED_BUT_UNVERIFIED" =>
      LET p == attempts[a].previous
          application == attempts[a].application
      IN /\ p # None /\ application # None
         /\ HasAttempt(p) /\ p < a
         /\ attempts[p].status \notin PassStatus
         /\ applications[application].previous = p
         /\ applications[application].claim = attempts[a].files
         /\ application \in change.recorded

(* A repair assessed as verified was built and tested for the revision and *)
(* the design the change itself was verified with, by the very test that   *)
(* verification used, and the source it was tested on is still there.      *)
VerifiedRepairIsTheChange ==
  \A a, t \in Executions :
    HasAttempt(a) /\ Assess(a, t) = "VERIFIED_REPAIR" =>
      /\ receipts[a].result = "PASS" /\ receipts[t].result = "PASS"
      /\ receipts[a].canonical = change.evidence
      /\ receipts[t].before = source /\ change.used = t
      /\ attempts[a].files = source

(* Whatever the child and the processes it leaves behind do, an execution  *)
(* comes to its end.                                                       *)
ExecutionsEnd ==
  \A e \in Executions : (run[e].phase # "idle") ~> (run[e].phase = "over")
=============================================================================
