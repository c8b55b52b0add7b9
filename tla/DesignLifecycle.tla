-------------------------- MODULE DesignLifecycle --------------------------
(***************************************************************************)
(* One design change and the service that moves it from OPEN to CLOSED     *)
(* (design_lifecycle/service.py and repository.py), over the index jobs    *)
(* and the published revisions of IndexJobs.                               *)
(*                                                                         *)
(* Several clients (REST requests, MCP tools) call the service at once.    *)
(* A command is two steps.  The first reads the change and everything else *)
(* the command's gate looks at, and computes the change that would follow. *)
(* The second is one database transaction: it installs that change, its    *)
(* design revision and its receipt, provided the stored version is still   *)
(* the one that was read; otherwise the call fails and writes nothing.     *)
(* Test and approval receipts are also read, check, append, but they do    *)
(* not compare versions.                                                   *)
(*                                                                         *)
(* A design revision is named by the change version that introduced it,    *)
(* and the content of the design's flow by a number: two contents with the *)
(* same number have the same design digest.                                *)
(***************************************************************************)
EXTENDS IndexJobs, FiniteSets

CONSTANTS
  Clients,           \* callers of the service
  NoJob,             \* no index job is linked
  CriteriaKinds,     \* kinds of the change's acceptance criteria
  RequiredKinds,     \* kinds of those that are required
  TestResults,       \* results the trusted test runner may report
  ApprovalRequired,  \* scope["approval_required"]
  MaxVersion,        \* bound on the versions of the change
  MaxFlow,           \* bound on the contents the flow takes
  MaxApprovals,      \* bound on the number of approval receipts
  MaxTime            \* bound on the timestamps of approval receipts

ASSUME LifecycleAssumption ==
  /\ NoJob \notin Jobs \cup {Ext}
  /\ CriteriaKinds \subseteq {"structural", "semantic", "test", "runtime",
                              "manual"}
  /\ RequiredKinds \subseteq CriteriaKinds
  /\ TestResults \subseteq {"PASS", "FAIL"}
  /\ ApprovalRequired \in BOOLEAN
  /\ MaxVersion \in Nat /\ MaxFlow \in Nat
  /\ MaxApprovals \in Nat /\ MaxTime \in Nat

VARIABLES
  change,     \* the stored aggregate
  receipt,    \* the last lifecycle receipt of the change
  tests,      \* the independent test receipts
  approvals,  \* the independent approval receipts, in the order they are read
  flow,       \* content of the flow model the design may refer to
  request     \* what each client is in the middle of

changeVars == <<change, receipt, tests, approvals, flow, request>>
vars == <<jobVars, changeVars>>

(***************************************************************************)
(* The change and the receipts                                             *)
(***************************************************************************)

Terminal == {"CLOSED", "ABANDONED"}
States == {"NONE", "OPEN", "PLANNED", "IMPLEMENTING", "EVIDENCE_MATCHED",
           "VERIFIED"} \cup Terminal

Versions == 0..MaxVersion
FlowContents == 1..MaxFlow
Flows == FlowContents \cup {0}    \* 0: there is no flow, or no reference to one

(* expected_actual, with the identities its comparison is bound to. *)
Comparison == [outcome : {"none", "MATCHED", "OTHER"},
               design : Versions, actual : Revisions \cup {0}]
(* lvs_result: the flow content whose digest was checked, and the content  *)
(* and the revision that were compared, which are read again later.        *)
LvsResult == [status : {"none", "MATCH", "OTHER"}, digested : Flows,
              flow : Flows, actual : Revisions \cup {0}]
Unread(status) ==
  [status |-> status, digested |-> 0, flow |-> 0, actual |-> 0]
(* implementation["index_job"]. *)
IndexJob == [job : Jobs \cup {NoJob}, design : Versions,
             input : Revisions \cup {0}, adopted : BOOLEAN]
NoIndexJob == [job |-> NoJob, design |-> 0, input |-> 0, adopted |-> FALSE]

Change ==
  [state : States, version : Versions, base : Revisions \cup {0},
   design : Versions, flowRef : Flows,
   drc : {"none", "acceptable", "rejected"},
   observation : {"none", "previous", "pending", "recorded"},
   actual : Revisions \cup {0}, indexJob : IndexJob,
   expectedActual : Comparison, lvs : LvsResult, verification : BOOLEAN]

NoChange ==
  [state |-> "NONE", version |-> 0, base |-> 0, design |-> 0, flowRef |-> 0,
   drc |-> "none", observation |-> "none", actual |-> 0,
   indexJob |-> NoIndexJob,
   expectedActual |-> [outcome |-> "none", design |-> 0, actual |-> 0],
   lvs |-> Unread("none"),
   verification |-> FALSE]

Receipt == [sequence : Versions, before : States, after : States]
TestReceipt == [design : Versions, actual : Revisions,
                result : TestResults]
Approval == [version : Versions, design : Versions,
             decision : {"APPROVE", "REJECT"}, timestamp : 1..MaxTime]

Commands == {"plan", "mutation", "begin_implementation",
             "record_repair_application", "request_reindex",
             "adopt_index_job", "evaluate_expected_actual", "verify",
             "close", "abandon"}

Idle == [doing |-> "idle"]
Request ==
  {Idle}
    \cup [doing : Commands \cup {"lvs"}, before : States, after : Change]
    \cup [doing : {"enqueue"}, job : Jobs]
    \cup [doing : {"test"}, receipt : TestReceipt]
    \cup [doing : {"approval"}, receipt : Approval]

TypeOK ==
  /\ JobsTypeOK
  /\ change \in Change
  /\ receipt \in Receipt
  /\ tests \subseteq TestReceipt
  /\ approvals \in Seq(Approval)
  /\ flow \in Flows
  /\ request \in [Clients -> Request]

Init ==
  /\ JobsInit
  /\ change = NoChange
  /\ receipt = [sequence |-> 0, before |-> "NONE", after |-> "NONE"]
  /\ tests = {}
  /\ approvals = <<>>
  /\ flow = 0
  /\ request = [c \in Clients |-> Idle]

(***************************************************************************)
(* First step of a command: read, check, compute                           *)
(***************************************************************************)

CanCall(c, states) ==
  /\ request[c] = Idle
  /\ change.state \in states
  /\ change.version < MaxVersion

Compute(c, command, after) ==
  request' = [request EXCEPT ![c] =
    [doing |-> command, before |-> change.state,
     after |-> [after EXCEPT !.version = change.version + 1]]]

(* _require_actual_current *)
ActualIsCurrent == change.actual # 0 /\ change.actual = Active

PlanFrom(c, states) ==
  /\ CanCall(c, states)
  /\ \E drc \in {"acceptable", "rejected"},
        ref \in {change.flowRef} \cup FlowContents :
       Compute(c, "plan",
         [change EXCEPT !.state = "PLANNED", !.drc = drc, !.flowRef = ref,
                        !.design = change.version + 1])
  /\ UNCHANGED <<jobVars, change, receipt, tests, approvals, flow>>

Plan(c) == PlanFrom(c, {"OPEN", "PLANNED"})

(* The flow store commits its edit before the lifecycle commits; the new   *)
(* design revision is bound to the content the edit produced.              *)
MutateFlow(c) ==
  /\ CanCall(c, {"OPEN", "PLANNED"})
  /\ \E content \in FlowContents :
       /\ flow' = content
       /\ Compute(c, "mutation", [change EXCEPT !.flowRef = content,
                                               !.design = change.version + 1])
  /\ UNCHANGED <<jobVars, change, receipt, tests, approvals>>

(* Edits of the architecture plane give a new design revision and leave    *)
(* its flow reference alone.                                               *)
MutateArchitecture(c) ==
  /\ CanCall(c, {"OPEN", "PLANNED"})
  /\ Compute(c, "mutation", [change EXCEPT !.design = change.version + 1])
  /\ UNCHANGED <<jobVars, change, receipt, tests, approvals, flow>>

(* Slip: implementation begins on a design the rules rejected. *)
BeginUnruled(c) ==
  /\ CanCall(c, {"PLANNED"})
  /\ Compute(c, "begin_implementation",
       [change EXCEPT !.state = "IMPLEMENTING", !.actual = change.base,
                      !.observation = "previous", !.indexJob = NoIndexJob])
  /\ UNCHANGED <<jobVars, change, receipt, tests, approvals, flow>>

BeginImplementation(c) == change.drc = "acceptable" /\ BeginUnruled(c)

RecordRepairApplication(c) ==
  /\ CanCall(c, {"IMPLEMENTING"})
  /\ Compute(c, "record_repair_application",
       [change EXCEPT !.observation = "previous"])
  /\ UNCHANGED <<jobVars, change, receipt, tests, approvals, flow>>

(* A linked job that was not adopted bars a new one unless it failed. *)
PriorJobAllowsRequest ==
  change.indexJob.job # NoJob /\ ~change.indexJob.adopted
    => durable[change.indexJob.job].status = "failed"

(* The REST handler creates the job and then applies the command, which    *)
(* looks the job up in the durable rows: when the row was lost the command *)
(* is refused and the job stays behind.                                    *)
RequestReindex(c, j) ==
  /\ CanCall(c, {"IMPLEMENTING"})
  /\ PriorJobAllowsRequest
  /\ CreateJob(j)
  /\ IF durable'[j].status = "pending"
     THEN Compute(c, "request_reindex",
            [change EXCEPT !.observation = "pending",
                           !.indexJob = [job |-> j, design |-> change.design,
                                         input |-> Active,
                                         adopted |-> FALSE]])
     ELSE UNCHANGED request
  /\ UNCHANGED <<change, receipt, tests, approvals, flow>>

(* What preflight asks before it offers to adopt the linked job.           *)
PreflightAllowsAdopt ==
  LET job == change.indexJob IN
    /\ job.job # NoJob
    /\ ~job.adopted
    /\ durable[job.job].status = "done"
    /\ durable[job.job].result = Active

(* Slip: whatever is current is taken for the output of the linked job. *)
CurrentIsAdoptable(j, revision) == revision = Active

(* What the command itself asks of the revision the job's row names: it is *)
(* current, and either the one the request started from or its child,      *)
(* published by that very job.                                             *)
Adoptable(j, revision) ==
  /\ revision = Active
  /\ \/ revision = change.indexJob.input
     \/ /\ lineage[revision] = j
        /\ revision = change.indexJob.input + 1

AdoptIndexJob(c) ==
  /\ CanCall(c, {"IMPLEMENTING"})
  /\ PreflightAllowsAdopt
  /\ change.indexJob.design = change.design
  /\ LET j == change.indexJob.job IN
       /\ Adoptable(j, durable[j].result)
       /\ Compute(c, "adopt_index_job",
            [change EXCEPT !.observation = "recorded",
                           !.actual = durable[j].result,
                           !.indexJob.adopted = TRUE])
  /\ UNCHANGED <<jobVars, change, receipt, tests, approvals, flow>>

(* _default_lvs goes on to compare only if the digest of the stored flow   *)
(* is the one the design revision is bound to.                             *)
LvsMayMatch == change.flowRef # 0 /\ flow = change.flowRef

(* The comparison of expected and actual, of the adopted revision, and the *)
(* checks before LVS.                                                      *)
EvaluateExpectedActual(c) ==
  /\ CanCall(c, {"IMPLEMENTING"})
  /\ change.observation = "recorded"
  /\ ActualIsCurrent
  /\ \E outcome \in {"MATCHED", "OTHER"} :
       LET compared == [change EXCEPT
             !.expectedActual = [outcome |-> outcome,
                                 design |-> change.design,
                                 actual |-> change.actual],
             !.lvs = Unread("OTHER")]
       IN  IF LvsMayMatch
           THEN Compute(c, "lvs", [compared EXCEPT !.lvs.digested = flow])
           ELSE Compute(c, "evaluate_expected_actual", compared)
  /\ UNCHANGED <<jobVars, change, receipt, tests, approvals, flow>>

(* lvs_flow reads the flow and the current revision again and compares     *)
(* what it finds there.                                                    *)
RunLvs(c) ==
  /\ request[c].doing = "lvs"
  /\ \E status \in {"MATCH", "OTHER"} :
       LET after == request[c].after
           matched == after.expectedActual.outcome = "MATCHED" /\ status = "MATCH"
       IN  request' = [request EXCEPT ![c] =
             [doing |-> "evaluate_expected_actual", before |-> @.before,
              after |-> [after EXCEPT
                !.state = IF matched THEN "EVIDENCE_MATCHED" ELSE "IMPLEMENTING",
                !.lvs = [status |-> status, digested |-> after.lvs.digested,
                         flow |-> flow, actual |-> Active]]]]
  /\ UNCHANGED <<jobVars, change, receipt, tests, approvals, flow>>

(* Slip: a run of an earlier observation still counts. *)
ProvesTheDesign(t, chg) == t.result = "PASS" /\ t.design = chg.design

(* A passing test run of this design revision on this actual revision. *)
Proves(t, chg) ==
  t.result = "PASS" /\ t.design = chg.design /\ t.actual = chg.actual

(* Slip: what was current when it was evaluated is taken for current. *)
VerifyWhatMatched(c) ==
  /\ CanCall(c, {"EVIDENCE_MATCHED"})
  /\ "test" \in RequiredKinds => \E t \in tests : Proves(t, change)
  /\ Compute(c, "verify",
       [change EXCEPT !.state = "VERIFIED",
                      !.verification = (CriteriaKinds # {})])
  /\ UNCHANGED <<jobVars, change, receipt, tests, approvals, flow>>

Verify(c) == ActualIsCurrent /\ VerifyWhatMatched(c)

(* _assert_closable, the part about the change itself. *)
CloseGate(chg) ==
  /\ chg.drc = "acceptable"
  /\ chg.expectedActual.outcome = "MATCHED"
  /\ chg.lvs.status = "MATCH"
  /\ chg.verification

(* The latest approval receipt for the design revision of the change, in   *)
(* the order the receipts are read.                                        *)
IsLatestApproval(i) ==
  /\ approvals[i].design = change.design
  /\ \A k \in i + 1 .. Len(approvals) : approvals[k].design # change.design

(* Slip: an approval of any version of the design revision will do. *)
ApprovedAtAnyVersion(version) ==
  \E i \in 1..Len(approvals) :
    IsLatestApproval(i) /\ approvals[i].decision = "APPROVE"

(* _assert_closable, the part about approvals: the latest receipt for the  *)
(* design revision approves exactly the version that was read.             *)
ApprovedAt(version) ==
  \E i \in 1..Len(approvals) :
    /\ IsLatestApproval(i)
    /\ approvals[i].decision = "APPROVE"
    /\ approvals[i].version = version

Close(c) ==
  /\ CanCall(c, {"VERIFIED"})
  /\ ActualIsCurrent
  /\ CloseGate(change)
  /\ ApprovalRequired => ApprovedAt(change.version)
  /\ Compute(c, "close", [change EXCEPT !.state = "CLOSED"])
  /\ UNCHANGED <<jobVars, change, receipt, tests, approvals, flow>>

Abandon(c) ==
  /\ CanCall(c, States \ (Terminal \cup {"NONE"}))
  /\ Compute(c, "abandon", [change EXCEPT !.state = "ABANDONED"])
  /\ UNCHANGED <<jobVars, change, receipt, tests, approvals, flow>>

(***************************************************************************)
(* Second step of a command                                                *)
(***************************************************************************)

(* The writes of the transaction.  After a re-index request commits, the   *)
(* handler still has to enqueue the job.                                   *)
Install(c) ==
  /\ request[c].doing \in Commands
  /\ change' = request[c].after
  /\ receipt' = [sequence |-> request[c].after.version,
                 before |-> request[c].before,
                 after |-> request[c].after.state]
  /\ request' = [request EXCEPT ![c] =
       IF request[c].doing = "request_reindex"
       THEN [doing |-> "enqueue", job |-> request[c].after.indexJob.job]
       ELSE Idle]
  /\ UNCHANGED <<jobVars, tests, approvals, flow>>

(* LifecycleRepository.update: the version must still be the one read.     *)
Commit(c) ==
  /\ Install(c)
  /\ change.version = request[c].after.version - 1

(* The stored version has moved: the transaction is rolled back. *)
Conflict(c) ==
  /\ request[c].doing \in Commands
  /\ change.version # request[c].after.version - 1
  /\ request' = [request EXCEPT ![c] = Idle]
  /\ UNCHANGED <<jobVars, change, receipt, tests, approvals, flow>>

EnqueueLinkedJob(c) ==
  /\ request[c].doing = "enqueue"
  /\ Enqueue(request[c].job)
  /\ request' = [request EXCEPT ![c] = Idle]
  /\ UNCHANGED <<change, receipt, tests, approvals, flow>>

(***************************************************************************)
(* Opening a change and its independent receipts                           *)
(***************************************************************************)

(* open_change inserts a new aggregate and its first receipt at once. *)
OpenChange ==
  /\ change.state = "NONE"
  /\ MaxVersion > 0
  /\ \E base \in 1..Active, ref \in Flows :
       change' = [NoChange EXCEPT !.state = "OPEN", !.version = 1,
                                  !.base = base, !.design = 1,
                                  !.flowRef = ref]
  /\ receipt' = [sequence |-> 1, before |-> "NONE", after |-> "OPEN"]
  /\ UNCHANGED <<jobVars, tests, approvals, flow, request>>

(* record_test_run, up to the append. *)
BindTestRun(c) ==
  /\ request[c] = Idle
  /\ change.state \notin Terminal \cup {"NONE"}
  /\ \E result \in TestResults :
       request' = [request EXCEPT ![c] =
         [doing |-> "test", receipt |-> [design |-> change.design,
                                         actual |-> change.actual,
                                         result |-> result]]]
  /\ UNCHANGED <<jobVars, change, receipt, tests, approvals, flow>>

(* The run is bound to the adopted revision, which is current. *)
CheckTestRun(c) ==
  /\ change.observation = "recorded"
  /\ ActualIsCurrent
  /\ BindTestRun(c)

AppendTestReceipt(c) ==
  /\ request[c].doing = "test"
  /\ tests' = tests \cup {request[c].receipt}
  /\ request' = [request EXCEPT ![c] = Idle]
  /\ UNCHANGED <<jobVars, change, receipt, approvals, flow>>

LatestTime == IF approvals = <<>> THEN 0
              ELSE approvals[Len(approvals)].timestamp

(* record_approval, up to the append: the owner approves or rejects the    *)
(* version on the screen, which is still the stored one.  The timestamp is *)
(* the clock, or one more than the latest receipt when the clock is behind.*)
CheckApproval(c) ==
  /\ request[c] = Idle
  /\ change.state \notin Terminal \cup {"NONE"}
  /\ Len(approvals) < MaxApprovals
  /\ \E decision \in {"APPROVE", "REJECT"}, now \in LatestTime + 1 .. MaxTime :
       request' = [request EXCEPT ![c] =
         [doing |-> "approval", receipt |-> [version |-> change.version,
                                             design |-> change.design,
                                             decision |-> decision,
                                             timestamp |-> now]]]
  /\ UNCHANGED <<jobVars, change, receipt, tests, approvals, flow>>

(* Receipts are read back by timestamp, then by identity, which is random: *)
(* a new receipt can land on either side of one with the same timestamp.   *)
AppendApproval(c) ==
  /\ request[c].doing = "approval"
  /\ Len(approvals) < MaxApprovals
  /\ LET a == request[c].receipt IN
       \E k \in 0..Len(approvals) :
         /\ \A i \in 1..k : approvals[i].timestamp \leq a.timestamp
         /\ \A i \in k + 1 .. Len(approvals) :
              a.timestamp \leq approvals[i].timestamp
         /\ approvals' = SubSeq(approvals, 1, k) \o <<a>>
                           \o SubSeq(approvals, k + 1, Len(approvals))
  /\ request' = [request EXCEPT ![c] = Idle]
  /\ UNCHANGED <<jobVars, change, receipt, tests, flow>>

(***************************************************************************)
(* The rest of the system                                                  *)
(***************************************************************************)

(* Another change of the same repository edits the same flow. *)
EditFlowElsewhere ==
  /\ flow' \in FlowContents
  /\ UNCHANGED <<jobVars, change, receipt, tests, approvals, request>>

(* The server dies with every request and every job thread in it. *)
Crash ==
  /\ LoseProcess
  /\ request' = [c \in Clients |-> Idle]
  /\ UNCHANGED <<change, receipt, tests, approvals, flow>>

JobsStep ==
  /\ \/ \E j \in Jobs : ThreadStep(j)
     \/ PublishElsewhere
  /\ UNCHANGED changeVars

Command(c) ==
  \/ Plan(c) \/ MutateFlow(c) \/ MutateArchitecture(c)
  \/ BeginImplementation(c)
  \/ RecordRepairApplication(c)
  \/ \E j \in Jobs : RequestReindex(c, j)
  \/ AdoptIndexJob(c)
  \/ EvaluateExpectedActual(c)
  \/ Verify(c)
  \/ Close(c)
  \/ Abandon(c)

Finish(c) ==
  \/ RunLvs(c) \/ Commit(c) \/ Conflict(c) \/ EnqueueLinkedJob(c)
  \/ AppendTestReceipt(c) \/ AppendApproval(c)

Next ==
  \/ \E c \in Clients :
       Command(c) \/ CheckTestRun(c) \/ CheckApproval(c) \/ Finish(c)
  \/ OpenChange
  \/ EditFlowElsewhere
  \/ JobsStep
  \/ Crash

Spec == Init /\ [][Next]_vars

(***************************************************************************)
(* Safety properties                                                       *)
(***************************************************************************)

Matched == {"EVIDENCE_MATCHED", "VERIFIED", "CLOSED"}

(* A change counts as matched only on evidence about this design: the      *)
(* rules accepted it, the recorded comparison is a match of its design     *)
(* revision and its actual revision, and LVS set out from the flow content *)
(* the design is bound to and compared no revision older than the actual   *)
(* one.  LVS reads the flow and CURRENT again after the checks, so another *)
(* revision, or another content, may be what it matched                    *)
(* (_default_lvs, lvs_flow); once the change is verified or closed it was  *)
(* this revision, because _require_actual_current holds again (verify).    *)
EvidenceChain ==
  change.state \in Matched =>
    /\ change.drc = "acceptable"
    /\ change.expectedActual = [outcome |-> "MATCHED",
                                design |-> change.design,
                                actual |-> change.actual]
    /\ change.lvs.status = "MATCH"
    /\ change.lvs.digested = change.flowRef
    /\ change.lvs.actual \geq change.actual
    /\ change.state # "EVIDENCE_MATCHED" => change.lvs.actual = change.actual
    /\ change.observation = "recorded"

(* What is recorded as the actual revision is the output of the linked     *)
(* job, whatever was published, crashed or was retried around it: a        *)
(* recorded observation has an adopted job whose durable verdict names     *)
(* that revision, and the revision is the request's input or the child of  *)
(* it that this job published.                                             *)
ObservationIsJobOutput ==
  change.observation = "recorded" =>
    LET job == change.indexJob IN
      /\ job.adopted
      /\ durable[job.job] = RowOf("done", change.actual)
      /\ change.actual \in 1..Len(lineage)
      /\ \/ change.actual = job.input
         \/ change.actual = job.input + 1 /\ lineage[change.actual] = job.job

(* A change with a required test criterion is verified or closed only with *)
(* an independent passing receipt for its design and its actual revision.  *)
VerifiedByTest ==
  change.state \in {"VERIFIED", "CLOSED"} /\ "test" \in RequiredKinds =>
    [design |-> change.design, actual |-> change.actual, result |-> "PASS"]
      \in tests

(* Where approval is required, a closed change was approved by a receipt   *)
(* for the very version and design revision that was closed, not for an    *)
(* earlier one.                                                            *)
ClosedUnderApproval ==
  change.state = "CLOSED" /\ ApprovalRequired =>
    \E i \in 1..Len(approvals) :
      /\ approvals[i].decision = "APPROVE"
      /\ approvals[i].version = change.version - 1
      /\ approvals[i].design = change.design

(* A linked job is bound to the design it will be judged against: nothing  *)
(* replaces the design revision under a job that is running.               *)
JobBoundToDesign ==
  change.indexJob.job # NoJob => change.indexJob.design = change.design

(* Every update of the change continues the one before: the version grows  *)
(* by one, and the receipt written with it carries that version, starts    *)
(* from the state that was stored and ends in the state now stored.        *)
ReceiptChain ==
  [][change' # change =>
       /\ change'.version = change.version + 1
       /\ receipt' = [sequence |-> change'.version,
                      before |-> change.state,
                      after |-> change'.state]]_<<change, receipt>>

(* Once implementation has begun the design is what was planned: neither   *)
(* its revision, nor its flow reference, nor the verdict of its rules ever *)
(* changes again, however late a planning command of another client lands. *)
DesignFrozen ==
  [][change.state \notin {"NONE", "OPEN", "PLANNED"} =>
       /\ change'.design = change.design
       /\ change'.flowRef = change.flowRef
       /\ change'.drc = change.drc]_change

(***************************************************************************)
(* Refinement                                                              *)
(***************************************************************************)

Passed == {t \in tests : t.result = "PASS"}
Approving == {i \in DOMAIN approvals : approvals[i].decision = "APPROVE"}

(* However the two steps of concurrent commands interleave with jobs,      *)
(* publications, crashes and receipts, the change behaves as if commands   *)
(* were indivisible: the contract's lifecycle.                             *)
Contract == INSTANCE ChangeContract WITH
  TestRequired <- "test" \in RequiredKinds,
  state <- change.state,
  version <- change.version,
  design <- change.design,
  accepted <- change.drc = "acceptable",
  recorded <- change.observation = "recorded",
  actual <- change.actual,
  published <- Len(lineage),
  proven <- {<<t.design, t.actual>> : t \in Passed},
  approved <- {<<approvals[i].version, approvals[i].design>> : i \in Approving}

ImplementsContract == Contract!ContractSpec
=============================================================================
