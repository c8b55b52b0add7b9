----------------------- MODULE DesignLifecycleProofs -----------------------
(***************************************************************************)
(* Proofs about IndexJobs (types, that a durable "done" names the revision *)
(* its own job published, that rows only move forward) and then about      *)
(* DesignLifecycle over it, for any number of clients, jobs, revisions,    *)
(* versions, flow contents and approvals.                                  *)
(***************************************************************************)
EXTENDS DesignLifecycle, SequenceTheorems, TLAPS

(***************************************************************************)
(* Type correctness                                                        *)
(***************************************************************************)

(* The types hold initially. *)
LEMMA JobsTypeInit == JobsInit => JobsTypeOK
  BY JobsAssumption
  DEF JobsInit, JobsTypeOK, Revisions, RowStatus, Row, RowOf, Phases, Worker

(* A write of a well-typed row, kept or lost, leaves the rows well typed.  *)
LEMMA PersistType ==
  ASSUME durable \in [Jobs -> Row], NEW j \in Jobs, NEW row \in Row,
         Persist(j, row)
  PROVE  durable' \in [Jobs -> Row]
  BY DEF Persist

(* A status change with its write keeps the types. *)
LEMMA GoToType ==
  ASSUME worker \in [Jobs -> Worker], NEW j \in Jobs, NEW phase \in Phases,
         GoTo(j, phase)
  PROVE  worker' \in [Jobs -> Worker]
  BY DEF GoTo, Worker

(* The row of a worker is a row. *)
LEMMA RowOfType ==
  ASSUME NEW status \in RowStatus, NEW result \in Revisions \cup {0}
  PROVE  RowOf(status, result) \in Row
  BY DEF RowOf, Row

(* Creation keeps the types. *)
LEMMA CreateJobType ==
  ASSUME JobsTypeOK, NEW j \in Jobs, CreateJob(j)
  PROVE  JobsTypeOK'
<1>1. RowOf("pending", 0) \in Row
  BY RowOfType DEF RowStatus
<1>2. durable' \in [Jobs -> Row]
  BY <1>1, PersistType DEF CreateJob, JobsTypeOK
<1>3. worker' \in [Jobs -> Worker]
  BY GoToType DEF CreateJob, JobsTypeOK, Phases
<1> QED
  BY <1>2, <1>3 DEF CreateJob, JobsTypeOK

(* Enqueueing keeps the types. *)
LEMMA EnqueueType ==
  ASSUME JobsTypeOK, NEW j \in Jobs, Enqueue(j)
  PROVE  JobsTypeOK'
<1>1. worker' \in [Jobs -> Worker]
  BY GoToType DEF Enqueue, JobsTypeOK, Phases
<1> QED
  BY <1>1 DEF Enqueue, JobsTypeOK

(* A revision appended under the bound keeps the lineage within it. *)
LEMMA AppendLineage ==
  ASSUME JobsTypeOK, NEW author \in Jobs \cup {Ext},
         Len(lineage) < MaxRevisions, lineage' = Append(lineage, author)
  PROVE  /\ lineage' \in Seq(Jobs \cup {Ext})
         /\ Len(lineage') = Len(lineage) + 1
         /\ Len(lineage') \leq MaxRevisions
         /\ Len(lineage') \in Revisions
  BY JobsAssumption DEF JobsTypeOK, Revisions

(* Every step of a thread keeps the types. *)
LEMMA ThreadStepType ==
  ASSUME JobsTypeOK, NEW j \in Jobs, ThreadStep(j)
  PROVE  JobsTypeOK'
<1>1. CASE StartJob(j)
  <2>1. RowOf("running", 0) \in Row
    BY RowOfType DEF RowStatus
  <2>2. durable' \in [Jobs -> Row]
    BY <1>1, <2>1, PersistType DEF StartJob, JobsTypeOK
  <2>3. worker' \in [Jobs -> Worker]
    BY <1>1, GoToType DEF StartJob, JobsTypeOK, Phases
  <2> QED
    BY <1>1, <2>2, <2>3 DEF StartJob, JobsTypeOK
<1>2. CASE PublishRevision(j)
  <2>1. /\ lineage' \in Seq(Jobs \cup {Ext})
        /\ Len(lineage') \leq MaxRevisions
        /\ Len(lineage) + 1 \in Revisions
    BY <1>2, AppendLineage DEF PublishRevision, PublishIn
  <2>2. [at |-> "indexed", result |-> Len(lineage) + 1] \in Worker
    BY <2>1 DEF Worker, Phases
  <2> QED
    BY <1>2, <2>1, <2>2 DEF PublishRevision, PublishIn, JobsTypeOK
<1>3. CASE CutOff(j)
  <2>1. Active \in Revisions \cup {0}
    BY JobsAssumption DEF Active, JobsTypeOK, Revisions
  <2>2. [at |-> "indexed", result |-> Active] \in Worker
    BY <2>1 DEF Worker, Phases
  <2> QED
    BY <1>3, <2>2 DEF CutOff, JobsTypeOK
<1>4. CASE RunnerFails(j)
  <2>1. worker' \in [Jobs -> Worker]
    BY <1>4, GoToType DEF RunnerFails, JobsTypeOK, Phases
  <2> QED
    BY <1>4, <2>1 DEF RunnerFails, JobsTypeOK
<1>5. CASE EpilogueFails(j)
  BY <1>5 DEF EpilogueFails, JobsTypeOK, Worker, Phases
<1>6. CASE FinishJob(j)
  <2>1. worker[j].result \in Revisions \cup {0}
    BY DEF JobsTypeOK, Worker
  <2>2. RowOf("done", worker[j].result) \in Row /\ RowOf("failed", 0) \in Row
    BY <2>1, RowOfType DEF RowStatus
  <2>3. durable' \in [Jobs -> Row]
    BY <1>6, <2>2, PersistType DEF FinishJob, Report, ReportFailure, JobsTypeOK
  <2>4. worker' \in [Jobs -> Worker]
    BY <1>6, GoToType DEF FinishJob, Report, ReportFailure, JobsTypeOK, Phases
  <2> QED
    BY <1>6, <2>3, <2>4 DEF FinishJob, Report, ReportFailure, JobsTypeOK
<1> QED
  BY <1>1, <1>2, <1>3, <1>4, <1>5, <1>6 DEF ThreadStep

(* Other publishers keep the types. *)
LEMMA PublishElsewhereType ==
  ASSUME JobsTypeOK, PublishElsewhere
  PROVE  JobsTypeOK'
  BY AppendLineage DEF PublishElsewhere, JobsTypeOK

(* The loss of the process keeps the types. *)
LEMMA LoseProcessType ==
  ASSUME JobsTypeOK, LoseProcess
  PROVE  JobsTypeOK'
<1>1. worker' \in [Jobs -> Worker]
  BY DEF LoseProcess, JobsTypeOK, Worker, Phases
<1> QED
  BY <1>1 DEF LoseProcess, JobsTypeOK

(* The type invariant is inductive. *)
LEMMA JobsTypeStep == JobsTypeOK /\ [JobsNext]_jobVars => JobsTypeOK'
<1> SUFFICES ASSUME JobsTypeOK, [JobsNext]_jobVars
             PROVE  JobsTypeOK'
  OBVIOUS
<1>1. ASSUME NEW j \in Jobs, CreateJob(j) \/ Enqueue(j) \/ ThreadStep(j)
      PROVE  JobsTypeOK'
  BY <1>1, CreateJobType, EnqueueType, ThreadStepType
<1>2. CASE UNCHANGED jobVars
  BY <1>2 DEF jobVars, JobsTypeOK
<1> QED
  BY <1>1, <1>2, PublishElsewhereType, LoseProcessType DEF JobsNext

(* Every state of the jobs, their rows and the lineage is well typed.      *)
THEOREM JobsTypeCorrect == JobsSpec => []JobsTypeOK
  BY JobsTypeInit, JobsTypeStep, PTL DEF JobsSpec

(***************************************************************************)
(* Rows name the revision of their own job                                 *)
(***************************************************************************)

(* r is published, and it is the revision of job j if j published one.     *)
Names(j, r) ==
  /\ r \in 1..Len(lineage)
  /\ \A s \in 1..Len(lineage) : lineage[s] = j => r = s

(* A job has no revision before its run commits; between that commit and   *)
(* the write of its row its own thread holds the revision; and only a job  *)
(* that has left its run has a durable "done".                             *)
OwnRevisionInv ==
  /\ \A j \in Jobs :
       /\ worker[j].at \in {"absent", "pending", "queued", "running"}
            => \A r \in 1..Len(lineage) : lineage[r] # j
       /\ worker[j].at = "indexed" => Names(j, worker[j].result)
       /\ durable[j].status = "done" =>
            /\ worker[j].at \in {"done", "lost"}
            /\ Names(j, durable[j].result)
  /\ OneRevisionPerJob

(* OwnRevisionInv holds initially. *)
LEMMA OwnRevisionInit == JobsInit => OwnRevisionInv
  BY DEF JobsInit, OwnRevisionInv, OneRevisionPerJob, RowOf

(* Steps that publish nothing and touch only one job's record and row.     *)
LEMMA OwnRevisionLocal ==
  ASSUME JobsTypeOK, OwnRevisionInv, NEW j \in Jobs,
         \/ CreateJob(j) \/ Enqueue(j) \/ StartJob(j) \/ CutOff(j)
         \/ RunnerFails(j) \/ EpilogueFails(j) \/ FinishJob(j)
  PROVE  OwnRevisionInv'
<1>1. lineage' = lineage
  BY DEF CreateJob, Enqueue, StartJob, CutOff, RunnerFails, EpilogueFails,
         FinishJob, Report, ReportFailure
<1>2. \A i \in Jobs : i # j => worker'[i] = worker[i] /\ durable'[i] = durable[i]
  BY DEF CreateJob, Enqueue, StartJob, CutOff, RunnerFails, EpilogueFails,
         FinishJob, Report, ReportFailure, GoTo, Persist, JobsTypeOK
<1>3. /\ worker'[j].at \in {"absent", "pending", "queued", "running"}
           => \A r \in 1..Len(lineage) : lineage[r] # j
      /\ worker'[j].at = "indexed" => Names(j, worker'[j].result)
      /\ durable'[j].status = "done" =>
           /\ worker'[j].at \in {"done", "lost"}
           /\ Names(j, durable'[j].result)
  <2>1. CASE CreateJob(j) \/ Enqueue(j) \/ StartJob(j) \/ RunnerFails(j)
    BY <2>1 DEF CreateJob, Enqueue, StartJob, RunnerFails, GoTo, Persist, RowOf,
                JobsTypeOK, Worker, OwnRevisionInv
  <2>2. CASE CutOff(j)
    <3>1. Len(lineage) \in 1..Len(lineage)
      BY <2>2 DEF CutOff, JobsTypeOK
    <3>2. Names(j, Active)
      BY <2>2, <3>1 DEF CutOff, Active, Names, OwnRevisionInv
    <3> QED
      BY <2>2, <3>2 DEF CutOff, JobsTypeOK, OwnRevisionInv
  <2>3. CASE EpilogueFails(j)
    BY <2>3 DEF EpilogueFails, JobsTypeOK, OwnRevisionInv
  <2>4. CASE FinishJob(j)
    BY <2>4 DEF FinishJob, Report, ReportFailure, GoTo, Persist, RowOf, JobsTypeOK, Worker,
                OwnRevisionInv
  <2> QED
    BY <2>1, <2>2, <2>3, <2>4
<1> QED
  BY <1>1, <1>2, <1>3 DEF OwnRevisionInv, Names, OneRevisionPerJob

(* A job publishes its own, first, revision. *)
LEMMA OwnRevisionPublish ==
  ASSUME JobsTypeOK, OwnRevisionInv, NEW j \in Jobs, PublishRevision(j)
  PROVE  OwnRevisionInv'
<1>1. /\ lineage' = Append(lineage, j)
      /\ \A r \in 1..Len(lineage) : lineage[r] # j
      /\ durable[j].status # "done"
  BY DEF PublishRevision, PublishIn, OwnRevisionInv
<1>2. /\ Len(lineage') = Len(lineage) + 1
      /\ \A r \in 1..Len(lineage) : lineage'[r] = lineage[r]
      /\ lineage'[Len(lineage) + 1] = j
  BY <1>1 DEF JobsTypeOK
<1>3. /\ worker'[j] = [at |-> "indexed", result |-> Len(lineage) + 1]
      /\ \A i \in Jobs : i # j => worker'[i] = worker[i]
      /\ durable' = durable
  BY DEF PublishRevision, PublishIn, JobsTypeOK
<1>4. \A s \in 1..Len(lineage') : lineage'[s] = j => s = Len(lineage) + 1
  BY <1>1, <1>2 DEF JobsTypeOK
<1>5. Len(lineage) + 1 \in 1..Len(lineage')
  BY <1>2 DEF JobsTypeOK
<1>6. OneRevisionPerJob'
  BY <1>1, <1>2, <1>4 DEF OneRevisionPerJob, OwnRevisionInv, JobsTypeOK
<1>7. ASSUME NEW i \in Jobs
      PROVE  /\ worker'[i].at \in {"absent", "pending", "queued", "running"}
                  => \A r \in 1..Len(lineage') : lineage'[r] # i
             /\ worker'[i].at = "indexed" => Names(i, worker[i].result)' \/ i = j
             /\ durable'[i].status = "done" =>
                  /\ worker'[i].at \in {"done", "lost"}
                  /\ Names(i, durable[i].result)'
  <2>1. CASE i = j
    BY <1>1, <1>3, <2>1
  <2>2. CASE i # j
    <3>1. \A r \in 1..Len(lineage') : lineage'[r] = i => r \in 1..Len(lineage)
      BY <1>2, <2>2 DEF JobsTypeOK
    <3>2. worker[i].at \in {"absent", "pending", "queued", "running"}
            => \A r \in 1..Len(lineage') : lineage'[r] # i
      BY <1>2, <3>1 DEF OwnRevisionInv
    <3>3. worker[i].at = "indexed" => Names(i, worker[i].result)'
      BY <1>2, <1>3, <2>2, <3>1 DEF OwnRevisionInv, Names, JobsTypeOK
    <3>4. durable[i].status = "done" => Names(i, durable[i].result)'
      BY <1>2, <1>3, <2>2, <3>1 DEF OwnRevisionInv, Names, JobsTypeOK
    <3> QED
      BY <1>3, <2>2, <3>2, <3>3, <3>4 DEF OwnRevisionInv
  <2> QED
    BY <2>1, <2>2
<1>8. Names(j, worker[j].result)'
  BY <1>3, <1>4, <1>5 DEF Names
<1> QED
  BY <1>6, <1>7, <1>8 DEF OwnRevisionInv

(* A revision of somebody else is nobody's own. *)
LEMMA OwnRevisionElsewhere ==
  ASSUME JobsTypeOK, OwnRevisionInv, PublishElsewhere
  PROVE  OwnRevisionInv'
<1>1. lineage' = Append(lineage, Ext) /\ durable' = durable /\ worker' = worker
  BY DEF PublishElsewhere
<1>2. /\ Len(lineage') = Len(lineage) + 1
      /\ \A r \in 1..Len(lineage) : lineage'[r] = lineage[r]
      /\ lineage'[Len(lineage) + 1] = Ext
  BY <1>1 DEF JobsTypeOK
<1>3. \A i \in Jobs, r \in 1..Len(lineage') :
        lineage'[r] = i => r \in 1..Len(lineage)
  BY <1>2, JobsAssumption DEF JobsTypeOK
<1>4. OneRevisionPerJob'
  BY <1>2, <1>3 DEF OneRevisionPerJob, OwnRevisionInv
<1>5. ASSUME NEW i \in Jobs, NEW r, Names(i, r)
      PROVE  Names(i, r)'
  BY <1>2, <1>3, <1>5 DEF Names, JobsTypeOK
<1> QED
  BY <1>1, <1>2, <1>3, <1>4, <1>5 DEF OwnRevisionInv, Names

(* Losing the threads leaves rows and lineage. *)
LEMMA OwnRevisionLose ==
  ASSUME JobsTypeOK, OwnRevisionInv, LoseProcess
  PROVE  OwnRevisionInv'
  BY DEF LoseProcess, JobsTypeOK, OwnRevisionInv, OneRevisionPerJob, Names

(* OwnRevisionInv is inductive, given the types. *)
LEMMA OwnRevisionStep ==
  JobsTypeOK /\ OwnRevisionInv /\ [JobsNext]_jobVars => OwnRevisionInv'
<1> SUFFICES ASSUME JobsTypeOK, OwnRevisionInv, [JobsNext]_jobVars
             PROVE  OwnRevisionInv'
  OBVIOUS
<1>1. ASSUME NEW j \in Jobs, CreateJob(j) \/ Enqueue(j) \/ ThreadStep(j)
      PROVE  OwnRevisionInv'
  BY <1>1, OwnRevisionLocal, OwnRevisionPublish DEF ThreadStep
<1>2. CASE UNCHANGED jobVars
  BY <1>2 DEF jobVars, OwnRevisionInv, OneRevisionPerJob, Names
<1> QED
  BY <1>1, <1>2, OwnRevisionElsewhere, OwnRevisionLose DEF JobsNext

(* Whoever else publishes, crashes or loses rows: a durable "done" names a *)
(* published revision, the job's own one if it published any.              *)
THEOREM DoneRowsNameOwnRevision == JobsSpec => []DoneRowNamesOwnRevision
<1>1. OwnRevisionInv => DoneRowNamesOwnRevision
  BY DEF OwnRevisionInv, DoneRowNamesOwnRevision, Names
<1> QED
  BY <1>1, JobsTypeInit, JobsTypeStep, OwnRevisionInit, OwnRevisionStep, PTL
  DEF JobsSpec

(* No job ever publishes twice.                                            *)
THEOREM JobsPublishOnce == JobsSpec => []OneRevisionPerJob
<1>1. OwnRevisionInv => OneRevisionPerJob
  BY DEF OwnRevisionInv
<1> QED
  BY <1>1, JobsTypeInit, JobsTypeStep, OwnRevisionInit, OwnRevisionStep, PTL
  DEF JobsSpec

(***************************************************************************)
(* Rows only move forward                                                  *)
(***************************************************************************)

(* The row of a job is never ahead of its thread: a write that was lost    *)
(* leaves it behind, and the next one overtakes it.                        *)
RowBehindWorker ==
  \A j \in Jobs :
    /\ worker[j].at = "absent" => durable[j].status = "absent"
    /\ worker[j].at \in {"pending", "queued"}
         => durable[j].status \in {"absent", "pending"}
    /\ worker[j].at \in {"running", "indexed", "failing"}
         => durable[j].status \in {"absent", "pending", "running"}

(* What a step may do to the row of job j. *)
MovesForward(j) ==
  durable'[j] # durable[j] =>
    /\ Rank(durable[j].status) < Rank(durable'[j].status)
    /\ worker[j].at # "lost"

(* RowBehindWorker holds initially. *)
LEMMA RowBehindInit == JobsInit => RowBehindWorker
<1> SUFFICES ASSUME JobsInit PROVE RowBehindWorker
  OBVIOUS
<1>1. ASSUME NEW j \in Jobs
      PROVE  worker[j].at = "absent" /\ durable[j].status = "absent"
  BY DEF JobsInit, RowOf
<1> QED
  BY <1>1 DEF RowBehindWorker

(* A step of one job leaves the others alone, and its own row behind the   *)
(* thread but never further behind than it was.                            *)
LEMMA RowBehindLocal ==
  ASSUME JobsTypeOK, RowBehindWorker, NEW j \in Jobs,
         CreateJob(j) \/ Enqueue(j) \/ ThreadStep(j)
  PROVE  RowBehindWorker' /\ \A i \in Jobs : MovesForward(i)
<1>1. \A i \in Jobs : i # j => worker'[i] = worker[i] /\ durable'[i] = durable[i]
  BY DEF CreateJob, Enqueue, ThreadStep, StartJob, PublishRevision, PublishIn,
         CutOff, RunnerFails, EpilogueFails, FinishJob, Report, ReportFailure,
         GoTo, Persist, JobsTypeOK
<1>2. /\ worker'[j].at = "absent" => durable'[j].status = "absent"
      /\ worker'[j].at \in {"pending", "queued"}
           => durable'[j].status \in {"absent", "pending"}
      /\ worker'[j].at \in {"running", "indexed", "failing"}
           => durable'[j].status \in {"absent", "pending", "running"}
      /\ MovesForward(j)
  <2>1. CASE CreateJob(j)
    BY <2>1 DEF CreateJob, GoTo, Persist, RowOf, JobsTypeOK, Worker,
                RowBehindWorker, MovesForward, Rank
  <2>2. CASE Enqueue(j)
    BY <2>2 DEF Enqueue, GoTo, JobsTypeOK, Worker, RowBehindWorker, MovesForward
  <2>3. CASE StartJob(j)
    BY <2>3 DEF StartJob, GoTo, Persist, RowOf, JobsTypeOK, Worker,
                RowBehindWorker, MovesForward, Rank
  <2>4. CASE PublishRevision(j) \/ CutOff(j) \/ RunnerFails(j) \/ EpilogueFails(j)
    BY <2>4 DEF PublishRevision, PublishIn, CutOff, RunnerFails, EpilogueFails,
                GoTo, JobsTypeOK, Worker, RowBehindWorker, MovesForward
  <2>5. CASE FinishJob(j)
    BY <2>5 DEF FinishJob, Report, ReportFailure, GoTo, Persist, RowOf,
                JobsTypeOK, Worker, RowBehindWorker, MovesForward, Rank
  <2> QED
    BY <2>1, <2>2, <2>3, <2>4, <2>5 DEF ThreadStep
<1> QED
  BY <1>1, <1>2 DEF RowBehindWorker, MovesForward

(* So it goes with every step. *)
LEMMA RowsStep ==
  ASSUME JobsTypeOK, RowBehindWorker, [JobsNext]_jobVars
  PROVE  RowBehindWorker' /\ \A j \in Jobs : MovesForward(j)
<1>1. CASE PublishElsewhere \/ UNCHANGED jobVars
  BY <1>1 DEF PublishElsewhere, jobVars, RowBehindWorker, MovesForward
<1>2. CASE LoseProcess
  BY <1>2 DEF LoseProcess, JobsTypeOK, RowBehindWorker, MovesForward
<1> QED
  BY <1>1, <1>2, RowBehindLocal DEF JobsNext

(* A row is written only to move it forward, and never once the thread     *)
(* that would write it is lost.                                            *)
THEOREM RowsOnlyMoveForward == JobsSpec => RowsMoveForward
<1> DEFINE Forward == \A j \in Jobs :
      durable'[j] # durable[j] =>
        /\ Rank(durable[j].status) < Rank(durable'[j].status)
        /\ worker[j].at # "lost"
<1>1. JobsTypeOK /\ RowBehindWorker /\ [JobsNext]_jobVars => [Forward]_jobVars
  BY RowsStep DEF MovesForward
<1>2. JobsTypeOK /\ RowBehindWorker /\ [JobsNext]_jobVars => RowBehindWorker'
  BY RowsStep
<1> HIDE DEF Forward
<1>3. JobsSpec => [][Forward]_jobVars
  BY <1>1, <1>2, JobsTypeInit, JobsTypeStep, RowBehindInit, PTL DEF JobsSpec
<1> QED
  BY <1>3 DEF RowsMoveForward, Forward

(***************************************************************************)
(* The inductive invariant                                                 *)
(***************************************************************************)

Begun == {"IMPLEMENTING"} \cup Matched

(* What is true of the stored change and of every change a command has     *)
(* computed and not yet committed, whether or not it will be.              *)
Sound(chg) ==
  /\ chg.state = "NONE" => chg.version = 0
  /\ chg.state \in Begun => chg.drc = "acceptable"
  /\ chg.state \in Matched =>
       /\ chg.expectedActual = [outcome |-> "MATCHED", design |-> chg.design,
                                actual |-> chg.actual]
       /\ chg.lvs.status = "MATCH" /\ chg.lvs.digested = chg.flowRef
       /\ chg.observation = "recorded"
  /\ chg.state \notin Begun \cup {"ABANDONED"} => chg.indexJob.job = NoJob
  /\ chg.indexJob.job # NoJob => chg.indexJob.design = chg.design

(* r is a command that read chg: it would install the next version of it,  *)
(* and once implementation has begun it leaves the design alone.           *)
Continues(r, chg) ==
  /\ r.after.version = chg.version + 1
  /\ r.before = chg.state
  /\ chg.state \notin {"NONE", "OPEN", "PLANNED"} =>
       /\ r.after.design = chg.design
       /\ r.after.flowRef = chg.flowRef
       /\ r.after.drc = chg.drc

(* A re-index request links the job it created. *)
LinksJob(r) == r.doing = "request_reindex" => r.after.indexJob.job # NoJob

(* A comparison under way set out from the content the design is bound to, *)
(* for its design and its actual revision.                                 *)
Comparable(chg) ==
  /\ chg.state = "IMPLEMENTING" /\ chg.observation = "recorded"
  /\ chg.expectedActual.design = chg.design
  /\ chg.expectedActual.actual = chg.actual
  /\ chg.lvs.digested = chg.flowRef

Compares(r) == r.doing = "lvs" => Comparable(r.after)

InOrder(r) == Sound(r.after) /\ LinksJob(r) /\ Compares(r)

(* A request that will install a change, or a comparison on its way there. *)
InFlight == Commands \cup {"lvs"}
CommandRequest == [doing : InFlight, before : States, after : Change]

(* A command in flight read the stored change or an earlier version of it. *)
RequestInv ==
  \A c \in Clients : request[c].doing \in InFlight =>
    /\ InOrder(request[c])
    /\ request[c].after.version \leq change.version + 1
    /\ request[c].after.version = change.version + 1
         => Continues(request[c], change)

IInv == TypeOK /\ Sound(change) /\ RequestInv

(* What the first step of a command does to the client's request. *)
Issues(c) ==
  \E r \in CommandRequest :
    /\ InOrder(r) /\ Continues(r, change)
    /\ request' = [request EXCEPT ![c] = r]

(* What remains to show of each command: the change it computes is sound   *)
(* and continues the one it read.                                          *)
Installed(after) == [after EXCEPT !.version = change.version + 1]

FrozenDesign(after) ==
  change.state \notin {"NONE", "OPEN", "PLANNED"} =>
    /\ after.design = change.design
    /\ after.flowRef = change.flowRef
    /\ after.drc = change.drc

(* Compute issues a request when what it computes is sound and frozen. *)
LEMMA ComputeIssues ==
  ASSUME TypeOK, NEW c \in Clients, NEW command \in InFlight, NEW after,
         Compute(c, command, after),
         Installed(after) \in Change, Sound(Installed(after)),
         Installed(after).version = change.version + 1,
         FrozenDesign(Installed(after)),
         command = "request_reindex" => Installed(after).indexJob.job # NoJob,
         command = "lvs" => Comparable(Installed(after))
  PROVE  Issues(c)
<1> DEFINE r == [doing |-> command, before |-> change.state,
                 after |-> Installed(after)]
<1>1. r \in CommandRequest
  BY DEF CommandRequest, TypeOK, Change
<1>2. Continues(r, change)
  BY DEF Continues, FrozenDesign
<1>3. request' = [request EXCEPT ![c] = r]
  BY DEF Compute, Installed
<1>4. InOrder(r)
  BY DEF InOrder, LinksJob, Compares
<1> HIDE DEF r
<1> QED
  BY <1>1, <1>2, <1>3, <1>4 DEF Issues

(* Calling a command leaves room for the next version. *)
LEMMA CanCallFacts ==
  ASSUME TypeOK, NEW c \in Clients, NEW states, CanCall(c, states)
  PROVE  /\ change \in Change
         /\ change.state \in states
         /\ change.version + 1 \in Versions
  BY LifecycleAssumption DEF CanCall, TypeOK, Change, Versions

(* The active revision is one of the lineage. *)
LEMMA ActiveType ==
  ASSUME JobsTypeOK
  PROVE  Active \in Revisions \cup {0}
  BY JobsAssumption DEF JobsTypeOK, Active, Revisions

(* A plan replaces the design only while none is frozen. *)
LEMMA PlanIssues ==
  ASSUME TypeOK, Sound(change), NEW c \in Clients, Plan(c)
  PROVE  Issues(c)
<1>1. PICK drc \in {"acceptable", "rejected"},
           ref \in {change.flowRef} \cup FlowContents :
        Compute(c, "plan",
          [change EXCEPT !.state = "PLANNED", !.drc = drc, !.flowRef = ref,
                         !.design = change.version + 1])
  BY DEF Plan, PlanFrom
<1> DEFINE after == [change EXCEPT !.state = "PLANNED", !.drc = drc,
                                   !.flowRef = ref,
                                   !.design = change.version + 1]
<1>2. /\ change \in Change
      /\ change.state \in {"OPEN", "PLANNED"}
      /\ change.version + 1 \in Versions
  BY CanCallFacts DEF Plan, PlanFrom
<1>3. Installed(after) \in Change /\ Installed(after).version = change.version + 1
  <2>1. "PLANNED" \in States /\ ref \in Flows
    BY <1>2 DEF States, Change, TypeOK, Flows
  <2> QED
    BY <1>2, <2>1 DEF Change, Installed
<1>4. Sound(Installed(after)) /\ FrozenDesign(Installed(after))
  BY <1>2 DEF Change, Sound, FrozenDesign, Begun, Matched, Installed
<1>5. Compute(c, "plan", after)
  BY <1>1
<1> HIDE DEF after
<1> QED
  BY <1>3, <1>4, <1>5, ComputeIssues DEF Commands, InFlight

(* A flow edit rebinds the design to the new content. *)
LEMMA MutateFlowIssues ==
  ASSUME TypeOK, Sound(change), NEW c \in Clients, MutateFlow(c)
  PROVE  Issues(c)
<1>1. PICK content \in FlowContents :
        Compute(c, "mutation", [change EXCEPT !.flowRef = content,
                                              !.design = change.version + 1])
  BY DEF MutateFlow
<1> DEFINE after == [change EXCEPT !.flowRef = content,
                                   !.design = change.version + 1]
<1>2. /\ change \in Change
      /\ change.state \in {"OPEN", "PLANNED"}
      /\ change.version + 1 \in Versions
  BY CanCallFacts DEF MutateFlow
<1>3. Installed(after) \in Change /\ Installed(after).version = change.version + 1
  <2>1. content \in Flows
    BY DEF Flows
  <2> QED
    BY <1>2, <2>1 DEF Change, Installed
<1>4. Sound(Installed(after)) /\ FrozenDesign(Installed(after))
  BY <1>2 DEF Change, Sound, FrozenDesign, Begun, Matched, Installed
<1>5. Compute(c, "mutation", after)
  BY <1>1
<1> HIDE DEF after
<1> QED
  BY <1>3, <1>4, <1>5, ComputeIssues DEF Commands, InFlight

(* An architecture edit replaces the design only while none is frozen. *)
LEMMA MutateArchitectureIssues ==
  ASSUME TypeOK, Sound(change), NEW c \in Clients, MutateArchitecture(c)
  PROVE  Issues(c)
<1> DEFINE after == [change EXCEPT !.design = change.version + 1]
<1>1. Compute(c, "mutation", after)
  BY DEF MutateArchitecture
<1>2. /\ change \in Change
      /\ change.state \in {"OPEN", "PLANNED"}
      /\ change.version + 1 \in Versions
  BY CanCallFacts DEF MutateArchitecture
<1>3. Installed(after) \in Change /\ Installed(after).version = change.version + 1
  BY <1>2 DEF Change, Installed
<1>4. Sound(Installed(after)) /\ FrozenDesign(Installed(after))
  BY <1>2 DEF Change, Sound, FrozenDesign, Begun, Matched, Installed
<1> HIDE DEF after
<1> QED
  BY <1>1, <1>3, <1>4, ComputeIssues DEF Commands, InFlight

(* Implementation begins with acceptable rules. *)
LEMMA BeginImplementationIssues ==
  ASSUME TypeOK, Sound(change), NEW c \in Clients, BeginImplementation(c)
  PROVE  Issues(c)
<1> DEFINE after == [change EXCEPT
     !.state = "IMPLEMENTING", !.actual = change.base,
     !.observation = "previous", !.indexJob = NoIndexJob]
<1>1. Compute(c, "begin_implementation", after)
  BY DEF BeginImplementation, BeginUnruled
<1>2. /\ change \in Change
      /\ change.state \in {"PLANNED"}
      /\ change.version + 1 \in Versions
      /\ change.drc = "acceptable"
  BY CanCallFacts DEF BeginImplementation, BeginUnruled
<1>3. Installed(after) \in Change /\ Installed(after).version = change.version + 1
  <2>1. /\ "IMPLEMENTING" \in States /\ NoIndexJob \in IndexJob
        /\ change.base \in Revisions \cup {0}
    BY <1>2, LifecycleAssumption
    DEF States, NoIndexJob, IndexJob, Versions, Change
  <2> QED
    BY <1>2, <2>1 DEF Change, Installed
<1>4. Sound(Installed(after)) /\ FrozenDesign(Installed(after))
  BY <1>2 DEF Change, Sound, FrozenDesign, Begun, Matched, Installed, NoIndexJob
<1> HIDE DEF after
<1> QED
  BY <1>1, <1>3, <1>4, ComputeIssues DEF Commands, InFlight

(* A repair leaves the design alone. *)
LEMMA RecordRepairApplicationIssues ==
  ASSUME TypeOK, Sound(change), NEW c \in Clients, RecordRepairApplication(c)
  PROVE  Issues(c)
<1> DEFINE after == [change EXCEPT !.observation = "previous"]
<1>1. Compute(c, "record_repair_application", after)
  BY DEF RecordRepairApplication
<1>2. /\ change \in Change
      /\ change.state \in {"IMPLEMENTING"}
      /\ change.version + 1 \in Versions
  BY CanCallFacts DEF RecordRepairApplication
<1>3. Installed(after) \in Change /\ Installed(after).version = change.version + 1
  BY <1>2 DEF Change, Installed
<1>4. Sound(Installed(after)) /\ FrozenDesign(Installed(after))
  BY <1>2 DEF Change, Sound, FrozenDesign, Begun, Matched, Installed
<1> HIDE DEF after
<1> QED
  BY <1>1, <1>3, <1>4, ComputeIssues DEF Commands, InFlight

(* Verification keeps the matches it rests on. *)
LEMMA VerifyIssues ==
  ASSUME TypeOK, Sound(change), NEW c \in Clients, Verify(c)
  PROVE  Issues(c)
<1> DEFINE after == [change EXCEPT !.state = "VERIFIED",
                           !.verification = (CriteriaKinds # {})]
<1>1. Compute(c, "verify", after)
  BY DEF Verify, VerifyWhatMatched
<1>2. /\ change \in Change
      /\ change.state \in {"EVIDENCE_MATCHED"}
      /\ change.version + 1 \in Versions
  BY CanCallFacts DEF Verify, VerifyWhatMatched
<1>3. Installed(after) \in Change /\ Installed(after).version = change.version + 1
  <2>1. "VERIFIED" \in States /\ (CriteriaKinds # {}) \in BOOLEAN
    BY DEF States
  <2> QED
    BY <1>2, <2>1 DEF Change, Installed
<1>4. Sound(Installed(after)) /\ FrozenDesign(Installed(after))
  BY <1>2 DEF Change, Sound, FrozenDesign, Begun, Matched, Installed
<1> HIDE DEF after
<1> QED
  BY <1>1, <1>3, <1>4, ComputeIssues DEF Commands, InFlight

(* Closing keeps the matches it rests on. *)
LEMMA CloseIssues ==
  ASSUME TypeOK, Sound(change), NEW c \in Clients, Close(c)
  PROVE  Issues(c)
<1> DEFINE after == [change EXCEPT !.state = "CLOSED"]
<1>1. Compute(c, "close", after)
  BY DEF Close
<1>2. /\ change \in Change
      /\ change.state \in {"VERIFIED"}
      /\ change.version + 1 \in Versions
  BY CanCallFacts DEF Close
<1>3. Installed(after) \in Change /\ Installed(after).version = change.version + 1
  <2>1. "CLOSED" \in States
    BY DEF States, Terminal
  <2> QED
    BY <1>2, <2>1 DEF Change, Installed
<1>4. Sound(Installed(after)) /\ FrozenDesign(Installed(after))
  BY <1>2 DEF Change, Sound, FrozenDesign, Begun, Matched, Installed
<1> HIDE DEF after
<1> QED
  BY <1>1, <1>3, <1>4, ComputeIssues DEF Commands, InFlight

(* Abandoning leaves the design alone. *)
LEMMA AbandonIssues ==
  ASSUME TypeOK, Sound(change), NEW c \in Clients, Abandon(c)
  PROVE  Issues(c)
<1> DEFINE after == [change EXCEPT !.state = "ABANDONED"]
<1>1. Compute(c, "abandon", after)
  BY DEF Abandon
<1>2. /\ change \in Change
      /\ change.state \in States \ (Terminal \cup {"NONE"})
      /\ change.version + 1 \in Versions
  BY CanCallFacts DEF Abandon
<1>3. Installed(after) \in Change /\ Installed(after).version = change.version + 1
  <2>1. "ABANDONED" \in States
    BY DEF States, Terminal
  <2> QED
    BY <1>2, <2>1 DEF Change, Installed
<1>4. Sound(Installed(after)) /\ FrozenDesign(Installed(after))
  BY <1>2 DEF Change, Sound, FrozenDesign, Begun, Matched, Installed
<1> HIDE DEF after
<1> QED
  BY <1>1, <1>3, <1>4, ComputeIssues DEF Commands, InFlight

(* A re-index request links its job to the design of the change. *)
LEMMA RequestReindexIssues ==
  ASSUME TypeOK, Sound(change), NEW c \in Clients, NEW j \in Jobs,
         RequestReindex(c, j)
  PROVE  Issues(c) \/ UNCHANGED request
<1> DEFINE after == [change EXCEPT
     !.observation = "pending",
     !.indexJob = [job |-> j, design |-> change.design, input |-> Active,
                   adopted |-> FALSE]]
<1>1. Compute(c, "request_reindex", after) \/ UNCHANGED request
  BY DEF RequestReindex
<1>2. /\ change \in Change
      /\ change.state \in {"IMPLEMENTING"}
      /\ change.version + 1 \in Versions
  BY CanCallFacts DEF RequestReindex
<1>3. Installed(after) \in Change /\ Installed(after).version = change.version + 1
  <2>1. [job |-> j, design |-> change.design, input |-> Active,
         adopted |-> FALSE] \in IndexJob
    BY <1>2, ActiveType DEF IndexJob, Change, TypeOK
  <2> QED
    BY <1>2, <2>1 DEF Change, Installed
<1>4. Sound(Installed(after)) /\ FrozenDesign(Installed(after))
  BY <1>2 DEF Change, Sound, FrozenDesign, Begun, Matched, Installed
<1>5. Installed(after).indexJob.job # NoJob
  BY <1>2, LifecycleAssumption DEF Change, Installed
<1> HIDE DEF after
<1> QED
  BY <1>1, <1>3, <1>4, <1>5, ComputeIssues DEF Commands, InFlight

(* Adoption leaves job and design bound. *)
LEMMA AdoptIndexJobIssues ==
  ASSUME TypeOK, Sound(change), NEW c \in Clients, AdoptIndexJob(c)
  PROVE  Issues(c)
<1> DEFINE j == change.indexJob.job
           after == [change EXCEPT !.observation = "recorded",
                                   !.actual = durable[j].result,
                                   !.indexJob.adopted = TRUE]
<1>1. Compute(c, "adopt_index_job", after) /\ j # NoJob
  BY DEF AdoptIndexJob, PreflightAllowsAdopt
<1>2. /\ change \in Change
      /\ change.state \in {"IMPLEMENTING"}
      /\ change.version + 1 \in Versions
  BY CanCallFacts DEF AdoptIndexJob
<1>3. Installed(after) \in Change /\ Installed(after).version = change.version + 1
  <2>1. durable[j].result \in Revisions \cup {0}
    BY <1>1, <1>2 DEF TypeOK, JobsTypeOK, Row, Change, IndexJob
  <2>2. [change.indexJob EXCEPT !.adopted = TRUE] \in IndexJob
    BY <1>2 DEF Change, IndexJob
  <2> HIDE DEF j
  <2> QED
    BY <1>2, <2>1, <2>2 DEF Change, Installed
<1>4. Sound(Installed(after)) /\ FrozenDesign(Installed(after))
  <2>1. /\ [change.indexJob EXCEPT !.adopted = TRUE].job = change.indexJob.job
        /\ [change.indexJob EXCEPT !.adopted = TRUE].design = change.indexJob.design
    BY <1>2 DEF Change, IndexJob
  <2> QED
    BY <1>2, <2>1 DEF Change, Sound, FrozenDesign, Begun, Matched, Installed
<1> HIDE DEF after
<1> QED
  BY <1>1, <1>3, <1>4, ComputeIssues DEF Commands, InFlight

(* Evaluation replaces the comparison and the LVS result, and goes on to   *)
(* compare only from the content the design is bound to.                   *)
LEMMA EvaluationComputes ==
  ASSUME TypeOK, NEW c \in Clients, EvaluateExpectedActual(c)
  PROVE  \E command \in {"lvs", "evaluate_expected_actual"},
            comparison \in Comparison, lvs \in LvsResult :
           /\ Compute(c, command, [change EXCEPT !.expectedActual = comparison,
                                                !.lvs = lvs])
           /\ comparison.design = change.design
           /\ comparison.actual = change.actual
           /\ command = "lvs" => lvs.digested = change.flowRef
<1>1. PICK outcome \in {"MATCHED", "OTHER"} :
        LET compared == [change EXCEPT
              !.expectedActual = [outcome |-> outcome,
                                  design |-> change.design,
                                  actual |-> change.actual],
              !.lvs = Unread("OTHER")]
        IN  IF LvsMayMatch
            THEN Compute(c, "lvs", [compared EXCEPT !.lvs.digested = flow])
            ELSE Compute(c, "evaluate_expected_actual", compared)
  BY DEF EvaluateExpectedActual
<1> DEFINE comparison == [outcome |-> outcome, design |-> change.design,
                          actual |-> change.actual]
           unread == Unread("OTHER")
           read == [status |-> "OTHER", digested |-> flow, flow |-> 0,
                    actual |-> 0]
           compared == [change EXCEPT !.expectedActual = comparison,
                                      !.lvs = unread]
<1>2. change \in Change
  BY DEF TypeOK
<1>3. comparison \in Comparison /\ unread \in LvsResult /\ read \in LvsResult
  BY <1>2 DEF Change, Comparison, LvsResult, Unread, TypeOK, Flows
<1>4. [compared EXCEPT !.lvs.digested = flow]
        = [change EXCEPT !.expectedActual = comparison, !.lvs = read]
  <2>1. [unread EXCEPT !.digested = flow] = read
    BY DEF Unread
  <2>2. compared.lvs = unread
    BY <1>2 DEF Change
  <2>3. [compared EXCEPT !.lvs.digested = flow]
          = [compared EXCEPT !.lvs = [unread EXCEPT !.digested = flow]]
    BY <2>2
  <2> HIDE DEF unread, read, comparison
  <2>4. [compared EXCEPT !.lvs = read]
          = [change EXCEPT !.expectedActual = comparison, !.lvs = read]
    BY <1>2 DEF Change
  <2> QED
    BY <2>1, <2>3, <2>4
<1>5. CASE LvsMayMatch
  <2>1. Compute(c, "lvs", [change EXCEPT !.expectedActual = comparison,
                                         !.lvs = read])
    BY <1>1, <1>4, <1>5
  <2>2. read.digested = change.flowRef
    BY <1>5 DEF LvsMayMatch
  <2> QED
    BY <1>3, <2>1, <2>2
<1>6. CASE ~LvsMayMatch
  <2>1. Compute(c, "evaluate_expected_actual",
                [change EXCEPT !.expectedActual = comparison, !.lvs = unread])
    BY <1>1, <1>6
  <2> QED
    BY <1>3, <2>1
<1> QED
  BY <1>5, <1>6

(* A comparison is recorded for this design, flow and revision. *)
LEMMA EvaluateExpectedActualIssues ==
  ASSUME TypeOK, Sound(change), NEW c \in Clients, EvaluateExpectedActual(c)
  PROVE  Issues(c)
<1>1. PICK command \in {"lvs", "evaluate_expected_actual"},
           comparison \in Comparison, lvs \in LvsResult :
        /\ Compute(c, command, [change EXCEPT !.expectedActual = comparison,
                                             !.lvs = lvs])
        /\ comparison.design = change.design
        /\ comparison.actual = change.actual
        /\ command = "lvs" => lvs.digested = change.flowRef
  BY EvaluationComputes
<1> DEFINE after == [change EXCEPT !.expectedActual = comparison, !.lvs = lvs]
<1>2. /\ change \in Change
      /\ change.state \in {"IMPLEMENTING"}
      /\ change.version + 1 \in Versions
      /\ change.observation = "recorded"
  BY CanCallFacts DEF EvaluateExpectedActual
<1>3. Installed(after) \in Change /\ Installed(after).version = change.version + 1
  BY <1>2 DEF Change, Installed
<1>4. Sound(Installed(after)) /\ FrozenDesign(Installed(after))
  BY <1>2 DEF Change, Sound, FrozenDesign, Begun, Matched, Installed
<1>5. command = "lvs" => Comparable(Installed(after))
  BY <1>1, <1>2 DEF Change, Comparable, Installed
<1>6. Compute(c, command, after) /\ command \in InFlight
  BY <1>1 DEF Commands, InFlight
<1>7. command # "request_reindex"
  BY <1>1
<1> HIDE DEF after
<1> QED
  BY <1>3, <1>4, <1>5, <1>6, <1>7, ComputeIssues

(* The comparison keeps what it set out from and records what it read.     *)
LEMMA LvsRuns ==
  ASSUME TypeOK, NEW c \in Clients, RunLvs(c)
  PROVE  /\ request[c] \in CommandRequest /\ request[c].doing = "lvs"
         /\ \E state \in {"EVIDENCE_MATCHED", "IMPLEMENTING"}, lvs \in LvsResult :
              /\ request' = [request EXCEPT ![c] =
                   [doing |-> "evaluate_expected_actual",
                    before |-> request[c].before,
                    after |-> [request[c].after EXCEPT !.state = state,
                                                       !.lvs = lvs]]]
              /\ state = "EVIDENCE_MATCHED" =>
                   /\ request[c].after.expectedActual.outcome = "MATCHED"
                   /\ lvs.status = "MATCH"
              /\ lvs.digested = request[c].after.lvs.digested
              /\ lvs.actual = Active
<1>1. request[c] \in CommandRequest /\ request[c].doing = "lvs"
  BY DEF RunLvs, TypeOK, Request, Idle, Commands, CommandRequest, InFlight
<1> DEFINE after == request[c].after
<1>2. PICK status \in {"MATCH", "OTHER"} :
        request' = [request EXCEPT ![c] =
          [doing |-> "evaluate_expected_actual", before |-> @.before,
           after |-> [after EXCEPT
             !.state = IF after.expectedActual.outcome = "MATCHED"
                            /\ status = "MATCH"
                       THEN "EVIDENCE_MATCHED" ELSE "IMPLEMENTING",
             !.lvs = [status |-> status, digested |-> after.lvs.digested,
                      flow |-> flow, actual |-> Active]]]]
  BY DEF RunLvs
<1> DEFINE lvs == [status |-> status, digested |-> after.lvs.digested,
                   flow |-> flow, actual |-> Active]
           state == IF after.expectedActual.outcome = "MATCHED"
                         /\ status = "MATCH"
                    THEN "EVIDENCE_MATCHED" ELSE "IMPLEMENTING"
<1>3. lvs \in LvsResult
  <2>1. after.lvs.digested \in Flows
    BY <1>1 DEF CommandRequest, Change, LvsResult
  <2> QED
    BY <2>1, ActiveType DEF LvsResult, TypeOK
<1>4. request' = [request EXCEPT ![c] =
        [doing |-> "evaluate_expected_actual", before |-> request[c].before,
         after |-> [request[c].after EXCEPT !.state = state, !.lvs = lvs]]]
  BY <1>2
<1>5. state = "EVIDENCE_MATCHED" =>
        request[c].after.expectedActual.outcome = "MATCHED" /\ lvs.status = "MATCH"
  OBVIOUS
<1>6. state \in {"EVIDENCE_MATCHED", "IMPLEMENTING"}
  OBVIOUS
<1>7. lvs.digested = request[c].after.lvs.digested /\ lvs.actual = Active
  OBVIOUS
<1> HIDE DEF state, lvs, after
<1> QED
  BY <1>1, <1>3, <1>4, <1>5, <1>6, <1>7

(* A match is recorded for the design, flow and revision it set out from.  *)
LEMMA RunLvsIssues ==
  ASSUME TypeOK, NEW c \in Clients, RunLvs(c), InOrder(request[c])
  PROVE  \E r \in CommandRequest :
           /\ request' = [request EXCEPT ![c] = r]
           /\ InOrder(r) /\ r.after.version = request[c].after.version
           /\ Continues(request[c], change) => Continues(r, change)
<1>1. PICK state \in {"EVIDENCE_MATCHED", "IMPLEMENTING"}, lvs \in LvsResult :
        /\ request' = [request EXCEPT ![c] =
             [doing |-> "evaluate_expected_actual",
              before |-> request[c].before,
              after |-> [request[c].after EXCEPT !.state = state, !.lvs = lvs]]]
        /\ state = "EVIDENCE_MATCHED" =>
             /\ request[c].after.expectedActual.outcome = "MATCHED"
             /\ lvs.status = "MATCH"
        /\ lvs.digested = request[c].after.lvs.digested
        /\ lvs.actual = Active
  BY LvsRuns
<1>2. /\ request[c].before \in States /\ request[c].after \in Change
      /\ Sound(request[c].after) /\ Comparable(request[c].after)
  BY LvsRuns DEF CommandRequest, InOrder, Compares
<1>3. PICK old : old = request[c].after
  OBVIOUS
<1> DEFINE after == [old EXCEPT !.state = state, !.lvs = lvs]
           r == [doing |-> "evaluate_expected_actual",
                 before |-> request[c].before, after |-> after]
<1>4. /\ after.state = state /\ after.lvs = lvs
      /\ after.version = old.version /\ after.design = old.design
      /\ after.flowRef = old.flowRef /\ after.drc = old.drc
      /\ after.expectedActual = old.expectedActual
      /\ after.actual = old.actual /\ after.observation = old.observation
      /\ after.indexJob = old.indexJob
  BY <1>2, <1>3 DEF Change
<1>5. after \in Change
  <2>1. state \in States
    BY DEF States
  <2> QED
    BY <1>2, <1>3, <2>1 DEF Change
<1> HIDE DEF after
<1>6. Sound(after)
  <2>1. after.state = "EVIDENCE_MATCHED" =>
          after.expectedActual = [outcome |-> "MATCHED",
                                  design |-> after.design,
                                  actual |-> after.actual]
    BY <1>1, <1>2, <1>3, <1>4 DEF Comparable, Change, Comparison
  <2>2. after.lvs.digested = after.flowRef /\ after.observation = "recorded"
    BY <1>1, <1>2, <1>3, <1>4 DEF Comparable
  <2>3. after.drc = "acceptable" /\ after.state \in Begun
    BY <1>2, <1>3, <1>4 DEF Comparable, Sound, Begun, Matched
  <2>4. after.indexJob.job # NoJob => after.indexJob.design = after.design
    BY <1>2, <1>3, <1>4 DEF Sound
  <2>5. after.state = "EVIDENCE_MATCHED" => after.lvs.status = "MATCH"
    BY <1>1, <1>4
  <2> QED
    BY <1>4, <2>1, <2>2, <2>3, <2>4, <2>5 DEF Sound, Matched
<1>7. r \in CommandRequest
  BY <1>2, <1>5 DEF CommandRequest, InFlight, Commands
<1>8. InOrder(r)
  BY <1>6 DEF InOrder, LinksJob, Compares
<1>9. Continues(request[c], change) => Continues(r, change)
  BY <1>3, <1>4 DEF Continues
<1>10. request' = [request EXCEPT ![c] = r]
  BY <1>1, <1>3 DEF after
<1> QED
  BY <1>3, <1>4, <1>7, <1>8, <1>9, <1>10

(* Every command issues a request that meets the invariant. *)
LEMMA CommandIssues ==
  ASSUME TypeOK, Sound(change), NEW c \in Clients, Command(c)
  PROVE  Issues(c) \/ UNCHANGED request
  BY PlanIssues, MutateFlowIssues, MutateArchitectureIssues,
     BeginImplementationIssues, RecordRepairApplicationIssues,
     RequestReindexIssues, AdoptIndexJobIssues, EvaluateExpectedActualIssues,
     VerifyIssues, CloseIssues, AbandonIssues
  DEF Command

(* The first step of a command writes nothing but the flow. *)
LEMMA CommandFrame ==
  ASSUME TypeOK, NEW c \in Clients, Command(c)
  PROVE  /\ UNCHANGED <<change, receipt, tests, approvals>>
         /\ flow' \in Flows
<1>1. CASE MutateFlow(c)
  BY <1>1 DEF MutateFlow, Flows
<1>2. CASE ~MutateFlow(c)
  BY <1>2 DEF Command, Plan, PlanFrom, MutateArchitecture,
     BeginImplementation, BeginUnruled,
     RecordRepairApplication, RequestReindex, AdoptIndexJob,
     EvaluateExpectedActual, Verify, VerifyWhatMatched, Close, Abandon, TypeOK
<1> QED
  BY <1>1, <1>2

(***************************************************************************)
(* The invariant holds initially and every step preserves it               *)
(***************************************************************************)

(* The invariant holds initially. *)
LEMMA InvInit == Init => IInv
<1> SUFFICES ASSUME Init PROVE IInv
  OBVIOUS
<1>1. NoChange \in Change
  BY LifecycleAssumption
  DEF NoChange, Change, States, Versions, Flows, IndexJob, NoIndexJob,
      Comparison, LvsResult, Unread
<1>2. TypeOK
  BY <1>1, JobsTypeInit, LifecycleAssumption
  DEF Init, TypeOK, Receipt, Versions, States, Flows, Request
<1>3. Sound(change)
  BY DEF Init, NoChange, NoIndexJob, Sound, Begun, Matched
<1>4. RequestInv
  BY DEF Init, RequestInv, Idle, Commands, InFlight
<1> QED
  BY <1>2, <1>3, <1>4 DEF IInv

(* A client's request is of the kind its "doing" says. *)
LEMMA RequestKinds ==
  ASSUME TypeOK, NEW c \in Clients
  PROVE  /\ request[c].doing \in InFlight => request[c] \in CommandRequest
         /\ request[c].doing = "enqueue" => request[c].job \in Jobs
         /\ request[c].doing = "test" => request[c].receipt \in TestReceipt
         /\ request[c].doing = "approval" => request[c].receipt \in Approval
  BY DEF TypeOK, Request, Idle, Commands, InFlight, CommandRequest

(* What a step does to jobs and revisions is a step of IndexJobs. *)
LEMMA JobsSimulated == TypeOK /\ [Next]_vars => [JobsNext]_jobVars
<1> SUFFICES ASSUME TypeOK, [Next]_vars PROVE [JobsNext]_jobVars
  OBVIOUS
<1>1. ASSUME NEW c \in Clients, Command(c)
      PROVE  [JobsNext]_jobVars
  BY <1>1 DEF Command, Plan, PlanFrom, MutateFlow, MutateArchitecture,
     BeginImplementation, BeginUnruled, RecordRepairApplication, RequestReindex,
     AdoptIndexJob, EvaluateExpectedActual, Verify, VerifyWhatMatched, Close,
     Abandon, JobsNext
<1>2. ASSUME NEW c \in Clients,
             CheckTestRun(c) \/ CheckApproval(c) \/ RunLvs(c) \/ Commit(c)
               \/ Conflict(c) \/ AppendTestReceipt(c) \/ AppendApproval(c)
      PROVE  UNCHANGED jobVars
  BY <1>2 DEF RunLvs, CheckTestRun, BindTestRun, CheckApproval, Commit, Install, Conflict,
              AppendTestReceipt, AppendApproval
<1>3. ASSUME NEW c \in Clients, EnqueueLinkedJob(c)
      PROVE  [JobsNext]_jobVars
  <2>1. request[c].job \in Jobs
    BY <1>3, RequestKinds DEF EnqueueLinkedJob
  <2> QED
    BY <1>3, <2>1 DEF EnqueueLinkedJob, JobsNext
<1>4. CASE OpenChange \/ EditFlowElsewhere
  BY <1>4 DEF OpenChange, EditFlowElsewhere
<1>5. CASE JobsStep
  BY <1>5 DEF JobsStep, JobsNext
<1>6. CASE Crash
  BY <1>6 DEF Crash, JobsNext
<1>7. CASE UNCHANGED vars
  BY <1>7 DEF vars
<1> QED
  BY <1>1, <1>2, <1>3, <1>4, <1>5, <1>6, <1>7 DEF Next, Finish

(* Every step of the lifecycle keeps the types of the jobs. *)
LEMMA JobsTypeNext ==
  ASSUME TypeOK, [Next]_vars
  PROVE  JobsTypeOK'
  BY JobsSimulated, JobsTypeStep DEF TypeOK

(* Steps that leave the change alone, and either leave requests alone, too,*)
(* or send one client back to idle or on to a step that is not a command.  *)
LEMMA RequestInvKept ==
  ASSUME TypeOK, RequestInv, UNCHANGED change,
         \A c \in Clients : request'[c] = request[c]
                             \/ request'[c].doing \notin InFlight
  PROVE  RequestInv'
  BY DEF RequestInv, Sound, InOrder, LinksJob, Compares, Comparable,
      Continues, Begun, Matched

(* A request that is in order and continues what is stored, or has lost    *)
(* its race, keeps the invariant.                                          *)
LEMMA IssuedInv ==
  ASSUME IInv, [Next]_vars, NEW c \in Clients, NEW r \in CommandRequest,
         request' = [request EXCEPT ![c] = r], InOrder(r),
         r.after.version \leq change.version + 1,
         r.after.version = change.version + 1 => Continues(r, change),
         UNCHANGED <<change, receipt, tests, approvals>>, flow' \in Flows
  PROVE  IInv'
<1>1. TypeOK /\ Sound(change) /\ RequestInv
  BY DEF IInv
<1>2. r \in Request
  BY DEF CommandRequest, Request, InFlight
<1>3. request' \in [Clients -> Request]
  BY <1>1, <1>2 DEF TypeOK
<1>4. TypeOK'
  BY <1>1, <1>3, JobsTypeNext DEF TypeOK
<1>5. ASSUME NEW d \in Clients, request'[d].doing \in InFlight
      PROVE  /\ InOrder(request'[d])
             /\ request'[d].after.version \leq change.version + 1
             /\ request'[d].after.version = change.version + 1
                  => Continues(request'[d], change)
  <2>1. CASE d = c
    <3>1. request'[d] = r
      BY <1>1, <2>1 DEF TypeOK
    <3> QED
      BY <3>1
  <2>2. CASE d # c
    <3>1. request'[d] = request[d]
      BY <1>1, <2>2 DEF TypeOK
    <3> QED
      BY <1>1, <1>5, <3>1 DEF RequestInv
  <2> QED
    BY <2>1, <2>2
<1>6. RequestInv'
  BY <1>5 DEF RequestInv, Sound, InOrder, LinksJob, Compares, Comparable,
      Continues, Begun, Matched
<1>7. Sound(change)'
  BY <1>1 DEF Sound, Begun, Matched
<1> QED
  BY <1>4, <1>6, <1>7 DEF IInv

(* Issuing a command keeps the invariant. *)
LEMMA CommandInv ==
  ASSUME IInv, [Next]_vars, NEW c \in Clients, Command(c)
  PROVE  IInv'
<1>1. TypeOK /\ Sound(change) /\ RequestInv
  BY DEF IInv
<1>2. UNCHANGED <<change, receipt, tests, approvals>> /\ flow' \in Flows
  BY <1>1, CommandFrame
<1>3. CASE UNCHANGED request
  <2>1. TypeOK'
    BY <1>1, <1>2, <1>3, JobsTypeNext DEF TypeOK
  <2>2. RequestInv'
    BY <1>1, <1>2, <1>3, RequestInvKept
  <2>3. Sound(change)'
    BY <1>1, <1>2 DEF Sound, Begun, Matched
  <2> QED
    BY <2>1, <2>2, <2>3 DEF IInv
<1>4. CASE Issues(c)
  <2>1. PICK r \in CommandRequest :
          /\ InOrder(r) /\ Continues(r, change)
          /\ request' = [request EXCEPT ![c] = r]
    BY <1>4 DEF Issues
  <2>2. r.after.version \leq change.version + 1
    BY <1>1, <2>1 DEF Continues, TypeOK, Change, Versions
  <2> QED
    BY <1>2, <2>1, <2>2, IssuedInv
<1> QED
  BY <1>1, <1>3, <1>4, CommandIssues

(* So does running the comparison it set out for. *)
LEMMA RunLvsInv ==
  ASSUME IInv, [Next]_vars, NEW c \in Clients, RunLvs(c)
  PROVE  IInv'
<1>1. TypeOK /\ RequestInv
  BY DEF IInv
<1>2. request[c].doing \in InFlight
  BY DEF RunLvs, InFlight
<1>3. /\ InOrder(request[c])
      /\ request[c].after.version \leq change.version + 1
      /\ request[c].after.version = change.version + 1
           => Continues(request[c], change)
  BY <1>1, <1>2 DEF RequestInv
<1>4. PICK r \in CommandRequest :
        /\ request' = [request EXCEPT ![c] = r]
        /\ InOrder(r) /\ r.after.version = request[c].after.version
        /\ Continues(request[c], change) => Continues(r, change)
  BY <1>1, <1>3, RunLvsIssues
<1>5. UNCHANGED <<change, receipt, tests, approvals>> /\ flow' \in Flows
  BY <1>1 DEF RunLvs, TypeOK
<1> QED
  BY <1>3, <1>4, <1>5, IssuedInv

(* So does installing it: the other requests have lost their race. *)
LEMMA CommitInv ==
  ASSUME IInv, [Next]_vars, NEW c \in Clients, Commit(c)
  PROVE  IInv'
<1> DEFINE r == request[c]
<1>1. TypeOK /\ Sound(change) /\ RequestInv
  BY DEF IInv
<1>2. /\ r \in CommandRequest /\ r.doing \in InFlight
      /\ InOrder(r)
  BY <1>1, RequestKinds DEF Commit, Install, RequestInv, InFlight
<1>3. /\ change' = r.after
      /\ receipt' = [sequence |-> r.after.version, before |-> r.before,
                     after |-> r.after.state]
      /\ UNCHANGED <<tests, approvals, flow>>
  BY DEF Commit, Install
<1>4. change.version = r.after.version - 1
  BY DEF Commit, Install
<1>5. change' \in Change /\ receipt' \in Receipt
  BY <1>2, <1>3 DEF CommandRequest, Change, Receipt
<1>6. \E q \in Request :
        /\ q.doing \notin InFlight
        /\ request' = [request EXCEPT ![c] = q]
  <2>1. CASE r.doing = "request_reindex"
    <3> DEFINE q == [doing |-> "enqueue", job |-> r.after.indexJob.job]
    <3>1. r.after.indexJob.job \in Jobs
      BY <1>2, <2>1 DEF InOrder, LinksJob, CommandRequest, Change, IndexJob
    <3>2. q \in Request /\ q.doing \notin InFlight
      BY <3>1 DEF Request, Commands, InFlight
    <3>3. request' = [request EXCEPT ![c] = q]
      BY <2>1 DEF Commit, Install
    <3> QED
      BY <3>2, <3>3
  <2>2. CASE r.doing # "request_reindex"
    <3>1. Idle \in Request /\ Idle.doing \notin InFlight
      BY DEF Request, Idle, Commands, InFlight
    <3>2. request' = [request EXCEPT ![c] = Idle]
      BY <2>2 DEF Commit, Install
    <3> QED
      BY <3>1, <3>2
  <2> QED
    BY <2>1, <2>2
<1>7. request' \in [Clients -> Request]
  BY <1>1, <1>6 DEF TypeOK
<1>8. TypeOK'
  BY <1>1, <1>3, <1>5, <1>7, JobsTypeNext DEF TypeOK
<1>9. ASSUME NEW d \in Clients, request'[d].doing \in InFlight
      PROVE  /\ InOrder(request'[d])
             /\ request'[d].after.version \in Nat
             /\ request'[d].after.version < change'.version + 1
  <2>1. d # c /\ request'[d] = request[d]
    BY <1>1, <1>6, <1>9 DEF TypeOK
  <2>2. /\ InOrder(request[d])
        /\ request[d].after.version \leq change.version + 1
    BY <1>1, <1>9, <2>1 DEF RequestInv
  <2>3. /\ request[d].after.version \in Nat
        /\ change.version \in Nat
        /\ change'.version = change.version + 1
    <3>1. request[d].after \in Change
      BY <1>1, <1>9, <2>1, RequestKinds DEF CommandRequest
    <3>2. r.after.version \in Nat /\ change.version \in Nat
      BY <1>1, <1>2 DEF TypeOK, CommandRequest, Change, Versions
    <3> QED
      BY <1>3, <1>4, <3>1, <3>2 DEF Change, Versions
  <2> QED
    BY <2>1, <2>2, <2>3
<1>10. RequestInv'
  <2>1. change'.version \in Nat
    BY <1>5 DEF Change, Versions
  <2> QED
    BY <1>9, <2>1
    DEF RequestInv, Sound, InOrder, LinksJob, Compares, Comparable,
      Continues, Begun, Matched
<1>11. Sound(change)'
  BY <1>2, <1>3 DEF InOrder, Sound, Begun, Matched
<1> QED
  BY <1>8, <1>10, <1>11 DEF IInv

(* A step of a client that writes no change: its request stays well typed  *)
(* and is not a command afterwards.                                        *)
LEMMA ReceiptStepInv ==
  ASSUME IInv, [Next]_vars, NEW c \in Clients, NEW q \in Request,
         q.doing \notin InFlight,
         request' = [request EXCEPT ![c] = q],
         UNCHANGED <<change, receipt, flow>>,
         tests' \subseteq TestReceipt, approvals' \in Seq(Approval)
  PROVE  IInv'
<1>1. TypeOK /\ Sound(change) /\ RequestInv
  BY DEF IInv
<1>2. request' \in [Clients -> Request]
  BY <1>1 DEF TypeOK
<1>3. TypeOK'
  BY <1>1, <1>2, JobsTypeNext DEF TypeOK
<1>4. \A d \in Clients : request'[d] = request[d]
                           \/ request'[d].doing \notin InFlight
  BY <1>1 DEF TypeOK
<1>5. RequestInv'
  BY <1>1, <1>4, RequestInvKept
<1>6. Sound(change)'
  BY <1>1 DEF Sound, Begun, Matched
<1> QED
  BY <1>3, <1>5, <1>6 DEF IInv

(* A client without a request. *)
LEMMA IdleRequest == Idle \in Request /\ Idle.doing \notin InFlight
  BY DEF Request, Idle, Commands, InFlight

(* So does losing the race. *)
LEMMA ConflictInv ==
  ASSUME IInv, [Next]_vars, NEW c \in Clients,
         Conflict(c) \/ EnqueueLinkedJob(c)
  PROVE  IInv'
<1>1. /\ UNCHANGED <<change, receipt, tests, approvals, flow>>
      /\ request' = [request EXCEPT ![c] = Idle]
  BY DEF Conflict, EnqueueLinkedJob
<1>2. tests' \subseteq TestReceipt /\ approvals' \in Seq(Approval)
  BY <1>1 DEF IInv, TypeOK
<1> QED
  BY <1>1, <1>2, IdleRequest, ReceiptStepInv

(* So does a test receipt. *)
LEMMA AppendTestReceiptInv ==
  ASSUME IInv, [Next]_vars, NEW c \in Clients, AppendTestReceipt(c)
  PROVE  IInv'
<1>1. TypeOK
  BY DEF IInv
<1>2. request[c].receipt \in TestReceipt
  BY <1>1, RequestKinds DEF AppendTestReceipt
<1>3. tests' \subseteq TestReceipt /\ approvals' \in Seq(Approval)
  BY <1>1, <1>2 DEF AppendTestReceipt, TypeOK
<1>4. /\ UNCHANGED <<change, receipt, flow>>
      /\ request' = [request EXCEPT ![c] = Idle]
  BY DEF AppendTestReceipt
<1> QED
  BY <1>3, <1>4, IdleRequest, ReceiptStepInv

(* Inserting an element into a sequence gives a sequence. *)
LEMMA InsertType ==
  ASSUME NEW S, NEW seq \in Seq(S), NEW x \in S, NEW k \in 0..Len(seq)
  PROVE  SubSeq(seq, 1, k) \o <<x>> \o SubSeq(seq, k + 1, Len(seq)) \in Seq(S)
<1>1. SubSeq(seq, 1, k) \in Seq(S)
  OBVIOUS
<1>2. SubSeq(seq, k + 1, Len(seq)) \in Seq(S)
  OBVIOUS
<1> QED
  BY <1>1, <1>2

(* So does an approval. *)
LEMMA AppendApprovalInv ==
  ASSUME IInv, [Next]_vars, NEW c \in Clients, AppendApproval(c)
  PROVE  IInv'
<1>1. TypeOK
  BY DEF IInv
<1>2. request[c].receipt \in Approval
  BY <1>1, RequestKinds DEF AppendApproval
<1>3. PICK k \in 0..Len(approvals) :
        approvals' = SubSeq(approvals, 1, k) \o <<request[c].receipt>>
                       \o SubSeq(approvals, k + 1, Len(approvals))
  BY DEF AppendApproval
<1>4. tests' \subseteq TestReceipt /\ approvals' \in Seq(Approval)
  BY <1>1, <1>2, <1>3, InsertType DEF AppendApproval, TypeOK
<1>5. /\ UNCHANGED <<change, receipt, flow>>
      /\ request' = [request EXCEPT ![c] = Idle]
  BY DEF AppendApproval
<1> QED
  BY <1>4, <1>5, IdleRequest, ReceiptStepInv

(* So does checking a test run. *)
LEMMA CheckTestRunInv ==
  ASSUME IInv, [Next]_vars, NEW c \in Clients, CheckTestRun(c)
  PROVE  IInv'
<1>1. TypeOK
  BY DEF IInv
<1>2. PICK result \in TestResults :
        request' = [request EXCEPT ![c] =
          [doing |-> "test", receipt |-> [design |-> change.design,
                                          actual |-> change.actual,
                                          result |-> result]]]
  BY DEF CheckTestRun, BindTestRun
<1> DEFINE t == [design |-> change.design, actual |-> change.actual,
                 result |-> result]
           q == [doing |-> "test", receipt |-> t]
<1>3. change.actual \in Revisions /\ change.design \in Versions
  BY <1>1 DEF CheckTestRun, BindTestRun, ActualIsCurrent, TypeOK, Change
<1>4. t \in TestReceipt
  BY <1>3 DEF TestReceipt
<1>5. q \in Request /\ q.doing \notin InFlight
  BY <1>4 DEF Request, Commands, InFlight
<1>6. /\ UNCHANGED <<change, receipt, flow>>
      /\ tests' \subseteq TestReceipt /\ approvals' \in Seq(Approval)
  BY <1>1 DEF CheckTestRun, BindTestRun, TypeOK
<1>7. request' = [request EXCEPT ![c] = q]
  BY <1>2
<1> HIDE DEF q
<1> QED
  BY <1>5, <1>6, <1>7, ReceiptStepInv

(* So does checking an approval. *)
LEMMA CheckApprovalInv ==
  ASSUME IInv, [Next]_vars, NEW c \in Clients, CheckApproval(c)
  PROVE  IInv'
<1>1. TypeOK
  BY DEF IInv
<1>2. PICK decision \in {"APPROVE", "REJECT"}, now \in LatestTime + 1 .. MaxTime :
        request' = [request EXCEPT ![c] =
          [doing |-> "approval", receipt |-> [version |-> change.version,
                                              design |-> change.design,
                                              decision |-> decision,
                                              timestamp |-> now]]]
  BY DEF CheckApproval
<1> DEFINE a == [version |-> change.version, design |-> change.design,
                 decision |-> decision, timestamp |-> now]
           q == [doing |-> "approval", receipt |-> a]
<1>3. LatestTime \in Nat
  <2>1. CASE approvals = <<>>
    BY <2>1 DEF LatestTime
  <2>2. CASE approvals # <<>>
    <3>1. approvals[Len(approvals)] \in Approval
      BY <1>1, <2>2 DEF TypeOK
    <3> QED
      BY <2>2, <3>1 DEF LatestTime, Approval
  <2> QED
    BY <2>1, <2>2
<1>4. now \in 1..MaxTime
  BY <1>3, LifecycleAssumption
<1>5. a \in Approval
  BY <1>1, <1>4 DEF TypeOK, Change, Approval
<1>6. q \in Request /\ q.doing \notin InFlight
  BY <1>5 DEF Request, Commands, InFlight
<1>7. /\ UNCHANGED <<change, receipt, flow>>
      /\ tests' \subseteq TestReceipt /\ approvals' \in Seq(Approval)
  BY <1>1 DEF CheckApproval, TypeOK
<1>8. request' = [request EXCEPT ![c] = q]
  BY <1>2
<1> HIDE DEF q
<1> QED
  BY <1>6, <1>7, <1>8, ReceiptStepInv

(* A change is inserted at version 1, when no command can be in flight.    *)
LEMMA OpenChangeInv ==
  ASSUME IInv, [Next]_vars, OpenChange
  PROVE  IInv'
<1>1. TypeOK /\ Sound(change) /\ RequestInv
  BY DEF IInv
<1>2. PICK base \in 1..Active, ref \in Flows :
        change' = [NoChange EXCEPT !.state = "OPEN", !.version = 1,
                                   !.base = base, !.design = 1,
                                   !.flowRef = ref]
  BY DEF OpenChange
<1>3. change.version = 0
  BY <1>1 DEF OpenChange, Sound
<1>4. /\ receipt' = [sequence |-> 1, before |-> "NONE", after |-> "OPEN"]
      /\ UNCHANGED <<tests, approvals, flow, request>>
  BY DEF OpenChange
<1>5. change' \in Change /\ receipt' \in Receipt
  <2>1. base \in Revisions \cup {0}
    BY <1>1, JobsAssumption DEF TypeOK, JobsTypeOK, Active, Revisions
  <2>2. ref \in Flows
    BY <1>1 DEF TypeOK, Flows
  <2>3. 1 \in Versions /\ "OPEN" \in States /\ "NONE" \in States
    BY LifecycleAssumption DEF OpenChange, Versions, States
  <2>4. NoChange \in Change
    BY LifecycleAssumption
    DEF NoChange, Change, States, Versions, Flows, IndexJob, NoIndexJob,
        Comparison, LvsResult, Unread
  <2> QED
    BY <1>2, <1>4, <2>1, <2>2, <2>3, <2>4 DEF Change, Receipt
<1>6. TypeOK'
  BY <1>1, <1>4, <1>5, JobsTypeNext DEF TypeOK
<1>7. Sound(change)' /\ change'.version = 1
  BY <1>2 DEF NoChange, NoIndexJob, Sound, Begun, Matched
<1>8. ASSUME NEW c \in Clients, request[c].doing \in InFlight
      PROVE  /\ InOrder(request[c])
             /\ request[c].after.version \in Nat
             /\ request[c].after.version \leq 1
  <2>1. request[c].after \in Change
    BY <1>1, <1>8, RequestKinds DEF CommandRequest
  <2> QED
    BY <1>1, <1>3, <1>8, <2>1 DEF RequestInv, Change, Versions
<1>9. RequestInv'
  BY <1>4, <1>7, <1>8
  DEF RequestInv, Sound, InOrder, LinksJob, Compares, Comparable,
      Continues, Begun, Matched
<1> QED
  BY <1>6, <1>7, <1>9 DEF IInv

(* So do jobs, edits of the flow by others, and the loss of the server. *)
LEMMA EnvironmentInv ==
  ASSUME IInv, [Next]_vars,
         EditFlowElsewhere \/ JobsStep \/ Crash \/ UNCHANGED vars
  PROVE  IInv'
<1>1. TypeOK /\ Sound(change) /\ RequestInv
  BY DEF IInv
<1>2. /\ UNCHANGED <<change, receipt, tests, approvals>>
      /\ flow' \in Flows
  BY <1>1 DEF EditFlowElsewhere, JobsStep, Crash, vars, changeVars, TypeOK, Flows
<1>3. \A c \in Clients : request'[c] = request[c]
                           \/ request'[c].doing \notin InFlight
  BY IdleRequest DEF EditFlowElsewhere, JobsStep, Crash, vars, changeVars
<1>4. request' \in [Clients -> Request]
  BY <1>1, IdleRequest
  DEF EditFlowElsewhere, JobsStep, Crash, vars, changeVars, TypeOK
<1>5. TypeOK'
  BY <1>1, <1>2, <1>4, JobsTypeNext DEF TypeOK
<1>6. RequestInv'
  BY <1>1, <1>2, <1>3, RequestInvKept
<1>7. Sound(change)'
  BY <1>1, <1>2 DEF Sound, Begun, Matched
<1> QED
  BY <1>5, <1>6, <1>7 DEF IInv

(* The invariant is inductive, *)
LEMMA InvStep == IInv /\ [Next]_vars => IInv'
<1> SUFFICES ASSUME IInv, [Next]_vars PROVE IInv'
  OBVIOUS
<1>1. ASSUME NEW c \in Clients,
             Command(c) \/ CheckTestRun(c) \/ CheckApproval(c) \/ Finish(c)
      PROVE  IInv'
  BY <1>1, CommandInv, CheckTestRunInv, CheckApprovalInv, RunLvsInv, CommitInv,
     ConflictInv, AppendTestReceiptInv, AppendApprovalInv DEF Finish
<1>2. CASE OpenChange
  BY <1>2, OpenChangeInv
<1>3. CASE EditFlowElsewhere \/ JobsStep \/ Crash \/ UNCHANGED vars
  BY <1>3, EnvironmentInv
<1> QED
  BY <1>1, <1>2, <1>3 DEF Next

(* and therefore holds of the specification. *)
LEMMA Invariance == Spec => []IInv
  BY InvInit, InvStep, PTL DEF Spec

(***************************************************************************)
(* Theorems                                                                *)
(***************************************************************************)

(* Every reachable state is well typed: the stored change, the receipts,   *)
(* the requests in flight and the jobs.                                    *)
THEOREM TypeCorrect == Spec => []TypeOK
<1>1. IInv => TypeOK
  BY DEF IInv
<1> QED
  BY <1>1, Invariance, PTL

(* No planning command replaces the design a linked index job was asked    *)
(* to be judged against.                                                   *)
THEOREM LinkedJobsAreBound == Spec => []JobBoundToDesign
<1>1. IInv => JobBoundToDesign
  BY DEF IInv, Sound, JobBoundToDesign
<1> QED
  BY <1>1, Invariance, PTL

(* The only steps that write the change are the commit of a command that   *)
(* continues it, and its opening.                                          *)
LEMMA ChangeWriters ==
  ASSUME IInv, [Next]_vars
  PROVE  \/ change' = change /\ receipt' = receipt
         \/ \E c \in Clients : Commit(c) /\ Continues(request[c], change)
         \/ OpenChange /\ change.version = 0
<1>1. ASSUME NEW c \in Clients, Command(c)
      PROVE  change' = change /\ receipt' = receipt
  BY <1>1, CommandFrame DEF IInv
<1>2. ASSUME NEW c \in Clients,
             CheckTestRun(c) \/ CheckApproval(c) \/ Conflict(c)
               \/ EnqueueLinkedJob(c) \/ AppendTestReceipt(c)
               \/ AppendApproval(c) \/ RunLvs(c)
      PROVE  change' = change /\ receipt' = receipt
  BY <1>2 DEF RunLvs, CheckTestRun, BindTestRun, CheckApproval, Conflict, EnqueueLinkedJob,
              AppendTestReceipt, AppendApproval
<1>3. ASSUME NEW c \in Clients, Commit(c)
      PROVE  Continues(request[c], change)
  <2>1. request[c].after.version \in Nat /\ change.version \in Nat
    BY <1>3, RequestKinds
    DEF Commit, Install, IInv, CommandRequest, TypeOK, Change, Versions,
        InFlight
  <2>2. request[c].after.version = change.version + 1
    BY <1>3, <2>1 DEF Commit, Install
  <2> QED
    BY <1>3, <2>2 DEF Commit, Install, IInv, RequestInv, InFlight
<1>4. CASE EditFlowElsewhere \/ JobsStep \/ Crash \/ UNCHANGED vars
  BY <1>4 DEF EditFlowElsewhere, JobsStep, Crash, vars, changeVars
<1>5. OpenChange => change.version = 0
  BY DEF OpenChange, IInv, Sound
<1> QED
  BY <1>1, <1>2, <1>3, <1>4, <1>5 DEF Next, Finish

(* Once implementation has begun no step replaces the design, its flow     *)
(* reference or the verdict of its rules.                                  *)
THEOREM DesignStaysFrozen == Spec => DesignFrozen
<1> DEFINE Frozen == change.state \notin {"NONE", "OPEN", "PLANNED"} =>
                       /\ change'.design = change.design
                       /\ change'.flowRef = change.flowRef
                       /\ change'.drc = change.drc
<1>1. IInv /\ [Next]_vars => [Frozen]_change
  BY ChangeWriters DEF Commit, Install, Continues, OpenChange
<1> HIDE DEF Frozen
<1>2. Spec => [][Frozen]_change
  BY <1>1, Invariance, PTL DEF Spec
<1> QED
  BY <1>2 DEF DesignFrozen, Frozen

(* Every write of the change is the next version of it, with the receipt   *)
(* that tells its transition.                                              *)
THEOREM ReceiptsChain == Spec => ReceiptChain
<1> DEFINE Chained == change' # change =>
              /\ change'.version = change.version + 1
              /\ receipt' = [sequence |-> change'.version,
                             before |-> change.state,
                             after |-> change'.state]
<1>1. IInv /\ [Next]_vars => [Chained]_<<change, receipt>>
  <2> SUFFICES ASSUME IInv, [Next]_vars PROVE Chained
    OBVIOUS
  <2>1. ASSUME NEW c \in Clients, Commit(c), Continues(request[c], change)
        PROVE  Chained
    BY <2>1 DEF Commit, Install, Continues
  <2>2. CASE OpenChange /\ change.version = 0
    BY <2>2 DEF OpenChange, NoChange
  <2> QED
    BY <2>1, <2>2, ChangeWriters
<1> HIDE DEF Chained
<1>2. Spec => [][Chained]_<<change, receipt>>
  BY <1>1, Invariance, PTL DEF Spec
<1> QED
  BY <1>2 DEF ReceiptChain, Chained

(***************************************************************************)
(* Job outputs, test receipts and approvals                                *)
(***************************************************************************)

(* The promises that rest on state outside the change, of the stored *)
(* change and of every change a command computed.                          *)
JobOutput(chg) ==
  chg.observation = "recorded" =>
    /\ chg.indexJob.job \in Jobs
    /\ chg.indexJob.adopted
    /\ durable[chg.indexJob.job] = RowOf("done", chg.actual)
    /\ chg.actual \in 1..Len(lineage)
    /\ \/ chg.actual = chg.indexJob.input
       \/ /\ chg.actual = chg.indexJob.input + 1
          /\ lineage[chg.actual] = chg.indexJob.job

Tested(chg) ==
  chg.state \in {"VERIFIED", "CLOSED"} /\ "test" \in RequiredKinds =>
    [design |-> chg.design, actual |-> chg.actual, result |-> "PASS"] \in tests

Approved(chg) ==
  chg.state = "CLOSED" /\ ApprovalRequired =>
    \E i \in 1..Len(approvals) :
      /\ approvals[i].decision = "APPROVE"
      /\ approvals[i].version = chg.version - 1
      /\ approvals[i].design = chg.design

(* What LVS compared was published, after the actual revision or as it;    *)
(* once the change is verified it was the actual revision.                 *)
Compared(chg) ==
  /\ chg.state \in Matched => chg.lvs.actual \in chg.actual .. Len(lineage)
  /\ chg.state \in {"VERIFIED", "CLOSED"} => chg.lvs.actual = chg.actual

Proven(chg) ==
  JobOutput(chg) /\ Tested(chg) /\ Approved(chg) /\ Compared(chg)

ProvenInv ==
  /\ Proven(change)
  /\ \A c \in Clients :
       request[c].doing \in InFlight => Proven(request[c].after)

(* A row that names an output stays, so the types, the rows and the        *)
(* lineage are part of the invariant.                                      *)
FullInv == IInv /\ OwnRevisionInv /\ RowBehindWorker /\ ProvenInv

(* What the first step of a command does to the client's request. *)
IssuesProven(c) ==
  \E command \in InFlight, after \in Change :
    /\ Proven(after)
    /\ request' = [request EXCEPT ![c] =
         [doing |-> command, before |-> change.state, after |-> after]]

(* Computing a proven change issues it. *)
LEMMA ComputeIssuesProven ==
  ASSUME TypeOK, NEW c \in Clients, NEW command \in InFlight, NEW after,
         Compute(c, command, after),
         Installed(after) \in Change, Proven(Installed(after))
  PROVE  IssuesProven(c)
<1>1. request' = [request EXCEPT ![c] =
        [doing |-> command, before |-> change.state,
         after |-> Installed(after)]]
  BY DEF Compute, Installed
<1> QED
  BY <1>1 DEF IssuesProven

(* A change that does not count as matched, and whose observation is       *)
(* recorded only as it was before, needs no new proof.                     *)
LEMMA NothingNewToProve ==
  ASSUME Proven(change), NEW after,
         after.state \notin Matched,
         after.observation = "recorded" =>
           /\ change.observation = "recorded"
           /\ after.actual = change.actual
           /\ after.indexJob = change.indexJob
  PROVE  Proven(after)
  BY DEF Proven, JobOutput, Tested, Approved, Compared, Matched

(* Planning and the edits of the design. *)
LEMMA DesignCommandsProven ==
  ASSUME TypeOK, Proven(change), NEW c \in Clients,
         Plan(c) \/ MutateFlow(c) \/ MutateArchitecture(c)
  PROVE  IssuesProven(c)
<1>1. /\ change \in Change
      /\ change.state \in {"OPEN", "PLANNED"}
      /\ change.version + 1 \in Versions
  BY CanCallFacts DEF Plan, PlanFrom, MutateFlow, MutateArchitecture
<1>2. PICK command \in InFlight, state \in {change.state, "PLANNED"},
           drc \in {change.drc, "acceptable", "rejected"}, ref \in Flows :
        Compute(c, command,
          [change EXCEPT !.state = state, !.drc = drc, !.flowRef = ref,
                         !.design = change.version + 1])
  <2>1. CASE Plan(c)
    <3>1. PICK drc \in {"acceptable", "rejected"},
               ref \in {change.flowRef} \cup FlowContents :
            Compute(c, "plan",
              [change EXCEPT !.state = "PLANNED", !.drc = drc, !.flowRef = ref,
                             !.design = change.version + 1])
      BY <2>1 DEF Plan, PlanFrom
    <3>2. ref \in Flows /\ "plan" \in InFlight
      BY <1>1 DEF TypeOK, Change, Commands, InFlight, Flows
    <3> QED
      BY <3>1, <3>2
  <2>2. CASE MutateFlow(c)
    <3>1. PICK content \in FlowContents :
            Compute(c, "mutation",
              [change EXCEPT !.flowRef = content,
                             !.design = change.version + 1])
      BY <2>2 DEF MutateFlow
    <3>2. content \in Flows /\ "mutation" \in InFlight
      BY DEF Flows, Commands, InFlight
    <3>3. [change EXCEPT !.flowRef = content, !.design = change.version + 1]
            = [change EXCEPT !.state = change.state, !.drc = change.drc,
                             !.flowRef = content,
                             !.design = change.version + 1]
      BY <1>1 DEF Change
    <3> QED
      BY <3>1, <3>2, <3>3
  <2>3. CASE MutateArchitecture(c)
    <3>1. Compute(c, "mutation", [change EXCEPT !.design = change.version + 1])
      BY <2>3 DEF MutateArchitecture
    <3>2. change.flowRef \in Flows /\ "mutation" \in InFlight
      BY <1>1 DEF Change, Commands, InFlight
    <3>3. [change EXCEPT !.design = change.version + 1]
            = [change EXCEPT !.state = change.state, !.drc = change.drc,
                             !.flowRef = change.flowRef,
                             !.design = change.version + 1]
      BY <1>1 DEF Change
    <3> QED
      BY <3>1, <3>2, <3>3
  <2> QED
    BY <2>1, <2>2, <2>3
<1> DEFINE after == [change EXCEPT !.state = state, !.drc = drc,
                                   !.flowRef = ref,
                                   !.design = change.version + 1]
<1>3. Installed(after) \in Change
  <2>1. state \in States /\ drc \in {"none", "acceptable", "rejected"}
    BY <1>1 DEF States, Change
  <2> QED
    BY <1>1, <2>1 DEF Change, Installed
<1>4. /\ Installed(after).state \notin Matched
      /\ Installed(after).observation = change.observation
      /\ Installed(after).actual = change.actual
      /\ Installed(after).indexJob = change.indexJob
  BY <1>1 DEF Change, Installed, Matched
<1>5. Proven(Installed(after))
  BY <1>4, NothingNewToProve
<1>6. Compute(c, command, after)
  BY <1>2
<1> HIDE DEF after
<1> QED
  BY <1>3, <1>5, <1>6, ComputeIssuesProven

(* Commands that give up what was observed, and abandoning. *)
LEMMA ForgettingCommandsProven ==
  ASSUME TypeOK, Proven(change), NEW c \in Clients,
         \/ BeginImplementation(c) \/ RecordRepairApplication(c) \/ Abandon(c)
         \/ \E j \in Jobs : RequestReindex(c, j)
  PROVE  IssuesProven(c) \/ UNCHANGED request
<1>1. CASE BeginImplementation(c)
  <2> DEFINE after == [change EXCEPT
       !.state = "IMPLEMENTING", !.actual = change.base,
       !.observation = "previous", !.indexJob = NoIndexJob]
  <2>1. change \in Change /\ change.version + 1 \in Versions
    BY <1>1, CanCallFacts DEF BeginImplementation, BeginUnruled
  <2>2. Installed(after) \in Change
    <3>1. /\ "IMPLEMENTING" \in States /\ NoIndexJob \in IndexJob
          /\ change.base \in Revisions \cup {0}
      BY <2>1, LifecycleAssumption
      DEF States, NoIndexJob, IndexJob, Versions, Change
    <3> QED
      BY <2>1, <3>1 DEF Change, Installed
  <2>3. Proven(Installed(after))
    BY <2>1, NothingNewToProve DEF Change, Installed, Matched
  <2>4. Compute(c, "begin_implementation", after)
    BY <1>1 DEF BeginImplementation, BeginUnruled
  <2> HIDE DEF after
  <2> QED
    BY <2>2, <2>3, <2>4, ComputeIssuesProven DEF Commands, InFlight
<1>2. CASE RecordRepairApplication(c)
  <2> DEFINE after == [change EXCEPT !.observation = "previous"]
  <2>1. /\ change \in Change /\ change.version + 1 \in Versions
        /\ change.state = "IMPLEMENTING"
    BY <1>2, CanCallFacts DEF RecordRepairApplication
  <2>2. Installed(after) \in Change
    BY <2>1 DEF Change, Installed
  <2>3. Proven(Installed(after))
    BY <2>1, NothingNewToProve DEF Change, Installed, Matched
  <2>4. Compute(c, "record_repair_application", after)
    BY <1>2 DEF RecordRepairApplication
  <2> HIDE DEF after
  <2> QED
    BY <2>2, <2>3, <2>4, ComputeIssuesProven DEF Commands, InFlight
<1>3. CASE Abandon(c)
  <2> DEFINE after == [change EXCEPT !.state = "ABANDONED"]
  <2>1. change \in Change /\ change.version + 1 \in Versions
    BY <1>3, CanCallFacts DEF Abandon
  <2>2. Installed(after) \in Change
    <3>1. "ABANDONED" \in States
      BY DEF States, Terminal
    <3> QED
      BY <2>1, <3>1 DEF Change, Installed
  <2>3. Proven(Installed(after))
    BY <2>1, NothingNewToProve DEF Change, Installed, Matched
  <2>4. Compute(c, "abandon", after)
    BY <1>3 DEF Abandon
  <2> HIDE DEF after
  <2> QED
    BY <2>2, <2>3, <2>4, ComputeIssuesProven DEF Commands, InFlight
<1>4. CASE \E j \in Jobs : RequestReindex(c, j)
  <2>1. PICK j \in Jobs : RequestReindex(c, j)
    BY <1>4
  <2> DEFINE job == [job |-> j, design |-> change.design, input |-> Active,
                     adopted |-> FALSE]
             after == [change EXCEPT !.observation = "pending",
                                     !.indexJob = job]
  <2>2. /\ change \in Change /\ change.version + 1 \in Versions
        /\ change.state \in {"IMPLEMENTING"}
    BY <2>1, CanCallFacts DEF RequestReindex
  <2>3. Installed(after) \in Change
    <3>1. job \in IndexJob
      BY <2>2, ActiveType DEF IndexJob, Change, TypeOK
    <3> HIDE DEF job
    <3> QED
      BY <2>2, <3>1 DEF Change, Installed
  <2>4. Proven(Installed(after))
    <3> HIDE DEF job
    <3> QED
      BY <2>2, NothingNewToProve DEF Change, Installed, Matched
  <2>5. Compute(c, "request_reindex", after) \/ UNCHANGED request
    BY <2>1 DEF RequestReindex
  <2> HIDE DEF after
  <2> QED
    BY <2>3, <2>4, <2>5, ComputeIssuesProven DEF Commands, InFlight
<1> QED
  BY <1>1, <1>2, <1>3, <1>4

(* What is adopted is the output of the linked job. *)
LEMMA AdoptIndexJobProven ==
  ASSUME TypeOK, OwnRevisionInv, Proven(change), NEW c \in Clients,
         AdoptIndexJob(c)
  PROVE  IssuesProven(c)
<1> DEFINE j == change.indexJob.job
           revision == durable[j].result
           job == [change.indexJob EXCEPT !.adopted = TRUE]
           after == [change EXCEPT !.observation = "recorded",
                                   !.actual = revision,
                                   !.indexJob = job]
<1>1. /\ Compute(c, "adopt_index_job", after)
      /\ j # NoJob /\ durable[j].status = "done" /\ Adoptable(j, revision)
  BY DEF AdoptIndexJob, PreflightAllowsAdopt
<1>2. /\ change \in Change
      /\ change.state = "IMPLEMENTING"
      /\ change.version + 1 \in Versions
  BY CanCallFacts DEF AdoptIndexJob
<1>3. /\ j \in Jobs /\ durable[j] \in Row /\ job \in IndexJob
      /\ job.job = j /\ job.adopted /\ job.input = change.indexJob.input
  BY <1>1, <1>2 DEF Change, IndexJob, TypeOK, JobsTypeOK
<1>4. durable[j] = RowOf("done", revision) /\ revision \in Revisions \cup {0}
  BY <1>1, <1>3 DEF Row, RowOf
<1>5. revision \in 1..Len(lineage)
  BY <1>1, <1>3 DEF OwnRevisionInv, Names
<1>6. \/ revision = job.input
      \/ revision = job.input + 1 /\ lineage[revision] = j
  BY <1>1, <1>3 DEF Adoptable
<1> HIDE DEF revision, j
<1>7. Installed(after) \in Change
  <2> HIDE DEF job
  <2> QED
    BY <1>2, <1>3, <1>4 DEF Change, Installed
<1>8. /\ Installed(after).indexJob = job /\ Installed(after).actual = revision
      /\ Installed(after).state = "IMPLEMENTING"
  <2> HIDE DEF job
  <2> QED
    BY <1>2 DEF Change, Installed
<1> HIDE DEF job, after
<1>9. Proven(Installed(after))
  BY <1>3, <1>4, <1>5, <1>6, <1>8 DEF Proven, JobOutput, Tested, Approved, Compared, Matched
<1> QED
  BY <1>1, <1>7, <1>9, ComputeIssuesProven DEF Commands, InFlight

(* Evaluation matches nothing before LVS has run. *)
LEMMA EvaluateProven ==
  ASSUME TypeOK, Proven(change), NEW c \in Clients, EvaluateExpectedActual(c)
  PROVE  IssuesProven(c)
<1>1. PICK command \in {"lvs", "evaluate_expected_actual"},
           comparison \in Comparison, lvs \in LvsResult :
        Compute(c, command, [change EXCEPT !.expectedActual = comparison,
                                           !.lvs = lvs])
  BY EvaluationComputes
<1> DEFINE after == [change EXCEPT !.expectedActual = comparison, !.lvs = lvs]
<1>2. /\ change \in Change /\ change.version + 1 \in Versions
      /\ change.state \in {"IMPLEMENTING"}
  BY CanCallFacts DEF EvaluateExpectedActual
<1>3. Installed(after) \in Change
  BY <1>2 DEF Change, Installed
<1>4. Proven(Installed(after))
  BY <1>2, NothingNewToProve DEF Change, Installed, Matched
<1>5. Compute(c, command, after) /\ command \in InFlight
  BY <1>1 DEF InFlight, Commands
<1> HIDE DEF after
<1> QED
  BY <1>3, <1>4, <1>5, ComputeIssuesProven

(* What LVS compared is the current revision, and the actual one is        *)
(* published.                                                              *)
LEMMA RunLvsProven ==
  ASSUME TypeOK, NEW c \in Clients, RunLvs(c), InOrder(request[c]),
         Proven(request[c].after)
  PROVE  \E after \in Change :
           /\ Proven(after)
           /\ request' = [request EXCEPT ![c] =
                [doing |-> "evaluate_expected_actual",
                 before |-> request[c].before, after |-> after]]
<1>1. PICK state \in {"EVIDENCE_MATCHED", "IMPLEMENTING"}, lvs \in LvsResult :
        /\ request' = [request EXCEPT ![c] =
             [doing |-> "evaluate_expected_actual",
              before |-> request[c].before,
              after |-> [request[c].after EXCEPT !.state = state, !.lvs = lvs]]]
        /\ lvs.actual = Active
  BY LvsRuns
<1>2. PICK old : old = request[c].after
  OBVIOUS
<1>3. /\ old \in Change /\ Proven(old) /\ old.observation = "recorded"
  BY <1>2, LvsRuns DEF CommandRequest, InOrder, Compares, Comparable
<1> DEFINE after == [old EXCEPT !.state = state, !.lvs = lvs]
<1>4. /\ after.state = state /\ after.lvs = lvs
      /\ after.actual = old.actual /\ after.observation = old.observation
      /\ after.indexJob = old.indexJob
  BY <1>3 DEF Change
<1>5. after \in Change
  <2>1. state \in States
    BY DEF States
  <2> QED
    BY <1>3, <2>1 DEF Change
<1> HIDE DEF after
<1>6. lvs.actual \in after.actual .. Len(lineage)
  <2>1. old.actual \in 1..Len(lineage) /\ Len(lineage) \in Nat
    BY <1>3 DEF Proven, JobOutput, TypeOK, JobsTypeOK
  <2> QED
    BY <1>1, <1>4, <2>1 DEF Active
<1>7. Proven(after)
  BY <1>3, <1>4, <1>6 DEF Proven, JobOutput, Tested, Approved, Compared
<1> QED
  BY <1>1, <1>2, <1>5, <1>7 DEF after

(* Verification finds the receipt it requires, and closing the approval.   *)
LEMMA VerdictsProven ==
  ASSUME TypeOK, Proven(change), NEW c \in Clients, Verify(c) \/ Close(c)
  PROVE  IssuesProven(c)
<1>1. CASE Verify(c)
  <2> DEFINE after == [change EXCEPT !.state = "VERIFIED",
                                     !.verification = (CriteriaKinds # {})]
  <2>1. /\ change \in Change /\ change.version + 1 \in Versions
        /\ change.state \in {"EVIDENCE_MATCHED"}
    BY <1>1, CanCallFacts DEF Verify, VerifyWhatMatched
  <2>2. Installed(after) \in Change
    <3>1. "VERIFIED" \in States /\ (CriteriaKinds # {}) \in BOOLEAN
      BY DEF States
    <3> QED
      BY <2>1, <3>1 DEF Change, Installed
  <2>3. /\ Installed(after).state = "VERIFIED"
        /\ Installed(after).design = change.design
        /\ Installed(after).actual = change.actual
        /\ Installed(after).observation = change.observation
        /\ Installed(after).indexJob = change.indexJob
        /\ Installed(after).lvs = change.lvs
    BY <2>1 DEF Change, Installed
  <2>4. "test" \in RequiredKinds =>
          [design |-> change.design, actual |-> change.actual,
           result |-> "PASS"] \in tests
    <3> SUFFICES ASSUME "test" \in RequiredKinds
                 PROVE  [design |-> change.design, actual |-> change.actual,
                         result |-> "PASS"] \in tests
      OBVIOUS
    <3>1. PICK t \in tests : Proves(t, change)
      BY <1>1 DEF Verify, VerifyWhatMatched
    <3>2. t = [design |-> change.design, actual |-> change.actual,
               result |-> "PASS"]
      BY <3>1 DEF Proves, TypeOK, TestReceipt
    <3> QED
      BY <3>1, <3>2
  <2>5. Compute(c, "verify", after)
    BY <1>1 DEF Verify, VerifyWhatMatched
  <2> HIDE DEF after
  <2>6. change.lvs.actual = change.actual
    <3>1. change.lvs.actual \in change.actual .. Len(lineage)
      BY <2>1 DEF Proven, Compared, Matched
    <3>2. change.actual = Len(lineage) /\ Len(lineage) \in Nat
      BY <1>1 DEF Verify, ActualIsCurrent, Active, TypeOK, JobsTypeOK
    <3> QED
      BY <3>1, <3>2
  <2>7. change.lvs.actual \in change.actual .. Len(lineage)
    BY <2>1 DEF Proven, Compared, Matched
  <2>8. Proven(Installed(after))
    BY <2>3, <2>4, <2>6, <2>7 DEF Proven, JobOutput, Tested, Approved, Compared, Matched
  <2> QED
    BY <2>2, <2>5, <2>8, ComputeIssuesProven DEF Commands, InFlight
<1>2. CASE Close(c)
  <2> DEFINE after == [change EXCEPT !.state = "CLOSED"]
  <2>1. /\ change \in Change /\ change.version + 1 \in Versions
        /\ change.state = "VERIFIED"
    BY <1>2, CanCallFacts DEF Close
  <2>2. Installed(after) \in Change
    <3>1. "CLOSED" \in States
      BY DEF States, Terminal
    <3> QED
      BY <2>1, <3>1 DEF Change, Installed
  <2>3. /\ Installed(after).state = "CLOSED"
        /\ Installed(after).version - 1 = change.version
        /\ Installed(after).design = change.design
        /\ Installed(after).actual = change.actual
        /\ Installed(after).observation = change.observation
        /\ Installed(after).indexJob = change.indexJob
        /\ Installed(after).lvs = change.lvs
    BY <2>1 DEF Change, Versions, Installed
  <2>4. ApprovalRequired =>
          \E i \in 1..Len(approvals) :
            /\ approvals[i].decision = "APPROVE"
            /\ approvals[i].version = change.version
            /\ approvals[i].design = change.design
    BY <1>2 DEF Close, ApprovedAt, IsLatestApproval
  <2>5. Compute(c, "close", after)
    BY <1>2 DEF Close
  <2> HIDE DEF after
  <2>8. Proven(Installed(after))
    BY <2>1, <2>3, <2>4 DEF Proven, JobOutput, Tested, Approved, Compared, Matched
  <2> QED
    BY <2>2, <2>5, <2>8, ComputeIssuesProven DEF Commands, InFlight
<1> QED
  BY <1>1, <1>2

(* Every command issues a change that is proven. *)
LEMMA CommandIssuesProven ==
  ASSUME TypeOK, OwnRevisionInv, Proven(change), NEW c \in Clients, Command(c)
  PROVE  IssuesProven(c) \/ UNCHANGED request
  BY DesignCommandsProven, ForgettingCommandsProven, AdoptIndexJobProven,
     EvaluateProven, VerdictsProven
  DEF Command

(* Published revisions stay. *)
LEMMA LineageGrows ==
  ASSUME JobsTypeOK, [JobsNext]_jobVars, NEW r \in 1..Len(lineage)
  PROVE  r \in 1..Len(lineage') /\ lineage'[r] = lineage[r]
<1>1. \/ lineage' = lineage
      \/ \E author \in Jobs \cup {Ext} : lineage' = Append(lineage, author)
  BY DEF JobsNext, jobVars, CreateJob, Enqueue, ThreadStep, StartJob,
         PublishRevision, PublishIn, CutOff, RunnerFails, EpilogueFails,
         FinishJob, Report, ReportFailure, PublishElsewhere, LoseProcess
<1> QED
  BY <1>1 DEF JobsTypeOK

(* So the lineage never gets shorter. *)
LEMMA LineageLengthens ==
  ASSUME JobsTypeOK, [JobsNext]_jobVars
  PROVE  Len(lineage) \leq Len(lineage')
<1>1. Len(lineage) \in Nat /\ Len(lineage') \in Nat
  BY JobsTypeStep DEF JobsTypeOK
<1>2. Len(lineage) # 0 => Len(lineage) \in 1..Len(lineage')
  BY <1>1, LineageGrows
<1> QED
  BY <1>1, <1>2

(* A row with a verdict is final. *)
LEMMA DoneRowsStay ==
  ASSUME JobsTypeOK, RowBehindWorker, [JobsNext]_jobVars, NEW j \in Jobs,
         durable[j].status = "done"
  PROVE  durable'[j] = durable[j]
<1>1. MovesForward(j)
  BY RowsStep
<1>2. durable'[j].status \in RowStatus
  BY JobsTypeStep DEF JobsTypeOK, Row
<1>3. ~(Rank(durable[j].status) < Rank(durable'[j].status))
  BY <1>2 DEF Rank, RowStatus
<1> QED
  BY <1>1, <1>3 DEF MovesForward

(* An inserted element displaces the others and removes none. *)
LEMMA InsertKeeps ==
  ASSUME NEW S, NEW seq \in Seq(S), NEW x \in S, NEW k \in 0..Len(seq),
         NEW i \in 1..Len(seq)
  PROVE  LET new == SubSeq(seq, 1, k) \o <<x>> \o SubSeq(seq, k + 1, Len(seq))
         IN \E l \in 1..Len(new) : new[l] = seq[i]
<1> DEFINE front == SubSeq(seq, 1, k)
           back == SubSeq(seq, k + 1, Len(seq))
           head == front \o <<x>>
           new == head \o back
<1>1. /\ front \in Seq(S) /\ Len(front) = k
      /\ \A l \in 1..k : front[l] = seq[l]
  OBVIOUS
<1>2. /\ back \in Seq(S) /\ Len(back) = Len(seq) - k
      /\ \A l \in 1 .. Len(seq) - k : back[l] = seq[k + l]
  OBVIOUS
<1> HIDE DEF front, back
<1>3. /\ head \in Seq(S) /\ Len(head) = k + 1
      /\ \A l \in 1..k : head[l] = front[l]
  BY <1>1
<1> HIDE DEF head
<1>4. /\ Len(new) = Len(head) + Len(back)
      /\ \A l \in 1 .. Len(head) + Len(back) :
           new[l] = IF l \leq Len(head) THEN head[l] ELSE back[l - Len(head)]
  BY <1>2, <1>3, ConcatProperties, Zenon
<1> HIDE DEF new
<1>5. Len(new) = Len(seq) + 1
  BY <1>2, <1>3, <1>4
<1>6. ASSUME i \leq k
      PROVE  \E l \in 1..Len(new) : new[l] = seq[i]
  <2>1. i \in 1..k /\ i \in 1 .. Len(head) + Len(back) /\ i \leq Len(head)
    BY <1>2, <1>3, <1>6
  <2>2. new[i] = seq[i]
    BY <1>1, <1>3, <1>4, <2>1
  <2> QED
    BY <1>5, <2>2
<1>7. ASSUME i > k
      PROVE  \E l \in 1..Len(new) : new[l] = seq[i]
  <2>1. PICK l \in 1 .. Len(seq) - k : i = k + l
    <3>1. i - k \in 1 .. Len(seq) - k /\ i = k + (i - k)
      BY <1>7
    <3> QED
      BY <3>1
  <2>2. /\ Len(head) + l \in 1 .. Len(head) + Len(back)
        /\ ~(Len(head) + l \leq Len(head)) /\ Len(head) + l - Len(head) = l
    BY <1>2, <1>3
  <2>3. new[Len(head) + l] = back[l]
    BY <1>4, <2>2
  <2>4. back[l] = seq[i]
    BY <1>2, <2>1
  <2>5. Len(head) + l \in 1..Len(new)
    BY <1>2, <1>3, <1>5
  <2> QED
    BY <2>3, <2>4, <2>5
<1>8. \E l \in 1..Len(new) : new[l] = seq[i]
  BY <1>6, <1>7
<1> QED
  BY <1>8 DEF new, head, front, back

(* Receipts are only added. *)
LEMMA ReceiptsStay ==
  ASSUME TypeOK, [Next]_vars
  PROVE  /\ tests \subseteq tests'
         /\ \A i \in 1..Len(approvals) :
              \E l \in 1..Len(approvals') : approvals'[l] = approvals[i]
<1>1. CASE \E c \in Clients : AppendTestReceipt(c)
  BY <1>1 DEF AppendTestReceipt
<1>2. CASE \E c \in Clients : AppendApproval(c)
  <2>1. PICK c \in Clients : AppendApproval(c)
    BY <1>2
  <2>2. request[c].receipt \in Approval
    BY <2>1, RequestKinds DEF AppendApproval
  <2>3. PICK k \in 0..Len(approvals) :
          approvals' = SubSeq(approvals, 1, k) \o <<request[c].receipt>>
                         \o SubSeq(approvals, k + 1, Len(approvals))
    BY <2>1 DEF AppendApproval
  <2>4. ASSUME NEW i \in 1..Len(approvals)
        PROVE  \E l \in 1..Len(approvals') : approvals'[l] = approvals[i]
    <3>1. approvals \in Seq(Approval)
      BY DEF TypeOK
    <3> QED
      BY <2>2, <2>3, <3>1, InsertKeeps
  <2> QED
    BY <2>1, <2>4 DEF AppendApproval
<1>3. ASSUME UNCHANGED <<tests, approvals>>
      PROVE  /\ tests \subseteq tests'
             /\ \A i \in 1..Len(approvals) :
                  \E l \in 1..Len(approvals') : approvals'[l] = approvals[i]
  BY <1>3
<1>4. \/ \E c \in Clients : AppendTestReceipt(c)
      \/ \E c \in Clients : AppendApproval(c)
      \/ UNCHANGED <<tests, approvals>>
  <2>1. ASSUME NEW c \in Clients, Command(c)
        PROVE  UNCHANGED <<tests, approvals>>
    BY <2>1, CommandFrame
  <2>2. ASSUME NEW c \in Clients,
               CheckTestRun(c) \/ CheckApproval(c) \/ Commit(c) \/ Conflict(c)
                 \/ EnqueueLinkedJob(c) \/ RunLvs(c)
        PROVE  UNCHANGED <<tests, approvals>>
    BY <2>2 DEF RunLvs, CheckTestRun, BindTestRun, CheckApproval, Commit, Install,
                Conflict, EnqueueLinkedJob
  <2>3. ASSUME OpenChange \/ EditFlowElsewhere \/ JobsStep \/ Crash
                 \/ UNCHANGED vars
        PROVE  UNCHANGED <<tests, approvals>>
    BY <2>3 DEF OpenChange, EditFlowElsewhere, JobsStep, Crash, vars, changeVars
  <2> QED
    BY <2>1, <2>2, <2>3 DEF Next, Finish
<1> QED
  BY <1>1, <1>2, <1>3, <1>4

(* What a change rests on outlives every step. *)
LEMMA ProvenStays ==
  ASSUME TypeOK, RowBehindWorker, [Next]_vars, NEW chg, Proven(chg)
  PROVE  Proven(chg)'
<1>1. JobsTypeOK /\ [JobsNext]_jobVars
  BY JobsSimulated DEF TypeOK
<1>2. JobOutput(chg)'
  <2> SUFFICES ASSUME chg.observation = "recorded"
               PROVE  JobOutput(chg)'
    BY DEF JobOutput
  <2> DEFINE job == chg.indexJob
  <2>1. /\ job.job \in Jobs /\ job.adopted
        /\ durable[job.job] = RowOf("done", chg.actual)
        /\ chg.actual \in 1..Len(lineage)
        /\ \/ chg.actual = job.input
           \/ chg.actual = job.input + 1 /\ lineage[chg.actual] = job.job
    BY DEF Proven, JobOutput
  <2>2. durable'[job.job] = durable[job.job]
    BY <1>1, <2>1, DoneRowsStay DEF RowOf
  <2>3. chg.actual \in 1..Len(lineage') /\ lineage'[chg.actual] = lineage[chg.actual]
    BY <1>1, <2>1, LineageGrows
  <2> QED
    BY <2>1, <2>2, <2>3 DEF JobOutput, RowOf
<1>3. Tested(chg)'
  BY ReceiptsStay DEF Proven, Tested
<1>4. Approved(chg)'
  BY ReceiptsStay DEF Proven, Approved
<1>5. Compared(chg)'
  <2> SUFFICES ASSUME chg.lvs.actual \in chg.actual .. Len(lineage)
               PROVE  chg.lvs.actual \in chg.actual .. Len(lineage')
    BY DEF Proven, Compared, Matched
  <2>1. Len(lineage) \leq Len(lineage')
    BY <1>1, LineageLengthens
  <2>2. Len(lineage) \in Nat /\ Len(lineage') \in Nat
    BY <1>1, JobsTypeStep DEF JobsTypeOK
  <2> QED
    BY <2>1, <2>2
<1> QED
  BY <1>2, <1>3, <1>4, <1>5 DEF Proven

(* A step that leaves the change alone, and issues no unproven command. *)
LEMMA ProvenKept ==
  ASSUME TypeOK, RowBehindWorker, ProvenInv, [Next]_vars, change' = change,
         \A c \in Clients :
           \/ request'[c] = request[c]
           \/ request'[c].doing \notin InFlight
           \/ Proven(request'[c].after)
  PROVE  ProvenInv'
<1>1. Proven(change)'
  <2>1. PICK chg : chg = change
    OBVIOUS
  <2>2. Proven(chg)'
    BY <2>1, ProvenStays DEF ProvenInv
  <2> QED
    BY <2>1, <2>2 DEF Proven, JobOutput, Tested, Approved, Compared, Matched
<1>2. ASSUME NEW c \in Clients, request'[c].doing \in InFlight
      PROVE  Proven(request[c].after)'
  <2>1. PICK chg : chg = request'[c].after
    OBVIOUS
  <2>2. Proven(chg)
    BY <1>2, <2>1 DEF ProvenInv
  <2>3. Proven(chg)'
    BY <2>2, ProvenStays
  <2> QED
    BY <2>1, <2>3 DEF Proven, JobOutput, Tested, Approved, Compared, Matched
<1> QED
  BY <1>1, <1>2 DEF ProvenInv

(* Every request is idle, of another kind, or as it was, after the steps   *)
(* that neither issue a command nor run a comparison.                      *)
LEMMA OtherRequests ==
  ASSUME TypeOK, [Next]_vars, \A c \in Clients : ~Command(c) /\ ~RunLvs(c),
         NEW d \in Clients
  PROVE  request'[d] = request[d] \/ request'[d].doing \notin InFlight
<1>1. ASSUME NEW c \in Clients,
             \/ CheckTestRun(c) \/ CheckApproval(c) \/ Conflict(c)
             \/ EnqueueLinkedJob(c) \/ AppendTestReceipt(c)
             \/ AppendApproval(c) \/ Commit(c)
      PROVE  request'[d] = request[d] \/ request'[d].doing \notin InFlight
  <2>1. CASE d # c
    BY <1>1, <2>1
    DEF CheckTestRun, BindTestRun, CheckApproval, Conflict, EnqueueLinkedJob,
        AppendTestReceipt, AppendApproval, Commit, Install, TypeOK
  <2>2. CASE d = c
    <3>1. CASE CheckTestRun(c)
      <4>1. request'[c].doing = "test"
        BY <3>1 DEF CheckTestRun, BindTestRun, TypeOK
      <4> QED
        BY <2>2, <4>1 DEF Commands, InFlight
    <3>2. CASE CheckApproval(c)
      <4>1. request'[c].doing = "approval"
        BY <3>2 DEF CheckApproval, TypeOK
      <4> QED
        BY <2>2, <4>1 DEF Commands, InFlight
    <3>3. CASE Commit(c)
      <4>1. request'[c].doing \in {"enqueue", "idle"}
        <5>1. CASE request[c].doing = "request_reindex"
          BY <3>3, <5>1 DEF Commit, Install, TypeOK
        <5>2. CASE request[c].doing # "request_reindex"
          BY <3>3, <5>2 DEF Commit, Install, TypeOK, Idle
        <5> QED
          BY <5>1, <5>2
      <4> QED
        BY <2>2, <4>1 DEF Commands, InFlight
    <3>4. CASE \/ Conflict(c) \/ EnqueueLinkedJob(c) \/ AppendTestReceipt(c)
               \/ AppendApproval(c)
      <4>1. request'[c] = Idle
        BY <3>4 DEF Conflict, EnqueueLinkedJob, AppendTestReceipt,
                    AppendApproval, TypeOK
      <4> QED
        BY <2>2, <4>1, IdleRequest
    <3> QED
      BY <1>1, <3>1, <3>2, <3>3, <3>4
  <2> QED
    BY <2>1, <2>2
<1>2. CASE OpenChange \/ EditFlowElsewhere \/ JobsStep \/ Crash \/ UNCHANGED vars
  BY <1>2, IdleRequest
  DEF OpenChange, EditFlowElsewhere, JobsStep, Crash, vars, changeVars
<1> QED
  BY <1>1, <1>2 DEF Next, Finish

(* Issuing a command, *)
LEMMA CommandProvenInv ==
  ASSUME FullInv, [Next]_vars, NEW c \in Clients, Command(c)
  PROVE  ProvenInv'
<1>1. /\ TypeOK /\ OwnRevisionInv /\ RowBehindWorker /\ ProvenInv
      /\ Proven(change)
  BY DEF FullInv, IInv, ProvenInv
<1>2. change' = change
  BY <1>1, CommandFrame
<1>3. ASSUME NEW d \in Clients
      PROVE  request'[d] = request[d] \/ Proven(request'[d].after)
  <2>1. CASE UNCHANGED request
    BY <2>1
  <2>2. CASE IssuesProven(c)
    <3>1. PICK command \in InFlight, after \in Change :
            /\ Proven(after)
            /\ request' = [request EXCEPT ![c] =
                 [doing |-> command, before |-> change.state, after |-> after]]
      BY <2>2 DEF IssuesProven
    <3>2. CASE d = c
      <4>1. request'[d].after = after
        BY <1>1, <3>1, <3>2 DEF TypeOK
      <4> QED
        BY <3>1, <4>1
    <3>3. CASE d # c
      BY <1>1, <3>1, <3>3 DEF TypeOK
    <3> QED
      BY <3>2, <3>3
  <2> QED
    BY <1>1, <2>1, <2>2, CommandIssuesProven
<1> QED
  BY <1>1, <1>2, <1>3, ProvenKept

(* running the comparison,                                                 *)
LEMMA RunLvsProvenInv ==
  ASSUME FullInv, [Next]_vars, NEW c \in Clients, RunLvs(c)
  PROVE  ProvenInv'
<1>1. TypeOK /\ RowBehindWorker /\ ProvenInv /\ RequestInv
  BY DEF FullInv, IInv
<1>2. request[c].doing \in InFlight /\ change' = change
  BY DEF RunLvs, InFlight
<1>3. InOrder(request[c]) /\ Proven(request[c].after)
  BY <1>1, <1>2 DEF RequestInv, ProvenInv
<1>4. PICK after \in Change :
        /\ Proven(after)
        /\ request' = [request EXCEPT ![c] =
             [doing |-> "evaluate_expected_actual",
              before |-> request[c].before, after |-> after]]
  BY <1>1, <1>3, RunLvsProven
<1>5. ASSUME NEW d \in Clients
      PROVE  request'[d] = request[d] \/ Proven(request'[d].after)
  <2>1. CASE d = c
    <3>1. request'[d].after = after
      BY <1>1, <1>4, <2>1 DEF TypeOK
    <3> QED
      BY <1>4, <3>1
  <2>2. CASE d # c
    BY <1>1, <1>4, <2>2 DEF TypeOK
  <2> QED
    BY <2>1, <2>2
<1> QED
  BY <1>1, <1>2, <1>5, ProvenKept

(* installing it, and opening the change write what was proven before; the *)
(* other steps leave the change alone.                                     *)
LEMMA OtherProvenInv ==
  ASSUME FullInv, [Next]_vars, \A c \in Clients : ~Command(c) /\ ~RunLvs(c)
  PROVE  ProvenInv'
<1>1. IInv /\ TypeOK /\ RowBehindWorker /\ ProvenInv
  BY DEF FullInv, IInv
<1>2. \A d \in Clients :
        request'[d] = request[d] \/ request'[d].doing \notin InFlight
  BY <1>1, OtherRequests
<1>3. CASE change' = change
  BY <1>1, <1>2, <1>3, ProvenKept
<1>4. ASSUME NEW chg, change' = chg, Proven(chg)
      PROVE  ProvenInv'
  <2>1. Proven(chg)'
    BY <1>1, <1>4, ProvenStays
  <2>2. Proven(change)'
    BY <1>4, <2>1 DEF Proven, JobOutput, Tested, Approved, Compared, Matched
  <2>3. ASSUME NEW d \in Clients, request'[d].doing \in InFlight
        PROVE  Proven(request[d].after)'
    <3>1. PICK after : after = request'[d].after
      OBVIOUS
    <3>2. Proven(after)
      BY <1>1, <1>2, <2>3, <3>1 DEF ProvenInv
    <3>3. Proven(after)'
      BY <1>1, <3>2, ProvenStays
    <3> QED
      BY <3>1, <3>3 DEF Proven, JobOutput, Tested, Approved, Compared, Matched
  <2> QED
    BY <2>2, <2>3 DEF ProvenInv
<1>5. CASE \E c \in Clients : Commit(c)
  <2>1. PICK c \in Clients : Commit(c)
    BY <1>5
  <2>2. change' = request[c].after /\ Proven(request[c].after)
    BY <1>1, <2>1 DEF Commit, Install, ProvenInv, InFlight
  <2>3. PICK chg : chg = request[c].after
    OBVIOUS
  <2> QED
    BY <1>4, <2>2, <2>3
<1>6. CASE OpenChange
  <2>1. change'.state = "OPEN" /\ change'.observation = "none"
    BY <1>6 DEF OpenChange, NoChange
  <2>2. PICK chg : chg = change'
    OBVIOUS
  <2>3. Proven(chg)
    BY <2>1, <2>2 DEF Proven, JobOutput, Tested, Approved, Compared, Matched
  <2> QED
    BY <1>4, <2>2, <2>3
<1> QED
  BY <1>1, <1>3, <1>5, <1>6, ChangeWriters

(* FullInv holds initially, *)
LEMMA FullInit == Init => FullInv
<1> SUFFICES ASSUME Init PROVE FullInv
  OBVIOUS
<1>1. OwnRevisionInv /\ RowBehindWorker
  BY OwnRevisionInit, RowBehindInit DEF Init
<1>2. ProvenInv
  <2>1. Proven(change)
    BY DEF Init, NoChange, Proven, JobOutput, Tested, Approved, Compared, Matched
  <2>2. \A c \in Clients : request[c].doing \notin InFlight
    BY DEF Init, Idle, Commands, InFlight
  <2> QED
    BY <2>1, <2>2 DEF ProvenInv
<1> QED
  BY <1>1, <1>2, InvInit DEF FullInv

(* every step preserves it, *)
LEMMA FullStep == FullInv /\ [Next]_vars => FullInv'
<1> SUFFICES ASSUME FullInv, [Next]_vars PROVE FullInv'
  OBVIOUS
<1>1. TypeOK /\ JobsTypeOK /\ [JobsNext]_jobVars
  BY JobsSimulated DEF FullInv, IInv, TypeOK
<1>2. OwnRevisionInv' /\ RowBehindWorker'
  BY <1>1, OwnRevisionStep, RowsStep DEF FullInv
<1>3. ProvenInv'
  BY CommandProvenInv, RunLvsProvenInv, OtherProvenInv
<1> QED
  BY <1>2, <1>3, InvStep DEF FullInv

(* and so it holds of the specification. *)
LEMMA FullInvariance == Spec => []FullInv
  BY FullInit, FullStep, PTL DEF Spec

(* A matched, verified or closed change rests on evidence about the design *)
(* revision, the flow content and the actual revision it carries, however  *)
(* commands interleave with jobs and publications.  What LVS compared when *)
(* it read the repository again was no older than the actual revision, and *)
(* was that revision once the change is verified.                          *)
THEOREM EvidenceChainHolds == Spec => []EvidenceChain
<1>1. FullInv => EvidenceChain
  <2> SUFFICES ASSUME FullInv, change.state \in Matched PROVE EvidenceChain
    BY DEF EvidenceChain
  <2>1. Sound(change) /\ Compared(change) /\ JobOutput(change)
    BY DEF FullInv, IInv, ProvenInv, Proven
  <2>2. change.lvs.actual \geq change.actual
    <3>1. Len(lineage) \in Nat /\ change.observation = "recorded"
      BY <2>1 DEF FullInv, IInv, TypeOK, JobsTypeOK, Sound
    <3>2. change.actual \in Nat
      BY <2>1, <3>1 DEF JobOutput
    <3> QED
      BY <2>1, <3>1, <3>2 DEF Compared
  <2> QED
    BY <2>1, <2>2 DEF Sound, Compared, EvidenceChain, Begun, Matched
<1> QED
  BY <1>1, FullInvariance, PTL

(* What a change records as its actual revision is the output of the job   *)
(* linked to it, in every interleaving of commands, jobs and crashes.      *)
THEOREM ObservationsAreJobOutputs == Spec => []ObservationIsJobOutput
<1>1. FullInv => ObservationIsJobOutput
  BY DEF FullInv, ProvenInv, Proven, JobOutput, ObservationIsJobOutput
<1> QED
  BY <1>1, FullInvariance, PTL

(* A change that must be tested is verified or closed only with a passing  *)
(* receipt for its design revision and its actual revision.                *)
THEOREM VerdictsAreTested == Spec => []VerifiedByTest
<1>1. FullInv => VerifiedByTest
  BY DEF FullInv, ProvenInv, Proven, Tested, VerifiedByTest
<1> QED
  BY <1>1, FullInvariance, PTL

(* A change that must be approved is closed only by an approval of the     *)
(* very version and design revision that was closed.                       *)
THEOREM ClosuresAreApproved == Spec => []ClosedUnderApproval
<1>1. FullInv => ClosedUnderApproval
  BY DEF FullInv, ProvenInv, Proven, Approved, ClosedUnderApproval
<1> QED
  BY <1>1, FullInvariance, PTL

-----------------------------------------------------------------------------
(***************************************************************************)
(* DesignLifecycle implements ChangeContract: every step of concurrent     *)
(* clients, jobs and crashes is one indivisible step of the contract, or   *)
(* none, for any number of clients, jobs, revisions and versions.          *)
(***************************************************************************)

(***************************************************************************)
(* What a command would do to the change it read                           *)
(***************************************************************************)

SameDesign(chg, after) ==
  after.design = chg.design /\ after.drc = chg.drc

SameEvidence(chg, after) ==
  after.observation = chg.observation /\ after.actual = chg.actual

Redesigned(chg, after) ==
  /\ chg.state \in {"OPEN", "PLANNED"}
  /\ after.state \in {chg.state, "PLANNED"}
  /\ after.design = chg.version + 1
  /\ after.drc # chg.drc => after.state = "PLANNED"
  /\ SameEvidence(chg, after)

Begins(chg, after) ==
  /\ chg.state = "PLANNED" /\ after.state = "IMPLEMENTING"
  /\ chg.drc = "acceptable"
  /\ after.observation # "recorded" /\ after.actual = chg.base
  /\ SameDesign(chg, after)

Implements(chg, after) ==
  /\ chg.state = "IMPLEMENTING" /\ after.state = "IMPLEMENTING"
  /\ after.observation = "recorded" => chg.observation = "recorded"
  /\ after.actual = chg.actual
  /\ SameDesign(chg, after)

Adopts(chg, after) ==
  /\ chg.state = "IMPLEMENTING" /\ after.state = "IMPLEMENTING"
  /\ after.observation = "recorded"
  /\ SameDesign(chg, after)

Concludes(chg, after) ==
  /\ \/ /\ chg.state = "IMPLEMENTING" /\ after.state = "EVIDENCE_MATCHED"
        /\ chg.observation = "recorded"
     \/ chg.state = "EVIDENCE_MATCHED" /\ after.state = "VERIFIED"
     \/ chg.state = "VERIFIED" /\ after.state = "CLOSED"
     \/ chg.state \notin Terminal \cup {"NONE"} /\ after.state = "ABANDONED"
  /\ SameDesign(chg, after) /\ SameEvidence(chg, after)

Legal(chg, after) ==
  /\ after.base = chg.base /\ after.version = chg.version + 1
  /\ \/ Redesigned(chg, after) \/ Begins(chg, after)
     \/ Implements(chg, after) \/ Adopts(chg, after) \/ Concludes(chg, after)

(* A command would make a legal step; a comparison under way goes on with  *)
(* what was observed.                                                      *)
Lawful(r, chg) ==
  Legal(chg, r.after) /\ (r.doing = "lvs" => Implements(chg, r.after))

(* A change starts from a published revision, and from nothing else; a     *)
(* command whose version still matches would make a legal step.            *)
LegalInv ==
  /\ change.state = "NONE" =>
       change.drc = "none" /\ change.observation = "none" /\ change.actual = 0
  /\ change.state # "NONE" => change.base \in 1..Len(lineage)
  /\ \A c \in Clients :
       request[c].doing \in InFlight
         /\ request[c].after.version = change.version + 1
           => Lawful(request[c], change)

ImplInv == FullInv /\ LegalInv

(* What the first step of a command does to the client's request. *)
IssuesLegal(c) ==
  \E r \in CommandRequest :
    Lawful(r, change) /\ request' = [request EXCEPT ![c] = r]

(* Computing a legal change issues it. *)
LEMMA ComputeIssuesLegal ==
  ASSUME TypeOK, NEW c \in Clients, NEW command \in InFlight, NEW after \in Change,
         Compute(c, command, after), change.version + 1 \in Versions,
         after.base = change.base,
         LET new == Installed(after)
         IN /\ \/ Redesigned(change, new) \/ Begins(change, new)
               \/ Implements(change, new) \/ Adopts(change, new)
               \/ Concludes(change, new)
            /\ command = "lvs" => Implements(change, new)
  PROVE  IssuesLegal(c)
<1> DEFINE r == [doing |-> command, before |-> change.state,
                 after |-> Installed(after)]
<1>1. Installed(after) \in Change /\ Installed(after).base = change.base
      /\ Installed(after).version = change.version + 1
  BY DEF Installed, Change
<1>2. request' = [request EXCEPT ![c] = r]
  BY DEF Compute, Installed
<1>3. r \in CommandRequest
  BY <1>1 DEF CommandRequest, TypeOK, Change
<1>4. Lawful(r, change)
  BY <1>1 DEF Lawful, Legal
<1> HIDE DEF r
<1> QED BY <1>2, <1>3, <1>4 DEF IssuesLegal

(* Planning and the edits of the design. *)
LEMMA DesignCommandsLegal ==
  ASSUME TypeOK, NEW c \in Clients,
         Plan(c) \/ MutateFlow(c) \/ MutateArchitecture(c)
  PROVE  IssuesLegal(c)
<1>1. /\ change \in Change
      /\ change.state \in {"OPEN", "PLANNED"}
      /\ change.version + 1 \in Versions
  BY CanCallFacts DEF Plan, PlanFrom, MutateFlow, MutateArchitecture
<1>2. ASSUME NEW state \in {change.state, "PLANNED"}, NEW command \in Commands,
             NEW drc \in {change.drc, "acceptable", "rejected"},
             NEW ref \in Flows, drc # change.drc => state = "PLANNED",
             Compute(c, command,
               [change EXCEPT !.state = state, !.drc = drc, !.flowRef = ref,
                              !.design = change.version + 1])
      PROVE  IssuesLegal(c)
  <2> DEFINE after == [change EXCEPT !.state = state, !.drc = drc,
                                     !.flowRef = ref,
                                     !.design = change.version + 1]
  <2>1. state \in States /\ drc \in {"none", "acceptable", "rejected"}
    BY <1>1 DEF Change, States
  <2>2. after \in Change /\ after.base = change.base
    BY <1>1, <2>1 DEF Change
  <2>3. Redesigned(change, Installed(after))
    BY <1>1, <1>2 DEF Redesigned, SameEvidence, Installed, Change
  <2>4. command \in InFlight /\ command # "lvs"
    BY DEF InFlight, Commands
  <2> HIDE DEF after
  <2> QED BY <1>1, <1>2, <2>2, <2>3, <2>4, ComputeIssuesLegal DEF after
<1>3. CASE Plan(c)
  <2>1. PICK drc \in {"acceptable", "rejected"},
             ref \in {change.flowRef} \cup FlowContents :
          Compute(c, "plan",
            [change EXCEPT !.state = "PLANNED", !.drc = drc, !.flowRef = ref,
                           !.design = change.version + 1])
    BY <1>3 DEF Plan, PlanFrom
  <2>2. ref \in Flows /\ "plan" \in Commands
    BY <1>1 DEF TypeOK, Change, Commands, Flows
  <2> QED BY <1>2, <2>1, <2>2
<1>4. CASE MutateFlow(c)
  <2>1. PICK content \in FlowContents :
          Compute(c, "mutation",
            [change EXCEPT !.flowRef = content, !.design = change.version + 1])
    BY <1>4 DEF MutateFlow
  <2>2. content \in Flows /\ "mutation" \in Commands
    BY DEF Flows, Commands, InFlight
  <2>3. [change EXCEPT !.flowRef = content, !.design = change.version + 1]
          = [change EXCEPT !.state = change.state, !.drc = change.drc,
                           !.flowRef = content, !.design = change.version + 1]
    BY <1>1 DEF Change
  <2> QED BY <1>2, <2>1, <2>2, <2>3
<1>5. CASE MutateArchitecture(c)
  <2>1. Compute(c, "mutation", [change EXCEPT !.design = change.version + 1])
    BY <1>5 DEF MutateArchitecture
  <2>2. change.flowRef \in Flows /\ "mutation" \in Commands
    BY <1>1 DEF Change, Commands, InFlight
  <2>3. [change EXCEPT !.design = change.version + 1]
          = [change EXCEPT !.state = change.state, !.drc = change.drc,
                           !.flowRef = change.flowRef,
                           !.design = change.version + 1]
    BY <1>1 DEF Change
  <2> QED BY <1>2, <2>1, <2>2, <2>3
<1> QED BY <1>3, <1>4, <1>5

(* The commands of the implementation. *)
LEMMA ImplementationCommandsLegal ==
  ASSUME TypeOK, NEW c \in Clients,
         \/ BeginImplementation(c) \/ RecordRepairApplication(c)
         \/ (\E j \in Jobs : RequestReindex(c, j)) \/ AdoptIndexJob(c)
  PROVE  IssuesLegal(c) \/ UNCHANGED request
<1>1. /\ change \in Change /\ change.version + 1 \in Versions
  BY CanCallFacts DEF BeginImplementation, BeginUnruled,
     RecordRepairApplication, RequestReindex, AdoptIndexJob
<1>2. CASE BeginImplementation(c)
  <2> DEFINE after == [change EXCEPT !.state = "IMPLEMENTING",
                                     !.actual = change.base,
                                     !.observation = "previous",
                                     !.indexJob = NoIndexJob]
  <2>1. /\ Compute(c, "begin_implementation", after)
        /\ change.state = "PLANNED" /\ change.drc = "acceptable"
    BY <1>2 DEF BeginImplementation, BeginUnruled, CanCall
  <2>2. NoIndexJob \in IndexJob /\ "IMPLEMENTING" \in States
    BY LifecycleAssumption DEF NoIndexJob, IndexJob, States, Versions
  <2>3. after \in Change /\ after.base = change.base
    BY <1>1, <2>2 DEF Change
  <2>4. Begins(change, Installed(after))
    BY <1>1, <2>1 DEF Begins, SameDesign, Installed, Change
  <2>5. "begin_implementation" \in InFlight
    BY DEF Commands, InFlight
  <2> HIDE DEF after
  <2> QED BY <1>1, <2>1, <2>3, <2>4, <2>5, ComputeIssuesLegal
<1>3. CASE RecordRepairApplication(c)
  <2> DEFINE after == [change EXCEPT !.observation = "previous"]
  <2>1. /\ Compute(c, "record_repair_application", after)
        /\ change.state = "IMPLEMENTING"
    BY <1>3 DEF RecordRepairApplication, CanCall
  <2>2. after \in Change /\ after.base = change.base
    BY <1>1 DEF Change
  <2>3. Implements(change, Installed(after))
    BY <1>1, <2>1 DEF Implements, SameDesign, Installed, Change
  <2>4. "record_repair_application" \in InFlight
    BY DEF Commands, InFlight
  <2> HIDE DEF after
  <2> QED BY <1>1, <2>1, <2>2, <2>3, <2>4, ComputeIssuesLegal
<1>4. ASSUME NEW j \in Jobs, RequestReindex(c, j)
      PROVE  IssuesLegal(c) \/ UNCHANGED request
  <2> DEFINE job == [job |-> j, design |-> change.design, input |-> Active,
                     adopted |-> FALSE]
             after == [change EXCEPT !.observation = "pending",
                                     !.indexJob = job]
  <2>1. /\ Compute(c, "request_reindex", after) \/ UNCHANGED request
        /\ change.state = "IMPLEMENTING"
    BY <1>4 DEF RequestReindex, CanCall
  <2>2. job \in IndexJob
    BY <1>1, ActiveType DEF IndexJob, Change, TypeOK
  <2> HIDE DEF job
  <2>3. after \in Change /\ after.base = change.base
    BY <1>1, <2>2 DEF Change
  <2>4. Implements(change, Installed(after))
    BY <1>1, <2>1 DEF Implements, SameDesign, Installed, Change
  <2>5. "request_reindex" \in InFlight
    BY DEF Commands, InFlight
  <2> HIDE DEF after
  <2> QED BY <1>1, <2>1, <2>3, <2>4, <2>5, ComputeIssuesLegal
<1>5. CASE AdoptIndexJob(c)
  <2> DEFINE result == durable[change.indexJob.job].result
             after == [change EXCEPT !.observation = "recorded",
                                     !.actual = result,
                                     !.indexJob.adopted = TRUE]
  <2>1. /\ Compute(c, "adopt_index_job", after)
        /\ change.state = "IMPLEMENTING" /\ result = Active
    BY <1>5 DEF AdoptIndexJob, CanCall, Adoptable
  <2>2. result \in Revisions \cup {0}
    BY <2>1, ActiveType DEF TypeOK
  <2> HIDE DEF result
  <2>3. [change.indexJob EXCEPT !.adopted = TRUE] \in IndexJob
    BY <1>1 DEF Change, IndexJob
  <2>4. after \in Change /\ after.base = change.base
    BY <1>1, <2>2, <2>3 DEF Change
  <2>5. Adopts(change, Installed(after))
    BY <1>1, <2>1 DEF Adopts, SameDesign, Installed, Change
  <2>6. "adopt_index_job" \in InFlight
    BY DEF Commands, InFlight
  <2> HIDE DEF after
  <2> QED BY <1>1, <2>1, <2>4, <2>5, <2>6, ComputeIssuesLegal
<1> QED BY <1>2, <1>3, <1>4, <1>5

(* The commands that judge it. *)
LEMMA VerdictsLegal ==
  ASSUME TypeOK, NEW c \in Clients,
         EvaluateExpectedActual(c) \/ Verify(c) \/ Close(c) \/ Abandon(c)
  PROVE  IssuesLegal(c)
<1>1. /\ change \in Change /\ change.version + 1 \in Versions
  BY CanCallFacts
  DEF EvaluateExpectedActual, Verify, VerifyWhatMatched, Close, Abandon
<1>2. CASE EvaluateExpectedActual(c)
  <2>1. PICK command \in {"lvs", "evaluate_expected_actual"},
             comparison \in Comparison, lvs \in LvsResult :
          Compute(c, command, [change EXCEPT !.expectedActual = comparison,
                                             !.lvs = lvs])
    BY <1>2, EvaluationComputes
  <2> DEFINE after == [change EXCEPT !.expectedActual = comparison, !.lvs = lvs]
  <2>2. change.state = "IMPLEMENTING" /\ change.observation = "recorded"
    BY <1>2 DEF EvaluateExpectedActual, CanCall
  <2>3. after \in Change /\ after.base = change.base
    BY <1>1 DEF Change
  <2>4. Implements(change, Installed(after))
    BY <1>1, <2>2 DEF Implements, SameDesign, Installed, Change
  <2>5. Compute(c, command, after) /\ command \in InFlight
    BY <2>1 DEF Commands, InFlight
  <2> HIDE DEF after
  <2> QED BY <1>1, <2>3, <2>4, <2>5, ComputeIssuesLegal
<1>3. ASSUME NEW command \in Commands, NEW state \in States, NEW b \in BOOLEAN,
             \/ change.state = "EVIDENCE_MATCHED" /\ state = "VERIFIED"
             \/ change.state = "VERIFIED" /\ state = "CLOSED"
             \/ change.state \notin Terminal \cup {"NONE"} /\ state = "ABANDONED",
             Compute(c, command,
                     [change EXCEPT !.state = state, !.verification = b])
      PROVE  IssuesLegal(c)
  <2> DEFINE after == [change EXCEPT !.state = state, !.verification = b]
  <2>1. after \in Change /\ after.base = change.base
    BY <1>1 DEF Change
  <2>2. Concludes(change, Installed(after))
    BY <1>1, <1>3 DEF Concludes, SameDesign, SameEvidence, Installed, Change
  <2>3. Compute(c, command, after)
    BY <1>3
  <2>4. command \in InFlight /\ command # "lvs"
    BY DEF InFlight, Commands
  <2> HIDE DEF after
  <2> QED BY <1>1, <2>1, <2>2, <2>3, <2>4, ComputeIssuesLegal
<1>4. CASE Verify(c)
  <2>1. /\ Compute(c, "verify", [change EXCEPT !.state = "VERIFIED",
                                   !.verification = (CriteriaKinds # {})])
        /\ change.state = "EVIDENCE_MATCHED"
    BY <1>4 DEF Verify, VerifyWhatMatched, CanCall
  <2>2. "verify" \in Commands /\ "VERIFIED" \in States
        /\ (CriteriaKinds # {}) \in BOOLEAN
    BY DEF Commands, InFlight, States
  <2> QED BY <1>3, <2>1, <2>2
<1>5. ASSUME NEW command \in Commands, NEW state \in States,
             \/ change.state = "VERIFIED" /\ state = "CLOSED"
             \/ change.state \notin Terminal \cup {"NONE"} /\ state = "ABANDONED",
             Compute(c, command, [change EXCEPT !.state = state])
      PROVE  IssuesLegal(c)
  <2>1. [change EXCEPT !.state = state]
          = [change EXCEPT !.state = state, !.verification = change.verification]
    BY <1>1 DEF Change
  <2>2. change.verification \in BOOLEAN
    BY <1>1 DEF Change
  <2> QED BY <1>3, <1>5, <2>1, <2>2
<1>6. CASE Close(c)
  <2>1. /\ Compute(c, "close", [change EXCEPT !.state = "CLOSED"])
        /\ change.state = "VERIFIED"
    BY <1>6 DEF Close, CanCall
  <2>2. "close" \in Commands /\ "CLOSED" \in States
    BY DEF Commands, InFlight, States, Terminal
  <2> QED BY <1>5, <2>1, <2>2
<1>7. CASE Abandon(c)
  <2>1. /\ Compute(c, "abandon", [change EXCEPT !.state = "ABANDONED"])
        /\ change.state \notin Terminal \cup {"NONE"}
    BY <1>7 DEF Abandon, CanCall
  <2>2. "abandon" \in Commands /\ "ABANDONED" \in States
    BY DEF Commands, InFlight, States, Terminal
  <2> QED BY <1>5, <2>1, <2>2
<1> QED BY <1>2, <1>4, <1>6, <1>7

(***************************************************************************)
(* The invariant                                                           *)
(***************************************************************************)

(* A command that is installed makes a legal step. *)
LEMMA CommitIsLegal ==
  ASSUME IInv, LegalInv, NEW c \in Clients, Commit(c)
  PROVE  /\ Legal(change, change')
         /\ UNCHANGED <<jobVars, tests, approvals>>
<1>1. request[c] \in CommandRequest /\ change \in Change
  BY RequestKinds DEF IInv, TypeOK, Commit, Install, InFlight
<1>2. request[c].after.version \in Nat /\ change.version \in Nat
  BY <1>1 DEF CommandRequest, Change, Versions
<1>3. request[c].after.version = change.version + 1
  BY <1>2 DEF Commit
<1>4. request[c].doing \in InFlight
  BY DEF Commit, Install, InFlight
<1> QED BY <1>3, <1>4 DEF LegalInv, Lawful, Commit, Install

(* Running a comparison leaves its command legal: it concludes, or goes on *)
(* implementing.                                                           *)
LEMMA RunLvsLegal ==
  ASSUME ImplInv, NEW c \in Clients, RunLvs(c),
         Implements(change, request[c].after),
         request[c].after.base = change.base,
         request[c].after.version = change.version + 1
  PROVE  Lawful(request'[c], change)
<1>1. PICK state \in {"EVIDENCE_MATCHED", "IMPLEMENTING"}, lvs \in LvsResult :
        /\ request' = [request EXCEPT ![c] =
             [doing |-> "evaluate_expected_actual",
              before |-> request[c].before,
              after |-> [request[c].after EXCEPT !.state = state, !.lvs = lvs]]]
        /\ state = "EVIDENCE_MATCHED" =>
             /\ request[c].after.expectedActual.outcome = "MATCHED"
             /\ lvs.status = "MATCH"
        /\ lvs.digested = request[c].after.lvs.digested
        /\ lvs.actual = Active
  <2>1. TypeOK
    BY DEF ImplInv, FullInv, IInv
  <2> QED BY <2>1, LvsRuns
<1>2. PICK old : old = request[c].after
  OBVIOUS
<1>3. /\ old \in Change /\ Comparable(old) /\ request[c].doing \in InFlight
  BY <1>2, LvsRuns
  DEF ImplInv, FullInv, IInv, RequestInv, CommandRequest, InFlight, InOrder,
      Compares
<1> DEFINE after == [old EXCEPT !.state = state, !.lvs = lvs]
<1>4. /\ after.state = state /\ after.base = old.base
      /\ after.version = old.version /\ after.design = old.design
      /\ after.drc = old.drc /\ after.actual = old.actual
      /\ after.observation = old.observation
  BY <1>3 DEF Change
<1>5. /\ request'[c].after = after
      /\ request'[c].doing = "evaluate_expected_actual"
  BY <1>1, <1>2 DEF ImplInv, FullInv, IInv, TypeOK
<1> HIDE DEF after
<1>6. Implements(change, after) \/ Concludes(change, after)
  BY <1>2, <1>3, <1>4
  DEF Implements, Concludes, SameDesign, SameEvidence, Comparable
<1>7. Legal(change, after)
  BY <1>2, <1>4, <1>6 DEF Legal
<1> QED BY <1>5, <1>7 DEF Lawful

(* LegalInv is inductive, given FullInv. *)
LEMMA LegalStep ==
  ASSUME ImplInv, [Next]_vars
  PROVE  LegalInv'
<1>1. TypeOK /\ IInv /\ LegalInv /\ change \in Change
  BY DEF ImplInv, FullInv, IInv, TypeOK
<1>2. \A r \in 1..Len(lineage) : r \in 1..Len(lineage')
  BY <1>1, JobsSimulated, LineageGrows DEF TypeOK
<1>3. CASE change' = change
  <2>1. ASSUME NEW d \in Clients, request'[d].doing \in InFlight,
               request'[d].after.version = change.version + 1
        PROVE  Lawful(request'[d], change)
    <3>1. CASE request'[d] = request[d]
      BY <1>1, <2>1, <3>1 DEF LegalInv
    <3>2. CASE request'[d] # request[d]
      <4>1. PICK c \in Clients : Command(c) \/ RunLvs(c)
        BY <1>1, <2>1, <3>2, OtherRequests
      <4>2. CASE Command(c)
        <5>1. IssuesLegal(c)
          BY <1>1, <3>2, <4>2, DesignCommandsLegal, ImplementationCommandsLegal,
             VerdictsLegal DEF Command
        <5>2. PICK r \in CommandRequest :
                Lawful(r, change) /\ request' = [request EXCEPT ![c] = r]
          BY <5>1 DEF IssuesLegal
        <5> QED BY <1>1, <3>2, <5>2 DEF TypeOK
      <4>3. CASE RunLvs(c)
        <5>1. PICK r \in CommandRequest :
                /\ request' = [request EXCEPT ![c] = r]
                /\ r.after.version = request[c].after.version
          <6>1. InOrder(request[c])
            BY <1>1, <4>3 DEF IInv, RequestInv, RunLvs, InFlight
          <6> QED BY <1>1, <4>3, <6>1, RunLvsIssues
        <5>2. d = c /\ request'[d] = r
          BY <1>1, <3>2, <5>1 DEF TypeOK
        <5>3. Lawful(request[c], change) /\ request[c].doing = "lvs"
          BY <1>1, <2>1, <4>3, <5>1, <5>2 DEF LegalInv, RunLvs, InFlight
        <5>4. Lawful(request'[c], change)
          BY <4>3, <5>3, RunLvsLegal DEF Lawful, Legal
        <5> QED BY <5>2, <5>4
      <4> QED BY <4>1, <4>2, <4>3
    <3> QED BY <3>1, <3>2
  <2>2. PICK chg : chg = change
    OBVIOUS
  <2>3. \A d \in Clients :
          request'[d].doing \in InFlight
            /\ request'[d].after.version = chg.version + 1
              => Lawful(request'[d], chg)
    BY <2>1, <2>2
  <2> QED BY <1>1, <1>2, <1>3, <2>2, <2>3
          DEF LegalInv, Lawful, Legal, Redesigned, Begins, Implements, Adopts,
              Concludes, SameDesign, SameEvidence
<1>4. CASE change' # change
  <2>1. \A c \in Clients : ~Command(c) /\ ~RunLvs(c)
    BY <1>1, <1>4, CommandFrame DEF RunLvs
  <2>2. /\ change'.version = change.version + 1 /\ change'.state # "NONE"
        /\ change'.base \in 1..Len(lineage')
    <3>1. CASE \E c \in Clients : Commit(c)
      <4>1. Legal(change, change')
        BY <1>1, <3>1, CommitIsLegal
      <4>2. change.state # "NONE" /\ change'.state # "NONE"
        BY <4>1 DEF Legal, Redesigned, Begins, Implements, Adopts, Concludes,
                    Terminal
      <4> QED BY <1>1, <1>2, <4>1, <4>2 DEF Legal, LegalInv
    <3>2. CASE OpenChange /\ change.version = 0
      <4>1. PICK base \in 1..Active, ref \in Flows :
              change' = [NoChange EXCEPT !.state = "OPEN", !.version = 1,
                                         !.base = base, !.design = 1,
                                         !.flowRef = ref]
        BY <3>2 DEF OpenChange
      <4>2. /\ change'.version = 1 /\ change'.state = "OPEN"
            /\ change'.base = base
        BY <4>1 DEF NoChange
      <4> QED BY <1>2, <3>2, <4>1, <4>2 DEF Active
    <3> QED BY <1>1, <1>4, <3>1, <3>2, ChangeWriters
  <2>3. ASSUME NEW d \in Clients, request'[d].doing \in InFlight
        PROVE  request'[d].after.version # change'.version + 1
    <3>1. request'[d] = request[d] /\ request[d] \in CommandRequest
      BY <1>1, <2>1, <2>3, OtherRequests, RequestKinds
    <3>2. request[d].after.version \leq change.version + 1
      BY <1>1, <2>3, <3>1 DEF IInv, RequestInv
    <3>3. request[d].after.version \in Nat /\ change.version \in Nat
      BY <1>1, <3>1 DEF CommandRequest, Change, Versions
    <3> QED BY <2>2, <3>1, <3>2, <3>3
  <2> QED BY <2>2, <2>3 DEF LegalInv
<1> QED BY <1>3, <1>4

(***************************************************************************)
(* The refinement                                                          *)
(***************************************************************************)

(* An installed command is an action of the contract. *)
LEMMA LegalStepsRefine ==
  ASSUME ImplInv, ImplInv', NEW c \in Clients, Commit(c)
  PROVE  Contract!ContractNext
<1>1. /\ Legal(change, change')
      /\ UNCHANGED <<lineage, tests, approvals>>
  BY CommitIsLegal DEF ImplInv, FullInv, jobVars
<1>2. UNCHANGED Contract!world
  BY <1>1 DEF Contract!world, Passed, Approving
<1>3. change'.version = change.version + 1
  BY <1>1 DEF Legal
<1>4. Proven(change)' /\ LegalInv
  BY DEF ImplInv, FullInv, ProvenInv
<1>5. CASE Redesigned(change, change')
  <2>1. (change.drc = "acceptable")' # (change.drc = "acceptable")
          => change'.state = "PLANNED"
    BY <1>5 DEF Redesigned
  <2>2. Contract!Redesign
    BY <1>2, <1>3, <1>5, <2>1
       DEF Redesigned, SameEvidence, Contract!Redesign, Contract!Advance
  <2> QED BY <2>2 DEF Contract!ContractNext
<1>6. CASE Begins(change, change')
  <2>1. change.base \in 1..Len(lineage)
    BY <1>4, <1>6 DEF LegalInv, Begins
  <2>2. Contract!Begin
    BY <1>2, <1>3, <1>6, <2>1
       DEF Begins, SameDesign, Contract!Begin, Contract!Advance
  <2> QED BY <2>2 DEF Contract!ContractNext
<1>7. CASE Implements(change, change')
  <2>1. Contract!Implement
    BY <1>2, <1>3, <1>7
       DEF Implements, SameDesign, Contract!Implement, Contract!Advance
  <2> QED BY <2>1 DEF Contract!ContractNext
<1>8. CASE Adopts(change, change')
  <2>1. change'.actual \in 1..Len(lineage)
    BY <1>1, <1>4, <1>8 DEF Adopts, Proven, JobOutput
  <2>2. Contract!Adopt
    BY <1>2, <1>3, <1>8, <2>1
       DEF Adopts, SameDesign, Contract!Adopt, Contract!Advance
  <2> QED BY <2>2 DEF Contract!ContractNext
<1>9. CASE Concludes(change, change')
  <2>1. CASE change'.state = "EVIDENCE_MATCHED"
    <3>1. Contract!Match
      BY <1>2, <1>3, <1>9, <2>1
         DEF Concludes, SameDesign, SameEvidence, Contract!Match, Contract!Advance
    <3> QED BY <3>1 DEF Contract!ContractNext
  <2>2. CASE change'.state = "VERIFIED"
    <3>1. "test" \in RequiredKinds =>
            <<change.design, change.actual>>
              \in {<<t.design, t.actual>> : t \in Passed}
      <4> SUFFICES ASSUME "test" \in RequiredKinds
                   PROVE  \E t \in Passed : <<change.design, change.actual>>
                                              = <<t.design, t.actual>>
        OBVIOUS
      <4> DEFINE t == [design |-> change.design, actual |-> change.actual,
                       result |-> "PASS"]
      <4>1. t \in Passed
        BY <1>1, <1>4, <1>9, <2>2
           DEF Proven, Tested, Passed, Concludes, SameDesign, SameEvidence
      <4> QED BY <4>1
    <3>2. Contract!Prove
      BY <1>2, <1>3, <1>9, <2>2, <3>1
         DEF Concludes, SameDesign, SameEvidence, Contract!Prove, Contract!Advance
    <3> QED BY <3>2 DEF Contract!ContractNext
  <2>3. CASE change'.state = "CLOSED"
    <3>1. ApprovalRequired =>
            <<change.version, change.design>>
              \in {<<approvals[i].version, approvals[i].design>> : i \in Approving}
      <4> SUFFICES ASSUME ApprovalRequired
                   PROVE  \E i \in Approving : <<change.version, change.design>>
                            = <<approvals[i].version, approvals[i].design>>
        OBVIOUS
      <4>1. PICK i \in 1..Len(approvals) :
              /\ approvals[i].decision = "APPROVE"
              /\ approvals[i].version = change'.version - 1
              /\ approvals[i].design = change'.design
        BY <1>1, <1>4, <2>3 DEF Proven, Approved
      <4>2. change.version \in Nat /\ approvals \in Seq(Approval)
        BY DEF ImplInv, FullInv, IInv, TypeOK, Change, Versions
      <4>3. i \in Approving
        BY <4>1, <4>2 DEF Approving
      <4> QED BY <1>3, <1>9, <4>1, <4>2, <4>3 DEF Concludes, SameDesign
    <3>2. Contract!Settle
      BY <1>2, <1>3, <1>9, <2>3, <3>1
         DEF Concludes, SameDesign, SameEvidence, Contract!Settle, Contract!Advance,
             Terminal
    <3> QED BY <3>2 DEF Contract!ContractNext
  <2>4. CASE change'.state = "ABANDONED"
    <3>1. change.state \in {"OPEN", "PLANNED", "IMPLEMENTING",
                            "EVIDENCE_MATCHED", "VERIFIED"}
      BY <1>9, <2>4
         DEF Concludes, ImplInv, FullInv, IInv, TypeOK, Change, States
    <3>2. Contract!GiveUp
      BY <1>2, <1>3, <1>9, <2>4, <3>1
         DEF Concludes, SameDesign, SameEvidence, Contract!GiveUp, Contract!Advance
    <3> QED BY <3>2 DEF Contract!ContractNext
  <2> QED BY <1>9, <2>1, <2>2, <2>3, <2>4 DEF Concludes
<1> QED BY <1>1, <1>5, <1>6, <1>7, <1>8, <1>9 DEF Legal

(* Opening a change is one too. *)
LEMMA OpenRefines ==
  ASSUME ImplInv, OpenChange, change.version = 0
  PROVE  Contract!ContractNext
<1>1. PICK base \in 1..Active, ref \in Flows :
        change' = [NoChange EXCEPT !.state = "OPEN", !.version = 1,
                                   !.base = base, !.design = 1,
                                   !.flowRef = ref]
  BY DEF OpenChange
<1>2. /\ change'.version = 1 /\ change'.state = "OPEN" /\ change'.design = 1
      /\ change'.drc = "none" /\ change'.observation = "none"
      /\ change'.actual = 0
  BY <1>1 DEF NoChange
<1>3. /\ change.state = "NONE" /\ change.drc = "none"
      /\ change.observation = "none" /\ change.actual = 0
  BY DEF OpenChange, ImplInv, LegalInv
<1>4. UNCHANGED <<lineage, tests, approvals>>
  BY DEF OpenChange, jobVars
<1>5. UNCHANGED Contract!world
  BY <1>4 DEF Contract!world, Passed, Approving
<1>6. Contract!Open
  BY <1>2, <1>3, <1>5 DEF Contract!Open
<1> QED BY <1>6 DEF Contract!ContractNext

(* Every other step at most adds revisions, tests and approvals. *)
LEMMA OtherStepsRefine ==
  ASSUME ImplInv, [Next]_vars, change' = change
  PROVE  Contract!ContractNext
<1>1. TypeOK /\ JobsTypeOK
  BY DEF ImplInv, FullInv, IInv, TypeOK
<1>2. Len(lineage') \geq Len(lineage)
  <2>1. Len(lineage) \leq Len(lineage')
    BY <1>1, JobsSimulated, LineageLengthens
  <2>2. Len(lineage) \in Nat /\ Len(lineage') \in Nat
    BY <1>1, JobsSimulated, JobsTypeStep DEF JobsTypeOK
  <2> QED BY <2>1, <2>2
<1>3. Passed \subseteq Passed'
  BY <1>1, ReceiptsStay DEF Passed
<1>4. ASSUME NEW i \in Approving
      PROVE  \E l \in Approving' : approvals'[l] = approvals[i]
  <2>1. approvals \in Seq(Approval) /\ i \in 1..Len(approvals)
    BY <1>1 DEF TypeOK, Approving
  <2>2. PICK l \in 1..Len(approvals') : approvals'[l] = approvals[i]
    BY <1>1, <2>1, ReceiptsStay
  <2>3. approvals' \in Seq(Approval)
    BY InvStep DEF ImplInv, FullInv, IInv, TypeOK
  <2> QED BY <2>2, <2>3 DEF Approving
<1>5. {<<t.design, t.actual>> : t \in Passed}
        \subseteq {<<t.design, t.actual>> : t \in Passed'}
  BY <1>3
<1>6. {<<approvals[i].version, approvals[i].design>> : i \in Approving}
        \subseteq {<<approvals'[i].version, approvals'[i].design>> : i \in Approving'}
  BY <1>4
<1>7. Contract!Accumulate
  BY <1>2, <1>5, <1>6 DEF Contract!Accumulate
<1> QED BY <1>7 DEF Contract!ContractNext

(* However the two steps of concurrent commands interleave, the change     *)
(* behaves as if every command were indivisible.                           *)
THEOREM LifecycleImplementsContract == Spec => ImplementsContract
<1>1. Init => Contract!ContractInit /\ LegalInv
  <2> SUFFICES ASSUME Init PROVE Contract!ContractInit /\ LegalInv
    OBVIOUS
  <2>1. /\ change = NoChange /\ tests = {} /\ approvals = <<>> /\ lineage = <<>>
        /\ \A c \in Clients : request[c].doing \notin InFlight
    BY DEF Init, JobsInit, Idle, Commands, InFlight
  <2>2. Passed = {} /\ Approving = {}
    BY <2>1 DEF Passed, Approving
  <2> QED BY <2>1, <2>2 DEF Contract!ContractInit, LegalInv, NoChange
<1>2. ImplInv /\ [Next]_vars => ImplInv'
  BY FullStep, LegalStep DEF ImplInv
<1>3. ImplInv /\ ImplInv' /\ [Next]_vars => Contract!ContractNext
  BY ChangeWriters, LegalStepsRefine, OpenRefines, OtherStepsRefine
     DEF ImplInv, FullInv
<1>4. Init => ImplInv
  BY <1>1, FullInit DEF ImplInv
<1> QED BY <1>1, <1>2, <1>3, <1>4, PTL
        DEF Spec, ImplementsContract, Contract!ContractSpec
=============================================================================
