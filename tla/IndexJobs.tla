----------------------------- MODULE IndexJobs -----------------------------
(***************************************************************************)
(* Index jobs and the revisions they publish.                              *)
(*                                                                         *)
(* server/jobs.py keeps one registry of jobs in the server process and     *)
(* mirrors every status change to a durable row.  The mirror is best       *)
(* effort: a failed write is swallowed (JobManager._emit).  JobManager.get *)
(* answers from the durable row only, so that row is what the design       *)
(* lifecycle trusts.  One daemon thread runs each job; the thread dies     *)
(* with the process and nothing resumes it.                                *)
(*                                                                         *)
(* An index run is one store transaction (Indexer.index): it publishes a   *)
(* revision whose parent is the revision that was current, or finds        *)
(* nothing to do and returns the current revision, or rolls back.  The     *)
(* published revisions of one repository therefore form a list, the        *)
(* lineage: revision r is the r-th published one and r - 1 is its parent.  *)
(***************************************************************************)
EXTENDS Naturals, Sequences

CONSTANTS
  Jobs,           \* identities of the jobs one run may create
  Ext,            \* the author of a revision published by none of Jobs
  MaxRevisions,   \* bound on the length of the lineage
  PersistMayFail  \* whether the durable mirror may lose a write

ASSUME JobsAssumption ==
  /\ Ext \notin Jobs
  /\ MaxRevisions \in Nat \ {0}
  /\ PersistMayFail \in BOOLEAN

VARIABLES
  lineage,        \* lineage[r] is the job that published revision r, or Ext
  durable,        \* durable[j] is the row of job j in the jobs table
  worker          \* worker[j] is the in-process life of job j

jobVars == <<lineage, durable, worker>>

Revisions == 1..MaxRevisions

RowStatus == {"absent", "pending", "running", "done", "failed"}
Row == [status : RowStatus, result : Revisions \cup {0}]
(* Slip: the row calls a failure by another name than its readers do. *)
RowOfMisnamed(status, result) ==
  [status |-> IF status = "failed" THEN "error" ELSE status, result |-> result]

RowOf(status, result) == [status |-> status, result |-> result]

Phases == {"absent", "pending", "queued", "running", "indexed", "failing",
           "done", "failed", "lost"}
Worker == [at : Phases, result : Revisions \cup {0}]

(* The revision DesignLifecycleService._active_revision and                *)
(* Database.current_snapshot name; 0 when nothing is published.            *)
Active == Len(lineage)

JobsTypeOK ==
  /\ lineage \in Seq(Jobs \cup {Ext})
  /\ Len(lineage) \leq MaxRevisions
  /\ durable \in [Jobs -> Row]
  /\ worker \in [Jobs -> Worker]

JobsInit ==
  /\ lineage = <<>>
  /\ durable = [j \in Jobs |-> RowOf("absent", 0)]
  /\ worker = [j \in Jobs |-> [at |-> "absent", result |-> 0]]

(***************************************************************************)
(* Actions                                                                 *)
(***************************************************************************)

(* _emit: write the row of job j, or lose the write. *)
Persist(j, row) ==
  \/ durable' = [durable EXCEPT ![j] = row]
  \/ PersistMayFail /\ UNCHANGED durable

GoTo(j, phase) == worker' = [worker EXCEPT ![j].at = phase]

(* Slip: a job lost with its process is submitted again. *)
CreateJobAgain(j) ==
  /\ worker[j].at \in {"absent", "lost"}
  /\ GoTo(j, "pending")
  /\ Persist(j, RowOf("pending", 0))
  /\ UNCHANGED lineage

(* JobManager.create, for a job identity never used before. *)
CreateJob(j) ==
  /\ worker[j].at = "absent"
  /\ GoTo(j, "pending")
  /\ Persist(j, RowOf("pending", 0))
  /\ UNCHANGED lineage

(* JobManager.enqueue: start the daemon thread of a created job. *)
Enqueue(j) ==
  /\ worker[j].at = "pending"
  /\ GoTo(j, "queued")
  /\ UNCHANGED <<lineage, durable>>

(* _run, up to the call of the runner. *)
StartJob(j) ==
  /\ worker[j].at = "queued"
  /\ GoTo(j, "running")
  /\ Persist(j, RowOf("running", 0))
  /\ UNCHANGED lineage

(* The index transaction commits a new published revision. *)
PublishIn(phases, j) ==
  /\ worker[j].at \in phases
  /\ Len(lineage) < MaxRevisions
  /\ lineage' = Append(lineage, j)
  /\ worker' = [worker EXCEPT ![j] = [at |-> "indexed",
                                      result |-> Len(lineage) + 1]]
  /\ UNCHANGED durable

PublishRevision(j) == PublishIn({"running"}, j)

(* The inputs (or their semantic digests) are those of the current         *)
(* revision: the run returns it and publishes nothing.                     *)
CutOff(j) ==
  /\ worker[j].at = "running"
  /\ lineage # <<>>
  /\ worker' = [worker EXCEPT ![j] = [at |-> "indexed", result |-> Active]]
  /\ UNCHANGED <<lineage, durable>>

(* The runner's clean-bound-commit check refuses, or the transaction       *)
(* raises and is rolled back.                                              *)
RunnerFails(j) ==
  /\ worker[j].at = "running"
  /\ GoTo(j, "failing")
  /\ UNCHANGED <<lineage, durable>>

(* The publishing transaction has committed and the telemetry write, the   *)
(* commit after it or the close of the store raises: the exception reaches *)
(* _run exactly as a failed run does.                                      *)
EpilogueFails(j) ==
  /\ worker[j].at = "indexed"
  /\ worker' = [worker EXCEPT ![j] = [at |-> "failing", result |-> 0]]
  /\ UNCHANGED <<lineage, durable>>

(* _run, after the runner returned or raised. *)
Report(j, result) ==
  /\ worker[j].at = "indexed"
  /\ GoTo(j, "done")
  /\ Persist(j, RowOf("done", result))
  /\ UNCHANGED lineage

ReportFailure(j) ==
  /\ worker[j].at = "failing"
  /\ GoTo(j, "failed")
  /\ Persist(j, RowOf("failed", 0))
  /\ UNCHANGED lineage

(* Slip: the row names the revision that is current by the time it is      *)
(* written.                                                                *)
FinishWithCurrent(j) == Report(j, Active) \/ ReportFailure(j)

(* Slip: only a run that returns is reported. *)
FinishOnlySuccess(j) == Report(j, worker[j].result)

FinishJob(j) == Report(j, worker[j].result) \/ ReportFailure(j)

(* Another writer of the same repository: a job outside Jobs, the command  *)
(* line, the observation of a merged commit.                               *)
PublishElsewhere ==
  /\ Len(lineage) < MaxRevisions
  /\ lineage' = Append(lineage, Ext)
  /\ UNCHANGED <<durable, worker>>

(* The server process ends: its registry and its daemon threads are gone,  *)
(* the durable rows and the published revisions stay.                      *)
LoseProcess ==
  /\ worker' = [j \in Jobs |-> IF worker[j].at = "absent" THEN worker[j]
                               ELSE [at |-> "lost", result |-> 0]]
  /\ UNCHANGED <<lineage, durable>>

ThreadStep(j) ==
  \/ StartJob(j)
  \/ PublishRevision(j)
  \/ CutOff(j)
  \/ RunnerFails(j)
  \/ EpilogueFails(j)
  \/ FinishJob(j)

JobsNext ==
  \/ \E j \in Jobs : CreateJob(j) \/ Enqueue(j) \/ ThreadStep(j)
  \/ PublishElsewhere
  \/ LoseProcess

(* The operating system schedules every started thread. *)
ThreadFairness == \A j \in Jobs : WF_jobVars(ThreadStep(j))

JobsSpec == JobsInit /\ [][JobsNext]_jobVars /\ ThreadFairness

(***************************************************************************)
(* Properties                                                              *)
(***************************************************************************)

(* The row a reader adopts from: a durable "done" names a published        *)
(* revision, and it is the very revision that job published, unless the    *)
(* job published none (it was cut off).  Whoever publishes between the     *)
(* commit of the index run and the write of the row must not leak into it. *)
DoneRowNamesOwnRevision ==
  \A j \in Jobs : durable[j].status = "done" =>
    /\ durable[j].result \in 1..Len(lineage)
    /\ \A r \in 1..Len(lineage) :
         lineage[r] = j => durable[j].result = r

(* One run of a job publishes at most one revision, whatever restarts,     *)
(* other writers and lost rows happen around it.                           *)
OneRevisionPerJob ==
  \A r, s \in 1..Len(lineage) :
    lineage[r] = lineage[s] /\ lineage[r] \in Jobs => r = s

(* The durable row only moves forward: pending, running, then one verdict  *)
(* that is never taken back; in particular a job nobody runs any more      *)
(* (lost with its process) keeps the row it had.                           *)
Rank(status) == CASE status = "absent" -> 0 [] status = "pending" -> 1
                  [] status = "running" -> 2 [] OTHER -> 3

RowsMoveForward ==
  [][\A j \in Jobs :
       durable'[j] # durable[j] =>
         /\ Rank(durable[j].status) < Rank(durable'[j].status)
         /\ worker[j].at # "lost"]_jobVars

(* Every enqueued job reaches a verdict in the registry unless the process *)
(* dies with it, even when the durable mirror loses every write.           *)
EnqueuedJobSettles ==
  \A j \in Jobs : worker[j].at = "queued"
                    ~> worker[j].at \in {"done", "failed", "lost"}
=============================================================================
