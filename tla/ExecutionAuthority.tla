------------------------ MODULE ExecutionAuthority ------------------------
(***************************************************************************)
(* Bounded BUILD and TEST runs (execution_authority.py): an execution      *)
(* reads its declared input files, runs one child process under a time, an *)
(* output and an artifact limit, reads the inputs again and publishes a    *)
(* receipt, with a test run when it earned one, by renaming a directory.   *)
(*                                                                         *)
(* Executions run in threads of the server while anybody edits the inputs; *)
(* the server may die at any step.  They are numbered in the order they    *)
(* start.  A source revision, the digest of the declared files, is the     *)
(* content itself; Gone is a declared file that is missing.                *)
(***************************************************************************)
EXTENDS Naturals, FiniteSets

CONSTANTS
  Contents,       \* contents the declared input files take
  Gone,           \* a declared input file is missing
  NoRevision,     \* no expected revision, no canonical revision
  MaxExecutions,  \* bound on the executions that are started
  Policy,         \* result_policy of the profile of each kind
  ChildCodes,     \* how a child exits, by kind and by what it finds
  MaxTroubles,    \* bound on the troubles a behaviour meets
  Budgets,        \* bounds a behaviour starts with: the executions it may
                  \* start, the kinds of trouble it may meet and how many
                  \* in all, and whether pipes may close apart from the
                  \* child's end
  MaxRunning,     \* bound on the executions in progress at once
  MaxCanonical    \* canonical revisions a request may name

Kinds == {"BUILD", "TEST"}
Troubles == {"drift", "missing input", "timeout", "cancel", "output limit",
             "artifact limit", "runner error", "write error", "server death",
             "abandon"}

Budget == [executions : 0..MaxExecutions, troubles : SUBSET Troubles,
           meetings : 0..MaxTroubles, pipes : BOOLEAN]

ASSUME ExecutionAssumption ==
  /\ Gone \notin Contents /\ NoRevision \notin Contents /\ NoRevision # Gone
  /\ MaxExecutions \in Nat
  /\ MaxTroubles \in Nat
  /\ Policy \in [Kinds -> {"exit_zero", "pytest", "unknown"}]
  /\ ChildCodes \in
       [Kinds -> [Contents \cup {Gone} -> SUBSET {"zero", "one", "other"}]]
  /\ Budgets \subseteq Budget
  /\ MaxRunning \in Nat
  /\ MaxCanonical \in Nat

VARIABLES
  budget,    \* what is left of the bounds of this behaviour
  source,    \* what the declared input files hold
  started,   \* number of executions started so far
  run,       \* what the thread of each execution is doing
  receipts   \* the directories executions/<id>

execVars == <<budget, source, started, run, receipts>>

Executions == 1..MaxExecutions
Revisions == Contents \cup {Gone}

Reasons == {"COMPLETED", "INPUT_UNAVAILABLE", "INPUT_DRIFT", "TIMEOUT",
            "CANCELLED", "OUTPUT_LIMIT", "ARTIFACT_LIMIT", "RUNNER_ERROR"}
Results == {"PASS", "FAIL", "ERROR", "UNKNOWN", "TIMEOUT", "CANCELLED"}
ExitCodes == {"none", "zero", "one", "other"}   \* other: 2 and up, or a signal

Request == [kind : Kinds, expected : Contents \cup {NoRevision},
            canonical : 0..MaxCanonical]

(* The locals of execute and of _bounded_process.  child: the group leader *)
(* lives; open: a pipe has not reached its end, which a process that left  *)
(* the group can hold open.  time: 0 until the deadline, then 1, and 2     *)
(* when the two seconds after it are over too.                             *)
Idle == [phase |-> "idle"]
Underway ==
  [phase : {"inputs", "launch", "running", "after", "publish"},
   request : Request, before : Revisions, after : Revisions,
   reason : Reasons, exit : ExitCodes, truncated : BOOLEAN,
   invoked : BOOLEAN, child : BOOLEAN, open : BOOLEAN,
   killed : BOOLEAN, cancel : BOOLEAN, time : 0..2]
Run == {Idle} \cup {[phase |-> "over"]} \cup Underway

NoReceipt == [kind |-> "none"]
Receipt ==
  {NoReceipt}
  \cup [kind : Kinds, canonical : 0..MaxCanonical,
        before : Revisions, after : Revisions, reason : Reasons,
        exit : ExitCodes, complete : BOOLEAN, invoked : BOOLEAN,
        result : Results, testRun : BOOLEAN]

ExecTypeOK ==
  /\ budget \in Budget
  /\ source \in Revisions
  /\ started \in 0..MaxExecutions
  /\ run \in [Executions -> Run]
  /\ receipts \in [Executions -> Receipt]

ExecInit ==
  /\ budget \in Budgets
  /\ source \in Contents
  /\ started = 0
  /\ run = [e \in Executions |-> Idle]
  /\ receipts = [e \in Executions |-> NoReceipt]

(* A trouble of this kind: any run may meet any of them, one after another *)
(* or at once, as often as the budget lasts.                               *)
Meet(kind) ==
  /\ kind \in budget.troubles /\ budget.meetings > 0
  /\ budget' = [budget EXCEPT !.meetings = @ - 1]

(***************************************************************************)
(* execute, up to the child                                                *)
(***************************************************************************)

Busy(e) == run[e].phase \notin {"idle", "over"}

(* The checks of profile, kind, parameters and executable have passed.     *)
Start(request) ==
  /\ started < budget.executions
  /\ Cardinality({e \in Executions : Busy(e)}) < MaxRunning
  /\ started' = started + 1
  /\ run' = [run EXCEPT ![started + 1] =
       [phase |-> "inputs", request |-> request, before |-> Gone,
        after |-> Gone, reason |-> "COMPLETED", exit |-> "none",
        truncated |-> FALSE, invoked |-> FALSE, child |-> FALSE,
        open |-> FALSE, killed |-> FALSE, cancel |-> FALSE, time |-> 0]]

(* The inputs before; without them, or when they are not the expected      *)
(* ones, nothing is run.                                                   *)
ReadInputs(e) ==
  /\ run[e].phase = "inputs"
  /\ LET expected == run[e].request.expected
         reason == CASE source = Gone -> "INPUT_UNAVAILABLE"
                     [] source # Gone /\ expected \notin {NoRevision, source}
                          -> "INPUT_DRIFT"
                     [] OTHER -> "COMPLETED"
     IN run' = [run EXCEPT
          ![e].before = source, ![e].after = source, ![e].reason = reason,
          ![e].phase = IF reason = "COMPLETED" THEN "launch" ELSE "publish"]
  /\ UNCHANGED <<budget, source, started, receipts>>

(* Popen, after the probe of the tool's version. *)
Launch(e) ==
  /\ run[e].phase = "launch"
  /\ \/ /\ run' = [run EXCEPT ![e].phase = "running", ![e].invoked = TRUE,
                              ![e].child = TRUE, ![e].open = TRUE]
        /\ UNCHANGED budget
     \/ /\ Meet("runner error")
        /\ run' = [run EXCEPT ![e].phase = "after", ![e].invoked = TRUE,
                              ![e].reason = "RUNNER_ERROR"]
  /\ UNCHANGED <<source, started, receipts>>

(***************************************************************************)
(* The child and the world around it                                       *)
(***************************************************************************)

(* The pipes reach their end with the child, or before it, or later, when  *)
(* a process it left behind holds them.                                    *)
ChildExits(e) ==
  /\ run[e].phase = "running" /\ run[e].child
  /\ \E code \in IF run[e].killed THEN {"other"}
                ELSE ChildCodes[run[e].request.kind][source],
        open \in {FALSE} \cup IF budget.pipes THEN {run[e].open} ELSE {} :
       run' = [run EXCEPT ![e].child = FALSE, ![e].exit = code,
                          ![e].open = open]
  /\ UNCHANGED <<budget, source, started, receipts>>

PipesClose(e) ==
  /\ budget.pipes
  /\ run[e].phase = "running" /\ run[e].open
  /\ run' = [run EXCEPT ![e].open = FALSE]
  /\ UNCHANGED <<budget, source, started, receipts>>

TimePasses(e) ==
  /\ run[e].phase = "running" /\ run[e].time < 2
  /\ IF run[e].killed \/ run[e].time > 0
     THEN UNCHANGED budget ELSE Meet("timeout")
  /\ run' = [run EXCEPT ![e].time = @ + 1]
  /\ UNCHANGED <<source, started, receipts>>

Cancel(e) ==
  /\ Meet("cancel")
  /\ Busy(e) /\ ~run[e].cancel
  /\ run' = [run EXCEPT ![e].cancel = TRUE]
  /\ UNCHANGED <<source, started, receipts>>

(* Anybody edits the inputs; when nothing is going on that is no     *)
(* trouble.                                                                *)
Edit(quiet) ==
  /\ \/ /\ source' \in Contents \ {source}
        /\ IF quiet /\ \A e \in Executions : ~Busy(e)
           THEN UNCHANGED budget ELSE Meet("drift")
     \/ source' = Gone /\ Meet("missing input")
  /\ UNCHANGED <<started, run, receipts>>

(***************************************************************************)
(* The loop of _bounded_process                                            *)
(***************************************************************************)

InLoop(e) == run[e].phase = "running" /\ (run[e].open \/ run[e].child)

(* The first reason to stop is kept; the group is killed. *)
Stop(e, reason) ==
  /\ InLoop(e)
  /\ run[e].reason = "COMPLETED"
  /\ run' = [run EXCEPT ![e].reason = reason, ![e].killed = TRUE]
  /\ UNCHANGED <<budget, source, started, receipts>>

StopCancelled(e) == run[e].phase = "running" /\ run[e].cancel /\ Stop(e, "CANCELLED")
StopTimeout(e) == run[e].phase = "running" /\ run[e].time > 0 /\ Stop(e, "TIMEOUT")

(* A chunk goes over the cap of its stream. *)
OutputLimit(e) ==
  /\ Meet("output limit")
  /\ InLoop(e) /\ run[e].open
  /\ run' = [run EXCEPT
       ![e].truncated = TRUE,
       ![e].killed = TRUE,
       ![e].reason = IF @ = "COMPLETED" THEN "OUTPUT_LIMIT" ELSE @]
  /\ UNCHANGED <<source, started, receipts>>

(* Slip: the pipes are given up only once the child is gone. *)
GiveUpPipes(e) ==
  /\ InLoop(e)
  /\ run[e].reason # "COMPLETED" /\ run[e].time = 2 /\ ~run[e].child
  /\ run' = [run EXCEPT ![e].phase = "after", ![e].open = FALSE]
  /\ UNCHANGED <<budget, source, started, receipts>>

(* Two seconds after the deadline the pipes are given up.  When the child  *)
(* has not died either, wait raises and what was captured is lost.         *)
GiveUp(e) ==
  /\ InLoop(e)
  /\ run[e].reason # "COMPLETED" /\ run[e].time = 2
  /\ run' = [run EXCEPT ![e] =
       IF run[e].child
       THEN [@ EXCEPT !.phase = "after", !.open = FALSE, !.child = FALSE,
                      !.reason = "RUNNER_ERROR", !.exit = "none",
                      !.truncated = FALSE]
       ELSE [@ EXCEPT !.phase = "after", !.open = FALSE]]
  /\ UNCHANGED <<budget, source, started, receipts>>

(***************************************************************************)
(* execute, after the child                                                *)
(***************************************************************************)

(* Slip: the inputs are taken to be those read before. *)
TrustInputs(e) ==
  /\ run[e].phase = "after" \/ (run[e].phase = "running" /\ ~InLoop(e))
  /\ run' = [run EXCEPT ![e].phase = "publish", ![e].after = source]
  /\ UNCHANGED <<budget, source, started, receipts>>

(* The loop is over when all pipes are at their end and the child is gone. *)
(* Inputs that moved under the run overrule every other reason.            *)
ReadAfter(e) ==
  /\ run[e].phase = "after" \/ (run[e].phase = "running" /\ ~InLoop(e))
  /\ \E artifactLimit \in BOOLEAN :
       LET drifted == source # run[e].before
           reason == CASE drifted -> "INPUT_DRIFT"
                       [] ~drifted /\ artifactLimit
                            /\ run[e].reason = "COMPLETED" -> "ARTIFACT_LIMIT"
                       [] OTHER -> run[e].reason
       IN /\ IF artifactLimit THEN Meet("artifact limit")
             ELSE UNCHANGED budget
          /\ run' = [run EXCEPT ![e].phase = "publish", ![e].after = source,
                                ![e].reason = reason]
  /\ UNCHANGED <<source, started, receipts>>

(* _result *)
ResultOf(kind, exit, reason) ==
  CASE reason = "TIMEOUT" -> "TIMEOUT"
    [] reason = "CANCELLED" -> "CANCELLED"
    [] reason \in {"INPUT_DRIFT", "INPUT_UNAVAILABLE"} -> "UNKNOWN"
    [] reason \in {"OUTPUT_LIMIT", "ARTIFACT_LIMIT", "RUNNER_ERROR"}
         \/ (reason = "COMPLETED" /\ exit = "none") -> "ERROR"
    [] OTHER ->
         CASE Policy[kind] = "pytest" /\ kind = "TEST" ->
                IF exit = "zero" THEN "PASS"
                ELSE IF exit = "one" THEN "FAIL" ELSE "ERROR"
           [] Policy[kind] = "exit_zero" ->
                IF exit = "zero" THEN "PASS" ELSE "FAIL"
           [] OTHER -> "UNKNOWN"

ReceiptOf(e) ==
  LET r == run[e]
      result == ResultOf(r.request.kind, r.exit, r.reason)
  IN [kind |-> r.request.kind, canonical |-> r.request.canonical,
      before |-> r.before, after |-> r.after,
      reason |-> r.reason, exit |-> r.exit, complete |-> ~r.truncated,
      invoked |-> r.invoked, result |-> result,
      testRun |-> /\ r.request.kind = "TEST"
                  /\ result \in {"PASS", "FAIL"}
                  /\ r.reason = "COMPLETED"]

(* The receipt and the test run appear together, with the rename, or a     *)
(* write fails, the pending directory is removed and execute raises.       *)
Publish(e) ==
  /\ run[e].phase = "publish"
  /\ run' = [run EXCEPT ![e] = [phase |-> "over"]]
  /\ \/ /\ receipts' = [receipts EXCEPT ![e] = ReceiptOf(e)]
        /\ UNCHANGED budget
     \/ Meet("write error") /\ UNCHANGED receipts
  /\ UNCHANGED <<source, started>>

(* The server dies.  Pending directories are not looked at again. *)
AbortRuns ==
  /\ Meet("server death")
  /\ run' = [e \in Executions |->
       IF run[e].phase = "idle" THEN Idle ELSE [phase |-> "over"]]
  /\ UNCHANGED <<source, started, receipts>>

(***************************************************************************)
(* Reading receipts                                                        *)
(***************************************************************************)

(* get_receipt finds it. *)
HasReceipt(e) == receipts[e] # NoReceipt

(* get_test_run: the test run that was published with this execution. *)
TestRunAvailable(e) ==
  /\ HasReceipt(e)
  /\ receipts[e].kind = "TEST" /\ receipts[e].testRun
  /\ receipts[e].result \in {"PASS", "FAIL"}

(* test_run_lookup: a historical test run proves nothing once the inputs   *)
(* have moved.                                                             *)
Admissible(e) == TestRunAvailable(e) /\ receipts[e].before = source

RunnerStep(e) ==
  \/ ReadInputs(e) \/ Launch(e) \/ StopCancelled(e) \/ StopTimeout(e)
  \/ OutputLimit(e) \/ GiveUp(e) \/ ReadAfter(e) \/ Publish(e)

ProcessStep(e) == ChildExits(e) \/ PipesClose(e) \/ TimePasses(e) \/ Cancel(e)

(***************************************************************************)
(* Properties                                                              *)
(***************************************************************************)

(* A receipt that says PASS is about a run that was started on the inputs  *)
(* it names, exited with zero before anything stopped it, lost no output,  *)
(* and found the inputs unchanged; and the test run beside a receipt says  *)
(* what the receipt says.                                                  *)
PassIsEarned ==
  \A e \in Executions :
    HasReceipt(e) =>
      /\ receipts[e].result \in {"PASS", "FAIL"} =>
           /\ receipts[e].invoked /\ receipts[e].complete
           /\ receipts[e].reason = "COMPLETED"
           /\ receipts[e].before = receipts[e].after
           /\ receipts[e].before # Gone
           /\ receipts[e].exit # "none"
      /\ receipts[e].result = "PASS" => receipts[e].exit = "zero"
      /\ receipts[e].testRun => receipts[e].kind = "TEST"
                                /\ receipts[e].result \in {"PASS", "FAIL"}
=============================================================================
