# rintel-core, verified

Rintel indexes a repository into published, evidence-backed revisions and lets
people and agents move *design changes* through a lifecycle that ends only when
the indexed implementation has been compared with the design, tested and
approved.  This directory holds TLA+ modules of the parts of that program whose
correctness depends on order, concurrency and failure, the TLC configurations
that check them, and TLAPS proofs of the central results.

Paths below are relative to the repository; the program is `src/rintel/`.

## 1. Inventory

### Core, with state

| Part | State | Operations | What is hard | What makes it correct |
|---|---|---|---|---|
| Design lifecycle (`design_lifecycle/`) | one aggregate per change (state, version, design revision, implementation, evidence), lifecycle receipts, independent test and approval receipts | open, plan, mutate flow or architecture, begin, record repair, request re-index, adopt, evaluate, verify, close, abandon, record test run, record approval | several REST and MCP clients at once; every command reads, computes, then commits under a version check; inputs of the check live in other tables | matched, verified and closed states rest on evidence about this very design and revision |
| Index jobs (`server/jobs.py`) | in-memory registry, durable rows, daemon threads | create, enqueue, run, report, persist | the mirror swallows failed writes; threads die with the process; nothing resumes | a durable verdict can be trusted; every started job settles |
| Published revisions (`indexer.py`, `db.py`, `pg/`) | snapshots with parent and publication status, the canonical graph, the file rows, support receipts | index (diff, close over dependencies, copy, replace, publish, cut off, re-attest, roll back) | several publishers; work after the publishing commit; an incremental run rebuilds only part of a graph | one list of published revisions; an incremental revision is what a full run would have built |
| Coverage authority (`coverage_authority/`) | certificates, an overlay revision | issue | publishes too, with a weaker lock on SQLite | the copied revision is the current one |
| Git workspaces and integrations (`git_workspace.py`, `git_integration_authority.py`) | registry of worktrees and integrations in one JSON file; git refs | create, submit, integrate, audit, merge, observe, retire | git and the file are written separately; refs move on their own | what is recorded as merged is; a target is only ever fast-forwarded by what was built and audited on it |
| Execution authority (`execution_authority.py`) | receipts in directories | execute, get receipt, get test run | timeout, cancel, output limit and exit race; inputs drift | only a completed run on unchanged inputs is a test run |
| Local owner (`local_owner_auth.py`) | bootstrap token, sessions | take token, authenticate, resolve, revoke | expiry and revocation under a request | one session per token, none after expiry |
| Build recovery (`build_recovery.py`) | attempts, candidates, applications | run, propose, apply, assess | repairs judged against the wrong attempt | an assessment compares an attempt with its own successor |
| Synchronisation (`sync/`) | artefact files, `state.json` | sync, recover | file-by-file swap before the commit record | a committed revision shows the source, and no verdict about an old signature passes for fresh |
| Provider protocol and architecture (`provider_protocol/`, `provider_arch/`), Clang provider's cache | analysis session, staged results, published bundles, `CURRENT.json`, cached units | handshake, stage, cancel, admit, publish | silence, cancel and death against late messages; edits while a provider reads | only as many batches as were counted, all of one reading, are published; `CURRENT` names one that is there; cached facts are fresh |
| Flow plane (`flow/`) | blocks, ports and nets of a flow | edit, encapsulate, compare, write back | an encapsulation is many transactions; long sequences of edits of the hierarchy; requests that overtake each other between reading and writing | keys hold; no cycle but by requests that overtake each other; an encapsulation is the same wiring behind a boundary |
| Architecture plane (`archmodel.py`, `arch_*` of `db.py`) | models of a workspace, components, relations, mappings, frozen baselines | edit, delete a subtree, fork, diff | every request reads and checks before the transaction it writes in | keys hold; a diff says exactly what was changed |
| Synthesis (`synthesis/`) | plan, patch set | plan, patch, verify | partial application | a failed verification restores the files |

### Batch, without concurrent state

Extractors and parsers (`clang_provider/` beside its cache, `flang_provider/`,
`adapters/`, `kernel/`, `source_span/`), rules and comparisons (`drc/`, `lvs/`,
`evidence_authority/` beside receipts), inference and projections
(`flow_infer/`, `flow_semantic/`, `module_infer/`, `data_interface/`,
`faclib_coverage/`, `topology*/`, `runtime_data/`, the alignment modules),
front ends (`mcp/`, `server/`, `cli.py`, `web/`) and release checks.

### How they interact

A client (REST handler or MCP tool) calls `DesignLifecycleService` on its own
database connection.  `request_reindex` creates a job in the server's
`JobManager`, links it to the change and starts its thread; the thread runs
`Indexer.index`, whose transaction publishes a revision.  The client later
adopts: the service reads the job's *durable row* and the published revisions,
and records the job's revision as the actual one.  Evaluation compares expected
with actual and asks LVS about the flow the design refers to; verification asks
for test receipts, closing for an approval.  Test receipts come from the
execution authority, directly or through build recovery, whose repairs are
recorded with the change first.  The coverage issuer publishes revisions beside
the indexer; the provider host publishes to a store of its own; `sync` rewrites
the derived artefacts of a source tree and asks nobody.  Flow edits, other
publishers (another job, the command line, the observation of a merged commit)
and the death of the server can come between any two of these.

## 2. Plan

In the order of importance of what is modelled:

1. `IndexJobs`: jobs, their rows, and published revisions.  *Proved.*
2. `DesignLifecycle`: one change over `IndexJobs`, and `ChangeContract`, the
   indivisible lifecycle it implements.  *Proved, the refinement included.*
3. `GitIntegration`: worktrees, refs, audit, merge, observation, retirement,
   the state file and crashes.  *Proved.*
4. `ExecutionAuthority` and `BuildRecovery` over it.  *Proved but
   for liveness.*
5. `SyncPublish`.  *Proved.*
6. `ProviderHost`: host, providers, cache and store.  *Proved but for
   liveness.*
7. `IncrementalIndex`: incremental runs against full ones, and the coverage
   issuer beside them.  *Proved.*
8. `FlowNetlist`: the flow of the design and its encapsulation.  *Proved.*
9. `ArchitecturePlane`: the models of a workspace, forks and diffs.  *Proved.*

Next, in this order: `LocalOwner`, the owner session a merge needs, composed with
`GitIntegration`; `DesignLifecycle` composed with `BuildRecovery`, whose tests
it takes as given; the comparisons (`lvs/compare`, `drc/`) as operators over
bounded graphs; the planner and patcher of `synthesis/`.

## 3. What is modelled

### `IndexJobs`

| Variable | Code |
|---|---|
| `lineage[r]` | the r-th published snapshot of the repository; the value is the job that published it, or `Ext`; r - 1 is its parent |
| `durable[j]` | the row of job j that `JobManager.get` reads |
| `worker[j]` | the in-process life of job j: registry entry, thread, result held by the thread |

`CreateJob`, `Enqueue`, `StartJob`, `FinishJob` are the methods of
`JobManager`; `Persist` writes a row or, with `PersistMayFail`, loses it as
`_emit` does.  `PublishRevision`, `CutOff`, `RunnerFails` are the three ends of
the index transaction, `EpilogueFails` the exception after it.  The transaction
is one step because `upsert_repo`, the first statement of an index run, takes
SQLite's write lock, and PostgreSQL's `begin` an advisory lock.
`PublishElsewhere` is any other index run on the repository.  `LoseProcess`
ends the server: registry and threads are gone, rows and revisions stay.

### `DesignLifecycle`

`change` is the stored aggregate, `receipt` its last lifecycle receipt, `tests`
and `approvals` the independent receipts, `flow` the content of the flow the
design may refer to, and `request[c]` what client c is in the middle of.

A command is two steps, as in the code: `apply_command` reads the aggregate
and everything its gate looks at, and computes the next aggregate (`Plan`,
`MutateFlow`, `BeginImplementation`, ... `Close`, `Abandon`); then
`LifecycleRepository.update` installs it in one transaction if the version is
still the one read (`Commit`), or raises (`Conflict`).  Receipts check in one
step and append in another, with no version compared.  `RequestReindex` is the
REST handler: it creates the job, links it, and after the commit enqueues it.
Everything else of the world goes on between any two steps: `JobsStep`,
`EditFlowElsewhere`, `Crash`.

What is abstracted: a design revision is named by the change version that
introduced it (each gets a fresh identity in the code); flow contents are
numbers, equal numbers having equal digests; verdicts of the design rules, of
the expected/actual comparison and of LVS are free except for the identity
checks that precede them; the evidence selected at adoption and the texts of
claims are left out; criteria are represented by the set of their kinds.
Evaluation has one step more: `EvaluateExpectedActual` digests the flow, checks
CURRENT and compares, and then `RunLvs` reads the flow and the current revision
again (`lvs_flow`), so that edits and publications come between the two.
Within each of these steps all reads are taken at one instant, although the code
reads several tables in sequence.

### `ChangeContract`

The same lifecycle with indivisible commands and without jobs, requests and
flows: what a user of the service may rely on.  `DesignLifecycle` maps its
state to it by `INSTANCE ... WITH` and states `ImplementsContract`.

### `GitIntegration`

| Variable | Code |
|---|---|
| `target`, `branch[w]`, `head[i]` | the commits of the target branch, of the branch of agent workspace w, and of the branch of integration i |
| `trees[x]` | the managed worktree of x: never added, present, removed |
| `memory` | `_workspaces` and `_integrations` of the server's `GitWorkspaceManager` |
| `file` | `state.json` |
| `calls[c]` | the registry an MCP tool loaded into a manager of its own |
| `op` | the operation that holds the manager's lock, between its steps |
| `published` | the published revisions: the commit they are labelled with, and the one they hold |

A commit is its history, a set of edits and merges; one descends from another
if it contains it, and a merge is a union.  The lock makes the operations of
one manager exclude each other, so an operation that only reads git and then
saves is one action (`SubmitCommittedResult`, `ProjectMerge`, `Inspect`).  One
that changes git, runs for minutes, or publishes is several: adding a worktree
and recording it (`CreateAgentWorktree`, `RecordWorkspace`; `CreateIntegration`,
`RecordIntegration`), the audit (`BeginAudit`, `TestCandidate`, `EndAudit`),
the merge (`BeginMerge`, `FastForward`, `RecordMerge`), the observation
(`BeginObserve`, `IndexMerged`, `EndObserve`) and the retirement (`Remove`,
`RecordRetired`).  Between them humans and agents commit, others publish, MCP
calls load and write the file, the operation raises (`Raise`) or the server
restarts (`Restart`).

What is abstracted: one repository and one target branch; the verdict of an
audit is free except for the checks of heads and of CURRENT; a dirty or
detached worktree is an action not taken; the statuses of a live workspace are
one; a conflict is a proper subset of the commits merged, and a conflicted
integration cannot be audited; every edit changes what an index run extracts.
Nobody rewrites history (no reset, no forced push), no human fast-forwards the
target to the branch of an agent or of an integration, and identities are never
reused.  Of an integration branch that was added to after its audit, which the
merge takes by name, `MergedFromAuditedTarget` claims nothing.  The owner session and the agents' tokens are preconditions that are
taken as met.

### `ExecutionAuthority`

One execution is a thread of `execute`: `Start` (the checks of the request),
`ReadInputs` (the digest before), `Launch`, the loop of `_bounded_process`
(`StopCancelled`, `StopTimeout`, `OutputLimit`, `GiveUp`), `ReadAfter` (the
digest after, the artefacts) and `Publish` (the rename of the receipt's
directory).  The child and the pipes it leaves behind are an environment
(`ChildExits`, `PipesClose`, `TimePasses`), and so are `Cancel`, `Edit` and
`AbortRuns`, the death of the server.  `ResultOf` is `_result`.  `time` has
three values: before the deadline, past it, and past the two seconds after
which the pipes are given up.  A digest is the content; a file may be `Gone`.

### `BuildRecovery`

Extends `ExecutionAuthority` with the directories of attempts and applications,
the two calls that write them (`BeginRun`, `RequestBuild`, `PublishAttempt`,
`RunRaises`; `BeginApplication`, `RecordWithChange`, `PublishApplication`), the
test executions (`RequestTest`) and so much of one change as they look at:
state, version, evidence revision, recorded applications, adopted test runs and
the one that verified it.  `Assess` is `assess_repair` up to the question
whether the owner approved.  Abstracted: the diagnostics (there are some
exactly if something was captured), the correlation with the graph, the failure
package, and the revision a test request may expect.

### `SyncPublish`

`store` is `entity_store.json`, `state` is `state.json`, `di`, `krn`, `sem` and
`lvs` are the active artefacts, `staging` the staged ones; `call` holds the
locals of the one sync in progress.  The steps are those of `sync()`: stage
data, kernel and semantics, swap each group, annotate LVS, save the store,
commit; an exception or the death of the process may come before any of them,
and edits of the files between any two.  A projection is the evidence it was
derived from, file by file; contents with the same evidence differ in
comments, and evidence with the same `Signature` in bodies, calls or data
interfaces.  `lvs` holds the files whose verdicts are marked STALE: `Annotate`
marks those that moved in their signatures, passes over the others as
`annotate_lvs` does, and does nothing at the base revision.  `verified` is
history, the signatures the verdicts were made for, and `unsettled` too: the
files edited while a call was unfinished.  Abstracted: the units of one file are
bound to verdicts (`Bound`) as a whole, and the LVS artefact exists from the
start and is not verified again.

### `ProviderHost`

Host, providers, pipes, the Clang cache of one unit, the staging directories
and the store.  Every message is an element of a sequence; every receive of
`run_analysis` is an action (`ReceiveAck` ... `SeeExit`), every refusal is
`Refuse`, every silence and end of stream `HearNothing`.  `Prepare`,
`ReplaceRevision` and `PointCurrent` are the three steps of a publication.  The
provider reads in three steps (`LoadUnit`, `ParseUnit`, `DigestDependencies`)
between which files may be edited.  A provider may pass over a batch, leave out
its last batches and count them or not, complete
with another status, answer a cancel or ignore it, die, or fall silent (it has
no fairness).  The request to analyse is the one message that may be longer than
the pipe: its write either returns at once or blocks (`ReceiveAck`) until the
provider reads (`DrainRequest`), or is gone (`BrokenPipe`).  `counted` is what
the completion of a run counted, and goes with the revision it publishes.  `blurred` is history: a file was edited while a provider read.

### `IncrementalIndex`

What a run of `Indexer` makes of three files: `rows` (the files table),
`graph` (nodes, parse results and edges of CURRENT), `receipts`, `current`,
and `run`, the transaction between its scan and its end.  A content is what its
parser makes of it.  The ends of a run are actions of their own
(`NoFileChanged`, `SemanticCutoff`, `ReattestRevision`, `BuildRevision`,
`FullRevision` and the ways they fail); the graph algorithms are operators
(`DependencyClosure`, `UpsertNodes`, `PruneNodes`, `Resolved`, `EdgesOf`), and
`FullGraph` is what they are measured against.  The coverage issuer
(`IssuerBegins`, `IssuerChecks`, `IssuerPublishes`) runs beside it.  `Postgres`
chooses the store: with it `begin` locks and edges are foreign keys.
A call resolves to an imported name, a name of the same file, a name of what the
file includes at any depth (`IncludeClosure`), or one that is unique
(`Resolved`); the edges an adapter leaves pending resolve by name in an order of
their own (`Referred`, `References`).  `IncludersOf` and `IncludeClosure`, work
lists in the code, are least sets; of several included files with the name, the
model takes one (`First`) where the code takes whichever its set yields.
`OwnSymbolsOnly` says of the contents that a file declares and refers from
nothing it does not define itself, as in Python, TypeScript and Fortran without
submodules.  `IncrementalIsSound` is stated for such contents.  With C
prototypes it fails (section 6), and Go and Java are left out for the same
reason: the files of a package share its node, and what one of them contains is
deleted by the path of whichever holds the row (`pg/pgstore.py:461`,
`db.py:431`), although `indexer.py:9` says unchanged facts are copied into the new
snapshot.  Abstracted: spans, several languages side by side, derived
containment.

### `FlowNetlist`

`blocks`, `ports` and `nets` of one flow.  A service operation reads and checks
(`AddBlock`, `Reparent`, ..., `CreateComposite`) and leaves the list of writes
that follow, each a transaction with the checks of the store (`WriteBlock`,
`EraseBlock`, `WriteNet`, ...); a request may fail or die before any write and
keeps what it wrote.  `Connections` and `ExpectedCalls` are read off the
netlist as `compare_flow` does, by unrolling composite ports over at most
`MaxDepth` nets (8 in the code).  Any number of clients do this at once, and
overtake each other: the row of a block is read with its checks (`ReadRow`) and
then written whole (`WriteRow`, `EraseBlock`), as `flow_update_block` and
`flow_delete_block` do.  A request knows whether another has written since it
read the flow (`overtaken`), and `raced` is history: a block was written by such
a request.  `Below`, a work list in the code, is the least
set that has the block and is closed under children.  `FlowAssumption` says that
there are finitely many symbols, ports and spare identities, and that a new
identity is no symbol's.  Abstracted: layout, labels, flow documents, versions
of a flow; the reads of one request before its first write are one step; the
checks of the store that go with an insert are one step with it (in SQLite they
run before the implicit transaction begins, so that two clients could there add
two rows of one name or one pair of ports, which are one here).  Left out: the
expansion of a call tree into an existing flow (`flow/projection.py:139`) and
the renaming of a port.

### `ArchitecturePlane`

One workspace: `models` with their frozen baselines, `comps` and `rels`, and
`request[c]`, what client c has read and means to write.  Every request has a
connection of its own: it reads and checks statement by statement
(`CreateComponent`, `Reparent`, `DeleteSubtree`, `Fork`, ...) and then writes in
one transaction, in which only foreign keys are checked again
(`WriteComponent`, `WriteParent`, `EraseSubtree`, `WriteFork`, ...).  `fork`
reads components, relations and the mappings of each component as separate
steps.  `Diff` is `compute_diff`; `Current` and `Applied` say what a reader
makes of it.  Identities are numbers given out once.  Abstracted: what a
component says is one value, labels, layouts, annotations, whether a mapped
entity is still in the index, and how many rows one and the same relation has:
`compute_diff` keys relations by their ends and kind in a dictionary
(`archmodel.py:155`), so that duplicates count as one, and `Content` does the
same.

## 4. What is checked

| Run | Bounds | Shows |
|---|---|---|
| `index_jobs` | 2 jobs, 3 revisions, writes may be lost | types; a durable *done* names the job's own revision (`DoneRowNamesOwnRevision`); rows only move forward and not for lost jobs (`RowsMoveForward`); every enqueued job settles (`EnqueuedJobSettles`) |
| `lifecycle_evidence` | 1 client, 2 jobs, 2 revisions, 2 flow contents, writes may be lost, versions up to 9, required test | types; the recorded revision is the output of the linked job (`ObservationIsJobOutput`); verified only by a passing test of this design and revision, not of an earlier observation (`VerifiedByTest`); a matched change rests on a comparison of its design and revision and on an LVS that set out from its flow content, a verified one on an LVS of this very revision (`EvidenceChain`) |
| `lifecycle_contract` | 2 clients, 1 job, 1 revision, 1 approval, versions up to 8, required test and approval | a change is closed under an approval of the version closed (`ClosedUnderApproval`); commands behave as if indivisible (`ImplementsContract`); the design is frozen after begin, however late a planning command lands (`DesignFrozen`) |
| `git_workspaces` | 1 workspace, 1 integration, 2 edits (1 out of scope), 1 human commit, 2 revisions, 1 MCP call | types; only work in scope reaches the target (`TargetInScope`); what is recorded as merged or observed is (`MergeIsReal`); an audited branch is merged only into the target it was audited against (`MergedFromAuditedTarget`); no copy of the registry writes off a worktree that is still there (`RetiredIsGone`) |
| `build_recovery` | 3 executions, one at a time, of which 1 a test; 2 contents; 1 application; versions up to 7; two troubles | types; PASS was earned on the inputs it names (`PassIsEarned`); a fixed build ends a chain of attempt, application and attempt (`FixedBuildHasLineage`); a verified repair is of the change as it stands (`VerifiedRepairIsTheChange`); executions end (`ExecutionsEnd`) |
| `sync` | 1 file of both kinds and 1 of kernel only, 4 contents of 3 evidences and 2 signatures, revisions up to 2, 3 edits, 2 troubles | types; an acknowledged digest is shown (`AcknowledgedIsProjected`); a committed revision shows the source, and a verdict that is not STALE was made for the signature the file has (`CommitIsComplete`) |
| `provider` | 2 analyses, 1 revision both want, 2 batches, 2 runs, 1 edit, 1 trouble | types; what is published is of one reading and as many batches as were counted (`PublishedIsWhole`); CURRENT is there (`CurrentIsThere`); cached facts are fresh (`UndisturbedFactsAreFresh`); published revisions stay (`RevisionsAreImmutable`); runs end unless a write blocks (`RunsEnd`) |
| `index` | 3 files with 2 or 3 contents each, 3 revisions, 2 edits, 1 upgrade, PostgreSQL | types; an incremental revision is the full one and can be built (`IncrementalIsSound`); receipts are of the facts (`ReceiptsAreOfTheFacts`); one parent has one published child (`LineageIsLinear`) |
| `flow_netlist` | 3 functions with 4 calls, one of itself, 2 further blocks; 3 requests of one client, or one each of two | types and foreign keys; no cycle until a block is written by an overtaken request (`HierarchyIsAcyclic`); an encapsulation nobody overtook is the same wiring behind a boundary (`EncapsulationIsSound`) |
| `flow_composite` | 4 functions, one encapsulation | a statement of the code that does not hold (section 6) |
| `architecture` | 3 requests of 3 clients, 3 nested components, 2 relations, 1 mapped entity, 1 proposal | types and composite keys (`ArchTypeOK`); a diff is exact (`DiffIsExact`); a new proposal differs in nothing from its baseline (`ForkStartsEmpty`) |
| `index_declarations` | a header, a unit and a third file, 2 edits, 3 revisions | a statement of the code that does not hold (section 6) |

**Why the bounds are enough.**  The shortest life of a change is seven
commands (plan, begin, request, adopt, evaluate, verify, close) after the
opening, that is version 8, so every state up to CLOSED is reached; two clients
give every overlap of a command with the one it races with; a second
revision is what another publisher needs to get between the request and the
adoption; a second flow content is what drift needs, also between the two reads
of an evaluation.  In `lifecycle_evidence` a second job follows a repair, so that
a change adopts twice and a test of the first observation is there when the
second is to be verified: six commands with the first job, three with the
second, version 9 at the verification.  One client is enough for that, as what
interferes are jobs, publishers and editors; what two clients do to each other
is `lifecycle_contract`.  The lifecycle is split into two runs
because tests, flow contents and approvals multiply the state space and no
property needs all of them at once; two approvals, of equal timestamps or not,
are beyond these bounds and covered by the proofs.  Clients are interchangeable, and the runs
use that symmetry; they check no liveness property under it.

In `git_workspaces` the human commit can fall on the target or on the
integration, at every step; two revisions leave room for a publication besides
the first; the MCP call holds a second copy of the registry while the server
merges, retires and restarts.  A second integration of the same work, which
one merge makes stale, is covered by the proofs, as any other number is.

A whole repair is a failed build, an application, a rebuild and a test: three
executions.  `MCBudgets` gives a behaviour either those without trouble, or one
execution with any trouble and with pipes that close apart from the child, or
two executions with the troubles that concern more than one of them, up to
`MaxTroubles` troubles in a behaviour; the
proofs have no such split and no such number.  In `sync` three revisions let a broken-off sync be
followed by two more; two troubles let it break off twice; a file of kernel
kind only is what the two digest comparisons can disagree on.  In `provider`
two runs are what it takes to publish the same revision twice and to share a
cache entry; two batches are needed to lose one and still send one, or to leave out the last and not count it.  In `index`
two edits move a name from file to file or break and mend a file, and the
third revision is built on a copy of a copy.  In `flow_netlist` three requests
nest two composites, or encapsulate what was reparented, with a failure at any
write; two clients with one request each overtake each other at every write, in
an encapsulation too.  Two that move two blocks under each other close a cycle,
which the code does not prevent: it needs two composites first, that is more
requests than the run has of two clients, and is what `raced` leaves out of
`HierarchyIsAcyclic` in the proof.  `EncapsulationLosesNothing`
leaves out the states in which a walk is cut off by `MaxDepth`; with 8, no state
of this instance in which an encapsulation is done is one of them.  In
`architecture` the three
requests can be a fork and two edits that overtake it, of the source or of the
proposal; the nested components put a parent after its child, so that copying
in one pass would lose it.

**Bounds named in the modules.**  `MaxRevisions`, `MaxVersion`, `MaxFlow`,
`MaxApprovals`, `MaxTime`, `MaxPublished`, `MaxExecutions`, `MaxRunning`,
`MaxCanonical`, `MaxTests`, `Budgets`, `MaxRevision`, `MaxEdits`,
`MaxTroubles`, `MaxRuns`, `MaxUpgrades`, `MaxRequests`, `Batches`, `Allowances`.  (`MaxDepth` is the
code's own.)  `MaxTime` 1 with more
than one approval would hide timestamp order, so it is used only with at most
one approval.

**Fairness.**  `JobsSpec` assumes weak fairness of every job's thread: the
operating system runs started threads and an index run ends (the code has no
loop in it that waits for another thread; the process may still die, which the
property allows for).  `FairSpec` of `BuildRecovery` assumes that the threads of
executions run, that time passes, and that a child nobody has stopped and that
has time left ends or closes its pipes; once it was stopped nothing is assumed
of it, because it may ignore the signal and hold its pipes for ever.
`FairSpec` of `ProviderHost` asks only the host's threads to run, whose waits
for messages and for the exit have deadlines, and nothing of the providers: a
write that blocks until the provider reads may block for ever, and `RunsEnd`
promises an end only to a run that is not, or no longer, in one.  It is of
providers that send at most `Batches` batches, as the code has a deadline for
each message and none for the run (`provider_protocol/host.py:374`).  Clients, publishers, editors and
every other specification have no fairness: no command has to be called.

**Deadlock** is allowed where a behaviour has used up its bounded edits,
troubles or requests and nothing is left to do (`sync`, `provider`, `index`,
`flow_netlist`, `flow_composite`, `architecture`,
`index_declarations`); the others check for it.

**Mutants.**  Each module holds a few definitions marked *Slip*: a plausible
wrong version of the definition that follows (a missing guard, a version check
that compares the state, an approval of any version).  Nothing in the
specifications uses them where they differ from the code; they show that each
property notices the mistake it is there for.

## 5. What is proved

The modules named `...Proofs` are checked by TLAPS from the named assumptions
of the modules they extend only: any number of jobs, clients, workspaces, MCP
calls, files, analyses, any bounds, with or without lost writes.

* `JobsTypeCorrect`, `DoneRowsNameOwnRevision`, `JobsPublishOnce`,
  `RowsOnlyMoveForward`.
  `DoneRowNamesOwnRevision` is not inductive: when the row is about to be
  written, the revision it will name is still only in the thread.
  `OwnRevisionInv` adds that a job which has not published has no revision in
  the lineage, that a thread holding a result holds its own revision if it
  published one, and the same of the row it wrote; publication by another job
  appends and so disturbs none of it.  For `RowsMoveForward`, `RowBehindWorker`
  says that the row is never ahead of the thread that writes it.
* `TypeCorrect`, `LinkedJobsAreBound`, `DesignStaysFrozen`,
  `ReceiptsChain`.  None of these is inductive on the stored change alone,
  because a pending request carries a change computed earlier.  The inductive
  invariant `IInv` says that the stored change is *sound* (`Sound`: evidence
  chain, job bound to design, the facts about states they need) and, of every
  pending command, that if the stored version is still the one it read then
  what it is about to install is sound and follows from the stored change
  (`RequestInv`).  Every command establishes that for its own request
  (`CommandIssues` and the lemma of each command before it); an evaluation
  between its two reads has compared its own design and revision
  (`Comparable`); a commit of another client raises the version and so
  makes the condition false for the rest, which is exactly what the
  compare-and-swap is for.
* `EvidenceChainHolds`, `ObservationsAreJobOutputs`, `VerdictsAreTested`,
  `ClosuresAreApproved`.
  Here the stored change rests on records outside it: rows of jobs, the
  lineage, test receipts, approvals.  `FullInv` joins `IInv`, the invariants of
  `IndexJobs` and `ProvenInv`: the records named by the stored change, and by
  every change that is pending, exist, and LVS compared no revision older than
  the actual one (`Compared`): CURRENT only grows, so that an actual revision
  which is still current when the change is verified is the one LVS read.  Rows
  that are done stay as they are and
  the other records only grow, so that it goes on holding whatever happens
  between the reading of a command and its commit.
* `LifecycleImplementsContract`.  A commit must be a
  legal step of `ChangeContract` from the change stored *then*; the command
  checked the one it read.  `LegalInv` says of every pending command whose
  version is still the stored one that its installation would be such a step,
  and that the base of a change is a published revision; all other steps
  stutter or let the world move, which the contract allows.
* `GitTypeCorrect`, `RetiredWorktreesAreGone`, `TargetStaysInScope`.
  `RetiredIsGone` speaks of two copies of the registry, but a third, held by an
  MCP call, can replace the file and with a restart the memory.
  `RetirementInv` says of all of them that what they call retired was removed,
  which stays true as nothing removed comes back, and that a retirement about
  to be recorded has been done.  For `TargetInScope`, `ScopeInv` follows an
  edit from where it is made: a branch holds no out-of-scope edits but its
  own; a submission judged in scope holds none, because what it added to its
  base was looked at and its base was part of the target; integrations and the
  target then only ever unite commits without any.  The branch goes on
  changing, the submitted commit does not: that is the step a version that
  integrates branches fails at.
* `MergesAreReal`, `MergesComeFromAuditedTargets`.  `MergeInv` says where a
  commit made by a human or by a merge is: on one branch only, until that branch
  reaches the target.  So once the target has moved past the one an integration
  was built on, it contains a commit the integration does not, and can never be
  fast-forwarded to it again; and a merge that is recorded has happened, as
  target and branches only grow.
* `SyncTypeCorrect`, `AcknowledgedFilesAreProjected`,
  `CommittedRevisionIsComplete`.  The promises of `SyncPublish` are about calls
  that are over, so the invariant is about calls in progress.  `SyncInv` says,
  for every settled file, that the entities in the store are those its digest
  stands for and that the active projections show either these or the file as
  it is, these if no call is open (`Shown`); and what each step of an open call
  has made true (`Brought`): a file is among the changed ones or its digest is
  right, what is staged is of the source, what is swapped shows it, and what is
  about to be committed is in the store.  `Fresh` says of the verdicts that the
  unmarked ones are about the signatures in the store, once there is a baseline;
  a call in progress knows the files whose signatures differ from it, and marks
  them before it saves.  A call that raises before its save
  leaves the old store, whose digest the new content does not match.
* `ProviderTypeCorrect`, `WhatIsPublishedIsWhole`, `CurrentNamesARevision`,
  `CachedFactsAreFresh`, `PublishedRevisionsStay`.  `PublishedIsWhole` depends
  on a completion that may still be in a pipe: `HostInv` says of every session
  that all batches sent, under way and received are of one reading (`OneReading`),
  and that what was received has no gap, and of a run past its completion that it
  has as many as the completion counted (`Decided`); a batch lost in between leaves
  a gap that is refused or a count that does not agree.
  `FreshInv` follows facts from the reading to the cache entry: unless a file
  was edited in between, what the provider saw, its facts and its entry agree,
  and so does every entry published.

* `RecoveryTypeCorrect`, `PassesAreEarned`, `FixedBuildsHaveLineage`,
  `VerifiedRepairsAreOfTheChange`.  The properties of `BuildRecovery` are about
  records a chain of other records leads to, written at different times.
  `RepairInv` joins two invariants.  `ExecInv` is about the runs: one that still
  says completed has lost no output and, once bound for a receipt, was invoked
  on unchanged inputs (`RunSound`), and what was published was earned.  `RecInv`
  says of every call in progress what it has already checked (`ApplicationOK`,
  `ClaimingOK`, `ChangeOK`) and of every attempt that its lineage - the attempt
  before it, the application between them and the files of both - is recorded
  (`AttemptOK`, `Chain`).  The argument is that records are published once and
  never taken back (`RecordsGrow`, `ReceiptsStay`), hence what a step does not
  write goes on holding (`RecordsKeep`), and each step only answers for the one
  record it adds.

* `KeysAlwaysHold`, `DiffIsAlwaysExact`, `ForksStartEmpty`.  What a request will
  write was read before others wrote, and the keys are checked where it is
  written, so `RequestsInv` says little more of a request than its types: what a
  fork has read is one model's rows, whatever became of them since.  The guard
  of the database that a component with children stays is what carries the
  deletion of a subtree.  `DiffIsExact` needs that no two components of a
  proposal go by one name (`NamesAreUnique`): a fork gives each source one copy,
  and nothing else gives an origin.  Then working components and names
  correspond one to one, and each of the seven parts of the diff is matched with
  what it changes.  For `ForksStartEmpty`, `ForkLeaves` says what a fork writes:
  ranks map what was read to the identities of the copies one to one.

* `TypesAlwaysHold`, `ReceiptsAlwaysMatch`, `IncrementalIsAlwaysSound`,
  `LineageIsAlwaysLinear`.  `IncrementalIsFull` compares CURRENT with a full run
  over what was read last, and is inductive only together with what the next
  run relies on: rows and graph are those of the files as last read (`StandsFor`), the source a
  receipt names yields the facts it is for, in CURRENT and in the issuer's copy
  (`SupportHolds`), that copy equals CURRENT's graph while its base is CURRENT
  (`CopyHolds`), and on PostgreSQL nothing is indexed between the issuer's check
  and its publication (`LockHolds`).  `IndexInv` joins these and
  `GraphIsFull`.  The step that builds a revision is the lemma `DeltaIsFull`:
  the nodes agree because a symbol belongs to one file (`DeltaUnshared`); the
  edges of a file that was not rebuilt agree because nothing they resolve
  against has changed (`EdgesAgree`), and that is what the closure is for, one
  lemma for each way in which a file can depend on another (`UsersAreClosed`,
  `ImportersAreClosed`, `IncludersAreClosed`).  A call that resolves through an
  include agrees because nothing in the include closure of its file has changed,
  or the file would be an includer (`IncludeClosuresAgree`).  `NothingDangles` shows from the
  same closure that no foreign key refuses the revision.  The last two theorems
  assume `Postgres`: on SQLite `begin` takes no lock, and the issuer may put the
  graph of its base in the place of a newer one.

* `FlowTypesHold`, `HierarchyStaysAcyclic`, `EncapsulationStaysSound` (and
  `BoundaryStaysClosed`, its second half).  They are of any number of clients.
  The keys hold however requests overtake each other, because the store checks
  them where it writes.  With two requests at once, two blocks can be put under
  each other, as each is checked before the other writes
  (`flow/service.py:287`): a cycle there has been written by an overtaken
  request, and `raced` records that one was.
  `FlowInv` joins the keys (`TypesHold`), the forest as long as nothing `raced`,
  and `RequestsHold`: of a request nobody has overtaken, the row it has read is
  the row there is (`RowOK`), an edit that waits to write was checked against
  the blocks as they still are (`MayEdit`), and a composite under way is a root
  and not one of its own children (`BoxOK`); of one that was, only the types
  (`RequestTyped`).  Each step of a client leaves its own request so, and every
  other request overtaken or untouched (`OnlyRequest`).
  The forest is kept by one lemma for each way blocks change: a block is put under
  what is not below it, a new block has no children, and the children of a block
  that goes move up to its parent (`MovingKeepsForest`, `AddingKeepsForest`,
  `ErasingKeepsForest`); each shows a set that is closed under children and has no
  room for the block's own parent.  `BoundaryOK` says of a composite under way that
  a net across its boundary passes by the composite or is still to be deleted:
  every such net is among the crossing ones (`CrossingIs`), the plan deletes each
  of these (`CompositeWritesAre`), and whatever it adds has an end at the
  composite.
  `EncapsulationLosesNothing` compares two netlists many writes apart, and in
  between neither holds: `Wired` therefore keeps, under a quantifier, the netlist
  the composite was planned from, and calls what has been written so far a
  `Drawing` of it.  Every net of the start is there and not to be deleted, or its
  two halves are there or still to be written; every other net is such a half; and
  a half is passed over only if it is there, because the port it ends at was
  written before it (`Orderly`).  `PlanIs` shows that the plan is the beginning of
  a drawing, `DrawingGoesOn` that each write continues it, `WiringStep` that a write of another
  client takes nothing from a request that is not overtaken, and when nothing is left
  the netlist is the old one with a box in it (`Boxed`).  `NothingIsLost` then
  compares the two: a walk of the old netlist is one of the new that makes a detour
  through the box.  Walks are least sets there (`WalkKeepsTo`, `WalkLifts`): what
  the recursive function finds after k nets is compared at the least k at which the
  claim would fail (`LeastNatural`), which needs no induction over data.

**Only model-checked:** `EnqueuedJobSettles`, `ExecutionsEnd` and `RunsEnd`
(liveness is out of the prover's reach).

## 6. Where the code disagrees with itself

The run `index_declarations` shows one: `indexer.py:10` says that "unchanged
facts are copied into the new snapshot", and `adapters/c_adapter.py:3` that "a
header declaration and its .c definition merge into one canonical node".  The
row of that node carries the path of the definition.  When an edit drops the
definition, the incremental run deletes the node by its path
(`pg/pgstore.py:368`, `db.py:332`), and with it the declaration of a header that
did not change; a full run keeps it.  The calls that resolved to it were
rebuilt in the closure and are unresolved now.

The run `flow_composite` shows another: `flow/service.py:448` says that after an
encapsulation "hierarchy navigation and the LVS-like check stay truthful at
every level".  Crossing nets are grouped by port name, direction and kind
(line 504), so that ports of the same name of two children share one port, and
the comparison then expects every outside caller of one to call the other.

Met while modelling, kept in the models, without a run of their own:

1. `server/jobs.py:95`: "a job failure must not kill the process; the repo keeps its last good snapshot".  An exception after the publishing commit of the index run
   (`indexer.py:532-540`, or the close of the store) fails the job and leaves
   its revision current.
2. `design_lifecycle/service.py:874`: preflight is a "read-only view of the same
   state and close gates used by commands".  For adoption it leaves out the
   check of parent and run, and offers what the command refuses.
3. `design_lifecycle/service.py:360`: "prior index job is active" is also the
   answer when that job is done and its result can never be adopted.  The
   change can then only be abandoned.
4. `git_workspace.py:160`: "agent task already has a writable worktree".  The
   guard before it compares an agent's name with principals that are generated
   for each workspace, and never refuses.
5. `mcp/server.py:1832` and `1857`: two tools that call themselves reads save
   the whole registry they loaded; a merge the server recorded meanwhile is
   lost from `state.json`.
6. `git_workspace.py:552`: "fast-forward the target only after owner auth +
   current eligibility".  The head is compared, then the branch is merged by
   name: a commit in between is merged unaudited.
7. `git_workspace.py:613` compares the head of the target with the merged
   commit before the index run, which reads the worktree as it is by then and
   labels it with that commit (`IndexMerged`), although
   `git_integration_authority.py:326` speaks of one exact SHA.
8. `server/api/workspaces.py:14`: "hierarchy cycles are rejected at the service
   layer".  The walk up from the new parent (`design_lifecycle/service.py:698`)
   is outside the transaction of the write, so two requests that put two
   components under each other both pass it.  On the cycle the recursive query
   of `_subtree_rows` (`db.py:1421`) never ends (`Endless`, `DeleteSubtree`).
9. `build_recovery.py:336` accepts an application while the change is PLANNED
   or EVIDENCE_MATCHED; the lifecycle then records one only while IMPLEMENTING.
10. `flow/service.py:448`: the check stays "truthful at every level".
   `compare_flow` gives up below eight nets without a word
   (`flow/domain.py:202`, `220`): a path through more composites counts as no
   connection (`Exhausts`).

**Further hazards**, which no property covers and for which the code has no
answer that could be stated as one.  The models contain the behaviour unless
said otherwise.

* Lifecycle: a job that is done but cannot be adopted, or a new revision
  published while the change is EVIDENCE_MATCHED or VERIFIED, strands the
  change (`service.py:354`, `448`); a repair recorded while a job runs is
  covered by that older job's result (`340`); close reads approvals and CURRENT
  before its compare-and-swap, which looks at neither (`488`); the flow is edited
  between the digest and the reading of LVS, which then matches other content
  under the old digest (`1295`); two approvals of one millisecond are ordered by
  random identity (`123`); a change without
  criteria can be verified and never closed (`1434`); with a diverged lineage
  `_active_revision` picks the newest tip (`1345`; `LineageIsLinear` says when
  there is none).
* Git: the fast-forward and the state file are two writes, and a crash between
  them leaves a merge nobody records (`git_workspace.py:586`); the integration
  branch is merged by name and may have moved since it was checked (`586`); a worktree added but never recorded stays (`git_workspace.py:425`); an
  observation that fails is final (`620`); the audit judges the design revision
  of its moment (`git_integration_authority.py:169`); an owner session may end
  between the check of the route and the merge (`local_owner_auth.py:119`, not
  modelled).
* Executions: inputs that change and change back under a run are not seen
  (`execution_authority.py:348`); build recovery reads the source once for the
  files an attempt names and again for the revision the execution must find
  (`build_recovery.py:225`).
* Sync: a failed sync followed by a hand-made revert leaves artefacts the next
  delta does not look at (`sync/__init__.py:575`); nothing keeps two syncs
  apart (`545`, not modelled); a removed file makes the comparison raise
  before failures are recorded (`192`).
* Providers: the Clang provider never answers a cancel, so a cancelled run
  fails (`provider_protocol/host.py:343`); `publish` may raise after CURRENT
  moved (`299`); a staging directory left active makes the next run of that
  identity raise (`staging.py:27`); the deadline is per message (`host.py:378`,
  batches are finite in the model); a write to a provider that does not read
  blocks for ever (`366`); a provider that leaves out its last batch and counts
  what it sent is believed (`407`).
* Index: a deleted file is never in the difference (`indexer.py:574`); after an
  edit of a comment and an upgrade every run raises until a file changes
  (`225`); on SQLite `begin` does nothing (`db.py:101`) and the issuer's check
  is outside a write transaction.
* Flow: two requests that move two blocks under each other close a cycle
  (`flow/service.py:287`), on which every walk over the hierarchy runs for ever;
  a crossing net is deleted and put back as two, and a request that dies
  in between loses it (`flow/service.py:543`); after a write-back whose re-index
  failed, a retry finds its own file and is refused (`flow/writeback.py:68`, not
  modelled).
* Jobs: what follows the publishing commit may raise, and the job is reported
  failed with its revision current (`indexer.py:534`); the server may die between
  the commit of a re-index request and the enqueue
  (`server/api/design_lifecycle.py:252`).
* Synthesis: `apply_patches` says "no write performed" although the patches
  before the failing one are written (`synthesis/verifier.py:154`, not
  modelled).

## 7. Not modelled, and why

* **Parsers, extractors and inference** (Clang and Fortran facts, kernel,
  source spans, flow and module inference, data interfaces, library coverage,
  runtime alignment): text and batch processing without concurrent state.
* **Front ends and release checks** (MCP tools, REST plumbing, command line,
  web): they call the services modelled here; where a handler has more than
  one step it is modelled with the service.
* **Pure comparisons** (`drc/`, `lvs/`): functions of one stored flow and one
  graph, free verdicts in `DesignLifecycle`; planned.
* **Synthesis, local owner sessions**: see the plan.
* **Within modelled components**: of the lifecycle, expected-source
  preservation, the blame and projection reads, and the commands RecordReindex
  and RunReindex, which always refuse; of the indexer, spans and derived
  containment; of synchronisation, two syncs at once and the check for stale
  flows; of the provider protocol, framing and negotiation; of the flow plane,
  documents, layout, write-back, the expansion mutation and the renaming of a
  port; of the architecture plane, layouts,
  annotations and the view of impact; of executions, those in a git worktree.

`PROJECT.json` lists the hazards the properties are for, and those left open
that matter most.
