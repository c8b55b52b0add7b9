---------------------------- MODULE ProviderHost ----------------------------
(***************************************************************************)
(* The sessions of the provider host with its external providers           *)
(* (provider_protocol/host.py, staging.py), the store they publish to      *)
(* (provider_arch/publication.py) and the Clang provider with its cache of *)
(* one translation unit (clang_provider/process.py, incremental.py).       *)
(*                                                                         *)
(* Host and provider talk over two pipes.  Analyses run in threads of one  *)
(* program; their providers share the cache, they share the store.  Files  *)
(* are edited at any time; a provider may hang, die, lose a batch or count *)
(* wrongly; a write to the store may fail; the program may die.            *)
(***************************************************************************)
EXTENDS Naturals, Sequences

CONSTANTS
  Analyses,     \* analysis identities
  Revisions,    \* revisions callers ask to publish
  None,         \* no revision, no entry
  Batches,      \* fact batches of a whole analysis; no provider sends more
  MaxRuns,      \* bound on the runs of the host
  MaxEdits,     \* bound on edits of the files
  MaxTroubles   \* bound on faults of providers, of the store, of the program

ASSUME ProviderAssumption ==
  /\ None \notin Revisions
  /\ Batches \in Nat /\ Batches > 0
  /\ MaxRuns \in Nat /\ MaxEdits \in Nat /\ MaxTroubles \in Nat

VARIABLES
  source,    \* what the translation unit is compiled from
  cache,     \* current.json of the cache root: the entry of the unit
  provider,  \* the provider process of each analysis
  toHost,    \* its standard output
  toProvider,\* its standard input
  host,      \* the run of each analysis: the locals of run_analysis
  staging,   \* which directories of an analysis exist
  revisions, \* revisions/ of the store
  current,   \* CURRENT.json
  budget,    \* runs, edits and troubles left
  blurred    \* a file was edited while a provider was reading (history)

store == <<revisions, current>>
pipes == <<toHost, toProvider>>
vars == <<source, cache, provider, pipes, host, staging, store, budget,
          blurred>>

(* One source and one header; the facts of the unit are those of both.     *)
Inputs == [source : {0, 1}, header : {0, 1}]
Facts == Inputs
Entry == [identity : {0, 1}, digests : Inputs, facts : Facts]

Gone == [step |-> "gone"]
Session ==
  [step : {"hello", "analyze", "load", "parse", "digest", "send",
           "shutdown", "acknowledge", "cancelled"},
   seen : Inputs \cup {None}, facts : Facts \cup {None},
   entry : Entry \cup {None}, sent : 0..Batches]
Provider == {Gone} \cup Session \cup [step : {"exited"}, code : {0, 1}]

Parts == 0..(Batches - 1)
Statuses == {"COMPLETE", "PARTIAL", "FAILED"}
Plain(type) == [type |-> type]
Batch(n, facts) == [type |-> "fact_batch", sequence |-> n, facts |-> facts]
Complete(status, n) ==
  [type |-> "analysis_complete", status |-> status, batch_count |-> n]

Requests == {Plain(t) : t \in {"hello", "analyze", "cancel", "shutdown"}}
PlainAnswers == {Plain(t) : t \in {"hello_ack", "analysis_started",
                                   "cancelled", "shutdown_ack"}}
Answers(facts) ==
  PlainAnswers \cup {Batch(n, f) : n \in Parts, f \in facts}
  \cup {Complete(s, n) : s \in Statuses, n \in 0..Batches}

(* In "write" the host is inside _send, with more than the pipe holds.     *)
Waits == {"hello_ack", "write", "analysis_started", "loop", "shutdown_ack",
          "exit", "cancelled", "cancel shutdown_ack", "cancel exit"}
Publishes == {"prepare", "replace", "point"}
Reports == {"PUBLISHED", "STAGED", "FAILED", "CANCELLED", "raised", "lost"}
Idle == [step |-> "idle"]
(* counted is the batch_count of completion.json. *)
Payload == [analysis : Analyses, rows : SUBSET (Parts \X Facts),
            status : Statuses, counted : 0..Batches]
Ended == [step : Reports]
Run == [step : Waits \cup Publishes, revision : Revisions,
        cancelled : BOOLEAN, count : 0..Batches,
        rows : SUBSET (Parts \X Facts), status : Statuses \cup {None},
        counted : 0..Batches]

(* No payload is None.                                                     *)
ASSUME NoneAssumption == None \notin Payload

ProviderTypeOK ==
  /\ source \in Inputs
  /\ cache \in Entry \cup {None}
  /\ provider \in [Analyses -> Provider]
  /\ toHost \in [Analyses -> Seq(Answers(Facts))]
  /\ toProvider \in [Analyses -> Seq(Requests)]
  /\ host \in [Analyses -> {Idle} \cup Ended \cup Run]
  /\ staging \in [Analyses -> SUBSET {"active", "failed"}]
  /\ revisions \in [Revisions -> Payload \cup {None}]
  /\ current \in Revisions \cup {None}
  /\ budget \in [runs : 0..MaxRuns, edits : 0..MaxEdits,
                 troubles : 0..MaxTroubles]
  /\ blurred \in BOOLEAN

Init ==
  /\ source = [source |-> 0, header |-> 0]
  /\ cache = None
  /\ provider = [a \in Analyses |-> Gone]
  /\ toHost = [a \in Analyses |-> <<>>]
  /\ toProvider = [a \in Analyses |-> <<>>]
  /\ host = [a \in Analyses |-> Idle]
  /\ staging = [a \in Analyses |-> {}]
  /\ revisions = [r \in Revisions |-> None]
  /\ current = None
  /\ budget = [runs |-> MaxRuns, edits |-> MaxEdits, troubles |-> MaxTroubles]
  /\ blurred = FALSE

Running(a) == host[a].step \in Waits \cup Publishes
Trouble ==
  /\ budget.troubles > 0
  /\ budget' = [budget EXCEPT !.troubles = @ - 1]

(***************************************************************************)
(* The files                                                               *)
(***************************************************************************)

Reading == \E a \in Analyses : provider[a].step \in {"parse", "digest"}

Edit ==
  /\ budget.edits > 0
  /\ budget' = [budget EXCEPT !.edits = @ - 1]
  /\ \/ source' = [source EXCEPT !.source = 1 - @]
     \/ source' = [source EXCEPT !.header = 1 - @]
  /\ blurred' = (blurred \/ Reading)
  /\ UNCHANGED <<cache, provider, pipes, host, staging, store>>

(***************************************************************************)
(* The provider process                                                    *)
(***************************************************************************)

(* Nobody reads the output of a process whose host is gone. *)
Connected(a) == Running(a)

ProviderGoes(a, step) == provider' = [provider EXCEPT ![a].step = step]
Exit(a, code) ==
  provider' = [provider EXCEPT ![a] = [step |-> "exited", code |-> code]]
Say(a, message) == toHost' = [toHost EXCEPT ![a] = Append(@, message)]
Heard(a) == Head(toProvider[a]).type
Hears(a) ==
  /\ toProvider[a] # <<>>
  /\ toProvider' = [toProvider EXCEPT ![a] = Tail(@)]
ByProvider == UNCHANGED <<source, host, staging, store, blurred>>

AnswerHello(a) ==
  /\ provider[a].step = "hello" /\ Connected(a) /\ Hears(a)
  /\ Say(a, Plain("hello_ack"))
  /\ ProviderGoes(a, "analyze")
  /\ ByProvider /\ UNCHANGED <<cache, budget>>

BeginAnalysis(a) ==
  /\ provider[a].step = "analyze" /\ Connected(a) /\ Hears(a)
  /\ Say(a, Plain("analysis_started"))
  /\ ProviderGoes(a, "load")
  /\ ByProvider /\ UNCHANGED <<cache, budget>>

(* Slip: dependencies are not compared. *)
StandsByIdentity(entry) == entry # None /\ entry.identity = source.source

(* An entry stands when neither the identity of the unit nor the digest of *)
(* a dependency moved.  The source itself is among the dependencies.       *)
Stands(entry) ==
  /\ entry # None
  /\ entry.identity = source.source
  /\ entry.digests = source

LoadUnit(a) ==
  /\ provider[a].step = "load"
  /\ provider' = [provider EXCEPT
       ![a].step = IF Stands(cache) THEN "send" ELSE "parse",
       ![a].seen = source,
       ![a].facts = IF Stands(cache) THEN cache.facts ELSE @,
       ![a].entry = IF Stands(cache) THEN cache ELSE @]
  /\ ByProvider /\ UNCHANGED <<cache, pipes, budget>>

ParseUnit(a) ==
  /\ provider[a].step = "parse"
  /\ provider' = [provider EXCEPT ![a].step = "digest", ![a].facts = source]
  /\ ByProvider /\ UNCHANGED <<cache, pipes, budget>>

(* The dependencies are digested after the unit was parsed, its identity   *)
(* is the one loaded before.                                               *)
DigestDependencies(a) ==
  /\ provider[a].step = "digest"
  /\ provider' = [provider EXCEPT
       ![a].step = "send",
       ![a].entry = [identity |-> provider[a].seen.source,
                     digests |-> source, facts |-> provider[a].facts]]
  /\ ByProvider /\ UNCHANGED <<cache, pipes, budget>>

(* Slip: one batch more. *)
SendBatchBeyond(a) ==
  /\ provider[a].step = "send" /\ Connected(a)
  /\ provider[a].sent <= Batches
  /\ Say(a, Batch(provider[a].sent, provider[a].facts))
  /\ provider' = [provider EXCEPT ![a].sent = @ + 1]
  /\ ByProvider /\ UNCHANGED <<cache, toProvider, budget>>

(* A faulty provider passes over a batch and numbers the next one truly.   *)
SendBatch(a) ==
  /\ provider[a].step = "send" /\ Connected(a)
  /\ provider[a].sent < Batches
  /\ \/ /\ Say(a, Batch(provider[a].sent, provider[a].facts))
        /\ provider' = [provider EXCEPT ![a].sent = @ + 1]
        /\ UNCHANGED budget
     \/ /\ Trouble
        /\ provider' = [provider EXCEPT ![a].sent = @ + 1]
        /\ UNCHANGED toHost
  /\ ByProvider /\ UNCHANGED <<cache, toProvider>>

(* The Clang provider completes with COMPLETE and its true count; another  *)
(* may leave its last batches out, counted or not, and report any status.  *)
SendComplete(a) ==
  /\ provider[a].step = "send" /\ Connected(a)
  /\ \/ /\ provider[a].sent = Batches
        /\ Say(a, Complete("COMPLETE", Batches))
        /\ UNCHANGED budget
     \/ /\ Trouble
        /\ \E s \in Statuses, n \in {provider[a].sent, Batches} :
             Say(a, Complete(s, n))
  /\ ProviderGoes(a, "shutdown")
  /\ ByProvider /\ UNCHANGED <<cache, toProvider>>

(* Anything but shutdown ends the Clang provider with a status of its own. *)
HearShutdown(a) ==
  /\ provider[a].step = "shutdown" /\ Hears(a)
  /\ IF Heard(a) = "shutdown" THEN ProviderGoes(a, "acknowledge") ELSE Exit(a, 1)
  /\ ByProvider /\ UNCHANGED <<cache, toHost, budget>>

PublishCache(a) ==
  /\ provider[a].step = "acknowledge"
  /\ cache' = provider[a].entry
  /\ IF Connected(a)
     THEN Say(a, Plain("shutdown_ack")) /\ Exit(a, 0)
     ELSE UNCHANGED toHost /\ Exit(a, 1)
  /\ ByProvider /\ UNCHANGED <<toProvider, budget>>

(* A provider of rpp/1 that listens while it sends, as Clang's does not.   *)
AnswerCancel(a) ==
  /\ provider[a].step \in {"send", "shutdown"} /\ Connected(a) /\ Hears(a)
  /\ Heard(a) = "cancel"
  /\ Say(a, Plain("cancelled"))
  /\ ProviderGoes(a, "cancelled")
  /\ ByProvider /\ UNCHANGED <<cache, budget>>

CloseCancelled(a) ==
  /\ provider[a].step = "cancelled" /\ Connected(a) /\ Hears(a)
  /\ Say(a, Plain("shutdown_ack"))
  /\ Exit(a, 0)
  /\ ByProvider /\ UNCHANGED <<cache, budget>>

(* It dies: an exception, a signal, or its host is gone. *)
ProviderDies(a) ==
  /\ provider[a].step \notin {"gone", "exited"}
  /\ IF Connected(a) THEN Trouble ELSE UNCHANGED budget
  /\ Exit(a, 1)
  /\ ByProvider /\ UNCHANGED <<cache, pipes>>

ProviderStep(a) ==
  \/ AnswerHello(a) \/ BeginAnalysis(a)
  \/ LoadUnit(a) \/ ParseUnit(a) \/ DigestDependencies(a)
  \/ SendBatch(a) \/ SendComplete(a)
  \/ HearShutdown(a) \/ PublishCache(a)
  \/ AnswerCancel(a) \/ CloseCancelled(a)
  \/ ProviderDies(a)

(***************************************************************************)
(* The host                                                                *)
(***************************************************************************)

ByHost == UNCHANGED <<source, cache, blurred>>
Goes(a, step) == host' = [host EXCEPT ![a].step = step]
Ends(a, report) == host' = [host EXCEPT ![a] = [step |-> report]]
Send(a, type) == toProvider' = [toProvider EXCEPT ![a] = Append(@, Plain(type))]
Hangup(a) ==
  /\ provider' = [provider EXCEPT ![a] = Gone]
  /\ toHost' = [toHost EXCEPT ![a] = <<>>]
  /\ toProvider' = [toProvider EXCEPT ![a] = <<>>]

(* The staging directory is made before the try: one left in active/ makes *)
(* the call raise.                                                         *)
RunAnalysis(a, r) ==
  /\ ~Running(a) /\ budget.runs > 0
  /\ budget' = [budget EXCEPT !.runs = @ - 1]
  /\ IF "active" \in staging[a]
     THEN /\ Ends(a, "raised")
          /\ UNCHANGED <<provider, pipes, staging>>
     ELSE /\ host' = [host EXCEPT ![a] =
               [step |-> "hello_ack", revision |-> r, cancelled |-> FALSE,
                count |-> 0, rows |-> {}, status |-> None, counted |-> 0]]
          /\ staging' = [staging EXCEPT ![a] = @ \cup {"active"}]
          /\ provider' = [provider EXCEPT ![a] =
               [step |-> "hello", seen |-> None, facts |-> None,
                entry |-> None, sent |-> 0]]
          /\ toProvider' = [toProvider EXCEPT ![a] = <<Plain("hello")>>]
          /\ toHost' = [toHost EXCEPT ![a] = <<>>]
  /\ ByHost /\ UNCHANGED store

(* The token is set by another thread and read between messages. *)
RequestCancellation(a) ==
  /\ host[a].step \in {"hello_ack", "write", "analysis_started", "loop"}
  /\ ~host[a].cancelled
  /\ Trouble
  /\ host' = [host EXCEPT ![a].cancelled = TRUE]
  /\ ByHost /\ UNCHANGED <<provider, pipes, staging, store>>

(* quarantine renames active/ to failed/: with the remains of an earlier   *)
(* failure there it raises, and the caller gets no result.                 *)
Quarantined(a, report) ==
  IF "failed" \in staging[a]
  THEN Ends(a, "raised") /\ UNCHANGED staging
  ELSE Ends(a, report) /\ staging' = [staging EXCEPT ![a] = {"failed"}]

(* The exception handler: kill, quarantine, report. *)
Fail(a) == Hangup(a) /\ Quarantined(a, "FAILED") /\ UNCHANGED store

Incoming(a) == Head(toHost[a])
Comes(a, step, type) ==
  /\ host[a].step = step
  /\ toHost[a] # <<>> /\ Incoming(a).type = type
  /\ toHost' = [toHost EXCEPT ![a] = Tail(@)]

(* The contract names the files and the flags of every unit: the pipe      *)
(* takes it whole, or the write waits, with no deadline.  The other        *)
(* messages are short, and are sent to a provider that read what went      *)
(* before.                                                                 *)
ReceiveAck(a) ==
  /\ Comes(a, "hello_ack", "hello_ack")
  /\ \/ Send(a, "analyze") /\ Goes(a, "analysis_started")
     \/ UNCHANGED toProvider /\ Goes(a, "write")
  /\ ByHost /\ UNCHANGED <<provider, staging, store, budget>>

(* A provider that reads while the host is writing lets the write return.  *)
DrainRequest(a) ==
  /\ host[a].step = "write" /\ provider[a].step = "analyze"
  /\ Send(a, "analyze") /\ Goes(a, "analysis_started")
  /\ ByHost /\ UNCHANGED <<provider, toHost, staging, store, budget>>

ReceiveStarted(a) ==
  /\ Comes(a, "analysis_started", "analysis_started")
  /\ IF host[a].cancelled
     THEN Send(a, "cancel") /\ Goes(a, "cancelled")
     ELSE UNCHANGED toProvider /\ Goes(a, "loop")
  /\ ByHost /\ UNCHANGED <<provider, staging, store, budget>>

(* The token is read before the queue is. *)
Listening(a) == host[a].step = "loop" /\ ~host[a].cancelled

ReceiveBatch(a) ==
  /\ Listening(a)
  /\ Comes(a, "loop", "fact_batch")
  /\ Incoming(a).sequence = host[a].count
  /\ host' = [host EXCEPT ![a].count = @ + 1,
       ![a].rows = @ \cup {<<Incoming(a).sequence, Incoming(a).facts>>}]
  /\ ByHost /\ UNCHANGED <<provider, toProvider, staging, store, budget>>

(* Slip: the batches are not counted. *)
AcceptableUncounted(a, completion) == completion.status # "FAILED"

(* _validate_completion *)
Acceptable(a, completion) ==
  /\ completion.batch_count = host[a].count
  /\ completion.status # "FAILED"

ReceiveComplete(a) ==
  /\ Listening(a)
  /\ Comes(a, "loop", "analysis_complete")
  /\ Acceptable(a, Incoming(a))
  /\ Send(a, "shutdown")
  /\ host' = [host EXCEPT ![a].step = "shutdown_ack",
                          ![a].status = Incoming(a).status,
                          ![a].counted = Incoming(a).batch_count]
  /\ ByHost /\ UNCHANGED <<provider, staging, store, budget>>

SendCancel(a) ==
  /\ host[a].step = "loop" /\ host[a].cancelled
  /\ Send(a, "cancel") /\ Goes(a, "cancelled")
  /\ ByHost /\ UNCHANGED <<provider, toHost, staging, store, budget>>

ReceiveCancelled(a) ==
  /\ Comes(a, "cancelled", "cancelled")
  /\ Send(a, "shutdown") /\ Goes(a, "cancel shutdown_ack")
  /\ ByHost /\ UNCHANGED <<provider, staging, store, budget>>

ReceiveShutdownAck(a) ==
  /\ \/ Comes(a, "shutdown_ack", "shutdown_ack") /\ Goes(a, "exit")
     \/ Comes(a, "cancel shutdown_ack", "shutdown_ack") /\ Goes(a, "cancel exit")
  /\ ByHost /\ UNCHANGED <<provider, toProvider, staging, store, budget>>

Exited(a) == provider[a].step = "exited"

SeeExit(a) ==
  /\ Exited(a) /\ provider[a].code = 0
  /\ \/ host[a].step = "exit" /\ Goes(a, "prepare") /\ UNCHANGED staging
     \/ host[a].step = "cancel exit" /\ Quarantined(a, "CANCELLED")
  /\ Hangup(a)
  /\ ByHost /\ UNCHANGED <<store, budget>>

(* A batch out of sequence, a completion that does not hold, a fact batch  *)
(* that was under way when cancelled is expected, a status other than 0.   *)
Refuse(a) ==
  /\ \/ /\ toHost[a] # <<>> /\ Listening(a)
        /\ \/ /\ Incoming(a).type = "fact_batch"
              /\ Incoming(a).sequence # host[a].count
           \/ /\ Incoming(a).type = "analysis_complete"
              /\ ~Acceptable(a, Incoming(a))
     \/ /\ toHost[a] # <<>> /\ host[a].step = "cancelled"
        /\ Incoming(a).type # "cancelled"
     \/ /\ host[a].step \in {"exit", "cancel exit"}
        /\ Exited(a) /\ provider[a].code # 0
  /\ Fail(a)
  /\ ByHost /\ UNCHANGED budget

(* Slip: only a closed stream ends the wait. *)
HearStreamEnd(a) ==
  /\ host[a].step \in Waits \ {"write"} /\ toHost[a] = <<>> /\ Exited(a)
  /\ host[a].step \notin {"exit", "cancel exit"}
  /\ Fail(a)
  /\ ByHost /\ UNCHANGED budget

(* The stream is closed, or the wait for the next message timed out. *)
HearNothing(a) ==
  /\ host[a].step \in Waits \ {"write"}
  /\ toHost[a] = <<>>
  /\ host[a].step \in {"exit", "cancel exit"} => ~Exited(a)
  /\ Fail(a)
  /\ ByHost /\ UNCHANGED budget

(* A write to a provider that is gone raises. *)
BrokenPipe(a) ==
  /\ host[a].step = "write" /\ Exited(a)
  /\ Fail(a)
  /\ ByHost /\ UNCHANGED budget

(***************************************************************************)
(* The publication                                                         *)
(***************************************************************************)

Vacant(r) == revisions[r] = None

(* Slip: the pointer is written when the bundle is staged. *)
PrepareAndPoint(a) ==
  /\ host[a].step = "prepare"
  /\ \/ Ends(a, "STAGED") /\ UNCHANGED <<provider, pipes, staging, store>>
     \/ /\ host[a].status = "COMPLETE"
        /\ IF Vacant(host[a].revision)
           THEN /\ current' = host[a].revision
                /\ Goes(a, "replace")
                /\ UNCHANGED <<provider, pipes, staging, revisions>>
           ELSE Fail(a)
  /\ ByHost /\ UNCHANGED budget

(* prepare_publication, and publish up to the staged bundle.  A result     *)
(* that is partial is left in active/, and so is any whose contract does   *)
(* not ask for publication: the policy of a contract is looked at only     *)
(* here, and either is taken.                                              *)
Prepare(a) ==
  /\ host[a].step = "prepare"
  /\ \/ Ends(a, "STAGED") /\ UNCHANGED <<provider, pipes, staging, store>>
     \/ /\ host[a].status = "COMPLETE"
        /\ IF Vacant(host[a].revision)
           THEN /\ Goes(a, "replace")
                /\ UNCHANGED <<provider, pipes, staging, store>>
           ELSE Fail(a)
  /\ ByHost /\ UNCHANGED budget

(* Slip: what is there is replaced. *)
ReplaceAnyRevision(a) ==
  /\ host[a].step = "replace"
  /\ revisions' = [revisions EXCEPT ![host[a].revision] =
       [analysis |-> a, rows |-> host[a].rows, status |-> host[a].status,
        counted |-> host[a].counted]]
  /\ Goes(a, "point")
  /\ UNCHANGED <<provider, pipes, staging, current>>
  /\ ByHost /\ UNCHANGED budget

(* os.replace: a directory that is not empty is not replaced. *)
ReplaceRevision(a) ==
  /\ host[a].step = "replace"
  /\ IF Vacant(host[a].revision)
     THEN /\ revisions' = [revisions EXCEPT ![host[a].revision] =
               [analysis |-> a, rows |-> host[a].rows,
                status |-> host[a].status, counted |-> host[a].counted]]
          /\ Goes(a, "point")
          /\ UNCHANGED <<provider, pipes, staging, current>>
     ELSE Fail(a)
  /\ ByHost /\ UNCHANGED budget

PointCurrent(a) ==
  /\ host[a].step = "point"
  /\ current' = host[a].revision
  /\ Ends(a, "PUBLISHED")
  /\ UNCHANGED <<provider, pipes, staging, revisions, budget>>
  /\ ByHost

(* The write or the rename fails; so may the preparation. *)
PublicationRaises(a) ==
  /\ host[a].step \in Publishes
  /\ Trouble
  /\ Fail(a)
  /\ ByHost

HostStep(a) ==
  \/ ReceiveAck(a) \/ ReceiveStarted(a) \/ ReceiveBatch(a)
  \/ ReceiveComplete(a) \/ SendCancel(a) \/ ReceiveCancelled(a)
  \/ ReceiveShutdownAck(a) \/ SeeExit(a)
  \/ Refuse(a) \/ HearNothing(a) \/ BrokenPipe(a)
  \/ Prepare(a) \/ ReplaceRevision(a) \/ PointCurrent(a)
  \/ PublicationRaises(a)

(* The program dies with all its runs. *)
ProgramDies ==
  /\ \E a \in Analyses : Running(a)
  /\ Trouble
  /\ host' = [a \in Analyses |->
       IF Running(a) THEN [step |-> "lost"] ELSE host[a]]
  /\ ByHost /\ UNCHANGED <<provider, pipes, staging, store>>

Next ==
  \/ Edit
  \/ \E a \in Analyses :
       \/ \E r \in Revisions : RunAnalysis(a, r)
       \/ RequestCancellation(a)
       \/ ProviderStep(a) \/ HostStep(a) \/ DrainRequest(a)
  \/ ProgramDies

Spec == Init /\ [][Next]_vars
(* The threads of the host run and their waits for messages and for the    *)
(* exit have deadlines; nothing is asked of the providers.                 *)
FairSpec == Spec /\ \A a \in Analyses : WF_vars(HostStep(a))

(***************************************************************************)
(* Properties                                                              *)
(***************************************************************************)

(* What is published was completed by a provider that ended well, and has  *)
(* no gap: of one reading, in the order of the batches, it is as many as   *)
(* the provider counted, whatever got lost on the way.  It is every batch  *)
(* of the analysis if the provider counted truly; the host has no way to   *)
(* know of a last batch that was neither sent nor counted                  *)
(* (append_batch, _validate_completion, publish).                          *)
PublishedIsWhole ==
  \A r \in Revisions \ {q \in Revisions : Vacant(q)} :
    /\ revisions[r].status = "COMPLETE"
    /\ \E f \in Facts :
         revisions[r].rows = (0..(revisions[r].counted - 1)) \X {f}

(* CURRENT names a revision that is there, at every instant of a           *)
(* publication, its failures and the death of the program included         *)
(* (publish writes the pointer last).                                      *)
CurrentIsThere == current # None => ~Vacant(current)

(* If no file was edited while a provider read, every provider sends the   *)
(* facts of the files as it found them, from the cache or from the parser, *)
(* though the cache is shared and published by sessions that fail later    *)
(* (IncrementalAnalyzer.run).                                              *)
UndisturbedFactsAreFresh ==
  \A a \in Analyses :
    provider[a].step \in {"send", "shutdown", "acknowledge"} /\ ~blurred
      => provider[a].facts = provider[a].seen

(* A published revision is never replaced: of two runs that publish the    *)
(* same one, the second fails (publish, os.replace).                       *)
RevisionsAreImmutable ==
  [][\A r \in Revisions : ~Vacant(r) => revisions'[r] = revisions[r]]_revisions

(* A write to a provider that lives and does not read. *)
Blocked(a) == host[a].step = "write" /\ ~Exited(a)

(* A run ends although its provider hangs, dies, or answers wrongly at any *)
(* message (the deadlines of _receive and wait), with the one exception of *)
(* a write to a provider that lives and never reads (_send has no          *)
(* deadline); a run whose write has returned ends.  The deadline is of a   *)
(* message, not of the run: this is of providers that send no more than    *)
(* Batches batches.                                                        *)
RunsEnd ==
  \A a \in Analyses :
    Running(a) /\ ~Blocked(a) ~> ~Running(a) \/ Blocked(a)
=============================================================================
