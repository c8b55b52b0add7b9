------------------------- MODULE ProviderHostProofs -------------------------
(***************************************************************************)
(* Proofs about ProviderHost: types, that what is published is whole, that *)
(* CURRENT names what is there, that revisions are immutable, and that the *)
(* shared cache serves fresh facts.                                        *)
(***************************************************************************)
EXTENDS ProviderHost, SequenceTheorems, TLAPS

(***************************************************************************)
(* Type correctness                                                        *)
(***************************************************************************)

SessionSteps == {"hello", "analyze", "load", "parse", "digest", "send",
                 "shutdown", "acknowledge", "cancelled"}

(* A provider has read before it has facts, and has facts before it sends. *)
Informed(a) ==
  /\ provider[a].step \in {"parse", "digest"} => provider[a].seen \in Inputs
  /\ provider[a].step \in {"digest", "send", "shutdown", "acknowledge"} =>
       provider[a].facts \in Facts

TypeInv == ProviderTypeOK /\ \A a \in Analyses : Informed(a)

BeforeSending == {"hello", "analyze", "load", "parse", "digest"}
Sending == {"send", "shutdown", "acknowledge"}
AfterCount == {"shutdown_ack", "exit"} \cup Publishes

(* What a run has decided by its step.                                     *)
Decided(a) ==
  /\ host[a].step \in AfterCount => host[a].count = host[a].counted
  /\ host[a].step \in {"replace", "point"} => host[a].status = "COMPLETE"
  /\ host[a].step = "point" => ~Vacant(host[a].revision)

(* All a run has got and will get is of one reading, in the order of the   *)
(* batches; before that reading there is nothing.                          *)
OneReading(a) ==
  Running(a) =>
    /\ \E f \in Facts :
         /\ host[a].rows = (0..(host[a].count - 1)) \X {f}
         /\ toHost[a] \in Seq(Answers({f}))
         /\ provider[a].step \in Sending => provider[a].facts = f
    /\ provider[a].step \in BeforeSending =>
         host[a].count = 0 /\ toHost[a] \in Seq(PlainAnswers)

HostInv ==
  /\ \A a \in Analyses : Decided(a) /\ OneReading(a)
  /\ PublishedIsWhole /\ CurrentIsThere

(* The cache is of the files it was digested from, and so is what a        *)
(* provider has read.                                                      *)
FreshInv ==
  ~blurred =>
    /\ cache # None => cache.facts = cache.digests
    /\ \A a \in Analyses :
         /\ provider[a].step \in {"parse", "digest"} =>
              provider[a].seen = source
         /\ provider[a].step = "digest" => provider[a].facts = source
         /\ provider[a].step \in Sending =>
              /\ provider[a].facts = provider[a].seen
              /\ provider[a].entry.facts = provider[a].entry.digests

ProviderInv == TypeInv /\ HostInv /\ FreshInv

LEMMA SessionOf ==
  ASSUME ProviderTypeOK, NEW a \in Analyses, provider[a].step \in SessionSteps
  PROVE  provider[a] \in Session
<1>1. provider[a] \in Provider
  BY DEF ProviderTypeOK
<1>2. Gone.step \notin SessionSteps
  BY DEF Gone, SessionSteps
<1>3. \A p \in [step : {"exited"}, code : {0, 1}] : p.step \notin SessionSteps
  BY DEF SessionSteps
<1> QED
  BY <1>1, <1>2, <1>3 DEF Provider

LEMMA RunOf ==
  ASSUME ProviderTypeOK, NEW a \in Analyses, Running(a)
  PROVE  host[a] \in Run
<1>1. host[a] \in {Idle} \cup Ended \cup Run
  BY DEF ProviderTypeOK
<1>2. Idle.step \notin Waits \cup Publishes
  BY DEF Idle, Waits, Publishes
<1>3. \A h \in Ended : h.step \notin Waits \cup Publishes
  BY DEF Ended, Reports, Waits, Publishes
<1> QED
  BY <1>1, <1>2, <1>3 DEF Running

(* The two pipes stay pipes. *)
LEMMA SayType ==
  ASSUME ProviderTypeOK, NEW a \in Analyses, NEW message \in Answers(Facts),
         Say(a, message)
  PROVE  toHost' \in [Analyses -> Seq(Answers(Facts))]
<1>1. toHost[a] \in Seq(Answers(Facts))
  BY DEF ProviderTypeOK
<1>2. Append(toHost[a], message) \in Seq(Answers(Facts))
  BY <1>1
<1> QED
  BY <1>2 DEF Say, ProviderTypeOK

LEMMA HearsType ==
  ASSUME ProviderTypeOK, NEW a \in Analyses, Hears(a)
  PROVE  toProvider' \in [Analyses -> Seq(Requests)]
<1>1. toProvider[a] \in Seq(Requests) /\ toProvider[a] # <<>>
  BY DEF ProviderTypeOK, Hears
<1>2. Tail(toProvider[a]) \in Seq(Requests)
  BY <1>1
<1> QED
  BY <1>2 DEF Hears, ProviderTypeOK

LEMMA SendType ==
  ASSUME ProviderTypeOK, NEW a \in Analyses,
         NEW type \in {"hello", "analyze", "cancel", "shutdown"},
         Send(a, type)
  PROVE  toProvider' \in [Analyses -> Seq(Requests)]
<1>1. toProvider[a] \in Seq(Requests) /\ Plain(type) \in Requests
  BY DEF ProviderTypeOK, Requests
<1>2. Append(toProvider[a], Plain(type)) \in Seq(Requests)
  BY <1>1
<1> QED
  BY <1>2 DEF Send, ProviderTypeOK

LEMMA TroubleType ==
  ASSUME ProviderTypeOK, Trouble \/ UNCHANGED budget
  PROVE  budget' \in [runs : 0..MaxRuns, edits : 0..MaxEdits,
                      troubles : 0..MaxTroubles]
<1>1. budget \in [runs : 0..MaxRuns, edits : 0..MaxEdits,
                  troubles : 0..MaxTroubles]
  BY DEF ProviderTypeOK
<1>2. CASE Trouble
  <2>1. budget.troubles - 1 \in 0..MaxTroubles
    BY <1>1, <1>2, ProviderAssumption DEF Trouble
  <2> QED
    BY <1>1, <1>2, <2>1 DEF Trouble
<1> QED
  BY <1>1, <1>2

(* A provider that goes on to a later step. *)
LEMMA GoesOn ==
  ASSUME TypeInv, NEW a \in Analyses, provider[a].step \in SessionSteps,
         NEW step \in SessionSteps, ProviderGoes(a, step)
  PROVE  /\ provider' \in [Analyses -> Provider]
         /\ provider'[a] = [provider[a] EXCEPT !.step = step]
         /\ provider'[a].step = step
         /\ provider'[a].seen = provider[a].seen
         /\ provider'[a].facts = provider[a].facts
         /\ provider'[a].entry = provider[a].entry
         /\ provider'[a].sent = provider[a].sent
         /\ \A b \in Analyses \ {a} : provider'[b] = provider[b]
<1>1. provider[a] \in Session /\ provider \in [Analyses -> Provider]
  BY SessionOf DEF TypeInv, ProviderTypeOK
<1>2. provider'[a] = [provider[a] EXCEPT !.step = step]
  BY <1>1 DEF ProviderGoes
<1>3. /\ provider'[a] \in Session /\ provider'[a].step = step
      /\ provider'[a].seen = provider[a].seen
      /\ provider'[a].facts = provider[a].facts
      /\ provider'[a].entry = provider[a].entry
      /\ provider'[a].sent = provider[a].sent
  BY <1>1, <1>2 DEF Session, SessionSteps
<1>4. \A b \in Analyses \ {a} : provider'[b] = provider[b]
  BY <1>1 DEF ProviderGoes
<1>5. provider' \in [Analyses -> Provider]
  BY <1>1, <1>3, <1>4 DEF ProviderGoes, Provider
<1> QED
  BY <1>2, <1>3, <1>4, <1>5

LEMMA ExitType ==
  ASSUME TypeInv, NEW a \in Analyses, NEW code \in {0, 1}, Exit(a, code)
  PROVE  /\ provider' \in [Analyses -> Provider]
         /\ provider'[a].step = "exited"
         /\ \A b \in Analyses \ {a} : provider'[b] = provider[b]
<1>1. provider \in [Analyses -> Provider]
  BY DEF TypeInv, ProviderTypeOK
<1>2. /\ provider'[a] = [step |-> "exited", code |-> code]
      /\ \A b \in Analyses \ {a} : provider'[b] = provider[b]
  BY <1>1 DEF Exit
<1>3. [step |-> "exited", code |-> code] \in Provider
  BY DEF Provider
<1> QED
  BY <1>1, <1>2, <1>3 DEF Exit

LEMMA FromProvider ==
  ASSUME TypeInv, NEW a \in Analyses, ByProvider,
         provider' \in [Analyses -> Provider],
         \A b \in Analyses \ {a} : provider'[b] = provider[b],
         toHost' \in [Analyses -> Seq(Answers(Facts))],
         toProvider' \in [Analyses -> Seq(Requests)],
         Trouble \/ UNCHANGED budget, cache' \in Entry \cup {None},
         Informed(a)'
  PROVE  TypeInv'
<1>1. ProviderTypeOK'
  <2>1. budget' \in [runs : 0..MaxRuns, edits : 0..MaxEdits,
                     troubles : 0..MaxTroubles]
    BY TroubleType DEF TypeInv
  <2> QED
    BY <2>1 DEF TypeInv, ProviderTypeOK, ByProvider, store
<1>2. \A b \in Analyses : Informed(b)'
  BY DEF TypeInv, Informed
<1> QED
  BY <1>1, <1>2 DEF TypeInv

LEMMA AnswerType ==
  ASSUME TypeInv, NEW a \in Analyses,
         AnswerHello(a) \/ BeginAnalysis(a) \/ AnswerCancel(a) \/ CloseCancelled(a)
  PROVE  TypeInv'
<1>1. ProviderTypeOK /\ ByProvider /\ UNCHANGED <<cache, budget>>
  BY DEF TypeInv, AnswerHello, BeginAnalysis, AnswerCancel, CloseCancelled
<1>2. toProvider' \in [Analyses -> Seq(Requests)]
  BY <1>1, HearsType
  DEF AnswerHello, BeginAnalysis, AnswerCancel, CloseCancelled
<1>3. \A type \in {"hello_ack", "analysis_started", "cancelled",
                   "shutdown_ack"} : Plain(type) \in Answers(Facts)
  BY DEF Answers, PlainAnswers
<1>4. toHost' \in [Analyses -> Seq(Answers(Facts))]
  BY <1>1, <1>3, SayType
  DEF AnswerHello, BeginAnalysis, AnswerCancel, CloseCancelled
<1>5. CASE CloseCancelled(a)
  <2>1. /\ provider' \in [Analyses -> Provider]
        /\ provider'[a].step = "exited"
        /\ \A b \in Analyses \ {a} : provider'[b] = provider[b]
    BY <1>5, ExitType DEF CloseCancelled
  <2>2. Informed(a)'
    BY <2>1 DEF Informed
  <2> QED
    BY <1>1, <1>2, <1>4, <2>1, <2>2, FromProvider DEF TypeInv, ProviderTypeOK
<1>6. CASE ~CloseCancelled(a)
  <2>1. PICK step \in {"analyze", "load", "cancelled"} :
          /\ ProviderGoes(a, step) /\ provider[a].step \in SessionSteps
    BY <1>6 DEF AnswerHello, BeginAnalysis, AnswerCancel, SessionSteps
  <2>2. step \in SessionSteps
    BY DEF SessionSteps
  <2>3. /\ provider' \in [Analyses -> Provider]
        /\ provider'[a].step = step
        /\ \A b \in Analyses \ {a} : provider'[b] = provider[b]
    BY <2>1, <2>2, GoesOn
  <2>4. Informed(a)'
    BY <2>3 DEF Informed
  <2> QED
    BY <1>1, <1>2, <1>4, <2>3, <2>4, FromProvider DEF TypeInv, ProviderTypeOK
<1> QED
  BY <1>5, <1>6

LEMMA ReadType ==
  ASSUME TypeInv, NEW a \in Analyses,
         LoadUnit(a) \/ ParseUnit(a) \/ DigestDependencies(a)
  PROVE  TypeInv'
<1>1. /\ ByProvider /\ UNCHANGED <<cache, pipes, budget>>
      /\ provider[a].step \in SessionSteps
  BY DEF LoadUnit, ParseUnit, DigestDependencies, SessionSteps
<1>2. /\ provider[a] \in Session /\ provider \in [Analyses -> Provider]
      /\ source \in Inputs /\ cache \in Entry \cup {None}
  BY <1>1, SessionOf DEF TypeInv, ProviderTypeOK
<1>3. /\ provider'[a] \in Session /\ Informed(a)'
  <2>1. CASE LoadUnit(a)
    <3>1. Stands(cache) => cache \in Entry /\ cache.facts \in Facts
      BY <1>2 DEF Stands, Entry
    <3>2. provider'[a] = [provider[a] EXCEPT
            !.step = IF Stands(cache) THEN "send" ELSE "parse",
            !.seen = source,
            !.facts = IF Stands(cache) THEN cache.facts ELSE @,
            !.entry = IF Stands(cache) THEN cache ELSE @]
      BY <1>2, <2>1 DEF LoadUnit
    <3>3. CASE Stands(cache)
      BY <1>2, <3>1, <3>2, <3>3 DEF Session, Informed
    <3>4. CASE ~Stands(cache)
      BY <1>2, <3>2, <3>4 DEF Session, Informed
    <3> QED
      BY <3>3, <3>4
  <2>2. CASE ParseUnit(a)
    <3>1. provider'[a] = [provider[a] EXCEPT !.step = "digest", !.facts = source]
      BY <1>2, <2>2 DEF ParseUnit
    <3>2. provider[a].seen \in Inputs
      BY <2>2 DEF ParseUnit, TypeInv, Informed
    <3> QED
      BY <1>2, <3>1, <3>2 DEF Session, Informed, Facts
  <2>3. CASE DigestDependencies(a)
    <3>1. provider'[a] = [provider[a] EXCEPT !.step = "send",
            !.entry = [identity |-> provider[a].seen.source,
                       digests |-> source, facts |-> provider[a].facts]]
      BY <1>2, <2>3 DEF DigestDependencies
    <3>2. provider[a].seen \in Inputs /\ provider[a].facts \in Facts
      BY <2>3 DEF DigestDependencies, TypeInv, Informed
    <3>3. [identity |-> provider[a].seen.source, digests |-> source,
           facts |-> provider[a].facts] \in Entry
      BY <1>2, <3>2 DEF Entry, Inputs
    <3> QED
      BY <1>2, <3>1, <3>2, <3>3 DEF Session, Informed
  <2> QED
    BY <2>1, <2>2, <2>3
<1>4. \A b \in Analyses \ {a} : provider'[b] = provider[b]
  BY <1>2 DEF LoadUnit, ParseUnit, DigestDependencies
<1>5. provider' \in [Analyses -> Provider]
  BY <1>2, <1>3, <1>4 DEF LoadUnit, ParseUnit, DigestDependencies, Provider
<1> QED
  BY <1>1, <1>3, <1>4, <1>5, FromProvider DEF TypeInv, ProviderTypeOK, pipes

LEMMA SendBatchType ==
  ASSUME TypeInv, NEW a \in Analyses, SendBatch(a)
  PROVE  TypeInv'
<1>1. /\ ByProvider /\ UNCHANGED <<cache, toProvider>>
      /\ provider[a].step = "send" /\ provider[a].sent < Batches
      /\ provider' = [provider EXCEPT ![a].sent = @ + 1]
      /\ Trouble \/ UNCHANGED budget
  BY DEF SendBatch
<1>2. /\ provider[a] \in Session /\ provider \in [Analyses -> Provider]
      /\ provider[a].facts \in Facts /\ provider[a].sent \in 0..Batches
  BY <1>1, SessionOf DEF TypeInv, ProviderTypeOK, Informed, Session, SessionSteps
<1>3. provider[a].sent \in Parts /\ provider[a].sent + 1 \in 0..Batches
  BY <1>1, <1>2, ProviderAssumption DEF Parts
<1>4. provider'[a] = [provider[a] EXCEPT !.sent = @ + 1]
  BY <1>1, <1>2
<1>5. provider'[a] \in Session /\ Informed(a)'
  BY <1>1, <1>2, <1>3, <1>4 DEF Session, Informed
<1>6. \A b \in Analyses \ {a} : provider'[b] = provider[b]
  BY <1>1, <1>2
<1>7. provider' \in [Analyses -> Provider]
  BY <1>1, <1>2, <1>5, <1>6 DEF Provider
<1>8. toHost' \in [Analyses -> Seq(Answers(Facts))]
  <2>1. Batch(provider[a].sent, provider[a].facts) \in Answers(Facts)
    BY <1>2, <1>3 DEF Answers
  <2>2. CASE Say(a, Batch(provider[a].sent, provider[a].facts))
    BY <2>1, <2>2, SayType DEF TypeInv
  <2> QED
    BY <2>2 DEF SendBatch, TypeInv, ProviderTypeOK
<1> QED
  BY <1>1, <1>5, <1>6, <1>7, <1>8, FromProvider DEF TypeInv, ProviderTypeOK

(* A provider completes with a count of its own, which is a count. *)
LEMMA CompletionSaid ==
  ASSUME TypeInv, NEW a \in Analyses, SendComplete(a), NEW facts
  PROVE  \E message \in Answers(facts) : Say(a, message)
<1>1. provider[a].sent \in 0..Batches
  <2>1. provider[a] \in Session
    BY SessionOf DEF TypeInv, SendComplete, SessionSteps
  <2> QED
    BY <2>1 DEF Session
<1>2. Batches \in 0..Batches /\ "COMPLETE" \in Statuses
  BY ProviderAssumption DEF Statuses
<1>3. \E s \in Statuses, n \in 0..Batches : Say(a, Complete(s, n))
  BY <1>1, <1>2 DEF SendComplete
<1>4. \A s \in Statuses, n \in 0..Batches : Complete(s, n) \in Answers(facts)
  BY DEF Answers
<1> QED
  BY <1>3, <1>4

LEMMA SendCompleteType ==
  ASSUME TypeInv, NEW a \in Analyses, SendComplete(a)
  PROVE  TypeInv'
<1>1. /\ ByProvider /\ UNCHANGED <<cache, toProvider>>
      /\ provider[a].step = "send" /\ ProviderGoes(a, "shutdown")
      /\ Trouble \/ UNCHANGED budget
  BY DEF SendComplete
<1>2. "send" \in SessionSteps /\ "shutdown" \in SessionSteps
  BY DEF SessionSteps
<1>3. /\ provider' \in [Analyses -> Provider]
      /\ provider'[a].step = "shutdown"
      /\ provider'[a].facts = provider[a].facts
      /\ \A b \in Analyses \ {a} : provider'[b] = provider[b]
  BY <1>1, <1>2, GoesOn
<1>4. Informed(a)'
  BY <1>1, <1>3 DEF TypeInv, Informed
<1>5. PICK message \in Answers(Facts) : Say(a, message)
  BY CompletionSaid
<1>6. toHost' \in [Analyses -> Seq(Answers(Facts))]
  BY <1>5, SayType DEF TypeInv
<1> QED
  BY <1>1, <1>3, <1>4, <1>6, FromProvider DEF TypeInv, ProviderTypeOK

LEMMA ShutdownType ==
  ASSUME TypeInv, NEW a \in Analyses,
         HearShutdown(a) \/ PublishCache(a) \/ ProviderDies(a)
  PROVE  TypeInv'
<1>1. ByProvider /\ (Trouble \/ UNCHANGED budget) /\ ProviderTypeOK
  BY DEF HearShutdown, PublishCache, ProviderDies, TypeInv
<1>2. toProvider' \in [Analyses -> Seq(Requests)]
  BY <1>1, HearsType
  DEF HearShutdown, PublishCache, ProviderDies, pipes, ProviderTypeOK
<1>3. Plain("shutdown_ack") \in Answers(Facts)
  BY DEF Answers, PlainAnswers
<1>4. toHost' \in [Analyses -> Seq(Answers(Facts))]
  BY <1>1, <1>3, SayType
  DEF HearShutdown, PublishCache, ProviderDies, pipes, ProviderTypeOK
<1>5. cache' \in Entry \cup {None}
  <2>1. CASE PublishCache(a)
    <3>1. provider[a] \in Session
      BY <1>1, <2>1, SessionOf DEF PublishCache, SessionSteps
    <3> QED
      BY <2>1, <3>1 DEF PublishCache, Session
  <2> QED
    BY <1>1, <2>1 DEF HearShutdown, ProviderDies, ProviderTypeOK
<1>6. CASE \E code \in {0, 1} : Exit(a, code)
  <2>1. /\ provider' \in [Analyses -> Provider]
        /\ provider'[a].step = "exited"
        /\ \A b \in Analyses \ {a} : provider'[b] = provider[b]
    BY <1>6, ExitType
  <2>2. Informed(a)'
    BY <2>1 DEF Informed
  <2> QED
    BY <1>1, <1>2, <1>4, <1>5, <2>1, <2>2, FromProvider
<1>7. CASE ~\E code \in {0, 1} : Exit(a, code)
  <2>1. provider[a].step = "shutdown" /\ ProviderGoes(a, "acknowledge")
    BY <1>7 DEF HearShutdown, PublishCache, ProviderDies
  <2>2. "shutdown" \in SessionSteps /\ "acknowledge" \in SessionSteps
    BY DEF SessionSteps
  <2>3. /\ provider' \in [Analyses -> Provider]
        /\ provider'[a].step = "acknowledge"
        /\ provider'[a].facts = provider[a].facts
        /\ \A b \in Analyses \ {a} : provider'[b] = provider[b]
    BY <2>1, <2>2, GoesOn
  <2>4. Informed(a)'
    BY <2>1, <2>3 DEF TypeInv, Informed
  <2> QED
    BY <1>1, <1>2, <1>4, <1>5, <2>3, <2>4, FromProvider
<1> QED
  BY <1>6, <1>7

(* A run that goes on, or ends.                                            *)
LEMMA RunGoes ==
  ASSUME ProviderTypeOK, NEW a \in Analyses, Running(a),
         NEW step \in Waits \cup Publishes, Goes(a, step)
  PROVE  /\ host' \in [Analyses -> {Idle} \cup Ended \cup Run]
         /\ host'[a].step = step
         /\ host'[a].count = host[a].count
         /\ host'[a].rows = host[a].rows
         /\ host'[a].status = host[a].status
         /\ host'[a].counted = host[a].counted
         /\ host'[a].revision = host[a].revision
         /\ \A b \in Analyses \ {a} : host'[b] = host[b]
<1>1. host[a] \in Run /\ host \in [Analyses -> {Idle} \cup Ended \cup Run]
  BY RunOf DEF ProviderTypeOK
<1>2. host'[a] = [host[a] EXCEPT !.step = step]
  BY <1>1 DEF Goes
<1>3. /\ host'[a] \in Run /\ host'[a].step = step
      /\ host'[a].count = host[a].count /\ host'[a].rows = host[a].rows
      /\ host'[a].status = host[a].status
      /\ host'[a].counted = host[a].counted
      /\ host'[a].revision = host[a].revision
  BY <1>1, <1>2 DEF Run
<1>4. \A b \in Analyses \ {a} : host'[b] = host[b]
  BY <1>1 DEF Goes
<1> QED
  BY <1>1, <1>3, <1>4 DEF Goes

LEMMA RunEnds ==
  ASSUME ProviderTypeOK, NEW a \in Analyses, NEW report \in Reports,
         Ends(a, report)
  PROVE  /\ host' \in [Analyses -> {Idle} \cup Ended \cup Run]
         /\ host'[a].step = report
         /\ \A b \in Analyses \ {a} : host'[b] = host[b]
<1>1. host \in [Analyses -> {Idle} \cup Ended \cup Run]
  BY DEF ProviderTypeOK
<1>2. /\ host'[a] = [step |-> report]
      /\ \A b \in Analyses \ {a} : host'[b] = host[b]
  BY <1>1 DEF Ends
<1>3. [step |-> report] \in Ended
  BY DEF Ended
<1> QED
  BY <1>1, <1>2, <1>3 DEF Ends

LEMMA QuarantineType ==
  ASSUME ProviderTypeOK, NEW a \in Analyses,
         NEW report \in {"FAILED", "CANCELLED"}, Quarantined(a, report)
  PROVE  /\ host' \in [Analyses -> {Idle} \cup Ended \cup Run]
         /\ host'[a].step \in Reports
         /\ \A b \in Analyses \ {a} : host'[b] = host[b]
         /\ staging' \in [Analyses -> SUBSET {"active", "failed"}]
<1>1. \E r \in Reports : Ends(a, r)
  BY DEF Quarantined, Reports
<1>2. staging' \in [Analyses -> SUBSET {"active", "failed"}]
  BY DEF Quarantined, ProviderTypeOK
<1> QED
  BY <1>1, <1>2, RunEnds

LEMMA HangupType ==
  ASSUME ProviderTypeOK, NEW a \in Analyses, Hangup(a)
  PROVE  /\ provider' \in [Analyses -> Provider]
         /\ provider'[a].step = "gone"
         /\ toHost'[a] = <<>>
         /\ toHost' \in [Analyses -> Seq(Answers(Facts))]
         /\ toProvider' \in [Analyses -> Seq(Requests)]
         /\ \A b \in Analyses \ {a} : /\ provider'[b] = provider[b]
                                      /\ toHost'[b] = toHost[b]
<1>1. <<>> \in Seq(Answers(Facts)) /\ <<>> \in Seq(Requests)
  OBVIOUS
<1>2. Gone \in Provider /\ Gone.step = "gone"
  BY DEF Provider, Gone
<1> QED
  BY <1>1, <1>2 DEF Hangup, ProviderTypeOK

LEMMA ComesType ==
  ASSUME ProviderTypeOK, NEW a \in Analyses, NEW step, NEW type,
         Comes(a, step, type)
  PROVE  /\ toHost' \in [Analyses -> Seq(Answers(Facts))]
         /\ Incoming(a) \in Answers(Facts) /\ Incoming(a).type = type
         /\ host[a].step = step
<1>1. toHost[a] \in Seq(Answers(Facts)) /\ toHost[a] # <<>>
  BY DEF ProviderTypeOK, Comes
<1>2. /\ Head(toHost[a]) \in Answers(Facts)
      /\ Tail(toHost[a]) \in Seq(Answers(Facts))
  BY <1>1
<1> QED
  BY <1>2 DEF Comes, ProviderTypeOK, Incoming

(* What a message of a kind is. *)
LEMMA AnswerKinds ==
  ASSUME NEW facts, NEW message \in Answers(facts)
  PROVE  /\ message.type = "fact_batch" =>
              \E n \in Parts, f \in facts : message = Batch(n, f)
         /\ message.type = "analysis_complete" =>
              \E s \in Statuses, n \in 0..Batches : message = Complete(s, n)
<1>1. \A t : Plain(t).type = t
  BY DEF Plain
<1>2. \A n, f : Batch(n, f).type = "fact_batch"
  BY DEF Batch
<1>3. \A s, n : Complete(s, n).type = "analysis_complete"
  BY DEF Complete
<1>4. CASE message \in PlainAnswers
  <2>1. PICK t \in {"hello_ack", "analysis_started", "cancelled",
                    "shutdown_ack"} : message = Plain(t)
    BY <1>4 DEF PlainAnswers
  <2> QED
    BY <1>1, <2>1
<1> QED
  BY <1>2, <1>3, <1>4 DEF Answers

LEMMA InformedStays ==
  ASSUME TypeInv, NEW b \in Analyses, provider'[b] = provider[b]
  PROVE  Informed(b)'
  BY DEF TypeInv, Informed

LEMMA InformedGone ==
  ASSUME NEW a \in Analyses, provider'[a].step \in {"gone", "hello"}
  PROVE  Informed(a)'
  BY DEF Informed

(* A failed run leaves no provider and no messages.                        *)
LEMMA FailType ==
  ASSUME TypeInv, NEW a \in Analyses, Fail(a), ByHost,
         Trouble \/ UNCHANGED budget
  PROVE  TypeInv'
<1>1. /\ ProviderTypeOK /\ Hangup(a) /\ Quarantined(a, "FAILED")
      /\ UNCHANGED store
  BY DEF TypeInv, Fail
<1>2. budget' \in [runs : 0..MaxRuns, edits : 0..MaxEdits,
                   troubles : 0..MaxTroubles]
  BY <1>1, TroubleType
<1>3. /\ host' \in [Analyses -> {Idle} \cup Ended \cup Run]
      /\ staging' \in [Analyses -> SUBSET {"active", "failed"}]
  BY <1>1, QuarantineType
<1>4. \A b \in Analyses : Informed(b)'
  BY <1>1, HangupType, InformedStays, InformedGone
<1> QED
  BY <1>1, <1>2, <1>3, <1>4, HangupType
  DEF TypeInv, ProviderTypeOK, ByHost, store

LEMMA RunAnalysisType ==
  ASSUME TypeInv, NEW a \in Analyses, NEW r \in Revisions,
         RunAnalysis(a, r)
  PROVE  TypeInv'
<1>1. /\ ProviderTypeOK /\ ByHost /\ UNCHANGED store
      /\ budget.runs > 0 /\ budget' = [budget EXCEPT !.runs = @ - 1]
  BY DEF TypeInv, RunAnalysis
<1>2. budget' \in [runs : 0..MaxRuns, edits : 0..MaxEdits,
                   troubles : 0..MaxTroubles]
  <2>1. budget.runs - 1 \in 0..MaxRuns
    BY <1>1, ProviderAssumption DEF ProviderTypeOK
  <2> QED
    BY <1>1, <2>1 DEF ProviderTypeOK
<1>3. CASE "active" \in staging[a]
  <2>1. Ends(a, "raised") /\ UNCHANGED <<provider, pipes, staging>>
    BY <1>3 DEF RunAnalysis
  <2>2. host' \in [Analyses -> {Idle} \cup Ended \cup Run]
    BY <1>1, <2>1, RunEnds DEF Reports
  <2>3. \A b \in Analyses : Informed(b)'
    BY <2>1, InformedStays
  <2> QED
    BY <1>1, <1>2, <2>1, <2>2, <2>3
    DEF TypeInv, ProviderTypeOK, ByHost, store, pipes
<1>4. CASE "active" \notin staging[a]
  <2>1. /\ host' = [host EXCEPT ![a] =
               [step |-> "hello_ack", revision |-> r, cancelled |-> FALSE,
                count |-> 0, rows |-> {}, status |-> None, counted |-> 0]]
        /\ staging' = [staging EXCEPT ![a] = @ \cup {"active"}]
        /\ provider' = [provider EXCEPT ![a] =
               [step |-> "hello", seen |-> None, facts |-> None,
                entry |-> None, sent |-> 0]]
        /\ toProvider' = [toProvider EXCEPT ![a] = <<Plain("hello")>>]
        /\ toHost' = [toHost EXCEPT ![a] = <<>>]
    BY <1>4 DEF RunAnalysis
  <2>2. host' \in [Analyses -> {Idle} \cup Ended \cup Run]
    <3>1. [step |-> "hello_ack", revision |-> r, cancelled |-> FALSE,
           count |-> 0, rows |-> {}, status |-> None, counted |-> 0] \in Run
      BY ProviderAssumption DEF Run, Waits
    <3> QED
      BY <1>1, <2>1, <3>1 DEF ProviderTypeOK
  <2>3. provider' \in [Analyses -> Provider]
    <3>1. [step |-> "hello", seen |-> None, facts |-> None, entry |-> None,
           sent |-> 0] \in Session
      BY ProviderAssumption DEF Session
    <3> QED
      BY <1>1, <2>1, <3>1 DEF ProviderTypeOK, Provider
  <2>4. staging' \in [Analyses -> SUBSET {"active", "failed"}]
    BY <1>1, <2>1 DEF ProviderTypeOK
  <2>5. toProvider' \in [Analyses -> Seq(Requests)]
    <3>1. <<Plain("hello")>> \in Seq(Requests)
      BY DEF Requests
    <3> QED
      BY <1>1, <2>1, <3>1 DEF ProviderTypeOK
  <2>6. toHost' \in [Analyses -> Seq(Answers(Facts))]
    <3>1. <<>> \in Seq(Answers(Facts))
      OBVIOUS
    <3> QED
      BY <1>1, <2>1, <3>1 DEF ProviderTypeOK
  <2>7. \A b \in Analyses : Informed(b)'
    <3>1. provider'[a].step = "hello"
      BY <1>1, <2>1 DEF ProviderTypeOK
    <3>2. \A b \in Analyses \ {a} : provider'[b] = provider[b]
      BY <1>1, <2>1 DEF ProviderTypeOK
    <3> QED
      BY <3>1, <3>2, InformedStays, InformedGone
  <2> QED
    BY <1>1, <1>2, <2>2, <2>3, <2>4, <2>5, <2>6, <2>7
    DEF TypeInv, ProviderTypeOK, ByHost, store
<1> QED
  BY <1>3, <1>4

(* A step of the host that only reads, sends or decides.                   *)
LEMMA FromHost ==
  ASSUME TypeInv, NEW a \in Analyses, ByHost,
         UNCHANGED <<provider, staging, store>>,
         host' \in [Analyses -> {Idle} \cup Ended \cup Run],
         toHost' \in [Analyses -> Seq(Answers(Facts))],
         toProvider' \in [Analyses -> Seq(Requests)],
         Trouble \/ UNCHANGED budget
  PROVE  TypeInv'
<1>1. budget' \in [runs : 0..MaxRuns, edits : 0..MaxEdits,
                   troubles : 0..MaxTroubles]
  BY TroubleType DEF TypeInv
<1>2. \A b \in Analyses : Informed(b)'
  BY InformedStays
<1> QED
  BY <1>1, <1>2 DEF TypeInv, ProviderTypeOK, ByHost, store

LEMMA HandshakeType ==
  ASSUME TypeInv, NEW a \in Analyses,
         ReceiveAck(a) \/ DrainRequest(a) \/ ReceiveStarted(a)
           \/ SendCancel(a) \/ ReceiveCancelled(a) \/ ReceiveShutdownAck(a)
  PROVE  TypeInv'
<1>1. /\ ProviderTypeOK /\ ByHost
      /\ UNCHANGED <<provider, staging, store, budget>> /\ Running(a)
  BY DEF TypeInv, ReceiveAck, DrainRequest, ReceiveStarted, SendCancel, ReceiveCancelled,
     ReceiveShutdownAck, Comes, Running, Waits
<1>2. \E step \in Waits : Goes(a, step)
  BY DEF ReceiveAck, DrainRequest, ReceiveStarted, SendCancel, ReceiveCancelled,
     ReceiveShutdownAck, Waits
<1>3. host' \in [Analyses -> {Idle} \cup Ended \cup Run]
  BY <1>1, <1>2, RunGoes
<1>4. toHost' \in [Analyses -> Seq(Answers(Facts))]
  BY <1>1, ComesType
  DEF ReceiveAck, DrainRequest, ReceiveStarted, SendCancel, ReceiveCancelled,
      ReceiveShutdownAck, ProviderTypeOK
<1>5. toProvider' \in [Analyses -> Seq(Requests)]
  <2>1. \/ UNCHANGED toProvider
        \/ \E type \in {"hello", "analyze", "cancel", "shutdown"} : Send(a, type)
    BY DEF ReceiveAck, DrainRequest, ReceiveStarted, SendCancel, ReceiveCancelled,
       ReceiveShutdownAck
  <2> QED
    BY <1>1, <2>1, SendType DEF ProviderTypeOK
<1> QED
  BY <1>1, <1>3, <1>4, <1>5, FromHost

(* The host keeps what it received under its number.                       *)
LEMMA ReceiveBatchEffect ==
  ASSUME TypeInv, NEW a \in Analyses, ReceiveBatch(a)
  PROVE  /\ TypeInv' /\ host[a] \in Run /\ host'[a] \in Run
         /\ \E f \in Facts :
              /\ Incoming(a) = Batch(host[a].count, f)
              /\ host'[a].rows = host[a].rows \cup {<<host[a].count, f>>}
         /\ host[a].count \in Parts
         /\ host'[a].step = "loop" /\ host'[a].count = host[a].count + 1
         /\ host'[a].revision = host[a].revision
         /\ host'[a].status = host[a].status
         /\ \A b \in Analyses \ {a} : host'[b] = host[b]
<1>1. /\ ProviderTypeOK /\ ByHost /\ Comes(a, "loop", "fact_batch")
      /\ UNCHANGED <<provider, toProvider, staging, store, budget>>
      /\ host' = [host EXCEPT ![a].count = @ + 1,
           ![a].rows = @ \cup {<<Incoming(a).sequence, Incoming(a).facts>>}]
      /\ Incoming(a).sequence = host[a].count
  BY DEF TypeInv, ReceiveBatch
<1>2. /\ toHost' \in [Analyses -> Seq(Answers(Facts))]
      /\ Incoming(a) \in Answers(Facts) /\ Incoming(a).type = "fact_batch"
      /\ host[a].step = "loop"
  BY <1>1, ComesType
<1>3. PICK n \in Parts, f \in Facts : Incoming(a) = Batch(n, f)
  BY <1>2, AnswerKinds
<1>4. n = host[a].count /\ Incoming(a).facts = f
  BY <1>1, <1>3 DEF Batch
<1>5. host[a] \in Run
  BY <1>1, <1>2, RunOf DEF Running, Waits
<1>6. /\ host'[a] = [host[a] EXCEPT !.count = @ + 1,
                                    !.rows = @ \cup {<<n, f>>}]
      /\ \A b \in Analyses \ {a} : host'[b] = host[b]
  BY <1>1, <1>4 DEF ProviderTypeOK
<1>7. host[a].count + 1 \in 0..Batches
  BY <1>4, ProviderAssumption DEF Parts
<1>8. /\ host'[a] \in Run
      /\ host'[a].step = "loop" /\ host'[a].count = host[a].count + 1
      /\ host'[a].rows = host[a].rows \cup {<<n, f>>}
      /\ host'[a].revision = host[a].revision
      /\ host'[a].status = host[a].status
  <2>1. <<n, f>> \in Parts \X Facts /\ host[a].rows \subseteq Parts \X Facts
    BY <1>5 DEF Run
  <2>2. host[a].rows \cup {<<n, f>>} \in SUBSET (Parts \X Facts)
    BY <2>1
  <2> HIDE DEF Parts
  <2> QED
    BY <1>2, <1>5, <1>6, <1>7, <2>2 DEF Run
<1>9. host' \in [Analyses -> {Idle} \cup Ended \cup Run]
  BY <1>1, <1>6, <1>8 DEF ProviderTypeOK
<1>10. TypeInv'
  BY <1>1, <1>2, <1>9, FromHost DEF ProviderTypeOK
<1> QED
  BY <1>3, <1>4, <1>5, <1>6, <1>8, <1>10

LEMMA ReceiveCompleteEffect ==
  ASSUME TypeInv, NEW a \in Analyses, ReceiveComplete(a)
  PROVE  /\ TypeInv' /\ host[a] \in Run
         /\ host'[a].step = "shutdown_ack" /\ host[a].step = "loop"
         /\ host'[a].count = host[a].count
         /\ host'[a].counted = host[a].count
         /\ host'[a].rows = host[a].rows
         /\ \A b \in Analyses \ {a} : host'[b] = host[b]
<1>1. /\ ProviderTypeOK /\ ByHost /\ Comes(a, "loop", "analysis_complete")
      /\ UNCHANGED <<provider, staging, store, budget>>
      /\ host' = [host EXCEPT ![a].step = "shutdown_ack",
                              ![a].status = Incoming(a).status,
                              ![a].counted = Incoming(a).batch_count]
      /\ Acceptable(a, Incoming(a)) /\ Send(a, "shutdown")
  BY DEF TypeInv, ReceiveComplete
<1>2. /\ toHost' \in [Analyses -> Seq(Answers(Facts))]
      /\ Incoming(a) \in Answers(Facts)
      /\ Incoming(a).type = "analysis_complete"
      /\ host[a].step = "loop"
  BY <1>1, ComesType
<1>3. PICK s \in Statuses, n \in 0..Batches : Incoming(a) = Complete(s, n)
  BY <1>2, AnswerKinds
<1>4. host[a].count = n /\ Incoming(a).status = s /\ Incoming(a).batch_count = n
  BY <1>1, <1>3 DEF Acceptable, Complete
<1>5. host[a] \in Run
  BY <1>1, <1>2, RunOf DEF Running, Waits
<1>6. /\ host'[a] = [host[a] EXCEPT !.step = "shutdown_ack", !.status = s,
                                    !.counted = n]
      /\ \A b \in Analyses \ {a} : host'[b] = host[b]
  BY <1>1, <1>4 DEF ProviderTypeOK
<1>7. /\ host'[a] \in Run /\ host'[a].step = "shutdown_ack"
      /\ host'[a].count = host[a].count /\ host'[a].rows = host[a].rows
      /\ host'[a].counted = n
  BY <1>5, <1>6 DEF Run, Waits
<1>8. host' \in [Analyses -> {Idle} \cup Ended \cup Run]
  BY <1>1, <1>6, <1>7 DEF ProviderTypeOK
<1>9. toProvider' \in [Analyses -> Seq(Requests)]
  BY <1>1, SendType
<1>10. TypeInv'
  BY <1>1, <1>2, <1>8, <1>9, FromHost
<1> QED
  BY <1>2, <1>4, <1>5, <1>6, <1>7, <1>10

LEMMA CancellationType ==
  ASSUME TypeInv, NEW a \in Analyses, RequestCancellation(a)
  PROVE  /\ TypeInv'
         /\ host'[a].step = host[a].step /\ host'[a].rows = host[a].rows
         /\ host'[a].count = host[a].count
         /\ host'[a].status = host[a].status
         /\ host'[a].counted = host[a].counted
         /\ host'[a].revision = host[a].revision
         /\ \A b \in Analyses \ {a} : host'[b] = host[b]
<1>1. /\ ProviderTypeOK /\ ByHost /\ Trouble
      /\ UNCHANGED <<provider, pipes, staging, store>> /\ Running(a)
      /\ host' = [host EXCEPT ![a].cancelled = TRUE]
  BY DEF TypeInv, RequestCancellation, Running, Waits
<1>2. host[a] \in Run
  BY <1>1, RunOf
<1>3. /\ host'[a] = [host[a] EXCEPT !.cancelled = TRUE]
      /\ \A b \in Analyses \ {a} : host'[b] = host[b]
  BY <1>1 DEF ProviderTypeOK
<1>4. /\ host'[a] \in Run /\ host'[a].step = host[a].step
      /\ host'[a].count = host[a].count /\ host'[a].rows = host[a].rows
      /\ host'[a].status = host[a].status
      /\ host'[a].counted = host[a].counted
      /\ host'[a].revision = host[a].revision
  BY <1>2, <1>3 DEF Run
<1>5. host' \in [Analyses -> {Idle} \cup Ended \cup Run]
  BY <1>1, <1>3, <1>4 DEF ProviderTypeOK
<1>6. TypeInv'
  BY <1>1, <1>5, FromHost DEF ProviderTypeOK, pipes
<1> QED
  BY <1>3, <1>4, <1>6

LEMMA SeeExitType ==
  ASSUME TypeInv, NEW a \in Analyses, SeeExit(a)
  PROVE  TypeInv'
<1>1. /\ ProviderTypeOK /\ Hangup(a) /\ ByHost /\ UNCHANGED <<store, budget>>
  BY DEF TypeInv, SeeExit
<1>2. /\ host' \in [Analyses -> {Idle} \cup Ended \cup Run]
      /\ staging' \in [Analyses -> SUBSET {"active", "failed"}]
  <2>1. CASE Goes(a, "prepare") /\ UNCHANGED staging /\ Running(a)
    <3>1. "prepare" \in Waits \cup Publishes
      BY DEF Publishes
    <3> QED
      BY <1>1, <2>1, <3>1, RunGoes DEF ProviderTypeOK
  <2>2. CASE Quarantined(a, "CANCELLED")
    BY <1>1, <2>2, QuarantineType
  <2> QED
    BY <2>1, <2>2 DEF SeeExit, Running, Waits
<1>3. \A b \in Analyses : Informed(b)'
  BY <1>1, HangupType, InformedStays, InformedGone
<1> QED
  BY <1>1, <1>2, <1>3, HangupType DEF TypeInv, ProviderTypeOK, ByHost, store

LEMMA RefuseType ==
  ASSUME TypeInv, NEW a \in Analyses,
         Refuse(a) \/ HearNothing(a) \/ BrokenPipe(a) \/ PublicationRaises(a)
  PROVE  TypeInv'
<1>1. Fail(a) /\ ByHost /\ (Trouble \/ UNCHANGED budget)
  BY DEF Refuse, HearNothing, BrokenPipe, PublicationRaises
<1> QED
  BY <1>1, FailType

LEMMA PublishType ==
  ASSUME TypeInv, NEW a \in Analyses, Decided(a),
         Prepare(a) \/ ReplaceRevision(a) \/ PointCurrent(a)
  PROVE  TypeInv'
<1>1. ByHost /\ UNCHANGED budget /\ ProviderTypeOK /\ Running(a)
  BY DEF TypeInv, Prepare, ReplaceRevision, PointCurrent, Running, Publishes
<1>2. host[a] \in Run
  BY <1>1, RunOf
<1>3. CASE Fail(a)
  BY <1>1, <1>3, FailType
<1>4. CASE ~Fail(a)
  <2>1. UNCHANGED <<provider, pipes, staging>>
    BY <1>4 DEF Prepare, ReplaceRevision, PointCurrent
  <2>2. host' \in [Analyses -> {Idle} \cup Ended \cup Run]
    <3>1. \/ \E step \in Publishes : Goes(a, step)
          \/ \E report \in Reports : Ends(a, report)
      BY <1>4
      DEF Prepare, ReplaceRevision, PointCurrent, Publishes, Reports
    <3> QED
      BY <1>1, <3>1, RunGoes, RunEnds
  <2>3. revisions' \in [Revisions -> Payload \cup {None}]
    <3>1. CASE /\ ReplaceRevision(a)
               /\ revisions' = [revisions EXCEPT ![host[a].revision] =
                    [analysis |-> a, rows |-> host[a].rows,
                     status |-> host[a].status, counted |-> host[a].counted]]
      <4> host[a].status \in Statuses
        BY <3>1 DEF ReplaceRevision, Decided, Statuses
      <4>1. [analysis |-> a, rows |-> host[a].rows, status |-> host[a].status,
             counted |-> host[a].counted] \in Payload
        BY <1>2, <3>1 DEF Payload, Run
      <4> QED
        BY <1>1, <3>1, <4>1 DEF ProviderTypeOK
    <3> QED
      BY <1>1, <1>4, <3>1
      DEF Prepare, ReplaceRevision, PointCurrent, ProviderTypeOK, store
  <2>4. current' \in Revisions \cup {None}
    BY <1>1, <1>2, <1>4
    DEF Prepare, ReplaceRevision, PointCurrent, ProviderTypeOK, store, Run
  <2>5. \A b \in Analyses : Informed(b)'
    BY <2>1, InformedStays
  <2> QED
    BY <1>1, <2>1, <2>2, <2>3, <2>4, <2>5
    DEF TypeInv, ProviderTypeOK, ByHost, pipes
<1> QED
  BY <1>3, <1>4

(***************************************************************************)
(* One reading                                                             *)
(***************************************************************************)

LEMMA SaySeq ==
  ASSUME ProviderTypeOK, NEW a \in Analyses, NEW S, NEW message \in S,
         toHost[a] \in Seq(S), Say(a, message)
  PROVE  /\ toHost'[a] \in Seq(S)
         /\ \A b \in Analyses \ {a} : toHost'[b] = toHost[b]
<1>1. Append(toHost[a], message) \in Seq(S)
  OBVIOUS
<1> QED
  BY <1>1 DEF Say, ProviderTypeOK

LEMMA PlainReading ==
  ASSUME NEW f
  PROVE  /\ PlainAnswers \subseteq Answers({f})
         /\ Seq(PlainAnswers) \subseteq Seq(Answers({f}))
<1>1. PlainAnswers \subseteq Answers({f})
  BY DEF Answers
<1> QED
  BY <1>1, SeqMonotonic

(* A step of a provider concerns its own run only.                         *)
LEMMA ProviderAlone ==
  ASSUME HostInv, NEW a \in Analyses, UNCHANGED <<host, store>>,
         \A b \in Analyses \ {a} : /\ provider'[b] = provider[b]
                                   /\ toHost'[b] = toHost[b],
         OneReading(a)'
  PROVE  HostInv'
<1>1. \A b \in Analyses : Decided(b)'
  BY DEF HostInv, Decided, Vacant, store
<1>2. \A b \in Analyses : OneReading(b)'
  <2>1. ASSUME NEW b \in Analyses, b # a
        PROVE  OneReading(b)'
    <3>1. provider'[b] = provider[b] /\ toHost'[b] = toHost[b] /\ host' = host
      BY <2>1
    <3>2. OneReading(b)
      BY DEF HostInv
    <3> QED
      BY <3>1, <3>2 DEF OneReading, Running
  <2> QED
    BY <2>1
<1>3. PublishedIsWhole' /\ CurrentIsThere'
  BY DEF HostInv, PublishedIsWhole, CurrentIsThere, Vacant, store
<1> QED
  BY <1>1, <1>2, <1>3 DEF HostInv

LEMMA AnswerKeeps ==
  ASSUME TypeInv, HostInv, NEW a \in Analyses,
         AnswerHello(a) \/ BeginAnalysis(a) \/ AnswerCancel(a) \/ CloseCancelled(a)
  PROVE  HostInv'
<1>1. /\ ProviderTypeOK /\ UNCHANGED <<host, store>> /\ Running(a)
      /\ OneReading(a)
  BY DEF TypeInv, HostInv, AnswerHello, BeginAnalysis, AnswerCancel,
     CloseCancelled, ByProvider, Connected
<1>2. PICK message \in PlainAnswers : Say(a, message)
  BY DEF AnswerHello, BeginAnalysis, AnswerCancel, CloseCancelled, PlainAnswers
<1>3. /\ \A b \in Analyses \ {a} : provider'[b] = provider[b]
      /\ provider'[a].step \in {"analyze", "load", "cancelled", "exited"}
      /\ provider'[a].step \in {"analyze", "load"} =>
           provider[a].step \in BeforeSending
  <2>1. CASE CloseCancelled(a)
    BY <2>1, ExitType DEF CloseCancelled
  <2>2. CASE ~CloseCancelled(a)
    <3>1. PICK step \in {"analyze", "load", "cancelled"} :
            /\ ProviderGoes(a, step) /\ provider[a].step \in SessionSteps
            /\ step # "cancelled" => provider[a].step \in BeforeSending
      BY <2>2
      DEF AnswerHello, BeginAnalysis, AnswerCancel, SessionSteps, BeforeSending
    <3>2. step \in SessionSteps
      BY DEF SessionSteps
    <3> QED
      BY <3>1, <3>2, GoesOn
  <2> QED
    BY <2>1, <2>2
<1>4. PICK f \in Facts :
        /\ host[a].rows = (0..(host[a].count - 1)) \X {f}
        /\ toHost[a] \in Seq(Answers({f}))
  BY <1>1 DEF OneReading
<1>5. /\ toHost'[a] \in Seq(Answers({f}))
      /\ \A b \in Analyses \ {a} : toHost'[b] = toHost[b]
  BY <1>1, <1>2, <1>4, SaySeq, PlainReading
<1>6. provider[a].step \in BeforeSending =>
        host[a].count = 0 /\ toHost'[a] \in Seq(PlainAnswers)
  BY <1>1, <1>2, SaySeq DEF OneReading
<1>7. OneReading(a)'
  BY <1>1, <1>3, <1>4, <1>5, <1>6 DEF OneReading, Sending, BeforeSending
<1> QED
  BY <1>1, <1>3, <1>5, <1>7, ProviderAlone

LEMMA ReadKeeps ==
  ASSUME TypeInv, HostInv, NEW a \in Analyses,
         LoadUnit(a) \/ ParseUnit(a) \/ DigestDependencies(a), TypeInv'
  PROVE  HostInv'
<1>1. /\ ProviderTypeOK /\ UNCHANGED <<host, store, toHost>>
      /\ provider[a].step \in BeforeSending
      /\ \A b \in Analyses \ {a} : provider'[b] = provider[b]
  BY DEF TypeInv, LoadUnit, ParseUnit, DigestDependencies, ByProvider, pipes,
     BeforeSending, ProviderTypeOK
<1>2. provider'[a].step \in {"parse", "digest", "send"}
  <2>1. provider[a] \in Session
    BY <1>1, SessionOf DEF BeforeSending, SessionSteps
  <2>2. CASE LoadUnit(a)
    BY <1>1, <2>1, <2>2 DEF LoadUnit, ProviderTypeOK, Session
  <2>3. CASE ParseUnit(a)
    BY <1>1, <2>1, <2>3 DEF ParseUnit, ProviderTypeOK, Session
  <2>4. CASE DigestDependencies(a)
    BY <1>1, <2>1, <2>4 DEF DigestDependencies, ProviderTypeOK, Session
  <2> QED
    BY <2>2, <2>3, <2>4
<1>3. provider'[a].step = "send" => provider'[a].facts \in Facts
  BY DEF TypeInv, Informed
<1>4. ASSUME Running(a)
      PROVE  /\ host[a].count = 0 /\ host[a].rows = {}
             /\ toHost[a] \in Seq(PlainAnswers)
  <2>1. host[a].count = 0 /\ toHost[a] \in Seq(PlainAnswers)
    BY <1>1, <1>4 DEF HostInv, OneReading
  <2>2. \E f \in Facts : host[a].rows = (0..(host[a].count - 1)) \X {f}
    BY <1>4 DEF HostInv, OneReading
  <2>3. 0..(0 - 1) = {}
    OBVIOUS
  <2> QED
    BY <2>1, <2>2, <2>3
<1>5. OneReading(a)'
  <2>1. SUFFICES ASSUME Running(a)' PROVE OneReading(a)'
    BY DEF OneReading
  <2>2. Running(a)
    BY <1>1, <2>1 DEF Running
  <2>3. \E f \in Facts : provider'[a].step = "send" => provider'[a].facts = f
    <3>1. [source |-> 0, header |-> 0] \in Facts
      BY DEF Facts, Inputs
    <3>2. CASE provider'[a].step = "send"
      BY <1>3, <3>2
    <3> QED
      BY <3>1, <3>2
  <2>4. PICK f \in Facts : provider'[a].step = "send" => provider'[a].facts = f
    BY <2>3
  <2>5. host[a].rows = (0..(host[a].count - 1)) \X {f}
    <3>1. 0..(0 - 1) = {}
      OBVIOUS
    <3> QED
      BY <1>4, <2>2, <3>1
  <2>6. toHost[a] \in Seq(Answers({f}))
    BY <1>4, <2>2, PlainReading
  <2> QED
    BY <1>1, <1>2, <1>4, <2>2, <2>4, <2>5, <2>6 DEF OneReading, Sending
<1> QED
  BY <1>1, <1>5, ProviderAlone

LEMMA SendKeeps ==
  ASSUME TypeInv, HostInv, NEW a \in Analyses, SendBatch(a) \/ SendComplete(a)
  PROVE  HostInv'
<1>1. /\ ProviderTypeOK /\ UNCHANGED <<host, store>> /\ Running(a)
      /\ OneReading(a) /\ provider[a].step = "send"
  BY DEF TypeInv, HostInv, SendBatch, SendComplete, ByProvider, Connected
<1>2. PICK f \in Facts :
        /\ host[a].rows = (0..(host[a].count - 1)) \X {f}
        /\ toHost[a] \in Seq(Answers({f})) /\ provider[a].facts = f
  BY <1>1 DEF OneReading, Sending
<1>3. /\ provider[a] \in Session /\ provider \in [Analyses -> Provider]
  BY <1>1, SessionOf DEF ProviderTypeOK, SessionSteps
<1>4. /\ provider'[a].facts = f /\ provider'[a].step \in {"send", "shutdown"}
      /\ \A b \in Analyses \ {a} : provider'[b] = provider[b]
  <2>1. CASE SendBatch(a)
    BY <1>1, <1>2, <1>3, <2>1 DEF SendBatch, Session
  <2>2. CASE SendComplete(a)
    BY <1>1, <1>2, <1>3, <2>2 DEF SendComplete, ProviderGoes, Session
  <2> QED
    BY <2>1, <2>2
<1>5. UNCHANGED toHost \/ \E message \in Answers({f}) : Say(a, message)
  <2>1. CASE SendBatch(a)
    <3>1. provider[a].sent \in Parts
      BY <1>3, <2>1, ProviderAssumption DEF SendBatch, Session, Parts
    <3>2. Batch(provider[a].sent, f) \in Answers({f})
      BY <3>1 DEF Answers
    <3> QED
      BY <1>2, <2>1, <3>2 DEF SendBatch
  <2>2. CASE SendComplete(a)
    BY <2>2, CompletionSaid
  <2> QED
    BY <2>1, <2>2
<1>6. /\ toHost'[a] \in Seq(Answers({f}))
      /\ \A b \in Analyses \ {a} : toHost'[b] = toHost[b]
  BY <1>1, <1>2, <1>5, SaySeq
<1>7. OneReading(a)'
  BY <1>1, <1>2, <1>4, <1>6 DEF OneReading, Sending, BeforeSending
<1> QED
  BY <1>1, <1>4, <1>6, <1>7, ProviderAlone

LEMMA ShutdownKeeps ==
  ASSUME TypeInv, HostInv, NEW a \in Analyses,
         HearShutdown(a) \/ PublishCache(a) \/ ProviderDies(a)
  PROVE  HostInv'
<1>1. ProviderTypeOK /\ UNCHANGED <<host, store>> /\ OneReading(a)
  <2>1. ByProvider
    BY DEF HearShutdown, PublishCache, ProviderDies
  <2> QED
    BY <2>1 DEF TypeInv, HostInv, ByProvider
<1>2. UNCHANGED toHost \/ Say(a, Plain("shutdown_ack"))
  <2>1. CASE HearShutdown(a) \/ ProviderDies(a)
    BY <2>1 DEF HearShutdown, ProviderDies, pipes
  <2>2. CASE PublishCache(a)
    BY <2>2 DEF PublishCache
  <2> QED
    BY <2>1, <2>2
<1>3. /\ \A b \in Analyses \ {a} : provider'[b] = provider[b]
      /\ \/ provider'[a].step = "exited"
         \/ /\ provider'[a].step = "acknowledge"
            /\ provider[a].step = "shutdown"
            /\ provider'[a].facts = provider[a].facts
  <2>1. CASE \E code \in {0, 1} : Exit(a, code)
    BY <2>1, ExitType
  <2>2. CASE ~\E code \in {0, 1} : Exit(a, code)
    <3>1. provider[a].step = "shutdown" /\ ProviderGoes(a, "acknowledge")
      BY <2>2 DEF HearShutdown, PublishCache, ProviderDies
    <3>2. "shutdown" \in SessionSteps /\ "acknowledge" \in SessionSteps
      BY DEF SessionSteps
    <3> QED
      BY <3>1, <3>2, GoesOn
  <2> QED
    BY <2>1, <2>2
<1>4. Plain("shutdown_ack") \in PlainAnswers
  BY DEF PlainAnswers
<1>5. \A b \in Analyses \ {a} : toHost'[b] = toHost[b]
  BY <1>1, <1>2 DEF Say, ProviderTypeOK
<1>6. OneReading(a)'
  <2>1. SUFFICES ASSUME Running(a) PROVE OneReading(a)'
    BY <1>1 DEF OneReading, Running
  <2>2. PICK f \in Facts :
          /\ host[a].rows = (0..(host[a].count - 1)) \X {f}
          /\ toHost[a] \in Seq(Answers({f}))
          /\ provider[a].step \in Sending => provider[a].facts = f
    BY <1>1, <2>1 DEF OneReading
  <2>3. toHost'[a] \in Seq(Answers({f}))
    BY <1>1, <1>2, <1>4, <2>2, SaySeq, PlainReading
  <2> QED
    BY <1>1, <1>3, <2>2, <2>3 DEF OneReading, Sending, BeforeSending
<1> QED
  BY <1>1, <1>3, <1>5, <1>6, ProviderAlone

(* A step of the host that concerns its run and, at most, adds a revision. *)
LEMMA HostAlone ==
  ASSUME HostInv, NEW a \in Analyses,
         \A b \in Analyses \ {a} : /\ provider'[b] = provider[b]
                                   /\ toHost'[b] = toHost[b]
                                   /\ host'[b] = host[b],
         ProviderTypeOK,
         \A r \in Revisions : ~Vacant(r) => revisions'[r] = revisions[r],
         Decided(a)', OneReading(a)', PublishedIsWhole', CurrentIsThere'
  PROVE  HostInv'
<1>1. ASSUME NEW b \in Analyses, b # a
      PROVE  Decided(b)' /\ OneReading(b)'
  <2>1. /\ provider'[b] = provider[b] /\ toHost'[b] = toHost[b]
        /\ host'[b] = host[b]
    BY <1>1
  <2>2. OneReading(b) /\ Decided(b)
    BY DEF HostInv
  <2>3. OneReading(b)'
    BY <2>1, <2>2 DEF OneReading, Running
  <2>4. Decided(b)'
    <3>1. host[b].step = "point" => host[b].revision \in Revisions
      <4>1. host[b].step = "point" => Running(b)
        BY DEF Running, Publishes
      <4>2. Running(b) => host[b] \in Run
        BY RunOf
      <4> QED
        BY <4>1, <4>2 DEF Run
    <3> QED
      BY <2>1, <2>2, <3>1 DEF Decided, Vacant
  <2> QED
    BY <2>3, <2>4
<1> QED
  BY <1>1 DEF HostInv

LEMMA StoreStays ==
  ASSUME HostInv, UNCHANGED store
  PROVE  /\ PublishedIsWhole' /\ CurrentIsThere'
         /\ \A r \in Revisions : revisions'[r] = revisions[r]
  BY DEF HostInv, PublishedIsWhole, CurrentIsThere, Vacant, store

(* A run that is over, or has got nothing yet, is in order.                *)
LEMMA RunOver ==
  ASSUME NEW a \in Analyses, host'[a].step \in Reports
  PROVE  Decided(a)' /\ OneReading(a)' /\ ~Running(a)'
<1>1. host'[a].step \notin Waits \cup Publishes
  BY DEF Reports, Waits, Publishes
<1> QED
  BY <1>1 DEF Decided, OneReading, Running, AfterCount, Waits, Publishes

LEMMA FailKeeps ==
  ASSUME TypeInv, HostInv, NEW a \in Analyses, Fail(a)
  PROVE  HostInv'
<1>1. /\ ProviderTypeOK /\ Hangup(a) /\ Quarantined(a, "FAILED")
      /\ UNCHANGED store
  BY DEF TypeInv, Fail
<1>2. /\ host'[a].step \in Reports
      /\ \A b \in Analyses \ {a} : host'[b] = host[b]
  BY <1>1, QuarantineType
<1>3. \A b \in Analyses \ {a} : /\ provider'[b] = provider[b]
                                /\ toHost'[b] = toHost[b]
  BY <1>1, HangupType
<1> QED
  BY <1>1, <1>2, <1>3, HostAlone, RunOver, StoreStays

LEMMA RunAnalysisKeeps ==
  ASSUME TypeInv, HostInv, NEW a \in Analyses, NEW r \in Revisions,
         RunAnalysis(a, r)
  PROVE  HostInv'
<1>1. ProviderTypeOK /\ UNCHANGED store
  BY DEF TypeInv, RunAnalysis
<1>2. CASE "active" \in staging[a]
  <2>1. Ends(a, "raised") /\ UNCHANGED <<provider, toHost>>
    BY <1>2 DEF RunAnalysis, pipes
  <2>2. /\ host'[a].step \in Reports
        /\ \A b \in Analyses \ {a} : host'[b] = host[b]
    BY <1>1, <2>1, RunEnds DEF Reports
  <2> QED
    BY <1>1, <2>1, <2>2, HostAlone, RunOver, StoreStays
<1>3. CASE "active" \notin staging[a]
  <2>1. /\ host' = [host EXCEPT ![a] =
               [step |-> "hello_ack", revision |-> r, cancelled |-> FALSE,
                count |-> 0, rows |-> {}, status |-> None, counted |-> 0]]
        /\ provider' = [provider EXCEPT ![a] =
               [step |-> "hello", seen |-> None, facts |-> None,
                entry |-> None, sent |-> 0]]
        /\ toHost' = [toHost EXCEPT ![a] = <<>>]
    BY <1>3 DEF RunAnalysis
  <2>2. /\ host'[a].step = "hello_ack" /\ host'[a].count = 0
        /\ host'[a].rows = {} /\ provider'[a].step = "hello"
        /\ toHost'[a] = <<>>
        /\ \A b \in Analyses \ {a} : /\ provider'[b] = provider[b]
                                     /\ toHost'[b] = toHost[b]
                                     /\ host'[b] = host[b]
    BY <1>1, <2>1 DEF ProviderTypeOK
  <2>3. Decided(a)'
    BY <2>2 DEF Decided, AfterCount, Publishes
  <2>4. OneReading(a)'
    <3>1. [source |-> 0, header |-> 0] \in Facts
      BY DEF Facts, Inputs
    <3>2. 0..(0 - 1) = {}
      OBVIOUS
    <3>3. \A f : host'[a].rows = (0..(host'[a].count - 1)) \X {f}
      BY <2>2, <3>2
    <3>4. \A f : toHost'[a] \in Seq(Answers({f}))
      BY <2>2
    <3>5. toHost'[a] \in Seq(PlainAnswers)
      BY <2>2
    <3> QED
      BY <2>2, <3>1, <3>3, <3>4, <3>5 DEF OneReading, Sending
  <2> QED
    BY <1>1, <2>2, <2>3, <2>4, HostAlone, StoreStays
<1> QED
  BY <1>2, <1>3

(* A run that goes on with what it has.                                    *)
LEMMA GoesOnReading ==
  ASSUME TypeInv, HostInv, NEW a \in Analyses, Running(a),
         host'[a].rows = host[a].rows, host'[a].count = host[a].count,
         provider'[a] = provider[a] \/ provider'[a].step = "gone",
         \A S : toHost[a] \in Seq(S) => toHost'[a] \in Seq(S)
  PROVE  OneReading(a)'
<1>1. PICK f \in Facts :
        /\ host[a].rows = (0..(host[a].count - 1)) \X {f}
        /\ toHost[a] \in Seq(Answers({f}))
        /\ provider[a].step \in Sending => provider[a].facts = f
  BY DEF HostInv, OneReading
<1>2. provider[a].step \in BeforeSending =>
        host[a].count = 0 /\ toHost[a] \in Seq(PlainAnswers)
  BY DEF HostInv, OneReading
<1>3. /\ toHost'[a] \in Seq(Answers({f}))
      /\ toHost[a] \in Seq(PlainAnswers) => toHost'[a] \in Seq(PlainAnswers)
  BY <1>1
<1> QED
  BY <1>1, <1>2, <1>3 DEF OneReading, Sending, BeforeSending

LEMMA ComesRest ==
  ASSUME ProviderTypeOK, NEW a \in Analyses, NEW step, NEW type,
         Comes(a, step, type)
  PROVE  /\ \A S : toHost[a] \in Seq(S) => toHost'[a] \in Seq(S)
         /\ \A b \in Analyses \ {a} : toHost'[b] = toHost[b]
<1>1. toHost[a] # <<>> /\ toHost'[a] = Tail(toHost[a])
  BY DEF Comes, ProviderTypeOK
<1>2. \A S : toHost[a] \in Seq(S) => Tail(toHost[a]) \in Seq(S)
  BY <1>1, HeadTailProperties
<1> QED
  BY <1>1, <1>2 DEF Comes, ProviderTypeOK

LEMMA HandshakeKeeps ==
  ASSUME TypeInv, HostInv, NEW a \in Analyses,
         ReceiveAck(a) \/ DrainRequest(a) \/ ReceiveStarted(a)
           \/ SendCancel(a) \/ ReceiveCancelled(a) \/ ReceiveShutdownAck(a)
  PROVE  HostInv'
<1>1. /\ ProviderTypeOK /\ UNCHANGED <<provider, store>> /\ Running(a)
  BY DEF TypeInv, ReceiveAck, DrainRequest, ReceiveStarted, SendCancel, ReceiveCancelled,
     ReceiveShutdownAck, Comes, Running, Waits
<1>2. PICK step \in Waits :
        /\ Goes(a, step)
        /\ step \in AfterCount => host[a].step \in AfterCount
  BY DEF ReceiveAck, DrainRequest, ReceiveStarted, SendCancel, ReceiveCancelled,
     ReceiveShutdownAck, Waits, AfterCount, Publishes, Comes
<1>3. /\ host'[a].step = step /\ host'[a].count = host[a].count
      /\ host'[a].rows = host[a].rows
      /\ host'[a].counted = host[a].counted
      /\ \A b \in Analyses \ {a} : host'[b] = host[b]
  BY <1>1, <1>2, RunGoes
<1>4. /\ \A S : toHost[a] \in Seq(S) => toHost'[a] \in Seq(S)
      /\ \A b \in Analyses \ {a} : toHost'[b] = toHost[b]
  BY <1>1, ComesRest
  DEF ReceiveAck, DrainRequest, ReceiveStarted, SendCancel, ReceiveCancelled,
      ReceiveShutdownAck
<1>5. Decided(a)'
  BY <1>2, <1>3 DEF HostInv, Decided, Waits
<1>6. OneReading(a)'
  BY <1>1, <1>3, <1>4, GoesOnReading
<1> QED
  BY <1>1, <1>3, <1>4, <1>5, <1>6, HostAlone, StoreStays

LEMMA CancellationKeeps ==
  ASSUME TypeInv, HostInv, NEW a \in Analyses, RequestCancellation(a)
  PROVE  HostInv'
<1>1. /\ UNCHANGED <<provider, toHost, store>> /\ Running(a)
      /\ ProviderTypeOK
  BY DEF TypeInv, RequestCancellation, Running, Waits, pipes
<1>2. /\ host'[a].step = host[a].step /\ host'[a].rows = host[a].rows
      /\ host'[a].count = host[a].count
      /\ host'[a].status = host[a].status
      /\ host'[a].counted = host[a].counted
      /\ host'[a].revision = host[a].revision
      /\ \A b \in Analyses \ {a} : host'[b] = host[b]
  BY CancellationType
<1>3. Decided(a)'
  BY <1>1, <1>2 DEF HostInv, Decided, Vacant, store
<1>4. OneReading(a)'
  BY <1>1, <1>2, GoesOnReading
<1> QED
  BY <1>1, <1>2, <1>3, <1>4, HostAlone, StoreStays

(* The next batch is of the same reading.                                  *)
LEMMA ReceiveBatchKeeps ==
  ASSUME TypeInv, HostInv, NEW a \in Analyses, ReceiveBatch(a)
  PROVE  HostInv'
<1>1. /\ ProviderTypeOK /\ UNCHANGED <<provider, store>>
      /\ Comes(a, "loop", "fact_batch") /\ Running(a)
  BY DEF TypeInv, ReceiveBatch, Listening, Running, Waits
<1>2. PICK f \in Facts :
        /\ host[a].rows = (0..(host[a].count - 1)) \X {f}
        /\ toHost[a] \in Seq(Answers({f}))
        /\ provider[a].step \in Sending => provider[a].facts = f
  BY <1>1 DEF HostInv, OneReading
<1>3. PICK g \in Facts :
        /\ Incoming(a) = Batch(host[a].count, g)
        /\ host'[a].rows = host[a].rows \cup {<<host[a].count, g>>}
  BY ReceiveBatchEffect
<1>4. /\ host[a].count \in Parts
      /\ host'[a].step = "loop" /\ host'[a].count = host[a].count + 1
      /\ \A b \in Analyses \ {a} : host'[b] = host[b]
  BY ReceiveBatchEffect
<1>5. toHost[a] # <<>> /\ Incoming(a) = Head(toHost[a])
  BY <1>1 DEF Comes, Incoming
<1>6. g = f
  <2>1. Incoming(a) \in Answers({f}) /\ Incoming(a).type = "fact_batch"
    BY <1>1, <1>2, <1>5, HeadTailProperties DEF Comes
  <2>2. PICK n \in Parts : Incoming(a) = Batch(n, f)
    BY <2>1, AnswerKinds
  <2> QED
    BY <1>3, <2>2 DEF Batch
<1>7. provider[a].step \notin BeforeSending
  <2>1. SUFFICES ASSUME provider[a].step \in BeforeSending PROVE FALSE
    OBVIOUS
  <2>2. toHost[a] \in Seq(PlainAnswers)
    BY <1>1, <2>1 DEF HostInv, OneReading
  <2>3. Head(toHost[a]) \in PlainAnswers
    BY <1>5, <2>2, HeadTailProperties
  <2>4. Incoming(a).type = "fact_batch"
    BY <1>1 DEF Comes
  <2> QED
    BY <1>5, <2>3, <2>4 DEF PlainAnswers, Plain
<1>8. host'[a].rows = (0..(host'[a].count - 1)) \X {f}
  <2>1. host[a].count \in Nat /\ host'[a].count - 1 = host[a].count
    BY <1>4, ProviderAssumption DEF Parts
  <2>2. 0..host[a].count = (0..(host[a].count - 1)) \cup {host[a].count}
    BY <2>1
  <2>3. host'[a].rows = (0..host[a].count) \X {f}
    BY <1>2, <1>3, <1>6, <2>2
  <2> QED
    BY <2>1, <2>3
<1>9. /\ toHost'[a] \in Seq(Answers({f}))
      /\ \A b \in Analyses \ {a} : toHost'[b] = toHost[b]
  BY <1>1, <1>2, ComesRest
<1>10. OneReading(a)'
  BY <1>1, <1>2, <1>7, <1>8, <1>9 DEF OneReading
<1>11. Decided(a)'
  BY <1>4 DEF Decided, AfterCount, Publishes
<1> QED
  BY <1>1, <1>4, <1>9, <1>10, <1>11, HostAlone, StoreStays

LEMMA ReceiveCompleteKeeps ==
  ASSUME TypeInv, HostInv, NEW a \in Analyses, ReceiveComplete(a)
  PROVE  HostInv'
<1>1. /\ ProviderTypeOK /\ UNCHANGED <<provider, store>>
      /\ Comes(a, "loop", "analysis_complete") /\ Running(a)
  BY DEF TypeInv, ReceiveComplete, Listening, Running, Waits
<1>2. /\ host'[a].step = "shutdown_ack" /\ host'[a].count = host[a].count
      /\ host'[a].counted = host[a].count /\ host'[a].rows = host[a].rows
      /\ \A b \in Analyses \ {a} : host'[b] = host[b]
  BY ReceiveCompleteEffect
<1>3. /\ \A S : toHost[a] \in Seq(S) => toHost'[a] \in Seq(S)
      /\ \A b \in Analyses \ {a} : toHost'[b] = toHost[b]
  BY <1>1, ComesRest
<1>4. Decided(a)'
  BY <1>2 DEF Decided
<1>5. OneReading(a)'
  BY <1>1, <1>2, <1>3, GoesOnReading
<1> QED
  BY <1>1, <1>2, <1>3, <1>4, <1>5, HostAlone, StoreStays

LEMMA SeeExitKeeps ==
  ASSUME TypeInv, HostInv, NEW a \in Analyses, SeeExit(a)
  PROVE  HostInv'
<1>1. ProviderTypeOK /\ Hangup(a) /\ UNCHANGED store
  BY DEF TypeInv, SeeExit
<1>2. /\ provider'[a].step = "gone" /\ toHost'[a] = <<>>
      /\ \A b \in Analyses \ {a} : /\ provider'[b] = provider[b]
                                   /\ toHost'[b] = toHost[b]
  BY <1>1, HangupType
<1>3. CASE host[a].step = "exit" /\ Goes(a, "prepare")
  <2>1. Running(a) /\ "prepare" \in Waits \cup Publishes
    BY <1>3 DEF Running, Waits, Publishes
  <2>2. /\ host'[a].step = "prepare" /\ host'[a].count = host[a].count
        /\ host'[a].rows = host[a].rows /\ host'[a].counted = host[a].counted
        /\ \A b \in Analyses \ {a} : host'[b] = host[b]
    BY <1>1, <1>3, <2>1, RunGoes
  <2>3. Decided(a)'
    BY <1>3, <2>2 DEF HostInv, Decided, AfterCount
  <2>4. \A S : toHost'[a] \in Seq(S)
    BY <1>2
  <2>5. OneReading(a)'
    BY <1>2, <2>1, <2>2, <2>4, GoesOnReading
  <2> QED
    BY <1>1, <1>2, <2>2, <2>3, <2>5, HostAlone, StoreStays
<1>4. CASE Quarantined(a, "CANCELLED")
  <2>1. /\ host'[a].step \in Reports
        /\ \A b \in Analyses \ {a} : host'[b] = host[b]
    BY <1>1, <1>4, QuarantineType
  <2> QED
    BY <1>1, <1>2, <2>1, HostAlone, RunOver, StoreStays
<1> QED
  BY <1>3, <1>4 DEF SeeExit

(***************************************************************************)
(* The publication                                                         *)
(***************************************************************************)

(* A step of the publication touches neither provider nor pipes.           *)
LEMMA PublishQuiet ==
  ASSUME NEW a \in Analyses, ~Fail(a),
         Prepare(a) \/ ReplaceRevision(a) \/ PointCurrent(a)
  PROVE  UNCHANGED <<provider, toHost>>
  BY DEF Prepare, ReplaceRevision, PointCurrent, pipes

LEMMA PrepareKeeps ==
  ASSUME TypeInv, HostInv, NEW a \in Analyses, Prepare(a)
  PROVE  HostInv'
<1>1. ProviderTypeOK /\ Running(a) /\ host[a].step = "prepare"
  BY DEF TypeInv, Prepare, Running, Publishes
<1>2. CASE Fail(a)
  BY <1>2, FailKeeps
<1>3. CASE ~Fail(a)
  <2>1. UNCHANGED <<provider, toHost, store>>
    BY <1>3, PublishQuiet DEF Prepare
  <2>2. CASE Ends(a, "STAGED")
    <3>1. /\ host'[a].step \in Reports
          /\ \A b \in Analyses \ {a} : host'[b] = host[b]
      BY <1>1, <2>2, RunEnds DEF Reports
    <3> QED
      BY <1>1, <2>1, <3>1, HostAlone, RunOver, StoreStays
  <2>3. CASE Goes(a, "replace") /\ host[a].status = "COMPLETE"
    <3>1. "replace" \in Waits \cup Publishes
      BY DEF Publishes
    <3>2. /\ host'[a].step = "replace" /\ host'[a].count = host[a].count
          /\ host'[a].rows = host[a].rows
          /\ host'[a].status = host[a].status
          /\ host'[a].counted = host[a].counted
          /\ \A b \in Analyses \ {a} : host'[b] = host[b]
      BY <1>1, <2>3, <3>1, RunGoes
    <3>3. Decided(a)'
      BY <1>1, <2>3, <3>2 DEF HostInv, Decided, AfterCount, Publishes
    <3>4. OneReading(a)'
      BY <1>1, <2>1, <3>2, GoesOnReading
    <3> QED
      BY <1>1, <2>1, <3>2, <3>3, <3>4, HostAlone, StoreStays
  <2> QED
    BY <1>3, <2>2, <2>3 DEF Prepare
<1> QED
  BY <1>2, <1>3

(* What is put under a vacant revision is whole.                           *)
LEMMA ReplaceKeeps ==
  ASSUME TypeInv, HostInv, NEW a \in Analyses, ReplaceRevision(a)
  PROVE  HostInv'
<1>1. ProviderTypeOK /\ Running(a) /\ host[a].step = "replace"
  BY DEF TypeInv, ReplaceRevision, Running, Publishes
<1>2. CASE Fail(a)
  BY <1>2, FailKeeps
<1>3. CASE ~Fail(a)
  <2> DEFINE r == host[a].revision
             payload == [analysis |-> a, rows |-> host[a].rows,
                         status |-> host[a].status,
                         counted |-> host[a].counted]
  <2>1. /\ UNCHANGED <<provider, toHost, current>> /\ Goes(a, "point")
        /\ Vacant(r) /\ revisions' = [revisions EXCEPT ![r] = payload]
    BY <1>3, PublishQuiet DEF ReplaceRevision
  <2>2. host[a] \in Run /\ r \in Revisions
    BY <1>1, RunOf DEF Run
  <2>3. /\ host'[a].step = "point" /\ host'[a].count = host[a].count
        /\ host'[a].rows = host[a].rows /\ host'[a].revision = r
        /\ host'[a].status = host[a].status
        /\ host'[a].counted = host[a].counted
        /\ \A b \in Analyses \ {a} : host'[b] = host[b]
    <3>1. "point" \in Waits \cup Publishes
      BY DEF Publishes
    <3> QED
      BY <1>1, <2>1, <3>1, RunGoes
  <2>4. host[a].status = "COMPLETE" /\ host[a].count = host[a].counted
    BY <1>1 DEF HostInv, Decided, AfterCount, Publishes
  <2>5. \E f \in Facts : host[a].rows = (0..(host[a].counted - 1)) \X {f}
    BY <1>1, <2>4 DEF HostInv, OneReading
  <2>6. /\ payload # None /\ payload.status = "COMPLETE"
        /\ payload.rows = host[a].rows /\ payload.counted = host[a].counted
    <3>1. /\ payload.status = "COMPLETE" /\ payload.rows = host[a].rows
          /\ payload.counted = host[a].counted
      BY <2>4
    <3>2. payload \in Payload
      BY <2>2, <2>4 DEF Payload, Run, Statuses
    <3> QED
      BY <3>1, <3>2, NoneAssumption
  <2>7. /\ revisions'[r] = payload
        /\ \A q \in Revisions \ {r} : revisions'[q] = revisions[q]
    BY <1>1, <2>1, <2>2 DEF ProviderTypeOK
  <2> HIDE DEF payload
  <2>8. PublishedIsWhole'
    <3>1. ASSUME NEW q \in Revisions, ~Vacant(q)'
          PROVE  /\ revisions'[q].status = "COMPLETE"
                 /\ \E f \in Facts : revisions'[q].rows =
                                       (0..(revisions'[q].counted - 1)) \X {f}
      <4>1. CASE q = r
        BY <2>5, <2>6, <2>7, <4>1
      <4>2. CASE q # r
        BY <2>7, <3>1, <4>2 DEF HostInv, PublishedIsWhole, Vacant
      <4> QED
        BY <4>1, <4>2
    <3> QED
      BY <3>1 DEF PublishedIsWhole
  <2>9. \A q \in Revisions : ~Vacant(q) => revisions'[q] = revisions[q]
    BY <2>1, <2>7
  <2>10. CurrentIsThere'
    <3>1. current \in Revisions \cup {None}
      BY <1>1 DEF ProviderTypeOK
    <3> QED
      BY <2>1, <2>9, <3>1 DEF HostInv, CurrentIsThere, Vacant
  <2>11. Decided(a)'
    BY <2>3, <2>4, <2>6, <2>7 DEF Decided, Vacant
  <2>12. OneReading(a)'
    BY <1>1, <2>1, <2>3, GoesOnReading
  <2> QED
    BY <1>1, <2>1, <2>3, <2>8, <2>9, <2>10, <2>11, <2>12, HostAlone
<1> QED
  BY <1>2, <1>3

LEMMA PointKeeps ==
  ASSUME TypeInv, HostInv, NEW a \in Analyses, PointCurrent(a)
  PROVE  HostInv'
<1>1. /\ ProviderTypeOK /\ host[a].step = "point"
      /\ current' = host[a].revision /\ Ends(a, "PUBLISHED")
      /\ UNCHANGED <<provider, toHost, revisions>>
  BY DEF TypeInv, PointCurrent, pipes
<1>2. /\ host'[a].step \in Reports
      /\ \A b \in Analyses \ {a} : host'[b] = host[b]
  BY <1>1, RunEnds DEF Reports
<1>3. CurrentIsThere'
  BY <1>1 DEF HostInv, Decided, CurrentIsThere, Vacant
<1>4. PublishedIsWhole'
  BY <1>1 DEF HostInv, PublishedIsWhole, Vacant
<1> QED
  BY <1>1, <1>2, <1>3, <1>4, HostAlone, RunOver

LEMMA HostStepKeeps ==
  ASSUME TypeInv, HostInv, NEW a \in Analyses, HostStep(a)
  PROVE  TypeInv' /\ HostInv'
<1>1. CASE Refuse(a) \/ HearNothing(a) \/ BrokenPipe(a) \/ PublicationRaises(a)
  <2>1. Fail(a)
    BY <1>1 DEF Refuse, HearNothing, BrokenPipe, PublicationRaises
  <2> QED
    BY <1>1, <2>1, RefuseType, FailKeeps
<1>2. CASE Prepare(a) \/ ReplaceRevision(a) \/ PointCurrent(a)
  <2>1. Decided(a)
    BY DEF HostInv
  <2> QED
    BY <1>2, <2>1, PublishType, PrepareKeeps, ReplaceKeeps, PointKeeps
<1> QED
  BY <1>1, <1>2, HandshakeType, HandshakeKeeps, ReceiveBatchEffect,
     ReceiveBatchKeeps, ReceiveCompleteEffect, ReceiveCompleteKeeps,
     SeeExitType, SeeExitKeeps DEF HostStep

LEMMA ProviderStepKeeps ==
  ASSUME TypeInv, HostInv, NEW a \in Analyses, ProviderStep(a)
  PROVE  TypeInv' /\ HostInv'
  BY AnswerType, AnswerKeeps, ReadType, ReadKeeps, SendBatchType,
     SendCompleteType, SendKeeps, ShutdownType, ShutdownKeeps DEF ProviderStep

(* The program dies: its runs are over, its providers and files are not.   *)
LEMMA ProgramDiesKeeps ==
  ASSUME TypeInv, HostInv, ProgramDies
  PROVE  TypeInv' /\ HostInv'
<1>1. /\ ProviderTypeOK /\ Trouble /\ ByHost
      /\ UNCHANGED <<provider, pipes, staging, store>>
      /\ host' = [a \in Analyses |->
                    IF Running(a) THEN [step |-> "lost"] ELSE host[a]]
  BY DEF TypeInv, ProgramDies
<1>2. [step |-> "lost"] \in Ended /\ [step |-> "lost"].step \in Reports
  BY DEF Ended, Reports
<1>3. host' \in [Analyses -> {Idle} \cup Ended \cup Run]
  BY <1>1, <1>2 DEF ProviderTypeOK
<1>4. budget' \in [runs : 0..MaxRuns, edits : 0..MaxEdits,
                   troubles : 0..MaxTroubles]
  BY <1>1, TroubleType
<1>5. TypeInv'
  <2>1. \A b \in Analyses : Informed(b)'
    BY <1>1, InformedStays
  <2> QED
    BY <1>1, <1>3, <1>4, <2>1
    DEF TypeInv, ProviderTypeOK, ByHost, pipes, store
<1>6. ASSUME NEW a \in Analyses
      PROVE  Decided(a)' /\ OneReading(a)'
  <2>1. CASE Running(a)
    <3>1. host'[a].step \in Reports
      BY <1>1, <1>2, <2>1
    <3> QED
      BY <3>1, RunOver
  <2>2. CASE ~Running(a)
    <3>1. host'[a] = host[a]
      BY <1>1, <2>2
    <3>2. ~Running(a)'
      BY <2>2, <3>1 DEF Running
    <3> QED
      BY <1>1, <3>1, <3>2 DEF HostInv, Decided, OneReading, Vacant, store
  <2> QED
    BY <2>1, <2>2
<1> QED
  BY <1>1, <1>5, <1>6, StoreStays DEF HostInv

LEMMA EditKeeps ==
  ASSUME TypeInv, HostInv, Edit
  PROVE  TypeInv' /\ HostInv'
<1>1. /\ ProviderTypeOK /\ budget.edits > 0
      /\ budget' = [budget EXCEPT !.edits = @ - 1]
      /\ \/ source' = [source EXCEPT !.source = 1 - @]
         \/ source' = [source EXCEPT !.header = 1 - @]
      /\ blurred' = (blurred \/ Reading)
      /\ UNCHANGED <<cache, provider, pipes, host, staging, store>>
  BY DEF TypeInv, Edit
<1>2. source' \in Inputs
  BY <1>1 DEF ProviderTypeOK, Inputs
<1>3. budget' \in [runs : 0..MaxRuns, edits : 0..MaxEdits,
                   troubles : 0..MaxTroubles]
  <2>1. budget.edits - 1 \in 0..MaxEdits
    BY <1>1, ProviderAssumption DEF ProviderTypeOK
  <2> QED
    BY <1>1, <2>1 DEF ProviderTypeOK
<1>4. blurred' \in BOOLEAN
  BY <1>1
<1>5. TypeInv'
  <2>1. \A b \in Analyses : Informed(b)'
    BY <1>1, InformedStays
  <2> QED
    BY <1>1, <1>2, <1>3, <1>4, <2>1 DEF TypeInv, ProviderTypeOK, pipes, store
<1>6. \A a \in Analyses : Decided(a)' /\ OneReading(a)'
  <2>1. ASSUME NEW a \in Analyses
        PROVE  Decided(a)' /\ OneReading(a)'
    <3>1. UNCHANGED <<host, provider, toHost, revisions>>
      BY <1>1 DEF pipes, store
    <3>2. Decided(a) /\ OneReading(a)
      BY DEF HostInv
    <3> QED
      BY <3>1, <3>2 DEF Decided, OneReading, Vacant, Running
  <2> QED
    BY <2>1
<1> QED
  BY <1>1, <1>5, <1>6, StoreStays DEF HostInv

(***************************************************************************)
(* Fresh facts                                                             *)
(***************************************************************************)

(* Steps that read nothing of the files and write nothing to the cache.    *)
LEMMA FreshStays ==
  ASSUME FreshInv, UNCHANGED <<source, cache, blurred>>,
         \A b \in Analyses :
           \/ provider'[b].step \notin {"parse", "digest"} \cup Sending
           \/ provider'[b] = provider[b]
           \/ /\ provider'[b].step \in Sending /\ provider[b].step \in Sending
              /\ provider'[b].facts = provider[b].facts
              /\ provider'[b].seen = provider[b].seen
              /\ provider'[b].entry = provider[b].entry
  PROVE  FreshInv'
<1>1. SUFFICES ASSUME ~blurred PROVE FreshInv'
  BY DEF FreshInv
<1>2. cache' # None => cache'.facts = cache'.digests
  BY <1>1 DEF FreshInv
<1>3. ASSUME NEW b \in Analyses
      PROVE  /\ provider'[b].step \in {"parse", "digest"} =>
                  provider'[b].seen = source'
             /\ provider'[b].step = "digest" => provider'[b].facts = source'
             /\ provider'[b].step \in Sending =>
                  /\ provider'[b].facts = provider'[b].seen
                  /\ provider'[b].entry.facts = provider'[b].entry.digests
  <2>1. CASE provider'[b].step \notin {"parse", "digest"} \cup Sending
    BY <2>1
  <2>2. CASE provider'[b] = provider[b]
    BY <1>1, <2>2 DEF FreshInv
  <2>3. CASE /\ provider'[b].step \in Sending /\ provider[b].step \in Sending
             /\ provider'[b].facts = provider[b].facts
             /\ provider'[b].seen = provider[b].seen
             /\ provider'[b].entry = provider[b].entry
    BY <1>1, <2>3 DEF FreshInv, Sending
  <2> QED
    BY <2>1, <2>2, <2>3
<1> QED
  BY <1>2, <1>3 DEF FreshInv

(* A provider that goes on reading.                                        *)
LEMMA FreshOf ==
  ASSUME FreshInv, NEW a \in Analyses, UNCHANGED <<source, cache, blurred>>,
         \A b \in Analyses \ {a} : provider'[b] = provider[b],
         ~blurred =>
           /\ provider'[a].step \in {"parse", "digest"} =>
                provider'[a].seen = source
           /\ provider'[a].step = "digest" => provider'[a].facts = source
           /\ provider'[a].step \in Sending =>
                /\ provider'[a].facts = provider'[a].seen
                /\ provider'[a].entry.facts = provider'[a].entry.digests
  PROVE  FreshInv'
<1>1. SUFFICES ASSUME ~blurred PROVE FreshInv'
  BY DEF FreshInv
<1>2. cache' # None => cache'.facts = cache'.digests
  BY <1>1 DEF FreshInv
<1>3. ASSUME NEW b \in Analyses
      PROVE  /\ provider'[b].step \in {"parse", "digest"} =>
                  provider'[b].seen = source'
             /\ provider'[b].step = "digest" => provider'[b].facts = source'
             /\ provider'[b].step \in Sending =>
                  /\ provider'[b].facts = provider'[b].seen
                  /\ provider'[b].entry.facts = provider'[b].entry.digests
  <2>1. CASE b = a
    BY <1>1, <2>1
  <2>2. CASE b # a
    BY <1>1, <2>2 DEF FreshInv
  <2> QED
    BY <2>1, <2>2
<1> QED
  BY <1>2, <1>3 DEF FreshInv

LEMMA ProviderFresh ==
  ASSUME TypeInv, FreshInv, NEW a \in Analyses, ProviderStep(a)
  PROVE  FreshInv'
<1>1. /\ ProviderTypeOK /\ provider \in [Analyses -> Provider]
      /\ cache \in Entry \cup {None}
  BY DEF TypeInv, ProviderTypeOK
<1>2. CASE AnswerHello(a) \/ BeginAnalysis(a) \/ AnswerCancel(a)
  <2>1. PICK step \in {"analyze", "load", "cancelled"} :
          /\ ProviderGoes(a, step) /\ provider[a].step \in SessionSteps
    BY <1>2 DEF AnswerHello, BeginAnalysis, AnswerCancel, SessionSteps
  <2>2. step \in SessionSteps
    BY DEF SessionSteps
  <2>3. /\ provider'[a].step = step
        /\ \A b \in Analyses \ {a} : provider'[b] = provider[b]
    BY <2>1, <2>2, GoesOn
  <2>4. UNCHANGED <<source, cache, blurred>>
    BY <1>2 DEF AnswerHello, BeginAnalysis, AnswerCancel, ByProvider
  <2> QED
    BY <2>3, <2>4, FreshStays DEF Sending
<1>3. CASE LoadUnit(a)
  <2>1. /\ provider[a] \in Session /\ UNCHANGED <<source, cache, blurred>>
        /\ \A b \in Analyses \ {a} : provider'[b] = provider[b]
        /\ provider'[a] = [provider[a] EXCEPT
             !.step = IF Stands(cache) THEN "send" ELSE "parse",
             !.seen = source,
             !.facts = IF Stands(cache) THEN cache.facts ELSE @,
             !.entry = IF Stands(cache) THEN cache ELSE @]
    BY <1>1, <1>3, SessionOf DEF LoadUnit, SessionSteps, ByProvider
  <2>2. Stands(cache) => cache # None /\ cache.digests = source
    BY DEF Stands
  <2>3. /\ provider'[a].step = IF Stands(cache) THEN "send" ELSE "parse"
        /\ provider'[a].seen = source
        /\ Stands(cache) => provider'[a].facts = cache.facts
        /\ Stands(cache) => provider'[a].entry = cache
    BY <2>1 DEF Session
  <2>4. CASE Stands(cache)
    <3>1. provider'[a].step = "send" /\ provider'[a].facts = cache.facts
          /\ provider'[a].entry = cache /\ provider'[a].seen = source
      BY <2>3, <2>4
    <3>2. ~blurred => cache.facts = cache.digests
      BY <2>2, <2>4 DEF FreshInv
    <3> QED
      BY <2>1, <2>2, <2>4, <3>1, <3>2, FreshOf
  <2>5. CASE ~Stands(cache)
    <3>1. provider'[a].step = "parse" /\ provider'[a].seen = source
      BY <2>3, <2>5
    <3> QED
      BY <2>1, <3>1, FreshOf DEF Sending
  <2> QED
    BY <2>4, <2>5
<1>4. CASE ParseUnit(a)
  <2>1. /\ provider[a] \in Session /\ UNCHANGED <<source, cache, blurred>>
        /\ \A b \in Analyses \ {a} : provider'[b] = provider[b]
        /\ provider'[a] = [provider[a] EXCEPT !.step = "digest",
                                              !.facts = source]
        /\ provider[a].step = "parse"
    BY <1>1, <1>4, SessionOf DEF ParseUnit, SessionSteps, ByProvider
  <2>2. /\ provider'[a].step = "digest" /\ provider'[a].facts = source
        /\ provider'[a].seen = provider[a].seen
    BY <2>1 DEF Session
  <2> QED
    BY <2>1, <2>2 DEF FreshInv, Sending
<1>5. CASE DigestDependencies(a)
  <2> DEFINE entry == [identity |-> provider[a].seen.source,
                       digests |-> source, facts |-> provider[a].facts]
  <2>1. /\ provider[a] \in Session /\ UNCHANGED <<source, cache, blurred>>
        /\ \A b \in Analyses \ {a} : provider'[b] = provider[b]
        /\ provider'[a] = [provider[a] EXCEPT !.step = "send", !.entry = entry]
        /\ provider[a].step = "digest"
    BY <1>1, <1>5, SessionOf DEF DigestDependencies, SessionSteps, ByProvider
  <2>2. entry.facts = provider[a].facts /\ entry.digests = source
    OBVIOUS
  <2> HIDE DEF entry
  <2>3. /\ provider'[a].step = "send"
        /\ provider'[a].facts = provider[a].facts
        /\ provider'[a].seen = provider[a].seen
        /\ provider'[a].entry = entry
    BY <2>1 DEF Session
  <2>4. ~blurred => provider[a].facts = source /\ provider[a].seen = source
    BY <2>1 DEF FreshInv
  <2>5. provider'[a].entry.facts = provider[a].facts
        /\ provider'[a].entry.digests = source
    BY <2>2, <2>3
  <2>6. ~blurred => /\ provider'[a].facts = provider'[a].seen
                    /\ provider'[a].entry.facts = provider'[a].entry.digests
    BY <2>3, <2>4, <2>5
  <2>7. provider'[a].step \notin {"parse", "digest"}
    BY <2>3
  <2> QED
    BY <2>1, <2>6, <2>7, FreshOf
<1>6. CASE SendBatch(a)
  <2>1. /\ provider[a] \in Session /\ UNCHANGED <<source, cache, blurred>>
        /\ \A b \in Analyses \ {a} : provider'[b] = provider[b]
        /\ provider'[a] = [provider[a] EXCEPT !.sent = @ + 1]
        /\ provider[a].step = "send"
    BY <1>1, <1>6, SessionOf DEF SendBatch, SessionSteps, ByProvider
  <2>2. /\ provider'[a].step = "send"
        /\ provider'[a].facts = provider[a].facts
        /\ provider'[a].seen = provider[a].seen
        /\ provider'[a].entry = provider[a].entry
    BY <2>1 DEF Session
  <2> QED
    BY <2>1, <2>2, FreshStays DEF Sending
<1>7. ASSUME \/ SendComplete(a)
             \/ HearShutdown(a) /\ ProviderGoes(a, "acknowledge")
      PROVE  FreshInv'
  <2>1. PICK step \in {"shutdown", "acknowledge"} :
          /\ ProviderGoes(a, step) /\ provider[a].step \in {"send", "shutdown"}
    BY <1>7 DEF SendComplete, HearShutdown
  <2>2. step \in SessionSteps /\ provider[a].step \in SessionSteps
    BY <2>1 DEF SessionSteps
  <2>3. /\ provider'[a].step = step
        /\ provider'[a].facts = provider[a].facts
        /\ provider'[a].seen = provider[a].seen
        /\ provider'[a].entry = provider[a].entry
        /\ \A b \in Analyses \ {a} : provider'[b] = provider[b]
    BY <2>1, <2>2, GoesOn
  <2>4. UNCHANGED <<source, cache, blurred>>
    BY <1>7 DEF SendComplete, HearShutdown, ByProvider
  <2> QED
    BY <2>1, <2>3, <2>4, FreshStays DEF Sending
<1>8. CASE \/ HearShutdown(a) /\ Exit(a, 1)
           \/ CloseCancelled(a) \/ ProviderDies(a)
  <2>1. UNCHANGED <<source, cache, blurred>> /\ \E code \in {0, 1} : Exit(a, code)
    BY <1>8 DEF HearShutdown, CloseCancelled, ProviderDies, ByProvider
  <2>2. /\ provider'[a].step = "exited"
        /\ \A b \in Analyses \ {a} : provider'[b] = provider[b]
    BY <2>1, ExitType
  <2> QED
    BY <2>1, <2>2, FreshStays DEF Sending
<1>9. CASE PublishCache(a)
  <2>1. /\ UNCHANGED <<source, blurred>> /\ \E code \in {0, 1} : Exit(a, code)
        /\ cache' = provider[a].entry /\ provider[a].step = "acknowledge"
    BY <1>9 DEF PublishCache, ByProvider
  <2>2. /\ provider'[a].step = "exited"
        /\ \A b \in Analyses \ {a} : provider'[b] = provider[b]
    BY <2>1, ExitType
  <2> QED
    BY <2>1, <2>2 DEF FreshInv, Sending
<1>10. CASE HearShutdown(a)
  BY <1>7, <1>8, <1>10 DEF HearShutdown
<1>11. CASE SendComplete(a)
  BY <1>7, <1>11
<1>12. CASE CloseCancelled(a) \/ ProviderDies(a)
  BY <1>8, <1>12
<1> QED
  BY <1>2, <1>3, <1>4, <1>5, <1>6, <1>9, <1>10, <1>11, <1>12 DEF ProviderStep

LEMMA HostFresh ==
  ASSUME TypeInv, FreshInv, NEW a \in Analyses,
         \/ HostStep(a) \/ RequestCancellation(a) \/ DrainRequest(a)
         \/ \E r \in Revisions : RunAnalysis(a, r)
  PROVE  FreshInv'
<1>1. ProviderTypeOK
  BY DEF TypeInv
<1>2. UNCHANGED <<source, cache, blurred>>
  <2>1. ByHost
    BY DEF HostStep, RequestCancellation, RunAnalysis, DrainRequest,
       BrokenPipe, ReceiveAck,
       ReceiveStarted, ReceiveBatch, ReceiveComplete, SendCancel,
       ReceiveCancelled, ReceiveShutdownAck, SeeExit, Refuse, HearNothing,
       Prepare, ReplaceRevision, PointCurrent, PublicationRaises
  <2> QED
    BY <2>1 DEF ByHost
<1>3. CASE Hangup(a)
  BY <1>1, <1>2, <1>3, HangupType, FreshStays DEF Sending
<1>4. CASE UNCHANGED provider
  BY <1>2, <1>4, FreshStays
<1>5. CASE \E r \in Revisions : RunAnalysis(a, r)
  <2>1. CASE provider' = [provider EXCEPT ![a] =
               [step |-> "hello", seen |-> None, facts |-> None,
                entry |-> None, sent |-> 0]]
    <3>1. /\ provider'[a].step = "hello"
          /\ \A b \in Analyses \ {a} : provider'[b] = provider[b]
      BY <1>1, <2>1 DEF ProviderTypeOK
    <3> QED
      BY <1>2, <3>1, FreshStays DEF Sending
  <2> QED
    BY <1>4, <1>5, <2>1 DEF RunAnalysis
<1>6. CASE HostStep(a) \/ RequestCancellation(a) \/ DrainRequest(a)
  <2>1. Hangup(a) \/ UNCHANGED provider
    BY <1>6
    DEF HostStep, RequestCancellation, DrainRequest, BrokenPipe, ReceiveAck,
        ReceiveStarted,
        ReceiveBatch, ReceiveComplete, SendCancel, ReceiveCancelled,
        ReceiveShutdownAck, SeeExit, Refuse, HearNothing, Prepare,
        ReplaceRevision, PointCurrent, PublicationRaises, Fail
  <2> QED
    BY <1>3, <1>4, <2>1
<1> QED
  BY <1>5, <1>6

LEMMA WorldFresh ==
  ASSUME TypeInv, FreshInv, Edit \/ ProgramDies
  PROVE  FreshInv'
<1>1. CASE ProgramDies
  <2>1. UNCHANGED <<source, cache, blurred, provider>>
    BY <1>1 DEF ProgramDies, ByHost
  <2> QED
    BY <2>1, FreshStays
<1>2. CASE Edit
  <2>1. CASE Reading
    BY <1>2, <2>1 DEF Edit, FreshInv
  <2>2. CASE ~Reading
    <3>1. UNCHANGED <<cache, blurred, provider>>
      <4>1. blurred' = blurred
        BY <1>2, <2>2 DEF Edit, TypeInv, ProviderTypeOK
      <4> QED
        BY <1>2, <4>1 DEF Edit
    <3>2. \A a \in Analyses : provider[a].step \notin {"parse", "digest"}
      BY <2>2 DEF Reading
    <3> QED
      BY <3>1, <3>2 DEF FreshInv
  <2> QED
    BY <2>1, <2>2
<1> QED
  BY <1>1, <1>2

(***************************************************************************)
(* The theorems                                                            *)
(***************************************************************************)

LEMMA ProviderInvInit == Init => ProviderInv
<1> SUFFICES ASSUME Init PROVE ProviderInv
  OBVIOUS
<1>1. /\ Idle.step = "idle" /\ Gone.step = "gone"
      /\ \A a \in Analyses : host[a] = Idle /\ provider[a] = Gone
  BY DEF Init, Idle, Gone
<1>2. TypeInv
  <2>1. /\ source \in Inputs /\ cache \in Entry \cup {None}
        /\ revisions \in [Revisions -> Payload \cup {None}]
        /\ current \in Revisions \cup {None} /\ blurred \in BOOLEAN
    BY DEF Init, Inputs
  <2>2. /\ provider \in [Analyses -> Provider]
        /\ host \in [Analyses -> {Idle} \cup Ended \cup Run]
        /\ staging \in [Analyses -> SUBSET {"active", "failed"}]
    BY DEF Init, Provider
  <2>3. /\ toHost \in [Analyses -> Seq(Answers(Facts))]
        /\ toProvider \in [Analyses -> Seq(Requests)]
    <3>1. <<>> \in Seq(Answers(Facts)) /\ <<>> \in Seq(Requests)
      OBVIOUS
    <3> QED
      BY <3>1 DEF Init
  <2>4. budget \in [runs : 0..MaxRuns, edits : 0..MaxEdits,
                    troubles : 0..MaxTroubles]
    BY ProviderAssumption DEF Init
  <2>5. \A a \in Analyses : Informed(a)
    BY <1>1 DEF Informed
  <2> QED
    BY <2>1, <2>2, <2>3, <2>4, <2>5 DEF TypeInv, ProviderTypeOK
<1>3. HostInv
  <2>1. \A a \in Analyses : Decided(a) /\ OneReading(a)
    BY <1>1 DEF Decided, OneReading, AfterCount, Running, Waits, Publishes
  <2>2. PublishedIsWhole /\ CurrentIsThere
    BY DEF Init, PublishedIsWhole, CurrentIsThere, Vacant
  <2> QED
    BY <2>1, <2>2 DEF HostInv
<1>4. FreshInv
  BY <1>1 DEF Init, FreshInv, Sending
<1> QED
  BY <1>2, <1>3, <1>4 DEF ProviderInv

LEMMA ProviderInvStep == ProviderInv /\ [Next]_vars => ProviderInv'
<1> SUFFICES ASSUME ProviderInv, [Next]_vars PROVE ProviderInv'
  OBVIOUS
<1>1. TypeInv /\ HostInv /\ FreshInv
  BY DEF ProviderInv
<1>2. ASSUME NEW a \in Analyses, ProviderStep(a)
      PROVE  ProviderInv'
  BY <1>1, <1>2, ProviderStepKeeps, ProviderFresh DEF ProviderInv
<1>3. ASSUME NEW a \in Analyses, HostStep(a)
      PROVE  ProviderInv'
  BY <1>1, <1>3, HostStepKeeps, HostFresh DEF ProviderInv
<1>4. ASSUME NEW a \in Analyses, RequestCancellation(a)
      PROVE  ProviderInv'
  BY <1>1, <1>4, CancellationType, CancellationKeeps, HostFresh
  DEF ProviderInv
<1>9. ASSUME NEW a \in Analyses, DrainRequest(a)
      PROVE  ProviderInv'
  BY <1>1, <1>9, HandshakeType, HandshakeKeeps, HostFresh DEF ProviderInv
<1>5. ASSUME NEW a \in Analyses, NEW r \in Revisions, RunAnalysis(a, r)
      PROVE  ProviderInv'
  BY <1>1, <1>5, RunAnalysisType, RunAnalysisKeeps, HostFresh
  DEF ProviderInv
<1>6. CASE Edit
  BY <1>1, <1>6, EditKeeps, WorldFresh DEF ProviderInv
<1>7. CASE ProgramDies
  BY <1>1, <1>7, ProgramDiesKeeps, WorldFresh DEF ProviderInv
<1>8. CASE UNCHANGED vars
  <2>1. UNCHANGED <<source, cache, provider, toHost, toProvider, host, staging,
                    revisions, current, budget, blurred>>
    BY <1>8 DEF vars, pipes, store
  <2>2. TypeInv'
    BY <1>1, <2>1 DEF TypeInv, ProviderTypeOK, Informed
  <2>3. HostInv'
    <3>1. ASSUME NEW a \in Analyses
          PROVE  Decided(a)' /\ OneReading(a)'
      <4>1. Decided(a) /\ OneReading(a)
        BY <1>1 DEF HostInv
      <4> QED
        BY <2>1, <4>1 DEF Decided, OneReading, Vacant, Running
    <3>2. PublishedIsWhole' /\ CurrentIsThere'
      BY <1>1, <2>1, StoreStays DEF store
    <3> QED
      BY <3>1, <3>2 DEF HostInv
  <2>4. FreshInv'
    BY <1>1, <2>1, FreshStays
  <2> QED
    BY <2>2, <2>3, <2>4 DEF ProviderInv
<1> QED
  BY <1>2, <1>3, <1>4, <1>5, <1>6, <1>7, <1>8, <1>9 DEF Next

LEMMA ProviderInvariant == Spec => []ProviderInv
  BY ProviderInvInit, ProviderInvStep, PTL DEF Spec

(* Every process, pipe, run and revision keeps its type, for any analyses  *)
(* and any number of batches (provider_protocol, clang_provider).          *)
THEOREM ProviderTypeCorrect == Spec => []ProviderTypeOK
<1>1. ProviderInv => ProviderTypeOK
  BY DEF ProviderInv, TypeInv
<1> QED
  BY <1>1, ProviderInvariant, PTL

(* Whatever batches a provider loses and whatever it counts, a published   *)
(* revision has no gap and is as many batches of one reading as were       *)
(* counted (append_batch, _validate_completion, publish).                  *)
THEOREM WhatIsPublishedIsWhole == Spec => []PublishedIsWhole
<1>1. ProviderInv => PublishedIsWhole
  BY DEF ProviderInv, HostInv
<1> QED
  BY <1>1, ProviderInvariant, PTL

(* CURRENT never names a revision that is not there (publish).             *)
THEOREM CurrentNamesARevision == Spec => []CurrentIsThere
<1>1. ProviderInv => CurrentIsThere
  BY DEF ProviderInv, HostInv
<1> QED
  BY <1>1, ProviderInvariant, PTL

(* The cache that sessions share serves no facts of files that have        *)
(* changed since (IncrementalAnalyzer.run).                                *)
THEOREM CachedFactsAreFresh == Spec => []UndisturbedFactsAreFresh
<1>1. ProviderInv => UndisturbedFactsAreFresh
  BY DEF ProviderInv, FreshInv, UndisturbedFactsAreFresh, Sending
<1> QED
  BY <1>1, ProviderInvariant, PTL

(* A published revision is never replaced (publish).                       *)
THEOREM PublishedRevisionsStay == Spec => RevisionsAreImmutable
<1>1. ProviderInv /\ [Next]_vars =>
        [\A r \in Revisions : ~Vacant(r) => revisions'[r] = revisions[r]]_revisions
  <2> SUFFICES ASSUME ProviderInv, [Next]_vars, revisions' # revisions,
                      NEW r \in Revisions, ~Vacant(r)
               PROVE  revisions'[r] = revisions[r]
    OBVIOUS
  <2>1. PICK a \in Analyses : ReplaceRevision(a)
    <3>1. UNCHANGED store \/ \E a \in Analyses : HostStep(a)
      BY DEF Next, vars, Edit, RunAnalysis, RequestCancellation, ProgramDies,
         DrainRequest,
         ProviderStep, AnswerHello, BeginAnalysis, LoadUnit, ParseUnit,
         DigestDependencies, SendBatch, SendComplete, HearShutdown,
         PublishCache, AnswerCancel, CloseCancelled, ProviderDies, ByProvider
    <3>2. PICK a \in Analyses : HostStep(a)
      BY <3>1 DEF store
    <3>3. ~Fail(a)
      BY DEF Fail, store
    <3> QED
      BY <3>2, <3>3
      DEF HostStep, ReceiveAck, ReceiveStarted, ReceiveBatch, ReceiveComplete,
          SendCancel, ReceiveCancelled, ReceiveShutdownAck, SeeExit, Refuse,
          HearNothing, BrokenPipe, Prepare, PointCurrent, PublicationRaises,
          store
  <2>2. /\ Vacant(host[a].revision)
        /\ revisions' = [revisions EXCEPT ![host[a].revision] =
             [analysis |-> a, rows |-> host[a].rows, status |-> host[a].status,
              counted |-> host[a].counted]]
    BY <2>1 DEF ReplaceRevision, Fail, store
  <2> QED
    BY <2>2 DEF ProviderInv, TypeInv, ProviderTypeOK
<1> QED
  BY <1>1, ProviderInvariant, PTL DEF Spec, RevisionsAreImmutable
=============================================================================
