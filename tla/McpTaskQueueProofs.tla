------------------------ MODULE McpTaskQueueProofs ------------------------
(***************************************************************************)
(* Proofs about McpTaskQueue where worker and web server share a process.  *)
(* The argument is that somebody bears the task at any time, and only one: *)
(* the handler that is about to enqueue an attempt, or the job that was    *)
(* enqueued and has not settled the record.  A paused record is borne by   *)
(* nobody until its last answer makes an update handler its bearer.        *)
(***************************************************************************)
EXTENDS McpTaskQueue, SequenceTheorems, TLAPS

Made == Len(jobs)
Rounds == Len(asked)

\* All that was asked for in the first n of a sequence of pauses.
Gathered(pauses, n) == UNION {pauses[i] : i \in 1..n}

Carrying == {"resume", "dispatch", "dispatchWrite", "enqueue"}
Working == {"loading", "tool", "transition", "transitionWrite"}

Bearer(a) ==
  \/ a \in {Submit} \union Updates /\ pc[a] \in Carrying
  \/ a \in DOMAIN jobs /\ (jobs[a].state = "pending" \/ pc[a] \in Working)

Paused == record.status = "input_required"

\* What a bearer carries fits the number of attempts and pauses so far.
Bears(a) ==
  /\ a \in JobIds => /\ a = Made /\ Made = Rounds + 1
                     /\ Found => record.attempt = Made /\ record.inputs = Gathered(asked, Rounds)
  /\ a \notin JobIds => Made = Rounds
  /\ pc[a] = "resume" =>
       /\ Rounds > 0 /\ intent[a].inputs = asked[Rounds]
       /\ Found => record.attempt = Made /\ record.inputs = Gathered(asked, Rounds - 1)
  /\ pc[a] \in {"dispatch", "dispatchWrite", "enqueue"} =>
       intent[a].attempt = Made + 1 /\ intent[a].inputs = Gathered(asked, Rounds)
  /\ pc[a] = "enqueue" /\ Found => record.attempt = Made + 1 /\ record.inputs = Gathered(asked, Rounds)

Single ==
  \A a \in Actors : Bearer(a) => Bears(a) /\ ~Paused /\ \A b \in Actors : Bearer(b) => a = b

PauseFits ==
  Paused => /\ Rounds > 0 /\ Made = Rounds /\ record.attempt = Made
            /\ record.inputs = Gathered(asked, Rounds - 1)
            /\ record.requests \union record.responses = asked[Rounds]

\* Who has the lock has the record in hand, as it is.
Holds(a) ==
  /\ pc[a] \in Holding => copy[a] = record
  /\ pc[a] = "dispatchWrite" => Found
  /\ pc[a] = "transitionWrite" => Found /\ record.status \notin Terminal
  /\ pc[a] = "updateWrite" => Paused /\ intent[a].requests \subseteq record.requests

Locked ==
  \A a \in Actors : Holds(a) /\ (pc[a] \in Holding => \A b \in Actors : pc[b] \in Holding => a = b)

\* The places of each kind of actor, and what its intent is there.
Placed(a) ==
  /\ a = Submit => pc[a] \in {"idle", "dispatch", "dispatchWrite", "enqueue", "pointer", "answered", "raised"}
  /\ a \in Updates =>
       pc[a] \in {"idle", "updateWrite", "resume", "dispatch", "dispatchWrite", "enqueue", "pointer", "over"}
  /\ a \in Cancels => pc[a] \in {"idle", "readPointer", "cancelJob", "transition", "transitionWrite", "over"}
  /\ a \in JobIds => pc[a] \in {"idle", "settled", "over"} \union Working
  /\ a \in JobIds /\ pc[a] # "idle" => a \in DOMAIN jobs /\ jobs[a].state # "pending"
  /\ a \in Updates \union Cancels /\ pc[a] # "idle" => pc[Submit] = "answered"
  /\ pc[a] \in {"pointer", "cancelJob"} => intent[a].attempt <= Made
  /\ a \in Cancels /\ pc[a] \in {"cancelJob", "transition", "transitionWrite"} => intent[a].status = "cancelled"
  /\ pc[a] \in {"transition", "transitionWrite"} => intent[a].status # "none"

Numbered ==
  /\ Made <= Rounds + 1 /\ pointer <= Made
  /\ \A id \in DOMAIN jobs : jobs[id].attempt = id /\ jobs[id].inputs = Gathered(asked, id - 1)
  /\ pc[Submit] = "idle" => record = NoRecord /\ jobs = <<>> /\ asked = <<>>
  /\ record.status \notin {"completed", "failed"} => record.answer = "none"

\* The inductive invariant.
IInv ==
  /\ TypeOK /\ Locked /\ Single /\ PauseFits /\ Numbered
  /\ \A a \in Actors : Placed(a)

-----------------------------------------------------------------------------
(* Types *)

Intents == [status : {"none", "input_required"} \union Terminal,
            requests : SUBSET Keys, attempt : Nat, inputs : SUBSET Keys]
Job == [attempt : Nat, inputs : SUBSET Keys, signalled : BOOLEAN,
        state : {"pending", "running", "done", "failed", "cancelled"}]

LEMMA Kinds ==
  /\ Submit \in Actors /\ Updates \subseteq Actors /\ Cancels \subseteq Actors /\ JobIds \subseteq Actors
  /\ Submit \notin Updates /\ Submit \notin Cancels /\ Submit \notin JobIds
  /\ \A u \in Updates : u \notin Cancels /\ u \notin JobIds
  /\ \A c \in Cancels : c \notin JobIds
  /\ MaxJobs \in Nat
BY QueueAssumption DEF Actors, JobIds

LEMMA Nothing ==
  /\ NoRecord \in Records /\ NoIntent \in Intents
  /\ [NoRecord EXCEPT !.status = "working"] \in Records
  /\ [NoRecord EXCEPT !.status = "expired"] \in Records
  /\ \A n \in Nat : [NoIntent EXCEPT !.attempt = n] \in Intents
BY DEF NoRecord, NoIntent, Records, Intents, Terminal

LEMMA Extended ==
  ASSUME jobs \in Seq(Job), NEW j \in Job
  PROVE  /\ Append(jobs, j) \in Seq(Job) /\ Len(Append(jobs, j)) = Made + 1 /\ Made \in Nat
         /\ DOMAIN jobs = 1..Made /\ DOMAIN Append(jobs, j) = 1..(Made + 1)
         /\ Append(jobs, j)[Made + 1] = j
         /\ \A i \in 1..Made : Append(jobs, j)[i] = jobs[i]
BY DEF Made

LEMMA Changed ==
  ASSUME jobs \in Seq(Job), NEW id \in DOMAIN jobs, NEW j \in Job
  PROVE  LET s == [jobs EXCEPT ![id] = j]
         IN  /\ s \in Seq(Job) /\ Len(s) = Made /\ DOMAIN s = DOMAIN jobs /\ s[id] = j
             /\ \A i \in DOMAIN jobs : i # id => s[i] = jobs[i]
<1>1. DOMAIN jobs = 1..Made
  BY DEF Made
<1> QED
  BY <1>1, ExceptSeq DEF Made

LEMMA Asking ==
  ASSUME asked \in Seq(SUBSET Keys), NEW keys \in SUBSET Keys
  PROVE  /\ Append(asked, keys) \in Seq(SUBSET Keys) /\ Len(Append(asked, keys)) = Rounds + 1
         /\ Rounds \in Nat /\ DOMAIN asked = 1..Rounds
         /\ Append(asked, keys)[Rounds + 1] = keys
         /\ \A i \in 1..Rounds : Append(asked, keys)[i] = asked[i]
BY DEF Rounds

LEMMA Lengths ==
  ASSUME TypeOK
  PROVE  /\ Made \in Nat /\ Rounds \in Nat /\ Made <= MaxJobs
         /\ DOMAIN jobs = 1..Made /\ DOMAIN asked = 1..Rounds /\ 1..Made \subseteq JobIds
         /\ jobs \in Seq(Job) /\ asked \in Seq(SUBSET Keys)
         /\ intent \in [Actors -> Intents] /\ pc \in [Actors -> Points]
         /\ copy \in [Actors -> Records] /\ record \in Records
         /\ \A id \in DOMAIN jobs : jobs[id] \in Job
<1>1. jobs \in Seq(Job) /\ asked \in Seq(SUBSET Keys) /\ Len(jobs) <= MaxJobs
  BY DEF TypeOK, Job
<1>2. Made \in Nat /\ Rounds \in Nat /\ DOMAIN jobs = 1..Made /\ DOMAIN asked = 1..Rounds
  BY <1>1 DEF Made, Rounds
<1>3. 1..Made \subseteq JobIds /\ Made <= MaxJobs
  BY <1>1, <1>2, Kinds DEF JobIds, Made
<1>4. \A id \in DOMAIN jobs : jobs[id] \in Job
  BY <1>1, <1>2
<1>5. /\ intent \in [Actors -> Intents] /\ pc \in [Actors -> Points]
      /\ copy \in [Actors -> Records] /\ record \in Records
  BY DEF TypeOK, Intents
<1> QED
  BY <1>1, <1>2, <1>3, <1>4, <1>5

LEMMA GoTypes ==
  ASSUME TypeOK, NEW a \in Actors, NEW from, NEW to \in Points, Go(a, from, to)
  PROVE  pc' \in [Actors -> Points]
BY DEF TypeOK, Go

LEMMA ForgetTypes ==
  ASSUME TypeOK, NEW a \in Actors, Forget(a)
  PROVE  copy' \in [Actors -> Records] /\ intent' \in [Actors -> Intents]
BY Nothing, Lengths DEF Forget

LEMMA SomePoints ==
  /\ \A a \in Actors : Raised(a) \in Points /\ Settled(a) \in Points
  /\ Holding \subseteq Points
  /\ {"idle", "dispatch", "enqueue", "pointer", "answered", "raised", "over", "resume",
      "readPointer", "cancelJob", "transition", "settled", "loading", "tool"} \subseteq Points
BY DEF Raised, Settled, Points, Holding

LEMMA StoreTypes ==
  ASSUME TypeOK, NEW a \in Actors, StoreStep(a), pc[a] = "transitionWrite" => intent[a].status # "none"
  PROVE  TypeOK'
<1>0. record \in Records /\ copy \in [Actors -> Records] /\ intent \in [Actors -> Intents]
      /\ pc \in [Actors -> Points]
  BY Lengths
<1>1. ASSUME NEW from \in {"dispatch", "transition"}, NEW to \in Holding, Lookup(a, from, to)
      PROVE  TypeOK'
  <2>1. pc' \in [Actors -> Points] /\ copy' \in [Actors -> Records]
    BY <1>0, <1>1, GoTypes, SomePoints DEF Lookup
  <2> QED
    BY <1>1, <2>1 DEF Lookup, TypeOK
<1>2. ASSUME NEW from, NEW to \in {Raised(a), Settled(a)}, Go(a, from, to), Forget(a),
             UNCHANGED <<record, pointer, jobs, asked, stranded>>
      PROVE  TypeOK'
  <2>1. pc' \in [Actors -> Points] /\ copy' \in [Actors -> Records] /\ intent' \in [Actors -> Intents]
    BY <1>2, GoTypes, ForgetTypes, SomePoints
  <2> QED
    BY <1>2, <2>1 DEF TypeOK, Intents
<1>3. CASE SaveDispatch(a)
  <2>1. pc' \in [Actors -> Points]
    BY <1>3, GoTypes, SomePoints DEF SaveDispatch
  <2>2. copy' \in [Actors -> Records] /\ record' \in Records
    BY <1>0, <1>3, Nothing DEF SaveDispatch, Records, Intents
  <2> QED
    BY <1>3, <2>1, <2>2 DEF SaveDispatch, TypeOK
<1>4. CASE SaveTransition(a)
  <2>1. pc' \in [Actors -> Points] /\ copy' \in [Actors -> Records] /\ intent' \in [Actors -> Intents]
    BY <1>4, GoTypes, ForgetTypes, SomePoints DEF SaveTransition
  <2>2. intent[a].status \in {"input_required"} \union Terminal /\ intent[a].requests \in SUBSET Keys
        /\ copy[a] \in Records
    BY <1>0, <1>4 DEF SaveTransition, Go, Intents
  <2>3. AnswerOf(intent[a].status) \in {"none", "result", "error"}
    BY DEF AnswerOf
  <2>4. record' \in Records
    BY <1>4, <2>2, <2>3 DEF SaveTransition, Records
  <2>5. asked' \in Seq(SUBSET Keys)
    BY <1>4, <2>2, Asking, Lengths DEF SaveTransition
  <2> QED
    BY <1>4, <2>1, <2>4, <2>5 DEF SaveTransition, TypeOK, Intents
<1> QED
  BY <1>1, <1>2, <1>3, <1>4 DEF StoreStep, SetDispatch, Transition, Holding

LEMMA EnqueueTypes ==
  ASSUME TypeOK, NEW a \in Actors, EnqueueStep(a), pc[a] = "pointer" => intent[a].attempt <= Made
  PROVE  TypeOK'
<1>0. record \in Records /\ copy \in [Actors -> Records] /\ intent \in [Actors -> Intents]
      /\ pc \in [Actors -> Points] /\ jobs \in Seq(Job) /\ Made \in Nat /\ MaxJobs \in Nat
      /\ Made <= MaxJobs /\ intent[a] \in Intents /\ DOMAIN jobs = 1..Made
  BY Lengths, Kinds
<1>1. CASE Enqueue(a)
  <2> DEFINE sameKey == {id \in DOMAIN jobs : jobs[id].attempt = intent[a].attempt /\ ~Over(id)}
             job == [attempt |-> intent[a].attempt, inputs |-> intent[a].inputs,
                     state |-> "pending", signalled |-> FALSE]
  <2>1. pc' \in [Actors -> Points] /\ UNCHANGED <<record, pointer, copy, asked, stranded>>
    BY <1>1, GoTypes, SomePoints DEF Enqueue
  <2>2. CASE sameKey # {}
    <3> DEFINE n == CHOOSE id \in sameKey : TRUE
    <3>1. n \in Nat
      BY <1>0, <2>2
    <3>2. UNCHANGED jobs /\ intent' = [intent EXCEPT ![a] = [NoIntent EXCEPT !.attempt = n]]
      BY <1>1, <2>2 DEF Enqueue
    <3> HIDE DEF n
    <3>3. [NoIntent EXCEPT !.attempt = n] \in Intents
      BY <3>1, Nothing
    <3>4. intent' \in [Actors -> Intents]
      BY <1>0, <3>2, <3>3
    <3> QED
      BY <2>1, <3>2, <3>4 DEF TypeOK, Intents
  <2>3. CASE sameKey = {}
    <3>1. Made < MaxJobs /\ jobs' = Append(jobs, job)
          /\ intent' = [intent EXCEPT ![a] = [NoIntent EXCEPT !.attempt = Made + 1]]
      BY <1>1, <2>3 DEF Enqueue, Made
    <3>2. job \in Job
      BY <1>0 DEF Job, Intents
    <3>3. jobs' \in Seq(Job) /\ Len(jobs') <= MaxJobs
      BY <1>0, <3>1, <3>2, Extended
    <3>4. [NoIntent EXCEPT !.attempt = Made + 1] \in Intents
      <4>1. Made + 1 \in Nat
        BY <1>0
      <4>2. \A n \in Nat : [NoIntent EXCEPT !.attempt = n] \in Intents
        BY Nothing
      <4> QED
        BY <4>1, <4>2, Zenon
    <3>5. intent' \in [Actors -> Intents]
      BY <1>0, <3>1, <3>4
    <3> QED
      BY <2>1, <3>3, <3>5 DEF TypeOK, Intents, Job
  <2> QED
    BY <2>2, <2>3
<1>2. CASE EnqueueRaises(a)
  <2>1. pc' \in [Actors -> Points] /\ copy' \in [Actors -> Records] /\ intent' \in [Actors -> Intents]
    BY <1>2, GoTypes, ForgetTypes, SomePoints DEF EnqueueRaises
  <2> QED
    BY <1>2, <2>1 DEF EnqueueRaises, TypeOK, Intents
<1>3. CASE SetJobId(a)
  <2>1. pc' \in [Actors -> Points] /\ copy' \in [Actors -> Records] /\ intent' \in [Actors -> Intents]
    BY <1>3, GoTypes, ForgetTypes, SomePoints DEF SetJobId
  <2>2. intent[a].attempt \in 0..MaxJobs
    BY <1>0, <1>3 DEF SetJobId, Go, Intents
  <2>3. pointer' \in 0..MaxJobs
    BY <1>3, <2>2 DEF SetJobId, TypeOK
  <2> QED
    BY <1>3, <2>1, <2>3 DEF SetJobId, TypeOK, Intents
<1> QED
  BY <1>1, <1>2, <1>3 DEF EnqueueStep

LEMMA UpdateTypes ==
  ASSUME TypeOK, NEW u \in Updates, NEW keys \in SUBSET Keys, Update(u, keys) \/ SaveUpdate(u) \/ ReadDispatch(u)
  PROVE  TypeOK'
<1>0. record \in Records /\ copy \in [Actors -> Records] /\ intent \in [Actors -> Intents]
      /\ u \in Actors /\ intent[u] \in Intents /\ copy[u] \in Records
  BY Lengths, Kinds
<1>1. CASE Update(u, keys)
  <2>1. pc' \in [Actors -> Points]
    BY <1>0, <1>1, GoTypes, SomePoints DEF Update, Holding
  <2>2. copy' \in [Actors -> Records] /\ intent' \in [Actors -> Intents]
    BY <1>0, <1>1 DEF Update, Intents
  <2> QED
    BY <1>1, <2>1, <2>2 DEF Update, TypeOK, Intents
<1>2. CASE SaveUpdate(u)
  <2>1. pc' \in [Actors -> Points]
    BY <1>0, <1>2, GoTypes, SomePoints DEF SaveUpdate
  <2>2. copy' \in [Actors -> Records]
    BY <1>0, <1>2, Nothing DEF SaveUpdate
  <2> DEFINE answered == copy[u].responses \union intent[u].requests
             open == copy[u].requests \ intent[u].requests
  <2>3. answered \in SUBSET Keys /\ open \in SUBSET Keys
    BY <1>0 DEF Records, Intents
  <2>4. \/ /\ record' = [copy[u] EXCEPT !.requests = open, !.responses = answered]
           /\ intent' = [intent EXCEPT ![u] = NoIntent]
        \/ /\ record' = [copy[u] EXCEPT !.status = "working", !.requests = {}, !.responses = {}]
           /\ intent' = [intent EXCEPT ![u] = [NoIntent EXCEPT !.inputs = answered]]
    BY <1>2 DEF SaveUpdate
  <2> HIDE DEF answered, open
  <2>5. record' \in Records
    BY <1>0, <2>3, <2>4 DEF Records
  <2>6. NoIntent \in Intents /\ [NoIntent EXCEPT !.inputs = answered] \in Intents
    BY <2>3, Nothing DEF NoIntent, Intents
  <2>7. intent' \in [Actors -> Intents]
    BY <1>0, <2>4, <2>6
  <2> QED
    BY <1>2, <2>1, <2>2, <2>5, <2>7 DEF SaveUpdate, TypeOK, Intents
<1>3. CASE ReadDispatch(u)
  <2>1. pc' \in [Actors -> Points]
    BY <1>0, <1>3, GoTypes, SomePoints DEF ReadDispatch
  <2>2. record.attempt + 1 \in Nat /\ record.inputs \union intent[u].inputs \in SUBSET Keys
    BY <1>0 DEF Records, Intents
  <2>3. intent' \in [Actors -> Intents]
    BY <1>0, <1>3, <2>2 DEF ReadDispatch, Intents
  <2> QED
    BY <1>3, <2>1, <2>3 DEF ReadDispatch, TypeOK, Intents
<1> QED
  BY <1>1, <1>2, <1>3

\* Winning a job changes its state or its signal.
LEMMA CancelJobIs ==
  ASSUME TypeOK, NEW c \in Cancels, CancelJob(c), intent[c].attempt <= Made
  PROVE  /\ jobs' \in Seq(Job) /\ Len(jobs') = Made /\ DOMAIN jobs' = DOMAIN jobs
         /\ \A id \in DOMAIN jobs :
              /\ jobs'[id].attempt = jobs[id].attempt /\ jobs'[id].inputs = jobs[id].inputs
              /\ \/ jobs'[id].state = jobs[id].state
                 \/ jobs[id].state = "pending" /\ jobs'[id].state = "cancelled"
<1> DEFINE n == intent[c].attempt
<1>0. n \in Nat /\ jobs \in Seq(Job) /\ DOMAIN jobs = 1..Made /\ Made \in Nat
      /\ \A id \in DOMAIN jobs : jobs[id] \in Job
  BY Lengths, Kinds DEF Intents
<1>1. UNCHANGED jobs \/ \E j \in {[jobs[n] EXCEPT !.state = "cancelled"], [jobs[n] EXCEPT !.signalled = TRUE]} :
        /\ n # 0 /\ jobs' = [jobs EXCEPT ![n] = j]
        /\ j.state = jobs[n].state \/ jobs[n].state = "pending"
  <2>1. CASE n # 0 /\ ~Over(n)
    <3>1. n \in DOMAIN jobs
      BY <1>0, <2>1
    <3>2. jobs[n] \in Job
      BY <1>0, <3>1
    <3> QED
      BY <2>1, <3>2 DEF CancelJob, Job
  <2>2. CASE ~(n # 0 /\ ~Over(n))
    BY <2>2 DEF CancelJob
  <2> QED
    BY <2>1, <2>2
<1>2. CASE UNCHANGED jobs
  BY <1>0, <1>2 DEF Made
<1>3. ASSUME NEW j \in {[jobs[n] EXCEPT !.state = "cancelled"], [jobs[n] EXCEPT !.signalled = TRUE]},
             n # 0, jobs' = [jobs EXCEPT ![n] = j], j.state = jobs[n].state \/ jobs[n].state = "pending"
      PROVE  /\ jobs' \in Seq(Job) /\ Len(jobs') = Made /\ DOMAIN jobs' = DOMAIN jobs
             /\ \A id \in DOMAIN jobs :
                  /\ jobs'[id].attempt = jobs[id].attempt /\ jobs'[id].inputs = jobs[id].inputs
                  /\ \/ jobs'[id].state = jobs[id].state
                     \/ jobs[id].state = "pending" /\ jobs'[id].state = "cancelled"
  <2>1. n \in DOMAIN jobs /\ jobs[n] \in Job
    BY <1>0, <1>3
  <2>2. j \in Job /\ j.attempt = jobs[n].attempt /\ j.inputs = jobs[n].inputs
        /\ (j.state = jobs[n].state \/ j.state = "cancelled")
    BY <1>3, <2>1 DEF Job
  <2> HIDE DEF n
  <2> QED
    BY <1>0, <1>3, <2>1, <2>2, Changed
<1> QED
  BY <1>1, <1>2, <1>3

LEMMA CancelTypes ==
  ASSUME TypeOK, NEW c \in Cancels, Cancel(c) \/ ReadPointer(c) \/ CancelJob(c),
         pc[c] = "cancelJob" => intent[c].attempt <= Made
  PROVE  TypeOK'
<1>0. record \in Records /\ copy \in [Actors -> Records] /\ intent \in [Actors -> Intents]
      /\ c \in Actors /\ intent[c] \in Intents /\ pointer \in Nat /\ Made <= MaxJobs
  BY Lengths, Kinds DEF TypeOK
<1>1. CASE Cancel(c)
  <2>1. pc' \in [Actors -> Points] /\ copy' \in [Actors -> Records]
    BY <1>0, <1>1, GoTypes, SomePoints DEF Cancel, Lookup
  <2> QED
    BY <1>1, <2>1 DEF Cancel, Lookup, TypeOK
<1>2. CASE ReadPointer(c)
  <2>1. pc' \in [Actors -> Points]
    BY <1>0, <1>2, GoTypes, SomePoints DEF ReadPointer
  <2>2. intent' \in [Actors -> Intents]
    BY <1>0, <1>2, Nothing DEF ReadPointer, Intents, Terminal
  <2> QED
    BY <1>2, <2>1, <2>2 DEF ReadPointer, TypeOK, Intents
<1>3. CASE CancelJob(c)
  <2>1. pc' \in [Actors -> Points]
    BY <1>0, <1>3, GoTypes, SomePoints DEF CancelJob
  <2>2. intent' \in [Actors -> Intents] /\ copy' \in [Actors -> Records]
    BY <1>0, <1>3, Nothing DEF CancelJob, Intents
  <2>3. jobs' \in Seq(Job) /\ Len(jobs') <= MaxJobs
    BY <1>0, <1>3, CancelJobIs DEF CancelJob, Go
  <2> QED
    BY <1>3, <2>1, <2>2, <2>3 DEF CancelJob, TypeOK, Intents, Job
<1> QED
  BY <1>1, <1>2, <1>3

\* The queue sets the state of a job.
LEMMA SetState ==
  ASSUME TypeOK, NEW id \in DOMAIN jobs, NEW state \in {"running", "done", "failed"},
         jobs' = [jobs EXCEPT ![id].state = state]
  PROVE  /\ jobs' \in Seq(Job) /\ Len(jobs') = Made /\ DOMAIN jobs' = DOMAIN jobs
         /\ jobs'[id].state = state
         /\ \A i \in DOMAIN jobs :
              /\ jobs'[i].attempt = jobs[i].attempt /\ jobs'[i].inputs = jobs[i].inputs
              /\ i # id => jobs'[i] = jobs[i]
<1> DEFINE j == [jobs[id] EXCEPT !.state = state]
<1>1. jobs \in Seq(Job) /\ jobs[id] \in Job
  BY Lengths
<1>2. j \in Job /\ j.state = state /\ j.attempt = jobs[id].attempt /\ j.inputs = jobs[id].inputs
  BY <1>1 DEF Job
<1>3. jobs' = [jobs EXCEPT ![id] = j]
  OBVIOUS
<1> HIDE DEF j
<1> QED
  BY <1>1, <1>2, <1>3, Changed

LEMMA WorkerTypes ==
  ASSUME TypeOK, NEW id \in JobIds, id \notin DOMAIN jobs => pc[id] = "idle",
         \/ Claim(id) \/ Loaded(id) \/ WorkerFails(id) \/ Finish(id)
         \/ ToolReturns(id) \/ ToolRaises(id) \/ \E keys \in SUBSET Keys : ToolAsks(id, keys)
  PROVE  TypeOK'
<1>0. record \in Records /\ copy \in [Actors -> Records] /\ intent \in [Actors -> Intents]
      /\ id \in Actors /\ intent[id] \in Intents /\ pc \in [Actors -> Points]
  BY Lengths, Kinds
<1>1. ASSUME NEW state \in {"running", "done", "failed"}, jobs' = [jobs EXCEPT ![id].state = state], id \in DOMAIN jobs
      PROVE  jobs' \in Seq(Job) /\ Len(jobs') <= MaxJobs
  BY <1>1, SetState, Lengths
<1>2. CASE Claim(id)
  <2>1. pc' \in [Actors -> Points]
    BY <1>0, <1>2, GoTypes, SomePoints DEF Claim
  <2> QED
    BY <1>1, <1>2, <2>1 DEF Claim, TypeOK, Job
<1>3. CASE Loaded(id)
  <2>1. pc' \in [Actors -> Points]
    BY <1>0, <1>3, GoTypes, SomePoints DEF Loaded
  <2> QED
    BY <1>3, <2>1 DEF Loaded, TypeOK
<1>4. CASE LoadRaises(id) \/ WorkerDies(id) \/ Unsaved(id)
  <2>1. JobFails(id) /\ pc[id] # "idle"
    BY <1>4 DEF LoadRaises, WorkerDies, Unsaved, Saving
  <2>2. pc' \in [Actors -> Points] /\ copy' \in [Actors -> Records] /\ intent' \in [Actors -> Intents]
    BY <1>0, <2>1, ForgetTypes, SomePoints DEF JobFails
  <2> QED
    BY <1>1, <2>1, <2>2 DEF JobFails, TypeOK, Job, Intents
<1>5. CASE Finish(id)
  <2>1. pc' \in [Actors -> Points] /\ pc[id] # "idle"
    BY <1>0, <1>5, GoTypes, SomePoints DEF Finish, Go
  <2> QED
    BY <1>1, <1>5, <2>1 DEF Finish, TypeOK, Job
<1>6. ASSUME NEW status \in {"failed", "cancelled"}, Instead(id, status)
      PROVE  TypeOK'
  <2>1. pc' \in [Actors -> Points] /\ copy' \in [Actors -> Records]
    BY <1>0, <1>6, Nothing, SomePoints DEF Instead
  <2>2. intent' \in [Actors -> Intents]
    BY <1>0, <1>6, Nothing DEF Instead, Intents, Terminal
  <2> QED
    BY <1>6, <2>1, <2>2 DEF Instead, TypeOK, Intents
<1>7. ASSUME NEW status \in {"completed", "failed", "input_required"}, NEW keys \in SUBSET Keys,
             Settle(id, status, keys)
      PROVE  TypeOK'
  <2>1. pc' \in [Actors -> Points]
    BY <1>0, <1>7, GoTypes, SomePoints DEF Settle
  <2>2. intent' \in [Actors -> Intents]
    BY <1>0, <1>7 DEF Settle, Intents, Terminal
  <2> QED
    BY <1>7, <2>1, <2>2 DEF Settle, TypeOK, Intents
<1> QED
  BY <1>2, <1>3, <1>4, <1>5, <1>6, <1>7 DEF ToolReturns, ToolRaises, ToolAsks, WorkerFails, Interrupted, SaveRaises

LEMMA TypeStep ==
  ASSUME IInv, [Next]_vars
  PROVE  TypeOK'
<1>0. /\ TypeOK /\ \A a \in Actors : Placed(a)
      /\ record \in Records /\ copy \in [Actors -> Records] /\ intent \in [Actors -> Intents]
      /\ pc \in [Actors -> Points]
  BY Lengths DEF IInv
<1>1. CASE Create
  <2>1. pc' \in [Actors -> Points]
    BY <1>0, <1>1, Kinds, GoTypes, SomePoints DEF Create
  <2>2. record' \in Records /\ intent' \in [Actors -> Intents]
    BY <1>0, <1>1, Kinds, Nothing DEF Create
  <2> QED
    BY <1>0, <1>1, <2>1, <2>2 DEF Create, TypeOK, Intents
<1>2. ASSUME NEW a \in Actors, StoreStep(a)
      PROVE  TypeOK'
  <2>1. pc[a] = "transitionWrite" => intent[a].status # "none"
    BY <1>0 DEF Placed
  <2> QED
    BY <1>0, <1>2, <2>1, StoreTypes
<1>3. ASSUME NEW a \in Actors, EnqueueStep(a)
      PROVE  TypeOK'
  <2>1. pc[a] = "pointer" => intent[a].attempt <= Made
    BY <1>0 DEF Placed
  <2> QED
    BY <1>0, <1>3, <2>1, EnqueueTypes
<1>4. ASSUME NEW u \in Updates, NEW keys \in SUBSET Keys, Update(u, keys) \/ SaveUpdate(u) \/ ReadDispatch(u)
      PROVE  TypeOK'
  BY <1>0, <1>4, UpdateTypes
<1>5. ASSUME NEW c \in Cancels, Cancel(c) \/ ReadPointer(c) \/ CancelJob(c)
      PROVE  TypeOK'
  <2>1. pc[c] = "cancelJob" => intent[c].attempt <= Made
    BY <1>0, Kinds DEF Placed
  <2> QED
    BY <1>0, <1>5, <2>1, CancelTypes
<1>6. ASSUME NEW id \in JobIds, 
             \/ Claim(id) \/ Loaded(id) \/ WorkerFails(id) \/ Finish(id)
             \/ ToolReturns(id) \/ ToolRaises(id) \/ \E keys \in SUBSET Keys : ToolAsks(id, keys)
      PROVE  TypeOK'
  <2>1. id \notin DOMAIN jobs => pc[id] = "idle"
    BY <1>0, Kinds DEF Placed
  <2> QED
    BY <1>0, <1>6, <2>1, WorkerTypes
<1>7. ASSUME NEW a \in Actors, HandlerDies(a)
      PROVE  TypeOK'
  <2>1. pc' \in [Actors -> Points] /\ copy' \in [Actors -> Records] /\ intent' \in [Actors -> Intents]
    BY <1>0, <1>7, ForgetTypes, SomePoints DEF HandlerDies
  <2> QED
    BY <1>0, <1>7, <2>1 DEF HandlerDies, TypeOK, Intents
<1>8. CASE Expire
  <2>1. record' \in Records /\ pointer' \in 0..MaxJobs
    BY <1>8, Nothing, Kinds DEF Expire
  <2> QED
    BY <1>0, <1>8, <2>1 DEF Expire, TypeOK
<1>9. CASE UNCHANGED vars
  BY <1>0, <1>9 DEF vars, TypeOK
<1>10. Submit \in Actors /\ Updates \subseteq Actors /\ Cancels \subseteq Actors /\ JobIds \subseteq Actors
  BY Kinds
<1>11. CASE SubmitStep
  BY <1>2, <1>3, <1>10, <1>11 DEF SubmitStep, StoreStep
<1>12. ASSUME NEW u \in Updates, UpdateStep(u) \/ \E keys \in SUBSET Keys : Update(u, keys)
       PROVE  TypeOK'
  <2>1. SaveUpdate(u) \/ ReadDispatch(u) \/ StoreStep(u) \/ EnqueueStep(u) \/ \E keys \in SUBSET Keys : Update(u, keys)
    BY <1>12 DEF UpdateStep
  <2> QED
    BY <1>2, <1>3, <1>4, <1>10, <2>1
<1>13. ASSUME NEW c \in Cancels, Cancel(c) \/ CancelStep(c)
       PROVE  TypeOK'
  BY <1>2, <1>5, <1>10, <1>13 DEF CancelStep, StoreStep
<1>14. ASSUME NEW id \in JobIds, WorkerStep(id) \/ WorkerFails(id)
       PROVE  TypeOK'
  BY <1>2, <1>6, <1>10, <1>14 DEF WorkerStep, StoreStep
<1> QED
  BY <1>1, <1>7, <1>8, <1>9, <1>10, <1>11, <1>12, <1>13, <1>14 DEF Next

-----------------------------------------------------------------------------
(* What the step of one actor does to the others *)

Only(a) ==
  \A b \in Actors : b # a => pc'[b] = pc[b] /\ copy'[b] = copy[b] /\ intent'[b] = intent[b]

\* The jobs keep their numbers and what they carry, and none becomes pending.
SameJobs ==
  /\ Made' = Made /\ DOMAIN jobs' = DOMAIN jobs
  /\ \A id \in DOMAIN jobs :
       /\ jobs'[id].attempt = jobs[id].attempt /\ jobs'[id].inputs = jobs[id].inputs
       /\ jobs'[id].state = "pending" => jobs[id].state = "pending"

\* The record may have ended or gone; the rounds it tells of are the same.
SameRounds ==
  /\ Found' => Found /\ record'.attempt = record.attempt /\ record'.inputs = record.inputs
  /\ Paused' => /\ Paused
                /\ record'.requests \union record'.responses = record.requests \union record.responses
  /\ record'.status \notin {"completed", "failed"} => record'.answer = "none"

LEMMA OneHost ==
  ASSUME SharedProcess, NEW a \in Actors, LockFree(a)
  PROVE  \A b \in Actors : pc[b] \notin Holding
BY DEF LockFree, Host

LEMMA LockLeft ==
  ASSUME Locked, NEW a \in Actors, Only(a), pc'[a] \notin Holding, record' = record
  PROVE  Locked'
BY DEF Locked, Holds, Only, Found, Paused, Holding

LEMMA LockHere ==
  ASSUME NEW a \in Actors, Only(a), \A b \in Actors : b # a => pc[b] \notin Holding, Holds(a)'
  PROVE  Locked'
BY DEF Locked, Holds, Only, Holding

LEMMA Alone ==
  ASSUME Locked, NEW a \in Actors, pc[a] \in Holding
  PROVE  \A b \in Actors : b # a => pc[b] \notin Holding
BY DEF Locked

LEMMA Places ==
  ASSUME TypeOK, \A b \in Actors : Placed(b), NEW a \in Actors, Only(a), Placed(a)',
         Made' \in Nat, Made <= Made',
         \A id \in DOMAIN jobs : id \in DOMAIN jobs' /\ (jobs'[id].state = "pending" => jobs[id].state = "pending"),
         pc[Submit] = "answered" => pc'[Submit] = "answered"
  PROVE  \A b \in Actors : Placed(b)'
<1>0. Made \in Nat /\ intent \in [Actors -> Intents]
  BY Lengths
<1> SUFFICES ASSUME NEW b \in Actors, b # a
             PROVE  Placed(b)'
  OBVIOUS
<1>1. Placed(b) /\ pc'[b] = pc[b] /\ intent'[b] = intent[b] /\ intent[b].attempt \in Nat
  BY <1>0 DEF Only, Intents
<1> QED
  BY <1>0, <1>1 DEF Placed

LEMMA Minor ==
  ASSUME IInv, TypeOK', NEW a \in Actors, Only(a), SameJobs, asked' = asked, SameRounds,
         pc[Submit] # "idle", pc'[a] # "idle", a = Submit => pc[a] # "answered",
         pointer' <= Made, Locked', Placed(a)', Bearer(a)' => Bearer(a) /\ Bears(a)'
  PROVE  IInv'
<1>0. /\ TypeOK /\ Single /\ PauseFits /\ Numbered /\ \A b \in Actors : Placed(b)
      /\ Rounds' = Rounds /\ Made' = Made /\ Made \in Nat /\ Rounds \in Nat
  BY Lengths DEF IInv, Rounds, SameJobs
<1>1. Single'
  <2> SUFFICES ASSUME NEW b \in Actors, Bearer(b)'
               PROVE  (Bears(b) /\ ~Paused)' /\ \A c \in Actors : Bearer(c)' => b = c
    BY DEF Single
  <2>1. \A c \in Actors : Bearer(c)' => Bearer(c)
    BY DEF Only, SameJobs, Bearer
  <2>2. Bears(b) /\ ~Paused /\ \A c \in Actors : Bearer(c) => b = c
    BY <1>0, <2>1 DEF Single
  <2>3. ~Paused'
    BY <2>2 DEF SameRounds
  <2>4. CASE b = a
    BY <2>1, <2>2, <2>3, <2>4
  <2>5. CASE b # a
    <3>1. Bears(b)'
      BY <1>0, <2>2, <2>5 DEF Bears, Only, SameRounds
    <3> QED
      BY <2>1, <2>2, <2>3, <3>1
  <2> QED
    BY <2>4, <2>5
<1>2. PauseFits'
  BY <1>0 DEF PauseFits, SameRounds, Paused, Found
<1>3. pc'[Submit] # "idle"
  BY Kinds DEF Only
<1>4. Numbered'
  BY <1>0, <1>3 DEF Numbered, SameJobs, SameRounds
<1>5. \A b \in Actors : Placed(b)'
  <2>1. pc[Submit] = "answered" => pc'[Submit] = "answered"
    BY Kinds DEF Only
  <2> QED
    BY <1>0, <2>1, Places DEF SameJobs
<1> QED
  BY <1>1, <1>2, <1>4, <1>5 DEF IInv

\* Who has begun has begun on a task.
LEMMA Begun ==
  ASSUME IInv, NEW a \in Actors, pc[a] # "idle" \/ Addressable \/ a \in DOMAIN jobs
  PROVE  pc[Submit] # "idle"
<1>1. Placed(a) /\ (pc[Submit] = "idle" => jobs = <<>>)
  BY DEF IInv, Numbered
<1>2. a = Submit \/ a \in Updates \union Cancels \/ a \in JobIds
  BY DEF Actors
<1>3. DOMAIN jobs = 1..Made /\ (jobs = <<>> => Made = 0)
  BY Lengths DEF IInv, Made
<1> QED
  BY <1>1, <1>2, <1>3 DEF Placed, Addressable

LEMMA Still ==
  ASSUME TypeOK, jobs' = jobs
  PROVE  SameJobs
BY DEF SameJobs, Made

LEMMA SameRecord ==
  ASSUME IInv, record' = record
  PROVE  SameRounds
BY DEF SameRounds, IInv, Numbered, Found, Paused

\* Where an actor is tells what kind of actor it is.
LEMMA WhoIsThere ==
  ASSUME IInv, NEW a \in Actors
  PROVE  /\ pc[a] \in {"dispatch", "dispatchWrite", "enqueue", "pointer"} =>
              a \in {Submit} \union Updates /\ a \notin JobIds /\ a \notin Cancels
         /\ pc[a] \in {"resume", "updateWrite"} => a \in Updates
         /\ pc[a] \in {"readPointer", "cancelJob"} => a \in Cancels
         /\ pc[a] \in {"transition", "transitionWrite"} =>
              a \in Cancels \union JobIds /\ a \notin Updates /\ a # Submit
         /\ pc[a] \in {"loading", "tool", "settled"} => a \in JobIds
         /\ a \in JobIds /\ pc[a] # "idle" => a \in DOMAIN jobs
<1>1. Placed(a)
  BY DEF IInv
<1>2. a = Submit \/ a \in Updates \/ a \in Cancels \/ a \in JobIds
  BY DEF Actors
<1> QED
  BY <1>1, <1>2, Kinds DEF Placed, Working

LEMMA Sole ==
  ASSUME NEW c \in Actors, \A b \in Actors : b # c => ~Bearer(b)', Bearer(c)' => (Bears(c) /\ ~Paused)'
  PROVE  Single'
BY DEF Single

LEMMA OthersRest ==
  ASSUME TypeOK, NEW a \in Actors, Only(a), SameJobs, \A b \in Actors : b # a => ~Bearer(b)
  PROVE  \A b \in Actors : b # a => ~Bearer(b)'
BY DEF Only, SameJobs, Bearer

LEMMA GatheredMore ==
  ASSUME asked \in Seq(SUBSET Keys), NEW keys \in SUBSET Keys
  PROVE  \A n \in 0..Rounds : Gathered(Append(asked, keys), n) = Gathered(asked, n)
<1> SUFFICES ASSUME NEW n \in 0..Rounds
             PROVE  Gathered(Append(asked, keys), n) = Gathered(asked, n)
  OBVIOUS
<1>1. \A i \in 1..n : Append(asked, keys)[i] = asked[i]
  BY Asking
<1> QED
  BY <1>1 DEF Gathered

LEMMA GatheredLast ==
  ASSUME NEW n \in Nat \ {0}
  PROVE  Gathered(asked, n) = Gathered(asked, n - 1) \union asked[n]
<1>1. 1..n = (1..(n - 1)) \union {n}
  OBVIOUS
<1> QED
  BY <1>1 DEF Gathered

-----------------------------------------------------------------------------
(* The steps of the store *)

LEMMA SetDispatchStep ==
  ASSUME IInv, TypeOK', SharedProcess, NEW a \in Actors, SetDispatch(a)
  PROVE  IInv'
<1>0. /\ TypeOK /\ Locked /\ Placed(a) /\ Placed(Submit) /\ (Bearer(a) => Bears(a))
      /\ pc \in [Actors -> Points] /\ copy \in [Actors -> Records] /\ intent \in [Actors -> Intents]
      /\ pc[a] = "dispatch" /\ \A b \in Actors : pc[b] \notin Holding
  BY Lengths, Kinds, OneHost DEF IInv, Single, SetDispatch, Lookup, Go
<1>1. a \in {Submit} \union Updates /\ a \notin JobIds /\ a \notin Cancels
  BY <1>0, WhoIsThere
<1>2. /\ SameJobs /\ SameRounds /\ asked' = asked /\ pointer' = pointer /\ record' = record
      /\ Made' = Made /\ Rounds' = Rounds /\ pointer <= Made /\ pc[Submit] # "idle"
  BY <1>0, Still, SameRecord, Begun DEF SetDispatch, Lookup, IInv, Numbered, SameJobs, Rounds
<1>3. CASE Lookup(a, "dispatch", "dispatchWrite")
  <2>1. /\ Only(a) /\ pc'[a] = "dispatchWrite" /\ copy'[a] = record /\ Found
        /\ intent' = intent
    BY <1>0, <1>3 DEF Lookup, Go, Only
  <2>2. Locked'
    BY <1>0, <1>2, <2>1, LockHere DEF Holds, Found
  <2>3. Placed(a)'
    BY <1>0, <1>1, <1>2, <2>1, Kinds DEF Placed, Only
  <2>4. Bearer(a) /\ Bears(a)'
    BY <1>0, <1>1, <1>2, <2>1 DEF Bearer, Bears, Carrying
  <2> QED
    BY <1>0, <1>2, <2>1, <2>2, <2>3, <2>4, Minor
<1>4. CASE ~Lookup(a, "dispatch", "dispatchWrite")
  <2>1. Only(a) /\ pc'[a] = Raised(a) /\ pc'[a] \in {"raised", "over"}
    BY <1>0, <1>4 DEF SetDispatch, Go, Forget, Only, Raised
  <2>2. Locked'
    BY <1>0, <1>2, <2>1, LockLeft DEF Holding
  <2>3. Placed(a)'
    BY <1>0, <1>1, <1>2, <2>1, Kinds DEF Placed, Only, Raised
  <2>4. ~Bearer(a)'
    BY <1>1, <2>1, Lengths, <1>0, <1>2 DEF Bearer, Carrying, SameJobs
  <2> QED
    BY <1>0, <1>2, <2>1, <2>2, <2>3, <2>4, Minor
<1> QED
  BY <1>3, <1>4

LEMMA TransitionStep ==
  ASSUME IInv, TypeOK', SharedProcess, NEW a \in Actors, Transition(a)
  PROVE  IInv'
<1>0. /\ TypeOK /\ Locked /\ Placed(a) /\ Placed(Submit) /\ (Bearer(a) => Bears(a))
      /\ pc \in [Actors -> Points] /\ copy \in [Actors -> Records] /\ intent \in [Actors -> Intents]
      /\ pc[a] = "transition" /\ \A b \in Actors : pc[b] \notin Holding
  BY Lengths, Kinds, OneHost DEF IInv, Single, Transition, Lookup, Go
<1>1. a \in Cancels \union JobIds /\ a \notin Updates /\ a # Submit /\ (a \in JobIds => a \in DOMAIN jobs)
  BY <1>0, WhoIsThere
<1>2. /\ SameJobs /\ SameRounds /\ asked' = asked /\ pointer' = pointer /\ record' = record
      /\ Made' = Made /\ Rounds' = Rounds /\ pointer <= Made /\ pc[Submit] # "idle" /\ jobs' = jobs
  BY <1>0, Still, SameRecord, Begun DEF Transition, Lookup, IInv, Numbered, SameJobs, Rounds
<1>3. CASE Lookup(a, "transition", "transitionWrite")
  <2>1. /\ Only(a) /\ pc'[a] = "transitionWrite" /\ copy'[a] = record /\ Found
        /\ intent' = intent /\ record.status \notin Terminal
    BY <1>0, <1>3 DEF Transition, Lookup, Go, Only, Settled
  <2>2. Locked'
    BY <1>0, <1>2, <2>1, LockHere DEF Holds, Found
  <2>3. Placed(a)'
    BY <1>0, <1>1, <1>2, <2>1, Kinds DEF Placed, Only, Working
  <2>4. Bearer(a)' => Bearer(a) /\ Bears(a)'
    BY <1>0, <1>1, <1>2, <2>1 DEF Bearer, Bears, Working
  <2> QED
    BY <1>0, <1>1, <1>2, <2>1, <2>2, <2>3, <2>4, Minor
<1>4. CASE ~Lookup(a, "transition", "transitionWrite")
  <2>1. Only(a) /\ pc'[a] = Settled(a) /\ pc'[a] \in {"settled", "over"}
    BY <1>0, <1>4 DEF Transition, Go, Forget, Only, Settled
  <2>2. Locked'
    BY <1>0, <1>2, <2>1, LockLeft DEF Holding
  <2>3. Placed(a)'
    BY <1>0, <1>1, <1>2, <2>1, Kinds DEF Placed, Only, Settled
  <2>4. ~Bearer(a)'
    BY <1>0, <1>1, <1>2, <2>1, Lengths, Kinds DEF Bearer, Working, Placed, SameJobs
  <2> QED
    BY <1>0, <1>1, <1>2, <2>1, <2>2, <2>3, <2>4, Minor
<1> QED
  BY <1>3, <1>4

LEMMA SaveDispatchStep ==
  ASSUME IInv, TypeOK', NEW a \in Actors, SaveDispatch(a)
  PROVE  IInv'
<1>0. /\ TypeOK /\ Locked /\ Placed(a) /\ Single /\ Numbered /\ \A b \in Actors : Placed(b)
      /\ pc \in [Actors -> Points] /\ copy \in [Actors -> Records] /\ intent \in [Actors -> Intents]
      /\ record \in Records /\ pc[a] = "dispatchWrite" /\ Made \in Nat
  BY Lengths, Kinds DEF IInv, SaveDispatch, Go
<1>1. a \in {Submit} \union Updates /\ a \notin JobIds /\ a \notin Cancels
  BY <1>0, WhoIsThere
<1>2. /\ SameJobs /\ asked' = asked /\ pointer' = pointer /\ jobs' = jobs /\ intent' = intent
      /\ Made' = Made /\ Rounds' = Rounds /\ pc[Submit] # "idle"
  BY <1>0, Still, Begun DEF SaveDispatch, SameJobs, Rounds
<1>3. Bearer(a) /\ Bears(a) /\ ~Paused /\ \A b \in Actors : b # a => ~Bearer(b)
  BY <1>0, <1>1 DEF Single, Bearer, Carrying
<1>4. copy[a] = record /\ Found
  BY <1>0 DEF Locked, Holds, Holding
<1>5. /\ Only(a) /\ pc'[a] = "enqueue"
      /\ record' = [record EXCEPT !.attempt = intent[a].attempt, !.inputs = intent[a].inputs]
  BY <1>0, <1>4 DEF SaveDispatch, Go, Only
<1>6. /\ record'.status = record.status /\ record'.answer = record.answer
      /\ record'.attempt = intent[a].attempt /\ record'.inputs = intent[a].inputs
  BY <1>0, <1>5 DEF Records
<1>7. Single'
  <2>1. Bears(a)'
    BY <1>1, <1>2, <1>3, <1>5, <1>6, <1>0 DEF Bears
  <2> QED
    BY <1>0, <1>2, <1>3, <1>5, <1>6, <2>1, Sole, OthersRest DEF Paused
<1>8. Locked'
  <2>1. \A b \in Actors : b # a => pc[b] \notin Holding
    BY <1>0, Alone DEF Holding
  <2> QED
    BY <1>5, <2>1, LockHere DEF Holds, Holding
<1>9. \A b \in Actors : Placed(b)'
  <2>1. Placed(a)'
    BY <1>0, <1>1, <1>2, <1>5, Kinds DEF Placed, Only
  <2> QED
    BY <1>0, <1>2, <1>5, <2>1, Places, Kinds DEF SameJobs, Only
<1>10. pc'[Submit] # "idle"
  BY <1>2, <1>5, Kinds DEF Only
<1>11. PauseFits'
  BY <1>3, <1>6 DEF PauseFits, Paused
<1>12. Numbered'
  BY <1>0, <1>2, <1>6, <1>10 DEF Numbered
<1> QED
  BY <1>7, <1>8, <1>9, <1>11, <1>12 DEF IInv

\* The attempt of a worker that asks for input hands the task over to the client.
LEMMA PauseStep ==
  ASSUME IInv, TypeOK', NEW a \in Actors, SaveTransition(a), intent[a].status = "input_required"
  PROVE  IInv'
<1> DEFINE keys == intent[a].requests
<1>0. /\ TypeOK /\ Locked /\ Placed(a) /\ Single /\ Numbered /\ \A b \in Actors : Placed(b)
      /\ pc \in [Actors -> Points] /\ copy \in [Actors -> Records] /\ intent \in [Actors -> Intents]
      /\ record \in Records /\ pc[a] = "transitionWrite" /\ Made \in Nat /\ Rounds \in Nat
      /\ DOMAIN jobs = 1..Made /\ asked \in Seq(SUBSET Keys) /\ keys \in SUBSET Keys
  BY Lengths, Kinds DEF IInv, SaveTransition, Go, Intents
<1>1. a \in JobIds /\ a \notin Updates /\ a \notin Cancels /\ a # Submit /\ a \in DOMAIN jobs
  BY <1>0, WhoIsThere, Kinds DEF Placed
<1>2. /\ SameJobs /\ pointer' = pointer /\ jobs' = jobs
      /\ Made' = Made /\ pc[Submit] # "idle" /\ asked' = Append(asked, keys)
  BY <1>0, Still, Begun DEF SaveTransition, SameJobs
<1>3. /\ Rounds' = Rounds + 1 /\ asked'[Rounds + 1] = keys
      /\ \A n \in 0..Rounds : Gathered(asked', n) = Gathered(asked, n)
  BY <1>0, <1>2, Asking, GatheredMore DEF Rounds
<1>4. Bearer(a) /\ Bears(a) /\ ~Paused /\ \A b \in Actors : b # a => ~Bearer(b)
  BY <1>0, <1>1 DEF Single, Bearer, Working
<1>5. copy[a] = record /\ Found
  BY <1>0 DEF Locked, Holds, Holding
<1>6. Only(a) /\ pc'[a] = "settled"
  BY <1>0, <1>1, <1>2 DEF SaveTransition, Go, Only, Settled, Forget
<1>7. record' = [record EXCEPT !.status = "input_required", !.answer = "none", !.requests = keys,
                               !.responses = {}]
  BY <1>5 DEF SaveTransition, AnswerOf
<1>8. /\ record'.status = "input_required" /\ record'.answer = "none" /\ record'.requests = keys
      /\ record'.responses = {} /\ record'.attempt = record.attempt /\ record'.inputs = record.inputs
  BY <1>0, <1>7 DEF Records
<1> HIDE DEF keys
<1>9. Made = Rounds + 1 /\ record.attempt = Made /\ record.inputs = Gathered(asked, Rounds)
  BY <1>1, <1>4, <1>5 DEF Bears
<1>10. Single'
  <2>1. ~Bearer(a)'
    BY <1>0, <1>1, <1>2, <1>6 DEF Bearer, Working, Placed
  <2> QED
    BY <1>0, <1>2, <1>4, <1>6, <2>1, Sole, OthersRest
<1>11. Locked'
  <2>1. \A b \in Actors : b # a => pc[b] \notin Holding
    BY <1>0, Alone DEF Holding
  <2> QED
    BY <1>6, <2>1, LockHere DEF Holds, Holding
<1>12. \A b \in Actors : Placed(b)'
  <2>1. Placed(a)'
    BY <1>0, <1>1, <1>2, <1>6, Kinds DEF Placed, Only
  <2> QED
    BY <1>0, <1>1, <1>2, <1>6, <2>1, Places, Kinds DEF SameJobs, Only
<1>13. pc'[Submit] # "idle"
  BY <1>1, <1>2, <1>6, Kinds DEF Only
<1>14. PauseFits'
  BY <1>0, <1>2, <1>3, <1>8, <1>9 DEF PauseFits
<1>15. Numbered'
  <2>1. \A id \in DOMAIN jobs : Gathered(asked', id - 1) = Gathered(asked, id - 1)
    BY <1>0, <1>3, <1>9
  <2> QED
    BY <1>0, <1>2, <1>3, <1>8, <1>9, <1>13, <2>1 DEF Numbered
<1> QED
  BY <1>10, <1>11, <1>12, <1>14, <1>15 DEF IInv

\* A record that ends tells the rounds it told.
LEMMA EndStep ==
  ASSUME IInv, TypeOK', NEW a \in Actors, SaveTransition(a), intent[a].status # "input_required"
  PROVE  IInv'
<1>0. /\ TypeOK /\ Locked /\ Placed(a) /\ Placed(Submit)
      /\ pc \in [Actors -> Points] /\ copy \in [Actors -> Records] /\ intent \in [Actors -> Intents]
      /\ record \in Records /\ pc[a] = "transitionWrite" /\ intent[a] \in Intents
  BY Lengths, Kinds DEF IInv, SaveTransition, Go
<1>1. a \in Cancels \union JobIds /\ a \notin Updates /\ a # Submit /\ (a \in JobIds => a \in DOMAIN jobs)
  BY <1>0, WhoIsThere
<1>2. /\ SameJobs /\ asked' = asked /\ pointer' = pointer /\ jobs' = jobs
      /\ Made' = Made /\ Rounds' = Rounds /\ pointer <= Made /\ pc[Submit] # "idle"
  BY <1>0, Still, Begun DEF SaveTransition, SameJobs, Rounds, IInv, Numbered
<1>3. copy[a] = record /\ Found
  BY <1>0 DEF Locked, Holds, Holding
<1>4. Only(a) /\ pc'[a] = Settled(a) /\ pc'[a] \in {"settled", "over"}
  BY <1>0, <1>2 DEF SaveTransition, Go, Only, Settled, Forget
<1>5. intent[a].status \in Terminal
  BY <1>0 DEF Placed, Intents
<1>6. /\ record'.status = intent[a].status /\ record'.answer = AnswerOf(intent[a].status)
      /\ record'.attempt = record.attempt /\ record'.inputs = record.inputs
  BY <1>0, <1>3 DEF SaveTransition, Records
<1>7. SameRounds
  BY <1>3, <1>5, <1>6 DEF SameRounds, Paused, Found, Terminal, AnswerOf
<1>8. Locked'
  <2>1. \A b \in Actors : b # a => pc[b] \notin Holding
    BY <1>0, Alone DEF Holding
  <2> QED
    BY <1>4, <2>1, LockHere DEF Holds, Holding
<1>9. Placed(a)'
  BY <1>0, <1>1, <1>2, <1>4, Kinds DEF Placed, Only, Settled
<1>10. ~Bearer(a)'
  BY <1>0, <1>1, <1>2, <1>4, Lengths, Kinds DEF Bearer, Working, Placed
<1> QED
  BY <1>1, <1>2, <1>4, <1>7, <1>8, <1>9, <1>10, Minor

-----------------------------------------------------------------------------
(* The steps of the queue *)

\* The bearer's attempt is new to the queue, so that enqueueing makes its job the bearer.
LEMMA EnqueueMakes ==
  ASSUME IInv, TypeOK', NEW a \in Actors, Enqueue(a)
  PROVE  IInv'
<1> DEFINE job == [attempt |-> intent[a].attempt, inputs |-> intent[a].inputs,
                   state |-> "pending", signalled |-> FALSE]
<1>0. /\ TypeOK /\ Locked /\ Placed(a) /\ Single /\ Numbered /\ \A b \in Actors : Placed(b)
      /\ pc \in [Actors -> Points] /\ copy \in [Actors -> Records] /\ intent \in [Actors -> Intents]
      /\ intent[a] \in Intents /\ record \in Records /\ pc[a] = "enqueue" /\ Made \in Nat /\ Rounds \in Nat
      /\ DOMAIN jobs = 1..Made /\ jobs \in Seq(Job) /\ MaxJobs \in Nat
  BY Lengths, Kinds DEF IInv, Enqueue, Go
<1>p. PICK n \in Nat : n = Made + 1
  BY <1>0
<1>1. a \in {Submit} \union Updates /\ a \notin JobIds /\ a \notin Cancels
  BY <1>0, WhoIsThere
<1>2. Bearer(a) /\ Bears(a) /\ ~Paused /\ \A b \in Actors : b # a => ~Bearer(b)
  BY <1>0, <1>1 DEF Single, Bearer, Carrying
<1>3. /\ intent[a].attempt = n /\ intent[a].inputs = Gathered(asked, Rounds) /\ Made = Rounds
      /\ Found => record.attempt = n /\ record.inputs = Gathered(asked, Rounds)
  BY <1>0, <1>p, <1>1, <1>2 DEF Bears
<1>4. {id \in DOMAIN jobs : jobs[id].attempt = intent[a].attempt /\ ~Over(id)} = {}
  BY <1>0, <1>p, <1>3 DEF Numbered
<1>5. /\ Made < MaxJobs /\ jobs' = Append(jobs, job) /\ UNCHANGED <<record, pointer, copy, asked, stranded>>
      /\ intent' = [intent EXCEPT ![a] = [NoIntent EXCEPT !.attempt = n]]
      /\ pc' = [pc EXCEPT ![a] = "pointer"]
  BY <1>p, <1>4 DEF Enqueue, Made, Go
<1>6. job \in Job /\ job.attempt = n /\ job.inputs = Gathered(asked, Rounds) /\ job.state = "pending"
  BY <1>0, <1>3 DEF Job, Intents
<1> HIDE DEF job
<1>7. /\ Made' = n /\ DOMAIN jobs' = 1..n /\ jobs'[n] = job /\ \A id \in 1..Made : jobs'[id] = jobs[id]
  BY <1>0, <1>p, <1>5, <1>6, Extended DEF Made
<1>8. n \in JobIds /\ n \in Actors /\ n # a /\ n \notin DOMAIN jobs /\ n \in DOMAIN jobs' /\ Rounds' = Rounds
  BY <1>0, <1>p, <1>1, <1>5, <1>7, Kinds DEF JobIds, Rounds
<1>9. /\ Only(a) /\ pc'[a] = "pointer" /\ intent'[a].attempt = n
  <2>1. NoIntent.attempt = 0 /\ DOMAIN NoIntent = {"status", "requests", "attempt", "inputs"}
    BY DEF NoIntent
  <2> QED
    BY <1>0, <1>5 DEF Only, NoIntent
<1>10. pc'[n] = "idle"
  <2>1. Placed(n) /\ pc'[n] = pc[n]
    BY <1>0, <1>8, <1>9 DEF Only
  <2> QED
    BY <1>8, <2>1 DEF Placed
<1>11. Single'
  <2>1. \A b \in Actors : b # n => ~Bearer(b)'
    <3> SUFFICES ASSUME NEW b \in Actors, b # n, Bearer(b)'
                 PROVE  FALSE
      OBVIOUS
    <3>1. CASE b = a
      BY <1>0, <1>p, <1>1, <1>7, <1>8, <1>9, <3>1 DEF Bearer, Carrying, JobIds
    <3>2. CASE b # a
      BY <1>0, <1>p, <1>2, <1>7, <1>8, <1>9, <3>2 DEF Bearer, Only
    <3> QED
      BY <3>1, <3>2
  <2>2. Bears(n)'
    BY <1>0, <1>p, <1>3, <1>5, <1>7, <1>8, <1>10 DEF Bears, Found
  <2>3. ~Paused'
    BY <1>2, <1>5 DEF Paused
  <2> QED
    BY <1>8, <2>1, <2>2, <2>3, Sole
<1>12. PauseFits'
  BY <1>2, <1>5 DEF PauseFits, Paused
<1>13. Locked'
  BY <1>0, <1>5, <1>9, LockLeft DEF Holding
<1>14. \A b \in Actors : Placed(b)'
  <2>1. Placed(a)'
    BY <1>0, <1>p, <1>1, <1>7, <1>8, <1>9, Kinds DEF Placed, Only
  <2> QED
    <3>1. \A id \in DOMAIN jobs : id \in DOMAIN jobs' /\ jobs'[id] = jobs[id]
      BY <1>0, <1>p, <1>7
    <3>2. pc[Submit] = "answered" => pc'[Submit] = "answered"
      BY <1>0, <1>9, Kinds DEF Only
    <3>3. Made' \in Nat /\ Made <= Made'
      BY <1>0, <1>p, <1>7
    <3> QED
      BY <1>0, <1>9, <2>1, <3>1, <3>2, <3>3, Places
<1>15. pc[Submit] # "idle" /\ pc'[Submit] # "idle"
  BY <1>0, <1>9, Begun, Kinds DEF Only
<1>16. Numbered'
  <2>1. \A id \in DOMAIN jobs' : jobs'[id].attempt = id /\ jobs'[id].inputs = Gathered(asked, id - 1)
    BY <1>0, <1>p, <1>3, <1>6, <1>7 DEF Numbered
  <2> QED
    BY <1>0, <1>p, <1>3, <1>5, <1>7, <1>8, <1>15, <2>1 DEF Numbered, TypeOK
<1> QED
  BY <1>11, <1>12, <1>13, <1>14, <1>16 DEF IInv

LEMMA EnqueueEnds ==
  ASSUME IInv, TypeOK', NEW a \in Actors, EnqueueRaises(a) \/ SetJobId(a)
  PROVE  IInv'
<1>0. /\ TypeOK /\ Locked /\ Placed(a) /\ Placed(Submit) /\ intent[a] \in Intents
      /\ pc \in [Actors -> Points] /\ copy \in [Actors -> Records] /\ intent \in [Actors -> Intents]
      /\ pc[a] \in {"enqueue", "pointer"} /\ pointer \in Nat
  BY Lengths, Kinds DEF IInv, EnqueueRaises, SetJobId, Go, TypeOK
<1>1. a \in {Submit} \union Updates /\ a \notin JobIds /\ a \notin Cancels
  BY <1>0, WhoIsThere
<1>2. /\ SameJobs /\ SameRounds /\ asked' = asked /\ record' = record
      /\ Made' = Made /\ pointer <= Made /\ pc[Submit] # "idle" /\ jobs' = jobs
  BY <1>0, Still, SameRecord, Begun DEF EnqueueRaises, SetJobId, IInv, Numbered, SameJobs
<1>3. pointer' <= Made
  BY <1>0, <1>2 DEF EnqueueRaises, SetJobId, Placed, Go
<1>4. /\ Only(a) /\ pc'[a] \in {"answered", "raised", "over"} /\ (pc'[a] = "over" <=> a # Submit)
  BY <1>0 DEF EnqueueRaises, SetJobId, Go, Forget, Only, Raised
<1>5. Locked'
  BY <1>0, <1>2, <1>4, LockLeft DEF Holding
<1>6. Placed(a)'
  BY <1>0, <1>1, <1>2, <1>4, Kinds DEF Placed, Only
<1>7. ~Bearer(a)'
  BY <1>0, <1>1, <1>2, <1>4, Lengths DEF Bearer, Carrying
<1> QED
  BY <1>0, <1>2, <1>3, <1>4, <1>5, <1>6, <1>7, Minor

LEMMA CreateStep ==
  ASSUME IInv, TypeOK', SharedProcess, Create
  PROVE  IInv'
<1>0. /\ TypeOK /\ Locked /\ Numbered /\ \A b \in Actors : Placed(b)
      /\ pc \in [Actors -> Points] /\ copy \in [Actors -> Records] /\ intent \in [Actors -> Intents]
      /\ pc[Submit] = "idle" /\ Made \in Nat /\ \A b \in Actors : pc[b] \notin Holding
  BY Lengths, Kinds, OneHost DEF IInv, Create, Go
<1>1. /\ record = NoRecord /\ jobs = <<>> /\ asked = <<>> /\ Made = 0 /\ Rounds = 0 /\ DOMAIN jobs = {}
      /\ jobs' = jobs /\ asked' = asked /\ Made' = 0 /\ Rounds' = 0 /\ pointer' = pointer
  BY <1>0 DEF Numbered, Made, Rounds, Create
<1>2. /\ pc'[Submit] = "dispatch" /\ Only(Submit)
      /\ intent'[Submit].attempt = 1 /\ intent'[Submit].inputs = {}
  BY <1>0, Kinds DEF Create, Go, Only, NoIntent
<1>3. record'.status = "working" /\ record'.answer = "none"
  BY DEF Create, NoRecord
<1>4. \A b \in Actors : b # Submit => ~Bearer(b)'
  <2> SUFFICES ASSUME NEW b \in Actors, b # Submit
               PROVE  ~Bearer(b)'
    OBVIOUS
  <2>1. Placed(b) /\ pc'[b] = pc[b]
    BY <1>0, <1>2 DEF Only
  <2> QED
    BY <1>0, <1>1, <2>1 DEF Bearer, Placed, Carrying
<1>5. Single'
  <2>1. Gathered(asked', 0) = {}
    BY DEF Gathered
  <2>2. Bears(Submit)'
    BY <1>1, <1>2, <2>1, Kinds DEF Bears
  <2> QED
    BY <1>3, <1>4, <2>2, Sole, Kinds DEF Paused
<1>6. PauseFits'
  BY <1>3 DEF PauseFits, Paused
<1>7. Locked'
  BY <1>0, <1>2, LockHere, Kinds DEF Holds, Holding
<1>8. \A b \in Actors : Placed(b)'
  <2>1. Placed(Submit)'
    BY <1>2, Kinds DEF Placed
  <2> QED
    BY <1>0, <1>1, <1>2, <2>1, Places, Kinds
<1>9. Numbered'
  BY <1>0, <1>1, <1>2, <1>3 DEF Numbered
<1> QED
  BY <1>5, <1>6, <1>7, <1>8, <1>9 DEF IInv

-----------------------------------------------------------------------------
(* The steps of tasks/update *)

LEMMA UpdateTakes ==
  ASSUME IInv, TypeOK', SharedProcess, NEW u \in Updates, NEW keys \in SUBSET Keys, Update(u, keys)
  PROVE  IInv'
<1>0. /\ TypeOK /\ Placed(u) /\ u \in Actors /\ Addressable /\ Paused
      /\ pc \in [Actors -> Points] /\ copy \in [Actors -> Records] /\ intent \in [Actors -> Intents]
      /\ \A b \in Actors : pc[b] \notin Holding
  BY Lengths, Kinds, OneHost DEF IInv, Update, Paused
<1>1. u # Submit /\ u \notin JobIds /\ u \notin Cancels
  BY Kinds
<1>2. /\ SameJobs /\ SameRounds /\ asked' = asked /\ pointer' = pointer /\ record' = record
      /\ Made' = Made /\ pointer <= Made /\ pc[Submit] # "idle" /\ pc[Submit] = "answered"
  BY <1>0, Still, SameRecord DEF Update, IInv, Numbered, SameJobs, Addressable
<1>3. /\ Only(u) /\ pc'[u] = "updateWrite" /\ copy'[u] = record
      /\ intent'[u].requests = keys \intersect record.requests
  BY <1>0 DEF Update, Go, Only, Intents
<1>4. Locked'
  <2>1. Holds(u)'
    BY <1>0, <1>2, <1>3 DEF Holds, Holding, Paused
  <2> QED
    BY <1>0, <1>3, <2>1, LockHere
<1>5. Placed(u)'
  BY <1>0, <1>1, <1>2, <1>3, Kinds DEF Placed, Only
<1>6. ~Bearer(u)'
  BY <1>0, <1>1, <1>2, <1>3, Lengths DEF Bearer, Carrying, SameJobs
<1> QED
  BY <1>0, <1>1, <1>2, <1>3, <1>4, <1>5, <1>6, Minor

\* Answers accumulate; with the last one the update handler becomes the bearer.
LEMMA SaveUpdateStep ==
  ASSUME IInv, TypeOK', NEW u \in Updates, SaveUpdate(u)
  PROVE  IInv'
<1> DEFINE answered == copy[u].responses \union intent[u].requests
           open == copy[u].requests \ intent[u].requests
<1>0. /\ TypeOK /\ Locked /\ Placed(u) /\ u \in Actors /\ Single /\ PauseFits /\ Numbered
      /\ \A b \in Actors : Placed(b)
      /\ pc \in [Actors -> Points] /\ copy \in [Actors -> Records] /\ intent \in [Actors -> Intents]
      /\ record \in Records /\ intent[u] \in Intents /\ Made \in Nat /\ Rounds \in Nat
      /\ pc[u] = "updateWrite" /\ DOMAIN jobs = 1..Made
  BY Lengths, Kinds DEF IInv, SaveUpdate, Go
<1>1. u # Submit /\ u \notin JobIds /\ u \notin Cancels
  BY Kinds
<1>2. /\ SameJobs /\ asked' = asked /\ pointer' = pointer /\ jobs' = jobs
      /\ Made' = Made /\ Rounds' = Rounds /\ pc[Submit] = "answered" /\ pointer <= Made
  BY <1>0, Still DEF SaveUpdate, IInv, Numbered, SameJobs, Placed, Rounds
<1>3. /\ copy[u] = record /\ Paused /\ intent[u].requests \subseteq record.requests
      /\ \A b \in Actors : b # u => pc[b] \notin Holding
  BY <1>0, Alone DEF Locked, Holds, Holding
<1>4. /\ Only(u) /\ pc'[u] \in {"over", "resume"}
      /\ pc'[Submit] = pc[Submit]
  BY <1>0, <1>1, Kinds DEF SaveUpdate, Go, Only
<1>5. Locked'
  BY <1>0, <1>3, <1>4, LockHere DEF Holds, Holding
<1>6. Placed(u)'
  BY <1>0, <1>1, <1>2, <1>4 DEF Placed
<1>7. CASE open # {}
  <2>1. pc'[u] = "over" /\ record' = [record EXCEPT !.requests = open, !.responses = answered]
    BY <1>0, <1>3, <1>7 DEF SaveUpdate, Go
  <2>2. /\ record'.status = record.status /\ record'.answer = record.answer
        /\ record'.attempt = record.attempt /\ record'.inputs = record.inputs
        /\ record'.requests \union record'.responses = record.requests \union record.responses
    BY <1>0, <1>3, <2>1 DEF Records
  <2>3. SameRounds
    BY <1>0, <1>3, <2>2 DEF SameRounds, Found, Paused, Numbered
  <2>4. ~Bearer(u)'
    BY <1>0, <1>1, <1>2, <2>1, Lengths DEF Bearer, Carrying
  <2> QED
    BY <1>0, <1>1, <1>2, <1>4, <1>5, <1>6, <2>3, <2>4, Minor
<1>8. CASE open = {}
  <2>1. /\ pc'[u] = "resume"
        /\ record' = [record EXCEPT !.status = "working", !.requests = {}, !.responses = {}]
        /\ intent' = [intent EXCEPT ![u] = [NoIntent EXCEPT !.inputs = answered]]
    BY <1>0, <1>3, <1>8 DEF SaveUpdate, Go
  <2>2. /\ record'.status = "working" /\ record'.answer = record.answer
        /\ record'.attempt = record.attempt /\ record'.inputs = record.inputs
    BY <1>0, <2>1 DEF Records
  <2>3. intent'[u].inputs = record.requests \union record.responses
    <3>1. answered = record.requests \union record.responses
      BY <1>3, <1>8
    <3> HIDE DEF answered
    <3> QED
      BY <1>0, <2>1, <3>1 DEF NoIntent
  <2>4. /\ Rounds > 0 /\ Made = Rounds /\ record.attempt = Made
        /\ record.inputs = Gathered(asked, Rounds - 1) /\ intent'[u].inputs = asked[Rounds]
    BY <1>0, <1>3, <2>3 DEF PauseFits
  <2>5. Single'
    <3>1. \A b \in Actors : b # u => ~Bearer(b)
      BY <1>0, <1>3 DEF Single
    <3>2. Bears(u)'
      BY <1>0, <1>1, <1>2, <2>1, <2>2, <2>4 DEF Bears
    <3> QED
      BY <1>0, <1>2, <1>4, <2>2, <3>1, <3>2, Sole, OthersRest DEF Paused
  <2>6. PauseFits'
    BY <2>2 DEF PauseFits, Paused
  <2>7. \A b \in Actors : Placed(b)'
    BY <1>0, <1>2, <1>4, <1>6, Places DEF SameJobs
  <2>8. Numbered'
    BY <1>0, <1>2, <1>3, <1>4, <2>2 DEF Numbered, Paused
  <2> QED
    BY <1>5, <2>5, <2>6, <2>7, <2>8 DEF IInv
<1> QED
  BY <1>7, <1>8

\* The next attempt carries the answers of all rounds.
LEMMA ReadDispatchStep ==
  ASSUME IInv, TypeOK', NEW u \in Updates, ReadDispatch(u)
  PROVE  IInv'
<1>0. /\ TypeOK /\ Locked /\ Single /\ Placed(u) /\ u \in Actors
      /\ pc \in [Actors -> Points] /\ copy \in [Actors -> Records] /\ intent \in [Actors -> Intents]
      /\ record \in Records /\ intent[u] \in Intents /\ Made \in Nat /\ Rounds \in Nat
      /\ pc[u] = "resume"
  BY Lengths, Kinds DEF IInv, ReadDispatch, Go
<1>1. u # Submit /\ u \notin JobIds /\ u \notin Cancels
  BY Kinds
<1>2. /\ SameJobs /\ SameRounds /\ asked' = asked /\ pointer' = pointer /\ record' = record
      /\ Made' = Made /\ Rounds' = Rounds /\ pointer <= Made /\ pc[Submit] = "answered"
  BY <1>0, Still, SameRecord DEF ReadDispatch, IInv, Numbered, SameJobs, Placed, Rounds
<1>3. /\ Only(u) /\ pc'[u] = IF Found THEN "dispatch" ELSE "over"
      /\ intent'[u].attempt = record.attempt + 1 /\ intent'[u].inputs = record.inputs \union intent[u].inputs
  BY <1>0 DEF ReadDispatch, Go, Only, Intents
<1>4. Locked'
  BY <1>0, <1>2, <1>3, LockLeft DEF Holding
<1>5. Placed(u)'
  BY <1>0, <1>1, <1>2, <1>3, Kinds DEF Placed, Only
<1>6. Bearer(u) /\ Bears(u)
  BY <1>0 DEF Single, Bearer, Carrying
<1>7. Bearer(u)' => Bears(u)'
  <2> SUFFICES ASSUME Bearer(u)'
               PROVE  Bears(u)'
    OBVIOUS
  <2>1. Found
    BY <1>0, <1>1, <1>2, <1>3, Lengths DEF Bearer, Carrying, SameJobs
  <2>2. /\ Rounds > 0 /\ intent[u].inputs = asked[Rounds] /\ record.attempt = Made
        /\ record.inputs = Gathered(asked, Rounds - 1) /\ Made = Rounds
    BY <1>0, <1>1, <1>6, <2>1 DEF Bears
  <2>3. Gathered(asked, Rounds) = record.inputs \union intent[u].inputs
    BY <1>0, <2>2, GatheredLast
  <2> QED
    BY <1>0, <1>1, <1>2, <1>3, <2>1, <2>2, <2>3 DEF Bears
<1> QED
  BY <1>0, <1>1, <1>2, <1>3, <1>4, <1>5, <1>6, <1>7, Minor

LEMMA HandlerDiesStep ==
  ASSUME IInv, TypeOK', NEW a \in Updates \union Cancels, HandlerDies(a)
  PROVE  IInv'
<1>0. /\ TypeOK /\ Locked /\ Placed(a) /\ a \in Actors /\ pc[a] # "idle"
      /\ pc \in [Actors -> Points] /\ copy \in [Actors -> Records] /\ intent \in [Actors -> Intents]
  BY Lengths, Kinds DEF IInv, HandlerDies
<1>1. a # Submit /\ a \notin JobIds
  BY Kinds
<1>2. /\ SameJobs /\ SameRounds /\ asked' = asked /\ pointer' = pointer /\ record' = record
      /\ Made' = Made /\ pointer <= Made /\ pc[Submit] = "answered"
  BY <1>0, Still, SameRecord DEF HandlerDies, IInv, Numbered, SameJobs, Placed
<1>3. Only(a) /\ pc'[a] = "over"
  BY <1>0 DEF HandlerDies, Only, Forget
<1>4. Locked'
  BY <1>0, <1>2, <1>3, LockLeft DEF Holding
<1>5. Placed(a)'
  BY <1>0, <1>1, <1>2, <1>3, Kinds DEF Placed, Only
<1>6. ~Bearer(a)'
  BY <1>0, <1>1, <1>2, <1>3, Lengths DEF Bearer, Carrying, SameJobs
<1> QED
  BY <1>0, <1>1, <1>2, <1>3, <1>4, <1>5, <1>6, Minor

-----------------------------------------------------------------------------
(* The steps of tasks/cancel *)

LEMMA CancelSteps ==
  ASSUME IInv, TypeOK', SharedProcess, NEW c \in Cancels, Cancel(c) \/ ReadPointer(c) \/ CancelJob(c)
  PROVE  IInv'
<1>0. /\ TypeOK /\ Locked /\ Placed(c) /\ c \in Actors /\ Numbered
      /\ pc \in [Actors -> Points] /\ copy \in [Actors -> Records] /\ intent \in [Actors -> Intents]
      /\ intent[c] \in Intents /\ pointer <= Made /\ DOMAIN jobs = 1..Made /\ Made \in Nat
  BY Lengths, Kinds DEF IInv, Numbered
<1>1. c # Submit /\ c \notin JobIds /\ c \notin Updates
  BY Kinds
<1>2. /\ SameRounds /\ asked' = asked /\ pointer' = pointer /\ pc[Submit] = "answered"
      /\ record' = record
  BY <1>0, SameRecord DEF Cancel, ReadPointer, CancelJob, Go, Lookup, Placed, Addressable
<1>3. /\ Only(c) /\ pc'[c] \in {"readPointer", "cancelJob", "transition", "over"}
      /\ pc'[Submit] = pc[Submit]
  BY <1>0, <1>1, Kinds DEF Cancel, ReadPointer, CancelJob, Go, Lookup, Only
<1>4. SameJobs
  <2>1. CASE Cancel(c) \/ ReadPointer(c)
    BY <1>0, <2>1, Still DEF Cancel, ReadPointer, Lookup
  <2>2. CASE CancelJob(c)
    <3>1. intent[c].attempt <= Made
      BY <1>0, <2>2 DEF CancelJob, Go, Placed
    <3>2. /\ Len(jobs') = Made /\ DOMAIN jobs' = DOMAIN jobs
          /\ \A id \in DOMAIN jobs :
               /\ jobs'[id].attempt = jobs[id].attempt /\ jobs'[id].inputs = jobs[id].inputs
               /\ \/ jobs'[id].state = jobs[id].state
                  \/ jobs[id].state = "pending" /\ jobs'[id].state = "cancelled"
      BY <1>0, <2>2, <3>1, CancelJobIs
    <3> QED
      BY <3>2 DEF SameJobs, Made
  <2> QED
    BY <2>1, <2>2
<1>5. Locked'
  BY <1>0, <1>2, <1>3, LockLeft DEF Holding
<1>6. /\ pc'[c] \in {"cancelJob", "transition"} => intent'[c].status = "cancelled"
      /\ pc'[c] = "cancelJob" => intent'[c].attempt <= Made
  <2>1. CASE Cancel(c)
    BY <1>0, <2>1 DEF Cancel, Lookup, Go
  <2>2. CASE ReadPointer(c)
    BY <1>0, <2>2 DEF ReadPointer, Go, NoIntent
  <2>3. CASE CancelJob(c)
    <3>1. intent[c].status = "cancelled" /\ pc'[c] # "cancelJob"
      BY <1>0, <2>3 DEF CancelJob, Go, Placed
    <3>2. intent'[c].status = intent[c].status
      BY <1>0, <2>3 DEF CancelJob, Intents
    <3> QED
      BY <3>1, <3>2
  <2> QED
    BY <2>1, <2>2, <2>3
<1>7. Placed(c)'
  BY <1>0, <1>1, <1>2, <1>3, <1>4, <1>6 DEF Placed, SameJobs
<1>8. ~Bearer(c)'
  BY <1>0, <1>1, <1>4, Lengths DEF Bearer, SameJobs
<1> QED
  BY <1>0, <1>1, <1>2, <1>3, <1>4, <1>5, <1>7, <1>8, Minor

-----------------------------------------------------------------------------
(* The steps of a worker *)

LEMMA AttemptGoesOn ==
  ASSUME IInv, TypeOK', NEW id \in JobIds,
         \/ Loaded(id) \/ Interrupted(id) \/ SaveRaises(id) \/ ToolReturns(id) \/ ToolRaises(id)
         \/ \E keys \in SUBSET Keys : ToolAsks(id, keys)
  PROVE  IInv'
<1>0. /\ TypeOK /\ Locked /\ Single /\ Placed(id) /\ id \in Actors
      /\ pc \in [Actors -> Points] /\ copy \in [Actors -> Records] /\ intent \in [Actors -> Intents]
      /\ pc[id] \in Working /\ intent[id] \in Intents
  BY Lengths, Kinds DEF IInv, Loaded, Interrupted, SaveRaises, Saving, ToolReturns, ToolRaises, ToolAsks, Settle, Go, Working
<1>1. id # Submit /\ id \notin Updates /\ id \notin Cancels /\ id \in DOMAIN jobs
  BY <1>0, Kinds DEF Placed, Working
<1>2. /\ SameJobs /\ SameRounds /\ asked' = asked /\ pointer' = pointer /\ record' = record
      /\ jobs' = jobs /\ Made' = Made /\ Rounds' = Rounds /\ pointer <= Made /\ pc[Submit] # "idle"
  BY <1>0, <1>1, Still, SameRecord, Begun
     DEF Loaded, Interrupted, SaveRaises, Instead, ToolReturns, ToolRaises, ToolAsks, Settle, IInv, Numbered, SameJobs, Rounds
<1>3. Only(id) /\ pc'[id] \in {"tool", "transition"}
  BY <1>0 DEF Loaded, Interrupted, SaveRaises, Instead, ToolReturns, ToolRaises, ToolAsks, Settle, Go, Only
<1>4. pc'[id] = "transition" => intent'[id].status # "none"
  <2>1. CASE Loaded(id)
    BY <1>0, <2>1 DEF Loaded, Go
  <2>2. ASSUME NEW status \in {"failed", "cancelled"}, Instead(id, status)
        PROVE  intent'[id].status # "none"
    BY <1>0, <2>2 DEF Instead, NoIntent
  <2>3. ASSUME NEW status \in {"completed", "failed", "input_required"}, NEW keys, Settle(id, status, keys)
        PROVE  intent'[id].status # "none"
    BY <1>0, <2>3 DEF Settle, Intents
  <2> QED
    BY <2>1, <2>2, <2>3 DEF ToolReturns, ToolRaises, ToolAsks, Interrupted, SaveRaises
<1>5. Locked'
  BY <1>0, <1>2, <1>3, LockLeft DEF Holding
<1>6. Placed(id)'
  BY <1>0, <1>1, <1>2, <1>3, <1>4 DEF Placed, Working
<1>7. Bearer(id) /\ Bears(id)
  BY <1>0, <1>1 DEF Bearer, Single
<1>8. Bears(id)'
  BY <1>1, <1>2, <1>3, <1>7 DEF Bears, Found
<1> QED
  BY <1>0, <1>1, <1>2, <1>3, <1>5, <1>6, <1>7, <1>8, Minor

LEMMA JobStep ==
  ASSUME IInv, TypeOK', NEW id \in JobIds,
         Claim(id) \/ LoadRaises(id) \/ WorkerDies(id) \/ Unsaved(id) \/ Finish(id)
  PROVE  IInv'
<1>0. /\ TypeOK /\ Locked /\ Single /\ Placed(id) /\ id \in Actors
      /\ pc \in [Actors -> Points] /\ copy \in [Actors -> Records] /\ intent \in [Actors -> Intents]
  BY Lengths, Kinds DEF IInv
<1>1. id # Submit /\ id \notin Updates /\ id \notin Cancels /\ id \in DOMAIN jobs
  BY <1>0, Kinds DEF Placed, Working, Claim, LoadRaises, WorkerDies, Unsaved, Saving, Finish, Go
<1>2. PICK state \in {"running", "done", "failed"} :
        /\ jobs' = [jobs EXCEPT ![id].state = state]
        /\ pc'[id] = IF state = "running" THEN "loading" ELSE "over"
        /\ state = "running" => Claim(id)
  BY <1>0 DEF Claim, LoadRaises, WorkerDies, Unsaved, JobFails, Finish, Go
<1>3. /\ DOMAIN jobs' = DOMAIN jobs /\ jobs'[id].state = state /\ Len(jobs') = Made
      /\ \A i \in DOMAIN jobs :
           /\ jobs'[i].attempt = jobs[i].attempt /\ jobs'[i].inputs = jobs[i].inputs
           /\ i # id => jobs'[i] = jobs[i]
  BY <1>0, <1>1, <1>2, SetState
<1>4. SameJobs
  BY <1>3 DEF SameJobs, Made
<1>5. /\ SameRounds /\ asked' = asked /\ pointer' = pointer /\ record' = record
      /\ Made' = Made /\ Rounds' = Rounds /\ pointer <= Made /\ pc[Submit] # "idle"
  BY <1>0, <1>1, <1>4, SameRecord, Begun
     DEF Claim, LoadRaises, WorkerDies, Unsaved, JobFails, Finish, IInv, Numbered, SameJobs, Rounds
<1>6. Only(id) /\ pc'[id] \in {"loading", "over"}
  BY <1>0, <1>2 DEF Claim, LoadRaises, WorkerDies, Unsaved, JobFails, Forget, Finish, Go, Only
<1>7. Locked'
  BY <1>0, <1>5, <1>6, LockLeft DEF Holding
<1>8. Placed(id)'
  BY <1>0, <1>1, <1>2, <1>3, <1>6 DEF Placed, Working
<1>9. Bearer(id)' => Bearer(id) /\ Bears(id)'
  <2> SUFFICES ASSUME Bearer(id)'
               PROVE  Bearer(id) /\ Bears(id)'
    OBVIOUS
  <2>1. state = "running" /\ pc'[id] = "loading"
    BY <1>1, <1>2, <1>3 DEF Bearer, Working
  <2>2. Bearer(id) /\ Bears(id)
    BY <1>0, <1>1, <1>2, <2>1 DEF Bearer, Claim, Single
  <2> QED
    BY <1>1, <1>5, <2>1, <2>2 DEF Bears, Found
<1> QED
  BY <1>0, <1>1, <1>4, <1>5, <1>6, <1>7, <1>8, <1>9, Minor

-----------------------------------------------------------------------------
(* The steps of nobody, and of anybody *)

LEMMA ExpireStep ==
  ASSUME IInv, TypeOK', Expire
  PROVE  IInv'
<1>0. /\ TypeOK /\ Locked /\ Single /\ Numbered /\ \A b \in Actors : Placed(b)
      /\ Made \in Nat /\ \A b \in Actors : pc[b] \notin Holding
  BY Lengths DEF IInv, Expire
<1>1. /\ UNCHANGED <<jobs, pc, copy, intent, asked>> /\ pointer' = 0
      /\ record'.status = "expired" /\ record'.answer = "none"
      /\ Made' = Made /\ Rounds' = Rounds /\ Found
  BY DEF Expire, NoRecord, Made, Rounds
<1>2. ~Found' /\ ~Paused'
  BY <1>1 DEF Found, Paused
<1>3. Locked'
  BY <1>0, <1>1 DEF Locked, Holds, Holding
<1>4. Single'
  <2>1. \A b \in Actors : Bearer(b)' <=> Bearer(b)
    BY <1>1 DEF Bearer
  <2>2. \A b \in Actors : Bears(b) => Bears(b)'
    BY <1>1, <1>2 DEF Bears
  <2> QED
    BY <1>0, <1>2, <2>1, <2>2 DEF Single
<1>5. PauseFits'
  BY <1>2 DEF PauseFits
<1>6. pc[Submit] # "idle"
  BY <1>0, <1>1 DEF Numbered, NoRecord, Found
<1>7. Numbered'
  BY <1>0, <1>1, <1>6 DEF Numbered
<1>8. \A b \in Actors : Placed(b)'
  BY <1>0, <1>1 DEF Placed
<1> QED
  BY <1>3, <1>4, <1>5, <1>7, <1>8 DEF IInv

LEMMA InitHolds == Init => IInv
<1> SUFFICES ASSUME Init
             PROVE  IInv
  OBVIOUS
<1> USE DEF Init
<1>0. /\ \A a \in Actors : pc[a] = "idle"
      /\ Made = 0 /\ Rounds = 0 /\ DOMAIN jobs = {} /\ record.status = "none" /\ record.answer = "none"
  BY DEF Made, Rounds, NoRecord
<1>1. TypeOK
  <2>1. record \in Records /\ copy \in [Actors -> Records] /\ intent \in [Actors -> Intents]
    BY Nothing
  <2>2. pc \in [Actors -> Points] /\ stranded \in BOOLEAN
    BY SomePoints
  <2>3. jobs \in Seq(Job) /\ Len(jobs) = 0 /\ asked \in Seq(SUBSET Keys)
    OBVIOUS
  <2>4. pointer \in 0..MaxJobs /\ 0 <= MaxJobs
    BY Kinds
  <2> QED
    BY <2>1, <2>2, <2>3, <2>4 DEF TypeOK, Intents, Job
<1>2. Locked
  BY <1>0 DEF Locked, Holds, Holding
<1>3. Single
  BY <1>0 DEF Single, Bearer, Carrying
<1>4. PauseFits
  BY <1>0 DEF PauseFits, Paused
<1>5. Numbered
  BY <1>0 DEF Numbered
<1>6. \A a \in Actors : Placed(a)
  BY <1>0 DEF Placed
<1> QED
  BY <1>1, <1>2, <1>3, <1>4, <1>5, <1>6 DEF IInv

LEMMA StepHolds ==
  ASSUME IInv, SharedProcess, [Next]_vars
  PROVE  IInv'
<1>0. TypeOK' /\ Submit \in Actors /\ Updates \subseteq Actors /\ Cancels \subseteq Actors /\ JobIds \subseteq Actors
  BY TypeStep, Kinds
<1>1. ASSUME NEW a \in Actors, StoreStep(a)
      PROVE  IInv'
  BY <1>0, <1>1, SetDispatchStep, SaveDispatchStep, TransitionStep, PauseStep, EndStep DEF StoreStep
<1>2. ASSUME NEW a \in Actors, EnqueueStep(a)
      PROVE  IInv'
  BY <1>0, <1>2, EnqueueMakes, EnqueueEnds DEF EnqueueStep
<1>3. CASE Create
  BY <1>0, <1>3, CreateStep
<1>4. CASE SubmitStep
  BY <1>0, <1>1, <1>2, <1>4 DEF SubmitStep, StoreStep
<1>5. ASSUME NEW u \in Updates, UpdateStep(u) \/ \E keys \in SUBSET Keys : Update(u, keys)
      PROVE  IInv'
  BY <1>0, <1>1, <1>2, <1>5, UpdateTakes, SaveUpdateStep, ReadDispatchStep DEF UpdateStep
<1>6. ASSUME NEW c \in Cancels, Cancel(c) \/ CancelStep(c)
      PROVE  IInv'
  BY <1>0, <1>1, <1>6, CancelSteps DEF CancelStep, StoreStep
<1>7. ASSUME NEW id \in JobIds, WorkerStep(id) \/ WorkerFails(id)
      PROVE  IInv'
  <2>1. CASE Transition(id) \/ SaveTransition(id)
    BY <1>0, <1>1, <2>1 DEF StoreStep
  <2>2. CASE \/ Loaded(id) \/ Interrupted(id) \/ SaveRaises(id) \/ ToolReturns(id) \/ ToolRaises(id)
             \/ \E keys \in SUBSET Keys : ToolAsks(id, keys)
    BY <1>0, <2>2, AttemptGoesOn
  <2>3. CASE Claim(id) \/ LoadRaises(id) \/ WorkerDies(id) \/ Unsaved(id) \/ Finish(id)
    BY <1>0, <2>3, JobStep
  <2> QED
    BY <1>7, <2>1, <2>2, <2>3 DEF WorkerStep, WorkerFails
<1>8. ASSUME NEW a \in Updates \union Cancels, HandlerDies(a)
      PROVE  IInv'
  BY <1>0, <1>8, HandlerDiesStep
<1>9. CASE Expire
  BY <1>0, <1>9, ExpireStep
<1>10. CASE UNCHANGED vars
  <2> USE <1>10 DEF vars
  <2>1. Made' = Made /\ Rounds' = Rounds
    BY DEF Made, Rounds
  <2>2. Locked' /\ PauseFits' /\ Numbered'
    BY <2>1 DEF IInv, Locked, Holds, PauseFits, Paused, Found, Numbered
  <2>3. Single'
    BY <2>1 DEF IInv, Single, Bearer, Bears, Paused, Found
  <2>4. \A a \in Actors : Placed(a)'
    BY <2>1 DEF IInv, Placed
  <2> QED
    BY <1>0, <2>2, <2>3, <2>4 DEF IInv
<1> QED
  BY <1>3, <1>4, <1>5, <1>6, <1>7, <1>8, <1>9, <1>10 DEF Next

THEOREM Invariance == SharedProcess => (Spec => []IInv)
<1> SUFFICES ASSUME SharedProcess
             PROVE  Spec => []IInv
  OBVIOUS
<1>1. IInv /\ [Next]_vars => IInv'
  BY StepHolds
<1> QED
  BY InitHolds, <1>1, PTL DEF Spec

-----------------------------------------------------------------------------
(* What follows *)

\* One job for each answered pause, in order and with all answers so far, and never two
\* runs of the tool at once: where the store's lock covers web server and worker.
THEOREM RoundsInOrder == SharedProcess => (Spec => []AttemptsFollowRounds)
<1> SUFFICES ASSUME SharedProcess
             PROVE  Spec => []AttemptsFollowRounds
  OBVIOUS
<1>1. IInv => AttemptsFollowRounds
  <2> SUFFICES ASSUME IInv
               PROVE  AttemptsFollowRounds
    OBVIOUS
  <2>1. Len(jobs) <= Len(asked) + 1 /\ \A id \in DOMAIN jobs : 
          jobs[id].attempt = id /\ jobs[id].inputs = UNION {asked[i] : i \in 1..(id - 1)}
    BY DEF IInv, Numbered, Made, Rounds, Gathered
  <2>2. ASSUME NEW i \in DOMAIN jobs, NEW j \in DOMAIN jobs,
               pc[i] \in {"loading", "tool"} /\ pc[j] \in {"loading", "tool"}
        PROVE  i = j
    <3>1. i \in Actors /\ j \in Actors /\ Bearer(i) /\ Bearer(j)
      BY <2>2, Lengths, Kinds DEF IInv, Bearer, Working
    <3> QED
      BY <3>1 DEF IInv, Single
  <2> QED
    BY <2>1, <2>2 DEF AttemptsFollowRounds
<1> QED
  BY <1>1, Invariance, PTL

\* How each step changes what the client sees of the record.
Seen == <<record.status, record.answer>>
Moves(froms, status, answer) ==
  record.status \in froms /\ record'.status = status /\ record'.answer = answer

LEMMA RecordMoves ==
  ASSUME IInv, [Next]_vars
  PROVE  \/ UNCHANGED Seen
         \/ Moves({"none"}, "working", "none") /\ record.answer = "none"
         \/ Moves({"working"}, "input_required", record.answer)
         \/ Moves({"input_required"}, "working", record.answer)
         \/ Moves({"working"}, "completed", "result")
         \/ Moves({"working", "input_required"}, "failed", "error")
         \/ Moves({"working", "input_required"}, "cancelled", record.answer)
         \/ Found /\ Moves({record.status}, "expired", "none")
<1> DEFINE Goal ==
         \/ UNCHANGED Seen
         \/ Moves({"none"}, "working", "none") /\ record.answer = "none"
         \/ Moves({"working"}, "input_required", record.answer)
         \/ Moves({"input_required"}, "working", record.answer)
         \/ Moves({"working"}, "completed", "result")
         \/ Moves({"working", "input_required"}, "failed", "error")
         \/ Moves({"working", "input_required"}, "cancelled", record.answer)
         \/ Found /\ Moves({record.status}, "expired", "none")
<1>0. /\ TypeOK /\ Locked /\ Single /\ Numbered /\ \A b \in Actors : Placed(b)
      /\ record \in Records /\ copy \in [Actors -> Records] /\ intent \in [Actors -> Intents]
      /\ Submit \in Actors /\ Updates \subseteq Actors /\ Cancels \subseteq Actors /\ JobIds \subseteq Actors
  BY Lengths, Kinds DEF IInv
<1>1. ASSUME record' = record
      PROVE  Goal
  BY <1>1 DEF Seen
<1>2. ASSUME NEW a \in Actors, SaveDispatch(a)
      PROVE  Goal
  <2>1. copy[a] = record
    BY <1>0, <1>2 DEF Locked, Holds, Holding, SaveDispatch, Go
  <2>2. record'.status = record.status /\ record'.answer = record.answer
    BY <1>0, <1>2, <2>1 DEF SaveDispatch, Records
  <2> QED
    BY <2>2 DEF Seen
<1>3. ASSUME NEW a \in Actors, SaveTransition(a)
      PROVE  Goal
  <2>0. pc[a] = "transitionWrite" /\ Placed(a) /\ intent[a] \in Intents
    BY <1>0, <1>3 DEF SaveTransition, Go
  <2>1. copy[a] = record /\ Found /\ record.status \notin Terminal
    BY <1>0, <2>0 DEF Locked, Holds, Holding
  <2>2. /\ record'.status = intent[a].status /\ record'.answer = AnswerOf(intent[a].status)
    BY <1>0, <1>3, <2>1 DEF SaveTransition, Records
  <2>3. record.status \in {"working", "input_required"} /\ record.answer = "none"
    BY <1>0, <2>1 DEF Records, Found, Terminal, Numbered
  <2>4. intent[a].status \in {"completed", "failed", "cancelled", "input_required"}
    BY <2>0 DEF Placed, Intents, Terminal
  <2>5. intent[a].status # "cancelled" => record.status = "working"
    <3> SUFFICES ASSUME intent[a].status # "cancelled"
                 PROVE  ~Paused
      BY <2>3 DEF Paused
    <3>1. a \in DOMAIN jobs
      BY <2>0, WhoIsThere DEF Placed
    <3>2. Bearer(a)
      BY <2>0, <3>1 DEF Bearer, Working
    <3> QED
      BY <1>0, <3>2 DEF Single
  <2> QED
    BY <2>2, <2>3, <2>4, <2>5 DEF Moves, AnswerOf
<1>4. ASSUME NEW u \in Updates, SaveUpdate(u)
      PROVE  Goal
  <2>1. copy[u] = record /\ Paused
    BY <1>0, <1>4 DEF Locked, Holds, Holding, SaveUpdate, Go
  <2>2. record'.answer = record.answer /\ record'.status \in {record.status, "working"}
    BY <1>0, <1>4, <2>1 DEF SaveUpdate, Records
  <2> QED
    BY <2>1, <2>2 DEF Moves, Seen, Paused
<1>5. CASE Create
  <2>1. record = NoRecord /\ record' = [NoRecord EXCEPT !.status = "working"]
    BY <1>0, <1>5 DEF Create, Go, Numbered
  <2> QED
    BY <2>1 DEF Moves, NoRecord
<1>6. CASE Expire
  BY <1>6 DEF Expire, Moves, NoRecord
<1>7. ASSUME NEW a \in Actors, StoreStep(a) \/ EnqueueStep(a)
      PROVE  Goal
  <2>1. CASE SetDispatch(a) \/ Transition(a) \/ EnqueueStep(a)
    <3>1. record' = record
      BY <2>1 DEF SetDispatch, Transition, Lookup, EnqueueStep, Enqueue, EnqueueRaises, SetJobId
    <3> QED
      BY <1>1, <3>1
  <2>2. CASE SaveDispatch(a) \/ SaveTransition(a)
    BY <1>2, <1>3, <2>2
  <2> QED
    BY <1>7, <2>1, <2>2 DEF StoreStep
<1>8. CASE SubmitStep
  BY <1>0, <1>7, <1>8 DEF SubmitStep, StoreStep
<1>9. ASSUME NEW u \in Updates, UpdateStep(u) \/ \E keys \in SUBSET Keys : Update(u, keys)
      PROVE  Goal
  <2>1. ASSUME ReadDispatch(u) \/ \E keys \in SUBSET Keys : Update(u, keys)
        PROVE  Goal
    BY <1>1, <2>1 DEF ReadDispatch, Update
  <2> QED
    BY <1>0, <1>4, <1>7, <1>9, <2>1 DEF UpdateStep
<1>10. ASSUME NEW c \in Cancels, Cancel(c) \/ CancelStep(c)
       PROVE  Goal
  <2>1. ASSUME Cancel(c) \/ ReadPointer(c) \/ CancelJob(c)
        PROVE  Goal
    BY <1>1, <2>1 DEF Cancel, Lookup, ReadPointer, CancelJob
  <2> QED
    BY <1>0, <1>7, <1>10, <2>1 DEF CancelStep, StoreStep
<1>11. ASSUME NEW id \in JobIds, WorkerStep(id) \/ WorkerFails(id)
       PROVE  Goal
  <2>1. CASE Transition(id) \/ SaveTransition(id)
    BY <1>0, <1>7, <2>1 DEF StoreStep
  <2>2. CASE ~(Transition(id) \/ SaveTransition(id))
    <3>1. record' = record
      BY <1>11, <2>2 DEF WorkerStep, Claim, Loaded, ToolReturns, ToolRaises, ToolAsks, Settle, Finish,
                         WorkerFails, Interrupted, SaveRaises, Instead, LoadRaises, WorkerDies, Unsaved, JobFails
    <3> QED
      BY <1>1, <3>1
  <2> QED
    BY <2>1, <2>2
<1>12. CASE (\E a \in Updates \union Cancels : HandlerDies(a)) \/ UNCHANGED vars
  BY <1>1, <1>12 DEF HandlerDies, vars
<1>13. Goal
  BY <1>5, <1>6, <1>8, <1>9, <1>10, <1>11, <1>12 DEF Next
<1> QED
  BY <1>13

\* The record lives the life TaskLifecycle promises, where one lock guards it.
THEOREM Refinement == SharedProcess => (Spec => LifecycleSpec)
<1> SUFFICES ASSUME SharedProcess
             PROVE  Spec => LifecycleSpec
  OBVIOUS
<1>1. Init => Lifecycle!Init
  BY DEF Init, NoRecord, Lifecycle!Init
<1>2. IInv /\ [Next]_vars => [Lifecycle!Next]_(Lifecycle!vars)
  <2> SUFFICES ASSUME IInv, [Next]_vars
               PROVE  [Lifecycle!Next]_(Lifecycle!vars)
    OBVIOUS
  <2>1. CASE UNCHANGED Seen
    BY <2>1 DEF Seen, Lifecycle!vars
  <2>2. CASE Moves({"none"}, "working", "none") /\ record.answer = "none"
    BY <2>2 DEF Moves, Lifecycle!Next, Lifecycle!Create
  <2>3. CASE Moves({"working"}, "input_required", record.answer)
    BY <2>3 DEF Moves, Lifecycle!Next, Lifecycle!Pause
  <2>4. CASE Moves({"input_required"}, "working", record.answer)
    BY <2>4 DEF Moves, Lifecycle!Next, Lifecycle!Resume
  <2>5. CASE Moves({"working"}, "completed", "result")
    BY <2>5 DEF Moves, Lifecycle!Next, Lifecycle!Complete
  <2>6. CASE Moves({"working", "input_required"}, "failed", "error")
    BY <2>6 DEF Moves, Lifecycle!Next, Lifecycle!Fail, Lifecycle!Live
  <2>7. CASE Moves({"working", "input_required"}, "cancelled", record.answer)
    BY <2>7 DEF Moves, Lifecycle!Next, Lifecycle!Cancel, Lifecycle!Live
  <2>8. CASE Found /\ Moves({record.status}, "expired", "none")
    <3>1. record.status \in Lifecycle!Live \union Lifecycle!Terminal
      BY <2>8, Lengths DEF IInv, Found, Records, Terminal, Lifecycle!Live, Lifecycle!Terminal
    <3> QED
      BY <2>8, <3>1 DEF Moves, Lifecycle!Next, Lifecycle!Expire
  <2> QED
    BY <2>1, <2>2, <2>3, <2>4, <2>5, <2>6, <2>7, <2>8, RecordMoves
<1> QED
  BY <1>1, <1>2, Invariance, PTL DEF Spec, LifecycleSpec, Lifecycle!Spec

=============================================================================
