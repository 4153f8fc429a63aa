------------------------ MODULE WorkflowsProofs ------------------------
(***************************************************************************)
(* What the two engines promise for every workflow.  First the durable     *)
(* one, for any number of workers, jobs and crashes and as long as a run   *)
(* does not time out: a node's handler runs once and after what it depends *)
(* on completed, and the verdict is that of the records.  Then the one in  *)
(* a process: its count of edges.  Last, both implement the abstract run.  *)
(***************************************************************************)
EXTENDS Workflows, FiniteSetTheorems, WellFoundedInduction, TLAPS

(* The inductive invariant *)

\* A job past the check of its node's record.
Past(x) == jobs[x].at \in {"context", "running", "put", "write"} \/ jobs[x].ran

Upstream(n) == \A d \in graph[n] : records[d] = "completed"

\* Whatever happens: no job is made before its node's dependencies are recorded.
JobBase(x) ==
  /\ jobs[x].at \in {"put", "write"} => jobs[x].outcome # "none"
  /\ jobs[x].ran => jobs[x].at # "free"
  /\ jobs[x].at # "free" => graph[x[1]] \subseteq Durable!Recorded
  /\ jobs[x].at = "context" => jobs[x].seen = graph[x[1]]

ActorBase(a) ==
  /\ actors[a].at \in {"nodes", "enqueue"} => actors[a].seen \subseteq Durable!Recorded
  /\ actors[a].at = "enqueue" => \A n \in actors[a].todo : graph[n] \subseteq Durable!Recorded

\* Until the run times out, keys are released only when every node is recorded, so that
\* an unrecorded node has one job and a recorded one no other that gets past its check.
JobSteady(x) ==
  /\ jobs[x].at # "free" => x[1] \in reserved \/ records[x[1]] # "none"
  /\ jobs[x].at = "write" => records[x[1]] = "none"
  /\ \/ jobs[x].at = "running"
     \/ jobs[x].at \in {"put", "write"} /\ jobs[x].outcome = "completed"
     => Upstream(x[1])

Sole(x, y) ==
  x[1] = y[1] =>
    /\ Past(x) /\ Past(y) => x = y
    /\ jobs[x].at # "free" /\ jobs[y].at # "free" /\ records[x[1]] = "none" => x = y

ActorSteady(a) ==
  /\ actors[a].at \in {"status", "write", "reset"} => Durable!Recorded = Nodes
  /\ actors[a].at \in {"status", "write"} => actors[a].verdict = Durable!Verdict

RunSteady ==
  /\ run \in Durable!Terminal => Durable!Recorded = Nodes /\ run = Durable!Verdict
  /\ \A n \in Nodes : records[n] = "completed" => Upstream(n)

Base == (\A x \in Durable!Jobs : JobBase(x)) /\ (\A a \in Durable!Actors : ActorBase(a))
Steady ==
  /\ \A x \in Durable!Jobs : JobSteady(x)
  /\ \A x, y \in Durable!Jobs : Sole(x, y)
  /\ \A a \in Durable!Actors : ActorSteady(a)
  /\ RunSteady

IInv == Durable!TypeOK /\ Base /\ (~timedOut => Steady)

-----------------------------------------------------------------------------
(* Types *)

\* The sets that the modules count are finite sets, and counted, in the sense of the library.
LEMMA SameSets ==
  ASSUME NEW S
  PROVE  /\ Durable!IsFiniteSet(S) <=> IsFiniteSet(S)
         /\ Engine!IsFiniteSet(S) <=> IsFiniteSet(S)
         /\ Durable!Cardinality(S) = Cardinality(S)
         /\ Engine!Cardinality(S) = Cardinality(S)
<1>1. Durable!IsFiniteSet(S) <=> IsFiniteSet(S)
  BY DEF Durable!IsFiniteSet, IsFiniteSet
<1>2. Engine!IsFiniteSet(S) <=> IsFiniteSet(S)
  BY DEF Engine!IsFiniteSet, IsFiniteSet
<1>3. Durable!Cardinality(S) = Cardinality(S)
  BY DEF Durable!Cardinality, Cardinality
<1>4. Engine!Cardinality(S) = Cardinality(S)
  BY DEF Engine!Cardinality, Cardinality
<1> QED
  BY <1>1, <1>2, <1>3, <1>4

LEMMA DurableConstants ==
  /\ IsFiniteSet(Nodes) /\ Graphs \subseteq [Nodes -> SUBSET Nodes]
  /\ MaxJobs \in Nat \ {0} /\ MaxCrashes \in Nat
  /\ RunTimeout \in Nat /\ TTL \in Nat
BY WorkflowsAssumption, SameSets DEF Durable!WorkflowAssumption, Durable!Retries

LEMMA EngineConstants == IsFiniteSet(EngineNodes) /\ Uses \subseteq [EngineNodes -> [EngineNodes -> Nat]]
BY WorkflowsAssumption, SameSets DEF Engine!WorkflowsAssumption

LEMMA JobType ==
  ASSUME Durable!TypeOK, NEW x \in Durable!Jobs, NEW from, NEW to \in Durable!JobStates,
         Durable!Becomes(x, from, to)
  PROVE  jobs' \in [Durable!Jobs -> Durable!JobStates]
  BY DEF Durable!TypeOK, Durable!Becomes

LEMMA ActorType ==
  ASSUME Durable!TypeOK, NEW a \in Durable!Actors, NEW from, NEW to \in Durable!ActorStates,
         Durable!Goes(a, from, to)
  PROVE  actors' \in [Durable!Actors -> Durable!ActorStates]
  BY DEF Durable!TypeOK, Durable!Goes

LEMMA ConstantTypes ==
  /\ Durable!Idle \in Durable!ActorStates
  /\ \A a : Durable!Over(a) \in Durable!ActorStates
  /\ Durable!NoJob \in Durable!JobStates
  BY DEF Durable!Idle, Durable!Over, Durable!ActorStates, Durable!NoJob, Durable!JobStates, Durable!Outcomes

LEMMA TypeStart == Durable!TypeOK /\ Durable!Start => Durable!TypeOK'
  <1> SUFFICES ASSUME Durable!TypeOK, Durable!Start PROVE Durable!TypeOK'
    OBVIOUS
  <1>1. CASE Durable!CreateRun
    BY <1>1 DEF Durable!CreateRun, Durable!TypeOK
  <1>2. CASE Durable!EnqueueAdvance
    BY <1>2 DEF Durable!EnqueueAdvance, Durable!TypeOK
  <1>3. CASE Durable!EnqueueWatch
    <2>1. actors' \in [Durable!Actors -> Durable!ActorStates]
      BY <1>3 DEF Durable!EnqueueWatch, Durable!TypeOK, Durable!ActorStates, Durable!Actors
    <2> QED
      BY <1>3, <2>1, DurableConstants DEF Durable!EnqueueWatch, Durable!TypeOK
  <1>4. CASE Durable!StartAborts
    BY <1>4 DEF Durable!StartAborts, Durable!TypeOK
  <1> QED
    BY <1>1, <1>2, <1>3, <1>4 DEF Durable!Start

LEMMA TypeActor ==
  ASSUME Durable!TypeOK, NEW a \in Durable!Actors, Durable!ActorStep(a) \/ Durable!ActorCrash(a)
  PROVE  Durable!TypeOK'
  <1> USE ConstantTypes
  <1>1. CASE a = Durable!Watch /\ Durable!CheckAge
    <2> DEFINE to == IF run # "running" THEN Durable!Over(Durable!Watch)
                     ELSE IF Durable!TooOld THEN [Durable!Idle EXCEPT !.at = "status", !.verdict = "failed"]
                     ELSE [Durable!Idle EXCEPT !.at = "advance"]
    <2>1. to \in Durable!ActorStates
      BY DEF Durable!Idle, Durable!ActorStates, Durable!Terminal
    <2>2. Durable!Goes(a, "idle", to)
      BY <1>1 DEF Durable!CheckAge
    <2>3. actors' \in [Durable!Actors -> Durable!ActorStates]
      BY <2>1, <2>2, ActorType
    <2> QED
      BY <1>1, <2>3 DEF Durable!CheckAge, Durable!TypeOK
  <1>2. CASE Durable!ReadRun(a)
    <2> DEFINE to == IF run = "running" THEN [Durable!Idle EXCEPT !.at = "nodes", !.seen = Durable!Recorded]
                                        ELSE Durable!Over(a)
    <2>1. to \in Durable!ActorStates
      BY DEF Durable!Idle, Durable!ActorStates, Durable!Recorded
    <2>2. actors' \in [Durable!Actors -> Durable!ActorStates]
      BY <1>2, <2>1, ActorType DEF Durable!ReadRun
    <2>3. pending' \in Nat
      BY <1>2 DEF Durable!ReadRun, Durable!TypeOK
    <2> QED
      BY <1>2, <2>2, <2>3 DEF Durable!ReadRun, Durable!TypeOK
  <1>3. CASE Durable!ReadNodes(a)
    <2>1. PICK nodes \in SUBSET Durable!Recorded :
            Durable!Goes(a, "nodes", [Durable!Idle EXCEPT !.at = "enqueue", !.todo = Durable!Ready(nodes),
                                          !.seen = IF nodes = Nodes THEN Nodes ELSE {}])
      BY <1>3 DEF Durable!ReadNodes
    <2>2. [Durable!Idle EXCEPT !.at = "enqueue", !.todo = Durable!Ready(nodes),
                       !.seen = IF nodes = Nodes THEN Nodes ELSE {}] \in Durable!ActorStates
      BY DEF Durable!Idle, Durable!ActorStates, Durable!Ready
    <2>3. actors' \in [Durable!Actors -> Durable!ActorStates]
      BY <2>1, <2>2, ActorType
    <2> QED
      BY <1>3, <2>3 DEF Durable!ReadNodes, Durable!TypeOK
  <1>4. CASE Durable!EnqueueNode(a)
    <2>1. PICK n \in actors[a].todo :
            /\ Durable!Goes(a, "enqueue", [actors[a] EXCEPT !.todo = @ \ {n}])
            /\ \/ UNCHANGED <<jobs, reserved>>
               \/ /\ \E i \in 1..MaxJobs : jobs' = [jobs EXCEPT ![<<n, i>>].at = "pending"]
                  /\ reserved' = reserved \union {n}
      BY <1>4 DEF Durable!EnqueueNode
    <2>2. n \in Nodes /\ [actors[a] EXCEPT !.todo = @ \ {n}] \in Durable!ActorStates
      BY DEF Durable!TypeOK, Durable!ActorStates
    <2>3. actors' \in [Durable!Actors -> Durable!ActorStates]
      BY <2>1, <2>2, ActorType
    <2>4. jobs' \in [Durable!Jobs -> Durable!JobStates]
      <3>1. CASE UNCHANGED jobs
        BY <3>1 DEF Durable!TypeOK
      <3>2. ASSUME NEW i \in 1..MaxJobs, jobs' = [jobs EXCEPT ![<<n, i>>].at = "pending"]
            PROVE  jobs' \in [Durable!Jobs -> Durable!JobStates]
        <4>1. <<n, i>> \in Durable!Jobs
          BY <2>2 DEF Durable!Jobs
        <4>2. [jobs[<<n, i>>] EXCEPT !.at = "pending"] \in Durable!JobStates
          BY <4>1 DEF Durable!TypeOK, Durable!JobStates
        <4> QED
          BY <3>2, <4>1, <4>2 DEF Durable!TypeOK
      <3> QED
        BY <2>1, <3>1, <3>2
    <2>5. reserved' \subseteq Nodes
      BY <2>1, <2>2 DEF Durable!TypeOK
    <2> QED
      BY <1>4, <2>3, <2>4, <2>5 DEF Durable!EnqueueNode, Durable!TypeOK
  <1>5. CASE Durable!CountNodes(a)
    <2>1. [Durable!Idle EXCEPT !.at = "status", !.verdict = Durable!Verdict] \in Durable!ActorStates
      BY DEF Durable!Idle, Durable!ActorStates, Durable!Verdict, Durable!Terminal
    <2>2. actors' \in [Durable!Actors -> Durable!ActorStates]
      BY <1>5, <2>1, ActorType DEF Durable!CountNodes
    <2>3. due' \in 0..(TTL + 1)
      BY <1>5, DurableConstants DEF Durable!CountNodes, Durable!TypeOK
    <2> QED
      BY <1>5, <2>2, <2>3 DEF Durable!CountNodes, Durable!TypeOK
  <1>6. CASE Durable!ReadStatus(a)
    <2>1. [actors[a] EXCEPT !.at = "write"] \in Durable!ActorStates
      BY DEF Durable!TypeOK, Durable!ActorStates
    <2>2. [Durable!Idle EXCEPT !.at = "reset"] \in Durable!ActorStates
      BY DEF Durable!Idle, Durable!ActorStates
    <2>3. actors' \in [Durable!Actors -> Durable!ActorStates]
      <3>1. CASE run = "running"
        <4>1. Durable!Goes(a, "status", [actors[a] EXCEPT !.at = "write"])
          BY <1>6, <3>1 DEF Durable!ReadStatus, Durable!Terminal
        <4> QED
          BY <2>1, <4>1, ActorType
      <3>2. CASE run \in Durable!Terminal
        BY <1>6, <2>2, <3>2, ActorType DEF Durable!ReadStatus, Durable!Terminal
      <3>3. CASE run # "running" /\ run \notin Durable!Terminal
        BY <1>6, <3>3, ActorType DEF Durable!ReadStatus
      <3> QED
        BY <3>1, <3>2, <3>3
    <2> QED
      BY <1>6, <2>3 DEF Durable!ReadStatus, Durable!TypeOK
  <1>7. CASE Durable!WriteStatus(a)
    <2>1. [Durable!Idle EXCEPT !.at = "reset"] \in Durable!ActorStates
      BY DEF Durable!Idle, Durable!ActorStates
    <2>2. actors' \in [Durable!Actors -> Durable!ActorStates]
      BY <1>7, <2>1, ActorType DEF Durable!WriteStatus
    <2>3. run' \in {"none", "running", "expired"} \union Durable!Terminal
      BY <1>7 DEF Durable!WriteStatus, Durable!TypeOK, Durable!ActorStates
    <2> QED
      BY <1>7, <2>2, <2>3 DEF Durable!WriteStatus, Durable!TypeOK
  <1>8. CASE Durable!ResetIdentity(a)
    <2>1. actors' \in [Durable!Actors -> Durable!ActorStates]
      BY <1>8, ActorType DEF Durable!ResetIdentity
    <2> QED
      BY <1>8, <2>1 DEF Durable!ResetIdentity, Durable!TypeOK
  <1>9. CASE Durable!ActorCrash(a)
    <2>1. actors' \in [Durable!Actors -> Durable!ActorStates]
      BY <1>9 DEF Durable!ActorCrash, Durable!TypeOK
    <2>2. pending' \in Nat
      BY <1>9 DEF Durable!ActorCrash, Durable!TypeOK
    <2>3. crashes' \in 0..MaxCrashes
      BY <1>9, DurableConstants DEF Durable!ActorCrash, Durable!TypeOK
    <2> QED
      BY <1>9, <2>1, <2>2, <2>3 DEF Durable!ActorCrash, Durable!TypeOK
  <1> QED
    BY <1>1, <1>2, <1>3, <1>4, <1>5, <1>6, <1>7, <1>8, <1>9 DEF Durable!ActorStep

LEMMA TypeJob ==
  ASSUME Durable!TypeOK, NEW x \in Durable!Jobs, Durable!JobStep(x) \/ Durable!JobCrash(x)
  PROVE  Durable!TypeOK'
  <1>0. /\ Durable!JobOver(x) \in Durable!JobStates
        /\ [Durable!JobOver(x) EXCEPT !.at = "raised"] \in Durable!JobStates
        /\ [Durable!JobOver(x) EXCEPT !.at = "dead"] \in Durable!JobStates
    BY DEF Durable!JobOver, Durable!TypeOK, Durable!JobStates, Durable!Outcomes
  <1>1. jobs' \in [Durable!Jobs -> Durable!JobStates]
    <2>1. CASE Durable!ReadNode(x)
      <3>1. [jobs[x] EXCEPT !.at = "context", !.seen = Durable!Recorded \intersect graph[x[1]]] \in Durable!JobStates
        BY DEF Durable!TypeOK, Durable!JobStates, Durable!Recorded
      <3> QED
        BY <1>0, <2>1, <3>1, JobType DEF Durable!ReadNode
    <2>2. CASE Durable!ReadContext(x)
      <3>1. /\ [jobs[x] EXCEPT !.at = "put", !.seen = {}, !.outcome = "skipped"] \in Durable!JobStates
            /\ [jobs[x] EXCEPT !.at = "running", !.seen = {}, !.ran = TRUE] \in Durable!JobStates
        BY DEF Durable!TypeOK, Durable!JobStates, Durable!Outcomes
      <3> QED
        BY <1>0, <2>2, <3>1, JobType DEF Durable!ReadContext
    <2>3. CASE Durable!HandlerEnds(x)
      <3>1. \A outcome \in {"completed", "failed"} :
              [jobs[x] EXCEPT !.at = "put", !.outcome = outcome] \in Durable!JobStates
        BY DEF Durable!TypeOK, Durable!JobStates, Durable!Outcomes
      <3> QED
        BY <2>3, <3>1, JobType DEF Durable!HandlerEnds
    <2>4. CASE Durable!CheckNode(x) \/ Durable!WriteNode(x)
      <3>1. /\ [jobs[x] EXCEPT !.at = "write"] \in Durable!JobStates
            /\ [jobs[x] EXCEPT !.at = "notify", !.outcome = "none"] \in Durable!JobStates
        BY DEF Durable!TypeOK, Durable!JobStates, Durable!Outcomes
      <3> QED
        BY <2>4, <3>1, JobType DEF Durable!CheckNode, Durable!WriteNode
    <2>5. CASE Durable!Notify(x) \/ Durable!NotifyRaises(x)
      BY <1>0, <2>5, JobType DEF Durable!Notify, Durable!NotifyRaises
    <2>6. CASE Durable!JobCrash(x)
      BY <1>0, <2>6 DEF Durable!JobCrash, Durable!TypeOK
    <2> QED
      BY <2>1, <2>2, <2>3, <2>4, <2>5, <2>6 DEF Durable!JobStep
  <1>2. records' \in [Nodes -> Durable!Outcomes]
    <2>1. jobs[x].outcome \in Durable!Outcomes
      BY DEF Durable!TypeOK, Durable!JobStates
    <2> QED
      BY <2>1 DEF Durable!JobStep, Durable!JobCrash, Durable!WriteNode, Durable!TypeOK
  <1>3. pending' \in Nat
    BY DEF Durable!JobStep, Durable!JobCrash, Durable!Notify, Durable!TypeOK
  <1>4. crashes' \in 0..MaxCrashes
    BY DurableConstants DEF Durable!JobStep, Durable!JobCrash, Durable!TypeOK
  <1>5. UNCHANGED <<graph, launch, run, reserved, actors, clock, due, timedOut>>
    BY DEF Durable!JobStep, Durable!JobCrash
  <1> QED
    BY <1>1, <1>2, <1>3, <1>4, <1>5 DEF Durable!TypeOK

LEMMA TypeInit == Durable!Init => Durable!TypeOK
  <1> SUFFICES ASSUME Durable!Init PROVE Durable!TypeOK
    OBVIOUS
  <1>1. graph \in [Nodes -> SUBSET Nodes]
    BY DurableConstants DEF Durable!Init
  <1>2. jobs \in [Durable!Jobs -> Durable!JobStates]
    BY ConstantTypes DEF Durable!Init
  <1>3. actors \in [Durable!Actors -> Durable!ActorStates]
    BY ConstantTypes DEF Durable!Init, Durable!Idle, Durable!ActorStates
  <1>4. clock \in 0..TTL /\ due \in 0..(TTL + 1) /\ crashes \in 0..MaxCrashes
    BY DurableConstants DEF Durable!Init
  <1>5. /\ records \in [Nodes -> Durable!Outcomes] /\ pending \in Nat /\ reserved \subseteq Nodes
        /\ timedOut \in BOOLEAN
    BY DEF Durable!Init, Durable!Outcomes
  <1>6. /\ launch \in {"new", "created", "advancing", "started", "aborted"}
        /\ run \in {"none", "running", "expired"} \union Durable!Terminal
    BY DEF Durable!Init
  <1> QED
    BY <1>1, <1>2, <1>3, <1>4, <1>5, <1>6 DEF Durable!TypeOK

LEMMA TypeStep == Durable!TypeOK /\ [Durable!Next]_(Durable!vars) => Durable!TypeOK'
  <1> SUFFICES ASSUME Durable!TypeOK, [Durable!Next]_(Durable!vars) PROVE Durable!TypeOK'
    OBVIOUS
  <1>1. CASE Durable!Start
    BY <1>1, TypeStart
  <1>2. CASE \E a \in Durable!Actors : Durable!ActorStep(a) \/ Durable!ActorCrash(a)
    BY <1>2, TypeActor
  <1>3. CASE \E x \in Durable!Jobs : Durable!JobStep(x) \/ Durable!JobCrash(x)
    BY <1>3, TypeJob
  <1>4. CASE Durable!Tick
    BY <1>4, DurableConstants DEF Durable!Tick, Durable!TypeOK
  <1>5. CASE Durable!Lapse
    BY <1>5 DEF Durable!Lapse, Durable!TypeOK
  <1>6. CASE UNCHANGED Durable!vars
    BY <1>6 DEF Durable!vars, Durable!TypeOK
  <1> QED
    BY <1>1, <1>2, <1>3, <1>4, <1>5, <1>6 DEF Durable!Next

\* The state of a durable run and of every actor keeps its type.
THEOREM Types == Durable!Spec => []Durable!TypeOK
  BY TypeInit, TypeStep, PTL DEF Durable!Spec

-----------------------------------------------------------------------------
(* Moves and frames *)

\* The moves of a node job.
Checks(x, j, k) == j.at = "pending" /\ records[x[1]] = "none" /\ k.at = "context"
                   /\ k.seen = Durable!Recorded \intersect graph[x[1]] /\ k.ran = j.ran
SkipsOver(j, k) == j.at = "context" /\ k.at = "put" /\ k.outcome = "skipped" /\ k.ran = j.ran
Starts(x, j, k) == j.at = "context" /\ k.at = "running"
                   /\ \E nodes \in SUBSET (Durable!Recorded \intersect graph[x[1]]) :
                        j.seen \subseteq nodes /\ ~Durable!Skips(nodes)
Returns(j, k) == j.at = "running" /\ k.at = "put" /\ k.outcome \in {"completed", "failed"}
                 /\ k.ran = j.ran
Finds(x, j, k) == j.at = "put" /\ records[x[1]] = "none" /\ k.at = "write"
                  /\ k.outcome = j.outcome /\ k.ran = j.ran
Leaves(j, k) == j.at # "free" /\ k.at \in {"notify", "over", "raised", "dead"} /\ k.ran = j.ran

Moves(x) ==
  LET j == jobs[x]
      k == jobs'[x]
  IN  Checks(x, j, k) \/ SkipsOver(j, k) \/ Starts(x, j, k) \/ Returns(j, k) \/ Finds(x, j, k)
      \/ Leaves(j, k)

LEMMA JobMoves ==
  ASSUME Durable!TypeOK, NEW x \in Durable!Jobs, Durable!JobStep(x) \/ Durable!JobCrash(x)
  PROVE  /\ Moves(x)
         /\ \A y \in Durable!Jobs \ {x} : jobs'[y] = jobs[y]
         /\ UNCHANGED <<graph, run, reserved, actors, timedOut>>
  <1> DEFINE j == jobs[x]
             k == jobs'[x]
  <1>1. Durable!ReadNode(x) => Checks(x, j, k) \/ Leaves(j, k)
    <2>1. ASSUME Durable!Becomes(x, "pending", Durable!JobOver(x)) PROVE Leaves(j, k)
      BY <2>1 DEF Durable!TypeOK, Durable!JobStates, Durable!Becomes, Durable!JobOver, Leaves
    <2>2. ASSUME records[x[1]] = "none",
                 Durable!Becomes(x, "pending", [jobs[x] EXCEPT !.at = "context",
                                                       !.seen = Durable!Recorded \intersect graph[x[1]]])
          PROVE  Checks(x, j, k)
      BY <2>2 DEF Durable!TypeOK, Durable!JobStates, Durable!Becomes, Checks
    <2> QED
      BY <2>1, <2>2 DEF Durable!ReadNode
  <1>2. Durable!ReadContext(x) => SkipsOver(j, k) \/ Starts(x, j, k) \/ Leaves(j, k)
    <2>1. ASSUME Durable!Becomes(x, "context", [jobs[x] EXCEPT !.at = "put", !.seen = {},
                                                       !.outcome = "skipped"])
          PROVE  SkipsOver(j, k)
      BY <2>1 DEF Durable!TypeOK, Durable!JobStates, Durable!Becomes, SkipsOver
    <2>2. ASSUME NEW nodes \in SUBSET (Durable!Recorded \intersect graph[x[1]]),
                 jobs[x].seen \subseteq nodes, ~Durable!Skips(nodes),
                 Durable!Becomes(x, "context", [jobs[x] EXCEPT !.at = "running", !.seen = {},
                                                       !.ran = TRUE])
          PROVE  Starts(x, j, k)
      <3>1. j.at = "context" /\ k.at = "running"
        BY <2>2 DEF Durable!TypeOK, Durable!JobStates, Durable!Becomes
      <3> QED
        BY <2>2, <3>1 DEF Starts
    <2>3. ASSUME Durable!Becomes(x, "context", [Durable!JobOver(x) EXCEPT !.at = "raised"])
          PROVE  Leaves(j, k)
      BY <2>3 DEF Durable!TypeOK, Durable!JobStates, Durable!Becomes, Durable!JobOver, Leaves
    <2> QED
      BY <2>1, <2>2, <2>3 DEF Durable!ReadContext
  <1>3. Durable!HandlerEnds(x) => Returns(j, k)
    <2>1. ASSUME NEW outcome \in {"completed", "failed"},
                 Durable!Becomes(x, "running", [jobs[x] EXCEPT !.at = "put", !.outcome = outcome])
          PROVE  Returns(j, k)
      BY <2>1 DEF Durable!TypeOK, Durable!JobStates, Durable!Becomes, Returns
    <2> QED
      BY <2>1 DEF Durable!HandlerEnds
  <1>4. Durable!CheckNode(x) => Finds(x, j, k) \/ Leaves(j, k)
    <2>1. ASSUME records[x[1]] = "none", Durable!Becomes(x, "put", [jobs[x] EXCEPT !.at = "write"])
          PROVE  Finds(x, j, k)
      BY <2>1 DEF Durable!TypeOK, Durable!JobStates, Durable!Becomes, Finds
    <2>2. ASSUME Durable!Becomes(x, "put", [jobs[x] EXCEPT !.at = "notify", !.outcome = "none"])
          PROVE  Leaves(j, k)
      BY <2>2 DEF Durable!TypeOK, Durable!JobStates, Durable!Becomes, Leaves
    <2> QED
      BY <2>1, <2>2 DEF Durable!CheckNode
  <1>5. Durable!WriteNode(x) => Leaves(j, k)
    BY DEF Durable!WriteNode, Durable!TypeOK, Durable!JobStates, Durable!Becomes, Leaves
  <1>6. Durable!Notify(x) \/ Durable!NotifyRaises(x) => Leaves(j, k)
    BY DEF Durable!Notify, Durable!NotifyRaises, Durable!TypeOK, Durable!JobStates, Durable!Becomes,
        Durable!JobOver, Leaves
  <1>7. Durable!JobCrash(x) => Leaves(j, k)
    BY DEF Durable!JobCrash, Durable!TypeOK, Durable!JobStates, Durable!JobOver, Leaves
  <1>8. Moves(x)
    <2> HIDE DEF j, k
    <2>1. Checks(x, j, k) \/ SkipsOver(j, k) \/ Starts(x, j, k) \/ Returns(j, k)
          \/ Finds(x, j, k) \/ Leaves(j, k)
      BY <1>1, <1>2, <1>3, <1>4, <1>5, <1>6, <1>7 DEF Durable!JobStep
    <2> QED
      BY <2>1 DEF Moves, j, k
  <1>9. \A y \in Durable!Jobs \ {x} : jobs'[y] = jobs[y]
    BY DEF Durable!JobStep, Durable!JobCrash, Durable!ReadNode, Durable!ReadContext,
        Durable!HandlerEnds, Durable!CheckNode, Durable!WriteNode, Durable!Notify,
           Durable!NotifyRaises, Durable!TypeOK, Durable!Becomes
  <1>10. UNCHANGED <<graph, run, reserved, actors, timedOut>>
    BY DEF Durable!JobStep, Durable!JobCrash
  <1> QED
    BY <1>8, <1>9, <1>10

LEMMA JobNode == ASSUME NEW x \in Durable!Jobs PROVE x[1] \in Nodes
  BY DEF Durable!Jobs

\* Only a node job writes records, and its node's only.
LEMMA RecordsFrame ==
  ASSUME Durable!TypeOK, [Durable!Next]_(Durable!vars)
  PROVE  \/ UNCHANGED records
         \/ \E x \in Durable!Jobs : Durable!WriteNode(x) /\ Durable!JobStep(x)
  <1>1. CASE Durable!Start
    BY <1>1 DEF Durable!Start, Durable!CreateRun, Durable!EnqueueAdvance, Durable!EnqueueWatch,
        Durable!StartAborts
  <1>2. ASSUME NEW a \in Durable!Actors, Durable!ActorStep(a) \/ Durable!ActorCrash(a)
        PROVE  UNCHANGED records
    BY <1>2 DEF Durable!ActorStep, Durable!ActorCrash, Durable!CheckAge, Durable!ReadRun,
        Durable!ReadNodes, Durable!EnqueueNode, Durable!CountNodes,
                Durable!ReadStatus, Durable!WriteStatus, Durable!ResetIdentity
  <1>3. ASSUME NEW x \in Durable!Jobs, Durable!JobStep(x) \/ Durable!JobCrash(x)
        PROVE  UNCHANGED records \/ (Durable!WriteNode(x) /\ Durable!JobStep(x))
    BY <1>3 DEF Durable!JobStep, Durable!JobCrash
  <1>4. CASE Durable!Tick \/ Durable!Lapse \/ UNCHANGED Durable!vars
    BY <1>4 DEF Durable!Tick, Durable!Lapse, Durable!vars
  <1> QED
    BY <1>1, <1>2, <1>3, <1>4 DEF Durable!Next

LEMMA GraphFrame == ASSUME [Durable!Next]_(Durable!vars) PROVE graph' = graph
  <1>1. CASE Durable!Start
    BY <1>1 DEF Durable!Start, Durable!CreateRun, Durable!EnqueueAdvance, Durable!EnqueueWatch,
        Durable!StartAborts
  <1>2. ASSUME NEW a \in Durable!Actors, Durable!ActorStep(a) \/ Durable!ActorCrash(a)
        PROVE  graph' = graph
    BY <1>2 DEF Durable!ActorStep, Durable!ActorCrash, Durable!CheckAge, Durable!ReadRun,
        Durable!ReadNodes, Durable!EnqueueNode, Durable!CountNodes,
                Durable!ReadStatus, Durable!WriteStatus, Durable!ResetIdentity
  <1>3. ASSUME NEW x \in Durable!Jobs, Durable!JobStep(x) \/ Durable!JobCrash(x)
        PROVE  graph' = graph
    BY <1>3 DEF Durable!JobStep, Durable!JobCrash
  <1>4. CASE Durable!Tick \/ Durable!Lapse \/ UNCHANGED Durable!vars
    BY <1>4 DEF Durable!Tick, Durable!Lapse, Durable!vars
  <1> QED
    BY <1>1, <1>2, <1>3, <1>4 DEF Durable!Next

\* What is recorded stays recorded.
LEMMA RecordedGrows ==
  ASSUME Durable!TypeOK, Base, [Durable!Next]_(Durable!vars)
  PROVE  Durable!Recorded \subseteq Durable!Recorded'
  <1>1. CASE UNCHANGED records
    BY <1>1 DEF Durable!Recorded
  <1>2. ASSUME NEW x \in Durable!Jobs, Durable!WriteNode(x)
        PROVE  Durable!Recorded \subseteq Durable!Recorded'
    <2>1. jobs[x].at = "write" /\ jobs[x].outcome # "none" /\ x[1] \in Nodes
      BY <1>2, JobNode DEF Durable!WriteNode, Durable!Becomes, Base, JobBase
    <2> QED
      BY <1>2, <2>1 DEF Durable!WriteNode, Durable!Recorded, Durable!TypeOK
  <1> QED
    BY <1>1, <1>2, RecordsFrame

-----------------------------------------------------------------------------
(* The unconditional part of the invariant *)

LEMMA JobsBase ==
  ASSUME Durable!TypeOK, Base, [Durable!Next]_(Durable!vars), NEW y \in Durable!Jobs
  PROVE  JobBase(y)'
  <1> USE GraphFrame, RecordedGrows
  <1>0. JobBase(y)
    BY DEF Base
  <1>1. ASSUME jobs'[y] = jobs[y] PROVE JobBase(y)'
    BY <1>0, <1>1 DEF JobBase
  <1>2. ASSUME NEW a \in Durable!Actors, Durable!EnqueueNode(a) PROVE JobBase(y)'
    <2>1. PICK n \in actors[a].todo :
            /\ actors[a].at = "enqueue"
            /\ \/ UNCHANGED jobs
               \/ \E i \in 1..MaxJobs : /\ jobs[<<n, i>>].at = "free"
                                        /\ jobs' = [jobs EXCEPT ![<<n, i>>].at = "pending"]
      BY <1>2 DEF Durable!EnqueueNode, Durable!Goes
    <2>2. n \in Nodes /\ graph[n] \subseteq Durable!Recorded
      BY <2>1 DEF Durable!TypeOK, Durable!ActorStates, Base, ActorBase
    <2>3. ASSUME NEW i \in 1..MaxJobs, jobs[<<n, i>>].at = "free",
                 jobs' = [jobs EXCEPT ![<<n, i>>].at = "pending"], y = <<n, i>>
          PROVE  JobBase(y)'
      <3>1. jobs'[y] = [jobs[y] EXCEPT !.at = "pending"]
        BY <2>3 DEF Durable!TypeOK
      <3>2. jobs'[y].at = "pending" /\ y[1] = n
        BY <2>3, <3>1 DEF Durable!TypeOK, Durable!JobStates
      <3> QED
        BY <2>2, <3>2 DEF JobBase
    <2>4. ASSUME NEW i \in 1..MaxJobs,
                 jobs' = [jobs EXCEPT ![<<n, i>>].at = "pending"], y # <<n, i>>
          PROVE  JobBase(y)'
      BY <1>1, <2>4 DEF Durable!TypeOK
    <2> QED
      BY <1>1, <2>1, <2>3, <2>4
  <1>3. ASSUME NEW a \in Durable!Actors, Durable!ActorStep(a) \/ Durable!ActorCrash(a)
        PROVE  JobBase(y)'
    BY <1>1, <1>2, <1>3 DEF Durable!ActorStep, Durable!ActorCrash, Durable!CheckAge, Durable!ReadRun,
        Durable!ReadNodes, Durable!CountNodes,
         Durable!ReadStatus, Durable!WriteStatus, Durable!ResetIdentity
  <1>4. ASSUME Durable!JobStep(y) \/ Durable!JobCrash(y) PROVE JobBase(y)'
    <2>1. Moves(y)
      BY <1>4, JobMoves
    <2> QED
      BY <1>0, <2>1 DEF Moves, Checks, SkipsOver, Starts, Returns, Finds, Leaves, JobBase
  <1>5. ASSUME NEW x \in Durable!Jobs, x # y, Durable!JobStep(x) \/ Durable!JobCrash(x)
        PROVE  JobBase(y)'
    BY <1>1, <1>5, JobMoves
  <1>6. CASE Durable!Start \/ Durable!Tick \/ Durable!Lapse \/ UNCHANGED Durable!vars
    BY <1>1, <1>6 DEF Durable!Start, Durable!CreateRun, Durable!EnqueueAdvance, Durable!EnqueueWatch,
        Durable!StartAborts, Durable!Tick, Durable!Lapse, Durable!vars
  <1> QED
    BY <1>3, <1>4, <1>5, <1>6 DEF Durable!Next

LEMMA ActorsBase ==
  ASSUME Durable!TypeOK, Base, [Durable!Next]_(Durable!vars), NEW b \in Durable!Actors
  PROVE  ActorBase(b)'
  <1>0. /\ ActorBase(b) /\ graph' = graph
        /\ Durable!Recorded \subseteq Durable!Recorded' /\ Durable!Recorded \subseteq Nodes
    BY GraphFrame, RecordedGrows DEF Base, Durable!Recorded
  <1>1. ASSUME actors'[b] = actors[b] PROVE ActorBase(b)'
    BY <1>0, <1>1 DEF ActorBase
  <1>2. ASSUME actors'[b].at \notin {"nodes", "enqueue"} PROVE ActorBase(b)'
    BY <1>2 DEF ActorBase
  <1>3. ASSUME NEW a \in Durable!Actors, Durable!ActorStep(a) \/ Durable!ActorCrash(a)
        PROVE  ActorBase(b)'
    <2>1. CASE a # b
      BY <1>1, <1>3, <2>1 DEF Durable!ActorStep, Durable!ActorCrash, Durable!CheckAge, Durable!ReadRun,
          Durable!ReadNodes, Durable!EnqueueNode,
           Durable!CountNodes, Durable!ReadStatus, Durable!WriteStatus, Durable!ResetIdentity,
           Durable!Goes, Durable!TypeOK
    <2>2. CASE a = b
      <3>1. CASE Durable!ReadRun(b)
        <4>1. \/ actors'[b].at \notin {"nodes", "enqueue"}
              \/ actors'[b].at = "nodes" /\ actors'[b].seen = Durable!Recorded
          BY <3>1 DEF Durable!ReadRun, Durable!Goes, Durable!TypeOK, Durable!Idle, Durable!Over
        <4> QED
          BY <1>0, <1>2, <4>1 DEF ActorBase
      <3>2. CASE Durable!ReadNodes(b)
        <4>1. PICK nodes \in SUBSET Durable!Recorded :
                Durable!Goes(b, "nodes", [Durable!Idle EXCEPT !.at = "enqueue", !.todo = Durable!Ready(nodes),
                                              !.seen = IF nodes = Nodes THEN Nodes ELSE {}])
          BY <3>2 DEF Durable!ReadNodes
        <4>2. /\ actors'[b].todo = Durable!Ready(nodes)
              /\ actors'[b].seen = IF nodes = Nodes THEN Nodes ELSE {}
          BY <4>1 DEF Durable!Goes, Durable!TypeOK, Durable!Idle
        <4>3. actors'[b].seen \subseteq Durable!Recorded
          BY <1>0, <4>2
        <4>4. \A n \in actors'[b].todo : graph[n] \subseteq Durable!Recorded
          BY <4>2 DEF Durable!Ready
        <4> QED
          BY <1>0, <4>3, <4>4 DEF ActorBase
      <3>3. CASE Durable!EnqueueNode(b)
        <4>1. PICK n : Durable!Goes(b, "enqueue", [actors[b] EXCEPT !.todo = @ \ {n}])
          BY <3>3 DEF Durable!EnqueueNode
        <4>2. /\ actors[b].at = "enqueue"
              /\ actors'[b].seen = actors[b].seen /\ actors'[b].todo \subseteq actors[b].todo
          BY <4>1 DEF Durable!Goes, Durable!TypeOK, Durable!ActorStates
        <4> QED
          BY <1>0, <4>2 DEF ActorBase
      <3>4. CASE Durable!Watch = b /\ Durable!CheckAge
        BY <1>2, <3>4 DEF Durable!CheckAge, Durable!Goes, Durable!TypeOK, Durable!Idle, Durable!Over
      <3>5. CASE Durable!CountNodes(b)
        <4>1. ASSUME Durable!Goes(b, "enqueue", [Durable!Idle EXCEPT !.at = "status", !.verdict = Durable!Verdict])
              PROVE  actors'[b].at = "status"
          BY <4>1 DEF Durable!Goes, Durable!TypeOK, Durable!Idle
        <4>2. ASSUME Durable!Goes(b, "enqueue", Durable!Idle)
              PROVE  actors'[b].at = "idle"
          BY <4>2 DEF Durable!Goes, Durable!TypeOK, Durable!Idle
        <4> QED
          BY <1>2, <3>5, <4>1, <4>2 DEF Durable!CountNodes
      <3>6. CASE Durable!ReadStatus(b)
        <4>1. ASSUME Durable!Goes(b, "status", [actors[b] EXCEPT !.at = "write"])
              PROVE  actors'[b].at = "write"
          BY <4>1 DEF Durable!Goes, Durable!TypeOK, Durable!ActorStates
        <4>2. ASSUME Durable!Goes(b, "status", [Durable!Idle EXCEPT !.at = "reset"])
              PROVE  actors'[b].at = "reset"
          BY <4>2 DEF Durable!Goes, Durable!TypeOK, Durable!Idle
        <4>3. ASSUME Durable!Goes(b, "status", Durable!Over(b))
              PROVE  actors'[b].at \in {"off", "idle"}
          BY <4>3 DEF Durable!Goes, Durable!TypeOK, Durable!Over, Durable!Idle
        <4>4. CASE run = "running"
          BY <1>2, <3>6, <4>1, <4>4 DEF Durable!ReadStatus, Durable!Terminal
        <4>5. CASE run \in Durable!Terminal
          BY <1>2, <3>6, <4>2, <4>5 DEF Durable!ReadStatus, Durable!Terminal
        <4>6. CASE run # "running" /\ run \notin Durable!Terminal
          BY <1>2, <3>6, <4>3, <4>6 DEF Durable!ReadStatus
        <4> QED
          BY <4>4, <4>5, <4>6
      <3>7. CASE Durable!WriteStatus(b) \/ Durable!ResetIdentity(b) \/ Durable!ActorCrash(b)
        BY <1>2, <3>7 DEF Durable!WriteStatus, Durable!ResetIdentity, Durable!ActorCrash, Durable!Goes,
            Durable!TypeOK, Durable!Idle, Durable!Over
      <3> QED
        BY <1>3, <2>2, <3>1, <3>2, <3>3, <3>4, <3>5, <3>6, <3>7 DEF Durable!ActorStep
    <2> QED
      BY <2>1, <2>2
  <1>4. ASSUME NEW x \in Durable!Jobs, Durable!JobStep(x) \/ Durable!JobCrash(x) PROVE ActorBase(b)'
    BY <1>1, <1>4, JobMoves
  <1>5. CASE Durable!EnqueueWatch
    <2>1. \/ actors'[b] = actors[b]
          \/ actors'[b].at = "idle"
      BY <1>5 DEF Durable!EnqueueWatch, Durable!TypeOK, Durable!ActorStates
    <2> QED
      BY <1>1, <1>2, <2>1
  <1>6. CASE Durable!CreateRun \/ Durable!EnqueueAdvance \/ Durable!StartAborts \/ Durable!Tick
             \/ Durable!Lapse \/ UNCHANGED Durable!vars
    BY <1>1, <1>6 DEF Durable!CreateRun, Durable!EnqueueAdvance, Durable!StartAborts, Durable!Tick,
        Durable!Lapse, Durable!vars
  <1> QED
    BY <1>3, <1>4, <1>5, <1>6 DEF Durable!Next, Durable!Start

LEMMA BaseStep == Durable!TypeOK /\ Base /\ [Durable!Next]_(Durable!vars) => Base'
  <1> SUFFICES ASSUME Durable!TypeOK, Base, [Durable!Next]_(Durable!vars) PROVE Base'
    OBVIOUS
  <1>1. \A x \in Durable!Jobs : JobBase(x)'
    BY JobsBase
  <1>2. \A a \in Durable!Actors : ActorBase(a)'
    BY ActorsBase
  <1> QED
    BY <1>1, <1>2 DEF Base

-----------------------------------------------------------------------------
(* The part that holds until the run times out *)

\* A record is never replaced.
LEMMA RecordsStay ==
  ASSUME Durable!TypeOK, Base, Steady, [Durable!Next]_(Durable!vars)
  PROVE  \A n \in Nodes : records[n] # "none" => records'[n] = records[n]
  <1>1. ASSUME NEW x \in Durable!Jobs, Durable!WriteNode(x)
        PROVE  \A n \in Nodes : records[n] # "none" => records'[n] = records[n]
    <2>1. records[x[1]] = "none"
      BY <1>1 DEF Durable!WriteNode, Durable!Becomes, Steady, JobSteady
    <2> QED
      BY <1>1, <2>1 DEF Durable!WriteNode, Durable!TypeOK
  <1> QED
    BY <1>1, RecordsFrame

\* Neither are the upstream of a node, once it is completed, and the verdict, once every
\* node is recorded.
LEMMA UpstreamStays ==
  ASSUME Durable!TypeOK, Base, Steady, [Durable!Next]_(Durable!vars), NEW n \in Nodes, Upstream(n)
  PROVE  Upstream(n)'
  <1>1. graph[n] \subseteq Nodes
    BY DEF Durable!TypeOK
  <1> QED
    BY <1>1, RecordsStay, GraphFrame DEF Upstream

LEMMA VerdictStays ==
  ASSUME Durable!TypeOK, Base, Steady, [Durable!Next]_(Durable!vars), Durable!Recorded = Nodes
  PROVE  Durable!Recorded' = Nodes /\ Durable!Verdict' = Durable!Verdict
  <1>1. \A n \in Nodes : records'[n] = records[n] /\ records[n] # "none"
    BY RecordsStay DEF Durable!Recorded
  <1> QED
    BY <1>1 DEF Durable!Recorded, Durable!Verdict

\* A step on one job is a step of that job or the enqueue of its node.
LEMMA JobsFrame ==
  ASSUME Durable!TypeOK, [Durable!Next]_(Durable!vars)
  PROVE  \/ UNCHANGED jobs
         \/ \E a \in Durable!Actors : Durable!EnqueueNode(a)
         \/ \E x \in Durable!Jobs : Durable!JobStep(x) \/ Durable!JobCrash(x)
  <1>1. CASE Durable!Start \/ Durable!Tick \/ Durable!Lapse \/ UNCHANGED Durable!vars
    BY <1>1 DEF Durable!Start, Durable!CreateRun, Durable!EnqueueAdvance, Durable!EnqueueWatch,
        Durable!StartAborts, Durable!Tick, Durable!Lapse, Durable!vars
  <1>2. ASSUME NEW a \in Durable!Actors, Durable!ActorStep(a) \/ Durable!ActorCrash(a)
        PROVE  UNCHANGED jobs \/ Durable!EnqueueNode(a)
    BY <1>2 DEF Durable!ActorStep, Durable!ActorCrash, Durable!CheckAge, Durable!ReadRun,
        Durable!ReadNodes, Durable!CountNodes, Durable!ReadStatus,
                Durable!WriteStatus, Durable!ResetIdentity
  <1> QED
    BY <1>1, <1>2 DEF Durable!Next

\* What an enqueue does: nothing, or a first job for a node whose key is free.
LEMMA Enqueues ==
  ASSUME Durable!TypeOK, Base, NEW a \in Durable!Actors, Durable!EnqueueNode(a)
  PROVE  /\ UNCHANGED records
         /\ \/ UNCHANGED <<jobs, reserved>>
            \/ \E z \in Durable!Jobs :
                 /\ z[1] \notin reserved /\ reserved' = reserved \union {z[1]}
                 /\ jobs[z].at = "free"
                 /\ jobs'[z].at = "pending" /\ jobs'[z].ran = FALSE
                 /\ \A y \in Durable!Jobs \ {z} : jobs'[y] = jobs[y]
  <1>1. PICK n \in actors[a].todo :
          \/ UNCHANGED <<jobs, reserved>>
          \/ /\ Durable!Fresh(n)
             /\ \E i \in 1..MaxJobs :
                  /\ jobs[<<n, i>>].at = "free"
                  /\ jobs' = [jobs EXCEPT ![<<n, i>>].at = "pending"]
             /\ reserved' = reserved \union {n}
    BY DEF Durable!EnqueueNode
  <1>2. n \in Nodes
    BY DEF Durable!TypeOK, Durable!ActorStates
  <1>3. ASSUME Durable!Fresh(n), NEW i \in 1..MaxJobs, jobs[<<n, i>>].at = "free",
               jobs' = [jobs EXCEPT ![<<n, i>>].at = "pending"], reserved' = reserved \union {n}
        PROVE  \E z \in Durable!Jobs :
                 /\ z[1] \notin reserved /\ reserved' = reserved \union {z[1]}
                 /\ jobs[z].at = "free"
                 /\ jobs'[z].at = "pending" /\ jobs'[z].ran = FALSE
                 /\ \A y \in Durable!Jobs \ {z} : jobs'[y] = jobs[y]
    <2> DEFINE z == <<n, i>>
    <2>1. z \in Durable!Jobs /\ z[1] = n
      BY <1>2 DEF Durable!Jobs
    <2> HIDE DEF z
    <2>2. jobs' = [jobs EXCEPT ![z].at = "pending"] /\ jobs[z].at = "free"
      BY <1>3 DEF z
    <2>3. /\ jobs'[z].at = "pending" /\ jobs'[z].ran = jobs[z].ran
          /\ \A y \in Durable!Jobs \ {z} : jobs'[y] = jobs[y]
      BY <2>1, <2>2 DEF Durable!TypeOK, Durable!JobStates
    <2>4. jobs[z].ran = FALSE
      BY <2>1, <2>2 DEF Base, JobBase, Durable!TypeOK, Durable!JobStates
    <2> QED
      BY <1>3, <2>1, <2>2, <2>3, <2>4 DEF Durable!Fresh
  <1>4. UNCHANGED records
    BY DEF Durable!EnqueueNode
  <1> QED
    BY <1>1, <1>3, <1>4

LEMMA JobsSteady ==
  ASSUME Durable!TypeOK, Base, Steady, [Durable!Next]_(Durable!vars), NEW y \in Durable!Jobs
  PROVE  JobSteady(y)'
  <1>0. /\ JobSteady(y) /\ JobBase(y) /\ y[1] \in Nodes
        /\ graph' = graph /\ Durable!Recorded \subseteq Durable!Recorded'
        /\ records[y[1]] # "none" => records'[y[1]] # "none"
    BY JobNode, GraphFrame, RecordedGrows, RecordsStay DEF Steady, Base
  <1>1. Upstream(y[1]) => Upstream(y[1])'
    BY <1>0, UpstreamStays
  <1>2. jobs'[y].at # "free" => y[1] \in reserved' \/ records'[y[1]] # "none"
    <2>1. ASSUME NEW a \in Durable!Actors, Durable!EnqueueNode(a)
          PROVE  jobs'[y].at # "free" => y[1] \in reserved' \/ records'[y[1]] # "none"
      <3>1. CASE UNCHANGED <<jobs, reserved>>
        BY <1>0, <3>1 DEF JobSteady
      <3>2. ASSUME NEW z \in Durable!Jobs, reserved' = reserved \union {z[1]},
                   \A w \in Durable!Jobs \ {z} : jobs'[w] = jobs[w]
            PROVE  jobs'[y].at # "free" => y[1] \in reserved' \/ records'[y[1]] # "none"
        <4>1. CASE y = z
          BY <3>2, <4>1
        <4>2. CASE y # z
          BY <1>0, <3>2, <4>2 DEF JobSteady
        <4> QED
          BY <4>1, <4>2
      <3> QED
        BY <2>1, <3>1, <3>2, Enqueues
    <2>2. ASSUME NEW a \in Durable!Actors, Durable!ResetIdentity(a)
          PROVE  jobs'[y].at # "free" => y[1] \in reserved' \/ records'[y[1]] # "none"
      <3>1. actors[a].at = "reset"
        BY <2>2 DEF Durable!ResetIdentity, Durable!Goes
      <3>2. Durable!Recorded = Nodes
        BY <3>1 DEF Steady, ActorSteady
      <3> QED
        BY <1>0, <3>2 DEF Durable!Recorded
    <2>3. ASSUME NEW x \in Durable!Jobs, Durable!JobStep(x) \/ Durable!JobCrash(x)
          PROVE  jobs'[y].at # "free" => y[1] \in reserved' \/ records'[y[1]] # "none"
      <3>1. reserved' = reserved /\ (jobs'[y].at # "free" => jobs[y].at # "free")
        <4>1. reserved' = reserved
          BY <2>3, JobMoves
        <4>2. CASE x = y
          <5>1. Moves(y)
            BY <2>3, <4>2, JobMoves
          <5> QED
            BY <4>1, <5>1 DEF Moves, Checks, SkipsOver, Starts, Returns, Finds, Leaves
        <4>3. CASE x # y
          BY <2>3, <4>1, <4>3, JobMoves
        <4> QED
          BY <4>2, <4>3
      <3> QED
        BY <1>0, <3>1 DEF JobSteady
    <2>4. CASE UNCHANGED <<jobs, reserved>>
      BY <1>0, <2>4 DEF JobSteady
    <2>5. \/ UNCHANGED <<jobs, reserved>>
          \/ \E a \in Durable!Actors : Durable!EnqueueNode(a) \/ Durable!ResetIdentity(a)
          \/ \E x \in Durable!Jobs : Durable!JobStep(x) \/ Durable!JobCrash(x)
      <3>1. CASE Durable!Start \/ Durable!Tick \/ Durable!Lapse \/ UNCHANGED Durable!vars
        BY <3>1 DEF Durable!Start, Durable!CreateRun, Durable!EnqueueAdvance, Durable!EnqueueWatch,
            Durable!StartAborts, Durable!Tick, Durable!Lapse, Durable!vars
      <3>2. ASSUME NEW a \in Durable!Actors, Durable!ActorStep(a) \/ Durable!ActorCrash(a)
            PROVE  UNCHANGED <<jobs, reserved>> \/ Durable!EnqueueNode(a) \/ Durable!ResetIdentity(a)
        BY <3>2 DEF Durable!ActorStep, Durable!ActorCrash, Durable!CheckAge, Durable!ReadRun,
            Durable!ReadNodes, Durable!CountNodes, Durable!ReadStatus,
                    Durable!WriteStatus
      <3> QED
        BY <3>1, <3>2 DEF Durable!Next
    <2> QED
      BY <2>1, <2>2, <2>3, <2>4, <2>5
  <1>3. jobs'[y].at = "write" => records'[y[1]] = "none"
    <2> SUFFICES ASSUME jobs'[y].at = "write" PROVE records'[y[1]] = "none"
      OBVIOUS
    <2>1. CASE jobs'[y] = jobs[y]
      <3>1. CASE UNCHANGED records
        BY <1>0, <2>1, <3>1 DEF JobSteady
      <3>2. ASSUME NEW x \in Durable!Jobs, Durable!WriteNode(x) PROVE records'[y[1]] = "none"
        <4>1. x # y
          <5>1. ASSUME x = y PROVE jobs'[y].at = "notify"
            BY <3>2, <5>1 DEF Durable!WriteNode, Durable!Becomes, Durable!TypeOK, Durable!JobStates
          <5> QED
            BY <5>1
        <4>2. Past(x) /\ Past(y)
          BY <2>1, <3>2 DEF Durable!WriteNode, Durable!Becomes, Past
        <4>3. x[1] # y[1]
          BY <4>1, <4>2 DEF Steady, Sole
        <4> QED
          BY <1>0, <2>1, <3>2, <4>3 DEF Durable!WriteNode, Durable!TypeOK, JobSteady
      <3> QED
        BY <3>1, <3>2, RecordsFrame
    <2>2. CASE jobs'[y] # jobs[y]
      <3>1. ASSUME NEW a \in Durable!Actors, Durable!EnqueueNode(a) PROVE FALSE
        BY <2>2, <3>1, Enqueues
      <3>2. ASSUME NEW x \in Durable!Jobs, Durable!JobStep(x) \/ Durable!JobCrash(x)
            PROVE  records'[y[1]] = "none"
        <4>1. x = y
          BY <2>2, <3>2, JobMoves
        <4>2. Finds(y, jobs[y], jobs'[y])
          BY <3>2, <4>1, JobMoves DEF Moves, Checks, SkipsOver, Starts, Returns, Leaves
        <4>3. UNCHANGED records
          BY <3>2, <4>1, <4>2 DEF Durable!JobStep, Durable!JobCrash, Durable!WriteNode,
              Durable!Becomes, Finds
        <4> QED
          BY <4>2, <4>3 DEF Finds
      <3> QED
        BY <2>2, <3>1, <3>2, JobsFrame
    <2> QED
      BY <2>1, <2>2
  <1>4. ASSUME \/ jobs'[y].at = "running"
               \/ jobs'[y].at \in {"put", "write"} /\ jobs'[y].outcome = "completed"
        PROVE  Upstream(y[1])'
    <2>1. CASE jobs'[y] = jobs[y]
      BY <1>0, <1>1, <1>4, <2>1 DEF JobSteady
    <2>2. CASE jobs'[y] # jobs[y]
      <3>1. ASSUME NEW a \in Durable!Actors, Durable!EnqueueNode(a) PROVE FALSE
        BY <1>4, <2>2, <3>1, Enqueues
      <3>2. ASSUME NEW x \in Durable!Jobs, Durable!JobStep(x) \/ Durable!JobCrash(x)
            PROVE  Upstream(y[1])
        <4>1. x = y
          BY <2>2, <3>2, JobMoves
        <4>2. Starts(y, jobs[y], jobs'[y]) \/ Returns(jobs[y], jobs'[y])
              \/ Finds(y, jobs[y], jobs'[y])
          BY <1>4, <3>2, <4>1, JobMoves DEF Moves, Checks, SkipsOver, Leaves
        <4>3. CASE Starts(y, jobs[y], jobs'[y])
          <5>1. PICK nodes \in SUBSET (Durable!Recorded \intersect graph[y[1]]) :
                  jobs[y].at = "context" /\ jobs[y].seen \subseteq nodes /\ ~Durable!Skips(nodes)
            BY <4>3 DEF Starts
          <5>2. nodes = graph[y[1]]
            BY <1>0, <5>1 DEF JobBase
          <5> QED
            BY <5>1, <5>2 DEF Durable!Skips, Upstream
        <4>4. CASE Returns(jobs[y], jobs'[y])
          BY <1>0, <4>4 DEF Returns, JobSteady
        <4>5. CASE Finds(y, jobs[y], jobs'[y])
          BY <1>0, <1>4, <4>5 DEF Finds, JobSteady
        <4> QED
          BY <4>2, <4>3, <4>4, <4>5
      <3> QED
        BY <1>1, <2>2, <3>1, <3>2, JobsFrame
    <2> QED
      BY <2>1, <2>2
  <1> QED
    BY <1>2, <1>3, <1>4 DEF JobSteady

\* What a step of a node job leaves of it.
LEMMA JobKeeps ==
  ASSUME Durable!TypeOK, Base, NEW x \in Durable!Jobs, Durable!JobStep(x) \/ Durable!JobCrash(x)
  PROVE  /\ jobs[x].at # "free"
         /\ Past(x)' => Past(x) \/ (jobs[x].at = "pending" /\ records[x[1]] = "none")
  <1>1. Moves(x) /\ jobs[x].ran \in BOOLEAN
    BY JobMoves DEF Durable!TypeOK, Durable!JobStates
  <1> QED
    BY <1>1 DEF Moves, Checks, SkipsOver, Starts, Returns, Finds, Leaves, Past

LEMMA JobsSole ==
  ASSUME Durable!TypeOK, Base, Steady, [Durable!Next]_(Durable!vars), NEW x \in Durable!Jobs,
         NEW y \in Durable!Jobs
  PROVE  Sole(x, y)'
  <1>0. /\ x[1] \in Nodes /\ Sole(x, y) /\ JobSteady(x) /\ JobSteady(y)
        /\ JobBase(x) /\ JobBase(y)
        /\ records'[x[1]] = "none" => records[x[1]] = "none"
    BY JobNode, RecordedGrows DEF Steady, Base, Durable!Recorded
  <1> SUFFICES ASSUME x[1] = y[1], x # y
               PROVE  /\ ~(Past(x)' /\ Past(y)')
                      /\ ~(/\ jobs'[x].at # "free" /\ jobs'[y].at # "free"
                           /\ records'[x[1]] = "none")
    BY DEF Sole
  <1>1. CASE UNCHANGED jobs
    BY <1>0, <1>1 DEF Sole, Past
  <1>2. ASSUME NEW a \in Durable!Actors, Durable!EnqueueNode(a), ~UNCHANGED jobs
        PROVE  /\ ~(Past(x)' /\ Past(y)')
               /\ ~(/\ jobs'[x].at # "free" /\ jobs'[y].at # "free" /\ records'[x[1]] = "none")
    <2>1. PICK z \in Durable!Jobs : /\ z[1] \notin reserved
                            /\ jobs'[z].at = "pending" /\ jobs'[z].ran = FALSE
                            /\ \A w \in Durable!Jobs \ {z} : jobs'[w] = jobs[w]
      BY <1>2, Enqueues
    <2>2. UNCHANGED records
      BY <1>2, Enqueues
    <2>3. ~Past(z)'
      BY <2>1 DEF Past
    <2>4. CASE z = x
      BY <1>0, <2>1, <2>2, <2>3, <2>4 DEF JobSteady
    <2>5. CASE z = y
      BY <1>0, <2>1, <2>2, <2>3, <2>5 DEF JobSteady
    <2>6. CASE z # x /\ z # y
      <3>1. jobs'[x] = jobs[x] /\ jobs'[y] = jobs[y]
        BY <2>1, <2>6
      <3> QED
        BY <1>0, <2>2, <3>1 DEF Sole, Past
    <2> QED
      BY <2>4, <2>5, <2>6
  <1>3. ASSUME NEW z \in Durable!Jobs, Durable!JobStep(z) \/ Durable!JobCrash(z)
        PROVE  /\ ~(Past(x)' /\ Past(y)')
               /\ ~(/\ jobs'[x].at # "free" /\ jobs'[y].at # "free" /\ records'[x[1]] = "none")
    <2>1. /\ jobs[z].at # "free"
          /\ Past(z)' => Past(z) \/ (jobs[z].at = "pending" /\ records[z[1]] = "none")
      BY <1>3, JobKeeps
    <2>2. \A w \in Durable!Jobs \ {z} : jobs'[w] = jobs[w]
      BY <1>3, JobMoves
    <2>3. \A w \in Durable!Jobs : jobs'[w].at # "free" => jobs[w].at # "free"
      BY <2>1, <2>2
    <2>4. \A w \in Durable!Jobs \ {z} : Past(w)' => Past(w)
      BY <2>2 DEF Past
    <2>5. \A w \in {x, y} : Past(w) => jobs[w].at # "free"
      BY <1>0 DEF Past, JobBase
    <2>6. ~(Past(x)' /\ Past(y)')
      <3> SUFFICES ASSUME Past(x)', Past(y)' PROVE FALSE
        OBVIOUS
      <3>1. CASE z # x /\ z # y
        BY <1>0, <2>4, <3>1 DEF Sole
      <3>2. CASE z = x
        BY <1>0, <2>1, <2>4, <2>5, <3>2 DEF Sole
      <3>3. CASE z = y
        BY <1>0, <2>1, <2>4, <2>5, <3>3 DEF Sole
      <3> QED
        BY <3>1, <3>2, <3>3
    <2> QED
      BY <1>0, <2>3, <2>6 DEF Sole
  <1> QED
    BY <1>1, <1>2, <1>3, JobsFrame

LEMMA ActorsSteady ==
  ASSUME Durable!TypeOK, Base, Steady, [Durable!Next]_(Durable!vars), ~timedOut',
         NEW b \in Durable!Actors
  PROVE  ActorSteady(b)'
  <1>0. ActorSteady(b) /\ ActorBase(b)
    BY DEF Steady, Base
  <1>1. ASSUME actors'[b].at \notin {"status", "write", "reset"} PROVE ActorSteady(b)'
    BY <1>1 DEF ActorSteady
  <1>2. ASSUME Durable!Recorded = Nodes,
               actors'[b].at \in {"status", "write"} => actors'[b].verdict = Durable!Verdict
        PROVE  ActorSteady(b)'
    BY <1>2, VerdictStays DEF ActorSteady
  <1>3. ASSUME actors'[b] = actors[b] PROVE ActorSteady(b)'
    BY <1>0, <1>1, <1>2, <1>3 DEF ActorSteady
  <1>4. ASSUME NEW a \in Durable!Actors, Durable!ActorStep(a) \/ Durable!ActorCrash(a)
        PROVE  ActorSteady(b)'
    <2>1. CASE a # b
      BY <1>3, <1>4, <2>1 DEF Durable!ActorStep, Durable!ActorCrash, Durable!CheckAge, Durable!ReadRun,
          Durable!ReadNodes, Durable!EnqueueNode,
           Durable!CountNodes, Durable!ReadStatus, Durable!WriteStatus, Durable!ResetIdentity,
           Durable!Goes, Durable!TypeOK
    <2>2. CASE a = b
      <3>1. CASE Durable!Watch = b /\ Durable!CheckAge
        <4>1. \/ run # "running" /\ Durable!Goes(b, "idle", Durable!Over(b))
              \/ timedOut'
              \/ Durable!Goes(b, "idle", [Durable!Idle EXCEPT !.at = "advance"])
          BY <3>1 DEF Durable!CheckAge
        <4>2. ASSUME Durable!Goes(b, "idle", Durable!Over(b))
              PROVE  actors'[b].at \in {"off", "idle"}
          BY <4>2 DEF Durable!Goes, Durable!TypeOK, Durable!Over, Durable!Idle
        <4>3. ASSUME Durable!Goes(b, "idle", [Durable!Idle EXCEPT !.at = "advance"])
              PROVE  actors'[b].at = "advance"
          BY <4>3 DEF Durable!Goes, Durable!TypeOK, Durable!Idle
        <4> QED
          BY <1>1, <4>1, <4>2, <4>3
      <3>2. CASE Durable!ReadRun(b)
        <4>1. actors'[b].at \in {"nodes", "off", "idle"}
          BY <3>2 DEF Durable!ReadRun, Durable!Goes, Durable!TypeOK, Durable!Idle, Durable!Over
        <4> QED
          BY <1>1, <4>1
      <3>3. CASE Durable!ReadNodes(b)
        <4>1. actors'[b].at = "enqueue"
          BY <3>3 DEF Durable!ReadNodes, Durable!Goes, Durable!TypeOK, Durable!Idle
        <4> QED
          BY <1>1, <4>1
      <3>4. CASE Durable!EnqueueNode(b)
        <4>1. actors'[b].at = "enqueue"
          BY <3>4 DEF Durable!EnqueueNode, Durable!Goes, Durable!TypeOK, Durable!ActorStates
        <4> QED
          BY <1>1, <4>1
      <3>5. CASE Durable!CountNodes(b)
        <4>1. ASSUME actors[b].seen = Nodes,
                     Durable!Goes(b, "enqueue", [Durable!Idle EXCEPT !.at = "status", !.verdict = Durable!Verdict])
              PROVE  ActorSteady(b)'
          <5>1. actors[b].at = "enqueue" /\ actors'[b].verdict = Durable!Verdict
            BY <4>1 DEF Durable!Goes, Durable!TypeOK, Durable!Idle
          <5>2. Durable!Recorded = Nodes
            BY <1>0, <4>1, <5>1 DEF ActorBase, Durable!Recorded
          <5> QED
            BY <1>2, <5>1, <5>2
        <4>2. ASSUME Durable!Goes(b, "enqueue", Durable!Idle) PROVE actors'[b].at = "idle"
          BY <4>2 DEF Durable!Goes, Durable!TypeOK, Durable!Idle
        <4> QED
          BY <1>1, <3>5, <4>1, <4>2 DEF Durable!CountNodes
      <3>6. CASE Durable!ReadStatus(b)
        <4>1. actors[b].at = "status" /\ Durable!Recorded = Nodes /\ actors[b].verdict = Durable!Verdict
          BY <1>0, <3>6 DEF Durable!ReadStatus, Durable!Goes, ActorSteady
        <4>2. ASSUME Durable!Goes(b, "status", [actors[b] EXCEPT !.at = "write"])
              PROVE  actors'[b].verdict = actors[b].verdict
          BY <4>2 DEF Durable!Goes, Durable!TypeOK, Durable!ActorStates
        <4>3. ASSUME Durable!Goes(b, "status", [Durable!Idle EXCEPT !.at = "reset"])
              PROVE  actors'[b].at = "reset"
          BY <4>3 DEF Durable!Goes, Durable!TypeOK, Durable!Idle
        <4>4. ASSUME Durable!Goes(b, "status", Durable!Over(b))
              PROVE  actors'[b].at \in {"off", "idle"}
          BY <4>4 DEF Durable!Goes, Durable!TypeOK, Durable!Over, Durable!Idle
        <4>5. CASE run = "running"
          BY <1>2, <3>6, <4>1, <4>2, <4>5 DEF Durable!ReadStatus, Durable!Terminal
        <4>6. CASE run \in Durable!Terminal
          BY <1>2, <3>6, <4>1, <4>3, <4>6 DEF Durable!ReadStatus, Durable!Terminal
        <4>7. CASE run # "running" /\ run \notin Durable!Terminal
          BY <1>1, <3>6, <4>4, <4>7 DEF Durable!ReadStatus
        <4> QED
          BY <4>5, <4>6, <4>7
      <3>7. CASE Durable!WriteStatus(b)
        <4>1. Durable!Recorded = Nodes
          BY <1>0, <3>7 DEF Durable!WriteStatus, Durable!Goes, ActorSteady
        <4>2. actors'[b].at = "reset"
          BY <3>7 DEF Durable!WriteStatus, Durable!Goes, Durable!TypeOK, Durable!Idle
        <4> QED
          BY <1>2, <4>1, <4>2
      <3>8. CASE Durable!ResetIdentity(b) \/ Durable!ActorCrash(b)
        <4>1. actors'[b].at \in {"off", "idle"}
          BY <3>8 DEF Durable!ResetIdentity, Durable!ActorCrash, Durable!Goes, Durable!TypeOK,
              Durable!Idle, Durable!Over
        <4> QED
          BY <1>1, <4>1
      <3> QED
        BY <1>4, <2>2, <3>1, <3>2, <3>3, <3>4, <3>5, <3>6, <3>7, <3>8 DEF Durable!ActorStep
    <2> QED
      BY <2>1, <2>2
  <1>5. ASSUME NEW x \in Durable!Jobs, Durable!JobStep(x) \/ Durable!JobCrash(x)
        PROVE  ActorSteady(b)'
    BY <1>3, <1>5, JobMoves
  <1>6. CASE Durable!EnqueueWatch
    <2>1. actors'[b] = actors[b] \/ actors'[b].at = "idle"
      BY <1>6 DEF Durable!EnqueueWatch, Durable!TypeOK, Durable!ActorStates
    <2> QED
      BY <1>1, <1>3, <2>1
  <1>7. CASE Durable!CreateRun \/ Durable!EnqueueAdvance \/ Durable!StartAborts \/ Durable!Tick
             \/ Durable!Lapse \/ UNCHANGED Durable!vars
    BY <1>3, <1>7 DEF Durable!CreateRun, Durable!EnqueueAdvance, Durable!StartAborts, Durable!Tick,
        Durable!Lapse, Durable!vars
  <1> QED
    BY <1>4, <1>5, <1>6, <1>7 DEF Durable!Next, Durable!Start

LEMMA RunsSteady ==
  ASSUME Durable!TypeOK, Base, Steady, [Durable!Next]_(Durable!vars)
  PROVE  RunSteady'
  <1>0. RunSteady
    BY DEF Steady
  <1>1. run' \in Durable!Terminal => Durable!Recorded' = Nodes /\ run' = Durable!Verdict'
    <2>1. CASE run' = run
      BY <1>0, <2>1, VerdictStays DEF RunSteady
    <2>2. ASSUME NEW a \in Durable!Actors, Durable!WriteStatus(a)
          PROVE  Durable!Recorded' = Nodes /\ run' = Durable!Verdict'
      <3>1. actors[a].at = "write" /\ run' = actors[a].verdict
        BY <2>2 DEF Durable!WriteStatus, Durable!Goes
      <3> QED
        BY <3>1, VerdictStays DEF Steady, ActorSteady
    <2>3. CASE Durable!CreateRun \/ Durable!Lapse
      BY <2>3 DEF Durable!CreateRun, Durable!Lapse, Durable!Terminal
    <2>4. run' = run \/ (\E a \in Durable!Actors : Durable!WriteStatus(a)) \/ Durable!CreateRun \/ Durable!Lapse
      <3>1. CASE Durable!Start \/ Durable!Tick \/ UNCHANGED Durable!vars
        BY <3>1 DEF Durable!Start, Durable!EnqueueAdvance, Durable!EnqueueWatch, Durable!StartAborts,
            Durable!Tick, Durable!vars
      <3>2. ASSUME NEW a \in Durable!Actors, Durable!ActorStep(a) \/ Durable!ActorCrash(a)
            PROVE  run' = run \/ Durable!WriteStatus(a)
        BY <3>2 DEF Durable!ActorStep, Durable!ActorCrash, Durable!CheckAge, Durable!ReadRun,
            Durable!ReadNodes, Durable!EnqueueNode, Durable!CountNodes,
                    Durable!ReadStatus, Durable!ResetIdentity
      <3>3. ASSUME NEW x \in Durable!Jobs, Durable!JobStep(x) \/ Durable!JobCrash(x)
            PROVE  run' = run
        BY <3>3, JobMoves
      <3> QED
        BY <3>1, <3>2, <3>3 DEF Durable!Next
    <2> QED
      BY <2>1, <2>2, <2>3, <2>4
  <1>2. ASSUME NEW n \in Nodes, records'[n] = "completed" PROVE Upstream(n)'
    <2>1. CASE records[n] = "completed"
      BY <1>0, <2>1, UpstreamStays DEF RunSteady
    <2>2. CASE records[n] # "completed"
      <3>1. PICK x \in Durable!Jobs : Durable!WriteNode(x)
        BY <1>2, <2>2, RecordsFrame
      <3>2. jobs[x].at = "write" /\ x[1] = n /\ jobs[x].outcome = "completed"
        BY <1>2, <2>2, <3>1 DEF Durable!WriteNode, Durable!Becomes, Durable!TypeOK
      <3>3. Upstream(n)
        BY <3>2 DEF Steady, JobSteady
      <3> QED
        BY <3>3, UpstreamStays
    <2> QED
      BY <2>1, <2>2
  <1> QED
    BY <1>1, <1>2 DEF RunSteady

-----------------------------------------------------------------------------
(* The theorems *)

LEMMA TimedOutStays ==
  ASSUME Durable!TypeOK, [Durable!Next]_(Durable!vars), timedOut
  PROVE  timedOut'
  <1>1. CASE Durable!Start \/ Durable!Tick \/ Durable!Lapse \/ UNCHANGED Durable!vars
    BY <1>1 DEF Durable!Start, Durable!CreateRun, Durable!EnqueueAdvance, Durable!EnqueueWatch,
        Durable!StartAborts, Durable!Tick, Durable!Lapse, Durable!vars
  <1>2. ASSUME NEW a \in Durable!Actors, Durable!ActorStep(a) \/ Durable!ActorCrash(a)
        PROVE  timedOut'
    BY <1>2 DEF Durable!ActorStep, Durable!ActorCrash, Durable!CheckAge, Durable!ReadRun,
        Durable!ReadNodes, Durable!EnqueueNode, Durable!CountNodes,
                Durable!ReadStatus, Durable!WriteStatus, Durable!ResetIdentity
  <1>3. ASSUME NEW x \in Durable!Jobs, Durable!JobStep(x) \/ Durable!JobCrash(x) PROVE timedOut'
    BY <1>3, JobMoves
  <1> QED
    BY <1>1, <1>2, <1>3 DEF Durable!Next

LEMMA InvInit == Durable!Init => IInv
  <1> SUFFICES ASSUME Durable!Init PROVE IInv
    OBVIOUS
  <1>1. Durable!TypeOK
    BY TypeInit
  <1>2. /\ \A x \in Durable!Jobs : jobs[x].at = "free" /\ jobs[x].ran = FALSE
        /\ \A a \in Durable!Actors : actors[a].at \in {"off", "idle"}
        /\ \A n \in Nodes : records[n] = "none"
        /\ run = "none"
    BY DEF Durable!Init, Durable!NoJob, Durable!Idle
  <1>3. Base
    BY <1>2 DEF Base, JobBase, ActorBase
  <1>4. Steady
    <2>1. \A x \in Durable!Jobs : JobSteady(x) /\ ~Past(x)
      BY <1>2 DEF JobSteady, Past
    <2>2. \A a \in Durable!Actors : ActorSteady(a)
      BY <1>2 DEF ActorSteady
    <2>3. RunSteady
      BY <1>2 DEF RunSteady, Durable!Terminal
    <2>4. \A x, y \in Durable!Jobs : Sole(x, y)
      BY <1>2, <2>1 DEF Sole
    <2> QED
      BY <2>1, <2>2, <2>3, <2>4 DEF Steady
  <1> QED
    BY <1>1, <1>3, <1>4 DEF IInv

LEMMA InvStep == IInv /\ [Durable!Next]_(Durable!vars) => IInv'
  <1> SUFFICES ASSUME IInv, [Durable!Next]_(Durable!vars) PROVE IInv'
    OBVIOUS
  <1>1. Durable!TypeOK /\ Base /\ (~timedOut => Steady)
    BY DEF IInv
  <1>2. Durable!TypeOK' /\ Base'
    BY <1>1, TypeStep, BaseStep
  <1>3. ASSUME ~timedOut' PROVE Steady'
    <2>1. Steady
      BY <1>1, <1>3, TimedOutStays
    <2>2. \A x \in Durable!Jobs : JobSteady(x)'
      BY <1>1, <2>1, JobsSteady
    <2>3. \A x, y \in Durable!Jobs : Sole(x, y)'
      BY <1>1, <2>1, JobsSole
    <2>4. \A a \in Durable!Actors : ActorSteady(a)'
      BY <1>1, <1>3, <2>1, ActorsSteady
    <2>5. RunSteady'
      BY <1>1, <2>1, RunsSteady
    <2> QED
      BY <2>2, <2>3, <2>4, <2>5 DEF Steady
  <1> QED
    BY <1>2, <1>3 DEF IInv

LEMMA Invariance == Durable!Spec => []IInv
  BY InvInit, InvStep, PTL DEF Durable!Spec

LEMMA OnceByInv == IInv => Durable!NodeRunsOnce
<1> SUFFICES ASSUME IInv, ~timedOut, NEW n \in Nodes
             PROVE  Cardinality({i \in 1..MaxJobs : jobs[<<n, i>>].ran}) <= 1
  BY SameSets DEF Durable!NodeRunsOnce
<1> DEFINE ran == {i \in 1..MaxJobs : jobs[<<n, i>>].ran}
<1>1. \A i, k \in ran : i = k
  <2> SUFFICES ASSUME NEW i \in ran, NEW k \in ran PROVE i = k
    OBVIOUS
  <2>1. <<n, i>> \in Durable!Jobs /\ <<n, k>> \in Durable!Jobs
    BY DEF Durable!Jobs
  <2>2. Past(<<n, i>>) /\ Past(<<n, k>>)
    BY DEF Past
  <2>3. Sole(<<n, i>>, <<n, k>>)
    BY <2>1 DEF IInv, Steady
  <2>4. <<n, i>> = <<n, k>>
    BY <2>2, <2>3 DEF Sole
  <2> QED
    BY <2>4
<1> HIDE DEF ran
<1>2. CASE ran = {}
  <2>1. Cardinality(ran) = 0
    BY <1>2, FS_EmptySet
  <2> QED
    BY <2>1 DEF ran
<1>3. ASSUME NEW i \in ran PROVE Cardinality(ran) <= 1
  <2>1. ran = {i}
    BY <1>1, <1>3
  <2>2. Cardinality(ran) = 1
    BY <2>1, FS_Singleton
  <2> QED
    BY <2>2
<1> QED
  BY <1>2, <1>3 DEF ran

\* In no workflow, with no number of workers and crashes, is a node's handler started twice
\* before its run times out.
THEOREM RunsOnce == Durable!Spec => []Durable!NodeRunsOnce
  BY OnceByInv, Invariance, PTL

LEMMA SkipsByInv == IInv => Durable!SkipsPropagate
BY DEF IInv, Steady, RunSteady, Upstream, Durable!SkipsPropagate

\* A node that completed follows completed ones only, whatever the interleaving of workers.
THEOREM Skipping == Durable!Spec => []Durable!SkipsPropagate
  BY SkipsByInv, Invariance, PTL

-----------------------------------------------------------------------------
(* The watchdog *)

\* While a started run is running there is a watch job, and no unit of the clock passes
\* without a look at its age: what a watch job that is being executed has seen of the clock
\* still holds, and one that is not due was made by one that found the run young enough, or
\* by start().
Watched ==
  /\ actors[Durable!Watch].at \notin {"off", "reset"}
  /\ clock < TTL
  /\ due <= clock + 1
  /\ actors[Durable!Watch].at # "idle" => due <= clock
  /\ actors[Durable!Watch].at \in {"advance", "nodes", "enqueue"} => clock < RunTimeout
  /\ actors[Durable!Watch].at = "idle" /\ clock < due => clock < RunTimeout \/ clock = 0

WatchInv ==
  /\ launch \in {"new", "created", "advancing"} => clock = 0
  /\ launch = "started" /\ run = "running" => Watched
  /\ Durable!NeverVanishes

LEMMA WatchSteps ==
  ASSUME Durable!TypeOK, Watched, run = "running",
         Durable!ActorStep(Durable!Watch) \/ Durable!ActorCrash(Durable!Watch), run' = "running"
  PROVE  Watched'
<1>1. /\ Durable!Watch \in Durable!Actors
      /\ actors \in [Durable!Actors -> Durable!ActorStates] /\ actors[Durable!Watch] \in Durable!ActorStates
      /\ clock \in Nat /\ due \in Nat /\ RunTimeout \in Nat /\ TTL \in Nat
  BY DurableConstants DEF Durable!TypeOK, Durable!Actors
<1>2. CASE Durable!CheckAge
  <2>1. /\ clock >= due /\ actors' = [actors EXCEPT ![Durable!Watch] =
             IF Durable!TooOld THEN [Durable!Idle EXCEPT !.at = "status", !.verdict = "failed"] ELSE [Durable!Idle EXCEPT !.at = "advance"]]
        /\ UNCHANGED <<clock, due>>
    BY <1>2 DEF Durable!CheckAge, Durable!Goes
  <2>2. actors'[Durable!Watch].at = IF Durable!TooOld THEN "status" ELSE "advance"
    BY <1>1, <2>1 DEF Durable!Idle
  <2> QED
    BY <1>1, <2>1, <2>2 DEF Watched, Durable!TooOld
<1>3. CASE Durable!ReadRun(Durable!Watch) \/ Durable!ReadNodes(Durable!Watch)
           \/ Durable!EnqueueNode(Durable!Watch) \/ Durable!ReadStatus(Durable!Watch)
  <2>1. /\ UNCHANGED <<clock, due>>
        /\ \/ actors[Durable!Watch].at = "advance" /\ actors'[Durable!Watch].at = "nodes"
           \/ actors[Durable!Watch].at = "nodes" /\ actors'[Durable!Watch].at = "enqueue"
           \/ actors[Durable!Watch].at = "enqueue" /\ actors'[Durable!Watch].at = "enqueue"
           \/ actors[Durable!Watch].at = "status" /\ actors'[Durable!Watch].at = "write"
    <3>1. CASE Durable!ReadRun(Durable!Watch)
      BY <1>1, <3>1 DEF Durable!ReadRun, Durable!Goes, Durable!Idle
    <3>2. CASE Durable!ReadNodes(Durable!Watch)
      BY <1>1, <3>2 DEF Durable!ReadNodes, Durable!Goes, Durable!Idle
    <3>3. CASE Durable!EnqueueNode(Durable!Watch)
      BY <1>1, <3>3 DEF Durable!EnqueueNode, Durable!Goes, Durable!ActorStates
    <3>4. CASE Durable!ReadStatus(Durable!Watch)
      BY <1>1, <3>4 DEF Durable!ReadStatus, Durable!Goes, Durable!ActorStates, Durable!Terminal
    <3> QED
      BY <1>3, <3>1, <3>2, <3>3, <3>4
  <2> QED
    BY <1>1, <2>1 DEF Watched
<1>4. CASE Durable!CountNodes(Durable!Watch)
  <2>1. UNCHANGED clock /\ actors[Durable!Watch].at = "enqueue"
    BY <1>4 DEF Durable!CountNodes, Durable!Goes
  <2>2. \/ actors'[Durable!Watch].at = "status" /\ due' = due
        \/ actors'[Durable!Watch].at = "idle" /\ due' = clock + 1
    <3>1. CASE actors[Durable!Watch].seen = Nodes
      <4>1. /\ actors' = [actors EXCEPT ![Durable!Watch] = [Durable!Idle EXCEPT !.at = "status", !.verdict = Durable!Verdict]]
            /\ due' = due
        BY <1>4, <3>1 DEF Durable!CountNodes, Durable!Goes
      <4> QED
        BY <1>1, <4>1 DEF Durable!Idle
    <3>2. CASE actors[Durable!Watch].seen # Nodes
      <4>1. actors' = [actors EXCEPT ![Durable!Watch] = Durable!Idle] /\ due' = clock + 1
        BY <1>4, <3>2 DEF Durable!CountNodes, Durable!Goes
      <4> QED
        BY <1>1, <4>1 DEF Durable!Idle
    <3> QED
      BY <3>1, <3>2
  <2> QED
    BY <1>1, <2>1, <2>2 DEF Watched
<1>5. CASE Durable!WriteStatus(Durable!Watch)
  BY <1>1, <1>5 DEF Durable!WriteStatus, Durable!ActorStates, Durable!Terminal
<1>6. CASE Durable!ResetIdentity(Durable!Watch)
  BY <1>6 DEF Durable!ResetIdentity, Durable!Goes, Watched
<1>7. CASE Durable!ActorCrash(Durable!Watch)
  <2>1. /\ actors[Durable!Watch].at \notin {"idle", "off"} /\ actors'[Durable!Watch].at = "idle"
        /\ UNCHANGED <<clock, due>>
    BY <1>1, <1>7 DEF Durable!ActorCrash, Durable!Idle
  <2> QED
    BY <1>1, <2>1 DEF Watched
<1> QED
  BY <1>2, <1>3, <1>4, <1>5, <1>6, <1>7 DEF Durable!ActorStep

LEMMA WatchKeeps ==
  ASSUME Durable!TypeOK, WatchInv, [Durable!Next]_(Durable!vars), RunTimeout < TTL, 1 < TTL
  PROVE  WatchInv'
<1>1. /\ Durable!Watch \in Durable!Actors
      /\ actors \in [Durable!Actors -> Durable!ActorStates] /\ actors[Durable!Watch] \in Durable!ActorStates
      /\ clock \in Nat /\ due \in Nat /\ RunTimeout \in Nat /\ TTL \in Nat
  BY DurableConstants DEF Durable!TypeOK, Durable!Actors
<1>2. CASE Durable!Start
  <2>1. CASE Durable!CreateRun
    BY <2>1 DEF Durable!CreateRun, WatchInv, Durable!NeverVanishes
  <2>2. CASE Durable!EnqueueAdvance
    BY <2>2 DEF Durable!EnqueueAdvance, WatchInv, Durable!NeverVanishes
  <2>3. CASE Durable!EnqueueWatch
    <3>1. /\ launch = "advancing" /\ clock = 0 /\ clock' = 0
          /\ due' = 1 /\ run' = run /\ launch' = "started"
          /\ actors' = [actors EXCEPT ![Durable!Watch].at = "idle"]
      BY <2>3 DEF Durable!EnqueueWatch, WatchInv
    <3>2. actors'[Durable!Watch].at = "idle"
      BY <1>1, <3>1 DEF Durable!ActorStates
    <3> QED
      BY <1>1, <3>1, <3>2 DEF WatchInv, Watched, Durable!NeverVanishes
  <2>4. CASE Durable!StartAborts
    BY <2>4 DEF Durable!StartAborts, WatchInv, Durable!NeverVanishes
  <2> QED
    BY <1>2, <2>1, <2>2, <2>3, <2>4 DEF Durable!Start
<1>3. ASSUME NEW a \in Durable!Actors, Durable!ActorStep(a) \/ Durable!ActorCrash(a)
      PROVE  WatchInv'
  <2>1. /\ UNCHANGED <<launch, clock>>
        /\ run' \in {run, "completed", "failed", "none"} /\ (run' # run => actors[a].at = "write")
    <3>1. actors[a].verdict \in {"completed", "failed", "none"}
      BY DEF Durable!TypeOK, Durable!ActorStates, Durable!Terminal
    <3> QED
      BY <1>3, <3>1 DEF Durable!ActorStep, Durable!ActorCrash, Durable!CheckAge, Durable!ReadRun,
          Durable!ReadNodes, Durable!EnqueueNode, Durable!CountNodes, Durable!ReadStatus,
                        Durable!WriteStatus, Durable!ResetIdentity, Durable!Goes
  <2>2. launch = "started" /\ run' = "running" => Watched'
    <3> SUFFICES ASSUME launch = "started", run' = "running"
                 PROVE  Watched'
      OBVIOUS
    <3>1. run = "running" /\ Watched
      BY <2>1 DEF WatchInv
    <3>2. CASE a = Durable!Watch
      BY <1>3, <3>1, <3>2, WatchSteps
    <3>3. CASE a # Durable!Watch
      <4>1. actors'[Durable!Watch] = actors[Durable!Watch] /\ due' = due
        BY <1>1, <1>3, <3>3 DEF Durable!ActorStep, Durable!ActorCrash, Durable!ReadRun,
            Durable!ReadNodes, Durable!EnqueueNode, Durable!CountNodes, Durable!ReadStatus,
                                Durable!WriteStatus, Durable!ResetIdentity, Durable!Goes
      <4> QED
        BY <2>1, <3>1, <4>1 DEF Watched
    <3> QED
      BY <3>2, <3>3
  <2> QED
    BY <2>1, <2>2 DEF WatchInv, Durable!NeverVanishes
<1>4. ASSUME NEW x \in Durable!Jobs, Durable!JobStep(x) \/ Durable!JobCrash(x)
      PROVE  WatchInv'
  <2>1. UNCHANGED <<launch, run, actors, clock, due>>
    BY <1>4 DEF Durable!JobStep, Durable!JobCrash
  <2> QED
    BY <2>1 DEF WatchInv, Watched, Durable!NeverVanishes
<1>5. CASE Durable!Tick
  <2>1. /\ run = "running" /\ clock' = clock + 1 /\ launch \in {"started", "aborted"}
        /\ actors[Durable!Watch].at = "off" \/ (actors[Durable!Watch].at = "idle" /\ clock < due)
        /\ UNCHANGED <<launch, run, actors, due>>
    BY <1>5 DEF Durable!Tick
  <2>2. launch = "started" => Watched'
    BY <1>1, <2>1 DEF WatchInv, Watched
  <2> QED
    BY <2>1, <2>2 DEF WatchInv, Durable!NeverVanishes
<1>6. CASE Durable!Lapse
  <2>1. run = "running" /\ clock >= TTL /\ run' = "expired" /\ UNCHANGED <<launch, actors, clock, due>>
    BY <1>6 DEF Durable!Lapse
  <2>2. launch = "aborted"
    <3>1. launch \notin {"new", "created", "advancing", "started"}
      BY <1>1, <2>1 DEF WatchInv, Watched
    <3> QED
      BY <3>1 DEF Durable!TypeOK
  <2> QED
    BY <2>1, <2>2 DEF WatchInv, Durable!NeverVanishes
<1>7. CASE UNCHANGED Durable!vars
  BY <1>7 DEF Durable!vars, WatchInv, Watched, Durable!NeverVanishes
<1> QED
  BY <1>2, <1>3, <1>4, <1>5, <1>6, <1>7 DEF Durable!Next

-----------------------------------------------------------------------------
(* The check a workflow passes at registration (agent/workflow.py:259)     *)

Left(N, g, done) == {n \in N \ done : g[n] \subseteq done}
VisitOne(N, g, done) ==
  IF Left(N, g, done) = {} THEN done ELSE done \union {CHOOSE n \in Left(N, g, done) : TRUE}

\* f is the recursive function that Accepted evaluates.
Visits(N, f, g) ==
  f = [done \in SUBSET N |->
         IF Left(N, g, done) = {} THEN done ELSE f[done \union {CHOOSE n \in Left(N, g, done) : TRUE}]]

\* The sets visited from done on: the least set of them that is closed under one more visit.
Stable(N, g, C) == \A d \in C : VisitOne(N, g, d) \in C
Later(N, g, done) ==
  {d \in SUBSET N : \A C \in SUBSET SUBSET N : done \in C /\ Stable(N, g, C) => d \in C}

LEMMA StepIn ==
  ASSUME NEW N, NEW g, NEW d \in SUBSET N
  PROVE  VisitOne(N, g, d) \in SUBSET N /\ d \subseteq VisitOne(N, g, d)
<1>1. CASE Left(N, g, d) = {}
  BY <1>1 DEF VisitOne
<1>2. CASE Left(N, g, d) # {}
  <2>1. (CHOOSE n \in Left(N, g, d) : TRUE) \in N
    BY <1>2 DEF Left
  <2> QED
    BY <1>2, <2>1 DEF VisitOne
<1> QED
  BY <1>1, <1>2

LEMMA LaterIs ==
  ASSUME NEW N, NEW g, NEW d \in SUBSET N
  PROVE  /\ d \in Later(N, g, d) /\ Stable(N, g, Later(N, g, d))
         /\ \A C \in SUBSET SUBSET N : d \in C /\ Stable(N, g, C) => Later(N, g, d) \subseteq C
<1>1. d \in Later(N, g, d)
  BY DEF Later
<1>2. Stable(N, g, Later(N, g, d))
  BY StepIn DEF Later, Stable
<1> QED
  BY <1>1, <1>2 DEF Later

\* The recursion has a solution: what is collected over the sets visited from done on.
LEMMA VisitsExists == ASSUME NEW N, NEW g PROVE \E f : Visits(N, f, g)
<1> DEFINE f == [done \in SUBSET N |-> UNION Later(N, g, done)]
<1>1. ASSUME NEW d \in SUBSET N
      PROVE  f[d] = IF Left(N, g, d) = {} THEN d ELSE f[d \union {CHOOSE n \in Left(N, g, d) : TRUE}]
  <2>1. CASE Left(N, g, d) = {}
    <3>1. Stable(N, g, {d})
      BY <2>1 DEF Stable, VisitOne
    <3>2. Later(N, g, d) = {d}
      BY <3>1, LaterIs
    <3> QED
      BY <2>1, <3>2
  <2>2. CASE Left(N, g, d) # {}
    <3> DEFINE e == VisitOne(N, g, d)
    <3>1. e \in SUBSET N /\ d \subseteq e /\ e = d \union {CHOOSE n \in Left(N, g, d) : TRUE}
      BY <2>2, StepIn DEF VisitOne
    <3> HIDE DEF e
    <3>2. Later(N, g, e) \subseteq Later(N, g, d)
      <4>1. e \in Later(N, g, d)
        BY LaterIs DEF Stable, e
      <4>2. Later(N, g, d) \in SUBSET SUBSET N
        BY DEF Later
      <4> QED
        BY <3>1, <4>1, <4>2, LaterIs
    <3>3. Later(N, g, d) \subseteq {d} \union Later(N, g, e)
      <4>1. Stable(N, g, {d} \union Later(N, g, e))
        <5>1. e \in Later(N, g, e) /\ Stable(N, g, Later(N, g, e)) /\ VisitOne(N, g, d) = e
          BY <3>1, LaterIs DEF e
        <5> QED
          BY <5>1 DEF Stable
      <4>2. {d} \union Later(N, g, e) \in SUBSET SUBSET N
        BY DEF Later
      <4> QED
        BY <4>1, <4>2, LaterIs
    <3>4. e \in Later(N, g, e)
      BY <3>1, LaterIs
    <3>5. UNION Later(N, g, d) = UNION Later(N, g, e)
      BY <3>1, <3>2, <3>3, <3>4
    <3> QED
      BY <2>2, <3>1, <3>5
  <2> QED
    BY <2>1, <2>2
<1>2. Visits(N, f, g)
  BY <1>1 DEF Visits
<1> QED
  BY <1>2

\* Induction over what is left to visit: some set of T is below no other.
LEMMA Largest ==
  ASSUME NEW N, IsFiniteSet(N), NEW T, T \subseteq SUBSET N, T # {}
  PROVE  \E d \in T : \A e \in T : ~(d \subseteq e /\ d # e)
<1> DEFINE U == {N \ d : d \in T}
<1>1. U \subseteq FiniteSubsetsOf(N) /\ U # {}
  <2>1. \A d \in T : IsFiniteSet(N \ d)
    BY FS_Subset
  <2>2. \A u \in U : u \in SUBSET N /\ IsFiniteSet(u)
    BY <2>1
  <2>3. U # {}
    <3>1. PICK d \in T : TRUE
      OBVIOUS
    <3>2. N \ d \in U
      BY <3>1
    <3> QED
      BY <3>2
  <2> HIDE DEF U
  <2> QED
    BY <2>2, <2>3 DEF FiniteSubsetsOf
<1>2. \E u \in U : \A v \in U : ~(<<v, u>> \in StrictSubsetOrdering(N))
  <2> HIDE DEF U
  <2> QED
    BY <1>1, FS_StrictSubsetOrderingWellFounded, WFMin
<1>3. PICK u \in U : \A v \in U : ~(<<v, u>> \in StrictSubsetOrdering(N))
  BY <1>2
<1>4. PICK d \in T : u = N \ d
  BY <1>3
<1>5. ASSUME NEW e \in T, d \subseteq e, d # e PROVE FALSE
  <2>1. N \ e \in U /\ N \ e \subseteq u /\ N \ e # u
    BY <1>4, <1>5
  <2> QED
    BY <1>3, <1>4, <2>1 DEF StrictSubsetOrdering
<1> QED
  BY <1>4, <1>5

\* Nodes that each depend on another of them.
Circular(N, g) == \E S \in (SUBSET N) \ {{}} : \A n \in S : g[n] \intersect S # {}

\* Whichever ready node is visited first, every node is visited unless there is a cycle.
LEMMA VisitsAll ==
  ASSUME NEW N, IsFiniteSet(N), NEW g \in [N -> SUBSET N], NEW f, Visits(N, f, g)
  PROVE  f[{}] = N <=> ~Circular(N, g)
<1>2. ASSUME NEW d \in SUBSET N
      PROVE  \/ Left(N, g, d) = {} /\ f[d] = d
             \/ \E n \in Left(N, g, d) : d \union {n} \in SUBSET N /\ n \notin d /\ f[d] = f[d \union {n}]
  <2>1. f[d] = IF Left(N, g, d) = {} THEN d ELSE f[d \union {CHOOSE n \in Left(N, g, d) : TRUE}]
    BY DEF Visits
  <2>2. \A n \in Left(N, g, d) : n \in N /\ n \notin d
    BY DEF Left
  <2>3. CASE Left(N, g, d) # {}
    <3>1. (CHOOSE n \in Left(N, g, d) : TRUE) \in Left(N, g, d)
      BY <2>3
    <3> QED
      BY <2>1, <2>2, <2>3, <3>1
  <2> QED
    BY <2>1, <2>3
<1>3. ASSUME Circular(N, g) PROVE f[{}] # N
  <2>1. PICK S \in (SUBSET N) \ {{}} : \A n \in S : g[n] \intersect S # {}
    BY <1>3 DEF Circular
  <2> DEFINE T == {d \in SUBSET N : d \intersect S = {} /\ f[d] \intersect S # {}}
  <2>2. ASSUME T # {} PROVE FALSE
    <3>1. PICK d \in T : \A e \in T : ~(d \subseteq e /\ d # e)
      <4>1. T \subseteq SUBSET N
        OBVIOUS
      <4> HIDE DEF T
      <4> QED
        BY <2>2, <4>1, Largest
    <3>2. PICK n \in Left(N, g, d) : d \union {n} \in SUBSET N /\ n \notin d /\ f[d] = f[d \union {n}]
      BY <1>2, <3>1
    <3>3. n \notin S
      BY <2>1, <3>1, <3>2 DEF Left
    <3>4. d \union {n} \in T
      BY <3>1, <3>2, <3>3
    <3> QED
      BY <3>1, <3>2, <3>4
  <2>3. {} \notin T
    BY <2>2
  <2>4. f[{}] \intersect S = {}
    BY <2>3
  <2> QED
    BY <2>1, <2>4
<1>4. ASSUME ~Circular(N, g) PROVE f[{}] = N
  <2> DEFINE T == {d \in SUBSET N : f[d] # N}
  <2>2. ASSUME T # {} PROVE FALSE
    <3>1. PICK d \in T : \A e \in T : ~(d \subseteq e /\ d # e)
      <4>1. T \subseteq SUBSET N
        OBVIOUS
      <4> HIDE DEF T
      <4> QED
        BY <2>2, <4>1, Largest
    <3>2. CASE Left(N, g, d) = {} /\ f[d] = d
      <4>1. N \ d \in (SUBSET N) \ {{}}
        BY <3>1, <3>2
      <4>2. \A n \in N \ d : g[n] \intersect (N \ d) # {}
        BY <3>2 DEF Left
      <4> QED
        BY <1>4, <4>1, <4>2 DEF Circular
    <3>3. ASSUME NEW n \in Left(N, g, d), d \union {n} \in SUBSET N, n \notin d,
                 f[d] = f[d \union {n}]
          PROVE  FALSE
      BY <3>1, <3>3
    <3> QED
      BY <1>2, <3>1, <3>2, <3>3
  <2> QED
    BY <2>2
<1> QED
  BY <1>3, <1>4

\* The recursive function that Accepted evaluates is the one of the check.
LEMMA AcceptedIs ==
  ASSUME NEW g
  PROVE  \E f : Visits(Nodes, f, g) /\ (Durable!Accepted(g) <=> f[{}] = Nodes)
<1> DEFINE f == CHOOSE h : Visits(Nodes, h, g)
<1>1. Visits(Nodes, f, g)
  BY VisitsExists
<1>2. Durable!Accepted(g) <=> f[{}] = Nodes
  BY DEF Durable!Accepted, Visits, Left
<1> QED
  BY <1>1, <1>2

\* The check accepts exactly the workflows without a cycle, for every set of nodes and
\* whichever ready node it takes first (agent/workflow.py:259).
THEOREM KahnExact ==
  ASSUME NEW g \in [Nodes -> SUBSET Nodes]
  PROVE  Durable!Accepted(g) <=> ~Durable!Run!HasCycle(g)
<1>1. PICK f : Visits(Nodes, f, g) /\ (Durable!Accepted(g) <=> f[{}] = Nodes)
  BY AcceptedIs
<1>2. f[{}] = Nodes <=> ~Circular(Nodes, g)
  BY <1>1, DurableConstants, VisitsAll
<1> QED
  BY <1>1, <1>2 DEF Circular, Durable!Run!HasCycle

-----------------------------------------------------------------------------
(* The refinement of the abstract run *)

\* Before start() created the run there is nothing of it.
LaunchInv ==
  /\ launch = "new" <=> run = "none"
  /\ launch = "new" =>
       /\ pending = 0
       /\ \A a \in Durable!Actors : actors[a].at = IF a = Durable!Watch THEN "off" ELSE "idle"
       /\ \A x \in Durable!Jobs : jobs[x].at = "free"

\* How far a job is tells whether its handler was started, and a started handler has all it
\* depends on completed; until the job writes its record there is none.
JobRuns(x) ==
  /\ jobs[x].at \in {"free", "pending", "context"} => ~jobs[x].ran
  /\ jobs[x].at = "running" => jobs[x].ran
  /\ jobs[x].at \in {"put", "write"} => (jobs[x].outcome = "skipped" <=> ~jobs[x].ran)
  /\ jobs[x].at \in {"context", "running", "put", "write"} => records[x[1]] = "none"
  /\ jobs[x].ran => Upstream(x[1])

RunInv ==
  /\ ~Durable!Run!HasCycle(graph)
  /\ ~timedOut => LaunchInv /\ \A x \in Durable!Jobs : JobRuns(x)

LEMMA LaunchStep ==
  ASSUME IInv, ~timedOut, LaunchInv, [Durable!Next]_(Durable!vars)
  PROVE  LaunchInv'
<1>0. /\ Durable!TypeOK
      /\ actors \in [Durable!Actors -> Durable!ActorStates] /\ jobs \in [Durable!Jobs -> Durable!JobStates]
      /\ pending \in Nat
  BY DEF IInv, Durable!TypeOK
<1>1. CASE Durable!Start
  <2>1. CASE Durable!CreateRun
    BY <2>1 DEF Durable!CreateRun, LaunchInv
  <2>2. CASE Durable!EnqueueAdvance \/ Durable!EnqueueWatch \/ Durable!StartAborts
    BY <2>2 DEF Durable!EnqueueAdvance, Durable!EnqueueWatch, Durable!StartAborts, LaunchInv
  <2> QED
    BY <1>1, <2>1, <2>2 DEF Durable!Start
<1>2. ASSUME NEW a \in Durable!Actors, Durable!ActorStep(a) \/ Durable!ActorCrash(a)
      PROVE  LaunchInv'
  <2>1. launch # "new"
    <3> SUFFICES ASSUME launch = "new"
                 PROVE  FALSE
      OBVIOUS
    <3>1. pending = 0 /\ actors[a].at = IF a = Durable!Watch THEN "off" ELSE "idle"
      BY DEF LaunchInv
    <3> QED
      BY <1>2, <3>1 DEF Durable!ActorStep, Durable!ActorCrash, Durable!CheckAge, Durable!ReadRun,
          Durable!ReadNodes, Durable!EnqueueNode, Durable!CountNodes, Durable!ReadStatus,
                        Durable!WriteStatus, Durable!ResetIdentity, Durable!Goes
  <2>2. launch' = launch
    BY <1>2 DEF Durable!ActorStep, Durable!ActorCrash, Durable!CheckAge, Durable!ReadRun,
        Durable!ReadNodes, Durable!EnqueueNode, Durable!CountNodes, Durable!ReadStatus,
                Durable!WriteStatus, Durable!ResetIdentity
  <2>3. run' = run \/ (Durable!WriteStatus(a) /\ run' = actors[a].verdict)
    BY <1>2 DEF Durable!ActorStep, Durable!ActorCrash, Durable!CheckAge, Durable!ReadRun,
        Durable!ReadNodes, Durable!EnqueueNode, Durable!CountNodes, Durable!ReadStatus,
                Durable!WriteStatus, Durable!ResetIdentity
  <2>4. Durable!WriteStatus(a) => actors[a].verdict # "none"
    BY DEF IInv, Steady, ActorSteady, Durable!WriteStatus, Durable!Goes, Durable!Verdict
  <2> QED
    BY <2>1, <2>2, <2>3, <2>4 DEF LaunchInv
<1>3. ASSUME NEW x \in Durable!Jobs, Durable!JobStep(x) \/ Durable!JobCrash(x)
      PROVE  LaunchInv'
  <2>1. jobs[x].at # "free"
    BY <1>0, <1>3, JobKeeps DEF IInv
  <2> QED
    BY <1>3, <2>1 DEF LaunchInv, Durable!JobStep, Durable!JobCrash
<1>4. CASE Durable!Tick \/ Durable!Lapse
  BY <1>4 DEF Durable!Tick, Durable!Lapse, LaunchInv
<1>5. CASE UNCHANGED Durable!vars
  BY <1>5 DEF Durable!vars, LaunchInv
<1> QED
  BY <1>1, <1>2, <1>3, <1>4, <1>5 DEF Durable!Next

LEMMA JobRunsStep ==
  ASSUME IInv, ~timedOut, \A x \in Durable!Jobs : JobRuns(x), [Durable!Next]_(Durable!vars),
         NEW y \in Durable!Jobs
  PROVE  JobRuns(y)'
<1>0. /\ Durable!TypeOK /\ Base /\ Steady
      /\ JobRuns(y) /\ JobBase(y) /\ jobs[y] \in Durable!JobStates /\ y[1] \in Nodes
      /\ graph' = graph
  BY GraphFrame DEF IInv, Durable!TypeOK, Base, Durable!Jobs
<1>1. Upstream(y[1]) => Upstream(y[1])'
  BY <1>0, UpstreamStays
<1>2. records'[y[1]] # records[y[1]] => jobs[y].at = "write" \/ ~(jobs[y].at \in {"context", "running", "put", "write"})
  <2>1. ASSUME NEW z \in Durable!Jobs, Durable!WriteNode(z), z[1] = y[1], jobs[y].at # "free",
               records[y[1]] = "none"
        PROVE  z = y
    <3>1. Sole(z, y)
      BY <1>0 DEF Steady
    <3> QED
      BY <2>1, <3>1 DEF Sole, Durable!WriteNode, Durable!Becomes
  <2>2. ASSUME NEW z \in Durable!Jobs, Durable!WriteNode(z), z[1] # y[1]
        PROVE  records'[y[1]] = records[y[1]]
    BY <1>0, <2>2 DEF Durable!WriteNode, Durable!TypeOK
  <2> QED
    BY <1>0, <2>1, <2>2, RecordsFrame DEF JobRuns, Durable!WriteNode, Durable!Becomes
<1>3. CASE jobs'[y] = jobs[y]
  <2>1. ASSUME jobs[y].at = "write"
        PROVE  records'[y[1]] = records[y[1]]
    <3>1. ASSUME NEW z \in Durable!Jobs, Durable!WriteNode(z)
          PROVE  z # y
      BY <1>0, <1>3, <3>1 DEF Durable!WriteNode, Durable!Becomes, Durable!TypeOK, Durable!JobStates
    <3>2. ASSUME NEW z \in Durable!Jobs, Durable!WriteNode(z), z[1] = y[1]
          PROVE  FALSE
      <4>1. Sole(z, y)
        BY <1>0 DEF Steady
      <4> QED
        BY <1>0, <2>1, <3>1, <3>2, <4>1 DEF Sole, Durable!WriteNode, Durable!Becomes, JobRuns
    <3>3. ASSUME NEW z \in Durable!Jobs, Durable!WriteNode(z), z[1] # y[1]
          PROVE  records'[y[1]] = records[y[1]]
      BY <1>0, <3>3 DEF Durable!WriteNode, Durable!TypeOK
    <3> QED
      BY <1>0, <3>2, <3>3, RecordsFrame
  <2> QED
    BY <1>0, <1>1, <1>2, <1>3, <2>1 DEF JobRuns
<1>4. ASSUME NEW a \in Durable!Actors, Durable!EnqueueNode(a)
      PROVE  JobRuns(y)'
  <2>1. jobs'[y] = jobs[y] \/ (jobs'[y].at = "pending" /\ jobs'[y].ran = FALSE)
    BY <1>0, <1>4, Enqueues
  <2> QED
    BY <1>3, <2>1 DEF JobRuns
<1>5. ASSUME Durable!JobStep(y) \/ Durable!JobCrash(y)
      PROVE  JobRuns(y)'
  <2>1. CASE Durable!ReadContext(y)
    <3>1. UNCHANGED records
      BY <1>5, <2>1 DEF Durable!JobStep, Durable!JobCrash, Durable!ReadContext, Durable!WriteNode,
          Durable!Becomes
    <3>2. CASE Durable!Becomes(y, "context", [jobs[y] EXCEPT !.at = "put", !.seen = {}, !.outcome = "skipped"])
      <4>1. /\ jobs[y].at = "context" /\ jobs'[y].at = "put"
            /\ jobs'[y].outcome = "skipped" /\ jobs'[y].ran = jobs[y].ran
        BY <1>0, <3>2 DEF Durable!Becomes, Durable!TypeOK, Durable!JobStates
      <4> QED
        BY <1>0, <1>1, <3>1, <4>1 DEF JobRuns
    <3>3. ASSUME NEW nodes \in SUBSET (Durable!Recorded \intersect graph[y[1]]),
                 jobs[y].seen \subseteq nodes, ~Durable!Skips(nodes),
                 Durable!Becomes(y, "context", [jobs[y] EXCEPT !.at = "running", !.seen = {}, !.ran = TRUE])
          PROVE  JobRuns(y)'
      <4>1. jobs[y].at = "context" /\ jobs'[y].at = "running" /\ jobs'[y].ran = TRUE
        BY <1>0, <3>3 DEF Durable!Becomes, Durable!TypeOK, Durable!JobStates
      <4>2. jobs[y].seen = graph[y[1]]
        BY <1>0, <4>1 DEF JobBase
      <4>3. Upstream(y[1])
        BY <3>3, <4>2 DEF Durable!Skips, Upstream
      <4> QED
        BY <1>0, <1>1, <3>1, <4>1, <4>3 DEF JobRuns
    <3>4. CASE Durable!Becomes(y, "context", [Durable!JobOver(y) EXCEPT !.at = "raised"])
      <4>1. jobs'[y].at = "raised" /\ jobs'[y].ran = jobs[y].ran
        BY <1>0, <3>4 DEF Durable!Becomes, Durable!TypeOK, Durable!JobStates, Durable!JobOver
      <4> QED
        BY <1>0, <1>1, <4>1 DEF JobRuns
    <3> QED
      BY <2>1, <3>2, <3>3, <3>4 DEF Durable!ReadContext
  <2>2. CASE ~Durable!ReadContext(y)
    <3> DEFINE j == jobs[y]
               k == jobs'[y]
    <3>1. Checks(y, j, k) \/ Returns(j, k) \/ Finds(y, j, k) \/ Leaves(j, k)
      <4>1. jobs[y].at # "context" \/ Durable!JobCrash(y)
        BY <1>5, <2>2 DEF Durable!JobStep, Durable!ReadNode, Durable!HandlerEnds, Durable!CheckNode,
            Durable!NotifyRaises, Durable!WriteNode, Durable!Notify, Durable!Becomes
      <4>2. Durable!JobCrash(y) => Leaves(j, k)
        BY <1>0 DEF Durable!JobCrash, Durable!JobOver, Leaves, Durable!TypeOK, Durable!JobStates
      <4> QED
        BY <1>0, <1>5, <4>1, <4>2, JobMoves DEF Moves, SkipsOver, Starts
    <3>2. Checks(y, j, k) => UNCHANGED records
      BY <1>5 DEF Checks, Durable!JobStep, Durable!JobCrash, Durable!WriteNode, Durable!Becomes
    <3>3. Returns(j, k) \/ Finds(y, j, k) => UNCHANGED records
      BY <1>5 DEF Returns, Finds, Durable!JobStep, Durable!JobCrash, Durable!WriteNode, Durable!Becomes
    <3>4. CASE Leaves(j, k)
      BY <1>0, <1>1, <3>4 DEF Leaves, JobRuns
    <3>5. CASE Checks(y, j, k)
      BY <1>0, <1>1, <3>2, <3>5 DEF Checks, JobRuns
    <3>6. CASE Returns(j, k) \/ Finds(y, j, k)
      BY <1>0, <1>1, <3>3, <3>6 DEF Returns, Finds, JobRuns
    <3> QED
      BY <3>1, <3>4, <3>5, <3>6
  <2> QED
    BY <2>1, <2>2
<1>6. ASSUME NEW x \in Durable!Jobs, Durable!JobStep(x) \/ Durable!JobCrash(x), x # y
      PROVE  jobs'[y] = jobs[y]
  BY <1>0, <1>6, JobMoves
<1> QED
  BY <1>0, <1>3, <1>4, <1>5, <1>6, JobsFrame

\* The mapped variables.
Started == {n \in Nodes : \E i \in 1..MaxJobs : jobs[<<n, i>>].ran}
Status == CASE run = "none" -> "new" [] run = "expired" -> "lapsed" [] OTHER -> run

LEMMA StartedStays ==
  ASSUME \A y \in Durable!Jobs : jobs'[y].ran = jobs[y].ran
  PROVE  Started' = Started
BY DEF Started, Durable!Jobs

LEMMA JobRefines ==
  ASSUME IInv, ~timedOut, LaunchInv, \A x \in Durable!Jobs : JobRuns(x),
         [Durable!Next]_(Durable!vars),
         NEW y \in Durable!Jobs, Durable!JobStep(y) \/ Durable!JobCrash(y)
  PROVE  Durable!Run!Next \/ UNCHANGED Durable!Run!vars
<1>0. /\ Durable!TypeOK /\ Base /\ Steady
      /\ JobRuns(y) /\ JobBase(y) /\ jobs[y] \in Durable!JobStates /\ y[1] \in Nodes
      /\ graph' = graph /\ run' = run /\ records \in [Nodes -> Durable!Outcomes]
  BY GraphFrame, JobMoves DEF IInv, Durable!TypeOK, Base, Durable!Jobs
<1>1. records[y[1]] = "none" /\ jobs[y].at # "free" => Status \in {"running", "lapsed"}
  <2> SUFFICES ASSUME records[y[1]] = "none", jobs[y].at # "free"
               PROVE  Status \in {"running", "lapsed"}
    OBVIOUS
  <2>1. run # "none"
    BY DEF LaunchInv
  <2>2. run \notin Durable!Terminal
    BY <1>0 DEF Steady, RunSteady, Durable!Recorded
  <2>3. run \in {"running", "expired"}
    BY <1>0, <2>1, <2>2 DEF Durable!TypeOK
  <2> QED
    BY <2>3 DEF Status
<1>2. ASSUME jobs[y].at \in {"context", "running", "put", "write"}, ~jobs[y].ran
      PROVE  y[1] \notin Started
  <2> SUFFICES ASSUME NEW i \in 1..MaxJobs, jobs[<<y[1], i>>].ran
               PROVE  FALSE
    BY DEF Started
  <2>1. <<y[1], i>> \in Durable!Jobs
    BY <1>0 DEF Durable!Jobs
  <2>2. Sole(<<y[1], i>>, y) /\ Past(<<y[1], i>>) /\ Past(y)
    BY <1>0, <1>2, <2>1 DEF Steady, Past
  <2> QED
    BY <1>2, <2>2 DEF Sole
<1>3. ASSUME jobs[y].ran PROVE y[1] \in Started
  <2>1. PICK n \in Nodes, i \in 1..MaxJobs : y = <<n, i>>
    BY DEF Durable!Jobs
  <2> QED
    BY <1>3, <2>1 DEF Started
<1>4. CASE UNCHANGED records /\ jobs'[y].ran = jobs[y].ran
  <2>1. Started' = Started
    BY <1>0, <1>4, JobMoves, StartedStays
  <2>2. Status' = Status
    BY <1>0 DEF Status
  <2> QED
    BY <1>0, <1>4, <2>1, <2>2 DEF Durable!Run!vars, Started, Status
<1>5. ASSUME Durable!WriteNode(y) PROVE Durable!Run!Next
  <2>1. /\ jobs[y].at = "write" /\ records' = [records EXCEPT ![y[1]] = jobs[y].outcome]
        /\ jobs'[y].ran = jobs[y].ran
    BY <1>0, <1>5 DEF Durable!WriteNode, Durable!Becomes, Durable!TypeOK, Durable!JobStates
  <2>2. records[y[1]] = "none" /\ Status \in {"running", "lapsed"} /\ Status' = Status
    BY <1>0, <1>1, <2>1 DEF JobRuns, Status
  <2>3. Started' = Started
    BY <1>0, <2>1, JobMoves, StartedStays
  <2>4. jobs[y].outcome \in {"completed", "failed", "skipped"}
    BY <1>0, <2>1 DEF JobBase, Durable!JobStates, Durable!Outcomes
  <2>5. /\ jobs[y].outcome # "skipped" => y[1] \in Started /\ Upstream(y[1])
        /\ jobs[y].outcome = "skipped" => y[1] \notin Started
    BY <1>0, <1>2, <1>3, <2>1 DEF JobRuns, Durable!JobStates
  <2>6. \A d \in graph[y[1]] : records[d] # "none"
    BY <1>0, <2>1 DEF JobBase, Durable!Recorded
  <2>7. records'[y[1]] = jobs[y].outcome
    BY <1>0, <2>1
  <2>8. Durable!Run!Settle(y[1])
    <3>1. \E outcome \in Durable!Run!Outcomes :
            /\ outcome = "completed" => y[1] \in Started
            /\ outcome = "skipped" => y[1] \notin Started
            /\ records' = [records EXCEPT ![y[1]] = outcome]
      BY <2>1, <2>4, <2>5 DEF Durable!Run!Outcomes
    <3>2. (\E d \in graph[y[1]] : records[d] # "completed") => records'[y[1]] = "skipped"
      BY <2>5, <2>7 DEF Upstream
    <3> QED
      BY <1>0, <2>2, <2>3, <2>6, <3>1, <3>2 DEF Durable!Run!Settle, Durable!Run!Goes, Started, Status
  <2> QED
    BY <1>0, <2>8 DEF Durable!Run!Next
<1>6. ASSUME NEW nodes \in SUBSET (Durable!Recorded \intersect graph[y[1]]),
             jobs[y].seen \subseteq nodes, ~Durable!Skips(nodes),
             Durable!Becomes(y, "context", [jobs[y] EXCEPT !.at = "running", !.seen = {}, !.ran = TRUE]), UNCHANGED records
      PROVE  Durable!Run!Next
  <2>1. jobs[y].at = "context" /\ jobs'[y].ran = TRUE
    BY <1>0, <1>6 DEF Durable!Becomes, Durable!TypeOK, Durable!JobStates
  <2>2. jobs[y].seen = graph[y[1]] /\ ~jobs[y].ran /\ records[y[1]] = "none"
    BY <1>0, <2>1 DEF JobBase, JobRuns
  <2>3. \A d \in graph[y[1]] : records[d] = "completed"
    BY <1>6, <2>2 DEF Durable!Skips
  <2>4. y[1] \notin Started /\ Status \in {"running", "lapsed"} /\ Status' = Status
    BY <1>0, <1>1, <1>2, <2>1, <2>2 DEF Status
  <2>5. Started' = Started \union {y[1]}
    <3>1. PICK n \in Nodes, i \in 1..MaxJobs : y = <<n, i>>
      BY DEF Durable!Jobs
    <3>2. \A m \in Nodes : \A k \in 1..MaxJobs : <<m, k>> # y => jobs'[<<m, k>>] = jobs[<<m, k>>]
      BY <1>0, JobMoves DEF Durable!Jobs
    <3> QED
      BY <2>1, <3>1, <3>2 DEF Started
  <2>6. Durable!Run!Start(y[1])
    BY <1>0, <1>6, <2>2, <2>3, <2>4, <2>5 DEF Durable!Run!Start, Durable!Run!Goes, Started, Status
  <2> QED
    BY <1>0, <2>6 DEF Durable!Run!Next
<1>7. \/ UNCHANGED records /\ jobs'[y].ran = jobs[y].ran
      \/ Durable!WriteNode(y)
      \/ /\ UNCHANGED records
         /\ \E nodes \in SUBSET (Durable!Recorded \intersect graph[y[1]]) :
              /\ jobs[y].seen \subseteq nodes /\ ~Durable!Skips(nodes)
              /\ Durable!Becomes(y, "context", [jobs[y] EXCEPT !.at = "running", !.seen = {}, !.ran = TRUE])
  <2>1. UNCHANGED records \/ Durable!WriteNode(y)
    BY DEF Durable!JobStep, Durable!JobCrash
  <2>2. CASE Durable!ReadContext(y)
    <3>1. ASSUME Durable!Becomes(y, "context", [jobs[y] EXCEPT !.at = "put", !.seen = {}, !.outcome = "skipped"])
          PROVE  jobs'[y].ran = jobs[y].ran
      BY <1>0, <3>1 DEF Durable!Becomes, Durable!TypeOK, Durable!JobStates
    <3>2. ASSUME Durable!Becomes(y, "context", [Durable!JobOver(y) EXCEPT !.at = "raised"])
          PROVE  jobs'[y].ran = jobs[y].ran
      BY <1>0, <3>2 DEF Durable!Becomes, Durable!TypeOK, Durable!JobStates, Durable!JobOver
    <3> QED
      BY <2>1, <2>2, <3>1, <3>2 DEF Durable!ReadContext
  <2>3. CASE ~Durable!ReadContext(y)
    <3>1. jobs[y].at # "context" \/ Durable!JobCrash(y)
      BY <2>3 DEF Durable!JobStep, Durable!ReadNode, Durable!HandlerEnds, Durable!CheckNode,
          Durable!NotifyRaises, Durable!WriteNode, Durable!Notify, Durable!Becomes
    <3>2. Durable!JobCrash(y) => jobs'[y].ran = jobs[y].ran
      BY <1>0 DEF Durable!JobCrash, Durable!JobOver, Durable!TypeOK, Durable!JobStates
    <3>3. jobs'[y].ran = jobs[y].ran
      BY <1>0, <3>1, <3>2, JobMoves DEF Moves, Checks, SkipsOver, Starts, Returns, Finds, Leaves
    <3> QED
      BY <2>1, <3>3
  <2> QED
    BY <2>2, <2>3
<1> QED
  BY <1>4, <1>5, <1>6, <1>7

LEMMA RunRefines ==
  ASSUME IInv, RunInv, ~timedOut, [Durable!Next]_(Durable!vars)
  PROVE  Durable!Run!Next \/ UNCHANGED Durable!Run!vars
<1>0. Durable!TypeOK /\ Base /\ Steady /\ graph' = graph /\ records \in [Nodes -> Durable!Outcomes]
  BY GraphFrame DEF IInv, Durable!TypeOK
<1> LaunchInv /\ \A x \in Durable!Jobs : JobRuns(x)
  BY DEF RunInv
<1>1. ASSUME UNCHANGED <<records, run>>, \A y \in Durable!Jobs : jobs'[y].ran = jobs[y].ran
      PROVE  UNCHANGED Durable!Run!vars
  <2>1. Started' = Started /\ Status' = Status
    BY <1>1, StartedStays DEF Status
  <2> QED
    BY <1>0, <1>1, <2>1 DEF Durable!Run!vars, Started, Status
<1>2. CASE Durable!CreateRun
  <2>1. run = "none" /\ run' = "running" /\ UNCHANGED <<records, jobs>>
    BY <1>2 DEF Durable!CreateRun, LaunchInv
  <2>2. ~Durable!Run!HasCycle(graph)
    BY DEF RunInv
  <2> QED
    BY <1>0, <2>1, <2>2 DEF Durable!Run!Next, Durable!Run!Begin
<1>3. ASSUME NEW a \in Durable!Actors, Durable!WriteStatus(a)
      PROVE  Durable!Run!Next \/ UNCHANGED Durable!Run!vars
  <2>1. /\ run' = actors[a].verdict /\ UNCHANGED <<records, jobs>> /\ actors[a].at = "write"
    BY <1>3 DEF Durable!WriteStatus, Durable!Goes
  <2>2. Durable!Recorded = Nodes /\ run' = Durable!Verdict
    BY <1>0, <2>1 DEF Steady, ActorSteady
  <2>3. CASE run' = run
    BY <1>1, <2>1, <2>3
  <2>4. CASE run' # run
    <3>1. run \in {"running", "expired"}
      <4>1. run \notin Durable!Terminal
        BY <1>0, <2>2, <2>4 DEF Steady, RunSteady
      <4>2. run # "none"
        <5>1. actors[a].at \notin {"off", "idle"}
          BY <2>1
        <5> QED
          BY <5>1 DEF LaunchInv
      <4> QED
        BY <1>0, <4>1, <4>2 DEF Durable!TypeOK
    <3>2. Started' = Started /\ Status \in {"running", "lapsed"}
      BY <2>1, <3>1 DEF Started, Status
    <3>3. CASE \E n \in Nodes : records[n] = "failed"
      <4>1. run' = "failed" /\ Status' = "failed"
        BY <2>2, <3>3 DEF Durable!Verdict, Status
      <4> QED
        BY <1>0, <2>1, <3>2, <3>3, <4>1 DEF Durable!Run!Next, Durable!Run!Fail, Durable!Run!Goes,
            Started, Status
    <3>4. CASE ~\E n \in Nodes : records[n] = "failed"
      <4>1. run' = "completed" /\ Status' = "completed"
        BY <2>2, <3>4 DEF Durable!Verdict, Status
      <4>2. \A n \in Nodes : records[n] \in {"completed", "skipped"}
        BY <1>0, <2>2, <3>4 DEF Durable!Recorded, Durable!Outcomes
      <4> QED
        BY <1>0, <2>1, <3>2, <4>1, <4>2 DEF Durable!Run!Next, Durable!Run!Complete, Durable!Run!Goes,
            Started, Status
    <3> QED
      BY <3>3, <3>4
  <2> QED
    BY <2>3, <2>4
<1>4. CASE Durable!Lapse
  <2>1. run = "running" /\ run' = "expired" /\ UNCHANGED <<records, jobs>>
    BY <1>4 DEF Durable!Lapse
  <2>2. Durable!Run!Abandon
    BY <1>0, <2>1 DEF Durable!Run!Abandon
  <2> QED
    BY <2>2 DEF Durable!Run!Next
<1>5. ASSUME NEW a \in Durable!Actors, Durable!ActorStep(a) \/ Durable!ActorCrash(a),
             ~Durable!WriteStatus(a)
      PROVE  UNCHANGED Durable!Run!vars
  <2>1. UNCHANGED <<records, run>>
    BY <1>5 DEF Durable!ActorStep, Durable!ActorCrash, Durable!CheckAge, Durable!ReadRun,
        Durable!ReadNodes, Durable!EnqueueNode, Durable!CountNodes, Durable!ReadStatus,
                Durable!ResetIdentity
  <2>2. UNCHANGED jobs \/ Durable!EnqueueNode(a)
    BY <1>5 DEF Durable!ActorStep, Durable!ActorCrash, Durable!CheckAge, Durable!ReadRun,
        Durable!ReadNodes, Durable!CountNodes, Durable!ReadStatus, Durable!ResetIdentity
  <2>3. Durable!EnqueueNode(a) => \A y \in Durable!Jobs : jobs'[y].ran = jobs[y].ran
    <3> SUFFICES ASSUME Durable!EnqueueNode(a), NEW y \in Durable!Jobs
                 PROVE  jobs'[y].ran = jobs[y].ran
      OBVIOUS
    <3>1. jobs[y].at = "free" => jobs[y].ran = FALSE
      BY <1>0 DEF Base, JobBase, Durable!TypeOK, Durable!JobStates
    <3> QED
      BY <1>0, <3>1, Enqueues
  <2> QED
    BY <1>1, <2>1, <2>2, <2>3
<1>6. CASE Durable!EnqueueAdvance \/ Durable!EnqueueWatch \/ Durable!StartAborts \/ Durable!Tick
           \/ UNCHANGED Durable!vars
  BY <1>1, <1>6 DEF Durable!EnqueueAdvance, Durable!EnqueueWatch, Durable!StartAborts, Durable!Tick,
      Durable!vars
<1> QED
  BY <1>2, <1>3, <1>4, <1>5, <1>6, JobRefines DEF Durable!Next, Durable!Start

LEMMA RunInvStep ==
  ASSUME IInv, RunInv, [Durable!Next]_(Durable!vars)
  PROVE  RunInv'
<1>1. ~Durable!Run!HasCycle(graph)'
  BY GraphFrame DEF RunInv, Durable!Run!HasCycle
<1>2. ASSUME ~timedOut'
      PROVE  LaunchInv' /\ \A x \in Durable!Jobs : JobRuns(x)'
  <2>1. ~timedOut
    BY <1>2, TimedOutStays DEF IInv
  <2> QED
    BY <2>1, LaunchStep, JobRunsStep DEF RunInv
<1> QED
  BY <1>1, <1>2 DEF RunInv

LEMMA RunInits ==
  ASSUME Durable!Init
  PROVE  RunInv /\ Durable!Run!Init
<1>1. graph \in [Nodes -> SUBSET Nodes] /\ Durable!Accepted(graph)
  BY DurableConstants DEF Durable!Init
<1>2. ~Durable!Run!HasCycle(graph)
  BY <1>1, KahnExact
<1>3. /\ \A x \in Durable!Jobs : jobs[x] = Durable!NoJob
      /\ \A a \in Durable!Actors : actors[a].at = IF a = Durable!Watch THEN "off" ELSE "idle"
  BY DEF Durable!Init, Durable!Idle
<1>4. LaunchInv /\ \A x \in Durable!Jobs : JobRuns(x)
  BY <1>3 DEF Durable!Init, LaunchInv, JobRuns, Durable!NoJob
<1>5. {n \in Nodes : \E i \in 1..MaxJobs : jobs[<<n, i>>].ran} = {}
  <2>1. \A n \in Nodes, i \in 1..MaxJobs : <<n, i>> \in Durable!Jobs
    BY DEF Durable!Jobs
  <2>2. \A x \in Durable!Jobs : jobs[x].ran = FALSE
    BY <1>3 DEF Durable!NoJob
  <2> QED
    BY <2>1, <2>2
<1> QED
  BY <1>1, <1>2, <1>4, <1>5 DEF Durable!Init, RunInv, Durable!Run!Init

\* Until it times out, every step of a durable run - of start(), advance, a node's job, the
\* watchdog, or a worker that dies - is a step of the abstract run or none of its business
\* (WorkflowRun), for every workflow and any number of workers, jobs and crashes.
THEOREM Refinement == Durable!Spec => Durable!RunSpec
<1>1. Durable!Init => RunInv /\ Durable!Run!Init
  BY RunInits
<1>2. IInv /\ RunInv /\ [Durable!Next]_(Durable!vars) => RunInv'
  BY RunInvStep
<1>3. IInv /\ RunInv /\ [Durable!Next]_(Durable!vars) => [timedOut' \/ Durable!Run!Next]_(Durable!Run!vars)
  <2> SUFFICES ASSUME IInv, RunInv, [Durable!Next]_(Durable!vars), ~timedOut'
               PROVE  Durable!Run!Next \/ UNCHANGED Durable!Run!vars
    OBVIOUS
  <2>1. ~timedOut
    BY TimedOutStays DEF IInv
  <2> QED
    BY <2>1, RunRefines
<1> QED
  BY <1>1, <1>2, <1>3, Invariance, PTL DEF Durable!Spec, Durable!RunSpec

-----------------------------------------------------------------------------
(* Sums over finite sets *)

Any(s) == CHOOSE x \in s : TRUE
Remaining(s) == s \ {Any(s)}

\* h is the recursive function that a sum of f over S evaluates.
Adds(h, f, S) == h = [s \in SUBSET S |-> IF s = {} THEN 0 ELSE f[Any(s)] + h[Remaining(s)]]

Total(f, S) == Engine!FoldFunctionOnSet(LAMBDA k, sum : k + sum, 0, f, S)

\* Induction over subsets: some set of T is above no other.
LEMMA Smallest ==
  ASSUME NEW N, IsFiniteSet(N), NEW T, T \subseteq SUBSET N, T # {}
  PROVE  \E d \in T : \A e \in T : ~(e \subseteq d /\ d # e)
<1>1. \A d \in T : IsFiniteSet(d)
  BY FS_Subset
<1>2. T \subseteq FiniteSubsetsOf(N)
  BY <1>1 DEF FiniteSubsetsOf
<1>3. PICK d \in T : \A e \in T : ~(<<e, d>> \in StrictSubsetOrdering(N))
  BY <1>2, FS_StrictSubsetOrderingWellFounded, WFMin
<1>4. ASSUME NEW e \in T, e \subseteq d, d # e
      PROVE  FALSE
  <2>1. <<e, d>> \in StrictSubsetOrdering(N)
    BY <1>4 DEF StrictSubsetOrdering
  <2> QED
    BY <1>3, <2>1
<1> QED
  BY <1>3, <1>4

LEMMA AnyIs ==
  ASSUME NEW s, s # {}
  PROVE  Any(s) \in s /\ Remaining(s) \subseteq s /\ Remaining(s) # s
BY DEF Any, Remaining

LEMMA AddsUnique ==
  ASSUME NEW N, IsFiniteSet(N), NEW f, NEW R \in SUBSET N, NEW S \in SUBSET N,
         NEW g, NEW h, Adds(g, f, R), Adds(h, f, S)
  PROVE  \A s \in SUBSET (R \intersect S) : g[s] = h[s]
<1> DEFINE T == {s \in SUBSET (R \intersect S) : g[s] # h[s]}
<1> SUFFICES ASSUME T # {}
             PROVE  FALSE
  OBVIOUS
<1>1. T \subseteq SUBSET N
  OBVIOUS
<1>2. PICK d \in T : \A e \in T : ~(e \subseteq d /\ d # e)
  <2> HIDE DEF T
  <2> QED
    BY <1>1, Smallest
<1>3. d \in SUBSET R /\ d \in SUBSET S
  OBVIOUS
<1>4. /\ g[d] = IF d = {} THEN 0 ELSE f[Any(d)] + g[Remaining(d)]
      /\ h[d] = IF d = {} THEN 0 ELSE f[Any(d)] + h[Remaining(d)]
  BY <1>3 DEF Adds
<1>5. d # {}
  BY <1>2, <1>4
<1>6. Remaining(d) \subseteq d /\ Remaining(d) # d
  BY <1>5, AnyIs
<1>7. Remaining(d) \notin T
  BY <1>2, <1>6
<1> QED
  BY <1>2, <1>4, <1>6, <1>7

LEMMA AddsExists ==
  ASSUME NEW N, IsFiniteSet(N), NEW f, NEW S \in SUBSET N
  PROVE  \E h : Adds(h, f, S)
<1> DEFINE T == {s \in SUBSET N : ~\E h : Adds(h, f, s)}
<1> SUFFICES ASSUME T # {}
             PROVE  FALSE
  OBVIOUS
<1>1. PICK d \in T : \A e \in T : ~(e \subseteq d /\ d # e)
  <2>1. T \subseteq SUBSET N
    OBVIOUS
  <2> HIDE DEF T
  <2> QED
    BY <2>1, Smallest
<1> DEFINE G == [s \in SUBSET d |-> CHOOSE h : Adds(h, f, s)]
           k == [s \in SUBSET d |-> IF s = {} THEN 0 ELSE f[Any(s)] + G[Remaining(s)][Remaining(s)]]
<1>2. ASSUME NEW s \in SUBSET d, s # d
      PROVE  Adds(G[s], f, s)
  <2>1. s \in SUBSET N /\ s \notin T
    BY <1>1, <1>2
  <2>2. \E h : Adds(h, f, s)
    BY <2>1
  <2> QED
    BY <2>2
<1> HIDE DEF G
<1>3. ASSUME NEW s \in SUBSET d, s # {}
      PROVE  k[Remaining(s)] = G[Remaining(s)][Remaining(s)]
  <2> DEFINE u == Remaining(s)
  <2>1. u \in SUBSET d /\ u # d /\ u \in SUBSET N
    BY <1>1, <1>3, AnyIs
  <2> HIDE DEF u
  <2>2. Adds(G[u], f, u)
    BY <1>2, <2>1
  <2>3. G[u][u] = IF u = {} THEN 0 ELSE f[Any(u)] + G[u][Remaining(u)]
    BY <2>2 DEF Adds
  <2>4. k[u] = IF u = {} THEN 0 ELSE f[Any(u)] + G[Remaining(u)][Remaining(u)]
    BY <2>1
  <2> HIDE DEF k
  <2>5. ASSUME u # {} PROVE k[u] = G[u][u]
    <3> DEFINE v == Remaining(u)
    <3>1. v \in SUBSET d /\ v # d /\ v \in SUBSET u /\ v \in SUBSET N
      BY <2>1, <2>5, AnyIs
    <3> HIDE DEF v
    <3>2. Adds(G[v], f, v) /\ v \in SUBSET (u \intersect v)
      BY <1>2, <3>1
    <3>3. \A t \in SUBSET (u \intersect v) : G[u][t] = G[v][t]
      <4>1. \A g, h : Adds(g, f, u) /\ Adds(h, f, v) => \A t \in SUBSET (u \intersect v) : g[t] = h[t]
        BY <2>1, <3>1, AddsUnique
      <4> QED
        BY <2>2, <3>2, <4>1
    <3>4. G[u][v] = G[v][v]
      BY <3>2, <3>3
    <3> QED
      BY <2>3, <2>4, <2>5, <3>4 DEF v
  <2>6. ASSUME u = {} PROVE k[u] = G[u][u]
    BY <2>3, <2>4, <2>6
  <2> QED
    BY <2>5, <2>6 DEF u
<1>4. Adds(k, f, d)
  <2>1. \A s \in SUBSET d : k[s] = IF s = {} THEN 0 ELSE f[Any(s)] + k[Remaining(s)]
    BY <1>3
  <2> QED
    BY <2>1 DEF Adds
<1> QED
  BY <1>1, <1>4

LEMMA TotalIs ==
  ASSUME NEW N, IsFiniteSet(N), NEW f, NEW S \in SUBSET N
  PROVE  \E h : Adds(h, f, S) /\ Total(f, S) = h[S]
<1> DEFINE g == CHOOSE h : Adds(h, f, S)
<1>1. Adds(g, f, S)
  BY AddsExists
<1>2. Total(f, S) = g[S]
  BY DEF Total, Engine!FoldFunctionOnSet, Engine!MapThenFoldSet, Adds, Any, Remaining
<1> QED
  BY <1>1, <1>2

LEMMA TotalSteps ==
  ASSUME NEW N, IsFiniteSet(N), NEW f, NEW S \in SUBSET N
  PROVE  Total(f, S) = IF S = {} THEN 0 ELSE f[Any(S)] + Total(f, Remaining(S))
<1>1. PICK h : Adds(h, f, S) /\ Total(f, S) = h[S]
  BY TotalIs
<1>2. h[S] = IF S = {} THEN 0 ELSE f[Any(S)] + h[Remaining(S)]
  BY <1>1 DEF Adds
<1>3. ASSUME S # {}
      PROVE  h[Remaining(S)] = Total(f, Remaining(S))
  <2>1. Remaining(S) \in SUBSET N /\ Remaining(S) \in SUBSET S
    BY <1>3, AnyIs
  <2>2. PICK g : Adds(g, f, Remaining(S)) /\ Total(f, Remaining(S)) = g[Remaining(S)]
    BY <2>1, TotalIs
  <2>3. \A s \in SUBSET (S \intersect Remaining(S)) : h[s] = g[s]
    BY <1>1, <2>1, <2>2, AddsUnique
  <2> QED
    BY <2>1, <2>2, <2>3
<1> QED
  BY <1>1, <1>2, <1>3

LEMMA TotalNat ==
  ASSUME NEW N, IsFiniteSet(N), NEW f \in [N -> Nat]
  PROVE  \A S \in SUBSET N : Total(f, S) \in Nat
<1> DEFINE T == {S \in SUBSET N : Total(f, S) \notin Nat}
<1> SUFFICES ASSUME T # {}
             PROVE  FALSE
  OBVIOUS
<1>1. PICK d \in T : \A e \in T : ~(e \subseteq d /\ d # e)
  <2>1. T \subseteq SUBSET N
    OBVIOUS
  <2> HIDE DEF T
  <2> QED
    BY <2>1, Smallest
<1>2. Total(f, d) = IF d = {} THEN 0 ELSE f[Any(d)] + Total(f, Remaining(d))
  BY <1>1, TotalSteps
<1>3. d # {}
  BY <1>1, <1>2
<1>4. Any(d) \in N /\ Remaining(d) \in SUBSET N /\ Remaining(d) \notin T
  BY <1>1, <1>3, AnyIs
<1> QED
  BY <1>1, <1>2, <1>3, <1>4

\* A sum may be taken in any order.
LEMMA TotalWithout ==
  ASSUME NEW N, IsFiniteSet(N), NEW f \in [N -> Nat]
  PROVE  \A S \in SUBSET N : \A x \in S : Total(f, S) = f[x] + Total(f, S \ {x})
<1> DEFINE Fine(S) == \A x \in S : Total(f, S) = f[x] + Total(f, S \ {x})
           T == {S \in SUBSET N : ~Fine(S)}
<1> SUFFICES ASSUME T # {}
             PROVE  FALSE
  OBVIOUS
<1>1. PICK d \in T : \A e \in T : ~(e \subseteq d /\ d # e)
  <2>1. T \subseteq SUBSET N
    OBVIOUS
  <2> HIDE DEF T
  <2> QED
    BY <2>1, Smallest
<1>2. \A e \in SUBSET d : e # d => Fine(e)
  <2> HIDE DEF Fine
  <2> QED
    BY <1>1
<1>3. PICK x \in d : Total(f, d) # f[x] + Total(f, d \ {x})
  BY <1>1
<1> HIDE DEF Fine, T
<1> DEFINE c == Any(d)
<1>4. d \in SUBSET N
  BY <1>1 DEF T
<1>5. c \in d /\ Remaining(d) = d \ {c}
  BY <1>3, AnyIs DEF Remaining
<1>6. Total(f, d) = f[c] + Total(f, d \ {c})
  <2>1. Total(f, d) = IF d = {} THEN 0 ELSE f[Any(d)] + Total(f, Remaining(d))
    BY <1>4, TotalSteps
  <2> QED
    BY <1>3, <1>5, <2>1
<1> HIDE DEF c
<1>7. x # c
  BY <1>3, <1>6
<1>8. d \ {c} \in SUBSET d /\ d \ {c} # d /\ d \ {x} \in SUBSET d /\ d \ {x} # d
  BY <1>3, <1>5
<1>9. Total(f, d \ {c}) = f[x] + Total(f, (d \ {c}) \ {x})
  BY <1>2, <1>3, <1>7, <1>8 DEF Fine
<1>10. Total(f, d \ {x}) = f[c] + Total(f, (d \ {x}) \ {c})
  BY <1>2, <1>5, <1>7, <1>8 DEF Fine
<1>11. (d \ {x}) \ {c} = (d \ {c}) \ {x}
  OBVIOUS
<1>12. Total(f, (d \ {c}) \ {x}) \in Nat /\ f[x] \in Nat /\ f[c] \in Nat
  <2>1. (d \ {c}) \ {x} \in SUBSET N /\ x \in N /\ c \in N
    BY <1>3, <1>4, <1>5
  <2> QED
    BY <2>1, TotalNat
<1>13. ASSUME NEW p \in Nat, NEW q \in Nat, NEW r \in Nat PROVE p + (q + r) = q + (p + r)
  BY <1>13
<1>14. f[c] + (f[x] + Total(f, (d \ {c}) \ {x})) = f[x] + (f[c] + Total(f, (d \ {c}) \ {x}))
  BY <1>12, <1>13
<1> QED
  BY <1>3, <1>6, <1>9, <1>10, <1>11, <1>14

LEMMA TotalZero ==
  ASSUME NEW N, IsFiniteSet(N), NEW f \in [N -> Nat], NEW S \in SUBSET N
  PROVE  Total(f, S) = 0 <=> \A x \in S : f[x] = 0
<1>1. ASSUME Total(f, S) = 0, NEW x \in S
      PROVE  f[x] = 0
  <2>1. Total(f, S) = f[x] + Total(f, S \ {x})
    BY TotalWithout
  <2>2. Total(f, S \ {x}) \in Nat /\ f[x] \in Nat
    BY TotalNat
  <2> QED
    BY <1>1, <2>1, <2>2
<1>2. ASSUME \A x \in S : f[x] = 0
      PROVE  Total(f, S) = 0
  <2> DEFINE T == {s \in SUBSET S : Total(f, s) # 0}
  <2> SUFFICES ASSUME T # {}
               PROVE  FALSE
    OBVIOUS
  <2>1. PICK d \in T : \A e \in T : ~(e \subseteq d /\ d # e)
    <3>1. T \subseteq SUBSET N
      OBVIOUS
    <3> HIDE DEF T
    <3> QED
      BY <3>1, Smallest
  <2>2. Total(f, d) = IF d = {} THEN 0 ELSE f[Any(d)] + Total(f, Remaining(d))
    BY <2>1, TotalSteps
  <2>3. d # {}
    BY <2>1, <2>2
  <2>4. Any(d) \in S /\ Remaining(d) \in SUBSET S /\ Remaining(d) \notin T
    BY <2>1, <2>3, AnyIs
  <2> QED
    BY <1>2, <2>1, <2>2, <2>3, <2>4
<1> QED
  BY <1>1, <1>2

-----------------------------------------------------------------------------
(* The in-process engine counts how often a node is named *)

Depends(w) == [n \in EngineNodes |-> {d \in EngineNodes : w[n][d] > 0}]

CountedLeft(w, done) ==
  {n \in EngineNodes \ done :
     Engine!FoldFunctionOnSet(LAMBDA k, sum : k + sum, 0, w[n], EngineNodes \ done) = 0}

\* The recursive function that Accepted evaluates.
CountedVisits(f, w) ==
  f = [done \in SUBSET EngineNodes |->
         IF CountedLeft(w, done) = {} THEN done ELSE f[done \union {CHOOSE n \in CountedLeft(w, done) : TRUE}]]

\* Naming a node twice makes no difference to the check (agent/workflow.py:259).
THEOREM CountedKahnExact ==
  ASSUME NEW w \in Uses
  PROVE  Engine!Accepted(w) <=> ~Circular(EngineNodes, Depends(w))
<1> DEFINE g == Depends(w)
           f == CHOOSE h : CountedVisits(h, w)
<1>0. IsFiniteSet(EngineNodes) /\ w \in [EngineNodes -> [EngineNodes -> Nat]]
  BY EngineConstants
<1>1. ASSUME NEW done \in SUBSET EngineNodes
      PROVE  CountedLeft(w, done) = Left(EngineNodes, g, done)
  <2>1. ASSUME NEW n \in EngineNodes
        PROVE  Engine!FoldFunctionOnSet(LAMBDA k, sum : k + sum, 0, w[n], EngineNodes \ done) = 0
                 <=> g[n] \subseteq done
    <3>1. w[n] \in [EngineNodes -> Nat] /\ EngineNodes \ done \in SUBSET EngineNodes
      BY <1>0
    <3>2. Total(w[n], EngineNodes \ done) = 0 <=> \A d \in EngineNodes \ done : w[n][d] = 0
      BY <1>0, <3>1, TotalZero
    <3>3. g[n] = {d \in EngineNodes : w[n][d] > 0}
      BY DEF Depends
    <3>4. (\A d \in EngineNodes \ done : w[n][d] = 0) <=> g[n] \subseteq done
      BY <3>1, <3>3
    <3> QED
      BY <3>2, <3>4 DEF Total
  <2> QED
    BY <2>1 DEF CountedLeft, Left
<1>2. \A h : CountedVisits(h, w) <=> Visits(EngineNodes, h, g)
  <2> TAKE h
  <2> DEFINE One(done) == IF CountedLeft(w, done) = {} THEN done
                          ELSE h[done \union {CHOOSE n \in CountedLeft(w, done) : TRUE}]
             Two(done) == IF Left(EngineNodes, g, done) = {} THEN done
                          ELSE h[done \union {CHOOSE n \in Left(EngineNodes, g, done) : TRUE}]
  <2>1. \A done \in SUBSET EngineNodes : One(done) = Two(done)
    BY <1>1
  <2>2. [done \in SUBSET EngineNodes |-> One(done)] = [done \in SUBSET EngineNodes |-> Two(done)]
    <3> HIDE DEF One, Two
    <3> QED
      BY <2>1
  <2> QED
    BY <2>2 DEF CountedVisits, Visits
<1>3. \E h : CountedVisits(h, w)
  BY <1>2, VisitsExists
<1>4. CountedVisits(f, w)
  BY <1>3
<1>5. Engine!Accepted(w) <=> f[{}] = EngineNodes
  BY DEF Engine!Accepted, CountedVisits, CountedLeft
<1>6. g \in [EngineNodes -> SUBSET EngineNodes]
  BY DEF Depends
<1> HIDE DEF f, g
<1>7. f[{}] = EngineNodes <=> ~Circular(EngineNodes, g)
  BY <1>0, <1>2, <1>4, <1>6, VisitsAll
<1> QED
  BY <1>5, <1>7 DEF g

-----------------------------------------------------------------------------
(* The inductive invariant of the in-process engine *)

\* The dependencies of d whose workers have yet to tell it.
Waits(d) == {n \in EngineNodes : uses[d][n] > 0 /\ (results[n] = "none" \/ d \in workers[n].tell)}

\* Of a worker that was cancelled or failed the in-degrees are not told.
Counts(d) == \E U \in SUBSET EngineNodes : Waits(d) \subseteq U /\ inDegrees[d] = Total(uses[d], U)

Queued(d) == \E i \in DOMAIN channel : channel[i] = d
Sent(d) == workers[d].at # "none" \/ Queued(d)

Channeled ==
  /\ \A i \in DOMAIN channel : workers[channel[i]].at = "none"
  /\ \A i, j \in DOMAIN channel : channel[i] = channel[j] => i = j

Supported(n) == \A d \in Engine!DependsOn(n) : results[d] = "completed"

WorkerFits(n) ==
  /\ workers[n].tell \subseteq Engine!Dependents(n) /\ (workers[n].tell # {} => workers[n].at = "telling")
  /\ workers[n].at \in {"none", "scheduled", "running"} => results[n] = "none"
  /\ workers[n].at \in {"none", "scheduled"} => ~workers[n].ran
  /\ workers[n].at = "running" => workers[n].ran /\ Supported(n)
  /\ workers[n].at = "telling" => results[n] \in {"completed", "skipped"}
  /\ workers[n].at = "over" => cancelled \/ results[n] \in {"completed", "skipped"}

Begun == {n \in EngineNodes : workers[n].at # "none"}
Failed == \E n \in EngineNodes : results[n] = "failed"

LoopFits ==
  /\ received = Cardinality(Begun)
  /\ loop = "new" => channel = <<>> /\ Begun = {}
  /\ loop = "exiting" => cancelled \/ received = Engine!NodeCount
  /\ loop \notin {"looping", "exiting", "stalled"} => Engine!Over
  /\ cancelled => Failed \/ loop \in {"stalled", "gaveUp"}

EngineInv ==
  /\ Engine!TypeOK
  /\ \A d \in EngineNodes : Counts(d) /\ (Sent(d) => Waits(d) = {})
  /\ Channeled
  /\ \A n \in EngineNodes : WorkerFits(n)
  /\ LoopFits

WorkerStates == [at : {"none", "scheduled", "running", "telling", "over"},
                 tell : SUBSET EngineNodes, ran : BOOLEAN]

Moved(w, at, tell) == [w EXCEPT !.at = at, !.tell = tell]

LEMMA WorkerMoves ==
  ASSUME NEW w \in WorkerStates, NEW at \in {"telling", "over"}, NEW tell \in SUBSET EngineNodes
  PROVE  /\ Moved(w, at, tell) \in WorkerStates
         /\ Moved(w, at, tell).at = at /\ Moved(w, at, tell).tell = tell
         /\ Moved(w, at, tell).ran <=> w.ran
BY DEF Moved, WorkerStates

LEMMA EngineTypes ==
  ASSUME Engine!TypeOK
  PROVE  /\ workers \in [EngineNodes -> WorkerStates] /\ uses \in [EngineNodes -> [EngineNodes -> Nat]]
         /\ \A n \in EngineNodes : Engine!DependsOn(n) \subseteq EngineNodes /\ Engine!Dependents(n) \subseteq EngineNodes
  BY EngineConstants DEF Engine!TypeOK, WorkerStates, Engine!DependsOn, Engine!Dependents

LEMMA CountsKept ==
  ASSUME NEW d \in EngineNodes, Counts(d), UNCHANGED uses, inDegrees'[d] = inDegrees[d],
         Waits(d)' \subseteq Waits(d)
  PROVE  Counts(d)'
<1>1. PICK U \in SUBSET EngineNodes : Waits(d) \subseteq U /\ inDegrees[d] = Total(uses[d], U)
  BY DEF Counts
<1>2. Total(uses[d], U)' = Total(uses[d], U)
  BY DEF Total, Engine!FoldFunctionOnSet, Engine!MapThenFoldSet
<1> QED
  BY <1>1, <1>2 DEF Counts

LEMMA EngineInit == Engine!Init => EngineInv
<1> SUFFICES ASSUME Engine!Init
             PROVE  EngineInv
  OBVIOUS
<1>0. uses \in [EngineNodes -> [EngineNodes -> Nat]] /\ IsFiniteSet(EngineNodes) /\ Engine!NodeCount \in Nat
  BY EngineConstants, SameSets, FS_CardinalityType DEF Engine!Init, Engine!NodeCount
<1>1. ASSUME NEW n \in EngineNodes
      PROVE  inDegrees[n] = Total(uses[n], EngineNodes) /\ inDegrees[n] \in Nat
  <2>1. Engine!InDegree(uses, n) = Total(uses[n], DOMAIN uses[n])
    BY DEF Engine!InDegree, Engine!FoldFunction, Total
  <2>2. DOMAIN uses[n] = EngineNodes /\ uses[n] \in [EngineNodes -> Nat]
    BY <1>0
  <2>3. Total(uses[n], EngineNodes) \in Nat
    BY <1>0, <2>2, TotalNat
  <2> QED
    BY <2>1, <2>2, <2>3 DEF Engine!Init
<1>2. Engine!TypeOK
  <2>1. workers \in [EngineNodes -> WorkerStates]
    BY DEF Engine!Init, WorkerStates
  <2>2. inDegrees \in [EngineNodes -> Nat]
    BY <1>1 DEF Engine!Init
  <2>3. channel \in Seq(EngineNodes)
    BY DEF Engine!Init
  <2>4. received \in 0..Engine!NodeCount
    BY <1>0 DEF Engine!Init
  <2>5. results \in [EngineNodes -> {"none", "completed", "failed", "skipped"}]
    BY DEF Engine!Init
  <2>6. uses \in Uses /\ loop = "new" /\ cancelled = FALSE
    BY DEF Engine!Init
  <2> QED
    BY <2>1, <2>2, <2>3, <2>4, <2>5, <2>6 DEF Engine!TypeOK, WorkerStates
<1>3. \A d \in EngineNodes : Counts(d)
  BY <1>1 DEF Counts, Waits
<1>4. DOMAIN channel = {}
  BY DEF Engine!Init
<1>5. Begun = {} /\ Engine!Over
  BY DEF Engine!Init, Begun, Engine!Over
<1>6. LoopFits
  BY <1>5, FS_EmptySet DEF Engine!Init, LoopFits
<1> QED
  BY <1>2, <1>3, <1>4, <1>5, <1>6 DEF Engine!Init, EngineInv, Sent, Queued, Channeled, WorkerFits, Begun

\* Only the loop or the scope moves on.
LEMMA LoopMoves ==
  ASSUME EngineInv, LoopFits',
         loop' \in {"new", "looping", "exiting", "stalled", "rejected", "returned", "raised", "gaveUp"},
         cancelled' \in BOOLEAN, cancelled => cancelled', UNCHANGED <<uses, inDegrees, channel, received, workers, results>>
  PROVE  EngineInv'
<1>1. Engine!TypeOK'
  BY DEF EngineInv, Engine!TypeOK
<1>2. \A d \in EngineNodes : Counts(d)' /\ (Sent(d) => Waits(d) = {})'
  BY CountsKept DEF EngineInv, Waits, Sent, Queued
<1>3. Channeled'
  BY DEF EngineInv, Channeled
<1>4. \A n \in EngineNodes : WorkerFits(n)'
  BY DEF EngineInv, WorkerFits, Supported, Engine!DependsOn, Engine!Dependents
<1> QED
  BY <1>1, <1>2, <1>3, <1>4 DEF EngineInv

LEMMA SettlesKeeps ==
  ASSUME EngineInv, NEW n \in EngineNodes, NEW result \in {"completed", "failed", "skipped"},
         workers[n].at \in {"scheduled", "running"}, Engine!Settles(n, result)
  PROVE  EngineInv'
<1>0. /\ Engine!TypeOK
      /\ workers \in [EngineNodes -> WorkerStates] /\ uses \in [EngineNodes -> [EngineNodes -> Nat]]
      /\ Engine!Dependents(n) \subseteq EngineNodes /\ WorkerFits(n)
  BY EngineTypes DEF EngineInv
<1>1. /\ results[n] = "none" /\ results' = [results EXCEPT ![n] = result]
      /\ workers[n].tell = {} /\ (cancelled' <=> cancelled \/ result = "failed")
      /\ UNCHANGED <<uses, inDegrees, channel, received, loop>>
  BY <1>0 DEF Engine!Settles, WorkerFits
<1>2. \E w \in WorkerStates :
        /\ workers' = [workers EXCEPT ![n] = w]
        /\ IF result = "failed" THEN w.at = "over" /\ w.tell = {}
           ELSE w.at = "telling" /\ w.tell = Engine!Dependents(n)
  <2>1. CASE result = "failed"
    <3> DEFINE w == [workers[n] EXCEPT !.at = "over"]
    <3>1. w \in WorkerStates /\ w.at = "over" /\ w.tell = {}
      BY <1>0, <1>1 DEF WorkerStates
    <3>2. workers' = [workers EXCEPT ![n] = w]
      BY <2>1 DEF Engine!Settles
    <3> QED
      BY <2>1, <3>1, <3>2
  <2>2. CASE result # "failed"
    <3> DEFINE w == Moved(workers[n], "telling", Engine!Dependents(n))
    <3>1. w \in WorkerStates /\ w.at = "telling" /\ w.tell = Engine!Dependents(n)
      BY <1>0, WorkerMoves
    <3>2. workers' = [workers EXCEPT ![n] = w]
      BY <2>2 DEF Engine!Settles, Moved
    <3> QED
      BY <2>2, <3>1, <3>2
  <2> QED
    BY <2>1, <2>2
<1>3. PICK w \in WorkerStates :
        /\ workers' = [workers EXCEPT ![n] = w]
        /\ IF result = "failed" THEN w.at = "over" /\ w.tell = {}
           ELSE w.at = "telling" /\ w.tell = Engine!Dependents(n)
  BY <1>2
<1>4. /\ workers' \in [EngineNodes -> WorkerStates] /\ workers'[n] = w
      /\ \A m \in EngineNodes : m # n => workers'[m] = workers[m]
  BY <1>0, <1>3
<1>5. /\ results' \in [EngineNodes -> {"none", "completed", "failed", "skipped"}] /\ results'[n] = result
      /\ \A m \in EngineNodes : m # n => results'[m] = results[m]
  BY <1>0, <1>1 DEF Engine!TypeOK
<1>6. Engine!TypeOK'
  BY <1>0, <1>1, <1>4, <1>5 DEF Engine!TypeOK, WorkerStates
<1>7. ASSUME NEW d \in EngineNodes
      PROVE  Waits(d)' \subseteq Waits(d) /\ (Sent(d)' <=> Sent(d))
  BY <1>1, <1>3, <1>4, <1>5 DEF Waits, Sent, Queued
<1>8. \A d \in EngineNodes : Counts(d)' /\ (Sent(d) => Waits(d) = {})'
  <2> SUFFICES ASSUME NEW d \in EngineNodes
               PROVE  Counts(d)' /\ (Sent(d) => Waits(d) = {})'
    OBVIOUS
  <2>1. Counts(d) /\ (Sent(d) => Waits(d) = {})
    BY DEF EngineInv
  <2>2. Counts(d)'
    BY <1>1, <1>7, <2>1, CountsKept
  <2> QED
    BY <1>7, <2>1, <2>2
<1>9. Channeled'
  <2>1. \A i \in DOMAIN channel : channel[i] \in EngineNodes
    BY <1>0 DEF Engine!TypeOK
  <2> QED
    BY <1>1, <1>4, <2>1 DEF EngineInv, Channeled
<1>10. ASSUME NEW m \in EngineNodes
       PROVE  WorkerFits(m)'
  <2>1. CASE m = n
    BY <1>1, <1>3, <1>4, <1>5, <2>1 DEF WorkerFits, Engine!Dependents
  <2>2. CASE m # n
    <3>1. /\ WorkerFits(m) /\ workers'[m] = workers[m]
          /\ results'[m] = results[m] /\ Engine!DependsOn(m) \subseteq EngineNodes
      BY <1>4, <1>5, <2>2 DEF EngineInv, Engine!DependsOn
    <3>2. Supported(m) => Supported(m)'
      BY <1>1, <1>5, <3>1 DEF Supported, Engine!DependsOn
    <3> QED
      BY <1>1, <3>1, <3>2 DEF WorkerFits, Engine!Dependents
  <2> QED
    BY <2>1, <2>2
<1>11. Begun' = Begun
  BY <1>3, <1>4 DEF Begun
<1>12. LoopFits'
  <2>1. ~Engine!Over
    BY DEF Engine!Over
  <2>2. Failed => Failed'
    BY <1>1, <1>5 DEF Failed
  <2>3. result = "failed" => Failed'
    BY <1>5 DEF Failed
  <2>4. n \in Begun
    BY DEF Begun
  <2> QED
    BY <1>1, <1>11, <2>1, <2>2, <2>3, <2>4 DEF EngineInv, LoopFits, Engine!NodeCount
<1> QED
  BY <1>6, <1>8, <1>9, <1>10, <1>12 DEF EngineInv


\* A worker goes on to another place, and perhaps gives up telling.
LEMMA PlaceKeeps ==
  ASSUME EngineInv, NEW n \in EngineNodes, NEW w \in WorkerStates,
         workers' = [workers EXCEPT ![n] = w],
         workers[n].at # "none", w.at # "none", w.tell \subseteq workers[n].tell,
         UNCHANGED <<uses, inDegrees, channel, received, loop, results, cancelled>>,
         loop \in {"looping", "exiting", "stalled"}, WorkerFits(n)'
  PROVE  EngineInv'
<1>0. /\ Engine!TypeOK
      /\ workers \in [EngineNodes -> WorkerStates] /\ uses \in [EngineNodes -> [EngineNodes -> Nat]]
  BY EngineTypes DEF EngineInv
<1>1. /\ workers' \in [EngineNodes -> WorkerStates] /\ workers'[n] = w
      /\ \A m \in EngineNodes : m # n => workers'[m] = workers[m]
  BY <1>0
<1>2. Engine!TypeOK'
  BY <1>0, <1>1 DEF Engine!TypeOK, WorkerStates
<1>3. ASSUME NEW d \in EngineNodes
      PROVE  Counts(d)' /\ (Sent(d) => Waits(d) = {})'
  <2>1. Waits(d)' \subseteq Waits(d) /\ (Sent(d)' <=> Sent(d))
    BY <1>1 DEF Waits, Sent, Queued
  <2>2. Counts(d) /\ (Sent(d) => Waits(d) = {})
    BY DEF EngineInv
  <2>3. Counts(d)'
    BY <2>1, <2>2, CountsKept
  <2> QED
    BY <2>1, <2>2, <2>3
<1>4. Channeled'
  <2>1. \A i \in DOMAIN channel : channel[i] \in EngineNodes
    BY <1>0 DEF Engine!TypeOK
  <2> QED
    BY <1>1, <2>1 DEF EngineInv, Channeled
<1>5. ASSUME NEW m \in EngineNodes, m # n
      PROVE  WorkerFits(m)'
  BY <1>1, <1>5 DEF EngineInv, WorkerFits, Supported, Engine!DependsOn, Engine!Dependents
<1>6. Begun' = Begun
  BY <1>1 DEF Begun
<1>7. LoopFits'
  BY <1>6 DEF EngineInv, LoopFits, Failed, Engine!NodeCount
<1> QED
  BY <1>2, <1>3, <1>4, <1>5, <1>7 DEF EngineInv

\* While a worker is at work the loop is not over.
LEMMA AtWork ==
  ASSUME EngineInv, NEW n \in EngineNodes, workers[n].at \notin {"none", "over"}
  PROVE  loop \in {"looping", "exiting", "stalled"}
  BY DEF EngineInv, LoopFits, Engine!Over

LEMMA StartSupported ==
  ASSUME EngineInv, NEW n \in EngineNodes, workers[n].at = "scheduled", ~Engine!Behind(n)
  PROVE  Supported(n)
<1>1. Waits(n) = {}
  BY DEF EngineInv, Sent
<1> QED
  BY <1>1 DEF Waits, Engine!Behind, Supported, Engine!DependsOn

LEMMA StartKeeps == ASSUME EngineInv, NEW n \in EngineNodes, Engine!StartHandler(n) PROVE EngineInv'
<1> DEFINE w == [workers[n] EXCEPT !.at = "running", !.ran = TRUE]
<1>1. workers \in [EngineNodes -> WorkerStates] /\ workers[n].at = "scheduled" /\ WorkerFits(n)
  BY EngineTypes DEF EngineInv, Engine!StartHandler
<1>2. w \in WorkerStates /\ w.at = "running" /\ w.ran /\ w.tell = workers[n].tell
  BY <1>1 DEF WorkerStates
<1>3. workers' = [workers EXCEPT ![n] = w]
  BY <1>1 DEF Engine!StartHandler, WorkerStates
<1>4. workers'[n] = w
  BY <1>1, <1>3
<1>5. Supported(n)
  BY <1>1, StartSupported DEF Engine!StartHandler
<1>6. WorkerFits(n)'
  BY <1>1, <1>2, <1>4, <1>5 DEF WorkerFits, Engine!StartHandler, Supported, Engine!DependsOn,
      Engine!Dependents
<1>7. loop \in {"looping", "exiting", "stalled"}
  BY <1>1, AtWork
<1> HIDE DEF w
<1> QED
  BY <1>1, <1>2, <1>3, <1>6, <1>7, PlaceKeeps DEF Engine!StartHandler

LEMMA OverKeeps ==
  ASSUME EngineInv, NEW n \in EngineNodes, Engine!Told(n) \/ Engine!Cancelled(n)
  PROVE  EngineInv'
<1> DEFINE w == Moved(workers[n], "over", {})
<1>1. workers \in [EngineNodes -> WorkerStates] /\ workers[n].at \in {"running", "telling"} /\ WorkerFits(n)
  BY EngineTypes DEF EngineInv, Engine!Told, Engine!Cancelled
<1>2. w \in WorkerStates /\ w.at = "over" /\ w.tell = {} /\ (w.ran <=> workers[n].ran)
  BY <1>1, WorkerMoves
<1>3. workers' = [workers EXCEPT ![n] = w]
  <2>1. CASE Engine!Told(n)
    <3>1. [workers[n] EXCEPT !.at = "over"] = w
      BY <1>1, <2>1 DEF Engine!Told, WorkerStates, Moved
    <3> QED
      BY <2>1, <3>1 DEF Engine!Told
  <2>2. CASE Engine!Cancelled(n)
    BY <1>1, <2>2 DEF Engine!Cancelled, Moved
  <2> QED
    BY <2>1, <2>2
<1>4. workers'[n] = w
  BY <1>1, <1>3
<1>5. UNCHANGED <<uses, inDegrees, channel, received, loop, results, cancelled>>
  BY DEF Engine!Told, Engine!Cancelled
<1>6. WorkerFits(n)'
  BY <1>1, <1>2, <1>4, <1>5 DEF WorkerFits, Engine!Told, Engine!Cancelled
<1>7. loop \in {"looping", "exiting", "stalled"}
  BY <1>1, AtWork
<1> HIDE DEF w
<1> QED
  BY <1>1, <1>2, <1>3, <1>5, <1>6, <1>7, PlaceKeeps

LEMMA TellKeeps == ASSUME EngineInv, NEW n \in EngineNodes, Engine!Tell(n) PROVE EngineInv'
<1>1. PICK d \in workers[n].tell :
        LET left == inDegrees[d] - uses[d][n]
        IN  /\ workers[n].at = "telling" /\ (left = 0 => ~cancelled)
            /\ inDegrees' = [inDegrees EXCEPT ![d] = left]
            /\ channel' = IF left = 0 THEN Append(channel, d) ELSE channel
            /\ workers' = [workers EXCEPT ![n].tell = @ \ {d}]
            /\ UNCHANGED <<uses, received, loop, results, cancelled>>
  BY DEF Engine!Tell
<1> DEFINE left == inDegrees[d] - uses[d][n]
           w == [workers[n] EXCEPT !.tell = @ \ {d}]
<1>2. /\ Engine!TypeOK
      /\ workers \in [EngineNodes -> WorkerStates] /\ uses \in [EngineNodes -> [EngineNodes -> Nat]]
      /\ inDegrees \in [EngineNodes -> Nat] /\ channel \in Seq(EngineNodes) /\ IsFiniteSet(EngineNodes)
  BY EngineTypes, EngineConstants DEF EngineInv, Engine!TypeOK
<1>3. d \in EngineNodes /\ uses[d][n] > 0 /\ results[n] # "none" /\ WorkerFits(n)
  BY <1>1, <1>2 DEF EngineInv, WorkerFits, Engine!Dependents
<1>4. n \in Waits(d) /\ Counts(d) /\ ~Sent(d)
  BY <1>1, <1>3 DEF EngineInv, Waits
<1>5. /\ w \in WorkerStates /\ w.at = "telling" /\ w.tell = workers[n].tell \ {d}
      /\ w.ran = workers[n].ran
  <2>1. workers[n] \in WorkerStates /\ workers[n].at = "telling"
    BY <1>1, <1>2
  <2> QED
    BY <2>1 DEF WorkerStates
<1>6. /\ workers' \in [EngineNodes -> WorkerStates] /\ workers'[n] = w
      /\ \A m \in EngineNodes : m # n => workers'[m] = workers[m]
  BY <1>1, <1>2, <1>5
<1>7. UNCHANGED <<uses, received, loop, results, cancelled>>
  BY <1>1
<1>8. PICK U \in SUBSET EngineNodes : Waits(d) \subseteq U /\ inDegrees[d] = Total(uses[d], U)
  BY <1>4 DEF Counts
<1>9. left = Total(uses[d], U \ {n}) /\ left \in Nat
  <2>1. uses[d] \in [EngineNodes -> Nat] /\ n \in U /\ U \ {n} \in SUBSET EngineNodes
    BY <1>2, <1>3, <1>4, <1>8
  <2>2. Total(uses[d], U) = uses[d][n] + Total(uses[d], U \ {n})
    <3>1. \A f \in [EngineNodes -> Nat] : \A S \in SUBSET EngineNodes : \A x \in S : Total(f, S) = f[x] + Total(f, S \ {x})
      BY <1>2, TotalWithout
    <3> QED
      BY <2>1, <3>1
  <2>3. Total(uses[d], U \ {n}) \in Nat /\ uses[d][n] \in Nat
    BY <1>2, <2>1, TotalNat
  <2> QED
    BY <1>8, <2>2, <2>3
<1>10. /\ inDegrees' \in [EngineNodes -> Nat] /\ inDegrees'[d] = left
       /\ \A e \in EngineNodes : e # d => inDegrees'[e] = inDegrees[e]
  BY <1>1, <1>2, <1>3, <1>9
<1>11. channel' = (IF left = 0 THEN Append(channel, d) ELSE channel) /\ channel' \in Seq(EngineNodes)
  BY <1>1, <1>2, <1>3
<1> HIDE DEF w, left
<1>12. Engine!TypeOK'
  BY <1>2, <1>6, <1>7, <1>10, <1>11 DEF Engine!TypeOK, WorkerStates
<1>13. Waits(d)' \subseteq U \ {n}
  BY <1>3, <1>5, <1>6, <1>7, <1>8 DEF Waits
<1>14. Counts(d)'
  <2>1. Total(uses[d], U \ {n})' = Total(uses[d], U \ {n})
    BY <1>7 DEF Total, Engine!FoldFunctionOnSet, Engine!MapThenFoldSet
  <2>2. U \ {n} \in SUBSET EngineNodes
    OBVIOUS
  <2> QED
    BY <1>9, <1>10, <1>13, <2>1, <2>2 DEF Counts
<1>15. left = 0 => Waits(d)' = {}
  <2>1. uses[d] \in [EngineNodes -> Nat] /\ U \ {n} \in SUBSET EngineNodes
    BY <1>2, <1>3
  <2>2. left = 0 => \A x \in U \ {n} : uses[d][x] = 0
    <3>1. \A f \in [EngineNodes -> Nat] : \A S \in SUBSET EngineNodes : Total(f, S) = 0 <=> \A x \in S : f[x] = 0
      BY <1>2, TotalZero
    <3> QED
      BY <1>9, <2>1, <3>1
  <2> QED
    BY <1>7, <1>13, <2>1, <2>2 DEF Waits
<1>16. \A e \in EngineNodes : Queued(e)' <=> Queued(e) \/ (left = 0 /\ e = d)
  <2>1. CASE left # 0
    BY <1>11, <2>1 DEF Queued
  <2>2. CASE left = 0
    <3>1. /\ channel' = Append(channel, d) /\ DOMAIN channel = 1..Len(channel)
          /\ DOMAIN channel' = 1..(Len(channel) + 1) /\ Len(channel) \in Nat
      BY <1>2, <1>3, <1>11, <2>2
    <3>2. channel'[Len(channel) + 1] = d /\ \A i \in 1..Len(channel) : channel'[i] = channel[i]
      BY <1>2, <1>3, <3>1
    <3> QED
      BY <2>2, <3>1, <3>2 DEF Queued
  <2> QED
    BY <2>1, <2>2
<1>17. \A e \in EngineNodes : workers'[e].at = workers[e].at
  BY <1>1, <1>5, <1>6
<1>18. ASSUME NEW e \in EngineNodes, e # d
       PROVE  Counts(e)' /\ (Sent(e) => Waits(e) = {})'
  <2>1. Waits(e)' \subseteq Waits(e)
    BY <1>5, <1>6, <1>7, <1>18 DEF Waits
  <2>2. Counts(e) /\ (Sent(e) => Waits(e) = {})
    BY DEF EngineInv
  <2>3. Sent(e)' <=> Sent(e)
    BY <1>16, <1>17, <1>18 DEF Sent
  <2>4. Counts(e)'
    BY <1>7, <1>10, <1>18, <2>1, <2>2, CountsKept
  <2> QED
    BY <2>1, <2>2, <2>3, <2>4
<1>19. (Sent(d) => Waits(d) = {})'
  BY <1>3, <1>4, <1>15, <1>16, <1>17 DEF Sent
<1>20. Channeled'
  <2>1. CASE left # 0
    <3>1. \A i \in DOMAIN channel : channel[i] \in EngineNodes
      BY <1>2
    <3> QED
      BY <1>11, <1>17, <2>1, <3>1 DEF EngineInv, Channeled
  <2>2. CASE left = 0
    <3>1. /\ channel' = Append(channel, d) /\ DOMAIN channel = 1..Len(channel)
          /\ DOMAIN channel' = 1..(Len(channel) + 1) /\ Len(channel) \in Nat
      BY <1>2, <1>3, <1>11, <2>2
    <3>2. /\ channel'[Len(channel) + 1] = d
          /\ \A i \in 1..Len(channel) : channel'[i] = channel[i] /\ channel[i] \in EngineNodes
      BY <1>2, <1>3, <3>1
    <3>3. workers[d].at = "none" /\ \A i \in 1..Len(channel) : channel[i] # d
      BY <1>4, <3>1 DEF Sent, Queued
    <3>4. /\ \A i \in 1..Len(channel) : workers[channel[i]].at = "none"
          /\ \A i, j \in 1..Len(channel) : channel[i] = channel[j] => i = j
      BY <3>1 DEF EngineInv, Channeled
    <3>5. \A i \in 1..(Len(channel) + 1) : i \in 1..Len(channel) \/ i = Len(channel) + 1
      BY <3>1
    <3>6. \A i \in 1..(Len(channel) + 1) : workers'[channel'[i]].at = "none"
      BY <1>3, <1>17, <3>2, <3>3, <3>4, <3>5
    <3>7. \A i, j \in 1..(Len(channel) + 1) : channel'[i] = channel'[j] => i = j
      BY <3>2, <3>3, <3>4, <3>5
    <3> QED
      BY <3>1, <3>6, <3>7 DEF Channeled
  <2> QED
    BY <2>1, <2>2
<1>21. ASSUME NEW m \in EngineNodes
       PROVE  WorkerFits(m)'
  <2>1. CASE m = n
    BY <1>1, <1>3, <1>5, <1>6, <1>7, <2>1 DEF WorkerFits, Engine!Dependents
  <2>2. CASE m # n
    BY <1>6, <1>7, <2>2 DEF EngineInv, WorkerFits, Supported, Engine!DependsOn, Engine!Dependents
  <2> QED
    BY <2>1, <2>2
<1>22. LoopFits'
  <2>1. Begun' = Begun
    BY <1>17 DEF Begun
  <2>2. loop \in {"looping", "exiting", "stalled"}
    BY <1>1, AtWork
  <2> QED
    BY <1>7, <2>1, <2>2 DEF EngineInv, LoopFits, Failed, Engine!NodeCount
<1> QED
  BY <1>12, <1>14, <1>18, <1>19, <1>20, <1>21, <1>22 DEF EngineInv

LEMMA ReceiveKeeps == ASSUME EngineInv, Engine!Receive PROVE EngineInv'
<1> DEFINE n == Head(channel)
           w == [workers[n] EXCEPT !.at = "scheduled"]
           len == Len(channel)
<1>1. /\ Engine!TypeOK /\ workers \in [EngineNodes -> WorkerStates]
      /\ channel \in Seq(EngineNodes) /\ channel # <<>>
      /\ IsFiniteSet(EngineNodes)
  BY EngineTypes, EngineConstants DEF EngineInv, Engine!TypeOK, Engine!Receive
<1>2. /\ len \in Nat /\ len > 0 /\ DOMAIN channel = 1..len /\ n = channel[1] /\ n \in EngineNodes
      /\ \A i \in 1..len : channel[i] \in EngineNodes
  BY <1>1
<1>3. /\ channel' = Tail(channel) /\ channel' \in Seq(EngineNodes) /\ DOMAIN channel' = 1..(len - 1)
      /\ \A i \in 1..(len - 1) : channel'[i] = channel[i + 1]
  BY <1>1, <1>2 DEF Engine!Receive
<1>4. /\ workers[n].at = "none" /\ \A i \in 1..len : i # 1 => channel[i] # n
      /\ \A i \in 1..len : workers[channel[i]].at = "none"
      /\ \A i, j \in 1..len : channel[i] = channel[j] => i = j
  BY <1>2 DEF EngineInv, Channeled
<1> HIDE DEF len
<1>5. w \in WorkerStates /\ w.at = "scheduled" /\ w.tell = workers[n].tell /\ (w.ran <=> workers[n].ran)
  BY <1>1, <1>2 DEF WorkerStates
<1>6. /\ workers' \in [EngineNodes -> WorkerStates] /\ workers'[n] = w
      /\ \A m \in EngineNodes : m # n => workers'[m] = workers[m]
  BY <1>1, <1>2, <1>5 DEF Engine!Receive
<1>7. /\ UNCHANGED <<uses, inDegrees, results, cancelled>> /\ ~cancelled /\ loop = "looping"
      /\ received' = received + 1
      /\ loop' = IF received' = Engine!NodeCount THEN "exiting" ELSE "looping"
  BY DEF Engine!Receive
<1>8. /\ Begun' = Begun \union {n} /\ n \notin Begun
      /\ Begun \subseteq EngineNodes /\ Begun' \subseteq EngineNodes
  <2>1. \A m \in EngineNodes : workers'[m].at # "none" <=> workers[m].at # "none" \/ m = n
    BY <1>5, <1>6
  <2> HIDE DEF n, w
  <2> QED
    BY <1>2, <1>4, <2>1 DEF Begun
<1>9. received' = Cardinality(Begun') /\ received' \in 0..Engine!NodeCount
  <2>1. IsFiniteSet(Begun) /\ received = Cardinality(Begun)
    BY <1>1, <1>8, FS_Subset DEF EngineInv, LoopFits
  <2>2. Cardinality(Begun') = Cardinality(Begun) + 1
    BY <1>8, <2>1, FS_AddElement
  <2>3. Cardinality(Begun') <= Engine!NodeCount
    BY <1>1, <1>8, SameSets, FS_Subset DEF Engine!NodeCount
  <2>4. Engine!NodeCount \in Nat /\ Cardinality(Begun) \in Nat
    BY <1>1, <2>1, SameSets, FS_CardinalityType DEF Engine!NodeCount
  <2> QED
    BY <1>7, <2>1, <2>2, <2>3, <2>4
<1> HIDE DEF n, w
<1>10. Engine!TypeOK'
  BY <1>1, <1>3, <1>6, <1>7, <1>9 DEF Engine!TypeOK, WorkerStates, Engine!NodeCount
<1>11. ASSUME NEW d \in EngineNodes
       PROVE  Counts(d)' /\ (Sent(d) => Waits(d) = {})'
  <2>1. Waits(d)' \subseteq Waits(d)
    BY <1>2, <1>5, <1>6, <1>7 DEF Waits
  <2>2. Sent(d)' => Sent(d)
    <3>1. Queued(d)' => Queued(d)
      <4>1. ASSUME NEW i \in 1..(len - 1), channel'[i] = d
            PROVE  Queued(d)
        <5>1. i + 1 \in 1..len /\ channel[i + 1] = d
          BY <1>2, <1>3, <4>1
        <5> QED
          BY <1>2, <5>1 DEF Queued
      <4> QED
        BY <1>3, <4>1 DEF Queued
    <3>2. Queued(n)
      BY <1>2 DEF Queued
    <3> QED
      BY <1>6, <3>1, <3>2 DEF Sent
  <2>3. Counts(d) /\ (Sent(d) => Waits(d) = {})
    BY DEF EngineInv
  <2>4. Counts(d)'
    BY <1>7, <2>1, <2>3, CountsKept
  <2> QED
    BY <2>1, <2>2, <2>3, <2>4
<1>12. Channeled'
  <2>1. \A i \in 1..(len - 1) : i + 1 \in 1..len /\ i + 1 # 1
    BY <1>2
  <2>2. \A i \in 1..(len - 1) : channel'[i] \in EngineNodes /\ channel'[i] # n /\ workers[channel'[i]].at = "none"
    BY <1>2, <1>3, <1>4, <2>1
  <2>3. \A i, j \in 1..(len - 1) : channel'[i] = channel'[j] => i = j
    <3>1. SUFFICES ASSUME NEW i \in 1..(len - 1), NEW j \in 1..(len - 1), channel'[i] = channel'[j]
                   PROVE  i = j
      OBVIOUS
    <3>2. channel[i + 1] = channel[j + 1]
      BY <1>3, <3>1
    <3>3. i + 1 = j + 1
      BY <1>4, <2>1, <3>2
    <3> QED
      BY <1>2, <3>3
  <2> QED
    BY <1>3, <1>6, <2>2, <2>3 DEF Channeled
<1>13. ASSUME NEW m \in EngineNodes
       PROVE  WorkerFits(m)'
  <2>1. CASE m = n
    BY <1>4, <1>5, <1>6, <1>7, <2>1 DEF EngineInv, WorkerFits, Engine!Dependents
  <2>2. CASE m # n
    BY <1>6, <1>7, <2>2 DEF EngineInv, WorkerFits, Supported, Engine!DependsOn, Engine!Dependents
  <2> QED
    BY <2>1, <2>2
<1>14. LoopFits'
  BY <1>7, <1>9 DEF LoopFits, Engine!NodeCount
<1> QED
  BY <1>10, <1>11, <1>12, <1>13, <1>14 DEF EngineInv

\* A set in some order.
LEMMA InOrder ==
  ASSUME NEW S, IsFiniteSet(S)
  PROVE  /\ Engine!SetToSeq(S) \in Seq(S)
         /\ \A i, j \in DOMAIN Engine!SetToSeq(S) : Engine!SetToSeq(S)[i] = Engine!SetToSeq(S)[j] => i = j
<1>1. Cardinality(S) \in Nat /\ \E f : f \in [1..Cardinality(S) -> S] /\ IsInjective(f)
  <2>1. Cardinality(S) \in Nat /\ ExistsBijection(1..Cardinality(S), S)
    BY FS_CardinalityType
  <2>2. PICK f : f \in Bijection(1..Cardinality(S), S)
    BY <2>1 DEF ExistsBijection
  <2>3. f \in [1..Cardinality(S) -> S] /\ IsInjective(f)
    BY <2>2 DEF Bijection, Injection, IsInjective
  <2> QED
    BY <2>1, <2>3
<1>2. Engine!SetToSeq(S) \in [1..Cardinality(S) -> S] /\ IsInjective(Engine!SetToSeq(S))
  <2> DEFINE P(f) == f \in [1..Engine!Cardinality(S) -> S] /\ Engine!IsInjective(f)
  <2>1. \E f : P(f)
    BY <1>1, SameSets DEF Engine!IsInjective, IsInjective
  <2>2. P(Engine!SetToSeq(S))
    <3>1. Engine!SetToSeq(S) = CHOOSE f \in [1..Engine!Cardinality(S) -> S] : Engine!IsInjective(f)
      BY DEF Engine!SetToSeq
    <3> QED
      BY <2>1, <3>1
  <2> QED
    BY <2>2, SameSets DEF Engine!IsInjective, IsInjective
<1> QED
  BY <1>1, <1>2 DEF IsInjective

LEMMA BeginKeeps == ASSUME EngineInv, Engine!Begin PROVE EngineInv'
<1> DEFINE S == {n \in EngineNodes : inDegrees[n] = 0}
<1>1. /\ Engine!TypeOK /\ UNCHANGED <<uses, inDegrees, received, workers, results, cancelled>>
      /\ loop = "new" /\ loop' = IF ~Engine!Accepted(uses) THEN "rejected"
                                ELSE IF EngineNodes = {} THEN "returned" ELSE "looping"
      /\ channel' = IF Engine!Accepted(uses) THEN Engine!SetToSeq(S) ELSE channel
  BY DEF EngineInv, Engine!Begin
<1>3. channel = <<>> /\ \A n \in EngineNodes : workers[n].at = "none"
  BY <1>1 DEF EngineInv, LoopFits, Begun
<1>4. /\ channel' \in Seq(S) /\ \A i, j \in DOMAIN channel' : channel'[i] = channel'[j] => i = j
  <2>1. IsFiniteSet(S)
    BY EngineConstants, FS_Subset
  <2> HIDE DEF S
  <2>2. CASE Engine!Accepted(uses)
    BY <1>1, <2>1, <2>2, InOrder
  <2>3. CASE ~Engine!Accepted(uses)
    BY <1>1, <1>3, <2>3
  <2> QED
    BY <2>2, <2>3
<1>5. channel' \in Seq(EngineNodes) /\ \A i \in DOMAIN channel' : channel'[i] \in S
  BY <1>4
<1>6. Engine!TypeOK'
  BY <1>1, <1>5 DEF Engine!TypeOK, Engine!NodeCount
<1>7. ASSUME NEW d \in EngineNodes
      PROVE  Counts(d)' /\ (Sent(d) => Waits(d) = {})'
  <2>1. Waits(d)' = Waits(d)
    BY <1>1 DEF Waits
  <2>2. PICK U \in SUBSET EngineNodes : Waits(d) \subseteq U /\ inDegrees[d] = Total(uses[d], U)
    BY DEF EngineInv, Counts
  <2>3. Counts(d)'
    BY <1>1, <2>1, CountsKept DEF EngineInv
  <2>4. ASSUME inDegrees[d] = 0
        PROVE  Waits(d) = {}
    <3>1. uses[d] \in [EngineNodes -> Nat] /\ IsFiniteSet(EngineNodes)
      BY <1>1, EngineTypes, EngineConstants
    <3>2. \A x \in U : uses[d][x] = 0
      BY <2>2, <2>4, <3>1, TotalZero
    <3> QED
      BY <2>2, <3>1, <3>2 DEF Waits
  <2>5. Sent(d)' => inDegrees[d] = 0
    BY <1>1, <1>3, <1>5 DEF Sent, Queued
  <2> QED
    BY <2>1, <2>3, <2>4, <2>5
<1>8. Channeled'
  BY <1>1, <1>3, <1>4, <1>5 DEF Channeled
<1>9. \A n \in EngineNodes : WorkerFits(n)'
  BY <1>1 DEF EngineInv, WorkerFits, Supported, Engine!DependsOn, Engine!Dependents
<1>10. LoopFits'
  <2>1. Begun' = Begun /\ Engine!Over'
    BY <1>1, <1>3 DEF Begun, Engine!Over
  <2>2. ~Failed
    BY <1>1, <1>3 DEF EngineInv, WorkerFits, Failed
  <2> QED
    BY <1>1, <2>1, <2>2 DEF EngineInv, LoopFits, Engine!NodeCount, Failed
<1> QED
  BY <1>6, <1>7, <1>8, <1>9, <1>10 DEF EngineInv

LEMMA EngineStep == EngineInv /\ [Engine!Next]_(Engine!vars) => EngineInv'
<1> SUFFICES ASSUME EngineInv, [Engine!Next]_(Engine!vars)
             PROVE  EngineInv'
  OBVIOUS
<1>1. CASE Engine!Stall \/ Engine!Stop
  <2>1. LoopFits'
    BY <1>1 DEF EngineInv, LoopFits, Engine!Stall, Engine!Stop, Begun, Failed, Engine!NodeCount
  <2> QED
    BY <1>1, <2>1, LoopMoves DEF EngineInv, Engine!TypeOK, Engine!Stall, Engine!Stop
<1>2. CASE Engine!Exit
  <2>1. LoopFits'
    BY <1>2 DEF EngineInv, LoopFits, Engine!Exit, Begun, Failed, Engine!NodeCount, Engine!Over
  <2> QED
    BY <1>2, <2>1, LoopMoves DEF EngineInv, Engine!TypeOK, Engine!Exit
<1>3. ASSUME NEW n \in EngineNodes, Engine!Worker(n)
      PROVE  EngineInv'
  <2>1. CASE Engine!Skip(n) \/ Engine!ConditionRaises(n) \/ Engine!HandlerEnds(n)
    BY <2>1, SettlesKeeps DEF Engine!Skip, Engine!ConditionRaises, Engine!HandlerEnds
  <2> QED
    BY <1>3, <2>1, StartKeeps, TellKeeps, OverKeeps DEF Engine!Worker
<1>4. CASE UNCHANGED Engine!vars
  <2>1. LoopFits'
    BY <1>4 DEF EngineInv, LoopFits, Engine!vars, Begun, Failed, Engine!NodeCount, Engine!Over
  <2> QED
    BY <1>4, <2>1, LoopMoves DEF EngineInv, Engine!TypeOK, Engine!vars
<1>5. CASE Engine!Begin \/ Engine!Receive
  BY <1>5, BeginKeeps, ReceiveKeeps
<1> QED
  BY <1>1, <1>2, <1>3, <1>4, <1>5 DEF Engine!Next, Engine!Loop, Engine!Rest

LEMMA EngineInvariance == Engine!Init /\ [][Engine!Next]_(Engine!vars) => []EngineInv
BY EngineInit, EngineStep, PTL

-----------------------------------------------------------------------------
(* The in-process engine implements the abstract run *)

\* The mapped variables.
Needs == [n \in EngineNodes |-> Engine!DependsOn(n)]
Executed == {n \in EngineNodes : workers[n].ran}
Stage ==
  CASE loop = "new" -> "new"
    [] loop \in {"looping", "exiting", "stalled"} -> "running"
    [] loop = "returned" -> "completed"
    [] loop = "raised" -> "failed"
    [] loop = "gaveUp" -> "stalled"
    [] OTHER -> loop

LEMMA StageIs ==
  /\ loop = "new" => Stage = "new"
  /\ loop \in {"looping", "exiting", "stalled"} => Stage = "running"
  /\ loop = "returned" => Stage = "completed"
  /\ loop = "raised" => Stage = "failed"
  /\ loop = "gaveUp" => Stage = "stalled"
  /\ loop = "rejected" => Stage = "rejected"
BY DEF Stage

LEMMA StageIsNext ==
  /\ (loop = "new")' => Stage' = "new"
  /\ (loop \in {"looping", "exiting", "stalled"})' => Stage' = "running"
  /\ (loop = "returned")' => Stage' = "completed"
  /\ (loop = "raised")' => Stage' = "failed"
  /\ (loop = "gaveUp")' => Stage' = "stalled"
  /\ (loop = "rejected")' => Stage' = "rejected"
BY DEF Stage

LEMMA RunVars ==
  /\ Engine!Run!vars = <<Needs, Executed, results, Stage>>
  /\ Engine!Run!vars' = <<Needs', Executed', results', Stage'>>
BY DEF Engine!Run!vars, Needs, Executed, Stage

LEMMA NeedsStay == ASSUME UNCHANGED uses PROVE Needs' = Needs
BY DEF Needs, Engine!DependsOn

\* The worker of a node that has no result yet is on its own; one that starts or settles has
\* what it depends on behind it.
LEMMA SettleRefines ==
  ASSUME EngineInv, NEW n \in EngineNodes, NEW result \in {"completed", "failed", "skipped"},
         \/ workers[n].at = "scheduled" /\ (result = "skipped" \/ (result = "failed" /\ ~Engine!Behind(n)))
         \/ workers[n].at = "running" /\ result \in {"completed", "failed"},
         Engine!Settles(n, result)
  PROVE  Engine!Run!Next
<1>0. /\ Engine!TypeOK /\ workers \in [EngineNodes -> WorkerStates] /\ WorkerFits(n) /\ Waits(n) = {}
      /\ results \in [EngineNodes -> {"none", "completed", "failed", "skipped"}]
  BY EngineTypes DEF EngineInv, Sent, Engine!TypeOK
<1>1. results[n] = "none" /\ results' = [results EXCEPT ![n] = result] /\ UNCHANGED <<uses, loop>>
  BY <1>0 DEF WorkerFits, Engine!Settles
<1>2. Stage = "running" /\ Stage' = Stage
  <2>1. loop \in {"looping", "exiting", "stalled"}
    BY AtWork
  <2> QED
    BY <1>1, <2>1, StageIs DEF Stage
<1>3. Executed' = Executed
  <2>1. \A m \in EngineNodes : workers'[m].ran = workers[m].ran
    BY <1>0 DEF Engine!Settles, WorkerStates
  <2> QED
    BY <2>1 DEF Executed
<1>4. /\ result = "completed" => n \in Executed
      /\ result = "skipped" => n \notin Executed
  BY <1>0 DEF WorkerFits, Executed
<1>5. \A d \in Engine!DependsOn(n) : results[d] # "none"
  BY <1>0 DEF Waits, Engine!DependsOn
<1>6. result # "skipped" => \A d \in Engine!DependsOn(n) : results[d] = "completed"
  BY <1>0, StartSupported DEF WorkerFits, Supported
<1>7. results'[n] = result
  BY <1>0, <1>1
<1>8. Needs[n] = Engine!DependsOn(n)
  BY DEF Needs
<1>9. Engine!Run!Settle(n)
  <2>1. \E outcome \in Engine!Run!Outcomes :
          /\ outcome = "completed" => n \in Executed
          /\ outcome = "skipped" => n \notin Executed
          /\ results' = [results EXCEPT ![n] = outcome]
    BY <1>1, <1>4 DEF Engine!Run!Outcomes
  <2>2. (\E d \in Needs[n] : results[d] # "completed") => results'[n] = "skipped"
    BY <1>6, <1>7, <1>8
  <2>3. Needs' = Needs
    BY <1>1, NeedsStay
  <2>4. /\ Stage \in {"running", "lapsed"} /\ results[n] = "none" /\ \A d \in Needs[n] : results[d] # "none"
        /\ UNCHANGED <<Needs, Executed, Stage>>
    BY <1>1, <1>2, <1>3, <1>5, <1>8, <2>3
  <2> QED
    BY <2>1, <2>2, <2>4 DEF Engine!Run!Settle, Engine!Run!Goes, Needs, Executed, Stage
<1> QED
  BY <1>9 DEF Engine!Run!Next

LEMMA StartRefines ==
  ASSUME EngineInv, NEW n \in EngineNodes, Engine!StartHandler(n)
  PROVE  Engine!Run!Next
<1>0. /\ workers \in [EngineNodes -> WorkerStates] /\ WorkerFits(n)
      /\ workers[n].at = "scheduled" /\ Supported(n)
      /\ UNCHANGED <<uses, loop, results>>
  BY EngineTypes, StartSupported DEF EngineInv, Engine!StartHandler
<1>1. Executed' = Executed \union {n} /\ n \notin Executed
  <2>1. \A m \in EngineNodes : workers'[m].ran <=> workers[m].ran \/ m = n
    BY <1>0 DEF Engine!StartHandler, WorkerStates
  <2> QED
    BY <1>0, <2>1 DEF Executed, WorkerFits
<1>2. Stage = "running" /\ Stage' = Stage
  <2>1. loop \in {"looping", "exiting", "stalled"}
    BY <1>0, AtWork
  <2> QED
    BY <1>0, <2>1, StageIs DEF Stage
<1>3. Needs' = Needs /\ Needs[n] = Engine!DependsOn(n)
  BY <1>0, NeedsStay DEF Needs
<1>4. results[n] = "none" /\ \A d \in Needs[n] : results[d] = "completed"
  BY <1>0, <1>3 DEF WorkerFits, Supported
<1>5. Engine!Run!Start(n)
  BY <1>0, <1>1, <1>2, <1>3, <1>4 DEF Engine!Run!Start, Engine!Run!Goes, Needs, Executed, Stage
<1> QED
  BY <1>5 DEF Engine!Run!Next

LEMMA BeginRefines == ASSUME EngineInv, Engine!Begin PROVE Engine!Run!Next
<1>1. Stage = "new" /\ UNCHANGED <<uses, workers, results>> /\ uses \in Uses
  BY StageIs DEF Engine!Begin, EngineInv, Engine!TypeOK
<1>2. Engine!Run!HasCycle(Needs) <=> ~Engine!Accepted(uses)
  <2>1. Needs = Depends(uses)
    BY DEF Needs, Depends, Engine!DependsOn
  <2>2. Engine!Accepted(uses) <=> ~Circular(EngineNodes, Needs)
    BY <1>1, <2>1, EngineConstants, CountedKahnExact
  <2> QED
    BY <2>2 DEF Circular, Engine!Run!HasCycle
<1>3. \/ Stage' = IF Engine!Run!HasCycle(Needs) THEN "rejected" ELSE "running"
      \/ EngineNodes = {} /\ Stage' = "completed"
  BY <1>2, StageIsNext DEF Engine!Begin
<1>4. Needs' = Needs /\ Executed' = Executed
  BY <1>1, NeedsStay DEF Executed
<1>5. Engine!Run!Begin
  BY <1>1, <1>3, <1>4 DEF Engine!Run!Begin, Needs, Executed, Stage
<1> QED
  BY <1>5 DEF Engine!Run!Next

LEMMA ExitRefines == ASSUME EngineInv, Engine!Exit PROVE Engine!Run!Next
<1>0. /\ loop \in {"exiting", "stalled"} /\ Engine!Over
      /\ UNCHANGED <<uses, workers, results>> /\ Stage = "running"
      /\ results \in [EngineNodes -> {"none", "completed", "failed", "skipped"}]
  BY StageIs DEF Engine!Exit, EngineInv, Engine!TypeOK
<1>1. Needs' = Needs /\ Executed' = Executed
  BY <1>0, NeedsStay DEF Executed
<1>2. CASE Failed
  <2>1. Stage' = "failed"
    BY <1>2, StageIsNext DEF Engine!Exit, Failed
  <2>2. Engine!Run!Fail
    BY <1>0, <1>1, <1>2, <2>1 DEF Engine!Run!Fail, Engine!Run!Goes, Failed, Needs, Executed, Stage
  <2> QED
    BY <2>2 DEF Engine!Run!Next
<1>3. CASE ~Failed /\ loop = "stalled"
  <2>1. Stage' = "stalled"
    BY <1>3, StageIsNext DEF Engine!Exit, Failed
  <2>2. Engine!Run!Abandon
    BY <1>0, <1>1, <2>1 DEF Engine!Run!Abandon, Needs, Executed, Stage
  <2> QED
    BY <2>2 DEF Engine!Run!Next
<1>4. CASE ~Failed /\ loop = "exiting"
  <2>1. Stage' = "completed"
    BY <1>4, StageIsNext DEF Engine!Exit, Failed
  <2>2. ~cancelled /\ Cardinality(Begun) = Cardinality(EngineNodes)
    BY <1>4, SameSets DEF EngineInv, LoopFits, Engine!NodeCount
  <2>3. Begun = EngineNodes
    <3>1. Begun \in SUBSET EngineNodes
      BY DEF Begun
    <3> QED
      BY <2>2, <3>1, EngineConstants, FS_Subset
  <2>4. \A n \in EngineNodes : workers[n].at = "over"
    BY <1>0, <2>3 DEF Engine!Over, Begun
  <2>5. \A n \in EngineNodes : results[n] \in {"completed", "skipped"}
    BY <2>2, <2>4 DEF EngineInv, WorkerFits
  <2>6. Engine!Run!Complete
    BY <1>0, <1>1, <2>1, <2>5 DEF Engine!Run!Complete, Engine!Run!Goes, Needs, Executed, Stage
  <2> QED
    BY <2>6 DEF Engine!Run!Next
<1> QED
  BY <1>0, <1>2, <1>3, <1>4

LEMMA EngineRefines ==
  ASSUME EngineInv, [Engine!Next]_(Engine!vars)
  PROVE  Engine!Run!Next \/ UNCHANGED Engine!Run!vars
<1>0. workers \in [EngineNodes -> WorkerStates] /\ channel \in Seq(EngineNodes)
  BY EngineTypes DEF EngineInv, Engine!TypeOK
<1>1. ASSUME UNCHANGED <<uses, results>>, Stage' = Stage,
             \A n \in EngineNodes : workers'[n].ran = workers[n].ran
      PROVE  UNCHANGED Engine!Run!vars
  <2>1. Executed' = Executed /\ Needs' = Needs
    BY <1>1, NeedsStay DEF Executed
  <2> QED
    BY <1>1, <2>1, RunVars
<1>2. CASE Engine!Receive
  <2>1. Head(channel) \in EngineNodes
    BY <1>0, <1>2 DEF Engine!Receive
  <2>2. \A n \in EngineNodes : workers'[n].ran = workers[n].ran
    BY <1>0, <1>2, <2>1 DEF Engine!Receive, WorkerStates
  <2>3. Stage' = Stage
    BY <1>2, StageIs, StageIsNext DEF Engine!Receive
  <2> QED
    BY <1>1, <1>2, <2>2, <2>3 DEF Engine!Receive
<1>3. CASE Engine!Stall \/ Engine!Stop
  <2>1. Stage' = Stage
    BY <1>3, StageIs, StageIsNext DEF Engine!Stall, Engine!Stop
  <2> QED
    BY <1>1, <1>3, <2>1 DEF Engine!Stall, Engine!Stop
<1>4. ASSUME NEW n \in EngineNodes, Engine!Worker(n)
      PROVE  Engine!Run!Next \/ UNCHANGED Engine!Run!vars
  <2>1. CASE Engine!Skip(n) \/ Engine!ConditionRaises(n)
    BY <2>1, SettleRefines DEF Engine!Skip, Engine!ConditionRaises
  <2>2. CASE Engine!Tell(n) \/ Engine!Told(n) \/ Engine!Cancelled(n)
    <3>1. \A m \in EngineNodes : workers'[m].ran = workers[m].ran
      <4>1. CASE Engine!Tell(n)
        <5>1. PICK d : workers' = [workers EXCEPT ![n].tell = @ \ {d}]
          BY <4>1 DEF Engine!Tell
        <5> QED
          BY <1>0, <5>1 DEF WorkerStates
      <4>2. CASE Engine!Told(n)
        BY <1>0, <4>2 DEF Engine!Told, WorkerStates
      <4>3. CASE Engine!Cancelled(n)
        BY <1>0, <4>3 DEF Engine!Cancelled, WorkerStates
      <4> QED
        BY <2>2, <4>1, <4>2, <4>3
    <3>2. UNCHANGED <<uses, results, loop>>
      BY <2>2 DEF Engine!Tell, Engine!Told, Engine!Cancelled
    <3> QED
      BY <1>1, <3>1, <3>2 DEF Stage
  <2>3. CASE Engine!HandlerEnds(n)
    BY <2>3, SettleRefines DEF Engine!HandlerEnds
  <2> QED
    BY <1>4, <2>1, <2>2, <2>3, StartRefines DEF Engine!Worker
<1>5. CASE UNCHANGED Engine!vars
  BY <1>1, <1>5 DEF Engine!vars, Stage
<1> QED
  BY <1>2, <1>3, <1>4, <1>5, BeginRefines, ExitRefines DEF Engine!Next, Engine!Loop, Engine!Rest

LEMMA RunStarts == Engine!Init => Engine!Run!Init
<1> SUFFICES ASSUME Engine!Init
             PROVE  Engine!Run!Init
  OBVIOUS
<1>1. Stage = "new" /\ Executed = {} /\ results = [n \in EngineNodes |-> "none"]
  BY StageIs DEF Engine!Init, Executed
<1>2. Needs \in [EngineNodes -> SUBSET EngineNodes]
  BY DEF Needs, Engine!DependsOn
<1> QED
  BY <1>1, <1>2 DEF Engine!Run!Init, Needs, Executed, Stage

\* Every step of the main loop and of the workers, cancelled or not, is a step of the abstract
\* run or none of its business.
THEOREM EngineRefinement ==
  Engine!Init /\ [][Engine!Next]_(Engine!vars) =>
    Engine!Run!Init /\ [][Engine!Run!Next]_(Engine!Run!vars)
<1>1. EngineInv /\ [Engine!Next]_(Engine!vars) => [Engine!Run!Next]_(Engine!Run!vars)
  BY EngineRefines
<1> QED
  BY <1>1, RunStarts, EngineInvariance, PTL

-----------------------------------------------------------------------------
(* One engine at work, the other at rest *)

Sides == (IInv /\ RunInv /\ NoExecution) \/ (EngineInv /\ NoRun)

LEMMA EngineRests == ASSUME NoExecution, [Engine!Next]_(Engine!vars) PROVE UNCHANGED engineVars
<1>1. /\ loop = "rejected" /\ \A n \in EngineNodes : workers[n].at = "none" /\ workers[n].tell = {}
  BY DEF NoExecution
<1>2. ~(Engine!Loop \/ Engine!Stall)
  BY <1>1 DEF Engine!Loop, Engine!Begin, Engine!Receive, Engine!Stop, Engine!Exit, Engine!Stall
<1>3. \A n \in EngineNodes : ~Engine!Worker(n)
  BY <1>1 DEF Engine!Worker, Engine!Skip, Engine!ConditionRaises, Engine!StartHandler, Engine!HandlerEnds,
              Engine!Tell, Engine!Told, Engine!Cancelled
<1> QED
  BY <1>2, <1>3 DEF Engine!Next, Engine!Rest, Engine!vars, engineVars

LEMMA DurableRests == ASSUME NoRun, [Durable!Next]_(Durable!vars) PROVE UNCHANGED durableVars
<1>1. /\ launch = "aborted" /\ run = "none" /\ pending = 0
      /\ \A x \in Durable!Jobs : jobs[x].at = "free"
  BY DEF NoRun, Durable!NoJob
<1>2. \A a \in Durable!Actors : actors[a].at = IF a = Durable!Watch THEN "off" ELSE "idle"
  BY DEF NoRun, Durable!Idle
<1>3. ~(Durable!Start \/ Durable!Tick \/ Durable!Lapse)
  BY <1>1 DEF Durable!Start, Durable!CreateRun, Durable!EnqueueAdvance, Durable!EnqueueWatch,
              Durable!StartAborts, Durable!Tick, Durable!Lapse
<1>4. ASSUME NEW a \in Durable!Actors
      PROVE  ~(Durable!ActorStep(a) \/ Durable!ActorCrash(a))
  <2>1. CASE a = Durable!Watch
    BY <1>2, <2>1 DEF Durable!ActorStep, Durable!ActorCrash, Durable!CheckAge, Durable!ReadRun,
                      Durable!ReadNodes, Durable!EnqueueNode, Durable!CountNodes, Durable!ReadStatus,
                      Durable!WriteStatus, Durable!ResetIdentity, Durable!Goes
  <2>2. CASE a # Durable!Watch
    <3>1. actors[a].at = "idle" /\ ~(pending > 0)
      BY <1>1, <1>2, <2>2
    <3>2. ~Durable!ReadRun(a)
      BY <2>2, <3>1 DEF Durable!ReadRun
    <3>3. ~(Durable!ReadNodes(a) \/ Durable!EnqueueNode(a) \/ Durable!CountNodes(a) \/ Durable!ReadStatus(a)
            \/ Durable!WriteStatus(a) \/ Durable!ResetIdentity(a))
      BY <3>1 DEF Durable!ReadNodes, Durable!EnqueueNode, Durable!CountNodes, Durable!ReadStatus,
                  Durable!WriteStatus, Durable!ResetIdentity, Durable!Goes
    <3> QED
      BY <2>2, <3>1, <3>2, <3>3 DEF Durable!ActorStep, Durable!ActorCrash
  <2> QED
    BY <2>1, <2>2
<1>5. ASSUME NEW x \in Durable!Jobs
      PROVE  ~(Durable!JobStep(x) \/ Durable!JobCrash(x))
  BY <1>1 DEF Durable!JobStep, Durable!JobCrash, Durable!ReadNode, Durable!ReadContext, Durable!HandlerEnds,
              Durable!CheckNode, Durable!WriteNode, Durable!Notify, Durable!NotifyRaises, Durable!Becomes
<1> QED
  BY <1>3, <1>4, <1>5 DEF Durable!Next, Durable!vars, durableVars

LEMMA OneMoves ==
  ASSUME Sides, [Next]_vars
  PROVE  \/ IInv /\ RunInv /\ NoExecution /\ [Durable!Next]_(Durable!vars) /\ UNCHANGED engineVars
         \/ EngineInv /\ NoRun /\ [Engine!Next]_(Engine!vars) /\ UNCHANGED durableVars
<1>1. \/ [Durable!Next]_(Durable!vars) /\ UNCHANGED engineVars
      \/ [Engine!Next]_(Engine!vars) /\ UNCHANGED durableVars
  BY DEF Next, vars, Durable!vars, Engine!vars, durableVars, engineVars
<1>2. UNCHANGED durableVars => [Durable!Next]_(Durable!vars)
  BY DEF Durable!vars, durableVars
<1>3. UNCHANGED engineVars => [Engine!Next]_(Engine!vars)
  BY DEF Engine!vars, engineVars
<1> QED
  BY <1>1, <1>2, <1>3, EngineRests, DurableRests DEF Sides

LEMMA SidesKeep == ASSUME Sides, [Next]_vars PROVE Sides'
<1>1. CASE IInv /\ RunInv /\ NoExecution /\ [Durable!Next]_(Durable!vars) /\ UNCHANGED engineVars
  <2>1. IInv' /\ RunInv'
    BY <1>1, InvStep, RunInvStep
  <2>2. NoExecution'
    BY <1>1 DEF NoExecution, engineVars
  <2> QED
    BY <2>1, <2>2 DEF Sides
<1>2. CASE EngineInv /\ NoRun /\ [Engine!Next]_(Engine!vars) /\ UNCHANGED durableVars
  <2>1. EngineInv'
    BY <1>2, EngineStep
  <2>2. NoRun'
    BY <1>2 DEF NoRun, durableVars
  <2> QED
    BY <2>1, <2>2 DEF Sides
<1> QED
  BY <1>1, <1>2, OneMoves

LEMMA SidesRefine ==
  ASSUME Sides, [Next]_vars
  PROVE  /\ [timedOut' \/ Durable!Run!Next]_(Durable!Run!vars)
         /\ [Engine!Run!Next]_(Engine!Run!vars)
<1>1. CASE IInv /\ RunInv /\ NoExecution /\ [Durable!Next]_(Durable!vars) /\ UNCHANGED engineVars
  <2>1. [timedOut' \/ Durable!Run!Next]_(Durable!Run!vars)
    <3> SUFFICES ASSUME ~timedOut'
                 PROVE  Durable!Run!Next \/ UNCHANGED Durable!Run!vars
      OBVIOUS
    <3>1. ~timedOut
      BY <1>1, TimedOutStays DEF IInv
    <3> QED
      BY <1>1, <3>1, RunRefines
  <2>2. UNCHANGED Engine!Run!vars
    <3>1. Needs' = Needs /\ Executed' = Executed /\ Stage' = Stage /\ results' = results
      BY <1>1, NeedsStay DEF engineVars, Executed, Stage
    <3> QED
      BY <3>1, RunVars
  <2> QED
    BY <2>1, <2>2
<1>2. CASE EngineInv /\ NoRun /\ [Engine!Next]_(Engine!vars) /\ UNCHANGED durableVars
  <2>1. Engine!Run!Next \/ UNCHANGED Engine!Run!vars
    BY <1>2, EngineRefines
  <2>2. UNCHANGED Durable!Run!vars
    <3>1. Started' = Started /\ Status' = Status /\ graph' = graph /\ records' = records
      BY <1>2 DEF durableVars, Started, Status
    <3> QED
      BY <3>1 DEF Durable!Run!vars, Started, Status
  <2> QED
    BY <2>1, <2>2
<1> QED
  BY <1>1, <1>2, OneMoves

LEMMA SidesInit ==
  ASSUME Init
  PROVE  Sides /\ Durable!Run!Init /\ (loop = "rejected" \/ Engine!Run!Init)
<1>1. CASE Durable!Init /\ NoExecution
  <2>1. IInv /\ RunInv /\ Durable!Run!Init
    BY <1>1, InvInit, RunInits
  <2> QED
    BY <1>1, <2>1 DEF Sides, NoExecution
<1>2. CASE Engine!Init /\ NoRun
  <2>1. EngineInv /\ Engine!Run!Init
    BY <1>2, EngineInit, RunStarts
  <2>2. Started = {}
    <3>1. \A n \in Nodes, i \in 1..MaxJobs : jobs[<<n, i>>].ran = FALSE
      BY <1>2 DEF NoRun, Durable!NoJob, Durable!Jobs
    <3> QED
      BY <3>1 DEF Started
  <2>3. Status = "new" /\ graph \in [Nodes -> SUBSET Nodes] /\ records = [n \in Nodes |-> "none"]
    BY <1>2 DEF NoRun, Status
  <2>4. Durable!Run!Init
    BY <2>2, <2>3 DEF Durable!Run!Init, Started, Status
  <2> QED
    BY <1>2, <2>1, <2>4 DEF Sides
<1> QED
  BY <1>1, <1>2 DEF Init

\* Both engines implement the abstract run, whatever the workflow, the workers and the jobs:
\* the durable one until it times out, the in-process one always.
THEOREM Implementation == Spec => ImplementsRun
<1>1. Init => Sides /\ Durable!Run!Init /\ (loop = "rejected" \/ Engine!Run!Init)
  BY SidesInit
<1>2. Sides /\ [Next]_vars => Sides'
  BY SidesKeep
<1>3. Sides /\ [Next]_vars => /\ [timedOut' \/ Durable!Run!Next]_(Durable!Run!vars)
                              /\ [Engine!Run!Next]_(Engine!Run!vars)
  BY SidesRefine
<1> QED
  BY <1>1, <1>2, <1>3, PTL DEF Spec, ImplementsRun, Durable!RunSpec, EngineSpec

LEMMA SidesHold == Spec => []Sides
BY SidesInit, SidesKeep, PTL DEF Spec

\* However many advances find a node ready, and whatever crashes, it starts once and completes
\* behind completed ones only, for every workflow and any number of jobs.
THEOREM Orderliness == Spec => []Orderly
<1>1. IInv => Orderly
  BY OnceByInv, SkipsByInv DEF Orderly, Durable!Orderly
<1>2. NoRun => Orderly
  <2>1. ASSUME NoRun
        PROVE  Durable!NodeRunsOnce
    <3>1. ASSUME NEW n \in Nodes
          PROVE  Cardinality({i \in 1..MaxJobs : jobs[<<n, i>>].ran}) <= 1
      <4> DEFINE ran == {i \in 1..MaxJobs : jobs[<<n, i>>].ran}
      <4>1. \A i \in 1..MaxJobs : jobs[<<n, i>>].ran = FALSE
        BY <2>1 DEF NoRun, Durable!NoJob, Durable!Jobs
      <4>2. ran = {}
        BY <4>1
      <4> HIDE DEF ran
      <4>3. Cardinality(ran) = 0
        BY <4>2, FS_EmptySet
      <4>4. Cardinality(ran) <= 1
        BY <4>3
      <4> QED
        BY <4>4 DEF ran
    <3> QED
      BY <3>1, SameSets DEF Durable!NodeRunsOnce
  <2>2. NoRun => Durable!SkipsPropagate
    BY DEF NoRun, Durable!SkipsPropagate
  <2> QED
    BY <2>1, <2>2 DEF Orderly, Durable!Orderly
<1> QED
  BY <1>1, <1>2, SidesHold, PTL DEF Sides

\* A durable run ends when, and as, the records of its nodes call for.
THEOREM Verdicts == Spec => []VerdictFits
<1>1. IInv => VerdictFits
  BY DEF IInv, Steady, RunSteady, Durable!Verdict, VerdictFits, Durable!VerdictFits
<1>2. NoRun => VerdictFits
  BY DEF NoRun, VerdictFits, Durable!VerdictFits, Durable!Terminal
<1> QED
  BY <1>1, <1>2, SidesHold, PTL DEF Sides

\* Whatever dies, a run whose start() came through is settled before its record lapses, as
\* long as the record lives longer than the run may and than one watchdog interval
\* (queues/workflow_store.py:58).
THEOREM NothingVanishes ==
  ASSUME RunTimeout < TTL, 1 < TTL
  PROVE  Spec => []NeverVanishes
<1>1. Init => WatchInv
  BY DEF Init, NoRun, Durable!Init, WatchInv, Durable!NeverVanishes
<1>2. Sides /\ WatchInv /\ [Next]_vars => WatchInv'
  <2> SUFFICES ASSUME Sides, WatchInv, [Next]_vars
               PROVE  WatchInv'
    OBVIOUS
  <2>1. CASE IInv /\ [Durable!Next]_(Durable!vars)
    BY <2>1, WatchKeeps DEF IInv
  <2>2. CASE UNCHANGED durableVars
    BY <2>2 DEF durableVars, WatchInv, Watched, Durable!NeverVanishes
  <2> QED
    BY <2>1, <2>2, OneMoves
<1>3. WatchInv => NeverVanishes
  BY DEF WatchInv, NeverVanishes
<1> QED
  BY <1>1, <1>2, <1>3, SidesHold, PTL DEF Spec

=============================================================================
