-------------------------- MODULE PollingLoopProofs --------------------------
(***************************************************************************)
(* Theorems about PollingLoop for every set of servers and every limit of  *)
(* workers: the limit holds, a batch is complete, Stop waits for both      *)
(* loops, and the loop implements Rounds.                                  *)
(***************************************************************************)
EXTENDS PollingLoop, FiniteSetTheorems, SequenceTheorems, TLAPS

----------------------------------------------------------------------------
(* Counting workers. *)

\* A finite set with one element more, and with one element less.
LEMMA AddOne ==
  ASSUME NEW S \in SUBSET Servers, NEW x \in Servers \ S
  PROVE  Cardinality(S \cup {x}) = Cardinality(S) + 1
BY FS_Subset, FS_AddElement, ServerAssumption

LEMMA RemoveOne ==
  ASSUME NEW S \in SUBSET Servers, NEW x \in S
  PROVE  /\ Cardinality(S \ {x}) = Cardinality(S) - 1
         /\ Cardinality(S) >= 1
<1>1. IsFiniteSet(S)
  BY FS_Subset, ServerAssumption
<1>2. IsFiniteSet(S \ {x}) /\ Cardinality(S \ {x}) = Cardinality(S) - 1
  BY <1>1, FS_RemoveElement
<1>3. Cardinality(S \ {x}) \in Nat /\ Cardinality(S) \in Nat
  BY <1>1, <1>2, FS_CardinalityType
<1> QED
  BY <1>2, <1>3

LEMMA CountType ==
  ASSUME NEW S \in SUBSET Servers
  PROVE  Cardinality(S) \in Nat /\ (S = {} <=> Cardinality(S) = 0)
BY FS_Subset, FS_CardinalityType, FS_EmptySet, ServerAssumption

LEMMA SlotsType == Slots \in Nat
<1>1. Cardinality(Servers) \in Nat
  BY CountType
<1> QED
  BY <1>1, WorkerAssumption DEF Slots

\* How one step of a worker moves it between the two sets that are counted.
LEMMA StepCounts ==
  ASSUME TypeOK, NEW s \in Servers, NEW from \in WorkerSteps, NEW to \in WorkerSteps,
         worker[s] = from, worker' = [worker EXCEPT ![s] = to]
  PROVE  /\ Holders' = IF to \in Holding THEN Holders \cup {s} ELSE Holders \ {s}
         /\ s \in Holders <=> from \in Holding
         /\ Unfinished' = IF to \in {"none", "finished"}
                          THEN Unfinished \ {s} ELSE Unfinished \cup {s}
         /\ s \in Unfinished <=> from \notin {"none", "finished"}
BY DEF TypeOK, Holders, Unfinished

----------------------------------------------------------------------------
(* The inductive invariant, part by part. *)

LEMMA InitIInv ==
  ASSUME Init
  PROVE  IInv
<1>1. TypeOK
  <2>1. worker \in [Servers -> WorkerSteps]
    BY DEF Init, WorkerSteps
  <2>2. results \in Seq(Servers) /\ sem \in Nat /\ pending \in Nat /\ wg \in Nat
    BY DEF Init
  <2> QED
    BY <2>1, <2>2 DEF Init, TypeOK, LoopSteps, StopSteps
<1>2. Holders = {} /\ Unfinished = {}
  BY DEF Init, Holders, Unfinished, Holding
<1>3. Counted
  BY <1>2, CountType, SlotsType DEF Init, Counted
<1>4. DOMAIN results = {}
  BY DEF Init
<1>5. InStep
  BY <1>2, <1>4 DEF Init, InStep, Open
<1>6. Stopped
  BY DEF Init, Stopped, StopDrains
<1> QED
  BY <1>1, <1>3, <1>5, <1>6 DEF IInv

\* A step of a worker.
LEMMA WorkStep ==
  ASSUME IInv, NEW s \in Servers, OwnWork(s) \/ PeerWork(s)
  PROVE  IInv'
<1> USE DEF IInv
<1>1. LoopKeeps
  BY DEF OwnWork, PeerWork, Acquire, Checked, HandshakeReturns, GatherReturns,
         AppendResult, Release, Leave, Work
<1>2. UNCHANGED <<loop, toSpawn, tick, jobs, wg, done, stop, store, early>>
  BY <1>1 DEF LoopKeeps, StopKeeps
<1>3. PICK from \in WorkerSteps, to \in WorkerSteps :
        /\ worker[s] = from /\ worker' = [worker EXCEPT ![s] = to]
        /\ \/ /\ from = "queued" /\ to = "check"
              /\ sem < Slots /\ sem' = sem + 1 /\ UNCHANGED <<pending, results>>
           \/ /\ from \in {"check", "handshake", "gather"}
              /\ to \in {"handshake", "gather", "append"}
              /\ UNCHANGED <<sem, pending, results>>
           \/ /\ from = "append" /\ to = "release"
              /\ results' = Append(results, s) /\ UNCHANGED <<sem, pending>>
           \/ /\ from = "release" /\ to = "leave"
              /\ sem' = sem - 1 /\ UNCHANGED <<pending, results>>
           \/ /\ from = "leave" /\ to = "finished"
              /\ pending' = pending - 1 /\ UNCHANGED <<sem, results>>
  BY Zenon DEF OwnWork, PeerWork, Acquire, Checked, HandshakeReturns, GatherReturns,
         AppendResult, Release, Leave, Work, WorkerSteps
<1>4. /\ Holders' = IF to \in Holding THEN Holders \cup {s} ELSE Holders \ {s}
      /\ s \in Holders <=> from \in Holding
      /\ Unfinished' = IF to \in {"none", "finished"}
                       THEN Unfinished \ {s} ELSE Unfinished \cup {s}
      /\ s \in Unfinished <=> from \notin {"none", "finished"}
  BY <1>3, StepCounts
<1>5. Holders \subseteq Servers /\ Unfinished \subseteq Servers
  BY DEF Holders, Unfinished
<1>6. loop = "spawn" /\ s \in Unfinished
  BY <1>3, <1>4 DEF InStep
<1>7. Counted'
  <2>1. sem' = Cardinality(Holders') /\ sem' <= Slots
    <3>1. CASE from = "queued"
      BY <1>3, <1>4, <1>5, <3>1, AddOne, SlotsType DEF Counted, Holding, TypeOK
    <3>2. CASE from = "release"
      BY <1>3, <1>4, <1>5, <3>2, RemoveOne, SlotsType DEF Counted, Holding, TypeOK
    <3>3. CASE from \notin {"queued", "release"}
      <4>1. Holders' = Holders /\ sem' = sem
        BY <1>3, <1>4, <3>3 DEF Holding
      <4> QED
        BY <4>1 DEF Counted
    <3> QED
      BY <3>1, <3>2, <3>3
  <2>2. pending' = Cardinality(Unfinished')
    <3>1. CASE from = "leave"
      BY <1>3, <1>4, <1>5, <3>1, RemoveOne DEF Counted
    <3>2. CASE from # "leave"
      <4>1. Unfinished' = Unfinished /\ pending' = pending
        BY <1>3, <1>4, <3>2
      <4> QED
        BY <4>1 DEF Counted
    <3> QED
      BY <3>1, <3>2
  <2> QED
    BY <1>2, <2>1, <2>2 DEF Counted
<1>8. TypeOK'
  <2>1. sem' \in Nat /\ pending' \in Nat
    <3>1. Cardinality(Holders') \in Nat /\ Cardinality(Unfinished') \in Nat
      BY CountType DEF Holders, Unfinished
    <3> QED
      BY <1>7, <3>1 DEF Counted
  <2>2. results' \in Seq(Servers)
    BY <1>3, AppendProperties DEF TypeOK
  <2>3. worker' \in [Servers -> WorkerSteps]
    BY <1>3 DEF TypeOK
  <2> QED
    BY <1>2, <2>1, <2>2, <2>3 DEF TypeOK
<1>9. InStep'
  <2>1. toSpawn' = {u \in Servers : worker'[u] = "none"}
    BY <1>2, <1>3, <1>6 DEF InStep, TypeOK
  <2>2. CASE from # "append"
    <3>1. results' = results /\ \A u \in Servers :
            worker'[u] \in {"release", "leave", "finished"}
              <=> worker[u] \in {"release", "leave", "finished"}
      BY <1>3, <2>2 DEF TypeOK
    <3> QED
      BY <1>2, <1>6, <2>1, <3>1 DEF InStep, Open
  <2>3. CASE from = "append"
    <3>1. to = "release" /\ results' = Append(results, s) /\ results \in Seq(Servers)
      BY <1>3, <2>3 DEF TypeOK
    <3>2. /\ Len(results) \in Nat /\ DOMAIN results = 1..Len(results)
          /\ DOMAIN results' = 1..(Len(results) + 1)
          /\ \A i \in 1..Len(results) : results'[i] = results[i]
          /\ results'[Len(results) + 1] = s
      BY <3>1, AppendProperties, LenProperties
    <3>3. \A i \in DOMAIN results : results[i] # s
      BY <1>3, <1>6, <2>3 DEF InStep, Open
    <3>4. \A i, k \in DOMAIN results' : results'[i] = results'[k] => i = k
      BY <3>2, <3>3 DEF InStep
    <3>5. ASSUME NEW u \in Servers
          PROVE  worker'[u] \in {"release", "leave", "finished"}
                   <=> \E i \in DOMAIN results' : results'[i] = u
      <4>1. CASE u = s
        <5>1. worker'[u] = "release"
          BY <1>3, <3>1, <4>1 DEF TypeOK
        <5>2. Len(results) + 1 \in DOMAIN results'
          BY <3>2
        <5> QED
          BY <3>2, <4>1, <5>1, <5>2
      <4>2. CASE u # s
        <5>1. worker'[u] = worker[u]
          BY <1>3, <4>2 DEF TypeOK
        <5>2. (\E i \in DOMAIN results' : results'[i] = u)
                <=> (\E i \in DOMAIN results : results[i] = u)
          BY <3>2, <4>2
        <5> QED
          BY <1>6, <5>1, <5>2 DEF InStep, Open
      <4> QED
        BY <4>1, <4>2
    <3> QED
      BY <1>2, <1>6, <2>1, <3>4, <3>5 DEF InStep, Open
  <2> QED
    BY <2>2, <2>3
<1>10. Stopped'
  <2>1. stop \in {"close", "returned"} => early
    BY <1>6 DEF Stopped, StopDrains
  <2> QED
    BY <1>2, <2>1 DEF Stopped, StopDrains, Registered
<1> QED
  BY <1>7, <1>8, <1>9, <1>10

\* The steps that leave the workers alone and do not begin a cycle.
LEMMA LoopOnlyStep ==
  ASSUME IInv,
         \/ StartJobs \/ Register \/ Gathered \/ Deliver \/ NextCycle \/ LoopExits
         \/ Tick \/ JobsExit \/ CloseDone \/ StopStep \/ Exited \/ UNCHANGED vars
  PROVE  IInv'
<1> USE DEF IInv
<1>1. UNCHANGED <<toSpawn, worker, sem, pending, results>>
  BY DEF StartJobs, Register, Gathered, Deliver, NextCycle, LoopExits, Tick, JobsExit,
         CloseDone, StopStep, JobsStopped, WaitReturns, CloseStore, Exited, vars,
         CollectKeeps, StartKeeps
<1>2. Holders' = Holders /\ Unfinished' = Unfinished
  BY <1>1 DEF Holders, Unfinished
<1>3. UNCHANGED <<toSpawn, worker, sem, pending, results>> /\ TypeOK
  BY <1>1
<1>4. CASE StartJobs \/ Register
  <2>1. /\ loop \in {"new", "register"} /\ loop' \in {"register", "begin"}
        /\ UNCHANGED <<tick, done, stop, store, early>> /\ wg' = wg + 1
        /\ \/ loop = "new" /\ loop' = "register" /\ jobs' = "running"
           \/ loop = "register" /\ loop' = "begin" /\ jobs' = jobs
    BY <1>4 DEF StartJobs, Register, Loop, StopKeeps
  <2>2. TypeOK'
    BY <1>1, <2>1 DEF TypeOK, LoopSteps
  <2>3. Counted'
    BY <1>1, <1>2, <2>1 DEF Counted, Stopped
  <2>4. InStep'
    BY <1>1, <1>2, <2>1 DEF InStep, Open
  <2>5. Stopped'
    BY <2>1 DEF Stopped, StopDrains, Registered
  <2> QED
    BY <2>2, <2>3, <2>4, <2>5
<1>5. CASE Gathered \/ Deliver \/ NextCycle \/ Tick
  <2>1. /\ loop \notin {"new", "register", "exited"}
        /\ loop' \in {loop, "deliver", "record", "publish", "select", "begin"}
        /\ UNCHANGED <<jobs, wg, done, stop, store, early>> /\ tick' \in BOOLEAN
    BY <1>5 DEF Gathered, Deliver, NextCycle, Tick, Loop, StopKeeps, TypeOK
  <2>2. TypeOK'
    BY <1>1, <2>1 DEF TypeOK, LoopSteps
  <2>3. Counted'
    BY <1>1, <1>2, <2>1 DEF Counted
  <2>4. Stopped'
    BY <2>1 DEF Stopped, StopDrains, Registered
  <2>5. InStep'
    <3>1. CASE Gathered
      <4>1. loop = "spawn" /\ loop' = "deliver" /\ toSpawn = {} /\ pending = 0
        BY <3>1 DEF Gathered, Loop
      <4>2. Unfinished = {}
        BY <4>1, CountType DEF Counted, Unfinished
      <4>3. \A s \in Servers : worker[s] = "finished"
        BY <4>1, <4>2 DEF InStep, Unfinished
      <4> QED
        BY <1>1, <1>2, <4>1, <4>2, <4>3 DEF InStep, Open
    <3>2. CASE Deliver
      <4>1. \/ loop = "deliver" /\ loop' = "record"
            \/ loop = "record" /\ loop' = "publish"
            \/ loop = "publish" /\ loop' = "select"
        BY <3>2 DEF Deliver, Loop
      <4> QED
        BY <1>1, <1>2, <4>1 DEF InStep, Open
    <3>3. CASE NextCycle \/ Tick
      <4>1. loop' = loop \/ (loop = "select" /\ loop' = "begin")
        BY <3>3 DEF NextCycle, Tick, Loop
      <4> QED
        BY <1>1, <1>2, <4>1 DEF InStep, Open
    <3> QED
      BY <1>5, <3>1, <3>2, <3>3
  <2> QED
    BY <2>2, <2>3, <2>4, <2>5
<1>6. CASE LoopExits \/ JobsExit
  <2>1. /\ done /\ wg' = wg - 1 /\ UNCHANGED <<tick, done, stop, store, early>>
        /\ \/ loop = "select" /\ loop' = "exited" /\ jobs' = jobs
           \/ jobs = "running" /\ jobs' = "exited" /\ loop' = loop
    BY <1>6 DEF LoopExits, JobsExit, Loop, StopKeeps
  <2>2. Counted'
    BY <1>1, <1>2, <2>1 DEF Counted, TypeOK
  <2>3. TypeOK'
    <3>1. wg' \in Nat
      BY <2>2 DEF Counted
    <3> QED
      BY <1>1, <2>1, <3>1 DEF TypeOK, LoopSteps
  <2>4. InStep'
    BY <1>1, <1>2, <2>1 DEF InStep, Open
  <2>5. Stopped'
    BY <1>2, <2>1 DEF Stopped, StopDrains, Registered
  <2> QED
    BY <2>2, <2>3, <2>4, <2>5
<1>7. CASE CloseDone \/ StopStep
  <2>1. UNCHANGED <<loop, tick, jobs, wg>>
    BY <1>7 DEF CloseDone, StopStep, JobsStopped, WaitReturns, CloseStore, StartKeeps
  <2>2. TypeOK' /\ Counted' /\ InStep'
    <3>1. TypeOK'
      BY <1>1, <1>7, <2>1 DEF CloseDone, StopStep, JobsStopped, WaitReturns, CloseStore,
            Stopping, TypeOK, StopSteps
    <3>2. Counted' /\ InStep'
      BY <1>1, <1>2, <2>1 DEF Counted, InStep, Open
    <3> QED
      BY <3>1, <3>2
  <2>3. Stopped'
    <3>1. CASE CloseDone
      BY <1>2, <2>1, <3>1 DEF CloseDone, Stopping, Stopped, StopDrains, Registered
    <3>2. CASE JobsStopped
      BY <1>2, <2>1, <3>2 DEF JobsStopped, Stopping, Stopped, StopDrains, Registered
    <3>3. CASE WaitReturns
      <4>1. stop = "wait" /\ stop' = "close" /\ wg = 0 /\ done' = done
            /\ early' = ~Registered
        BY <3>3 DEF WaitReturns, Stopping
      <4>2. ~early' => loop = "exited" /\ jobs = "exited"
        <5>1. jobs # "running" /\ loop \in {"new", "register", "exited"}
          BY <4>1 DEF Counted, TypeOK
        <5>2. jobs \in {"none", "running", "exited"} /\ (jobs = "none" <=> loop = "new")
          BY DEF TypeOK, Stopped
        <5>3. ~early' => loop = "exited"
          BY <4>1, <5>1 DEF Registered
        <5> QED
          BY <5>1, <5>2, <5>3
      <4>3. loop = "exited" => Unfinished = {}
        BY DEF InStep
      <4>4. StopDrains'
        BY <1>2, <2>1, <4>2, <4>3 DEF StopDrains
      <4> QED
        BY <2>1, <4>1, <4>4 DEF Stopped
    <3>4. CASE CloseStore
      BY <1>2, <2>1, <3>4 DEF CloseStore, Stopping, Stopped, StopDrains, Registered
    <3> QED
      BY <1>7, <3>1, <3>2, <3>3, <3>4 DEF StopStep
  <2> QED
    BY <2>2, <2>3
<1>8. CASE Exited \/ UNCHANGED vars
  <2>1. UNCHANGED vars
    BY <1>8 DEF Exited
  <2> QED
    BY <1>2, <2>1 DEF vars, TypeOK, Counted, InStep, Open, Stopped, StopDrains, Registered
<1> QED
  BY <1>4, <1>5, <1>6, <1>7, <1>8

\* A cycle begins, and its workers are started one by one.
LEMMA BeginStep ==
  ASSUME IInv, Begin
  PROVE  IInv'
<1> USE DEF IInv
<1>1. /\ loop = "begin" /\ loop' = "spawn" /\ toSpawn' = Servers
      /\ worker' = [s \in Servers |-> "none"] /\ results' = <<>>
      /\ UNCHANGED <<sem, pending, tick, jobs, wg, done, stop, store, early>>
  BY DEF Begin, Loop, StopKeeps
<1>2. Unfinished = {} /\ Holders = {}
  BY <1>1 DEF InStep, Unfinished, Holders, Holding
<1>3. Unfinished' = {} /\ Holders' = {}
  BY <1>1 DEF Unfinished, Holders, Holding
<1>4. TypeOK'
  BY <1>1 DEF TypeOK, LoopSteps, WorkerSteps
<1>5. Counted'
  BY <1>1, <1>2, <1>3 DEF Counted
<1>6. InStep'
  <2>1. DOMAIN results' = {}
    BY <1>1
  <2> QED
    BY <1>1, <2>1 DEF InStep, Open
<1>7. Stopped'
  BY <1>1 DEF Stopped, StopDrains, Registered
<1> QED
  BY <1>4, <1>5, <1>6, <1>7

LEMMA SpawnStep ==
  ASSUME IInv, NEW s \in Servers, Spawn(s)
  PROVE  IInv'
<1> USE DEF IInv
<1>1. /\ loop = "spawn" /\ s \in toSpawn /\ toSpawn' = toSpawn \ {s}
      /\ pending' = pending + 1 /\ worker' = [worker EXCEPT ![s] = "queued"]
      /\ UNCHANGED <<loop, sem, results, tick, jobs, wg, done, stop, store, early>>
  BY DEF Spawn, StopKeeps
<1>2. worker[s] = "none"
  BY <1>1 DEF InStep
<1>3. Holders' = Holders /\ Unfinished' = Unfinished \cup {s} /\ s \notin Unfinished
  BY <1>1, <1>2 DEF TypeOK, Holders, Unfinished, Holding
<1>4. Counted'
  BY <1>1, <1>3, AddOne DEF Counted, Unfinished
<1>5. TypeOK'
  BY <1>1 DEF TypeOK, WorkerSteps
<1>6. InStep'
  <2>1. toSpawn' = {u \in Servers : worker'[u] = "none"}
    BY <1>1, <1>2 DEF InStep, TypeOK
  <2>2. \A u \in Servers : worker'[u] \in {"release", "leave", "finished"}
                             <=> worker[u] \in {"release", "leave", "finished"}
    BY <1>1, <1>2 DEF TypeOK
  <2> QED
    BY <1>1, <2>1, <2>2 DEF InStep, Open
<1>7. Stopped'
  <2>1. stop \in {"close", "returned"} => early
    BY <1>1 DEF Stopped, StopDrains
  <2> QED
    BY <1>1, <2>1 DEF Stopped, StopDrains, Registered
<1> QED
  BY <1>4, <1>5, <1>6, <1>7

LEMMA NextKeepsIInv ==
  ASSUME IInv, [Next]_vars
  PROVE  IInv'
BY WorkStep, LoopOnlyStep, BeginStep, SpawnStep DEF Next, LoopStep

----------------------------------------------------------------------------
(* The theorems. *)

\* The inductive invariant of the polling loop holds in every state.
THEOREM Inductive == Spec => []IInv
<1>1. Init => IInv
  BY InitIInv
<1>2. IInv /\ [Next]_vars => IInv'
  BY NextKeepsIInv
<1> QED
  BY <1>1, <1>2, PTL DEF Spec

\* Monitor.collect: the semaphore keeps the limit of workers.
THEOREM WorkersAreBounded == Spec => []WorkersBounded
<1>1. IInv => WorkersBounded
  BY WorkerAssumption DEF IInv, Counted, WorkersBounded, Slots
<1> QED
  BY <1>1, Inductive, PTL

\* Monitor.collect: a batch that is evaluated, recorded or published holds
\* every server exactly once.
THEOREM BatchIsComplete == Spec => []BatchComplete
<1>1. IInv => BatchComplete
  BY DEF IInv, InStep, BatchComplete, Open
<1> QED
  BY <1>1, Inductive, PTL

\* Monitor.Stop: at whatever step the signal arrives, the store is closed only
\* when both loops have exited and no worker is left, unless the wait group was
\* at zero before Start had counted itself in it.
THEOREM StopWaits == Spec => []StopDrains
<1>1. IInv => StopDrains
  BY DEF IInv, Stopped
<1> QED
  BY <1>1, Inductive, PTL

----------------------------------------------------------------------------
(* The loop implements Rounds. *)

LEMMA RefinesInit ==
  ASSUME Init
  PROVE  R!Init
BY DEF Init, R!Init, Open

\* A worker that appends reports its server; its other steps report nothing.
LEMMA RefinesWork ==
  ASSUME IInv, NEW s \in Servers, OwnWork(s) \/ PeerWork(s)
  PROVE  [R!Next]_(R!rvars)
<1> USE DEF IInv
<1>1. UNCHANGED loop
  BY DEF OwnWork, PeerWork, Acquire, Checked, HandshakeReturns, GatherReturns,
         AppendResult, Release, Leave, Work, LoopKeeps
<1>2. CASE AppendResult(s)
  <2>1. worker[s] = "append" /\ results' = Append(results, s) /\ results \in Seq(Servers)
    BY <1>2 DEF AppendResult, Work, TypeOK
  <2>2. s \in Unfinished
    BY <2>1 DEF Unfinished
  <2>3. loop = "spawn"
    BY <2>2 DEF InStep
  <2>4. /\ Len(results) \in Nat /\ DOMAIN results = 1..Len(results)
        /\ DOMAIN results' = 1..(Len(results) + 1)
        /\ \A i \in 1..Len(results) : results'[i] = results[i]
        /\ results'[Len(results) + 1] = s
    BY <2>1, AppendProperties, LenProperties
  <2>5. s \notin {results[i] : i \in DOMAIN results}
    BY <2>1, <2>3 DEF InStep, Open
  <2>6. {results'[i] : i \in DOMAIN results'}
          = {results[i] : i \in DOMAIN results} \cup {s}
    <3>1. DOMAIN results' = DOMAIN results \cup {Len(results) + 1}
      BY <2>4
    <3> QED
      BY <2>4, <3>1
  <2>7. R!Report(s)
    BY <1>1, <2>3, <2>5, <2>6 DEF R!Report, Open
  <2> QED
    BY <2>7 DEF R!Next
<1>3. CASE ~AppendResult(s)
  <2>1. UNCHANGED results
    BY <1>3 DEF OwnWork, PeerWork, Acquire, Checked, HandshakeReturns, GatherReturns,
                Release, Leave
  <2> QED
    BY <1>1, <2>1 DEF R!rvars, Open
<1> QED
  BY <1>2, <1>3

\* The polling goroutine opens, delivers and shuts.
LEMMA RefinesLoop ==
  ASSUME IInv, [Next]_vars, \A s \in Servers : ~OwnWork(s) /\ ~PeerWork(s)
  PROVE  [R!Next]_(R!rvars)
<1> USE DEF IInv
<1>1. CASE Begin
  <2>1. loop = "begin" /\ loop' = "spawn" /\ results' = <<>>
    BY <1>1 DEF Begin, Loop
  <2>2. {results'[i] : i \in DOMAIN results'} = {}
    BY <2>1
  <2>3. R!Open
    BY <2>1, <2>2 DEF R!Open, Open
  <2> QED
    BY <2>3 DEF R!Next
<1>2. CASE Deliver
  <2>1. UNCHANGED results
    BY <1>2 DEF Deliver, CollectKeeps
  <2>2. CASE loop' # "select"
    <3>1. loop \in {"deliver", "record"} /\ loop' \in {"record", "publish"}
      BY <1>2, <2>2 DEF Deliver, Loop
    <3> QED
      BY <2>1, <3>1 DEF R!rvars, Open
  <2>3. CASE loop' = "select"
    <3>1. loop = "publish" /\ loop' = "select"
      BY <1>2, <2>3 DEF Deliver, Loop
    <3>2. \A s \in Servers : \E i \in DOMAIN results : results[i] = s
      BY <3>1 DEF InStep, Open
    <3>3. \A i \in DOMAIN results : results[i] \in Servers
      BY ElementOfSeq, LenProperties DEF TypeOK
    <3>4. {results[i] : i \in DOMAIN results} = Servers
      BY <3>2, <3>3
    <3>5. R!Deliver
      BY <2>1, <3>1, <3>4 DEF R!Deliver, Open
    <3> QED
      BY <3>5 DEF R!Next
  <2> QED
    BY <2>2, <2>3
<1>3. CASE LoopExits
  <2>1. loop = "select" /\ loop' = "exited"
    BY <1>3 DEF LoopExits, Loop
  <2>2. R!Shut
    BY <2>1 DEF R!Shut, Open
  <2> QED
    BY <2>2 DEF R!Next
<1>4. CASE StartJobs \/ Register \/ NextCycle
  <2>1. /\ loop \notin {"spawn", "deliver", "record", "publish", "exited"}
        /\ loop' \notin {"spawn", "deliver", "record", "publish", "exited"}
    BY <1>4 DEF StartJobs, Register, NextCycle, Loop
  <2> QED
    BY <2>1 DEF R!rvars, Open
<1>5. CASE Gathered
  <2>1. loop = "spawn" /\ loop' = "deliver" /\ UNCHANGED results
    BY <1>5 DEF Gathered, Loop, CollectKeeps
  <2> QED
    BY <2>1 DEF R!rvars, Open
<1>6. CASE UNCHANGED <<loop, results>>
  BY <1>6 DEF R!rvars, Open
<1>7. (\E s \in Servers : Spawn(s)) \/ Tick \/ JobsExit \/ CloseDone \/ StopStep
        \/ Exited \/ UNCHANGED vars => UNCHANGED <<loop, results>>
  BY DEF Spawn, Tick, JobsExit, CloseDone, StopStep, JobsStopped, WaitReturns,
         CloseStore, Exited, vars, CollectKeeps, StartKeeps
<1> QED
  BY <1>1, <1>2, <1>3, <1>4, <1>5, <1>6, <1>7 DEF Next, LoopStep

\* Monitor.Start and collect implement Rounds: every server is reported once
\* between the beginning of a round and its delivery, and rounds do not overlap.
THEOREM Refinement == Spec => ImplementsRounds
<1>1. Init => R!Init
  BY RefinesInit
<1>2. IInv /\ [Next]_vars => [R!Next]_(R!rvars)
  BY RefinesWork, RefinesLoop
<1> QED
  BY <1>1, <1>2, Inductive, PTL DEF Spec, ImplementsRounds, R!Spec
=============================================================================
