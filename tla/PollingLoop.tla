----------------------------- MODULE PollingLoop -----------------------------
(***************************************************************************)
(* Monitor.Start, Stop and the collecting half of collect (monitor.go):    *)
(* the polling goroutine, one worker per server behind a semaphore, and a  *)
(* Stop that may arrive at any time.  The delivering half of collect is    *)
(* AlertPipeline; the job loop beside the polling loop is JobManager.      *)
(*                                                                         *)
(* Time is left out: a tick may fall between any two steps, and whatever   *)
(* has a timeout may end at any step.  The batch is the sequence of the    *)
(* servers in it.                                                          *)
(***************************************************************************)
EXTENDS Integers, Sequences, FiniteSets

CONSTANTS
    Servers,       \* the entries of cfg.Servers
    Local,         \* those with local: true
    Answering,     \* those whose commands end: the SSH server answers, or no
                   \*    child of a local command keeps its output open
    Workers        \* cfg.Workers

ASSUME ServerAssumption ==
    IsFiniteSet(Servers) /\ Local \subseteq Servers /\ Answering \subseteq Servers

ASSUME WorkerAssumption == Workers \in Int

VARIABLES
    loop,      \* the polling goroutine
    toSpawn,   \* the servers collect has not yet started a worker for
    worker,    \* worker[s]: the worker of s in this cycle
    sem,       \* the occupied slots of the semaphore
    pending,   \* collect's wait group
    results,   \* collect's results, in order of arrival
    tick,      \* a tick waits in the ticker's channel, which holds one
    jobs,      \* the job loop's goroutine
    wg,        \* Monitor.wg
    done,      \* Monitor.done is closed
    stop,      \* Monitor.Stop
    store,     \* the history store
    early      \* history: Stop's wait was over before Start had counted itself

vars == <<loop, toSpawn, worker, sem, pending, results, tick, jobs, wg, done,
          stop, store, early>>

LoopSteps == {"new", "register", "begin", "spawn", "deliver", "record", "publish",
              "select", "exited"}

WorkerSteps == {"none", "queued", "check", "handshake", "gather", "append",
                "release", "leave", "finished"}

StopSteps == {"running", "jobs", "wait", "close", "returned"}

Init ==
    /\ loop = "new"
    /\ toSpawn = {}
    /\ worker = [s \in Servers |-> "none"]
    /\ sem = 0 /\ pending = 0
    /\ results = <<>>
    /\ tick = FALSE
    /\ jobs = "none"
    /\ wg = 0
    /\ done = FALSE
    /\ stop = "running"
    /\ store = "open"
    /\ early = FALSE

----------------------------------------------------------------------------
(* The polling goroutine. *)

StopKeeps == UNCHANGED <<done, stop, store, early>>

CollectKeeps == UNCHANGED <<toSpawn, worker, sem, pending, results>>

Loop(from, to) == loop = from /\ loop' = to

\* Start counts the job loop and starts it.
StartJobs ==
    /\ Loop("new", "register")
    /\ jobs' = "running"
    /\ wg' = wg + 1
    /\ UNCHANGED tick /\ CollectKeeps /\ StopKeeps

\* Mutant: the polling loop is not counted.
MutRegister ==
    /\ Loop("register", "begin")
    /\ UNCHANGED <<tick, jobs, wg>> /\ CollectKeeps /\ StopKeeps

\* Start counts itself and makes the ticker.
Register ==
    /\ Loop("register", "begin")
    /\ wg' = wg + 1
    /\ UNCHANGED <<tick, jobs>> /\ CollectKeeps /\ StopKeeps

\* A collection begins.
Begin ==
    /\ Loop("begin", "spawn")
    /\ toSpawn' = Servers
    /\ worker' = [s \in Servers |-> "none"]
    /\ results' = <<>>
    /\ UNCHANGED <<sem, pending, tick, jobs, wg>> /\ StopKeeps

Spawn(s) ==
    /\ loop = "spawn" /\ s \in toSpawn
    /\ toSpawn' = toSpawn \ {s}
    /\ pending' = pending + 1
    /\ worker' = [worker EXCEPT ![s] = "queued"]
    /\ UNCHANGED <<loop, sem, results, tick, jobs, wg>> /\ StopKeeps

\* collect's wg.Wait returns; the batch is complete.
Gathered ==
    /\ Loop("spawn", "deliver")
    /\ toSpawn = {} /\ pending = 0
    /\ UNCHANGED <<tick, jobs, wg>> /\ CollectKeeps /\ StopKeeps

\* Alerts, mail, routes; recordHistory; the web state and the output.
Deliver ==
    /\ Loop("deliver", "record") \/ Loop("record", "publish") \/ Loop("publish", "select")
    /\ UNCHANGED <<tick, jobs, wg>> /\ CollectKeeps /\ StopKeeps

\* The select of the loop: a tick, or the closed done; either, if both.
NextCycle ==
    /\ Loop("select", "begin")
    /\ tick /\ tick' = FALSE
    /\ UNCHANGED <<jobs, wg>> /\ CollectKeeps /\ StopKeeps

\* Mutant: the loop's deferred wg.Done is missing.
MutLoopExits ==
    /\ Loop("select", "exited")
    /\ done
    /\ UNCHANGED <<tick, jobs, wg>> /\ CollectKeeps /\ StopKeeps

LoopExits ==
    /\ Loop("select", "exited")
    /\ done
    /\ wg' = wg - 1
    /\ UNCHANGED <<tick, jobs>> /\ CollectKeeps /\ StopKeeps

\* The ticker runs until Start returns and drops a tick nobody has taken.
Tick ==
    /\ loop \notin {"new", "register", "exited"}
    /\ ~tick /\ tick' = TRUE
    /\ UNCHANGED <<loop, jobs, wg>> /\ CollectKeeps /\ StopKeeps

JobsExit ==
    /\ jobs = "running" /\ done
    /\ jobs' = "exited"
    /\ wg' = wg - 1
    /\ UNCHANGED <<loop, tick>> /\ CollectKeeps /\ StopKeeps

----------------------------------------------------------------------------
(* The workers: collectServer inside a slot of the semaphore. *)

LoopKeeps == UNCHANGED <<loop, toSpawn, tick, jobs, wg>> /\ StopKeeps

Work(s, from, to) ==
    worker[s] = from /\ worker' = [worker EXCEPT ![s] = to] /\ LoopKeeps

\* Mutant: a limit of one too many.
MutSlots == IF Workers <= 0 THEN Cardinality(Servers) ELSE Workers + 1

\* With no servers the code says 1, and nobody asks for a slot.
Slots == IF Workers <= 0 THEN Cardinality(Servers) ELSE Workers

Acquire(s) ==
    /\ Work(s, "queued", "check")
    /\ sem < Slots
    /\ sem' = sem + 1
    /\ UNCHANGED <<pending, results>>

\* Connectivity checks and the TCP connection, all with timeouts.
Checked(s) ==
    /\ \/ s \in Local /\ Work(s, "check", "gather")
       \/ s \notin Local /\ (Work(s, "check", "handshake") \/ Work(s, "check", "append"))
    /\ UNCHANGED <<sem, pending, results>>

\* The SSH handshake, through a jump host or not: it ends when the peer ends it.
HandshakeReturns(s) ==
    /\ Work(s, "handshake", "gather") \/ Work(s, "handshake", "append")
    /\ UNCHANGED <<sem, pending, results>>

\* Commands run under a deadline, except for opening the session of a remote
\* one and for the children of a local one.
GatherReturns(s) ==
    /\ Work(s, "gather", "append")
    /\ UNCHANGED <<sem, pending, results>>

AppendResult(s) ==
    /\ Work(s, "append", "release")
    /\ results' = Append(results, s)
    /\ UNCHANGED <<sem, pending>>

\* Mutant: a worker may leave without having appended its result.
MutRelease(s) ==
    /\ worker[s] \in {"append", "release"}
    /\ worker' = [worker EXCEPT ![s] = "leave"] /\ LoopKeeps
    /\ sem' = sem - 1
    /\ UNCHANGED <<pending, results>>

Release(s) ==
    /\ Work(s, "release", "leave")
    /\ sem' = sem - 1
    /\ UNCHANGED <<pending, results>>

\* Mutant: the worker never tells the wait group.
MutLeave(s) ==
    /\ Work(s, "leave", "finished")
    /\ UNCHANGED <<sem, pending, results>>

Leave(s) ==
    /\ Work(s, "leave", "finished")
    /\ pending' = pending - 1
    /\ UNCHANGED <<sem, results>>

OwnWork(s) ==
    \/ Acquire(s) \/ Checked(s) \/ AppendResult(s) \/ Release(s) \/ Leave(s)

PeerWork(s) == HandshakeReturns(s) \/ GatherReturns(s)

----------------------------------------------------------------------------
(* Monitor.Stop. *)

StartKeeps == UNCHANGED <<loop, tick, jobs, wg>> /\ CollectKeeps

Stopping(from, to) == stop = from /\ stop' = to

\* The signal arrives, perhaps before the goroutine of Start has run: Stop
\* closes done.
CloseDone ==
    /\ Stopping("running", "jobs")
    /\ done' = TRUE
    /\ UNCHANGED <<store, early>> /\ StartKeeps

\* JobManager.Stop returns.
JobsStopped ==
    /\ Stopping("jobs", "wait")
    /\ UNCHANGED <<done, store, early>> /\ StartKeeps

Registered == loop \notin {"new", "register"}

\* m.wg.Wait returns.
WaitReturns ==
    /\ Stopping("wait", "close")
    /\ wg = 0
    /\ early' = ~Registered
    /\ UNCHANGED <<done, store>> /\ StartKeeps

CloseStore ==
    /\ Stopping("close", "returned")
    /\ store' = "closed"
    /\ UNCHANGED <<done, early>> /\ StartKeeps

StopStep == JobsStopped \/ WaitReturns \/ CloseStore

\* main has returned.
Exited == stop = "returned" /\ UNCHANGED vars

LoopStep ==
    \/ StartJobs \/ Register \/ Begin \/ (\E s \in Servers : Spawn(s))
    \/ Gathered \/ Deliver

Next ==
    \/ LoopStep \/ NextCycle \/ LoopExits \/ Tick \/ JobsExit
    \/ \E s \in Servers : OwnWork(s) \/ PeerWork(s)
    \/ CloseDone \/ StopStep \/ Exited

Spec == Init /\ [][Next]_vars

(***************************************************************************)
(* Fairness.  Every goroutine that can run does, ticks come, and a select  *)
(* with two ready cases chooses at random, so neither is put off for ever. *)
(* A semaphore slot goes to a waiting sender in turn.  Only peers that     *)
(* answer are fair: no deadline ends an SSH handshake.                     *)
(***************************************************************************)
Fairness ==
    /\ WF_vars(LoopStep) /\ SF_vars(NextCycle) /\ SF_vars(LoopExits)
    /\ WF_vars(Tick) /\ WF_vars(JobsExit) /\ WF_vars(StopStep)
    /\ \A s \in Servers :
         /\ SF_vars(Acquire(s)) /\ WF_vars(OwnWork(s))
         /\ s \in Answering => WF_vars(PeerWork(s))

FairSpec == Spec /\ Fairness

----------------------------------------------------------------------------
(* Properties. *)

Holding == {"check", "handshake", "gather", "append", "release"}

Holders == {s \in Servers : worker[s] \in Holding}

Unfinished == {s \in Servers : worker[s] \notin {"none", "finished"}}

Open == loop \in {"spawn", "deliver", "record", "publish"}

TypeOK ==
    /\ loop \in LoopSteps
    /\ toSpawn \in SUBSET Servers
    /\ worker \in [Servers -> WorkerSteps]
    /\ sem \in Nat /\ pending \in Nat
    /\ results \in Seq(Servers)
    /\ tick \in BOOLEAN /\ done \in BOOLEAN
    /\ jobs \in {"none", "running", "exited"}
    /\ wg \in Nat
    /\ stop \in StopSteps
    /\ store \in {"open", "closed"} /\ early \in BOOLEAN

\* "Poll at most 10 servers at a time": no more servers are being collected
\* than cfg.Workers allows.
WorkersBounded == Workers > 0 => Cardinality(Holders) <= Workers

\* What is evaluated, recorded and published is one result for each server:
\* none missing because a worker was late, none twice, none of another cycle.
BatchComplete ==
    loop \in {"deliver", "record", "publish"} =>
        /\ \A s \in Servers : \E i \in DOMAIN results : results[i] = s
        /\ \A i, k \in DOMAIN results : results[i] = results[k] => i = k

\* Before the store is closed both loops have exited and no worker is left,
\* whenever the signal came, unless the wait was over before Start had counted
\* itself in the wait group.
StopDrains ==
    stop \in {"close", "returned"} =>
        early \/ (loop = "exited" /\ jobs = "exited" /\ Unfinished = {})

\* Stop, once called, returns.
StopReturns == done ~> (stop = "returned")

Published(s) == loop = "publish" /\ \E i \in DOMAIN results : results[i] = s

\* "A single slow or failing host will not block other polling goroutines
\* beyond the configured timeout": while the monitor runs, a server that
\* answers is published again and again.
HealthyPublished ==
    \A s \in Answering : [](~done => <>(done \/ Published(s)))

(***************************************************************************)
(* The inductive invariant: the wait groups and the semaphore count what   *)
(* they should, a worker that has left has appended, and Stop's wait has   *)
(* seen both loops.                                                        *)
(***************************************************************************)

\* The three counters.
Counted ==
    /\ sem = Cardinality(Holders) /\ sem <= Slots
    /\ pending = Cardinality(Unfinished)
    /\ wg = (IF jobs = "running" THEN 1 ELSE 0)
              + (IF loop \in {"new", "register", "exited"} THEN 0 ELSE 1)

\* Where the workers and the results are, for each step of the loop.
InStep ==
    /\ loop = "spawn" => toSpawn = {s \in Servers : worker[s] = "none"}
    /\ loop # "spawn" => toSpawn = {} /\ Unfinished = {}
    /\ loop \in {"deliver", "record", "publish"} =>
         \A s \in Servers : worker[s] = "finished"
    /\ Open => \A s \in Servers :
         worker[s] \in {"release", "leave", "finished"}
            <=> \E i \in DOMAIN results : results[i] = s
    /\ \A i, k \in DOMAIN results : results[i] = results[k] => i = k

Stopped ==
    /\ jobs = "none" <=> loop = "new"
    /\ loop = "exited" \/ jobs = "exited" => done
    /\ done <=> stop # "running"
    /\ StopDrains

\* The inductive invariant of the polling loop.
IInv == TypeOK /\ Counted /\ InStep /\ Stopped

\* The polling loop implements Rounds: a round is open from the first worker
\* to the publication, and the results are its reports.
R == INSTANCE Rounds WITH
       round    <- IF Open THEN "open" ELSE IF loop = "exited" THEN "shut" ELSE "closed",
       reported <- IF Open THEN {results[i] : i \in DOMAIN results} ELSE {}

ImplementsRounds == R!Spec
=============================================================================
