----------------------------- MODULE JobManager ------------------------------
(***************************************************************************)
(* Scheduled local jobs: internal/monitor/jobs.go with the part of         *)
(* monitor.go that stops it and the part of web/state.go it reports to.    *)
(*                                                                         *)
(* One loop goroutine (runJobLoop) scans the configured jobs every tick    *)
(* and starts a goroutine for each due one; a run executes the command,    *)
(* uploads its artifacts in order, records its result, tells the web       *)
(* state, clears its running mark, and leaves the wait group.  Stop runs   *)
(* concurrently with all of them.  Every step below is one critical        *)
(* section, one blocking call, or one statement between two of those.      *)
(*                                                                         *)
(* A job is its position in cfg.Jobs: validation makes the names, which    *)
(* the code uses as keys, unique.  The clock counts ticks of the loop,     *)
(* TicksPerMinute of them to a wall-clock minute.                          *)
(***************************************************************************)
EXTENDS Integers, Sequences, FiniteSets, SequencesExt

CONSTANTS
    NumJobs,         \* jobs configured
    Enabled,         \* those with enabled: true
    OnStart,         \* those with run_on_start: true
    HasCommand,      \* those with a command
    Uploads,         \* Uploads[j]: how many artifacts job j uploads
    Due,             \* Due[j]: the minutes job j's cron schedule matches
    TicksPerMinute,  \* loop ticks in a minute (12 in the code)
    ResultCap,       \* results kept in memory (100 in the code)
    MaxClock,        \* bound: the last instant of a behaviour
    PeersAnswer,     \* TRUE: the SSH server of an upload target answers
    ChildrenExit     \* TRUE: no child of a command's shell outlives it

Jobs == 1..NumJobs

ASSUME JobsAssumption ==
    /\ NumJobs \in Nat
    /\ Enabled \subseteq Jobs /\ OnStart \subseteq Jobs
    /\ HasCommand \subseteq Jobs
    /\ Uploads \in [Jobs -> Nat]
    /\ \A j \in Jobs : j \in HasCommand \/ Uploads[j] > 0
    /\ Due \in [Jobs -> SUBSET Nat]

ASSUME ClockAssumption ==
    /\ TicksPerMinute \in Nat \ {0}
    /\ ResultCap \in Nat \ {0}
    /\ MaxClock \in Nat
    /\ PeersAnswer \in BOOLEAN
    /\ ChildrenExit \in BOOLEAN

VARIABLES
    clock,      \* the current instant
    polled,     \* the loop has finished a scan that began in this instant
    loop,       \* the goroutine of runJobLoop: [pc, now, next]
    lastRun,    \* JobManager.lastRun, Never for an absent key
    running,    \* JobManager.running
    blocked,    \* history: the jobs the latest scan found running
    ended,      \* history: the jobs with a run that ended in this minute
    runs,       \* the goroutines started so far, in the order they started
    wg,         \* the counter of JobManager.wg
    results,    \* JobManager.results: positions in runs, oldest first
    page,       \* State.jobs: what the Jobs page shows
    stop        \* how far Monitor.Stop has got

vars == <<clock, polled, loop, lastRun, running, blocked, ended, runs, wg,
          results, page, stop>>

Never == -1

RunSteps == {"spawned", "command", "dial", "handshake", "transfer", "record",
             "notify", "finish", "release", "done"}

StopSteps == {"running", "closed", "cancelled", "stopped", "drained", "returned"}

\* A run goroutine.  at: the time RunDue sampled; finishedAt: the argument of
\* the deferred finished(); sent: artifacts uploaded; snapshot: what it will
\* hand to notify.  What its JobResult says is left out.
Run == [job : Jobs, pc : RunSteps, at : Nat, finishedAt : Nat, sent : Nat,
        snapshot : Seq(Nat)]

Minute(t) == t \div TicksPerMinute

\* Mutant: lastRun.Before(now), without the Truncate.
MutNoTruncate(t) == t

MinuteStart(t) == Minute(t) * TicksPerMinute

Matches(j, t) == Minute(t) \in Due[j]

\* Mutant: JobManager.Stop waits first and sets the flag afterwards.
MutStopped == stop = "returned"

\* jm.ctx is cancelled; jm.stopped is set.
Cancelled == stop \in {"cancelled", "stopped", "drained", "returned"}
Stopped   == stop \in {"stopped", "drained", "returned"}

\* A run that still counts as running: finished() has not removed its mark.
Live(r) == r.pc \notin {"release", "done"}

RunIds == DOMAIN runs

NewRun(j, now) ==
    [job |-> j, pc |-> "spawned", at |-> now, finishedAt |-> now, sent |-> 0,
     snapshot |-> <<>>]

Init ==
    /\ clock = 0
    /\ polled = FALSE
    /\ loop = [pc |-> "unborn", now |-> 0, next |-> 1]
    /\ lastRun = [j \in Jobs |-> Never]
    /\ running = {}
    /\ blocked = {}
    /\ ended = {}
    /\ runs = <<>>
    /\ wg = 0
    /\ results = <<>>
    /\ page = <<>>
    /\ stop = "running"

----------------------------------------------------------------------------
(* The loop goroutine. *)

\* The goroutine Start spawns, or a tick, enters runDueJobs and samples now.
\* After close(done) a tick that is ready too may still win the select.
LoopTick ==
    /\ loop.pc \in {"unborn", "idle"} /\ stop # "returned"
    /\ loop' = [pc |-> "scan", now |-> clock, next |-> 1]
    /\ blocked' = {}
    /\ UNCHANGED <<clock, polled, lastRun, running, ended, runs, wg, results, page,
                   stop>>

LoopExit ==
    /\ loop.pc = "idle"
    /\ stop # "running"
    /\ loop' = [loop EXCEPT !.pc = "exited"]
    /\ UNCHANGED <<clock, polled, lastRun, running, blocked, ended, runs, wg,
                   results, page, stop>>

ScanDone ==
    /\ loop.pc = "scan"
    /\ loop.next > NumJobs
    /\ loop' = [loop EXCEPT !.pc = "idle"]
    /\ polled' = (polled \/ loop.now = clock)
    /\ UNCHANGED <<clock, lastRun, running, blocked, ended, runs, wg, results, page,
                   stop>>

\* Mutant: the running test is missing.
MutNoRunningTest(j, now) ==
    /\ ~Stopped
    /\ IF lastRun[j] = Never
       THEN j \in OnStart
       ELSE Matches(j, now) /\ lastRun[j] < MinuteStart(now)

\* Mutant: compared with a start of the minute that is a tick early.
MutEarlyMinute(j, now) ==
    /\ ~Stopped
    /\ j \notin running
    /\ IF lastRun[j] = Never
       THEN j \in OnStart
       ELSE Matches(j, now) /\ lastRun[j] < MinuteStart(now) - 1

\* startDue's test, in the critical section of jm.mu.
MayStart(j, now) ==
    /\ ~Stopped
    /\ j \notin running
    /\ IF lastRun[j] = Never
       THEN j \in OnStart
       ELSE Matches(j, now) /\ lastRun[j] < MinuteStart(now)

\* startDue answers TRUE and RunDue spawns the run's goroutine.
StartDue ==
    LET j == loop.next IN
    /\ loop.pc = "scan" /\ j \in Enabled
    /\ MayStart(j, loop.now)
    /\ running' = running \cup {j}
    /\ wg' = wg + 1
    /\ runs' = Append(runs, NewRun(j, loop.now))
    /\ loop' = [loop EXCEPT !.next = @ + 1]
    /\ UNCHANGED <<clock, polled, lastRun, blocked, ended, results, page, stop>>

\* A disabled job is skipped; startDue answers FALSE for the others, and
\* notes the time when it meets a job it has no last run of.
PassOver ==
    LET j == loop.next
        firstSight == j \in Enabled /\ ~Stopped /\ j \notin running
                        /\ lastRun[j] = Never
    IN
    /\ loop.pc = "scan" /\ j \in Jobs
    /\ j \notin Enabled \/ ~MayStart(j, loop.now)
    /\ lastRun' = IF firstSight THEN [lastRun EXCEPT ![j] = loop.now] ELSE lastRun
    /\ blocked' = IF j \in Enabled \cap running THEN blocked \cup {j} ELSE blocked
    /\ loop' = [loop EXCEPT !.next = @ + 1]
    /\ UNCHANGED <<clock, polled, running, ended, runs, wg, results, page, stop>>

----------------------------------------------------------------------------
(* The goroutine of run i. *)

\* A run step leaves the loop, the clock and Stop alone.
OthersKeep == UNCHANGED <<clock, polled, loop, blocked, stop>>

At(i, pc) == i \in RunIds /\ runs[i].pc = pc

Goto(i, pc) == runs' = [runs EXCEPT ![i].pc = pc]

\* An error ends the run: the artifacts still to come are not uploaded.
Fail(i) == Goto(i, "record")

\* The next artifact, or success when none is left.
Proceed(i, sent) ==
    runs' = [runs EXCEPT ![i].sent = sent,
                         ![i].pc = IF sent < Uploads[runs[i].job]
                                   THEN "dial" ELSE "record"]

\* Mutant: finished() called where it should have been deferred.
MutRunBegin(i) ==
    /\ At(i, "spawned")
    /\ runs' = [runs EXCEPT ![i].finishedAt = clock,
                             ![i].pc = IF runs[i].job \in HasCommand
                                       THEN "command" ELSE "dial"]
    /\ running' = running \ {runs[i].job}
    /\ lastRun' = [lastRun EXCEPT ![runs[i].job] = clock]
    /\ UNCHANGED <<ended, wg, results, page>> /\ OthersKeep

\* The goroutine gets going, at or after the scan that spawned it.  Its defer
\* statement evaluates time.Now(), the argument of finished(), here.
RunBegin(i) ==
    /\ At(i, "spawned")
    /\ runs' = [runs EXCEPT ![i].finishedAt = clock,
                             ![i].pc = IF runs[i].job \in HasCommand
                                       THEN "command" ELSE "dial"]
    /\ UNCHANGED <<running, lastRun, ended, wg, results, page>> /\ OthersKeep

\* Mutant: a command that hangs, under a context without the job's timeout.
MutCommandReturns(i) ==
    /\ At(i, "command")
    /\ Cancelled
    /\ Fail(i)
    /\ UNCHANGED <<running, lastRun, ended, wg, results, page>> /\ OthersKeep

\* runScheduledCommand: a cancelled context outweighs the exit status.
CommandReturns(i) ==
    /\ At(i, "command")
    /\ \/ ~Cancelled /\ Proceed(i, 0)
       \/ Fail(i)          \* exit status, the job's timeout, or cancellation
    /\ UNCHANGED <<running, lastRun, ended, wg, results, page>> /\ OthersKeep

\* uploadJobArtifact up to the TCP connection.
DialReturns(i) ==
    /\ At(i, "dial")
    /\ Goto(i, "handshake") \/ Fail(i)
    /\ UNCHANGED <<running, lastRun, ended, wg, results, page>> /\ OthersKeep

\* The SSH handshake has neither context nor deadline: it ends when the peer
\* answers or drops the connection.
HandshakeReturns(i) ==
    /\ At(i, "handshake")
    /\ Goto(i, "transfer") \/ Fail(i)
    /\ UNCHANGED <<running, lastRun, ended, wg, results, page>> /\ OthersKeep

\* Upload on the open connection: success, an error, or cancellation, which
\* closes the session and is noticed when the server closes it too.
TransferReturns(i) ==
    /\ At(i, "transfer")
    /\ Proceed(i, runs[i].sent + 1) \/ Fail(i)
    /\ UNCHANGED <<running, lastRun, ended, wg, results, page>> /\ OthersKeep

\* record(): append, keep the newest ResultCap, copy newest-first, unlock.
Keep(s) == IF Len(s) > ResultCap
           THEN SubSeq(s, Len(s) - ResultCap + 1, Len(s)) ELSE s

Record(i) ==
    /\ At(i, "record")
    /\ results' = Keep(Append(results, i))
    /\ runs' = [runs EXCEPT ![i].pc = "notify",
                            ![i].snapshot = Reverse(Keep(Append(results, i)))]
    /\ UNCHANGED <<running, lastRun, ended, wg, page>> /\ OthersKeep

\* The second half of record(), outside the lock: State.UpdateJobs.
Notify(i) ==
    /\ At(i, "notify")
    /\ page' = runs[i].snapshot
    /\ runs' = [runs EXCEPT ![i].pc = "finish", ![i].snapshot = <<>>]
    /\ UNCHANGED <<running, lastRun, ended, wg, results>> /\ OthersKeep

\* The deferred finished(job.Name, finishedAt).
Finish(i) ==
    /\ At(i, "finish")
    /\ running' = running \ {runs[i].job}
    /\ lastRun' = [lastRun EXCEPT ![runs[i].job] = runs[i].finishedAt]
    /\ ended' = ended \cup {runs[i].job}
    /\ Goto(i, "release")
    /\ UNCHANGED <<wg, results, page>> /\ OthersKeep

\* Mutant: a goroutine that forgets wg.Done().
MutRelease(i) ==
    /\ At(i, "release")
    /\ Goto(i, "done")
    /\ UNCHANGED <<running, lastRun, ended, wg, results, page>> /\ OthersKeep

\* The deferred jm.wg.Done().
Release(i) ==
    /\ At(i, "release")
    /\ wg' = wg - 1
    /\ Goto(i, "done")
    /\ UNCHANGED <<running, lastRun, ended, results, page>> /\ OthersKeep

\* The steps of run i, those that wait for its command's children or for the
\* remote SSH server apart.
OwnStep(i) ==
    \/ RunBegin(i) \/ DialReturns(i)
    \/ Record(i) \/ Notify(i) \/ Finish(i) \/ Release(i)

PeerStep(i) == HandshakeReturns(i) \/ TransferReturns(i)

----------------------------------------------------------------------------
(* Monitor.Stop, with JobManager.Stop inside it, and the clock. *)

StopStep(from, to) ==
    /\ stop = from
    /\ stop' = to
    /\ UNCHANGED <<clock, polled, loop, lastRun, running, blocked, ended, runs,
                   wg, results, page>>

CloseDone == StopStep("running", "closed")
Cancel    == StopStep("closed", "cancelled")
MarkStop  == StopStep("cancelled", "stopped")
Drain     == wg = 0 /\ StopStep("stopped", "drained")
\* m.wg.Wait(): the loop has left, or Start has not added it yet.
Return    == loop.pc \in {"unborn", "exited"} /\ StopStep("drained", "returned")

\* Time passes at any moment: a scan or a run may be late by any distance.
Advance ==
    /\ clock < MaxClock /\ stop # "returned"
    /\ clock' = clock + 1
    /\ polled' = FALSE
    /\ ended' = IF Minute(clock') = Minute(clock) THEN ended ELSE {}
    /\ UNCHANGED <<loop, lastRun, running, blocked, runs, wg, results, page, stop>>

\* main returns after Stop: the process is gone.
Exited == stop = "returned" /\ UNCHANGED vars

\* A job is started at most once a minute, so no behaviour has more runs.
MaxRuns == NumJobs * (Minute(MaxClock) + 1)

Next ==
    \/ LoopTick \/ LoopExit \/ ScanDone \/ StartDue \/ PassOver
    \/ \E i \in 1..MaxRuns : OwnStep(i) \/ CommandReturns(i) \/ PeerStep(i)
    \/ CloseDone \/ Cancel \/ MarkStop \/ Drain \/ Return
    \/ Advance
    \/ Exited

Spec == Init /\ [][Next]_vars

(***************************************************************************)
(* Fairness.  The Go scheduler runs every goroutine that can run, and the  *)
(* job's timeout ends dials and kills the shell of a command (WF).         *)
(* LoopExit needs SF: select picks among ready channels at random, so a    *)
(* loop whose done channel is closed cannot keep choosing the ticker.  A   *)
(* killed shell's children keep its output open, and Run waits for them.   *)
(* The handshake, and opening a session for the transfer, end only if the  *)
(* remote server answers.                                                  *)
(* Nobody is obliged to stop the process.                                  *)
(***************************************************************************)
Fairness ==
    /\ WF_vars(LoopTick) /\ SF_vars(LoopExit)
    /\ WF_vars(ScanDone \/ StartDue \/ PassOver)
    /\ \A i \in 1..MaxRuns : WF_vars(OwnStep(i))
    /\ ChildrenExit => \A i \in 1..MaxRuns : WF_vars(CommandReturns(i))
    /\ PeersAnswer => \A i \in 1..MaxRuns : WF_vars(PeerStep(i))
    /\ WF_vars(Cancel) /\ WF_vars(MarkStop) /\ WF_vars(Drain) /\ WF_vars(Return)

FairSpec == Spec /\ Fairness

----------------------------------------------------------------------------
(* Properties. *)

TypeOK ==
    /\ clock \in Nat
    /\ polled \in BOOLEAN
    /\ loop \in [pc : {"unborn", "idle", "scan", "exited"}, now : Nat,
                 next : 1..(NumJobs + 1)]
    /\ lastRun \in [Jobs -> Nat \cup {Never}]
    /\ running \in SUBSET Jobs
    /\ blocked \in SUBSET Jobs
    /\ ended \in SUBSET Jobs
    /\ runs \in Seq(Run)
    /\ wg \in Nat
    /\ results \in Seq(Nat)
    /\ page \in Seq(Nat)
    /\ stop \in StopSteps

\* "A running job is never overlapped with a second instance": no two runs of
\* one job are both between startDue and finished().  The mark is set and
\* cleared in different critical sections, by different goroutines.
NoOverlap ==
    \A i, k \in RunIds :
        Live(runs[i]) /\ Live(runs[k]) /\ runs[i].job = runs[k].job => i = k

\* A schedule fires a job at most once for a minute, however often the loop
\* looks at it in that minute and however short or long the runs are.
OncePerMinute ==
    \A i, k \in RunIds :
        i < k /\ runs[i].job = runs[k].job
            => Minute(runs[i].at) < Minute(runs[k].at)

\* The outcomes of one job are recorded in the order its runs started, even
\* though every run records, reports and clears its mark in separate steps.
OutcomesInStartOrder ==
    \A a, b \in DOMAIN results :
        a < b /\ runs[results[a]].job = runs[results[b]].job
            => results[a] < results[b]

\* When JobManager.Stop has returned no run is left: the wait group has
\* counted every goroutine the loop managed to start beside Stop.
StopDrainsRuns ==
    stop \in {"drained", "returned"} => \A i \in RunIds : runs[i].pc = "done"

(***************************************************************************)
(* The inductive invariant: why the properties above hold.  The mark in    *)
(* running, the order of runs and lastRun are three records of the same    *)
(* fact, kept in step by different goroutines.                             *)
(***************************************************************************)

\* No run is from the future.
InTime ==
    /\ loop.now <= clock /\ clock <= MaxClock
    /\ \A i \in RunIds : runs[i].at <= clock /\ runs[i].at <= runs[i].finishedAt

\* A job is marked running exactly while one of its runs is live.
MarkIsLive ==
    \A j \in Jobs :
        j \in running <=> \E i \in RunIds : runs[i].job = j /\ Live(runs[i])

\* Only the latest run of a job can be live.
LiveIsLatest ==
    \A i, k \in RunIds :
        Live(runs[i]) /\ runs[k].job = runs[i].job => k <= i

\* lastRun is never before the scan that started a finished run.
LastRunCovers ==
    \A i \in RunIds : ~Live(runs[i]) => runs[i].at <= lastRun[runs[i].job]

\* The wait group counts the goroutines that are not done.
WaitGroupCounts ==
    wg = Cardinality({i \in RunIds : runs[i].pc # "done"})

DrainedIsEmpty == stop \in {"drained", "returned"} => wg = 0

\* The inductive invariant of the job manager.
IInv ==
    /\ TypeOK /\ InTime /\ MarkIsLive /\ LiveIsLatest /\ LastRunCovers
    /\ OncePerMinute /\ WaitGroupCounts /\ DrainedIsEmpty

\* A recorded outcome is that of a run that has been through record().
Recorded(r) == r.pc \in {"notify", "finish", "release", "done"}

RecordsAreOfRuns ==
    \A a \in DOMAIN results : results[a] \in RunIds /\ Recorded(runs[results[a]])

RecordInv == RecordsAreOfRuns /\ OutcomesInStartOrder

\* The minute of this instant counts as served for job j.
Served(j) ==
    \/ \E i \in RunIds : runs[i].job = j /\ Minute(runs[i].at) = Minute(clock)
    \/ lastRun[j] # Never /\ Minute(lastRun[j]) = Minute(clock)

NotAhead ==
    /\ \A i \in RunIds : runs[i].finishedAt <= clock
    /\ \A j \in Jobs : lastRun[j] <= clock

PolledIsNow == polled => loop.now = clock

\* A job's last run is from a minute before that of the run that is live, so
\* what finished() overwrites has served no minute that is not over.
LiveIsNewer ==
    \A i \in RunIds :
        Live(runs[i]) => \/ lastRun[runs[i].job] = Never
                         \/ lastRun[runs[i].job] < MinuteStart(runs[i].at)

\* What the scan has passed in this minute is served, unless it is blocked.
ScanServes ==
    /\ loop.pc = "scan" /\ Minute(loop.now) = Minute(clock) /\ stop = "running" =>
         \A j \in Enabled \ blocked : j < loop.next /\ Matches(j, clock) => Served(j)
    /\ loop.pc = "idle" /\ polled /\ stop = "running" =>
         \A j \in Enabled \ blocked : Matches(j, clock) => Served(j)

ServeInv == NotAhead /\ PolledIsNow /\ LiveIsNewer /\ ScanServes

\* Nothing starts after jm.stopped is set, whatever the loop was doing.
NoStartAfterStop == [][Stopped => Len(runs') = Len(runs)]_vars

\* A minute that the schedule names, and that the loop scans before it is over,
\* is served, unless the scan found the job running: when the minute ends the
\* job has been started in it, or seen for the first time in it.
DueMinuteServed ==
    [][ /\ Minute(clock') # Minute(clock)
        /\ polled /\ loop.pc = "idle" /\ stop = "running"
        => \A j \in Enabled \ blocked : Matches(j, clock) => Served(j) ]_vars

\* JobManager keeps the promises of JobSchedule: its active jobs are those
\* with a live run, its served minutes those of the scans that started runs.
ActiveJobs == {runs[i].job : i \in {k \in RunIds : Live(runs[k])}}

ServedMinutes ==
    [j \in Jobs |-> {Minute(runs[i].at) : i \in {k \in RunIds : runs[k].job = j}}]

JS == INSTANCE JobSchedule WITH
        active <- ActiveJobs, served <- ServedMinutes, open <- ~Stopped,
        Minutes <- 0..Minute(MaxClock)

ImplementsJobSchedule == JS!Spec

\* Stop returns once it is called: it waits for the runs and for the loop.
StopReturns == (stop # "running") ~> (stop = "returned")

\* A started run ends.
EveryRunEnds ==
    \A i \in 1..MaxRuns : (i \in RunIds) ~> (i \in RunIds /\ runs[i].pc = "done")

\* jobs.go: "the next occurrence is calculated from completion time so a slow
\* import cannot trigger an immediate catch-up run": a run never starts in
\* the minute in which the previous run of the job completed.
NoCatchUpRun ==
    [][ Minute(loop.now) = Minute(clock) =>
          (running' \ running) \cap ended = {} ]_vars
==============================================================================
