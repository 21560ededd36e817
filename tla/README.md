# WatchSSH in TLA+

WatchSSH polls servers over SSH, evaluates alert rules on what it finds, asks an
optional model for advice, runs remediation commands, delivers alerts, records a
history, serves a dashboard and runs scheduled local jobs. This directory models
the parts of it whose correctness depends on the order of events: goroutines,
locks, wait groups, throttles with clocks, shared slices, peers that stay silent,
crashes and shutdown; and the rules, fields and verdicts that those events meet.
TLC checks the models on small instances; TLAPS proves the main safety properties
for every value of the constants.

## The system and its parts

| Part (source) | State it keeps | Operations | Hard behaviours | What makes it correct |
|---|---|---|---|---|
| Polling loop (`internal/monitor/monitor.go`) | ticker, `done`, wait groups, worker semaphore, batch | `Start`, `collect`, `Stop` | workers beside each other, Stop at any moment, hosts that hang | at most `workers` at a time; a batch has each server once; Stop drains; a healthy server is published again and again |
| Alerts (`monitor/alert.go`, `operations.go`) | `lastFired` | `Evaluate`, `SuppressDependentFirings`, mail, webhook, routes | cooldown against suppression, shared rule names, failed sends | spacing of alerts; only an outage suppresses; routes see what earlier routes left |
| Remediation (`monitor/remediation.go`) | `last`, `attempts` | `RunRemediations`, `allow` | time passes while commands run; expired attempts are forgotten | cooldown and budget of each runbook and target; no command without its alert |
| Watchdog (`monitor/watchdog.go`) | `last` | `allow`, the model call | several firings of a server in a cycle | one call per server and cooldown; advice executes nothing |
| Scheduled jobs (`monitor/jobs.go`) | `running`, `lastRun`, `results`, `stopped`, wait group | `RunDue`, `startDue`, a run, `record`, `finished`, `Stop` | scans, runs and Stop interleave; children and peers hang | no overlap, once a minute, drain, nothing starts after Stop, the page is current |
| History (`internal/history`) | metric samples, firings | record, retention, queries | conflicts and retries, partial failure, limits | nothing twice, nothing fresh lost |
| Web state (`web/state.go`) | shared configuration, metrics, firings, reviews, changes, audits, jobs | the edits and saves of the handlers, `Update` | two locks over one configuration, saves beside edits | an edit takes effect whole; a save keeps what is live; a file is left that starts again |
| Web server (`web/server.go`, `templates.go`, `openapi.go`) | none of its own | handlers: add and remove servers and probes, import, settings | pages that are stale when submitted; answers before or despite a refused save | edits apply to what the operator saw; what is answered is kept |
| Configuration (`config/config.go`) | a file | `Load`, `Save`, `Validate`, defaults | crash while saving; defaults that differ between a form, an import and a start | what is saved can be loaded, and means the same |
| Schedules (`schedule/schedule.go`) | none | `Parse`, `Matches` | ranges, steps, day-of-month against day-of-week | agrees with cron |
| SSH client (`ssh/client.go`) | a connection | `New`, `Run`, `Upload`, keepalive, `Close` | silence, cancellation, lost replies, a source that changes | a published file is whole; a result is true; nothing stays open |
| Network checks (`check/check.go`), tool checks (`monitor/toolchecks.go`) | none | 22 kinds of probe | silence, missing utilities, fields left blank | OK only when what is asked for is so |
| Collectors, platforms, output | none | parsing | none of order | unit tests |
| Process (`main.go`) | none | start, filter, signal, stop | a signal before the loops run; a filtered configuration that is saved | order of shutdown |

`main` builds the configuration, the web state, the history store and the
monitor, and starts two goroutines: the web server and `Monitor.Start`. Start
runs the polling loop and, beside it, the job loop. `collect` starts a goroutine
per server, waits for all of them, and then evaluates, suppresses, advises,
remediates, delivers, records and publishes one after the other. The job loop
starts a goroutine per due job. Both report to the web state through callbacks;
handlers read it and edit the configuration it shares with the monitor. A signal
makes `main` call `Monitor.Stop`, which closes `done`, stops the job manager,
waits for both loops and closes the store.

## Modules

| Module | Models | Kind |
|---|---|---|
| `JobSchedule` | the promise about jobs | abstract specification |
| `JobManager` | `jobs.go`, with Stop and the page's data | component |
| `JobManagerProofs` | | theorems |
| `CronSchedule` | `schedule.go`: `Parse`, `Matches`, and what an expression means | operators |
| `CronScheduleProofs` | | theorems |
| `Rounds` | the promise about polling | abstract specification |
| `PollingLoop` | `monitor.go`: Start, collect, Stop | component |
| `PollingLoopProofs` | | theorems |
| `AlertPipeline` | what a cycle does with its batch: `alert.go`, `operations.go`, `remediation.go`, `watchdog.go` | component |
| `AlertPipelineProofs` | | theorems |
| `HistoryStore` | `recordHistory` of `monitor.go`, `history/tinysql.go` | component |
| `HistoryStoreProofs` | | theorems |
| `ServerList` | lists of servers: the filter, the built-in server, `Validate` | operators |
| `ConfigStore` | the promise about the configuration | abstract specification |
| `LiveConfig` | `web/state.go`, `Save` and `Load`, beside `collect` and restarts | component |
| `LiveConfigProofs` | | theorems |
| `ProbeKinds` | the fields of the 22 kinds: defaults, imports, forms, `Validate` | operators |
| `ProbeChecks` | `check.go`, `toolchecks.go`: the verdict of each kind | operators |
| `Probes` | the probe handlers of `server.go` beside `collectServer` and restarts | component |
| `ProbesProofs` | | theorems |
| `Upload` | `ssh/client.go` and the server's `scp -t` | component |
| `UploadProofs` | | theorems |
| `MCJobManager`, `MCPollingLoop`, `MCAlertPipeline`, `MCHistoryStore`, `MCLiveConfig`, `MCProbes`, `MCUpload` | instances for TLC | model checking |

`PollingLoop` takes the collection of a server as begin and end and a history
write as one step; `Probes` details the first, `HistoryStore` the second,
`AlertPipeline` what comes between them. `JobManager` takes an upload as three
calls, which `Upload` details. `LiveConfig` takes the probes of a server as the
version of its entry, which `Probes` details; `Probes` in turn takes a save as one
step.

### JobManager

A job is its position in `cfg.Jobs`. `loop` is the goroutine of `runJobLoop` with
the time it sampled and the job it looks at; `running`, `lastRun`, `results`,
`wg` and `stop` are the fields of the manager and the progress of `Monitor.Stop`;
`runs` holds one record per goroutine ever started, with the step it is at.
`StartDue` and `PassOver` are the two answers of `startDue`, each in one critical
section. A run goes through `RunBegin` (which evaluates the argument of the
deferred `finished`), `CommandReturns`, then for each artifact `DialReturns`,
`HandshakeReturns`, `TransferReturns`, and `Record`, `Notify`, `Finish`,
`Release`; each is one critical section or one blocking call. `page` is what
`State.UpdateJobs` stored. The contents of a result are left out.

The clock counts ticks of the loop. Time passes between any two steps, so a scan
or a run may be arbitrarily late; `DueMinuteServed` speaks of the minutes that the
loop scans before they are over.

### CronSchedule

An expression is its five fields, a field the items between its commas, and a name
stands for its number. `ItemParses` gathers what `parseStep`, `parseRange` and
`parseValue` refuse; `Visited` are the values the loop of `parseField` puts in,
with sums that wrap as an int does (`MaxInt` is a constant, 127 for TLC);
`ScheduleMatches` is `Matches`. `Falls` says what "traditional cron semantics"
(schedule.go:72) asks for, without loops or sums. `MCJobManager` gives the jobs the
minutes two expressions match.

### PollingLoop

`loop` walks through Start and collect; `worker[s]` is the goroutine of server
`s`; `sem`, `pending` and `wg` are the semaphore and the two wait groups, kept as
numbers as in the code, so that what they count is a property and not a
definition. Time is left out: a tick may fall at any step, and what has a timeout
may end at any step. The signal may come before Start has counted itself in the
wait group; `early` remembers that Stop's wait was over by then.

### AlertPipeline

One goroutine walks through the phases of `collect` from `Evaluate` to `Publish`;
`pos` holds the loop positions over firings, runbooks, targets and routes. The
clock advances between any two steps, in particular while a command, a model or a
mail server answers. `lastFired`, `lastAdvice`, `lastTry` and `attempts` are the
maps of the three managers; `alerts`, `muted`, `consults`, `log` and `received`
are histories that only the properties read. The batch is any assignment of
reports to the monitored servers, and the order in which servers answered is
chosen too. A filter by metric counts as a filter by the rules that name the
metric; names are taken not to contain the separator `|` of the keys. The three
managers keep their maps in memory only: a restart starts fresh, and is not
modelled.

### HistoryStore

`pc` walks through `recordHistory`: for each of the two tables the transaction
with its retries (`begin`, `insert`, `commit`, `backoff`), then the deletions of
`applyRetention`; the same variable says whether the process is opening the file,
idle, closed or down. `stored` counts the committed copies of each row, `staged`
those of the open transaction, so that a row stored twice can be seen; `gone` is
a history of the deletions. A row is its time and its place in the batch. Time is
in half seconds: the model keeps that RFC3339Nano text puts a whole second after
its fractions, which is what the deletions order by. The database is external: a
conflict means that nothing was committed, another error of a commit leaves it
open, and what the file measures after a deletion is open too. The deadline of
the context is an error at any step. `ExpiredGone` measures in time and not in
texts: it asks that nothing is left of an earlier second than the one in which the
retention ends. Wall clocks that are set back are left out.
`Load` turns a `retention_days` of 0 into 30 (config.go:737), so with tinysql the
retention by age is never off, although config.example.yaml:83 says that 0
disables it; the model allows both.

### LiveConfig

`heap` holds the arrays, `live` is the slice `cfg.Servers` (an array and a
length), `glob` the settings. A request enters under the lock (`Enter`), does one
of the edits of `State` (`AddServer`, `UpdateServer`, `RemoveServer`,
`UpdateGlobalSettings`) and saves: `Snapshot` copies the slice header under the
lock for reading, `Read` visits the servers one by one without it, once for
`Validate` and once for `yaml.Marshal`, and `Truncate` and `Write` are the two
steps of `os.WriteFile`, either of which may fail. A write that fails, or that the
end of the process interrupts, leaves some beginning of the file (`CutShort`):
the servers before the cut, perhaps one with a part of its fields, and the
settings behind the servers only if the list is whole. The collector ranges over its
own copy of the header without any lock (`BeginCycle`, `Spawn`). A reader that
meets a writer finds in a slot the old server, the new one, or a mixture
(`Readable`, `Torn`), which are the outcomes a data race on a struct can have.
`Restart` may follow any step. A server is its name, the edit it comes from and
whether the field checks accept it. `sole` and `orderly` are histories: whether a
request has had the configuration to itself, and whether no two have ever met.
A file that was cut short may be refused or may load as what is left of it; the
next save that comes through replaces it. `StartsAgain` says that nothing else
keeps WatchSSH down as long as the operators take turns: in particular not a file
that was truncated and not written, which loads as an empty configuration (with
the web interface off), and not an edit that `Validate` would refuse.
`ConfigStore` says what the operators are promised: edits are whole, and what a
request has saved while nobody else was at work is what a restart serves.

With requests that do meet, the code keeps less than its comment ("All exported
methods are safe for concurrent use", state.go:14-15): `SaveConfig` copies the
struct and not its slices (state.go:356), so a handler may change a server in
place between `Validate` and `yaml.Marshal`, two saves may write one file at a
time, and what stays behind may be refused by `Load`, with no write having failed.
This is why `StartsAgain` speaks of operators who take turns: without `orderly` TLC
refutes it on the same instance.

### Probes

A probe is its kind, who made it, which of its fields are still blank, and one
thing more it may ask for (`ProbeKinds`). `live` and `file` are the server in the
configuration and in its file. The handlers are actions named after them; a
removal has two steps, since it moves the probes behind the row in the array that
the collector is reading. A page remembers the kind and the index of the row that
was picked on it. The collector goes over the lists twice, as `collectServer`
does: the monitor's own probes, then those over the connection, so the results of
ports that the target dials come behind those that the monitor dials, whatever
their places in the list (monitor.go:494), and `EveryProbeReported` asks for the
order within each pass.

`Verdict` says what each kind finds, for every way the host, its utilities and
what is looked at may be (`Worlds`), and `Met` what the comments of `config.go` say
the probe is for. What is looked at may mislead the code: `hidden` is not so but
seems to be where the code looks, `missed` is so but seems not to be. With each
probe that the collection runs, `cyc.last` holds every world in which the verdict
is wrong (`Wrong`), and `VerdictsAreRight` says which those may be. It is assumed
that the shell of the target prints nothing of its own before a command's output,
and that its utilities are the usual ones of Linux, the BSDs and macOS.

`VerdictsAreRight` names what the code is known to report otherwise, by kind:

- what it looks at says too much (`SeesTooLittle`): `pgrep -f` and `ps | grep` count
  the shell that carries the pattern, and a blank target is a pattern that everything
  matches, so a process probe is OK with no such process (toolchecks.go:73, against
  "verifies at least MinCount processes are running", config.go:198-201); a
  journalctl that fails, or whose minutes are those of another time zone, counts no
  lines (148-170); a `du`, `find` or `tail` whose errors are hidden measures less than
  there is (248-271, 285-309); the peers that netstat lists are taken for listeners;
  the age of a file is taken by the monitor's clock; a traceroute all of whose hops
  are silent is OK; a name without a CNAME is its own; an HTTP probe asks for a GET
  whatever its `method`, and ignores `expected_body` (monitor.go:537, against
  config.go:109-111 and README.md:615-617); a hash probe with a blank digest accepts
  what is cut off, or what a utility that fails leaves (toolchecks.go:346-352);
- it gives up or looks too early (`GivesUpEarly`), so that what is well is reported
  down: a ping of more packets than fit in its timeout and two seconds is cut off
  (check.go:35-41); so is a traceroute whose hops take long; a dns answer with one
  name that is not valid is an error; of a banner one read is looked at, and of the
  host keys one; a GET is refused where the `method` would not be; `pgrep` may lack
  `-c`, and `ss` may be there and fail; journal lines and ages of files are of another
  clock; an imported dns or tls probe has a timeout of zero until the next restart;
- it looks elsewhere (`Elsewhere`): on a local server the monitor dials 127.0.0.1
  for a tcp probe, whatever its host (monitor.go:674-679, against config.go:90 and
  the form of server.go:1560), where http and banner probes keep their own; and a
  probe from the target never runs there.

### Upload

`call` is the goroutine of `uploadJobArtifact`, from `New` through `Upload` to
`Close`; `open` is what it has open and `cleanup` what `closeAll` would close.
`scp` is the receiver on the server with the two streams of the session: `Window`
bounds what is under way, so that both sides can wait for each other. `tmp` and
`dest` are the files on the server; `orphans` are commands whose session was
closed before their reply and which may run at any later time, in a later run
too; `late` are dials through a jump host that nobody waits for. The source may
change its length at any step of the copy, so a read gives a piece or the end,
whatever `Stat` has said. Every command may fail, the `rm` of the clean-up too, whose
error `Upload` discards (client.go:233, 239): `refused` remembers it, and
`ResultIsTrue` lets such a run leave its temporary file. `dest.dir` says that the
destination is the name of a directory, and `inside` what `mv` has put into it. Of a
run that was cut off, by its context or a broken connection, nothing is known but
that what it publishes is whole (`PublishedIsWhole`). What the model does not show is
a source that is rewritten in place with the same length: the file is then published as a
mixture, and the code has no means to notice. An orphaned `mv` may replace the
artifact of a newer run by its own; both are whole.

## Runs

A run is `tlc -config <run>.cfg <module>`. Quantifiers over bounded ranges in the
next-state relations only let TLC name each action.

### MCAlertPipeline

- `alerts_routes` (`RoutesAsOrdered`, `AlertSpacing`). A router, a web server
  behind it, a metric rule and a ping rule that share a name, a third rule and
  four routes: what each route receives is decided by the routes before it, for
  every batch of firings, and alerts keep the distance of the cooldown whichever
  of the two rules fires first.
- `alerts_throttles` (`AdviceSpacing`, `RunbookSpacing`, `BudgetHolds`,
  `CommandsAreProvoked`, `CycleEnds`). One rule, the watchdog and four runbooks
  (one lists its target twice, one is for the watchdog, one is off), with time
  passing between any two steps: model calls and commands keep their cooldowns,
  no window exceeds its budget, nothing runs unprovoked, and with answering mail
  and SSH servers every cycle ends.

### MCHistoryStore

- `history` (`NothingTwice`, `BatchWhole`, `OkMeansRecorded`, `KeptIsNewest`,
  `ExpiredGone`, `FreshSurvives`, `Settles`). Cycles of two samples and up to
  one firing, with conflicts, errors and a crash at any step, and deletions by
  age and by size after each commit: no row twice, no half batch, no alert
  without its samples, and what is deleted is the oldest; and opening and
  recording always end.

### MCJobManager

- `jobs_safety` (`OncePerMinute`, `OutcomesInStartOrder`, `StopDrainsRuns`,
  `ImplementsJobSchedule`). Two command jobs, one of them run_on_start, over two
  minutes of two ticks each, with time passing at any step and Stop at any
  moment: each job at most once a minute, outcomes in order, a Stop that drains,
  and the refinement of JobSchedule, so no overlap and no start after Stop.
- `jobs_liveness` (`StopReturns`, `EveryRunEnds`, `DueMinuteServed`). One job
  with a command and two uploads: with fair scheduling and an answering SSH
  server every run ends and Stop returns, whenever it is called; and no due
  minute is missed that the loop scans before it is over.
- `jobs_catchup` (`NoCatchUpRun`). A run that lasts into a minute of its own
  schedule is followed by another start in the minute it completes in. Expected
  to be violated.

### MCLiveConfig

- `config` (`StartsAgain`, `EveryServerPolled`, `ImplementsConfigStore`). Two
  servers, one of which depends on the other, two requests that may meet, two
  edits (valid or not), a collection beside them, full disks, and the process
  ending and starting again at every step, inside a write too: the shared slice
  refines the atomic store, a round asks every server, and operators who take
  turns leave a file that keeps WatchSSH down only where its last write was cut
  short.

### MCPollingLoop

- `polling` (`WorkersBounded`, `StopDrains`, `ImplementsRounds`, `StopReturns`,
  `HealthyPublished`). Three servers, one of them local, on two slots, a tick
  and a Stop at any step, before Start has registered itself included: the
  worker limit, a Stop that drains unless its wait is over before Start has
  counted itself, the refinement of Rounds, so complete batches; and with
  answering hosts every server is published again and again and Stop returns.
- `polling_silent_host` (`HealthyPublished`). One host that accepts the
  connection and stays silent in the SSH handshake keeps the local server from
  ever being published, though nothing bounds the workers. Expected to be
  violated.

### MCProbes

- `probes` (`TypeOK`, `EveryProbeReported`, `VerdictsAreRight`, `ToldIsKept`,
  `RemovesWhatWasShown`, `RestartKeepsVerdicts`). Each kind of probe by itself
  and some pairs, on a server that is local or remote, known or still to be
  added: forms, imports, removals by row and saves beside a collection that
  shares their arrays, restarts at every step, and every world a probe may meet,
  those that mislead it included.
- `probes_forms` (`FormsAreSaved`). A port entered in the form for a new server
  has no source and no host, so its configuration is refused by the save that
  follows, and the operator is told that the server was added. Expected to be
  violated.

### MCUpload

- `upload` (`TypeOK`, `PublishedIsWhole`, `ResultIsTrue`, `NothingStaysOpen`,
  `UploadEnds`). Two runs of a job that uploads a source of at most two pieces
  to one destination, which may be the name of a directory, directly or through
  a jump host, with failures at every step, a failing clean-up included, a
  source that changes while it is read, a full disk, cancellation, a connection
  that breaks, and commands that outlive the run that sent them; client and
  receiver never wait for each other, and every call ends, its late dials
  closed.

### Bounds, and why they are enough

- JobManager: two jobs and two minutes of two ticks are the least in which a job
  runs in its own and in another's minute, a scan sees a minute twice, a minute
  ends beside a run, and two runs report at once. The result cap of 2 is reached
  by the third result. Where liveness is the question a minute is one tick, and where there are uploads there are two, so an error can fall
  before, between and after them. `MaxRuns` is no bound: it follows from
  `OncePerMinute`.
- PollingLoop: no bound beyond the constants; the state space is finite. Three
  servers on two slots make one wait; one server is local.
- AlertPipeline: two servers of which one depends on the other; clocks up to 3
  with cooldowns and windows of 1 and 2, so a cooldown, a window and a budget all
  run out and begin again within a behaviour. Each run has only the parts its
  question is about: throttles, routes or dependencies.
- HistoryStore: two samples and one firing a cycle, so that a batch can be half
  written; five instants of half a second with a retention of one second, so that
  a row expires while newer ones are kept and two rows of one second are ordered
  as text; three attempts as in the code, two trimming rounds for its hundred,
  one crash. Time passes before the two steps that read the clock.
- LiveConfig: two requests and two edits are the least that meet in the lock, in
  the array, in the copies and in the file; two servers of which one depends on the
  other make a removal that `Validate` refuses and one that it accepts. `append`
  has no spare slot (`Spare` 0): with one, only an add writes in place.
- Probes: every kind by itself, and tcp beside dns for what a probe that cannot be
  saved does to another; the probe of the file and one more, or two more for this
  pair (a port that the target dials comes before one that the monitor dials), where
  there is one of a kind (ping) or where a form may set what `Validate` refuses
  (listening). Two pages for tcp and ping, since the second removes what the first
  has moved. A longer list only moves more probes by one place.
- Upload: two runs, so that what one leaves meets the next; a source of up to two
  pieces, so that it can shrink and grow between two of them; one piece under way,
  the tightest window in which the peers can wait for each other.


## Fairness

Every specification `Spec` but that of `Upload` is free of fairness; the liveness
runs use `FairSpec`.

- Steps of a goroutine that can run are weakly fair: the Go scheduler runs every
  runnable goroutine.
- The exit of a loop and the next cycle are strongly fair: `select` chooses at
  random among ready cases, so neither is passed over for ever although a tick may
  be ready every time. A slot of the semaphore is strongly fair: senders that wait
  on a channel are served in order.
- What has a timeout ends (dials, model calls, webhooks, the shell of a command).
- What has no timeout ends only if the other side ends it, and each such
  assumption is a constant: `PeersAnswer` and `ChildrenExit` (JobManager),
  `Answering` (PollingLoop), `CommandsEnd` and `MailAnswers` (AlertPipeline). The
  violation runs switch one off and show what then hangs.
- Calls of the history database return, and a service that has failed is started
  again (`Restart=on-failure` in deploy/systemd/watchssh.service); `HistoryStore`
  bounds the crashes, so that they do not prevent it for ever.
- In `Upload` the steps of the call, of the server and of late dials are weakly
  fair: each is a goroutine or a process that can run, and a dial has a timeout. That
  the server answers or the connection breaks is an assumption: a keepalive waits for
  its reply without a timeout (`SendRequest`, client.go:408), so a server that has
  gone silent is noticed only when the kernel gives the connection up. What a silent
  server does to a round is the run `polling_silent_host`. Cancelling and breaking
  are never obliged to happen.
- Nobody is obliged to stop the process; time need not pass.

Deadlock is checked in every run but `upload`, where a job may have had its last
run. Where the process ends, the step `Exited` keeps a finished behaviour going,
as does `Down` where it cannot start; `HistoryStore` and `Probes` can always be
started again.

## What is proved

Every safety invariant and action property that a passing run checks is a theorem,
for every value of the constants; so are the three refinements. What each proof
adds to its property is the argument why the code keeps it.

The assumptions are the named `ASSUME`s of the component modules (finite sets,
types of the constants, positive cooldowns, budgets and windows); TLC evaluates
them in every run.

- **JobManagerProofs.** `Inductive` proves `IInv`. No overlap is not inductive by
  itself: the mark in `running` is cleared by another goroutine than the one that
  sets it, so the invariant says that a mark exists exactly while a run is live
  (`MarkIsLive`), that only the latest run of a job can be live (`LiveIsLatest`),
  and that `lastRun` is never before the scan that started a finished run
  (`LastRunCovers`), which is what makes the test against the start of the minute
  enough for `OncePerMinute`. `WaitGroupCounts` and `DrainedIsEmpty` carry
  `StopDrainsRuns`. `Refinement` shows that each step is a Begin, End, Shut or
  stutter of `JobSchedule`. `OutcomesOrdered` shows that the
  outcomes of a job are recorded in the order of their starts: `record` appends
  and trims the front, and the runs of a job do not overlap, so the run that
  records is later than any of its job that has. `DueMinutesAreServed` shows that a minute which the schedule names and
  the loop has scanned is served when it ends, or the scan found the job running:
  the two refusals of `startDue` are a live run and a minute that counts as served
  (`ScanServes`), and what `finished` writes over `lastRun` is later than the run
  that was served before it (`LiveIsNewer`).
- **AlertPipelineProofs.** Every throttle remembers the latest of what it let
  through (`Remembered`) and nothing is from the future (`InThePast`); with them
  the spacing theorems are inductive. The budget needs `ForgottenExpired`: the
  attempts a key has lost are past every window that ends now or later, so the
  attempts the code still counts are all that matter. `RoutesInOrder` shows that
  each firing reaches the routes in their order up to the first that stops it:
  `SentSoFar` says what the routes before the current one have received, and which
  firings they have settled, whichever route it is that they have come to.
- **PollingLoopProofs.** `Counted` says what the three numbers count and `InStep`
  where the workers and the results are at each step of the loop; they give the
  worker limit, the complete batch and the refinement of `Rounds`. `StopWaits` holds
  for a signal at any step: when Stop's wait is over, the wait group was zero after
  Start had counted itself, so both loops have gone and every worker with them
  (`Counted`), or Start had not counted itself yet, which is the case that `early`
  names and the disagreements below describe.
- **HistoryStoreProofs.** `Transaction` says what an open transaction holds,
  `Progress` what is committed of the batch at each step, and `InOrder` that no
  row committed earlier is later than one of the batch. The first two carry
  `NothingTwice`, `BatchWhole`, `OkMeansRecorded` and `FiringsHaveSamples`; the
  third carries `KeptIsNewest`, for which a single deletion has to part the rows
  at a second (`Parted`), by age or by size, in the order of the texts.
  `FreshRowsSurvive` is about the steps that delete by age: the cutoff is computed
  once and used for both tables, so for the second one it is only known to be no
  later than the present one (`Dated`), and the order of the texts lets a row go
  that is of the second in which the retention ends (`PastCutoff`). For
  `ExpiredAreGone` the same cutoff is known to be no earlier than the retention
  before the cycle began to record, and `NotBefore` shows that what it leaves is not
  of an earlier second.
- **CronScheduleProofs.** `MatchesWhatIsMeant` shows that `Matches` of a parsed
  expression accepts exactly the minutes that `Falls` gives it, for all of them.
  Its heart is `StepsSelect`: the loop ends with the first value past the end, so
  if a value past it were visited, the one that `Division` names would have been
  met before it. It assumes that no step overflows an int (`Ordinary`), which is
  needed (see the disagreements below).
- **LiveConfigProofs.** `Bounded` says that slices lie in their arrays and that
  nothing reads past a copy, without which the types are not inductive. `Watching`
  carries `EveryServerPolled`: as long as no server is removed, the slots of the
  round's copy keep their names, because an edit keeps the name of what it
  replaces and `append` writes behind the end of the copy or in another array.
  `InTurn` carries `StartsAgain`: a save that is alone reads what is live, and has
  had it accepted before it opens the file; whatever cuts its write short, what is
  in the file is a beginning of that (`LeftType`). `Implements` proves the refinement of
  `ConfigStore`. For the edits it takes the array apart: compacting in place,
  writing one slot, `append` into a free slot and `append` into a new array each
  change the list that the slice shows as an edit of the list would
  (`RemoveCurrent`, `UpdateCurrent`, `AddCurrent`). For the saves it needs
  `Exclusive`: a request that entered while everybody was idle and is still alone
  holds a copy of what is live, settings included, and once it has written, the
  file is what is in effect. All of this holds for any number of operators,
  servers and edits, where TLC looks at two of each.
- **ProbesProofs.** The invariant has a part for each of the hazards. The rows that
  pages remember are still where they were shown as long as they are fresh
  (`RowsInv`), which gives `RemovesTheShown`. Of the probes that the operator was
  told are kept, each is in the live list and in the file (`ToldInv`), which gives
  `ToldStays`; since a number names one probe (`NumbersInv`) and `applyDefaults`
  changes no verdict where the times are filled in (`TimesInv`), a restart keeps
  the verdicts (`RestartsKeepVerdicts`). While nothing is removed, the array that
  the collection reads without the lock shows at each place the probe that was
  there when it began (`QuietInv`, `Foreseen`), and the two passes have reported
  what is before them (`ReportsInv`, `Covered`), which gives `AllReported`.
  `RightVerdicts` goes through the 22 kinds and every world: a verdict of OK means
  that what the probe is for is met, and any other verdict that it is not, except
  in the worlds that `VerdictsAreRight` names.
- **UploadProofs.** An upload that was cut off leaves commands behind that may run
  at any later time, so none of the three properties is inductive. `MovedIsWhole`
  says that what a pending `mv` would publish, of this run or of an earlier one, is
  absent or as long as its source was; it rests on `SizeIsEnd` (the length that the
  header announced is where the source ended) and `WrittenIsReceived` (what the
  receiver has written is what it acknowledges). `TellsTruth` relates what the call
  has been told to what has happened and carries `TrueResults`; a clean-up that fails
  is known to it only through `refused`. `OpenIsKnown` says
  that what is open is what `closeAll` knows of or what the step has in hand, and
  carries `EverythingIsClosed`.

Each of these invariants was checked by TLC on the bounds of its run before it was
proved. Those of no run of their own (the inductive invariants and the type
invariants of most modules, `NoOverlap`, `NoStartAfterStop`, `BatchComplete`,
`FiringsHaveSamples` and `SchemaReady`) are proved only.

Only model-checked: the liveness properties (`StopReturns` of `JobManager` and of
`PollingLoop`, `EveryRunEnds`, `CycleEnds`, `HealthyPublished`, `Settles`,
`UploadEnds`), since liveness under fairness is out of the prover's reach, and the
violations, which are counterexamples.

Theorems:

- `JobManagerProofs!TypeCorrect`: The state of the job manager keeps its types;
  in particular the wait-group counter never goes below zero, which would panic.
- `JobManagerProofs!Inductive`: The strengthened invariant that ties running,
  lastRun, the order of the runs and the wait group together holds in every
  reachable state, for any number of jobs and any schedules.
- `JobManagerProofs!RunsNeverOverlap`: No job ever has two runs between startDue
  and finished().
- `JobManagerProofs!StartsOncePerMinute`: A job is started at most once for a
  wall-clock minute, and for ever later minutes.
- `JobManagerProofs!StopDrains`: When JobManager.Stop has returned every run
  goroutine has ended.
- `JobManagerProofs!StopsStarting`: No step starts a run once the stopped flag
  is set.
- `JobManagerProofs!OutcomesOrdered`: The outcomes that the history holds of a
  job are in the order in which its runs started, for any number of jobs and any
  length of the history.
- `JobManagerProofs!DueMinutesAreServed`: A minute that a schedule names and
  that the loop scans while it lasts is served when it ends: by a start, or by a
  run that was live; startDue never passes it over for another reason.
- `JobManagerProofs!Refinement`: The job manager implements JobSchedule: every
  step is a Begin, an End, a Shut or a stutter of it.
- `CronScheduleProofs!DescriptorsParse`: Every descriptor from @hourly to
  @yearly stands for an expression that parses.
- `CronScheduleProofs!StepsSelect`: For every item that parses and whose step
  cannot overflow an int, the loop of parseField selects exactly every step-th
  value from its start to its end.
- `CronScheduleProofs!FieldMeans`: A parsed field of any number of items holds a
  value exactly when one of its items selects it, 7 of the days of the week
  being 0.
- `CronScheduleProofs!MatchesWhatIsMeant`: For every expression that parses and
  every local minute, Matches on what Parse returns agrees with the rule of cron
  for the expression: both days must match, or either when both are restricted.
- `AlertPipelineProofs!TypeCorrect`: The state of the alert pipeline keeps its
  types for any rules, runbooks, routes and servers.
- `AlertPipelineProofs!Inductive`: Each throttle remembers the latest of what it
  let through, and the attempts the remediation manager has forgotten are past
  every window that can still matter.
- `AlertPipelineProofs!AlertsSpaced`: Two alerts of one rule name for one server
  are never closer than the cooldown, however many rules share the name.
- `AlertPipelineProofs!AdviceSpaced`: The model is called about one server at
  most once per cooldown.
- `AlertPipelineProofs!RunbooksSpaced`: Two executions of a runbook on a target
  are never closer than its cooldown, whatever alerts ask for them.
- `AlertPipelineProofs!BudgetKept`: No window of a runbook's length, wherever it
  ends, holds more executions on a target than its budget, although expired
  attempts are forgotten.
- `AlertPipelineProofs!RoutesInOrder`: When a cycle is published every route has
  received exactly the firings it selects and no earlier route without continue
  has settled, whatever sends have failed, for any rules and routes.
- `AlertPipelineProofs!Provoked`: Every command answers an alert that was raised
  and not suppressed, that its runbook selects, and by a runbook of mode alert:
  model advice executes nothing.
- `PollingLoopProofs!Inductive`: The semaphore and both wait groups count
  exactly what they stand for, in every state and for any number of servers.
- `PollingLoopProofs!WorkersAreBounded`: No more servers are collected at a time
  than cfg.Workers allows.
- `PollingLoopProofs!BatchIsComplete`: A batch that is evaluated, recorded or
  published holds every server exactly once.
- `PollingLoopProofs!StopWaits`: At whatever step the signal comes, Stop closes
  the store only after both loops and all workers have ended, unless its wait
  was over before Start had counted itself in the wait group.
- `PollingLoopProofs!Refinement`: The polling loop implements Rounds: every step
  opens, reports, delivers, shuts or stutters.
- `HistoryStoreProofs!TypeCorrect`: The state of the history store keeps its
  types; the attempts and the trimming rounds stay within their limits.
- `HistoryStoreProofs!Inductive`: Transaction, cycle, committed rows and schema
  fit together in every reachable state, for batches of any size and any number
  of crashes.
- `HistoryStoreProofs!StoredOnce`: A write that is tried again after a conflict
  never stores a row twice, even if primary keys were not enforced.
- `HistoryStoreProofs!BatchesAreWhole`: The samples of a cycle, and its firings,
  are in the history as a whole or not at all, whatever conflicts, fails or
  crashes.
- `HistoryStoreProofs!RecordedInOrder`: recordHistory returns nil only if all
  its rows were committed, and no firing is committed without the samples of its
  cycle.
- `HistoryStoreProofs!OldestGoFirst`: Retention deletes no row of a later second
  than one that it keeps, although it compares texts that drop trailing zeros.
- `HistoryStoreProofs!FreshRowsSurvive`: What retention by age deletes is older
  than the retention, or lies in the second that ends with it; for any
  retention, clock and number of crashes.
- `HistoryStoreProofs!ExpiredAreGone`: When recordHistory returns nil for a
  batch with samples, nothing is left that is of an earlier second than the one
  in which the retention ended when the cycle began to record; within that
  second an older row may be left, because texts are compared.
- `LiveConfigProofs!TypeCorrect`: The state of the live configuration keeps its
  types, which rests on every slice staying in its array and no reader passing
  the end of its copy.
- `LiveConfigProofs!PollsAll`: A round asks every server that was configured
  when it began, in order and once each, unless one is removed meanwhile; for
  any handlers, edits and lengths of the list.
- `LiveConfigProofs!RestartsInTurn`: If operators take turns, WatchSSH fails to
  start again only when the last write of the file was cut short, by a full disk
  or by the end of the process, and no save has come through since; wherever the
  process ends and whatever they enter.
- `LiveConfigProofs!Implements`: The shared slice, its array, the copies and the
  file implement ConfigStore: an edit takes effect at once and entirely, and
  what a request saves while nobody else is at work is what a restart serves.
- `ProbesProofs!Invariance`: The inductive invariant of the probes holds in
  every reachable state, for any sets of kinds, any number of pages and any
  number of probes added.
- `ProbesProofs!TypeCorrect`: The types hold; in particular the collector never
  reads beyond the array of a list, whatever the handlers do to that list
  meanwhile.
- `ProbesProofs!RemovesTheShown`: A removal by index removes the row the
  operator saw, unless one of its kind has gone since or a restart has brought
  back an older file.
- `ProbesProofs!ToldStays`: What was answered added or imported stays in the
  file until somebody removes it, with any refusals, collections and restarts in
  between.
- `ProbesProofs!RightVerdicts`: Every kind of probe is OK exactly when what it
  asks for is so, in every world and whichever of the file, a form, a page or an
  import has filled its fields, except in the cases that the property names one
  by one (SeesTooLittle, GivesUpEarly) and for the tcp probe of a local server
  that names another host.
- `ProbesProofs!AllReported`: A collection that succeeds, with nothing removed
  meanwhile, reports every probe the server had when it began, once and in its
  place, although lists grow, are reallocated and are gone through twice.
- `ProbesProofs!RestartsKeepVerdicts`: A restart changes no verdict of a probe
  that is still there, except of an imported lookup or certificate.
- `UploadProofs!Invariance`: The inductive invariant of the upload holds in
  every reachable state: what is open is known to closeAll or in the hands of
  the step that opened it, and the temporary files, the orphaned commands and
  the two streams belong to the run they should.
- `UploadProofs!TypeCorrect`: The state of an upload keeps its types: the two
  streams hold items of the protocol and nothing else, and no more pieces are
  sent than the longest source has.
- `UploadProofs!WholeFiles`: What is published at the destination, or put into
  the directory of that name, is a whole file, for any number of runs and any
  length of the source, although commands of earlier runs may still execute and
  the source may change while it is read.
- `UploadProofs!TrueResults`: An upload that returns no error has had its file
  moved to its destination, or into the directory of that name; one that fails
  without having been cut off has published nothing, and left its temporary file
  only if the server has failed to remove it.
- `UploadProofs!EverythingIsClosed`: When New has failed or Close has run, none
  of the agents, connections and jump hosts that the call has opened is still
  open.

## Findings

Each is a run TLC is expected to find violated.

- `jobs_catchup`, internal/monitor/jobs.go:93: The deferred call
  `jm.finished(job.Name, time.Now())` evaluates time.Now() when the goroutine
  starts, so lastRun holds the start of a run, not its completion; a run that
  lasts into the next minute its schedule matches is followed by an immediate
  second run. The comment at src/internal/monitor/jobs.go:70-72 says: "Running
  jobs are never overlapped; the next occurrence is calculated from completion
  time so a slow import cannot trigger an immediate catch-up run."
- `polling_silent_host`, internal/ssh/client.go:137: newSSHClient runs the SSH
  handshake on a connection without a deadline (as does NewSession in Run,
  client.go:169), so a host that accepts TCP and then stays silent holds its
  worker for ever; collect waits for all workers (monitor.go:177), and no server
  is evaluated, recorded or published again. src/README.md:151-153 says: "Each
  goroutine is governed by `context.Context` timeouts — a single slow or failing
  host will not block other polling goroutines beyond the configured `timeout`."
- `probes_forms`, internal/web/server.go:753: A port that the form for a new
  server or one of its profiles adds (server.go:785, addPort at 1470-1477) has
  neither a source nor a host, which Validate insists on (config.go:1134-1146)
  and only Load fills in: SaveConfig refuses, the error is only logged, and the
  operator is answered "Server added." (server.go:757). The server is polled
  until the next restart and then gone, and every save before that is refused as
  well. src/internal/web/templates.go:1011 says of these forms: "Changes are
  saved to the active configuration file."


### Other disagreements met while modelling

They are behaviour of the models, but no run is spent on them.

- `record` copies the history under `jm.mu` and notifies after unlocking
  (jobs.go:208), so two runs that end together can leave the older list on the
  Jobs page until another run ends (README.md:1064-1065, state.go:104-105).
- The timeout of a command kills its shell, but `Run` waits for everybody who
  holds the output pipe (jobs.go:227): a child in the background keeps the run,
  the job and `Stop` (docs/guide.md:234); with `ChildrenExit` FALSE TLC refutes
  `EveryRunEnds`.
- `m.wg.Add(1)` is executed by the goroutine that `main` starts (monitor.go:94,
  main.go:120), when the signal handler is already in place: a signal that comes first
  finds the wait group at zero, and Stop closes the store under the first collection,
  although "Stop signals the polling loop to exit and waits for it to finish"
  (monitor.go:121). Without `early` TLC refutes `StopDrains` in a few steps.
- When the destination of an upload names an existing directory, `mv -f` puts the
  artifact into it under its temporary name and exits with 0 (client.go:237): the run
  is recorded as a success, nothing is published, and every run leaves one more
  `.partial` file, although "Artifacts are written to a random sibling `.partial` name
  and atomically renamed on success" (docs/guide.md:242-243).
- Two saves that meet may leave a file that `Load` refuses (`LiveConfig` above).
- `Evaluate` starts the cooldown of alerts that `SuppressDependentFirings` drops
  (alert.go:66): a condition that outlasts its upstream's outage stays silent for a
  cooldown though nobody was told.
- An upstream that is not in the batch counts as unreachable (operations.go:118),
  so servers left out by `-servers` or `-tags` silence their dependents
  (README.md:1156-1158).
- The filtered configuration is the live one (main.go:48): the first save from the
  web interface drops the servers that were left out, and when a server that is
  in depends on one that is not, every save is refused.
- A removal, or a new ping probe in place of the old one, whose save is refused
  stays in effect and reaches the file with the next save that is accepted.
- An operator removes a probe by the index on a page: when another page has removed
  one of the kind since, it is the next one that goes (server.go:1768). A removal
  while a collection runs makes it skip or repeat a probe of that list.
- Retention compares texts (tinysql.go:314): a row stamped at a whole second stays
  although it is older than a cutoff within that second, against "`retention_days`
  removes older records" (README.md:574), until the next cycle.
- A retention that fails after the commit of the samples makes `recordHistory`
  return before the firings are written (monitor.go:227): they are lost.
- `retention_days` of 0 becomes 30 (config.go:737, against config.example.yaml:83).
- A step that overflows an int selects values outside its range: the loop of
  `parseField` adds it to a value near the end, wraps, and goes on below
  (schedule.go:122). "31/9223372036854775807" as the day of the month is accepted
  and matches every odd day, though it names the 31st alone (schedule.go:30).
- A certificate rule ignores its `url` filter, and a rule's `probe` filter is
  ignored for dns, tls, ntp and trace.

## Not modelled, and why

Parsers of command output, platform collectors, metrics, output formats,
templates, charts and the API document have no state and no order of events, and
what could be stated of them is what their unit tests state. What a command
prints, what a message says and what a model answers are abstracted. Queries of
the history change nothing. Which metric a rule compares with which threshold
(`evaluateRule`) is an input of `AlertPipeline`. Sign-in and sessions are left out.

## Plan

In the order of what is at stake:

1. `Reviews`: what `State.Update` does with the watchdog's advice, and the bounds
   of the lists.
2. `evaluateRule`, as an operator against a reference definition.
3. A composition of `PollingLoop` and `AlertPipeline`.
4. Proofs for what these add, and for the safety part of the liveness properties:
   that a step which everybody waits for is never disabled for good.
