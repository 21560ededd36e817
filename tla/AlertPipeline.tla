---------------------------- MODULE AlertPipeline ----------------------------
(***************************************************************************)
(* What a polling cycle does once every server has answered: alert rules,  *)
(* cooldowns, suppression by dependency, the model watchdog, automatic     *)
(* remediation, and the three kinds of delivery (monitor.collect, lines    *)
(* 179 to 202, with alert.go, operations.go, remediation.go, watchdog.go). *)
(*                                                                         *)
(* One goroutine runs the cycles one after the other; what interleaves is  *)
(* time, which passes between any two steps and while a command, a model   *)
(* or a receiver answers, against three throttles with clocks of their     *)
(* own.  The contents of messages are left out, and a metric filter counts *)
(* as a filter on the rules that name the metric.  Throttles key by        *)
(* "name|server": names are taken not to contain the separator.            *)
(***************************************************************************)
EXTENDS Integers, Sequences, FiniteSets, SequencesExt

CONSTANTS
    Servers,         \* the server names of the configuration file
    Monitored,       \* those left by -servers and -tags: cfg.Servers
    DependsOn,       \* DependsOn[s]: the upstream servers s declares
    Names,           \* rule names; nothing forbids two rules to share one
    Rules,           \* cfg.Alerts.Rules: [name, servers, ping]
    AlertCooldown,   \* seconds between alerts of one rule name and server
    Runbooks,        \* cfg.Alerts.Remediations: [mode, rules, servers,
                     \*    targets, cooldown, budget, window]
    HasWatchdog,     \* alerts.watchdog is enabled
    AdviceCooldown,  \* seconds between model calls for one server
    Routes,          \* cfg.Alerts.Routes: [rules, servers, continue]
    HasEmail,        \* alerts.email is configured
    MailAnswers,     \* TRUE: the SMTP server answers
    CommandsEnd,     \* TRUE: commands end: SSH servers answer, and no child of
                     \*    a local command keeps its output open
    MaxClock         \* bound: the last instant of a behaviour

RuleIds    == DOMAIN Rules
RunbookIds == DOMAIN Runbooks
RouteIds   == DOMAIN Routes

ASSUME ServerAssumption ==
    /\ Monitored \subseteq Servers
    /\ IsFiniteSet(Servers)
    /\ DependsOn \in [Servers -> SUBSET Servers]

ASSUME AlertAssumption ==
    /\ Rules \in Seq([name : Names, servers : SUBSET Servers, ping : BOOLEAN])
    /\ AlertCooldown \in Nat \ {0} /\ AdviceCooldown \in Nat \ {0}
    /\ HasWatchdog \in BOOLEAN /\ HasEmail \in BOOLEAN
    /\ MailAnswers \in BOOLEAN /\ CommandsEnd \in BOOLEAN
    /\ Routes \in Seq([rules : SUBSET Names, servers : SUBSET Servers,
                       continue : BOOLEAN])
    /\ MaxClock \in Nat

\* mode "off" stands for enabled: false.
ASSUME RunbookAssumption ==
    Runbooks \in Seq([mode : {"off", "alert", "watchdog"}, rules : SUBSET Names,
                      servers : SUBSET Servers, targets : Seq(Servers),
                      cooldown : Nat \ {0}, budget : Nat \ {0},
                      window : Nat \ {0}])

VARIABLES
    clock,       \* the current second
    pc,          \* the phase of the cycle
    report,      \* the batch: report[s] for every polled server
    firings,     \* the firings of this cycle, in order
    pos,         \* the loop positions of the current phase
    lastFired,   \* AlertManager.lastFired
    lastAdvice,  \* WatchdogManager.last
    lastTry,     \* RemediationManager.last
    attempts,    \* RemediationManager.attempts: positions in log
    handled,     \* SendAlertRoutes: the firings a route has settled
    alerts,      \* history: every firing ever raised
    muted,       \* history: those suppressed by a dependency
    consults,    \* history: every call of the model
    log,         \* history: every remediation command ever started
    received     \* history: received[k], the firings route k got this cycle

vars == <<clock, pc, report, firings, pos, lastFired, lastAdvice, lastTry,
          attempts, handled, alerts, muted, consults, log, received>>

Never == -1

Phases == {"idle", "evaluate", "watchdog", "model", "remediate", "command",
           "email", "action", "routes", "publish"}

\* What is known of a polled server: whether collecting it failed, whether it
\* answered the ping (or is not pinged), and the metric rules it triggers, of
\* which nobody takes notice after an error.
Report ==
    {r \in [error : BOOLEAN, ping : BOOLEAN,
            triggers : SUBSET {q \in RuleIds : ~Rules[q].ping}] :
        r.error => r.triggers = {}}

NoReport == [s \in Monitored |-> [error |-> TRUE, ping |-> FALSE, triggers |-> {}]]

Firing == [rule : RuleIds, server : Servers, at : Nat]

Positions ==
    [firing : Nat \ {0}, runbook : Nat \ {0}, target : Nat \ {0},
     route : Nat \ {0}]

Start == [firing |-> 1, runbook |-> 1, target |-> 1, route |-> 1]

Init ==
    /\ clock = 0
    /\ pc = "idle"
    /\ report = NoReport
    /\ firings = <<>>
    /\ pos = Start
    /\ lastFired = [k \in Names \X Servers |-> Never]
    /\ lastAdvice = [s \in Servers |-> Never]
    /\ lastTry = [k \in RunbookIds \X Servers |-> Never]
    /\ attempts = [k \in RunbookIds \X Servers |-> {}]
    /\ handled = {}
    /\ alerts = {} /\ muted = {} /\ consults = {}
    /\ log = <<>>
    /\ received = [k \in RouteIds |-> {}]

----------------------------------------------------------------------------
(* Rules, dependencies, throttles. *)

\* ruleAppliesToServer, routeFieldMatches: an empty filter selects everything.
Selects(filter, x) == filter = {} \/ x \in filter

Triggered(r, s) ==
    IF Rules[r].ping THEN ~report[s].ping ELSE r \in report[s].triggers

\* A rule and a server for which Evaluate looks up the cooldown.
Candidate(r, s) ==
    /\ Selects(Rules[r].servers, s)
    /\ ~report[s].error
    /\ Triggered(r, s)

Key(r, s) == <<Rules[r].name, s>>

\* What all three throttles ask of the instant they remember.
Elapsed(last, cooldown) == last = Never \/ clock - last >= cooldown

\* Of two rules with one name the first to fire puts the other on cooldown.
FirstOfName(r, s) ==
    \A q \in RuleIds : q < r /\ Rules[q].name = Rules[r].name => ~Candidate(q, s)

\* Mutant: the cooldown is looked up, and not heeded.
MutFires(r, s) == Candidate(r, s) /\ FirstOfName(r, s)

Fires(r, s) ==
    /\ Candidate(r, s)
    /\ Elapsed(lastFired[Key(r, s)], AlertCooldown)
    /\ FirstOfName(r, s)

Fired ==
    {[rule |-> p[1], server |-> p[2], at |-> clock] :
        p \in {q \in RuleIds \X Monitored : Fires(q[1], q[2])}}

\* A polled server that cannot be reached.
Unreachable(d) == report[d].error \/ ~report[d].ping

Suppressed(f) ==
    \E d \in DependsOn[f.server] : d \notin Monitored \/ Unreachable(d)

----------------------------------------------------------------------------
(* The cycle up to its firings. *)

\* The next cycle begins and its batch arrives.
Collect ==
    /\ pc = "idle"
    /\ report' \in [Monitored -> Report]
    /\ pc' = "evaluate"
    /\ UNCHANGED <<clock, firings, pos, lastFired, lastAdvice, lastTry, attempts,
                   handled, alerts, muted, consults, log, received>>

\* Rule by rule, and for each rule in the order in which servers answered.
InOrder(f, arrival) ==
    \A i, k \in DOMAIN f :
        i < k => \/ f[i].rule < f[k].rule
                 \/ f[i].rule = f[k].rule
                      /\ arrival[f[i].server] < arrival[f[k].server]

\* AlertManager.Evaluate and SuppressDependentFirings: lastFired is updated
\* for every firing, the suppressed ones included.  What the later phases still
\* take from the batch is not modelled, so it is dropped here.
Evaluate ==
    /\ pc = "evaluate"
    /\ LET active == {f \in Fired : ~Suppressed(f)} IN
         /\ \E arrival \in [Monitored -> 1..Cardinality(Monitored)] :
              /\ \A s, t \in Monitored : arrival[s] = arrival[t] => s = t
              /\ \E f \in SetToSeqs(active) : InOrder(f, arrival) /\ firings' = f
         /\ pc' = IF active = {} THEN "publish" ELSE "watchdog"
         /\ muted' = muted \cup (Fired \ active)
    /\ lastFired' = [k \in Names \X Servers |->
                        IF \E f \in Fired : Key(f.rule, f.server) = k
                        THEN clock ELSE lastFired[k]]
    /\ alerts' = alerts \cup Fired
    /\ report' = NoReport
    /\ UNCHANGED <<clock, pos, lastAdvice, lastTry, attempts, handled,
                   consults, log, received>>

----------------------------------------------------------------------------
(* The watchdog: a model is asked about each firing, and only advises. *)

OthersKeep ==
    UNCHANGED <<clock, report, firings, lastFired, handled, alerts, muted, received>>

Phase(from, to) == pc = from /\ pc' = to

\* Mutant: the call is not remembered.
MutAskModel ==
    LET s == firings[pos.firing].server IN
    /\ HasWatchdog /\ pos.firing <= Len(firings)
    /\ Phase("watchdog", "model")
    /\ Elapsed(lastAdvice[s], AdviceCooldown)
    /\ consults' = consults \cup {[server |-> s, at |-> clock, firing |-> pos.firing]}
    /\ UNCHANGED <<pos, lastAdvice, lastTry, attempts, log>> /\ OthersKeep

AskModel ==
    LET s == firings[pos.firing].server IN
    /\ HasWatchdog /\ pos.firing <= Len(firings)
    /\ Phase("watchdog", "model")
    /\ Elapsed(lastAdvice[s], AdviceCooldown)
    /\ lastAdvice' = [lastAdvice EXCEPT ![s] = clock]
    /\ consults' = consults \cup {[server |-> s, at |-> clock, firing |-> pos.firing]}
    /\ UNCHANGED <<pos, lastTry, attempts, log>> /\ OthersKeep

\* An analysis, an error or the timeout.
ModelAnswers ==
    /\ Phase("model", "watchdog")
    /\ pos' = [pos EXCEPT !.firing = @ + 1]
    /\ UNCHANGED <<lastAdvice, lastTry, attempts, consults, log>> /\ OthersKeep

AdviceSkipped ==
    /\ HasWatchdog /\ pos.firing <= Len(firings)
    /\ Phase("watchdog", "watchdog")
    /\ ~Elapsed(lastAdvice[firings[pos.firing].server], AdviceCooldown)
    /\ pos' = [pos EXCEPT !.firing = @ + 1]
    /\ UNCHANGED <<lastAdvice, lastTry, attempts, consults, log>> /\ OthersKeep

WatchdogDone ==
    /\ ~HasWatchdog \/ pos.firing > Len(firings)
    /\ Phase("watchdog", "remediate")
    /\ pos' = Start
    /\ UNCHANGED <<lastAdvice, lastTry, attempts, consults, log>> /\ OthersKeep

----------------------------------------------------------------------------
(* Remediation: for each firing, each runbook, each target. *)

\* Mutant: every enabled runbook is run, the watchdog's included.
MutApplies(b, r, s) ==
    /\ Runbooks[b].mode # "off"
    /\ Selects(Runbooks[b].rules, Rules[r].name)
    /\ Selects(Runbooks[b].servers, s)

\* runRemediations' test and remediationMatches.
Applies(b, r, s) ==
    /\ Runbooks[b].mode = "alert"
    /\ Selects(Runbooks[b].rules, Rules[r].name)
    /\ Selects(Runbooks[b].servers, s)

TargetsOf(b, s) ==
    IF Runbooks[b].targets = <<>> THEN <<s>> ELSE Runbooks[b].targets

Remediating == pc = "remediate" /\ pos.firing <= Len(firings)

TheFiring == firings[pos.firing]

\* The target at the current loop positions is considered, and is t.
AtTarget(t) ==
    LET targets == TargetsOf(pos.runbook, TheFiring.server) IN
    /\ Remediating /\ pos.runbook \in RunbookIds
    /\ Applies(pos.runbook, TheFiring.rule, TheFiring.server)
    /\ pos.target \in DOMAIN targets
    /\ t = targets[pos.target]

NextTarget == [pos EXCEPT !.target = @ + 1]

\* The attempts of the window that ends now.  Mutant: one second shorter.
MutKept(b, t) ==
    {i \in attempts[<<b, t>>] : log[i].at > clock - Runbooks[b].window}

Kept(b, t) ==
    {i \in attempts[<<b, t>>] : log[i].at >= clock - Runbooks[b].window}

\* Mutant: the cooldown of a runbook is not heeded.
MutCooledDown(b, t) == TRUE

CooledDown(b, t) == Elapsed(lastTry[<<b, t>>], Runbooks[b].cooldown)

\* RemediationManager.allow answers TRUE and the command starts.
TryTarget(t) ==
    LET b == pos.runbook IN
    /\ AtTarget(t) /\ t \in Monitored
    /\ CooledDown(b, t)
    /\ Cardinality(Kept(b, t)) < Runbooks[b].budget
    /\ lastTry' = [lastTry EXCEPT ![<<b, t>>] = clock]
    /\ attempts' = [attempts EXCEPT ![<<b, t>>] = Kept(b, t) \cup {Len(log) + 1}]
    /\ log' = Append(log, [runbook |-> b, target |-> t, at |-> clock,
                           cause |-> TheFiring])
    /\ pc' = "command"
    /\ UNCHANGED <<pos, lastAdvice, consults>> /\ OthersKeep

\* runRemediation: the connection, the command, the delay, the verification.
CommandReturns ==
    /\ Phase("command", "remediate")
    /\ pos' = NextTarget
    /\ UNCHANGED <<lastAdvice, lastTry, attempts, consults, log>> /\ OthersKeep

\* skipped_cooldown, or the target is not configured.
SkipTarget(t) ==
    /\ AtTarget(t)
    /\ t \notin Monitored \/ ~CooledDown(pos.runbook, t)
    /\ pos' = NextTarget
    /\ UNCHANGED <<pc, lastAdvice, lastTry, attempts, consults, log>> /\ OthersKeep

\* skipped_rate_limit: the expired attempts are forgotten all the same.
OverBudget(t) ==
    LET b == pos.runbook IN
    /\ AtTarget(t) /\ t \in Monitored
    /\ CooledDown(b, t)
    /\ Cardinality(Kept(b, t)) >= Runbooks[b].budget
    /\ attempts' = [attempts EXCEPT ![<<b, t>>] = Kept(b, t)]
    /\ pos' = NextTarget
    /\ UNCHANGED <<pc, lastAdvice, lastTry, consults, log>> /\ OthersKeep

\* Mutant: a runbook that does not apply is looked at again.
MutNextRunbook ==
    /\ Remediating /\ pos.runbook \in RunbookIds
    /\ \A t \in Servers : ~AtTarget(t)
    /\ pos' = [pos EXCEPT !.target = 1]
    /\ UNCHANGED <<pc, lastAdvice, lastTry, attempts, consults, log>> /\ OthersKeep

NextRunbook ==
    /\ Remediating /\ pos.runbook \in RunbookIds
    /\ \A t \in Servers : ~AtTarget(t)
    /\ pos' = [pos EXCEPT !.runbook = @ + 1, !.target = 1]
    /\ UNCHANGED <<pc, lastAdvice, lastTry, attempts, consults, log>> /\ OthersKeep

NextFiring ==
    /\ Remediating /\ pos.runbook \notin RunbookIds
    /\ pos' = [pos EXCEPT !.firing = @ + 1, !.runbook = 1, !.target = 1]
    /\ UNCHANGED <<pc, lastAdvice, lastTry, attempts, consults, log>> /\ OthersKeep

RemediationDone ==
    /\ Phase("remediate", "email")
    /\ pos.firing > Len(firings)
    /\ pos' = Start
    /\ UNCHANGED <<lastAdvice, lastTry, attempts, consults, log>> /\ OthersKeep

Remediate ==
    \/ \E t \in Servers : TryTarget(t) \/ SkipTarget(t) \/ OverBudget(t)
    \/ NextRunbook \/ NextFiring \/ RemediationDone

----------------------------------------------------------------------------
(* Delivery, the end of the cycle, time. *)

\* SendAlertEmail, if mail is configured: a conversation without any deadline.
Email ==
    /\ Phase("email", "action")
    /\ UNCHANGED <<pos, lastAdvice, lastTry, attempts, consults, log>> /\ OthersKeep

\* RunAlertAction: a local command under a timeout, if one is configured.
AlertAction ==
    /\ Phase("action", "routes")
    /\ UNCHANGED <<pos, lastAdvice, lastTry, attempts, consults, log>> /\ OthersKeep

RouteApplies(k, f) ==
    /\ Selects(Routes[k].rules, Rules[f.rule].name)
    /\ Selects(Routes[k].servers, f.server)

\* Mutant: a route settles its firings whatever its continue flag says.
MutSettles(k) == TRUE

\* Whether a route that has been sent a firing is the last to get it.
Settles(k) == ~Routes[k].continue

\* SendAlertRoutes: a failed send settles the firings like a successful one.
SendRoute ==
    LET k == pos.route
        matched == {i \in DOMAIN firings \ handled : RouteApplies(k, firings[i])}
    IN
    /\ Phase("routes", "routes")
    /\ k \in RouteIds
    /\ received' = [received EXCEPT ![k] = matched]
    /\ handled' = IF Settles(k) THEN handled \cup matched ELSE handled
    /\ pos' = [pos EXCEPT !.route = @ + 1]
    /\ UNCHANGED <<clock, report, firings, lastFired, lastAdvice, lastTry, attempts,
                   alerts, muted, consults, log>>

RoutesDone ==
    /\ Phase("routes", "publish")
    /\ pos.route \notin RouteIds
    /\ UNCHANGED <<pos, lastAdvice, lastTry, attempts, consults, log>> /\ OthersKeep

\* The batch and its firings go to the history store, the web state and the
\* output, and are forgotten here.
Publish ==
    /\ Phase("publish", "idle")
    /\ firings' = <<>>
    /\ pos' = Start
    /\ handled' = {}
    /\ received' = [k \in RouteIds |-> {}]
    /\ UNCHANGED <<clock, report, lastFired, lastAdvice, lastTry, attempts, alerts,
                   muted, consults, log>>

Advance ==
    /\ clock < MaxClock
    /\ clock' = clock + 1
    /\ UNCHANGED <<pc, report, firings, pos, lastFired, lastAdvice, lastTry, attempts,
                   handled, alerts, muted, consults, log, received>>

\* The steps whose end no other party decides, timeouts included.
OwnStep ==
    \/ Collect \/ Evaluate
    \/ AskModel \/ ModelAnswers \/ AdviceSkipped \/ WatchdogDone
    \/ Remediate
    \/ SendRoute \/ RoutesDone \/ Publish

Next == OwnStep \/ CommandReturns \/ Email \/ AlertAction \/ Advance

Spec == Init /\ [][Next]_vars

(***************************************************************************)
(* Fairness.  The polling goroutine runs; model and receivers have         *)
(* timeouts.  A remediation waits for the SSH handshake of its target, a   *)
(* local command or action for the children it leaves behind, and mail for *)
(* the SMTP server: no timeout ends these, so they end if the other side   *)
(* lets them.                                                              *)
(***************************************************************************)
Fairness ==
    /\ WF_vars(OwnStep)
    /\ CommandsEnd => WF_vars(CommandReturns) /\ WF_vars(AlertAction)
    /\ MailAnswers \/ ~HasEmail => WF_vars(Email)

FairSpec == Spec /\ Fairness

----------------------------------------------------------------------------
(* Properties. *)

TypeOK ==
    /\ clock \in Nat
    /\ pc \in Phases
    /\ report \in [Monitored -> Report]
    /\ firings \in Seq(Firing)
    /\ pos \in Positions
    /\ lastFired \in [Names \X Servers -> Nat \cup {Never}]
    /\ lastAdvice \in [Servers -> Nat \cup {Never}]
    /\ lastTry \in [RunbookIds \X Servers -> Nat \cup {Never}]
    /\ attempts \in [RunbookIds \X Servers -> SUBSET Nat]
    /\ handled \in SUBSET Nat
    /\ alerts \in SUBSET Firing /\ muted \in SUBSET Firing
    /\ consults \in SUBSET [server : Servers, at : Nat, firing : Nat]
    /\ log \in Seq([runbook : RunbookIds, target : Servers, at : Nat,
                    cause : Firing])
    /\ received \in [RouteIds -> SUBSET Nat]

Apart(x, y, cooldown) == x.at - y.at >= cooldown \/ y.at - x.at >= cooldown

\* "Minimum seconds between repeated alerts for the same rule+server": two
\* alerts of one rule name for one server are never closer than the cooldown,
\* even if two rules share the name.
AlertSpacing ==
    \A a, b \in alerts :
        a # b /\ Key(a.rule, a.server) = Key(b.rule, b.server)
            => Apart(a, b, AlertCooldown)

\* The model is called about one server at most once per cooldown, however
\* many of the server's alerts fire together.
AdviceSpacing ==
    \A a, b \in consults :
        a # b /\ a.server = b.server => Apart(a, b, AdviceCooldown)

\* Two executions of one runbook on one target are never closer than its
\* cooldown, whichever alerts of whichever servers ask for them.
RunbookSpacing ==
    \A i, k \in DOMAIN log :
        i # k /\ log[i].runbook = log[k].runbook /\ log[i].target = log[k].target
            => Apart(log[i], log[k], Runbooks[log[i].runbook].cooldown)

\* The attempts of runbook b on target t in the window that ended at time at.
InWindow(b, t, at) ==
    {k \in DOMAIN log :
        /\ log[k].runbook = b /\ log[k].target = t
        /\ at - Runbooks[b].window <= log[k].at /\ log[k].at <= at}

\* "an attempt budget per remediation and target": no window of the configured
\* length, wherever it is laid, holds more executions than the budget, though
\* the code forgets expired attempts as it goes.
BudgetHolds ==
    \A i \in DOMAIN log :
        Cardinality(InWindow(log[i].runbook, log[i].target, log[i].at))
            <= Runbooks[log[i].runbook].budget

\* A command runs only for an alert that was raised and not suppressed, that
\* the runbook's filters select, and by a runbook whose mode is alert: advice
\* of the model never executes anything.
CommandsAreProvoked ==
    \A i \in DOMAIN log :
        LET c == log[i].cause
            b == Runbooks[log[i].runbook]
        IN  /\ c \in alerts \ muted
            /\ b.mode = "alert"
            /\ Selects(b.rules, Rules[c.rule].name) /\ Selects(b.servers, c.server)
            /\ log[i].target \in Monitored
            /\ b.targets = <<>> => log[i].target = c.server

\* The firings that are meant for route k.
MeantFor(k) ==
    {i \in DOMAIN firings :
        /\ RouteApplies(k, firings[i])
        /\ \A j \in 1..(k - 1) : RouteApplies(j, firings[i]) => Routes[j].continue}

\* "The first matching route handles a firing; set continue: true when the
\* same firing should also reach later routes."
RoutesAsOrdered ==
    pc = "publish" => \A k \in RouteIds : received[k] = MeantFor(k)

(***************************************************************************)
(* The inductive invariant: each throttle remembers the latest of what it  *)
(* let through, and what the code has forgotten of the attempts is older   *)
(* than any window that can still matter.                                  *)
(***************************************************************************)

\* Nothing recorded is from the future.
InThePast ==
    /\ \A a \in alerts \cup consults : a.at <= clock
    /\ \A i \in DOMAIN log : log[i].at <= clock
    /\ \A k \in Names \X Servers : lastFired[k] <= clock
    /\ \A s \in Servers : lastAdvice[s] <= clock
    /\ \A k \in RunbookIds \X Servers : lastTry[k] <= clock

\* A throttle's memory is never older than what it let through.
Remembered ==
    /\ \A a \in alerts : a.at <= lastFired[Key(a.rule, a.server)]
    /\ \A a \in consults : a.at <= lastAdvice[a.server]
    /\ \A i \in DOMAIN log : log[i].at <= lastTry[<<log[i].runbook, log[i].target>>]

Attempts(b, t) == {i \in DOMAIN log : log[i].runbook = b /\ log[i].target = t}

\* The attempts a key has lost are past every window that ends now or later.
ForgottenExpired ==
    \A b \in RunbookIds : \A t \in Servers :
        /\ attempts[<<b, t>>] \subseteq Attempts(b, t)
        /\ \A i \in Attempts(b, t) \ attempts[<<b, t>>] :
             log[i].at < clock - Runbooks[b].window

\* Only what was raised is suppressed, and the batch of firings was not.
FiringsAreActive ==
    /\ muted \subseteq alerts
    /\ \A i \in DOMAIN firings : firings[i] \in alerts \ muted

\* The inductive invariant of the alert pipeline.
IInv ==
    /\ TypeOK /\ InThePast /\ Remembered /\ ForgottenExpired /\ FiringsAreActive
    /\ AlertSpacing /\ AdviceSpacing /\ RunbookSpacing /\ BudgetHolds
    /\ CommandsAreProvoked

(***************************************************************************)
(* Why the deliveries are as ordered: the routes that have been sent have  *)
(* got what is meant for them, and what they settled is what is handled.   *)
(***************************************************************************)

\* Each cycle starts to deliver with its own firings, and from the first route.
FreshDelivery ==
    /\ pc \in {"idle", "evaluate"} => firings = <<>>
    /\ pc \in {"email", "action"} => pos.route = 1
    /\ pc \notin {"routes", "publish"} =>
         handled = {} /\ \A k \in RouteIds : received[k] = {}

SentSoFar ==
    pc = "routes" =>
        /\ \A k \in RouteIds : k < pos.route => received[k] = MeantFor(k)
        /\ handled = {i \in DOMAIN firings :
                        \E j \in RouteIds :
                            j < pos.route /\ RouteApplies(j, firings[i]) /\ Settles(j)}

DeliveryInv == FreshDelivery /\ SentSoFar /\ RoutesAsOrdered

\* A cycle that has begun ends.
CycleEnds == (pc # "idle") ~> (pc = "idle")
=============================================================================
