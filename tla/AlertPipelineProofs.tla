------------------------- MODULE AlertPipelineProofs -------------------------
(***************************************************************************)
(* Theorems about AlertPipeline for every set of servers, rules, runbooks  *)
(* and routes, every cooldown, budget and window: the throttles keep their *)
(* distance and their budget, and nothing runs unprovoked.  Four steps     *)
(* touch a throttle; one lemma serves all the others.                      *)
(***************************************************************************)
EXTENDS AlertPipeline, FiniteSetTheorems, SequenceTheorems, TLAPS

----------------------------------------------------------------------------
(* Types. *)

\* Indices of a sequence.
LEMMA Indices ==
  ASSUME NEW S, NEW q \in Seq(S)
  PROVE  Len(q) \in Nat /\ DOMAIN q = 1..Len(q) /\ \A i \in DOMAIN q : q[i] \in S
BY LenProperties, ElementOfSeq

\* What the configuration is made of.
LEMMA RuleType ==
  ASSUME NEW r \in RuleIds
  PROVE  /\ r \in Nat
         /\ Rules[r].name \in Names
<1> DEFINE R == [name : Names, servers : SUBSET Servers, ping : BOOLEAN]
<1>1. Rules \in Seq(R)
  BY AlertAssumption
<1>2. r \in 1..Len(Rules) /\ Len(Rules) \in Nat /\ Rules[r] \in R
  <2> HIDE DEF R
  <2> QED BY <1>1, Indices DEF RuleIds
<1> QED
  BY <1>2

LEMMA RunbookType ==
  ASSUME NEW b \in RunbookIds
  PROVE  /\ Runbooks[b].cooldown \in Nat \ {0}
         /\ Runbooks[b].budget \in Nat \ {0}
         /\ Runbooks[b].window \in Nat \ {0}
         /\ Runbooks[b].targets \in Seq(Servers)
<1> DEFINE B == [mode : {"off", "alert", "watchdog"}, rules : SUBSET Names,
                 servers : SUBSET Servers, targets : Seq(Servers),
                 cooldown : Nat \ {0}, budget : Nat \ {0}, window : Nat \ {0}]
<1>1. Runbooks \in Seq(B)
  BY RunbookAssumption
<1>2. Runbooks[b] \in B
  <2> HIDE DEF B
  <2> QED BY <1>1, Indices DEF RunbookIds
<1> QED
  BY <1>2

\* The firings of a cycle, active ones included, are finitely many firings.
LEMMA FiredType ==
  ASSUME TypeOK
  PROVE  Fired \subseteq Firing /\ IsFiniteSet(Fired)
<1>1. IsFiniteSet(RuleIds \X Monitored)
  <2>1. RuleIds = 1..Len(Rules) /\ Len(Rules) \in Nat
    BY AlertAssumption, Indices DEF RuleIds
  <2>2. IsFiniteSet(RuleIds) /\ IsFiniteSet(Monitored)
    BY <2>1, FS_Interval, FS_Subset, ServerAssumption
  <2> QED
    BY <2>2, FS_Product
<1>2. DEFINE Pairs == {q \in RuleIds \X Monitored : Fires(q[1], q[2])}
<1>3. IsFiniteSet(Pairs)
  BY <1>1, FS_Subset
<1>4. Fired \subseteq Firing
  BY ServerAssumption DEF Fired, Firing, TypeOK
<1>5. IsFiniteSet(Fired)
  <2> DEFINE f == [p \in Pairs |-> [rule |-> p[1], server |-> p[2], at |-> clock]]
  <2>1. f \in Surjection(Pairs, Fired)
    BY DEF Surjection, Fired
  <2> QED
    BY <2>1, <1>3, FS_Surjection
<1> QED
  BY <1>4, <1>5

\* A sequence that lists the elements of a finite set is a sequence over it.
LEMMA ListingType ==
  ASSUME NEW S, IsFiniteSet(S), NEW f \in SetToSeqs(S)
  PROVE  f \in Seq(S)
<1>1. Cardinality(S) \in Nat
  BY FS_CardinalityType
<1> QED
  BY <1>1 DEF SetToSeqs

LEMMA InitType ==
  ASSUME Init
  PROVE  TypeOK
BY AlertAssumption
   DEF Init, TypeOK, Phases, NoReport, Report, Positions, Start, Never

\* The firing a loop has reached.
LEMMA FiringType ==
  ASSUME TypeOK, pos.firing <= Len(firings)
  PROVE  /\ pos.firing \in DOMAIN firings
         /\ firings[pos.firing] \in Firing
<1>1. firings \in Seq(Firing) /\ pos.firing \in Nat \ {0}
  BY DEF TypeOK, Positions
<1>2. Len(firings) \in Nat /\ DOMAIN firings = 1..Len(firings)
      /\ \A i \in DOMAIN firings : firings[i] \in Firing
  BY <1>1, Indices
<1> QED
  BY <1>1, <1>2

\* The active firings of a cycle are a sequence of firings, all of them active.
LEMMA ActiveFirings ==
  ASSUME TypeOK, Evaluate
  PROVE  /\ firings' \in Seq(Firing)
         /\ \A i \in DOMAIN firings' : firings'[i] \in Fired /\ ~Suppressed(firings'[i])
<1> DEFINE active == {f \in Fired : ~Suppressed(f)}
<1>1. firings' \in SetToSeqs(active)
  BY DEF Evaluate
<1>2. IsFiniteSet(active) /\ active \subseteq Firing
  BY FiredType, FS_Subset
<1>3. firings' \in Seq(active)
  <2> HIDE DEF active
  <2> QED BY <1>1, <1>2, ListingType
<1>4. Len(firings') \in Nat /\ DOMAIN firings' = 1..Len(firings')
      /\ \A i \in DOMAIN firings' : firings'[i] \in active
  <2> HIDE DEF active
  <2> QED BY <1>3, Indices
<1>5. \A i \in 1..Len(firings') : firings'[i] \in Firing
  BY <1>2, <1>4
<1>6. firings' = [i \in 1..Len(firings') |-> firings'[i]]
  BY <1>3, <1>4
<1> QED
  BY <1>4, <1>5, <1>6, IsASeq

\* Wherever a loop moves, its positions count from 1.
LEMMA PositionType ==
  ASSUME NEW p \in Positions
  PROVE  /\ Start \in Positions
         /\ [p EXCEPT !.firing = @ + 1] \in Positions
         /\ [p EXCEPT !.runbook = @ + 1, !.target = 1] \in Positions
         /\ [p EXCEPT !.firing = @ + 1, !.runbook = 1, !.target = 1] \in Positions
         /\ [p EXCEPT !.target = @ + 1] \in Positions
         /\ [p EXCEPT !.route = @ + 1] \in Positions
<1>1. Start \in Positions
  BY DEF Start, Positions
<1>2. [p EXCEPT !.firing = @ + 1] \in Positions
  BY DEF Positions
<1>3. [p EXCEPT !.runbook = @ + 1, !.target = 1] \in Positions
  <2> DEFINE q == [p EXCEPT !.runbook = @ + 1]
  <2>1. q \in Positions
    BY DEF Positions
  <2>2. [q EXCEPT !.target = 1] \in Positions
    <3> HIDE DEF q
    <3> QED BY <2>1 DEF Positions
  <2> QED
    BY <2>2
<1>4. [p EXCEPT !.firing = @ + 1, !.runbook = 1, !.target = 1] \in Positions
  <2> DEFINE q == [p EXCEPT !.firing = @ + 1]
             r == [q EXCEPT !.runbook = 1]
  <2>1. q \in Positions
    BY DEF Positions
  <2>2. r \in Positions
    <3> HIDE DEF q
    <3> QED BY <2>1 DEF Positions
  <2>3. [r EXCEPT !.target = 1] \in Positions
    <3> HIDE DEF r
    <3> QED BY <2>2 DEF Positions
  <2> QED
    BY <2>3
<1>5. [p EXCEPT !.target = @ + 1] \in Positions
  BY DEF Positions
<1>6. [p EXCEPT !.route = @ + 1] \in Positions
  BY DEF Positions
<1> QED
  BY <1>1, <1>2, <1>3, <1>4, <1>5, <1>6

\* Every step keeps the types.
LEMMA NextType ==
  ASSUME TypeOK, [Next]_vars
  PROVE  TypeOK'
<1> USE DEF TypeOK
<1>1. CASE Collect
  BY <1>1 DEF Collect, Phases
<1>2. CASE Evaluate
  <2>1. firings' \in Seq(Firing)
    BY <1>2, ActiveFirings
  <2>2. Fired \subseteq Firing
    BY FiredType
  <2>3. alerts' \in SUBSET Firing /\ muted' \in SUBSET Firing
    BY <1>2, <2>2 DEF Evaluate
  <2>4. lastFired' \in [Names \X Servers -> Nat \cup {Never}]
    BY <1>2 DEF Evaluate
  <2>5. report' \in [Monitored -> Report]
    BY <1>2 DEF Evaluate, NoReport, Report
  <2>6. pc' \in Phases
    BY <1>2 DEF Evaluate, Phases
  <2> QED
    BY <1>2, <2>1, <2>3, <2>4, <2>5, <2>6 DEF Evaluate
<1>3. CASE AskModel
  <2> DEFINE s == firings[pos.firing].server
  <2>1. s \in Servers /\ pos.firing \in Nat
    BY <1>3, FiringType DEF AskModel, Firing, Positions
  <2>2. lastAdvice' \in [Servers -> Nat \cup {Never}]
    BY <1>3 DEF AskModel
  <2>3. consults' \in SUBSET [server : Servers, at : Nat, firing : Nat]
    BY <1>3, <2>1 DEF AskModel
  <2>4. pc' \in Phases
    BY <1>3 DEF AskModel, Phase, Phases
  <2> QED
    BY <1>3, <2>2, <2>3, <2>4 DEF AskModel, OthersKeep
<1>4. CASE ModelAnswers \/ AdviceSkipped \/ WatchdogDone
  <2>1. pos' \in Positions
    BY <1>4, PositionType DEF ModelAnswers, AdviceSkipped, WatchdogDone
  <2>2. pc' \in Phases
    BY <1>4 DEF ModelAnswers, AdviceSkipped, WatchdogDone, Phase, Phases
  <2> QED
    BY <1>4, <2>1, <2>2 DEF ModelAnswers, AdviceSkipped, WatchdogDone, OthersKeep
<1>5. ASSUME NEW t \in Servers, TryTarget(t)
      PROVE  TypeOK'
  <2> DEFINE b == pos.runbook
             e == [runbook |-> b, target |-> t, at |-> clock, cause |-> TheFiring]
             Entry == [runbook : RunbookIds, target : Servers, at : Nat, cause : Firing]
  <2>1. b \in RunbookIds /\ TheFiring \in Firing
    BY <1>5, FiringType DEF TryTarget, AtTarget, Remediating, TheFiring
  <2>2. e \in Entry
    BY <2>1
  <2>3. log' \in Seq(Entry) /\ Len(log) \in Nat
    <3>1. log \in Seq(Entry) /\ log' = Append(log, e)
      BY <1>5 DEF TryTarget
    <3> HIDE DEF Entry, e
    <3> QED BY <2>2, <3>1, AppendProperties, LenProperties
  <2>4. Kept(b, t) \cup {Len(log) + 1} \in SUBSET Nat
    BY <2>1, <2>3 DEF Kept
  <2>5. attempts' \in [RunbookIds \X Servers -> SUBSET Nat]
    BY <1>5, <2>1, <2>4 DEF TryTarget
  <2>6. lastTry' \in [RunbookIds \X Servers -> Nat \cup {Never}]
    BY <1>5, <2>1 DEF TryTarget
  <2>7. pc' \in Phases
    BY <1>5 DEF TryTarget, Phases
  <2> QED
    BY <1>5, <2>3, <2>5, <2>6, <2>7 DEF TryTarget, OthersKeep
<1>6. ASSUME NEW t \in Servers, SkipTarget(t)
      PROVE  TypeOK'
  <2>1. pos' \in Positions
    BY <1>6, PositionType DEF SkipTarget, NextTarget
  <2> QED
    BY <1>6, <2>1 DEF SkipTarget, OthersKeep
<1>7. ASSUME NEW t \in Servers, OverBudget(t)
      PROVE  TypeOK'
  <2>1. pos.runbook \in RunbookIds
    BY <1>7 DEF OverBudget, AtTarget
  <2>2. attempts' \in [RunbookIds \X Servers -> SUBSET Nat]
    BY <1>7, <2>1 DEF OverBudget, Kept
  <2>3. pos' \in Positions
    BY <1>7, PositionType DEF OverBudget, NextTarget
  <2> QED
    BY <1>7, <2>2, <2>3 DEF OverBudget, OthersKeep
<1>8. CASE NextRunbook \/ NextFiring \/ RemediationDone \/ CommandReturns
  <2>1. pos' \in Positions
    BY <1>8, PositionType
       DEF NextRunbook, NextFiring, RemediationDone, CommandReturns, NextTarget
  <2>2. pc' \in Phases
    BY <1>8 DEF NextRunbook, NextFiring, RemediationDone, CommandReturns, Phase, Phases
  <2> QED
    BY <1>8, <2>1, <2>2
       DEF NextRunbook, NextFiring, RemediationDone, CommandReturns, OthersKeep
<1>9. CASE Email \/ AlertAction \/ RoutesDone
  BY <1>9 DEF Email, AlertAction, RoutesDone, OthersKeep, Phase, Phases
<1>10. CASE SendRoute
  <2> DEFINE matched == {i \in DOMAIN firings \ handled :
                            RouteApplies(pos.route, firings[i])}
  <2>1. matched \in SUBSET Nat
    BY Indices
  <2>2. handled' \in SUBSET Nat /\ received' \in [RouteIds -> SUBSET Nat]
    BY <1>10, <2>1 DEF SendRoute
  <2>3. pos' \in Positions
    BY <1>10, PositionType DEF SendRoute
  <2> QED
    BY <1>10, <2>2, <2>3 DEF SendRoute, Phase, Phases
<1>11. CASE Publish
  <2>1. pos' \in Positions
    BY <1>11, PositionType DEF Publish
  <2> QED
    BY <1>11, <2>1 DEF Publish, Phase, Phases
<1>12. CASE Advance
  BY <1>12 DEF Advance
<1>13. CASE UNCHANGED vars
  BY <1>13 DEF vars
<1> QED
  BY <1>1, <1>2, <1>3, <1>4, <1>5, <1>6, <1>7, <1>8, <1>9, <1>10, <1>11, <1>12,
     <1>13 DEF Next, OwnStep, Remediate

----------------------------------------------------------------------------
(* The throttles.  The history only grows, and a step that lets nothing     *)
(* through leaves every throttle alone.                                     *)

\* The entries of the remediation log.
LEMMA LogType ==
  ASSUME TypeOK
  PROVE  /\ Len(log) \in Nat /\ DOMAIN log = 1..Len(log)
         /\ \A i \in DOMAIN log :
              /\ log[i].runbook \in RunbookIds /\ log[i].target \in Servers
              /\ log[i].at \in Nat /\ log[i].cause \in Firing
<1> DEFINE Entry == [runbook : RunbookIds, target : Servers, at : Nat, cause : Firing]
<1>1. log \in Seq(Entry)
  BY DEF TypeOK
<1>2. Len(log) \in Nat /\ DOMAIN log = 1..Len(log)
      /\ \A i \in DOMAIN log : log[i] \in Entry
  <2> HIDE DEF Entry
  <2> QED BY <1>1, Indices
<1> QED
  BY <1>2

\* A step that lets nothing through, while time may pass, keeps the invariant.
LEMMA QuietStep ==
  ASSUME IInv, TypeOK', clock' \in Nat, clock' >= clock,
         UNCHANGED <<lastFired, lastAdvice, lastTry, attempts, alerts, muted,
                     consults, log>>,
         firings' = firings \/ firings' = <<>>
  PROVE  IInv'
<1> USE DEF IInv
<1>1. clock \in Nat
  BY DEF TypeOK
<1>2. /\ \A a \in alerts \cup consults : a.at \in Nat
      /\ \A i \in DOMAIN log : log[i].at \in Nat
      /\ \A k \in Names \X Servers : lastFired[k] \in Nat \cup {Never}
      /\ \A s \in Servers : lastAdvice[s] \in Nat \cup {Never}
      /\ \A k \in RunbookIds \X Servers : lastTry[k] \in Nat \cup {Never}
  BY LogType DEF TypeOK, Firing
<1>3. InThePast'
  BY <1>1, <1>2 DEF InThePast, Never
<1>4. Remembered'
  BY DEF Remembered
<1>5. ForgottenExpired'
  <2> SUFFICES ASSUME NEW b \in RunbookIds, NEW t \in Servers
               PROVE  /\ attempts[<<b, t>>] \subseteq Attempts(b, t)
                      /\ \A i \in Attempts(b, t) \ attempts[<<b, t>>] :
                           log[i].at < clock' - Runbooks[b].window
    BY DEF ForgottenExpired, Attempts
  <2>1. Runbooks[b].window \in Nat
    BY RunbookType
  <2> QED
    BY <1>1, <1>2, <2>1 DEF ForgottenExpired, Attempts
<1>6. FiringsAreActive'
  BY DEF FiringsAreActive
<1>7. AlertSpacing' /\ AdviceSpacing' /\ RunbookSpacing'
  BY DEF AlertSpacing, AdviceSpacing, RunbookSpacing, Apart
<1>8. BudgetHolds'
  BY DEF BudgetHolds, InWindow
<1>9. CommandsAreProvoked'
  BY DEF CommandsAreProvoked
<1> QED
  BY <1>3, <1>4, <1>5, <1>6, <1>7, <1>8, <1>9

\* What fires now has not fired before, and was not close to firing.
LEMMA FiredIsNew ==
  ASSUME IInv, NEW f \in Fired
  PROVE  /\ f \notin alerts
         /\ f.at = clock
         /\ \A a \in alerts : Key(a.rule, a.server) = Key(f.rule, f.server)
                                 => clock - a.at >= AlertCooldown
<1>1. f \in Firing /\ clock \in Nat /\ alerts \subseteq Firing
  BY FiredType DEF IInv, TypeOK
<1>2. f.at = clock /\ Elapsed(lastFired[Key(f.rule, f.server)], AlertCooldown)
  BY DEF Fired, Fires
<1>3. Key(f.rule, f.server) \in Names \X Servers
  BY <1>1, RuleType DEF Firing, Key
<1>4. lastFired[Key(f.rule, f.server)] \in Nat \cup {Never}
  BY <1>3 DEF IInv, TypeOK
<1>5. ASSUME NEW a \in alerts, Key(a.rule, a.server) = Key(f.rule, f.server)
      PROVE  clock - a.at >= AlertCooldown
  <2>1. a.at \in Nat /\ a.at <= lastFired[Key(f.rule, f.server)]
    BY <1>1, <1>5 DEF IInv, Remembered, Firing
  <2> QED
    BY <1>1, <1>2, <1>4, <2>1, AlertAssumption DEF Elapsed, Never
<1>6. f \notin alerts
  BY <1>1, <1>2, <1>5, AlertAssumption
<1> QED
  BY <1>2, <1>5, <1>6

\* One evaluation raises at most one alert for a rule name and a server.
LEMMA FiredOnce ==
  ASSUME NEW f \in Fired, NEW g \in Fired,
         Key(f.rule, f.server) = Key(g.rule, g.server)
  PROVE  f = g
<1>1. PICK r \in RuleIds, s \in Monitored :
        Fires(r, s) /\ f = [rule |-> r, server |-> s, at |-> clock]
  BY DEF Fired
<1>2. PICK q \in RuleIds, u \in Monitored :
        Fires(q, u) /\ g = [rule |-> q, server |-> u, at |-> clock]
  BY DEF Fired
<1>3. Rules[r].name = Rules[q].name /\ s = u
  BY <1>1, <1>2 DEF Key
<1>4. r \in Nat /\ q \in Nat
  BY RuleType
<1>5. ~(r < q) /\ ~(q < r)
  BY <1>1, <1>2, <1>3 DEF Fires, FirstOfName
<1> QED
  BY <1>1, <1>2, <1>3, <1>4, <1>5

LEMMA EvaluateStep ==
  ASSUME IInv, TypeOK', Evaluate
  PROVE  IInv'
<1> USE DEF IInv
<1>1. /\ alerts' = alerts \cup Fired
      /\ muted' = muted \cup (Fired \ {f \in Fired : ~Suppressed(f)})
      /\ lastFired' = [k \in Names \X Servers |->
                          IF \E f \in Fired : Key(f.rule, f.server) = k
                          THEN clock ELSE lastFired[k]]
      /\ UNCHANGED <<clock, lastAdvice, lastTry, attempts, consults, log>>
  BY DEF Evaluate
<1>2. clock \in Nat /\ alerts \subseteq Firing /\ Fired \subseteq Firing
  BY FiredType DEF TypeOK
<1>3. \A a \in Firing : Key(a.rule, a.server) \in Names \X Servers /\ a.at \in Nat
  BY RuleType DEF Firing, Key
<1>4. \A k \in Names \X Servers :
        lastFired[k] \in Nat \cup {Never} /\ lastFired[k] <= clock
  BY DEF TypeOK, InThePast
<1>5. InThePast'
  BY <1>1, <1>4, <1>2, FiredIsNew DEF InThePast
<1>6. Remembered'
  <2> SUFFICES ASSUME NEW a \in alerts'
               PROVE  a.at <= lastFired'[Key(a.rule, a.server)]
    BY <1>1 DEF Remembered, Key
  <2> DEFINE k == Key(a.rule, a.server)
  <2>1. a \in Firing /\ k \in Names \X Servers
    BY <1>1, <1>2, <1>3
  <2>2. CASE a \in Fired
    BY <1>1, <1>2, <2>1, <2>2, FiredIsNew
  <2>3. CASE a \in alerts
    <3>1. a.at \in Nat /\ a.at <= lastFired[k]
      BY <1>3, <2>1, <2>3 DEF Remembered
    <3> QED
      BY <1>1, <1>2, <1>4, <2>1, <3>1 DEF Never
  <2> QED
    BY <1>1, <2>2, <2>3
<1>7. ForgottenExpired'
  BY <1>1 DEF ForgottenExpired, Attempts
<1>8. muted' \cap alerts = muted \cap alerts
  BY <1>1, FiredIsNew
<1>9. FiringsAreActive'
  <2>1. muted' \subseteq alerts'
    BY <1>1 DEF FiringsAreActive
  <2>2. ASSUME NEW i \in DOMAIN firings'
        PROVE  firings'[i] \in alerts' \ muted'
    <3>1. firings'[i] \in Fired /\ ~Suppressed(firings'[i])
      BY ActiveFirings
    <3>2. firings'[i] \notin muted
      BY <3>1, FiredIsNew DEF FiringsAreActive
    <3> QED
      BY <1>1, <3>1, <3>2
  <2> QED
    BY <2>1, <2>2 DEF FiringsAreActive
<1>10. AlertSpacing'
  <2> SUFFICES ASSUME NEW a \in alerts', NEW b \in alerts', a # b,
                      Key(a.rule, a.server) = Key(b.rule, b.server)
               PROVE  Apart(a, b, AlertCooldown)
    BY DEF AlertSpacing, Apart, Key
  <2>1. CASE a \in alerts /\ b \in alerts
    BY <2>1 DEF AlertSpacing
  <2>2. CASE a \in Fired /\ b \in Fired
    BY <2>2, FiredOnce
  <2>3. CASE a \in alerts /\ b \in Fired
    BY <2>3, FiredIsNew DEF Apart
  <2>4. CASE a \in Fired /\ b \in alerts
    BY <2>4, FiredIsNew DEF Apart
  <2> QED
    BY <1>1, <2>1, <2>2, <2>3, <2>4
<1>11. AdviceSpacing' /\ RunbookSpacing'
  BY <1>1 DEF AdviceSpacing, RunbookSpacing, Apart
<1>12. BudgetHolds'
  BY <1>1 DEF BudgetHolds, InWindow
<1>13. CommandsAreProvoked'
  BY <1>1, <1>8 DEF CommandsAreProvoked
<1> QED
  BY <1>5, <1>6, <1>7, <1>9, <1>10, <1>11, <1>12, <1>13

LEMMA AskModelStep ==
  ASSUME IInv, TypeOK', AskModel
  PROVE  IInv'
<1> USE DEF IInv
<1> DEFINE s == firings[pos.firing].server
           c == [server |-> s, at |-> clock, firing |-> pos.firing]
<1>1. /\ Elapsed(lastAdvice[s], AdviceCooldown)
      /\ lastAdvice' = [lastAdvice EXCEPT ![s] = clock]
      /\ consults' = consults \cup {c}
      /\ UNCHANGED <<clock, firings, lastFired, lastTry, attempts, alerts, muted, log>>
  BY DEF AskModel, OthersKeep
<1>2. s \in Servers /\ clock \in Nat
  BY FiringType DEF AskModel, Firing, TypeOK
<1>3. \A u \in Servers : lastAdvice[u] \in Nat \cup {Never} /\ lastAdvice[u] <= clock
  BY DEF TypeOK, InThePast
<1>4. \A u \in Servers : lastAdvice'[u] = IF u = s THEN clock ELSE lastAdvice[u]
  BY <1>1, <1>2 DEF TypeOK
<1>5. \A a \in consults : a.server \in Servers /\ a.at \in Nat
                          /\ a.at <= lastAdvice[a.server]
  BY DEF TypeOK, Remembered
<1> HIDE DEF s
<1>6. InThePast'
  BY <1>1, <1>2, <1>3, <1>4 DEF InThePast
<1>7. Remembered'
  <2>1. \A a \in alerts' : a.at <= lastFired'[Key(a.rule, a.server)]
    BY <1>1 DEF Remembered
  <2>2. \A i \in DOMAIN log' :
          log'[i].at <= lastTry'[<<log'[i].runbook, log'[i].target>>]
    BY <1>1 DEF Remembered
  <2>3. ASSUME NEW a \in consults'
        PROVE  a.at <= lastAdvice'[a.server]
    BY <1>1, <1>2, <1>3, <1>4, <1>5 DEF Never
  <2> QED
    BY <2>1, <2>2, <2>3 DEF Remembered, Key
<1>8. ForgottenExpired' /\ FiringsAreActive'
  BY <1>1 DEF ForgottenExpired, Attempts, FiringsAreActive
<1>9. AdviceSpacing'
  <2>1. ASSUME NEW a \in consults, a.server = s
        PROVE  clock - a.at >= AdviceCooldown
    BY <1>1, <1>2, <1>3, <1>5, <2>1, AlertAssumption DEF Elapsed, Never
  <2> QED
    BY <1>1, <2>1 DEF AdviceSpacing, Apart
<1>10. AlertSpacing' /\ RunbookSpacing'
  BY <1>1 DEF AlertSpacing, RunbookSpacing, Apart
<1>11. BudgetHolds'
  BY <1>1 DEF BudgetHolds, InWindow
<1>12. CommandsAreProvoked'
  BY <1>1 DEF CommandsAreProvoked
<1> QED
  BY <1>6, <1>7, <1>8, <1>9, <1>10, <1>11, <1>12

\* The attempts kept are those of the window, and finitely many.
LEMMA KeptAttempts ==
  ASSUME IInv, NEW b \in RunbookIds, NEW t \in Servers
  PROVE  /\ IsFiniteSet(Kept(b, t))
         /\ Kept(b, t) \subseteq Attempts(b, t)
         /\ \A i \in Attempts(b, t) \ Kept(b, t) :
              log[i].at < clock - Runbooks[b].window
<1>1. Kept(b, t) \subseteq Attempts(b, t)
  BY DEF IInv, ForgottenExpired, Kept
<1>2. IsFiniteSet(DOMAIN log)
  BY LogType, FS_Interval DEF IInv
<1>3. IsFiniteSet(Kept(b, t))
  BY <1>1, <1>2, FS_Subset DEF Attempts
<1>4. ASSUME NEW i \in Attempts(b, t) \ Kept(b, t)
      PROVE  log[i].at < clock - Runbooks[b].window
  <2>1. CASE i \in attempts[<<b, t>>]
    <3>1. log[i].at \in Nat /\ clock \in Nat /\ Runbooks[b].window \in Nat
      BY LogType, RunbookType DEF IInv, TypeOK, Attempts
    <3> QED
      BY <1>4, <2>1, <3>1 DEF Kept
  <2>2. CASE i \notin attempts[<<b, t>>]
    BY <1>4, <2>2 DEF IInv, ForgottenExpired
  <2> QED
    BY <2>1, <2>2
<1> QED
  BY <1>1, <1>3, <1>4

LEMMA OverBudgetStep ==
  ASSUME IInv, TypeOK', NEW t \in Servers, OverBudget(t)
  PROVE  IInv'
<1> USE DEF IInv
<1> DEFINE b == pos.runbook
<1>1. /\ b \in RunbookIds
      /\ attempts' = [attempts EXCEPT ![<<b, t>>] = Kept(b, t)]
      /\ UNCHANGED <<clock, firings, lastFired, lastAdvice, lastTry, alerts, muted,
                     consults, log>>
  BY DEF OverBudget, AtTarget, OthersKeep
<1> HIDE DEF b
<1>2. InThePast' /\ Remembered' /\ FiringsAreActive'
  BY <1>1 DEF InThePast, Remembered, FiringsAreActive
<1>3. ForgottenExpired'
  <2> SUFFICES ASSUME NEW c \in RunbookIds, NEW u \in Servers
               PROVE  /\ attempts'[<<c, u>>] \subseteq Attempts(c, u)
                      /\ \A i \in Attempts(c, u) \ attempts'[<<c, u>>] :
                           log[i].at < clock - Runbooks[c].window
    BY <1>1 DEF ForgottenExpired, Attempts
  <2>1. CASE c = b /\ u = t
    BY <1>1, <2>1, KeptAttempts DEF TypeOK
  <2>2. CASE ~(c = b /\ u = t)
    <3>1. attempts'[<<c, u>>] = attempts[<<c, u>>]
      BY <1>1, <2>2 DEF TypeOK
    <3> QED
      BY <3>1 DEF ForgottenExpired
  <2> QED
    BY <2>1, <2>2
<1>4. AlertSpacing' /\ AdviceSpacing' /\ RunbookSpacing'
  BY <1>1 DEF AlertSpacing, AdviceSpacing, RunbookSpacing, Apart
<1>5. BudgetHolds'
  BY <1>1 DEF BudgetHolds, InWindow
<1>6. CommandsAreProvoked'
  BY <1>1 DEF CommandsAreProvoked
<1> QED
  BY <1>2, <1>3, <1>4, <1>5, <1>6

\* A command that starts is appended to the log.
LEMMA LogGrows ==
  ASSUME TypeOK, NEW t \in Servers, TryTarget(t)
  PROVE  /\ DOMAIN log' = DOMAIN log \cup {Len(log) + 1}
         /\ Len(log) + 1 \notin DOMAIN log
         /\ \A i \in DOMAIN log : log'[i] = log[i]
         /\ log'[Len(log) + 1] = [runbook |-> pos.runbook, target |-> t,
                                  at |-> clock, cause |-> TheFiring]
<1> DEFINE Entry == [runbook : RunbookIds, target : Servers, at : Nat, cause : Firing]
           e == [runbook |-> pos.runbook, target |-> t, at |-> clock,
                 cause |-> TheFiring]
<1>1. log \in Seq(Entry) /\ log' = Append(log, e)
  BY DEF TryTarget, TypeOK
<1>2. pos.runbook \in RunbookIds /\ TheFiring \in Firing /\ clock \in Nat
  BY FiringType DEF TryTarget, AtTarget, Remediating, TheFiring, TypeOK
<1>3. e \in Entry
  BY <1>2
<1>4. /\ Len(log') = Len(log) + 1 /\ log' \in Seq(Entry)
      /\ \A i \in 1..Len(log) : log'[i] = log[i]
      /\ log'[Len(log) + 1] = e
  <2> HIDE DEF Entry, e
  <2> QED BY <1>1, <1>3, AppendProperties
<1>5. DOMAIN log' = 1..(Len(log) + 1) /\ DOMAIN log = 1..Len(log) /\ Len(log) \in Nat
  <2> HIDE DEF Entry, e
  <2> QED BY <1>1, <1>4, Indices
<1> QED
  BY <1>4, <1>5

\* The cooldown of a runbook and a target has passed since all its attempts.
LEMMA TriedLongAgo ==
  ASSUME IInv, NEW t \in Servers, TryTarget(t), NEW i \in Attempts(pos.runbook, t)
  PROVE  /\ clock - log[i].at >= Runbooks[pos.runbook].cooldown
         /\ log[i].at < clock
<1> DEFINE b == pos.runbook
<1>1. b \in RunbookIds /\ Elapsed(lastTry[<<b, t>>], Runbooks[b].cooldown)
  BY DEF TryTarget, AtTarget, CooledDown
<1>2. lastTry[<<b, t>>] \in Nat \cup {Never} /\ clock \in Nat
      /\ Runbooks[b].cooldown \in Nat \ {0}
  BY <1>1, RunbookType DEF IInv, TypeOK
<1>3. log[i].at \in Nat /\ log[i].at <= lastTry[<<b, t>>]
  BY LogType DEF IInv, Remembered, Attempts
<1> QED
  BY <1>1, <1>2, <1>3 DEF Elapsed, Never

LEMMA TryTargetStep ==
  ASSUME IInv, TypeOK', NEW t \in Servers, TryTarget(t)
  PROVE  IInv'
<1> USE DEF IInv
<1> DEFINE b == pos.runbook
           n == Len(log) + 1
           W == Runbooks[b].window
<1>1. /\ b \in RunbookIds
      /\ lastTry' = [lastTry EXCEPT ![<<b, t>>] = clock]
      /\ attempts' = [attempts EXCEPT ![<<b, t>>] = Kept(b, t) \cup {n}]
      /\ UNCHANGED <<clock, firings, lastFired, lastAdvice, alerts, muted, consults>>
  BY DEF TryTarget, AtTarget, OthersKeep
<1>2. /\ DOMAIN log' = DOMAIN log \cup {n} /\ n \notin DOMAIN log
      /\ \A i \in DOMAIN log : log'[i] = log[i]
      /\ log'[n].runbook = b /\ log'[n].target = t /\ log'[n].at = clock
      /\ log'[n].cause = TheFiring
  <2> DEFINE e == [runbook |-> b, target |-> t, at |-> clock, cause |-> TheFiring]
  <2>1. /\ DOMAIN log' = DOMAIN log \cup {n} /\ n \notin DOMAIN log
        /\ \A i \in DOMAIN log : log'[i] = log[i]
        /\ log'[n] = e
    BY LogGrows, Zenon
  <2>2. e.runbook = b /\ e.target = t /\ e.at = clock /\ e.cause = TheFiring
    OBVIOUS
  <2> QED
    <3> HIDE DEF e
    <3> QED BY <2>1, <2>2
<1>3. clock \in Nat /\ W \in Nat \ {0} /\ Runbooks[b].cooldown \in Nat \ {0}
      /\ Runbooks[b].budget \in Nat \ {0}
  BY <1>1, RunbookType DEF TypeOK
<1>4. \A i \in DOMAIN log : /\ log[i].runbook \in RunbookIds
                            /\ log[i].target \in Servers /\ log[i].at \in Nat
                            /\ log[i].at <= clock
  BY LogType DEF InThePast
<1>5. \A k \in RunbookIds \X Servers :
        lastTry'[k] = IF k = <<b, t>> THEN clock ELSE lastTry[k]
  BY <1>1 DEF TypeOK
<1>6. \A i \in Attempts(b, t) : clock - log[i].at >= Runbooks[b].cooldown
                                /\ log[i].at < clock
  BY TriedLongAgo
<1> HIDE DEF b, n
<1>7. InThePast'
  <2>1. \A i \in DOMAIN log' : log'[i].at <= clock'
    BY <1>1, <1>2, <1>3, <1>4
  <2>2. \A k \in RunbookIds \X Servers : lastTry'[k] <= clock'
    BY <1>1, <1>3, <1>5 DEF InThePast
  <2> QED
    BY <1>1, <2>1, <2>2 DEF InThePast
<1>8. Remembered'
  <2>1. ASSUME NEW i \in DOMAIN log'
        PROVE  log'[i].at <= lastTry'[<<log'[i].runbook, log'[i].target>>]
    <3>1. CASE i = n
      BY <1>1, <1>2, <1>3, <1>5, <3>1
    <3>2. CASE i \in DOMAIN log
      <4>1. log[i].at <= lastTry[<<log[i].runbook, log[i].target>>]
        BY <3>2 DEF Remembered
      <4> QED
        BY <1>2, <1>4, <1>5, <3>2, <4>1
    <3> QED
      BY <1>2, <3>1, <3>2
  <2> QED
    BY <1>1, <2>1 DEF Remembered, Key
<1>9. ForgottenExpired'
  <2> SUFFICES ASSUME NEW c \in RunbookIds, NEW u \in Servers
               PROVE  /\ attempts'[<<c, u>>] \subseteq Attempts(c, u)'
                      /\ \A i \in Attempts(c, u)' \ attempts'[<<c, u>>] :
                           log'[i].at < clock' - Runbooks[c].window
    BY DEF ForgottenExpired
  <2>1. CASE c = b /\ u = t
    <3>1. Attempts(c, u)' = Attempts(c, u) \cup {n}
      BY <1>2, <2>1 DEF Attempts
    <3>2. attempts'[<<c, u>>] = Kept(c, u) \cup {n}
      BY <1>1, <2>1 DEF TypeOK
    <3>3. Attempts(c, u) \subseteq DOMAIN log
      BY DEF Attempts
    <3> QED
      BY <1>1, <1>2, <3>1, <3>2, <3>3, KeptAttempts
  <2>2. CASE ~(c = b /\ u = t)
    <3>1. Attempts(c, u)' = Attempts(c, u)
      BY <1>2, <2>2 DEF Attempts
    <3>2. attempts'[<<c, u>>] = attempts[<<c, u>>]
      BY <1>1, <2>2 DEF TypeOK
    <3>3. Attempts(c, u) \subseteq DOMAIN log
      BY DEF Attempts
    <3> QED
      BY <1>1, <1>2, <3>1, <3>2, <3>3 DEF ForgottenExpired
  <2> QED
    BY <2>1, <2>2
<1>10. FiringsAreActive' /\ AlertSpacing' /\ AdviceSpacing'
  BY <1>1 DEF FiringsAreActive, AlertSpacing, AdviceSpacing, Apart
<1>11. RunbookSpacing'
  <2> SUFFICES ASSUME NEW i \in DOMAIN log', NEW k \in DOMAIN log', i # k,
                      log'[i].runbook = log'[k].runbook,
                      log'[i].target = log'[k].target
               PROVE  Apart(log'[i], log'[k], Runbooks[log'[i].runbook].cooldown)
    BY DEF RunbookSpacing, Apart
  <2>1. CASE i # n /\ k # n
    BY <1>2, <2>1 DEF RunbookSpacing
  <2>2. CASE i = n
    <3>1. k \in Attempts(b, t)
      BY <1>2, <2>2 DEF Attempts
    <3> QED
      BY <1>2, <1>6, <2>2, <3>1 DEF Apart
  <2>3. CASE k = n
    <3>1. i \in Attempts(b, t)
      BY <1>2, <2>3 DEF Attempts
    <3> QED
      BY <1>2, <1>6, <2>3, <3>1 DEF Apart
  <2> QED
    BY <2>1, <2>2, <2>3
<1>12. BudgetHolds'
  <2> SUFFICES ASSUME NEW i \in DOMAIN log'
               PROVE  Cardinality(InWindow(log[i].runbook, log[i].target, log[i].at)')
                        <= Runbooks[log'[i].runbook].budget
    BY DEF BudgetHolds, InWindow
  <2>1. CASE i = n
    <3> DEFINE S == Kept(b, t) \cup {n}
    <3>1. InWindow(log[i].runbook, log[i].target, log[i].at)' \subseteq S
      <4> SUFFICES ASSUME NEW k \in DOMAIN log, log[k].runbook = b,
                          log[k].target = t, clock - W <= log[k].at
                   PROVE  k \in Kept(b, t)
        BY <1>2, <2>1 DEF InWindow, b
      <4>1. k \in Attempts(b, t)
        BY DEF Attempts
      <4> QED
        BY <1>1, <1>3, <1>4, <4>1, KeptAttempts DEF b
    <3>2. IsFiniteSet(Kept(b, t)) /\ Cardinality(Kept(b, t)) \in Nat
      BY <1>1, KeptAttempts, FS_CardinalityType
    <3>3. n \notin Kept(b, t)
      BY <1>1, <1>2, KeptAttempts DEF Attempts
    <3>4. IsFiniteSet(S) /\ Cardinality(S) = Cardinality(Kept(b, t)) + 1
      BY <3>2, <3>3, FS_AddElement
    <3>5. Cardinality(Kept(b, t)) < Runbooks[b].budget
      BY DEF TryTarget, b
    <3>6. Cardinality(InWindow(log[i].runbook, log[i].target, log[i].at)')
            <= Cardinality(S)
      BY <3>1, <3>4, FS_Subset
    <3>7. Cardinality(InWindow(log[i].runbook, log[i].target, log[i].at)') \in Nat
      BY <3>1, <3>4, FS_Subset, FS_CardinalityType
    <3> QED
      BY <1>2, <1>3, <2>1, <3>2, <3>4, <3>5, <3>6, <3>7 DEF b
  <2>2. CASE i \in DOMAIN log
    <3>1. InWindow(log[i].runbook, log[i].target, log[i].at)'
            = InWindow(log[i].runbook, log[i].target, log[i].at)
      <4>1. ~( /\ log'[n].runbook = log[i].runbook
               /\ log'[n].target = log[i].target
               /\ log'[n].at <= log[i].at )
        <5>1. CASE i \in Attempts(b, t)
          BY <1>2, <1>3, <1>4, <1>6, <2>2, <5>1
        <5>2. CASE i \notin Attempts(b, t)
          BY <1>2, <2>2, <5>2 DEF Attempts
        <5> QED
          BY <5>1, <5>2
      <4> QED
        BY <1>2, <2>2, <4>1 DEF InWindow
    <3> QED
      BY <1>2, <2>2, <3>1 DEF BudgetHolds
  <2> QED
    BY <1>2, <2>1, <2>2
<1>13. CommandsAreProvoked'
  <2> SUFFICES ASSUME NEW i \in DOMAIN log'
               PROVE  LET c == log'[i].cause
                          a == Runbooks[log'[i].runbook]
                      IN  /\ c \in alerts \ muted
                          /\ a.mode = "alert"
                          /\ Selects(a.rules, Rules[c.rule].name)
                          /\ Selects(a.servers, c.server)
                          /\ log'[i].target \in Monitored
                          /\ a.targets = <<>> => log'[i].target = c.server
    BY <1>1 DEF CommandsAreProvoked, Selects
  <2>1. CASE i = n
    <3>1. TheFiring \in alerts \ muted
      BY FiringType DEF TryTarget, AtTarget, Remediating, TheFiring, FiringsAreActive
    <3>2. Applies(b, TheFiring.rule, TheFiring.server) /\ t \in Monitored
      BY DEF TryTarget, AtTarget, b
    <3>3. Runbooks[b].targets = <<>> => t = TheFiring.server
      BY DEF TryTarget, AtTarget, TargetsOf, b
    <3> QED
      BY <1>2, <2>1, <3>1, <3>2, <3>3 DEF Applies
  <2>2. CASE i \in DOMAIN log
    BY <1>2, <2>2 DEF CommandsAreProvoked
  <2> QED
    BY <1>2, <2>1, <2>2
<1> QED
  BY <1>7, <1>8, <1>9, <1>10, <1>11, <1>12, <1>13

----------------------------------------------------------------------------
(* The theorems. *)

LEMMA NextKeepsIInv ==
  ASSUME IInv, [Next]_vars
  PROVE  IInv'
<1>1. TypeOK' /\ clock \in Nat
  BY NextType DEF IInv, TypeOK
<1>2. CASE Evaluate
  BY <1>1, <1>2, EvaluateStep
<1>3. CASE AskModel
  BY <1>1, <1>3, AskModelStep
<1>4. CASE \E t \in Servers : TryTarget(t) \/ OverBudget(t)
  BY <1>1, <1>4, TryTargetStep, OverBudgetStep
<1>5. ASSUME clock' \in Nat, clock' >= clock,
             UNCHANGED <<lastFired, lastAdvice, lastTry, attempts, alerts, muted,
                         consults, log>>,
             firings' = firings \/ firings' = <<>>
      PROVE  IInv'
  BY <1>1, <1>5, QuietStep
<1>6. CASE \/ Collect \/ SendRoute \/ Publish \/ Advance \/ UNCHANGED vars
  BY <1>1, <1>5, <1>6 DEF Collect, SendRoute, Publish, Advance, vars
<1>7. CASE \/ ModelAnswers \/ AdviceSkipped \/ WatchdogDone
           \/ CommandReturns \/ NextRunbook \/ NextFiring \/ RemediationDone
           \/ Email \/ AlertAction \/ RoutesDone
           \/ \E t \in Servers : SkipTarget(t)
  <2>1. UNCHANGED <<clock, firings, lastFired, lastAdvice, lastTry, attempts,
                    alerts, muted, consults, log>>
    BY <1>7 DEF ModelAnswers, AdviceSkipped, WatchdogDone, CommandReturns,
                NextRunbook, NextFiring, RemediationDone, Email, AlertAction,
                RoutesDone, SkipTarget, OthersKeep
  <2> QED
    BY <1>1, <1>5, <2>1
<1> QED
  BY <1>2, <1>3, <1>4, <1>6, <1>7 DEF Next, OwnStep, Remediate

LEMMA InitIInv ==
  ASSUME Init
  PROVE  IInv
<1>1. TypeOK
  BY InitType
<1>2. DOMAIN log = {} /\ DOMAIN firings = {}
  BY DEF Init
<1>3. RunbookSpacing /\ BudgetHolds /\ CommandsAreProvoked
  BY <1>2 DEF RunbookSpacing, BudgetHolds, CommandsAreProvoked
<1>4. AlertSpacing /\ AdviceSpacing
  BY DEF Init, AlertSpacing, AdviceSpacing
<1>5. Remembered /\ FiringsAreActive
  BY <1>2 DEF Init, Remembered, FiringsAreActive
<1>6. InThePast
  BY <1>2 DEF Init, InThePast, Never
<1>7. ForgottenExpired
  BY <1>2 DEF Init, ForgottenExpired, Attempts
<1> QED
  BY <1>1, <1>3, <1>4, <1>5, <1>6, <1>7 DEF IInv

\* The inductive invariant of the alert pipeline holds in every state.
THEOREM Inductive == Spec => []IInv
<1>1. Init => IInv
  BY InitIInv
<1>2. IInv /\ [Next]_vars => IInv'
  BY NextKeepsIInv
<1> QED
  BY <1>1, <1>2, PTL DEF Spec

\* AlertManager.Evaluate: two alerts of one rule name for one server are never
\* closer than the cooldown.
THEOREM AlertsSpaced == Spec => []AlertSpacing
<1>1. IInv => AlertSpacing
  BY DEF IInv
<1> QED
  BY <1>1, Inductive, PTL

\* WatchdogManager.allow: the model is called about a server at most once per
\* cooldown.
THEOREM AdviceSpaced == Spec => []AdviceSpacing
<1>1. IInv => AdviceSpacing
  BY DEF IInv
<1> QED
  BY <1>1, Inductive, PTL

\* RemediationManager.allow: the executions of a runbook on a target keep its
\* cooldown.
THEOREM RunbooksSpaced == Spec => []RunbookSpacing
<1>1. IInv => RunbookSpacing
  BY DEF IInv
<1> QED
  BY <1>1, Inductive, PTL

\* RemediationManager.allow: no window holds more executions than the budget,
\* whatever has been forgotten meanwhile.
THEOREM BudgetKept == Spec => []BudgetHolds
<1>1. IInv => BudgetHolds
  BY DEF IInv
<1> QED
  BY <1>1, Inductive, PTL

\* runRemediations: every command answers an alert that was raised, was not
\* suppressed and that its runbook selects, by a runbook of mode alert.
THEOREM Provoked == Spec => []CommandsAreProvoked
<1>1. IInv => CommandsAreProvoked
  BY DEF IInv
<1> QED
  BY <1>1, Inductive, PTL

\* The state of the alert pipeline keeps its types.
THEOREM TypeCorrect == Spec => []TypeOK
<1>1. Init => TypeOK
  BY InitType
<1>2. TypeOK /\ [Next]_vars => TypeOK'
  BY NextType
<1> QED
  BY <1>1, <1>2, PTL DEF Spec

----------------------------------------------------------------------------
(* Delivery. *)

\* The routes are numbered from 1, and each settles its firings or not.
LEMMA RouteType ==
  /\ Len(Routes) \in Nat /\ RouteIds = 1..Len(Routes)
  /\ \A k \in RouteIds : Routes[k].continue \in BOOLEAN
<1> DEFINE R == [rules : SUBSET Names, servers : SUBSET Servers, continue : BOOLEAN]
<1>1. Routes \in Seq(R)
  BY AlertAssumption
<1>2. /\ Len(Routes) \in Nat /\ RouteIds = 1..Len(Routes)
      /\ \A k \in RouteIds : Routes[k] \in R
  <2> HIDE DEF R
  <2> QED BY <1>1, Indices DEF RouteIds
<1> QED
  BY <1>2

LEMMA InitDelivery == Init => DeliveryInv
<1> SUFFICES ASSUME Init PROVE DeliveryInv
  OBVIOUS
<1>1. \A k \in RouteIds : received[k] = {}
  BY DEF Init
<1> QED
  BY <1>1 DEF Init, DeliveryInv, FreshDelivery, SentSoFar, RoutesAsOrdered

\* Route k gets what no earlier route has settled, and that is what is meant
\* for it.
LEMMA SendRouteDelivery ==
  ASSUME TypeOK, DeliveryInv, SendRoute
  PROVE  DeliveryInv'
<1> DEFINE k == pos.route
           matched == {i \in DOMAIN firings \ handled : RouteApplies(k, firings[i])}
<1>1. /\ pc = "routes" /\ pc' = "routes" /\ firings' = firings
      /\ k \in RouteIds /\ k \in Nat /\ received \in [RouteIds -> SUBSET Nat]
      /\ received' = [received EXCEPT ![k] = matched]
      /\ handled' = IF Settles(k) THEN handled \cup matched ELSE handled
      /\ pos'.route = k + 1
  BY DEF SendRoute, Phase, TypeOK, Positions
<1>2. /\ \A j \in RouteIds : j < k => received[j] = MeantFor(j)
      /\ handled = {i \in DOMAIN firings :
                      \E j \in RouteIds :
                          j < k /\ RouteApplies(j, firings[i]) /\ Settles(j)}
  BY <1>1 DEF DeliveryInv, SentSoFar
<1>3. RouteIds = 1..Len(Routes) /\ Len(Routes) \in Nat
  BY RouteType
<1>4. matched = MeantFor(k)
  <2>1. ASSUME NEW i \in DOMAIN firings
        PROVE  i \notin handled <=>
                 \A j \in 1..(k - 1) : RouteApplies(j, firings[i]) => Routes[j].continue
    <3>1. i \in handled <=>
            \E j \in RouteIds : j < k /\ RouteApplies(j, firings[i]) /\ Settles(j)
      BY <1>2, <2>1
    <3>2. \A j : j \in 1..(k - 1) <=> j \in RouteIds /\ j < k
      BY <1>1, <1>3
    <3> QED
      BY <3>1, <3>2 DEF Settles
  <2> QED
    BY <2>1 DEF MeantFor
<1>5. \A j \in RouteIds : MeantFor(j)' = MeantFor(j)
  BY <1>1 DEF MeantFor, RouteApplies
<1>6. ASSUME NEW j \in RouteIds, j < k + 1
      PROVE  received'[j] = MeantFor(j)
  <2>1. CASE j = k
    BY <1>1, <1>4, <2>1
  <2>2. CASE j # k
    <3>1. j < k /\ received'[j] = received[j]
      BY <1>1, <1>3, <1>6, <2>2
    <3> QED
      BY <1>2, <3>1
  <2> QED
    BY <2>1, <2>2
<1>7. handled' = {i \in DOMAIN firings :
                    \E j \in RouteIds :
                        j < k + 1 /\ RouteApplies(j, firings[i]) /\ Settles(j)}
  <2>1. \A j \in RouteIds : j < k + 1 <=> j < k \/ j = k
    BY <1>1, <1>3
  <2> DEFINE H(n) == {i \in DOMAIN firings :
                        \E j \in RouteIds :
                            j < n /\ RouteApplies(j, firings[i]) /\ Settles(j)}
  <2>2. CASE Settles(k)
    <3>1. H(k + 1) = H(k) \cup {i \in DOMAIN firings : RouteApplies(k, firings[i])}
      BY <1>1, <2>1, <2>2
    <3>2. handled \cup matched
            = handled \cup {i \in DOMAIN firings : RouteApplies(k, firings[i])}
      OBVIOUS
    <3> QED
      BY <1>1, <1>2, <2>2, <3>1, <3>2
  <2>3. CASE ~Settles(k)
    <3>1. H(k + 1) = H(k)
      BY <1>1, <2>1, <2>3
    <3> QED
      BY <1>1, <1>2, <2>3, <3>1
  <2> QED
    BY <2>2, <2>3
<1>8. SentSoFar'
  BY <1>1, <1>5, <1>6, <1>7 DEF SentSoFar, RouteApplies, Settles
<1> QED
  BY <1>1, <1>8 DEF DeliveryInv, FreshDelivery, RoutesAsOrdered

LEMMA NextDelivery ==
  ASSUME TypeOK, DeliveryInv, [Next]_vars
  PROVE  DeliveryInv'
<1> USE DEF DeliveryInv
<1>1. CASE SendRoute
  BY <1>1, SendRouteDelivery
<1>2. CASE Publish
  <2>1. pc' = "idle" /\ firings' = <<>> /\ handled' = {} /\ \A k \in RouteIds : received'[k] = {}
    BY <1>2 DEF Publish, Phase
  <2> QED
    BY <2>1 DEF FreshDelivery, SentSoFar, RoutesAsOrdered, RouteIds
<1>3. CASE Collect
  BY <1>3 DEF Collect, FreshDelivery, SentSoFar, RoutesAsOrdered, RouteIds
<1>4. CASE Evaluate
  <2> DEFINE active == {f \in Fired : ~Suppressed(f)}
  <2>1. /\ pc = "evaluate" /\ UNCHANGED <<pos, handled, received>>
        /\ pc' = IF active = {} THEN "publish" ELSE "watchdog"
    BY <1>4 DEF Evaluate
  <2>2. handled = {} /\ \A k \in RouteIds : received[k] = {}
    BY <2>1 DEF FreshDelivery
  <2>3. active = {} => DOMAIN firings' = {}
    <3>1. \A i \in DOMAIN firings' : firings'[i] \in active
      BY <1>4, ActiveFirings
    <3> QED
      BY <3>1
  <2>4. RoutesAsOrdered'
    BY <2>1, <2>2, <2>3 DEF RoutesAsOrdered, MeantFor, RouteIds
  <2> QED
    BY <2>1, <2>2, <2>4 DEF FreshDelivery, SentSoFar, RouteIds
<1>5. CASE RemediationDone
  <2>1. pc = "remediate" /\ pc' = "email" /\ pos'.route = 1 /\ UNCHANGED <<handled, received>>
    BY <1>5 DEF RemediationDone, Phase, OthersKeep, Start
  <2> QED
    BY <2>1 DEF FreshDelivery, SentSoFar, RoutesAsOrdered, RouteIds
<1>6. CASE Email
  BY <1>6 DEF Email, Phase, OthersKeep, FreshDelivery, SentSoFar, RoutesAsOrdered, RouteIds
<1>7. CASE AlertAction
  <2>1. /\ pc = "action" /\ pc' = "routes" /\ pos' = pos /\ pos.route = 1
        /\ UNCHANGED <<firings, handled, received>> /\ handled = {}
    BY <1>7 DEF AlertAction, Phase, OthersKeep, FreshDelivery
  <2>2. \A j \in RouteIds : ~(j < 1)
    BY RouteType
  <2> QED
    BY <2>1, <2>2 DEF FreshDelivery, SentSoFar, RoutesAsOrdered, RouteIds
<1>8. CASE RoutesDone
  <2>1. /\ pc = "routes" /\ pc' = "publish" /\ pos.route \notin RouteIds
        /\ UNCHANGED <<firings, handled, received>>
    BY <1>8 DEF RoutesDone, Phase, OthersKeep
  <2>2. \A k \in RouteIds : k < pos.route
    BY <2>1, RouteType DEF TypeOK, Positions
  <2>3. \A k \in RouteIds : received[k] = MeantFor(k)
    BY <2>1, <2>2 DEF SentSoFar
  <2>4. RoutesAsOrdered'
    BY <2>1, <2>3 DEF RoutesAsOrdered, MeantFor, RouteApplies, RouteIds
  <2> QED
    BY <2>1, <2>4 DEF FreshDelivery, SentSoFar
<1>9. ASSUME UNCHANGED <<handled, received>>,
             pc \in {"watchdog", "model", "remediate", "command"},
             pc' \in {"watchdog", "model", "remediate", "command"}
      PROVE  DeliveryInv'
  BY <1>9 DEF FreshDelivery, SentSoFar, RoutesAsOrdered, RouteIds
<1>10. CASE \/ AskModel \/ ModelAnswers \/ AdviceSkipped \/ WatchdogDone
            \/ CommandReturns \/ NextRunbook \/ NextFiring
            \/ \E t \in Servers : TryTarget(t) \/ SkipTarget(t) \/ OverBudget(t)
  BY <1>9, <1>10
     DEF AskModel, ModelAnswers, AdviceSkipped, WatchdogDone, CommandReturns, NextRunbook,
         NextFiring, TryTarget, SkipTarget, OverBudget, AtTarget, Remediating, Phase,
         OthersKeep
<1>11. CASE Advance \/ UNCHANGED vars
  <2>1. UNCHANGED <<pc, firings, pos, handled, received>>
    BY <1>11 DEF Advance, vars
  <2> QED
    BY <2>1 DEF FreshDelivery, SentSoFar, RoutesAsOrdered, MeantFor, RouteApplies, Settles,
                RouteIds
<1> QED
  BY <1>1, <1>2, <1>3, <1>4, <1>5, <1>6, <1>7, <1>8, <1>10, <1>11
     DEF Next, OwnStep, Remediate

\* SendAlertRoutes: when the cycle is published every route has got exactly
\* the firings that are meant for it: those it selects and no earlier route
\* without "continue" has settled.
THEOREM RoutesInOrder == Spec => []RoutesAsOrdered
<1>1. DeliveryInv => RoutesAsOrdered
  BY DEF DeliveryInv
<1>2. Spec => []DeliveryInv
  BY InitDelivery, NextDelivery, TypeCorrect, PTL DEF Spec
<1> QED
  BY <1>1, <1>2, PTL
=============================================================================
