--------------------------- MODULE JobManagerProofs --------------------------
(***************************************************************************)
(* Theorems about JobManager for every set of jobs, schedule, clock bound  *)
(* and tick rate, checked by TLAPS.  The argument is IInv, preserved by    *)
(* every step; most steps of a run only reshape its own record, and one    *)
(* lemma serves them all.                                                  *)
(***************************************************************************)
EXTENDS JobManager, FiniteSetTheorems, SequenceTheorems, TLAPS

\* A tick count divided by the ticks of a minute is a minute, in order.
LEMMA MinuteType ==
  ASSUME NEW a \in Nat
  PROVE  Minute(a) \in Nat
BY ClockAssumption DEF Minute

LEMMA MinuteMonotone ==
  ASSUME NEW a \in Nat, NEW b \in Nat, a <= b
  PROVE  Minute(a) <= Minute(b)
BY ClockAssumption DEF Minute

LEMMA EarlierMinute ==
  ASSUME NEW a \in Nat, NEW b \in Nat, Minute(a) < Minute(b)
  PROVE  a < b
BY ClockAssumption DEF Minute

\* What lastRun.Before(now.Truncate(time.Minute)) says of the two minutes.
LEMMA BeforeMinuteStart ==
  ASSUME NEW a \in Nat, NEW b \in Nat, a < MinuteStart(b)
  PROVE  Minute(a) < Minute(b)
BY ClockAssumption DEF Minute, MinuteStart

----------------------------------------------------------------------------
(* Types. *)

\* The runs are a sequence of run records, numbered from 1.
LEMMA RunsSequence ==
  ASSUME TypeOK
  PROVE  /\ Len(runs) \in Nat
         /\ RunIds = 1..Len(runs)
         /\ \A i \in RunIds : runs[i] \in Run
BY LenProperties, ElementOfSeq DEF TypeOK, RunIds

\* Replacing the record of one run leaves the numbering and the others alone.
LEMMA ReplaceRun ==
  ASSUME TypeOK, NEW i \in RunIds, NEW r \in Run,
         runs' = [runs EXCEPT ![i] = r]
  PROVE  /\ runs' \in Seq(Run)
         /\ RunIds' = RunIds
         /\ Len(runs') = Len(runs)
         /\ runs'[i] = r
         /\ \A k \in RunIds : k # i => runs'[k] = runs[k]
<1>1. runs \in Seq(Run) /\ i \in 1..Len(runs) /\ RunIds = 1..Len(runs)
  BY RunsSequence DEF TypeOK
<1>2. /\ runs' \in Seq(Run) /\ Len(runs') = Len(runs)
      /\ \A k \in 1..Len(runs) : runs'[k] = IF k = i THEN r ELSE runs[k]
  BY <1>1, ExceptSeq
<1>3. RunIds' = 1..Len(runs')
  BY <1>2, LenProperties DEF RunIds
<1> QED
  BY <1>1, <1>2, <1>3

\* Starting a run appends a record.
LEMMA AppendRun ==
  ASSUME TypeOK, NEW r \in Run, runs' = Append(runs, r)
  PROVE  /\ runs' \in Seq(Run)
         /\ RunIds' = RunIds \cup {Len(runs) + 1}
         /\ Len(runs) + 1 \notin RunIds
         /\ Len(runs') = Len(runs) + 1
         /\ runs'[Len(runs) + 1] = r
         /\ \A k \in RunIds : runs'[k] = runs[k]
<1>1. runs \in Seq(Run) /\ Len(runs) \in Nat /\ RunIds = 1..Len(runs)
  BY RunsSequence DEF TypeOK
<1>2. /\ runs' \in Seq(Run) /\ Len(runs') = Len(runs) + 1
      /\ \A k \in 1..Len(runs) : runs'[k] = runs[k]
      /\ runs'[Len(runs) + 1] = r
  BY <1>1, AppendProperties
<1>3. RunIds' = 1..Len(runs')
  BY <1>2, LenProperties DEF RunIds
<1> QED
  BY <1>1, <1>2, <1>3

\* The bounded history stays a sequence of run numbers, either way round.
LEMMA KeepType ==
  ASSUME NEW s \in Seq(Nat)
  PROVE  Keep(s) \in Seq(Nat) /\ Reverse(Keep(s)) \in Seq(Nat)
<1>1. \A t \in Seq(Nat) : Reverse(t) \in Seq(Nat)
  <2> SUFFICES ASSUME NEW t \in Seq(Nat) PROVE Reverse(t) \in Seq(Nat)
    OBVIOUS
  <2>1. Len(t) \in Nat /\ \A i \in 1..Len(t) : t[(Len(t) - i) + 1] \in Nat
    BY LenProperties, ElementOfSeq
  <2> QED
    BY <2>1, IsASeq DEF Reverse
<1>2. Keep(s) \in Seq(Nat)
  <2>1. Len(s) \in Nat /\ \A i \in 1..Len(s) : s[i] \in Nat
    BY LenProperties, ElementOfSeq
  <2>2. CASE Len(s) > ResultCap
    <3>1. \A i \in (Len(s) - ResultCap + 1)..Len(s) : s[i] \in Nat
      BY <2>1, <2>2, ClockAssumption
    <3>2. SubSeq(s, Len(s) - ResultCap + 1, Len(s)) \in Seq(Nat)
      BY <2>1, <3>1, SubSeqProperties, ClockAssumption
    <3> QED
      BY <2>2, <3>2 DEF Keep
  <2>3. CASE ~(Len(s) > ResultCap)
    BY <2>3 DEF Keep
  <2> QED
    BY <2>2, <2>3
<1> QED
  BY <1>1, <1>2

\* What a step of run i other than finished() and wg.Done() does: it gives the
\* run's record new progress, not a new job, scan time, liveness or place in
\* the wait group.
Reshaped(i) ==
    \E r \in Run :
        /\ runs' = [runs EXCEPT ![i] = r]
        /\ r.job = runs[i].job /\ r.at = runs[i].at
        /\ r.at <= r.finishedAt
        /\ Live(runs[i]) /\ Live(r)

\* The steps of a run that only reshape its record.
InnerStep(i) ==
    \/ RunBegin(i) \/ CommandReturns(i) \/ DialReturns(i)
    \/ HandshakeReturns(i) \/ TransferReturns(i) \/ Record(i) \/ Notify(i)

LEMMA InnerStepReshapes ==
  ASSUME TypeOK, InTime, NEW i \in 1..MaxRuns, InnerStep(i)
  PROVE  /\ i \in RunIds /\ Reshaped(i)
         /\ results' \in Seq(Nat) /\ page' \in Seq(Nat)
         /\ UNCHANGED <<lastRun, running, wg>>
         /\ OthersKeep
<1> USE DEF OthersKeep, At
<1>0. i \in RunIds
  BY DEF InnerStep, RunBegin, CommandReturns, DialReturns, HandshakeReturns,
         TransferReturns, Record, Notify
<1>1. /\ runs[i] \in Run /\ i \in Nat
      /\ runs[i].at <= clock /\ runs[i].at <= runs[i].finishedAt
      /\ clock \in Nat /\ results \in Seq(Nat) /\ page \in Seq(Nat)
  BY <1>0, RunsSequence DEF TypeOK, InTime
<1>2. /\ runs[i].job \in Jobs /\ Uploads[runs[i].job] \in Nat
      /\ runs[i].snapshot \in Seq(Nat) /\ runs[i].sent \in Nat
      /\ runs[i].finishedAt \in Nat /\ runs[i].at \in Nat
      /\ runs[i].pc \in RunSteps
  BY <1>1, JobsAssumption DEF Run
<1>3. CASE RunBegin(i)
  <2> DEFINE r == [runs[i] EXCEPT !.finishedAt = clock,
                                  !.pc = IF runs[i].job \in HasCommand
                                         THEN "command" ELSE "dial"]
  <2>1. r \in Run /\ runs' = [runs EXCEPT ![i] = r]
    BY <1>0, <1>1, <1>2, <1>3 DEF RunBegin, Run, RunSteps
  <2>2. /\ r.job = runs[i].job /\ r.at = runs[i].at
        /\ r.at <= r.finishedAt
        /\ Live(r) /\ Live(runs[i])
    BY <1>1, <1>2, <1>3 DEF Live, RunBegin, Run
  <2> QED
    BY <1>0, <1>1, <1>3, <2>1, <2>2 DEF Reshaped, RunBegin
<1> DEFINE Progress(pc, sent) == [runs[i] EXCEPT !.sent = sent, !.pc = pc]
<1>4. ASSUME Live(runs[i]), NEW sent \in Nat,
             NEW pc \in RunSteps \ {"release", "done"},
             runs' = [runs EXCEPT ![i] = Progress(pc, sent)]
      PROVE  Reshaped(i)
  <2>1. Progress(pc, sent) \in Run
    BY <1>1, <1>2, <1>4 DEF Run
  <2>2. /\ Progress(pc, sent).job = runs[i].job
        /\ Progress(pc, sent).at = runs[i].at
        /\ Progress(pc, sent).finishedAt = runs[i].finishedAt
        /\ Live(Progress(pc, sent))
    BY <1>1, <1>4 DEF Live, Run
  <2> QED
    BY <1>1, <1>4, <2>1, <2>2 DEF Reshaped
<1>5. ASSUME Live(runs[i]), NEW sent \in Nat, Proceed(i, sent)
      PROVE  Reshaped(i)
  <2> DEFINE next == IF sent < Uploads[runs[i].job] THEN "dial" ELSE "record"
  <2>1. runs' = [runs EXCEPT ![i] = Progress(next, sent)]
    BY <1>0, <1>1, <1>5 DEF Proceed, Run
  <2>2. next \in RunSteps \ {"release", "done"}
    BY DEF RunSteps
  <2> HIDE DEF next
  <2> QED
    BY <1>4, <1>5, <2>1, <2>2
<1>6. ASSUME Live(runs[i]), NEW pc \in RunSteps \ {"release", "done"}, Goto(i, pc)
      PROVE  Reshaped(i)
  <2>1. runs' = [runs EXCEPT ![i] = Progress(pc, runs[i].sent)]
    BY <1>0, <1>1, <1>6 DEF Goto, Run
  <2> QED
    BY <1>2, <1>4, <1>6, <2>1
<1>7. CASE CommandReturns(i)
  BY <1>0, <1>1, <1>5, <1>6, <1>7 DEF CommandReturns, Fail, Live, RunSteps
<1>8. CASE DialReturns(i)
  BY <1>0, <1>1, <1>6, <1>8 DEF DialReturns, Fail, Live, RunSteps
<1>9. CASE HandshakeReturns(i)
  BY <1>0, <1>1, <1>6, <1>9 DEF HandshakeReturns, Fail, Live, RunSteps
<1>10. CASE TransferReturns(i)
  BY <1>0, <1>1, <1>2, <1>5, <1>6, <1>10
     DEF TransferReturns, Fail, Live, RunSteps
<1>11. CASE Record(i)
  <2> DEFINE kept == Keep(Append(results, i))
             r == [runs[i] EXCEPT !.pc = "notify", !.snapshot = Reverse(kept)]
  <2>1. kept \in Seq(Nat) /\ Reverse(kept) \in Seq(Nat)
    BY <1>1, KeepType, AppendProperties
  <2>2. r \in Run /\ runs' = [runs EXCEPT ![i] = r]
    BY <1>0, <1>1, <1>2, <1>11, <2>1 DEF Record, Run, RunSteps
  <2>3. /\ r.job = runs[i].job /\ r.at = runs[i].at
        /\ r.at <= r.finishedAt
        /\ Live(r) /\ Live(runs[i])
    BY <1>1, <1>11 DEF Live, Record, Run
  <2> QED
    BY <1>0, <1>1, <1>11, <2>1, <2>2, <2>3 DEF Reshaped, Record
<1>12. CASE Notify(i)
  <2> DEFINE r == [runs[i] EXCEPT !.pc = "finish", !.snapshot = <<>>]
  <2>1. r \in Run /\ runs' = [runs EXCEPT ![i] = r]
    BY <1>0, <1>1, <1>2, <1>12, EmptySeq DEF Notify, Run, RunSteps
  <2>2. /\ r.job = runs[i].job /\ r.at = runs[i].at
        /\ r.at <= r.finishedAt
        /\ Live(r) /\ Live(runs[i])
    BY <1>1, <1>12 DEF Live, Notify, Run
  <2> QED
    BY <1>0, <1>1, <1>2, <1>12, <2>1, <2>2 DEF Reshaped, Notify
<1> QED
  BY <1>0, <1>1, <1>3, <1>7, <1>8, <1>9, <1>10, <1>11, <1>12
     DEF InnerStep, CommandReturns, DialReturns, HandshakeReturns,
         TransferReturns

\* The scan's cursor moves on to the next job.
LEMMA CursorType ==
  ASSUME TypeOK, loop.next \in Jobs, loop' = [loop EXCEPT !.next = @ + 1]
  PROVE  /\ loop' \in [pc : {"unborn", "idle", "scan", "exited"}, now : Nat,
                       next : 1..(NumJobs + 1)]
         /\ loop'.now = loop.now
<1>1. loop.next + 1 \in 1..(NumJobs + 1)
  BY JobsAssumption DEF Jobs
<1>2. loop \in [pc : {"unborn", "idle", "scan", "exited"}, now : Nat,
                next : 1..(NumJobs + 1)]
  BY DEF TypeOK
<1>3. loop' = [pc |-> loop.pc, now |-> loop.now, next |-> loop.next + 1]
  BY <1>2
<1> QED
  BY <1>1, <1>2, <1>3

----------------------------------------------------------------------------
(* IInv is inductive: the initial state, then one lemma per kind of step. *)

LEMMA InitIInv == Init => IInv
<1> SUFFICES ASSUME Init PROVE IInv
  OBVIOUS
<1>1. RunIds = {} /\ runs \in Seq(Run)
  BY EmptySeq DEF Init, RunIds
<1>2. TypeOK
  <2>1. loop \in [pc : {"unborn", "idle", "scan", "exited"}, now : Nat,
                  next : 1..(NumJobs + 1)]
    BY JobsAssumption DEF Init
  <2>2. lastRun \in [Jobs -> Nat \cup {Never}]
    BY DEF Init
  <2> QED
    BY <1>1, <2>1, <2>2, EmptySeq DEF Init, TypeOK, StopSteps
<1>3. WaitGroupCounts
  BY <1>1, FS_EmptySet DEF Init, WaitGroupCounts
<1> QED
  BY <1>1, <1>2, <1>3, ClockAssumption
     DEF Init, IInv, InTime, MarkIsLive, LiveIsLatest, LastRunCovers,
         OncePerMinute, DrainedIsEmpty

LEMMA InnerStepIInv ==
  ASSUME IInv, NEW i \in 1..MaxRuns, InnerStep(i)
  PROVE  IInv'
<1> USE DEF IInv
<1>1. /\ i \in RunIds /\ Reshaped(i)
      /\ results' \in Seq(Nat) /\ page' \in Seq(Nat)
      /\ UNCHANGED <<lastRun, running, wg>>
      /\ UNCHANGED <<clock, polled, loop, blocked, stop>>
  BY InnerStepReshapes DEF OthersKeep
<1>2. ended' = ended
  BY DEF InnerStep, RunBegin, CommandReturns, DialReturns, HandshakeReturns,
         TransferReturns, Record, Notify
<1>3. PICK r \in Run :
        /\ runs' = [runs EXCEPT ![i] = r]
        /\ r.job = runs[i].job /\ r.at = runs[i].at
        /\ r.at <= r.finishedAt
        /\ Live(runs[i]) /\ Live(r)
  BY <1>1 DEF Reshaped
<1>4. /\ runs' \in Seq(Run) /\ RunIds' = RunIds
      /\ runs'[i] = r
      /\ \A k \in RunIds : k # i => runs'[k] = runs[k]
  BY <1>1, <1>3, ReplaceRun
<1>5. \A k \in RunIds : /\ runs'[k].job = runs[k].job
                        /\ runs'[k].at = runs[k].at
                        /\ Live(runs'[k]) = Live(runs[k])
                        /\ (runs'[k].pc # "done") = (runs[k].pc # "done")
  BY <1>3, <1>4 DEF Live
<1>6. TypeOK'
  BY <1>1, <1>2, <1>4 DEF TypeOK
<1>7. InTime'
  BY <1>1, <1>3, <1>4 DEF InTime
<1>8. MarkIsLive'
  <2>1. ASSUME NEW j \in Jobs
        PROVE  (\E k \in RunIds : runs[k].job = j /\ Live(runs[k]))
                 <=> (\E k \in RunIds' : runs'[k].job = j /\ Live(runs'[k]))
    BY <1>4, <1>5
  <2>2. Jobs' = Jobs /\ running' = running
    BY <1>1 DEF Jobs
  <2> QED
    BY <2>1, <2>2 DEF MarkIsLive, Live
<1>9. LiveIsLatest' /\ LastRunCovers' /\ OncePerMinute'
  BY <1>1, <1>4, <1>5 DEF LiveIsLatest, LastRunCovers, OncePerMinute, Minute
<1>10. WaitGroupCounts'
  <2>1. {k \in RunIds : runs[k].pc # "done"}
          = {k \in RunIds' : runs'[k].pc # "done"}
    BY <1>4, <1>5
  <2> QED
    BY <1>1, <2>1 DEF WaitGroupCounts
<1>11. DrainedIsEmpty'
  BY <1>1 DEF DrainedIsEmpty
<1> QED
  BY <1>6, <1>7, <1>8, <1>9, <1>10, <1>11

\* finished(): the run stops being live, and its job loses its mark.
LEMMA FinishIInv ==
  ASSUME IInv, NEW i \in 1..MaxRuns, Finish(i)
  PROVE  IInv'
<1> USE DEF IInv
<1> DEFINE r == [runs[i] EXCEPT !.pc = "release"]
<1>1. /\ i \in RunIds /\ runs[i].pc = "finish" /\ runs[i] \in Run
      /\ UNCHANGED <<wg, results, page, clock, polled, loop, blocked, stop>>
  BY RunsSequence DEF Finish, At, OthersKeep
<1>2. r \in Run /\ runs' = [runs EXCEPT ![i] = r] /\ Live(runs[i]) /\ ~Live(r)
  BY <1>1 DEF Finish, Goto, Run, RunSteps, Live
<1> HIDE DEF r
<1>3. /\ runs' \in Seq(Run) /\ RunIds' = RunIds /\ runs'[i] = r
      /\ \A k \in RunIds : k # i => runs'[k] = runs[k]
  BY <1>1, <1>2, ReplaceRun
<1>4. /\ r.job = runs[i].job /\ r.at = runs[i].at /\ r.pc = "release"
      /\ r.finishedAt = runs[i].finishedAt
      /\ r.job \in Jobs /\ r.at \in Nat /\ r.finishedAt \in Nat
  BY <1>1 DEF r, Run
<1>5. /\ running' = running \ {runs[i].job}
      /\ lastRun' = [lastRun EXCEPT ![runs[i].job] = runs[i].finishedAt]
      /\ ended' = ended \cup {runs[i].job}
  BY DEF Finish
<1>6. TypeOK'
  BY <1>1, <1>3, <1>4, <1>5 DEF TypeOK
<1>7. InTime'
  BY <1>1, <1>3, <1>4 DEF InTime
<1>8. \A k \in RunIds : k # i /\ runs[k].job = runs[i].job => ~Live(runs[k])
  BY <1>1, <1>2, RunsSequence DEF LiveIsLatest
<1>9. MarkIsLive'
  BY <1>1, <1>2, <1>3, <1>4, <1>5, <1>8 DEF MarkIsLive
<1>10. LiveIsLatest'
  BY <1>2, <1>3, <1>4 DEF LiveIsLatest
<1>11. OncePerMinute'
  BY <1>3, <1>4 DEF OncePerMinute, Minute
<1>12. LastRunCovers'
  <2> SUFFICES ASSUME NEW k \in RunIds', ~Live(runs'[k])
               PROVE  runs'[k].at <= lastRun'[runs'[k].job]
    BY DEF LastRunCovers
  <2>1. CASE k = i
    BY <1>1, <1>3, <1>4, <1>5, <2>1 DEF InTime, TypeOK
  <2>2. CASE k # i /\ runs[k].job = runs[i].job
    <3>1. k < i /\ runs[k] \in Run
      BY <1>1, <1>2, <1>3, <2>2, RunsSequence DEF LiveIsLatest
    <3>2. Minute(runs[k].at) < Minute(runs[i].at)
      BY <1>1, <1>3, <2>2, <3>1 DEF OncePerMinute
    <3>3. runs[k].at < runs[i].at
      BY <1>1, <3>1, <3>2, EarlierMinute DEF Run
    <3>4. runs[i].at <= runs[i].finishedAt
      BY <1>1 DEF InTime
    <3>5. runs[k].at \in Nat /\ runs[i].at \in Nat /\ runs[i].finishedAt \in Nat
      BY <1>1, <3>1 DEF Run
    <3>6. runs'[k] = runs[k] /\ lastRun'[runs[i].job] = runs[i].finishedAt
      BY <1>3, <1>4, <1>5, <2>2 DEF TypeOK
    <3> QED
      BY <2>2, <3>3, <3>4, <3>5, <3>6
  <2>3. CASE runs[k].job # runs[i].job
    <3>1. k # i /\ k \in RunIds /\ runs'[k] = runs[k]
      BY <1>3, <2>3
    <3>2. lastRun'[runs[k].job] = lastRun[runs[k].job]
      <4>1. runs[k].job \in Jobs
        BY <3>1, RunsSequence DEF Run
      <4> QED
        BY <1>5, <2>3, <4>1 DEF TypeOK
    <3> QED
      BY <3>1, <3>2 DEF LastRunCovers
  <2> QED
    BY <2>1, <2>2, <2>3
<1>13. WaitGroupCounts'
  <2>1. {k \in RunIds : runs[k].pc # "done"}
          = {k \in RunIds' : runs'[k].pc # "done"}
    BY <1>1, <1>3, <1>4
  <2> QED
    BY <1>1, <2>1 DEF WaitGroupCounts
<1>14. DrainedIsEmpty'
  BY <1>1 DEF DrainedIsEmpty
<1> QED
  BY <1>6, <1>7, <1>9, <1>10, <1>11, <1>12, <1>13, <1>14

\* wg.Done(): one goroutine fewer, one count fewer.
LEMMA ReleaseIInv ==
  ASSUME IInv, NEW i \in 1..MaxRuns, Release(i)
  PROVE  IInv'
<1> USE DEF IInv
<1> DEFINE r == [runs[i] EXCEPT !.pc = "done"]
           Pending == {k \in RunIds : runs[k].pc # "done"}
<1>1. /\ i \in RunIds /\ runs[i].pc = "release" /\ runs[i] \in Run
      /\ UNCHANGED <<running, lastRun, ended, results, page>>
      /\ UNCHANGED <<clock, polled, loop, blocked, stop>>
      /\ wg' = wg - 1
  BY RunsSequence DEF Release, At, OthersKeep
<1>2. r \in Run /\ runs' = [runs EXCEPT ![i] = r]
  BY <1>1 DEF Release, Goto, Run, RunSteps
<1>3. /\ r.job = runs[i].job /\ r.at = runs[i].at /\ r.pc = "done"
      /\ r.finishedAt = runs[i].finishedAt /\ Live(r) = Live(runs[i])
  BY <1>1 DEF Run, Live
<1> HIDE DEF r
<1>4. /\ runs' \in Seq(Run) /\ RunIds' = RunIds /\ runs'[i] = r
      /\ \A k \in RunIds : k # i => runs'[k] = runs[k]
  BY <1>1, <1>2, ReplaceRun
<1>5. \A k \in RunIds : /\ runs'[k].job = runs[k].job
                        /\ runs'[k].at = runs[k].at
                        /\ Live(runs'[k]) = Live(runs[k])
                        /\ runs'[k].finishedAt = runs[k].finishedAt
  BY <1>3, <1>4
<1>6. IsFiniteSet(Pending) /\ i \in Pending
  <2>1. IsFiniteSet(1..Len(runs)) /\ Pending \subseteq 1..Len(runs)
    BY RunsSequence, FS_Interval
  <2> QED
    BY <1>1, <2>1, FS_Subset
<1>7. Pending \ {i} = {k \in RunIds' : runs'[k].pc # "done"}
  BY <1>1, <1>3, <1>4
<1>8. Cardinality(Pending \ {i}) = Cardinality(Pending) - 1
  BY <1>6, FS_RemoveElement
<1>9. wg = Cardinality(Pending) /\ Cardinality(Pending \ {i}) \in Nat
  BY <1>6, FS_RemoveElement, FS_CardinalityType DEF WaitGroupCounts
<1>10. WaitGroupCounts' /\ wg' \in Nat
  BY <1>1, <1>7, <1>8, <1>9 DEF WaitGroupCounts
<1>11. TypeOK'
  BY <1>1, <1>4, <1>10 DEF TypeOK
<1>12. InTime' /\ MarkIsLive'
  BY <1>1, <1>4, <1>5 DEF InTime, MarkIsLive
<1>13. LiveIsLatest' /\ LastRunCovers' /\ OncePerMinute'
  BY <1>1, <1>4, <1>5 DEF LiveIsLatest, LastRunCovers, OncePerMinute, Minute
<1>14. DrainedIsEmpty'
  BY <1>1, <1>8, <1>9 DEF DrainedIsEmpty, TypeOK
<1> QED
  BY <1>10, <1>11, <1>12, <1>13, <1>14

\* startDue TRUE: the new run is the only live one of its job, and in a later
\* minute than every earlier one, because lastRun covers them.
LEMMA StartDueFacts ==
  ASSUME IInv, StartDue
  PROVE  /\ loop.next \in Jobs /\ loop.now \in Nat
         /\ NewRun(loop.next, loop.now) \in Run
         /\ \A k \in RunIds : runs[k].job = loop.next =>
              /\ ~Live(runs[k])
              /\ Minute(runs[k].at) < Minute(loop.now)
<1> USE DEF IInv
<1> DEFINE j == loop.next
<1>1. j \in Jobs /\ loop.now \in Nat
  BY JobsAssumption DEF StartDue, TypeOK
<1>2. NewRun(j, loop.now) \in Run
  BY <1>1, EmptySeq DEF NewRun, Run, RunSteps
<1>3. ASSUME NEW k \in RunIds, runs[k].job = j
      PROVE  ~Live(runs[k]) /\ Minute(runs[k].at) < Minute(loop.now)
  <2>1. ~Live(runs[k])
    BY <1>1, <1>3 DEF StartDue, MayStart, MarkIsLive
  <2>2. runs[k].at \in Nat /\ runs[k].at <= lastRun[j]
    BY <1>3, <2>1, RunsSequence DEF LastRunCovers, Run
  <2>3. lastRun[j] \in Nat \cup {Never}
    BY <1>1 DEF TypeOK
  <2>4. lastRun[j] \in Nat /\ lastRun[j] # Never
    BY <2>2, <2>3 DEF Never
  <2>5. lastRun[j] < MinuteStart(loop.now)
    BY <2>4 DEF StartDue, MayStart
  <2>6. Minute(lastRun[j]) < Minute(loop.now)
    BY <1>1, <2>4, <2>5, BeforeMinuteStart
  <2>7. Minute(runs[k].at) <= Minute(lastRun[j])
    BY <2>2, <2>4, MinuteMonotone
  <2> QED
    BY <1>1, <2>1, <2>2, <2>4, <2>6, <2>7, MinuteType
<1> QED
  BY <1>1, <1>2, <1>3

LEMMA StartDueIInv ==
  ASSUME IInv, StartDue
  PROVE  IInv'
<1> USE DEF IInv
<1> DEFINE j == loop.next
           new == Len(runs) + 1
           r == NewRun(j, loop.now)
           Pending == {k \in RunIds : runs[k].pc # "done"}
<1>1. /\ j \in Jobs /\ loop.now \in Nat /\ r \in Run
      /\ \A k \in RunIds : runs[k].job = j =>
           ~Live(runs[k]) /\ Minute(runs[k].at) < Minute(loop.now)
  BY StartDueFacts
<1>2. /\ running' = running \cup {j} /\ wg' = wg + 1
      /\ runs' = Append(runs, r)
      /\ loop' = [loop EXCEPT !.next = @ + 1]
      /\ UNCHANGED <<clock, polled, lastRun, blocked, ended, results, page, stop>>
      /\ ~Stopped
  BY DEF StartDue, MayStart
<1>3. /\ r.job = j /\ r.at = loop.now /\ r.finishedAt = loop.now
      /\ r.pc = "spawned" /\ Live(r)
  BY DEF NewRun, Live
<1> HIDE DEF r
<1>4. /\ runs' \in Seq(Run) /\ RunIds' = RunIds \cup {new}
      /\ new \notin RunIds /\ runs'[new] = r
      /\ \A k \in RunIds : runs'[k] = runs[k]
      /\ \A k \in RunIds : k < new
  BY <1>1, <1>2, AppendRun, RunsSequence
<1> HIDE DEF new
<1>5. loop' \in [pc : {"unborn", "idle", "scan", "exited"}, now : Nat,
                 next : 1..(NumJobs + 1)]
  BY <1>1, <1>2, CursorType
<1>6. TypeOK'
  BY <1>1, <1>2, <1>4, <1>5 DEF TypeOK
<1>7. InTime'
  <2>1. loop'.now = loop.now /\ clock' = clock
    BY <1>1, <1>2, CursorType
  <2>2. ASSUME NEW k \in RunIds'
        PROVE  runs'[k].at <= clock /\ runs'[k].at <= runs'[k].finishedAt
    <3>1. CASE k = new
      BY <1>1, <1>3, <1>4, <3>1 DEF InTime
    <3>2. CASE k \in RunIds
      BY <1>4, <3>2 DEF InTime
    <3> QED
      BY <1>4, <3>1, <3>2
  <2> QED
    BY <2>1, <2>2 DEF InTime
<1>8. MarkIsLive'
  <2> SUFFICES ASSUME NEW jj \in Jobs
               PROVE  jj \in running' <=>
                        \E k \in RunIds' : runs'[k].job = jj /\ Live(runs'[k])
    BY DEF MarkIsLive, Live, Jobs
  <2>1. CASE jj = j
    BY <1>2, <1>3, <1>4, <2>1
  <2>2. CASE jj # j
    <3>1. jj \in running' <=> jj \in running
      BY <1>2, <2>2
    <3>2. (\E k \in RunIds' : runs'[k].job = jj /\ Live(runs'[k]))
            <=> (\E k \in RunIds : runs[k].job = jj /\ Live(runs[k]))
      BY <1>3, <1>4, <2>2
    <3> QED
      BY <3>1, <3>2 DEF MarkIsLive
  <2> QED
    BY <2>1, <2>2
<1>9. LiveIsLatest'
  <2> SUFFICES ASSUME NEW a \in RunIds', NEW b \in RunIds',
                      Live(runs'[a]), runs'[b].job = runs'[a].job
               PROVE  b <= a
    BY DEF LiveIsLatest
  <2>1. CASE a = new
    BY <1>4, <2>1, RunsSequence DEF new
  <2>2. CASE a \in RunIds /\ b = new
    BY <1>1, <1>3, <1>4, <2>2
  <2>3. CASE a \in RunIds /\ b \in RunIds
    BY <1>4, <2>3 DEF LiveIsLatest
  <2> QED
    BY <1>4, <2>1, <2>2, <2>3
<1>10. LastRunCovers'
  BY <1>2, <1>3, <1>4 DEF LastRunCovers
<1>11. OncePerMinute'
  <2> SUFFICES ASSUME NEW a \in RunIds', NEW b \in RunIds',
                      a < b, runs'[a].job = runs'[b].job
               PROVE  Minute(runs'[a].at) < Minute(runs'[b].at)
    BY DEF OncePerMinute, Minute
  <2>1. CASE b = new
    <3>1. a \in RunIds
      BY <1>4, <2>1, RunsSequence DEF new
    <3> QED
      BY <1>1, <1>3, <1>4, <2>1, <3>1
  <2>2. CASE a = new /\ b \in RunIds
    BY <1>4, <2>2, RunsSequence DEF new
  <2>3. CASE a \in RunIds /\ b \in RunIds
    BY <1>4, <2>3 DEF OncePerMinute
  <2> QED
    BY <1>4, <2>1, <2>2, <2>3
<1>12. WaitGroupCounts'
  <2>1. IsFiniteSet(Pending)
    <3>1. IsFiniteSet(1..Len(runs)) /\ Pending \subseteq 1..Len(runs)
      BY RunsSequence, FS_Interval
    <3> QED
      BY <3>1, FS_Subset
  <2>2. Pending \cup {new} = {k \in RunIds' : runs'[k].pc # "done"}
    BY <1>3, <1>4
  <2>3. Cardinality(Pending \cup {new}) = Cardinality(Pending) + 1
    BY <1>4, <2>1, FS_AddElement
  <2>4. wg = Cardinality(Pending)
    BY DEF WaitGroupCounts
  <2> QED
    BY <1>2, <2>2, <2>3, <2>4 DEF WaitGroupCounts
<1>13. DrainedIsEmpty'
  BY <1>2 DEF DrainedIsEmpty, Stopped
<1> QED
  BY <1>6, <1>7, <1>8, <1>9, <1>10, <1>11, <1>12, <1>13

\* startDue FALSE: at most the first sight of a job, which has no run then.
LEMMA PassOverIInv ==
  ASSUME IInv, PassOver
  PROVE  IInv'
<1> USE DEF IInv
<1> DEFINE j == loop.next
<1>1. /\ j \in Jobs /\ loop.now \in Nat
      /\ loop' = [loop EXCEPT !.next = @ + 1]
      /\ UNCHANGED <<clock, polled, running, ended, runs, wg, results, page, stop>>
      /\ blocked' \in SUBSET Jobs
      /\ \/ lastRun' = lastRun
         \/ lastRun[j] = Never /\ lastRun' = [lastRun EXCEPT ![j] = loop.now]
  BY DEF PassOver, TypeOK
<1>2. loop' \in [pc : {"unborn", "idle", "scan", "exited"}, now : Nat,
                 next : 1..(NumJobs + 1)]
  BY <1>1, CursorType
<1>3. lastRun' \in [Jobs -> Nat \cup {Never}]
  BY <1>1 DEF TypeOK
<1>4. TypeOK'
  BY <1>1, <1>2, <1>3 DEF TypeOK
<1>5. InTime'
  <2>1. loop'.now = loop.now
    BY <1>1, CursorType
  <2> QED
    BY <1>1, <2>1 DEF InTime, RunIds
<1>6. LastRunCovers'
  <2> SUFFICES ASSUME NEW k \in RunIds, ~Live(runs[k])
               PROVE  runs[k].at <= lastRun'[runs[k].job]
    BY <1>1 DEF LastRunCovers, RunIds, Live
  <2>1. /\ runs[k].at \in Nat /\ runs[k].job \in Jobs
        /\ runs[k].at <= lastRun[runs[k].job]
    BY RunsSequence DEF LastRunCovers, Run
  <2>2. lastRun[runs[k].job] # Never
    BY <2>1 DEF Never, TypeOK
  <2> QED
    BY <1>1, <2>1, <2>2 DEF TypeOK
<1>7. MarkIsLive' /\ LiveIsLatest' /\ OncePerMinute'
  BY <1>1 DEF MarkIsLive, LiveIsLatest, OncePerMinute, RunIds, Live, Minute, Jobs
<1>8. WaitGroupCounts' /\ DrainedIsEmpty'
  BY <1>1 DEF WaitGroupCounts, DrainedIsEmpty, RunIds
<1> QED
  BY <1>4, <1>5, <1>6, <1>7, <1>8

\* The steps that leave the runs, the marks and lastRun alone.
QuietStep ==
    \/ LoopTick \/ LoopExit \/ ScanDone
    \/ CloseDone \/ Cancel \/ MarkStop \/ Drain \/ Return
    \/ Advance \/ UNCHANGED vars

LEMMA QuietStepIInv ==
  ASSUME IInv, QuietStep
  PROVE  IInv'
<1> USE DEF IInv
<1>1. UNCHANGED <<lastRun, running, runs, wg, results, page>>
  BY DEF QuietStep, LoopTick, LoopExit, ScanDone, CloseDone, Cancel, MarkStop,
         Drain, Return, StopStep, Advance, vars
<1>2. TypeOK'
  <2>1. loop' \in [pc : {"unborn", "idle", "scan", "exited"}, now : Nat,
                   next : 1..(NumJobs + 1)]
    <3>1. /\ loop \in [pc : {"unborn", "idle", "scan", "exited"}, now : Nat,
                       next : 1..(NumJobs + 1)]
          /\ clock \in Nat /\ 1 \in 1..(NumJobs + 1)
      BY JobsAssumption DEF TypeOK
    <3>2. CASE LoopTick
      BY <3>1, <3>2 DEF LoopTick
    <3>3. CASE LoopExit
      BY <3>1, <3>3 DEF LoopExit
    <3>4. CASE ScanDone
      BY <3>1, <3>4 DEF ScanDone
    <3>5. CASE loop' = loop
      BY <3>1, <3>5
    <3> QED
      BY <3>2, <3>3, <3>4, <3>5
         DEF QuietStep, CloseDone, Cancel, MarkStop, Drain, Return, StopStep,
             Advance, vars
  <2>2. clock' \in Nat
    BY DEF TypeOK, QuietStep, LoopTick, LoopExit, ScanDone, CloseDone, Cancel,
           MarkStop, Drain, Return, StopStep, Advance, vars
  <2>5. polled' \in BOOLEAN
    <3>1. CASE ScanDone
      <4>1. polled' = (polled \/ loop.now = clock)
        BY <3>1 DEF ScanDone
      <4> QED
        BY <4>1
    <3>2. CASE Advance
      BY <3>2 DEF Advance
    <3>3. CASE polled' = polled
      BY <3>3 DEF TypeOK
    <3> QED
      BY <3>1, <3>2, <3>3
         DEF QuietStep, LoopTick, LoopExit, CloseDone, Cancel, MarkStop, Drain,
             Return, StopStep, vars
  <2>3. blocked' \in SUBSET Jobs /\ ended' \in SUBSET Jobs
    BY DEF TypeOK, QuietStep, LoopTick, LoopExit, ScanDone, CloseDone, Cancel,
           MarkStop, Drain, Return, StopStep, Advance, vars
  <2>4. stop' \in StopSteps
    BY DEF TypeOK, QuietStep, LoopTick, LoopExit, ScanDone, CloseDone, Cancel,
           MarkStop, Drain, Return, StopStep, Advance, vars, StopSteps
  <2> QED
    BY <1>1, <2>1, <2>2, <2>3, <2>4, <2>5 DEF TypeOK
<1>3. InTime'
  <2>1. /\ clock \in Nat /\ clock' \in Nat /\ clock <= clock'
        /\ clock' <= MaxClock
        /\ loop'.now \in {clock, loop.now} /\ loop.now \in Nat
    BY ClockAssumption
       DEF TypeOK, InTime, QuietStep, LoopTick, LoopExit, ScanDone, CloseDone,
           Cancel, MarkStop, Drain, Return, StopStep, Advance, vars
  <2>2. \A k \in RunIds : runs[k].at \in Nat
    BY RunsSequence DEF Run
  <2> QED
    BY <1>1, <2>1, <2>2, ClockAssumption DEF InTime, RunIds
<1>4. /\ MarkIsLive' /\ LiveIsLatest' /\ LastRunCovers' /\ OncePerMinute'
      /\ WaitGroupCounts'
  BY <1>1 DEF MarkIsLive, LiveIsLatest, LastRunCovers, OncePerMinute,
              WaitGroupCounts, RunIds, Live, Minute, Jobs
<1>5. DrainedIsEmpty'
  BY <1>1 DEF DrainedIsEmpty, QuietStep, LoopTick, LoopExit, ScanDone,
              CloseDone, Cancel, MarkStop, Drain, Return, StopStep, Advance,
              vars
<1> QED
  BY <1>2, <1>3, <1>4, <1>5

LEMMA NextIInv == IInv /\ [Next]_vars => IInv'
<1> SUFFICES ASSUME IInv, [Next]_vars PROVE IInv'
  OBVIOUS
<1>1. CASE \E i \in 1..MaxRuns : InnerStep(i)
  BY <1>1, InnerStepIInv
<1>2. CASE \E i \in 1..MaxRuns : Finish(i)
  BY <1>2, FinishIInv
<1>3. CASE \E i \in 1..MaxRuns : Release(i)
  BY <1>3, ReleaseIInv
<1>4. CASE StartDue
  BY <1>4, StartDueIInv
<1>5. CASE PassOver
  BY <1>5, PassOverIInv
<1>6. CASE QuietStep
  BY <1>6, QuietStepIInv
<1> QED
  BY <1>1, <1>2, <1>3, <1>4, <1>5, <1>6
     DEF Next, OwnStep, PeerStep, InnerStep, QuietStep, Exited

----------------------------------------------------------------------------
(* The theorems. *)

\* Every variable keeps its type, in every behaviour.
THEOREM TypeCorrect == Spec => []TypeOK
<1>1. IInv => TypeOK
  BY DEF IInv
<1> QED
  BY <1>1, InitIInv, NextIInv, PTL DEF Spec

\* The inductive invariant holds of every behaviour of the job manager.
THEOREM Inductive == Spec => []IInv
BY InitIInv, NextIInv, PTL DEF Spec

\* No job ever has two runs between startDue and finished().
THEOREM RunsNeverOverlap == Spec => []NoOverlap
<1>1. IInv => NoOverlap
  BY RunsSequence DEF IInv, LiveIsLatest, NoOverlap
<1> QED
  BY <1>1, Inductive, PTL

\* No schedule starts a job twice in one minute, however often it is scanned.
THEOREM StartsOncePerMinute == Spec => []OncePerMinute
<1>1. IInv => OncePerMinute
  BY DEF IInv
<1> QED
  BY <1>1, Inductive, PTL

\* When JobManager.Stop has returned, every run goroutine is done.
THEOREM StopDrains == Spec => []StopDrainsRuns
<1>1. ASSUME IInv
      PROVE  StopDrainsRuns
  <2>1. IsFiniteSet({i \in RunIds : runs[i].pc # "done"})
    <3>1. IsFiniteSet(1..Len(runs))
      BY <1>1, RunsSequence, FS_Interval DEF IInv
    <3> QED
      BY <1>1, <3>1, RunsSequence, FS_Subset DEF IInv
  <2>2. CASE stop \in {"drained", "returned"}
    <3>1. Cardinality({i \in RunIds : runs[i].pc # "done"}) = 0
      BY <1>1, <2>2 DEF IInv, DrainedIsEmpty, WaitGroupCounts
    <3>2. {i \in RunIds : runs[i].pc # "done"} = {}
      BY <2>1, <3>1, FS_EmptySet
    <3> QED
      BY <3>2 DEF StopDrainsRuns
  <2> QED
    BY <2>2 DEF StopDrainsRuns
<1> QED
  BY <1>1, Inductive, PTL

\* Once jm.stopped is set no run starts, whatever the loop was doing.
THEOREM StopsStarting == Spec => NoStartAfterStop
<1>1. ASSUME IInv, [Next]_vars, Stopped
      PROVE  Len(runs') = Len(runs)
  <2> USE <1>1 DEF IInv
  <2>1. CASE \E i \in 1..MaxRuns : InnerStep(i)
    <3>1. PICK i \in RunIds : Reshaped(i)
      BY <2>1, InnerStepReshapes
    <3> QED
      BY <3>1, ReplaceRun DEF Reshaped
  <2>2. CASE \E i \in 1..MaxRuns : Finish(i) \/ Release(i)
    <3>1. PICK i \in RunIds, pc \in RunSteps : Goto(i, pc)
      BY <2>2 DEF Finish, Release, At, RunSteps
    <3>2. [runs[i] EXCEPT !.pc = pc] \in Run
      BY <3>1, RunsSequence DEF Run
    <3>3. runs' = [runs EXCEPT ![i] = [runs[i] EXCEPT !.pc = pc]]
      BY <3>1 DEF Goto
    <3> QED
      BY <3>1, <3>2, <3>3, ReplaceRun
  <2>3. CASE UNCHANGED runs
    BY <2>3
  <2> QED
    BY <1>1, <2>1, <2>2, <2>3
       DEF Next, OwnStep, PeerStep, InnerStep, StartDue, MayStart, PassOver, LoopTick,
           LoopExit, ScanDone, CloseDone, Cancel, MarkStop, Drain, Return,
           StopStep, Advance, Exited, vars
<1> QED
  BY <1>1, Inductive, PTL DEF Spec, NoStartAfterStop

----------------------------------------------------------------------------
(* Refinement: every step of JobManager is a step of JobSchedule, or hidden *)
(* from it.                                                                 *)

\* A step that keeps every run's job, scan time and liveness is hidden.
LEMMA HiddenStep ==
  ASSUME RunIds' = RunIds,
         \A k \in RunIds : /\ runs'[k].job = runs[k].job
                          /\ runs'[k].at = runs[k].at
                          /\ Live(runs'[k]) = Live(runs[k])
  PROVE  ActiveJobs' = ActiveJobs /\ ServedMinutes' = ServedMinutes
<1>1. ActiveJobs' = ActiveJobs
  BY DEF ActiveJobs, Live
<1>2. ASSUME NEW j \in Jobs
      PROVE  {Minute(runs'[i].at) : i \in {k \in RunIds' : runs'[k].job = j}}
               = {Minute(runs[i].at) : i \in {k \in RunIds : runs[k].job = j}}
  BY DEF Minute
<1>3. ServedMinutes' = ServedMinutes
  BY <1>2 DEF ServedMinutes, Jobs, Minute
<1> QED
  BY <1>1, <1>3

\* startDue TRUE is JobSchedule's Begin.
LEMMA StartDueBegins ==
  ASSUME IInv, StartDue
  PROVE  JS!Begin(loop.next, Minute(loop.now)) /\ Minute(loop.now) \in 0..Minute(MaxClock)
<1> USE DEF IInv
<1> DEFINE j == loop.next
           m == Minute(loop.now)
           new == Len(runs) + 1
           r == NewRun(j, loop.now)
<1>1. /\ j \in Jobs /\ loop.now \in Nat /\ r \in Run
      /\ \A k \in RunIds : runs[k].job = j =>
           ~Live(runs[k]) /\ Minute(runs[k].at) < m
  BY StartDueFacts
<1>2. runs' = Append(runs, r) /\ stop' = stop /\ ~Stopped
  BY DEF StartDue, MayStart
<1>3. r.job = j /\ r.at = loop.now /\ Live(r)
  BY DEF NewRun, Live
<1> HIDE DEF r
<1>4. /\ RunIds' = RunIds \cup {new} /\ new \notin RunIds /\ runs'[new] = r
      /\ \A k \in RunIds : runs'[k] = runs[k]
  BY <1>1, <1>2, AppendRun
<1> HIDE DEF new
<1>5. m \in 0..Minute(MaxClock)
  BY <1>1, ClockAssumption, MinuteType, MinuteMonotone DEF InTime, TypeOK
<1>6. j \notin ActiveJobs
  BY <1>1 DEF ActiveJobs
<1>7. \A k \in ServedMinutes[j] : k < m
  BY <1>1 DEF ServedMinutes
<1>8. ActiveJobs' = ActiveJobs \cup {j}
  BY <1>3, <1>4 DEF ActiveJobs, Live
<1>9. ServedMinutes' = [ServedMinutes EXCEPT ![j] = @ \cup {m}]
  <2> DEFINE Mins(q) == {Minute(runs[i].at) : i \in {k \in RunIds : runs[k].job = q}}
             MinsNext(q) ==
               {Minute(runs'[i].at) : i \in {k \in RunIds' : runs'[k].job = q}}
  <2>1. MinsNext(j) = Mins(j) \cup {m}
    BY <1>3, <1>4
  <2>2. \A q \in Jobs : q # j => MinsNext(q) = Mins(q)
    BY <1>3, <1>4
  <2>3. /\ ServedMinutes = [q \in Jobs |-> Mins(q)]
        /\ ServedMinutes' = [q \in Jobs |-> MinsNext(q)]
    BY DEF ServedMinutes, Jobs, Minute
  <2> HIDE DEF Mins, MinsNext
  <2> QED
    BY <1>1, <2>1, <2>2, <2>3
<1>10. Stopped' = Stopped
  BY <1>2 DEF Stopped
<1> QED
  BY <1>1, <1>2, <1>5, <1>6, <1>7, <1>8, <1>9, <1>10 DEF JS!Begin

\* finished() is JobSchedule's End.
LEMMA FinishEnds ==
  ASSUME IInv, NEW i \in 1..MaxRuns, Finish(i)
  PROVE  JS!End(runs[i].job) /\ runs[i].job \in Jobs
<1> USE DEF IInv
<1> DEFINE r == [runs[i] EXCEPT !.pc = "release"]
<1>1. i \in RunIds /\ runs[i].pc = "finish" /\ runs[i] \in Run /\ stop' = stop
  BY RunsSequence DEF Finish, At, OthersKeep
<1>2. r \in Run /\ runs' = [runs EXCEPT ![i] = r] /\ Live(runs[i]) /\ ~Live(r)
  BY <1>1 DEF Finish, Goto, Run, RunSteps, Live
<1>3. r.job = runs[i].job /\ r.at = runs[i].at /\ r.job \in Jobs
  BY <1>1 DEF Run
<1> HIDE DEF r
<1>4. /\ RunIds' = RunIds /\ runs'[i] = r
      /\ \A k \in RunIds : k # i => runs'[k] = runs[k]
  BY <1>1, <1>2, ReplaceRun
<1>5. \A k \in RunIds : k # i /\ runs[k].job = runs[i].job => ~Live(runs[k])
  BY <1>1, <1>2, RunsSequence DEF LiveIsLatest
<1>6. runs[i].job \in ActiveJobs
  BY <1>1, <1>2 DEF ActiveJobs
<1>7. ActiveJobs' = ActiveJobs \ {runs[i].job}
  BY <1>1, <1>2, <1>3, <1>4, <1>5 DEF ActiveJobs, Live
<1>8. ServedMinutes' = ServedMinutes
  <2>1. \A k \in RunIds : runs'[k].job = runs[k].job /\ runs'[k].at = runs[k].at
    BY <1>3, <1>4
  <2>2. ASSUME NEW j \in Jobs
        PROVE  {Minute(runs'[k].at) : k \in {l \in RunIds' : runs'[l].job = j}}
                 = {Minute(runs[k].at) : k \in {l \in RunIds : runs[l].job = j}}
    BY <1>4, <2>1
  <2> QED
    BY <2>2 DEF ServedMinutes, Jobs, Minute
<1> QED
  BY <1>1, <1>3, <1>6, <1>7, <1>8 DEF JS!End, Stopped

LEMMA NextRefines == IInv /\ [Next]_vars => [JS!Next]_(JS!vars)
<1> SUFFICES ASSUME IInv, [Next]_vars PROVE [JS!Next]_(JS!vars)
  OBVIOUS
<1> USE DEF IInv
<1>1. CASE \E i \in 1..MaxRuns : InnerStep(i)
  <2>1. PICK i \in RunIds : Reshaped(i) /\ stop' = stop
    BY <1>1, InnerStepReshapes DEF OthersKeep
  <2>2. PICK r \in Run :
          /\ runs' = [runs EXCEPT ![i] = r]
          /\ r.job = runs[i].job /\ r.at = runs[i].at
          /\ Live(runs[i]) /\ Live(r)
    BY <2>1 DEF Reshaped
  <2>3. ActiveJobs' = ActiveJobs /\ ServedMinutes' = ServedMinutes
    BY <2>2, ReplaceRun, HiddenStep DEF Live
  <2> QED
    BY <2>1, <2>3 DEF JS!vars, Stopped
<1>2. CASE \E i \in 1..MaxRuns : Release(i)
  <2>1. PICK i \in RunIds : runs[i].pc = "release" /\ Goto(i, "done") /\ stop' = stop
    BY <1>2 DEF Release, At, OthersKeep
  <2> DEFINE r == [runs[i] EXCEPT !.pc = "done"]
  <2>2. r \in Run /\ runs' = [runs EXCEPT ![i] = r]
    BY <2>1, RunsSequence DEF Goto, Run, RunSteps
  <2>3. r.job = runs[i].job /\ r.at = runs[i].at /\ ~Live(r) /\ ~Live(runs[i])
    BY <2>1, RunsSequence DEF Live, Run
  <2> HIDE DEF r
  <2>4. ActiveJobs' = ActiveJobs /\ ServedMinutes' = ServedMinutes
    BY <2>2, <2>3, ReplaceRun, HiddenStep DEF Live
  <2> QED
    BY <2>1, <2>4 DEF JS!vars, Stopped
<1>3. CASE \E i \in 1..MaxRuns : Finish(i)
  BY <1>3, FinishEnds DEF JS!Next
<1>4. CASE StartDue
  BY <1>4, StartDueBegins, StartDueFacts DEF JS!Next
<1>5. CASE MarkStop
  <2>1. ActiveJobs' = ActiveJobs /\ ServedMinutes' = ServedMinutes
    BY <1>5, HiddenStep DEF MarkStop, StopStep, RunIds, Live
  <2> QED
    BY <1>5, <2>1 DEF MarkStop, StopStep, Stopped, JS!Next, JS!Shut
<1>6. CASE UNCHANGED runs /\ Stopped' = Stopped
  <2>1. ActiveJobs' = ActiveJobs /\ ServedMinutes' = ServedMinutes
    BY <1>6, HiddenStep DEF RunIds, Live
  <2> QED
    BY <1>6, <2>1 DEF JS!vars
<1> QED
  BY <1>1, <1>2, <1>3, <1>4, <1>5, <1>6
     DEF Next, OwnStep, PeerStep, InnerStep, PassOver, LoopTick, LoopExit, ScanDone,
         CloseDone, Cancel, Drain, Return, StopStep, Advance, Exited, vars,
         Stopped

\* The job manager implements JobSchedule: idle and active jobs, one start for
\* a minute, minutes in order, nothing after the shutdown.
THEOREM Refinement == Spec => ImplementsJobSchedule
<1>1. Init => JS!Init
  <2> SUFFICES ASSUME Init PROVE JS!Init
    OBVIOUS
  <2>1. RunIds = {} /\ ~Stopped
    BY DEF Init, RunIds, Stopped
  <2>2. ActiveJobs = {} /\ ServedMinutes = [j \in Jobs |-> {}]
    BY <2>1 DEF ActiveJobs, ServedMinutes
  <2> QED
    BY <2>1, <2>2 DEF JS!Init
<1> QED
  BY <1>1, NextRefines, Inductive, PTL
     DEF Spec, ImplementsJobSchedule, JS!Spec

----------------------------------------------------------------------------
(* What a step does to the runs: the facts the two invariants below need.   *)

\* A step of a run keeps its job and the time of its scan; what it has
\* recorded stays recorded, and its finish time is sampled from the clock.
LEMMA RunStepKeeps ==
  ASSUME TypeOK, NEW i \in 1..MaxRuns, InnerStep(i) \/ Finish(i) \/ Release(i)
  PROVE  /\ i \in RunIds /\ RunIds' = RunIds
         /\ runs'[i].job = runs[i].job /\ runs'[i].at = runs[i].at
         /\ runs'[i].finishedAt \in {runs[i].finishedAt, clock}
         /\ Recorded(runs[i]) => Recorded(runs'[i])
         /\ Live(runs'[i]) => Live(runs[i])
         /\ \A k \in RunIds \ {i} : runs'[k] = runs[k]
         /\ OthersKeep
<1>1. i \in RunIds /\ OthersKeep
  BY DEF InnerStep, RunBegin, CommandReturns, DialReturns, HandshakeReturns,
         TransferReturns, Record, Notify, Finish, Release, At
<1>2. runs \in Seq(Run) /\ RunIds = 1..Len(runs) /\ runs[i] \in Run
  BY <1>1, RunsSequence DEF TypeOK
<1>3. runs = [k \in RunIds |-> runs[k]]
  BY <1>2, SeqDef
<1> DEFINE Kept(r) ==
      /\ runs' = [runs EXCEPT ![i] = r]
      /\ r.job = runs[i].job /\ r.at = runs[i].at
      /\ r.finishedAt \in {runs[i].finishedAt, clock}
      /\ Recorded(runs[i]) => Recorded(r)
      /\ Live(r) => Live(runs[i])
<1>4. ASSUME NEW pc \in RunSteps, Goto(i, pc),
             \/ runs[i].pc \in {"command", "dial", "handshake", "transfer"}
             \/ runs[i].pc \in {"finish", "release"} /\ pc \in {"release", "done"}
      PROVE  \E r : Kept(r)
  <2> DEFINE r == [runs[i] EXCEPT !.pc = pc]
  <2>1. runs' = [runs EXCEPT ![i] = r] /\ r.pc = pc
    BY <1>1, <1>2, <1>4 DEF Goto, Run
  <2>2. r.job = runs[i].job /\ r.at = runs[i].at /\ r.finishedAt = runs[i].finishedAt
    BY <1>2 DEF Run
  <2> HIDE DEF r
  <2>3. (Recorded(runs[i]) => Recorded(r)) /\ (Live(r) => Live(runs[i]))
    BY <1>4, <2>1 DEF Recorded, Live
  <2> QED
    BY <2>1, <2>2, <2>3
<1>5. ASSUME NEW sent \in Nat, Proceed(i, sent), ~Recorded(runs[i]), Live(runs[i])
      PROVE  \E r : Kept(r)
  <2> DEFINE next == IF sent < Uploads[runs[i].job] THEN "dial" ELSE "record"
             r == [runs[i] EXCEPT !.sent = sent, !.pc = next]
  <2>1. runs' = [runs EXCEPT ![i] = r]
    BY <1>1, <1>2, <1>5 DEF Proceed, Run
  <2>2. r.job = runs[i].job /\ r.at = runs[i].at /\ r.finishedAt = runs[i].finishedAt
    BY <1>2 DEF Run
  <2> HIDE DEF r
  <2> QED
    BY <1>5, <2>1, <2>2
<1> HIDE DEF Kept
<1>6. ASSUME RunBegin(i)
      PROVE  \E r : Kept(r)
  <2> DEFINE pc == IF runs[i].job \in HasCommand THEN "command" ELSE "dial"
             r == [runs[i] EXCEPT !.finishedAt = clock, !.pc = pc]
  <2>1. runs' = [runs EXCEPT ![i] = r] /\ runs[i].pc = "spawned"
    BY <1>1, <1>2, <1>6 DEF RunBegin, At, Run
  <2>2. r.job = runs[i].job /\ r.at = runs[i].at /\ r.finishedAt = clock
    BY <1>2 DEF Run
  <2>3. ~Recorded(runs[i]) /\ Live(runs[i])
    BY <2>1 DEF Recorded, Live
  <2> HIDE DEF r
  <2>4. Kept(r)
    BY <2>1, <2>2, <2>3 DEF Kept
  <2> QED
    BY <2>4
<1>7. ASSUME CommandReturns(i) \/ DialReturns(i) \/ HandshakeReturns(i) \/ TransferReturns(i)
      PROVE  \E r : Kept(r)
  <2>1. /\ runs[i].pc \in {"command", "dial", "handshake", "transfer"}
        /\ runs[i].sent + 1 \in Nat
    BY <1>2, <1>7 DEF CommandReturns, DialReturns, HandshakeReturns, TransferReturns, At, Run
  <2>3. ~Recorded(runs[i]) /\ Live(runs[i])
    BY <2>1 DEF Recorded, Live
  <2>2. \/ Proceed(i, 0) \/ Proceed(i, runs[i].sent + 1)
        \/ Goto(i, "record") \/ Goto(i, "handshake") \/ Goto(i, "transfer")
    BY <1>7 DEF CommandReturns, DialReturns, HandshakeReturns, TransferReturns, Fail
  <2>4. "record" \in RunSteps /\ "handshake" \in RunSteps /\ "transfer" \in RunSteps
    BY DEF RunSteps
  <2> QED
    BY <1>4, <1>5, <2>1, <2>2, <2>3, <2>4
<1>8. ASSUME Record(i)
      PROVE  \E r : Kept(r)
  <2> DEFINE snapshot == Reverse(Keep(Append(results, i)))
             r == [runs[i] EXCEPT !.pc = "notify", !.snapshot = snapshot]
  <2>1. runs' = [runs EXCEPT ![i] = r] /\ runs[i].pc = "record" /\ r.pc = "notify"
    BY <1>1, <1>2, <1>8 DEF Record, At, Run
  <2>2. r.job = runs[i].job /\ r.at = runs[i].at /\ r.finishedAt = runs[i].finishedAt
    BY <1>2 DEF Run
  <2> HIDE DEF r
  <2>3. Kept(r)
    BY <2>1, <2>2 DEF Kept, Recorded, Live
  <2> QED
    BY <2>3
<1>9. ASSUME Notify(i)
      PROVE  \E r : Kept(r)
  <2> DEFINE r == [runs[i] EXCEPT !.pc = "finish", !.snapshot = <<>>]
  <2>1. runs' = [runs EXCEPT ![i] = r] /\ runs[i].pc = "notify" /\ r.pc = "finish"
    BY <1>1, <1>2, <1>9 DEF Notify, At, Run
  <2>2. r.job = runs[i].job /\ r.at = runs[i].at /\ r.finishedAt = runs[i].finishedAt
    BY <1>2 DEF Run
  <2> HIDE DEF r
  <2>3. Kept(r)
    BY <2>1, <2>2 DEF Kept, Recorded, Live
  <2> QED
    BY <2>3
<1>10. ASSUME Finish(i) \/ Release(i)
       PROVE  \E r : Kept(r)
  <2>1. PICK pc \in {"release", "done"} : Goto(i, pc) /\ runs[i].pc \in {"finish", "release"}
    BY <1>10 DEF Finish, Release, At
  <2> QED
    BY <1>4, <2>1 DEF RunSteps
<1>11. PICK r : Kept(r)
  BY <1>6, <1>7, <1>8, <1>9, <1>10 DEF InnerStep
<1>12. RunIds' = RunIds /\ runs'[i] = r /\ \A k \in RunIds \ {i} : runs'[k] = runs[k]
  BY <1>1, <1>3, <1>11 DEF RunIds, Kept
<1> QED
  BY <1>1, <1>11, <1>12 DEF Kept

\* Of the steps that are not a run's own only startDue touches the runs.
LEMMA RunsKept ==
  ASSUME IInv, [Next]_vars
  PROVE  /\ RunIds \subseteq RunIds'
         /\ \A k \in RunIds :
              /\ runs'[k].job = runs[k].job /\ runs'[k].at = runs[k].at
              /\ runs'[k].finishedAt \in {runs[k].finishedAt, clock}
              /\ Recorded(runs[k]) => Recorded(runs'[k])
              /\ Live(runs'[k]) => Live(runs[k])
         /\ ~StartDue => RunIds' = RunIds
         /\ StartDue => /\ RunIds' = RunIds \cup {Len(runs) + 1}
                        /\ runs'[Len(runs) + 1] = NewRun(loop.next, loop.now)
<1> USE DEF IInv
<1>1. CASE \E i \in 1..MaxRuns : InnerStep(i) \/ Finish(i) \/ Release(i)
  <2>1. PICK i \in 1..MaxRuns : InnerStep(i) \/ Finish(i) \/ Release(i)
    BY <1>1
  <2>2. loop' = loop /\ (StartDue => loop' # loop)
    <3>1. loop' = loop
      BY <2>1, RunStepKeeps DEF OthersKeep
    <3>2. ASSUME StartDue PROVE loop'.next = loop.next + 1 /\ loop.next + 1 # loop.next
      <4>1. loop.next \in Jobs /\ loop' = [loop EXCEPT !.next = @ + 1]
        BY <3>2, StartDueFacts DEF StartDue
      <4> QED
        BY <4>1, CursorType DEF TypeOK, Jobs
    <3> QED
      BY <3>1, <3>2
  <2> QED
    BY <2>1, <2>2, RunStepKeeps
<1>2. CASE StartDue
  BY <1>2, StartDueFacts, AppendRun DEF StartDue
<1>3. CASE UNCHANGED runs /\ ~StartDue
  BY <1>3 DEF RunIds, Recorded, Live
<1>4. ASSUME ~StartDue, ~ \E i \in 1..MaxRuns : InnerStep(i) \/ Finish(i) \/ Release(i)
      PROVE  UNCHANGED runs
  BY <1>4 DEF Next, OwnStep, PeerStep, InnerStep, PassOver, LoopTick, LoopExit, ScanDone,
              CloseDone, Cancel, MarkStop, Drain, Return, StopStep, Advance, Exited, vars
<1> QED
  BY <1>1, <1>2, <1>3, <1>4

----------------------------------------------------------------------------
(* The history of outcomes: record() appends, and drops the oldest. *)

\* What is kept are the newest results, in their order.
LEMMA KeepNewest ==
  ASSUME NEW s \in Seq(Nat)
  PROVE  \E d \in Nat : \A a \in DOMAIN Keep(s) :
            a \in Nat /\ a + d \in DOMAIN s /\ Keep(s)[a] = s[a + d]
<1>1. Len(s) \in Nat /\ DOMAIN s = 1..Len(s) /\ \A i \in 1..Len(s) : s[i] \in Nat
  BY LenProperties, ElementOfSeq
<1>2. CASE Len(s) > ResultCap
  <2> DEFINE d == Len(s) - ResultCap
             kept == SubSeq(s, d + 1, Len(s))
  <2>1. /\ d \in Nat /\ d + ResultCap = Len(s) /\ ResultCap \in Nat /\ Len(s) >= d + 1
        /\ Len(s) - (d + 1) + 1 = ResultCap
    BY <1>1, <1>2, ClockAssumption
  <2> HIDE DEF d
  <2>2. /\ kept \in Seq(Nat) /\ Len(kept) = ResultCap
        /\ \A a \in 1..ResultCap : kept[a] = s[a + d]
    <3>1. \A i \in (d + 1)..Len(s) : s[i] \in Nat
      BY <1>1, <2>1
    <3>2. /\ kept \in Seq(Nat) /\ Len(kept) = Len(s) - (d + 1) + 1
          /\ \A a \in 1..(Len(s) - (d + 1) + 1) : kept[a] = s[(d + 1) + a - 1]
      BY <1>1, <2>1, <3>1, SubSeqProperties
    <3>3. \A a \in 1..ResultCap : (d + 1) + a - 1 = a + d
      BY <2>1
    <3> HIDE DEF kept
    <3> QED
      BY <2>1, <3>2, <3>3
  <2>3. Keep(s) = kept
    BY <1>2 DEF Keep, d
  <2> HIDE DEF kept
  <2>4. DOMAIN kept = 1..ResultCap
    BY <2>2, LenProperties
  <2>5. ASSUME NEW a \in 1..ResultCap
        PROVE  a \in Nat /\ a + d \in 1..Len(s) /\ kept[a] = s[a + d]
    BY <1>1, <2>1, <2>2
  <2> QED
    BY <1>1, <2>1, <2>3, <2>4, <2>5
<1>3. CASE ~(Len(s) > ResultCap)
  <2>1. Keep(s) = s
    BY <1>3 DEF Keep
  <2>2. \A a \in DOMAIN s : a \in Nat /\ a + 0 = a
    BY <1>1
  <2> QED
    BY <2>1, <2>2
<1> QED
  BY <1>2, <1>3

LEMMA RecordStepInv ==
  ASSUME IInv, RecordInv, NEW i \in 1..MaxRuns, Record(i)
  PROVE  RecordInv'
<1> USE DEF IInv, RecordInv
<1> DEFINE s == Append(results, i)
<1>1. /\ i \in RunIds /\ i \in Nat /\ runs[i].pc = "record" /\ runs[i] \in Run
      /\ results \in Seq(Nat) /\ results' = Keep(s)
  BY RunsSequence DEF Record, At, TypeOK
<1>2. /\ s \in Seq(Nat) /\ Len(results) \in Nat
      /\ DOMAIN results = 1..Len(results) /\ DOMAIN s = 1..(Len(results) + 1)
      /\ \A a \in 1..Len(results) : s[a] = results[a]
      /\ s[Len(results) + 1] = i
  <2>1. /\ s \in Seq(Nat) /\ Len(s) = Len(results) + 1
        /\ \A a \in 1..Len(results) : s[a] = results[a]
        /\ s[Len(results) + 1] = i
    BY <1>1, AppendProperties
  <2> HIDE DEF s
  <2> QED
    BY <1>1, <2>1, LenProperties
<1> HIDE DEF s
<1>3. /\ RunIds' = RunIds /\ Recorded(runs'[i])
      /\ \A k \in RunIds : /\ runs'[k].job = runs[k].job
                           /\ Recorded(runs[k]) => Recorded(runs'[k])
  <2>1. /\ RunIds' = RunIds /\ runs'[i].job = runs[i].job
        /\ Recorded(runs[i]) => Recorded(runs'[i])
        /\ \A k \in RunIds \ {i} : runs'[k] = runs[k]
    BY RunStepKeeps DEF InnerStep
  <2>2. runs'[i].pc = "notify"
    <3>1. runs = [k \in RunIds |-> runs[k]]
      BY <1>1, SeqDef, RunsSequence DEF TypeOK
    <3> DEFINE r == [runs[i] EXCEPT !.pc = "notify",
                                    !.snapshot = Reverse(Keep(Append(results, i)))]
    <3>2. runs' = [runs EXCEPT ![i] = r] /\ r.pc = "notify"
      BY <1>1, <3>1 DEF Record, Run
    <3> HIDE DEF r
    <3> QED
      BY <1>1, <3>1, <3>2
  <2> QED
    BY <2>1, <2>2 DEF Recorded
<1>4. \A a \in DOMAIN s : s[a] \in RunIds /\ Recorded(runs'[s[a]])
  BY <1>1, <1>2, <1>3 DEF RecordsAreOfRuns
<1>5. ASSUME NEW a \in DOMAIN s, NEW b \in DOMAIN s, a < b, runs[s[a]].job = runs[s[b]].job
      PROVE  s[a] < s[b]
  <2>1. CASE b \in 1..Len(results)
    BY <1>2, <1>5, <2>1 DEF OutcomesInStartOrder
  <2>2. CASE b = Len(results) + 1
    <3>1. a \in 1..Len(results) /\ s[a] = results[a] /\ s[b] = i
      BY <1>2, <1>5, <2>2
    <3>2. s[a] \in RunIds /\ Recorded(runs[s[a]])
      BY <1>2, <3>1 DEF RecordsAreOfRuns
    <3>3. s[a] <= i
      BY <1>1, <1>5, <3>1, <3>2 DEF LiveIsLatest, Live
    <3>4. s[a] # i
      BY <1>1, <3>2 DEF Recorded
    <3> QED
      BY <1>1, <3>1, <3>2, <3>3, <3>4, RunsSequence
  <2> QED
    BY <1>2, <2>1, <2>2
<1>6. PICK d \in Nat : \A a \in DOMAIN results' :
          a \in Nat /\ a + d \in DOMAIN s /\ results'[a] = s[a + d]
  BY <1>1, <1>2, KeepNewest
<1>7. RecordsAreOfRuns'
  BY <1>3, <1>4, <1>6 DEF RecordsAreOfRuns, Recorded
<1>8. OutcomesInStartOrder'
  <2> SUFFICES ASSUME NEW a \in DOMAIN results', NEW b \in DOMAIN results', a < b,
                      runs'[results'[a]].job = runs'[results'[b]].job
               PROVE  results'[a] < results'[b]
    BY DEF OutcomesInStartOrder
  <2>1. /\ a + d \in DOMAIN s /\ b + d \in DOMAIN s /\ a + d < b + d
        /\ results'[a] = s[a + d] /\ results'[b] = s[b + d]
    BY <1>6
  <2>2. runs[s[a + d]].job = runs[s[b + d]].job
    BY <1>3, <1>4, <2>1
  <2> QED
    BY <1>5, <2>1, <2>2
<1> QED
  BY <1>7, <1>8

LEMMA InitRecordInv == Init => RecordInv
BY DEF Init, RecordInv, RecordsAreOfRuns, OutcomesInStartOrder

LEMMA NextRecordInv ==
  ASSUME IInv, RecordInv, [Next]_vars
  PROVE  RecordInv'
<1>1. CASE \E i \in 1..MaxRuns : Record(i)
  BY <1>1, RecordStepInv
<1>2. CASE UNCHANGED results
  <2>1. \A a \in DOMAIN results : results[a] \in RunIds /\ Recorded(runs[results[a]])
    BY DEF RecordInv, RecordsAreOfRuns
  <2>2. \A a \in DOMAIN results :
          /\ results[a] \in RunIds' /\ Recorded(runs'[results[a]])
          /\ runs'[results[a]].job = runs[results[a]].job
    BY <2>1, RunsKept
  <2>3. RecordsAreOfRuns'
    BY <1>2, <2>2 DEF RecordsAreOfRuns, Recorded
  <2>4. OutcomesInStartOrder'
    BY <1>2, <2>2 DEF RecordInv, OutcomesInStartOrder
  <2> QED
    BY <2>3, <2>4 DEF RecordInv
<1> QED
  BY <1>1, <1>2
     DEF Next, OwnStep, PeerStep, RunBegin, CommandReturns, DialReturns, HandshakeReturns,
         TransferReturns, Notify, Finish, Release, StartDue, PassOver, LoopTick, LoopExit,
         ScanDone, CloseDone, Cancel, MarkStop, Drain, Return, StopStep, Advance, Exited,
         vars

\* The outcomes of a job are in the order its runs started, for any number of
\* jobs and any capacity of the history (jobs.go, record).
THEOREM OutcomesOrdered == Spec => []OutcomesInStartOrder
<1>1. RecordInv => OutcomesInStartOrder
  BY DEF RecordInv
<1>2. Spec => []RecordInv
  BY Inductive, InitRecordInv, NextRecordInv, PTL DEF Spec
<1> QED
  BY <1>1, <1>2, PTL

----------------------------------------------------------------------------
(* The minutes that are due: what a scan has passed stays served. *)

\* lastRun changes at the first sight of a job that has no run, and at the
\* end of the run of a job.
LEMMA LastRunKept ==
  ASSUME IInv, [Next]_vars, NEW j \in Jobs, lastRun'[j] # lastRun[j]
  PROVE  \/ /\ PassOver /\ j \notin running /\ lastRun[j] = Never
            /\ lastRun'[j] = loop.now
         \/ \E i \in RunIds : /\ runs[i].job = j /\ Live(runs[i]) /\ ~Live(runs'[i])
                              /\ lastRun'[j] = runs[i].finishedAt
<1> USE DEF IInv
<1>1. lastRun \in [Jobs -> Nat \cup {Never}]
  BY DEF TypeOK
<1>2. CASE PassOver
  BY <1>1, <1>2 DEF PassOver
<1>3. CASE \E i \in 1..MaxRuns : Finish(i)
  <2>1. PICK i \in 1..MaxRuns : Finish(i)
    BY <1>3
  <2>2. /\ i \in RunIds /\ runs[i] \in Run /\ runs[i].pc = "finish"
        /\ lastRun' = [lastRun EXCEPT ![runs[i].job] = runs[i].finishedAt]
        /\ runs' = [runs EXCEPT ![i].pc = "release"]
    BY <2>1, RunsSequence DEF Finish, Goto, At
  <2>3. runs'[i].pc = "release"
    <3>1. runs = [k \in RunIds |-> runs[k]]
      BY SeqDef, RunsSequence DEF TypeOK
    <3> QED
      BY <2>2, <3>1 DEF Run
  <2> QED
    BY <1>1, <2>2, <2>3 DEF Live
<1>4. CASE UNCHANGED lastRun
  BY <1>4
<1> QED
  BY <1>2, <1>3, <1>4
     DEF Next, OwnStep, PeerStep, RunBegin, CommandReturns, DialReturns, HandshakeReturns,
         TransferReturns, Record, Notify, Release, StartDue, LoopTick, LoopExit, ScanDone,
         CloseDone, Cancel, MarkStop, Drain, Return, StopStep, Advance, Exited, vars

\* What a step does to the clock and to the loop.
LEMMA LoopKept ==
  ASSUME IInv, [Next]_vars
  PROVE  /\ clock \in Nat /\ clock' \in Nat /\ clock <= clock'
         /\ stop' = "running" => stop = "running"
         /\ \/ LoopTick \/ LoopExit \/ ScanDone
            \/ /\ StartDue \/ PassOver
               /\ loop.next \in Jobs /\ loop.pc = "scan" /\ loop'.pc = "scan"
               /\ loop'.now = loop.now /\ loop'.next = loop.next + 1
               /\ UNCHANGED <<clock, polled>> /\ blocked \subseteq blocked'
            \/ Advance
            \/ UNCHANGED <<clock, polled, loop, blocked>> /\ ~StartDue /\ ~PassOver
<1> USE DEF IInv
<1>1. clock \in Nat
  BY DEF TypeOK
<1>2. CASE StartDue \/ PassOver
  <2>1. /\ loop.next \in Jobs /\ loop.pc = "scan" /\ loop' = [loop EXCEPT !.next = @ + 1]
        /\ UNCHANGED <<clock, polled, stop>> /\ blocked \subseteq blocked'
    BY <1>2, StartDueFacts DEF StartDue, PassOver
  <2>2. /\ loop'.pc = "scan" /\ loop'.now = loop.now /\ loop'.next = loop.next + 1
    BY <2>1 DEF TypeOK
  <2> QED
    BY <1>1, <1>2, <2>1, <2>2
<1>3. CASE LoopTick \/ LoopExit \/ ScanDone \/ Advance
  BY <1>1, <1>3 DEF LoopTick, LoopExit, ScanDone, Advance
<1>4. ASSUME ~StartDue, ~PassOver, ~LoopTick, ~LoopExit, ~ScanDone, ~Advance
      PROVE  /\ UNCHANGED <<clock, polled, loop, blocked>>
             /\ stop' = "running" => stop = "running"
  BY <1>4
     DEF Next, OwnStep, PeerStep, RunBegin, CommandReturns, DialReturns, HandshakeReturns,
         TransferReturns, Record, Notify, Finish, Release, OthersKeep,
         CloseDone, Cancel, MarkStop, Drain, Return, StopStep, Exited, vars
<1> QED
  BY <1>1, <1>2, <1>3, <1>4

LEMMA NotAheadKept ==
  ASSUME IInv, ServeInv, [Next]_vars
  PROVE  NotAhead'
<1> USE DEF IInv
<1>1. clock \in Nat /\ clock' \in Nat /\ clock <= clock' /\ loop.now \in Nat /\ loop.now <= clock
  BY LoopKept DEF InTime, TypeOK
<1>2. ASSUME NEW i \in RunIds'
      PROVE  runs'[i].finishedAt <= clock'
  <2>1. CASE i \in RunIds
    <3>1. runs[i].finishedAt <= clock /\ runs[i].finishedAt \in Nat
      BY <2>1, RunsSequence DEF ServeInv, NotAhead, Run
    <3>2. runs'[i].finishedAt \in {runs[i].finishedAt, clock}
      BY <2>1, RunsKept
    <3> QED
      BY <1>1, <3>1, <3>2
  <2>2. CASE StartDue /\ runs'[i] = NewRun(loop.next, loop.now)
    <3>1. runs'[i].finishedAt = loop.now
      BY <2>2 DEF NewRun
    <3> QED
      BY <1>1, <3>1
  <2> QED
    BY <1>2, <2>1, <2>2, RunsKept
<1>3. ASSUME NEW j \in Jobs
      PROVE  lastRun'[j] <= clock'
  <2>1. lastRun[j] <= clock /\ lastRun[j] \in Nat \cup {-1}
    BY DEF ServeInv, NotAhead, TypeOK, Never
  <2>2. CASE lastRun'[j] = lastRun[j]
    BY <1>1, <2>1, <2>2
  <2>3. CASE lastRun'[j] = loop.now
    BY <1>1, <2>3
  <2>4. CASE \E i \in RunIds : lastRun'[j] = runs[i].finishedAt
    <3>1. \A i \in RunIds : runs[i].finishedAt <= clock /\ runs[i].finishedAt \in Nat
      BY RunsSequence DEF ServeInv, NotAhead, Run
    <3> QED
      BY <1>1, <2>4, <3>1
  <2> QED
    BY <2>2, <2>3, <2>4, LastRunKept
<1> QED
  BY <1>2, <1>3 DEF NotAhead, Jobs

LEMMA PolledIsNowKept ==
  ASSUME IInv, ServeInv, [Next]_vars
  PROVE  PolledIsNow'
<1>1. polled => loop.now = clock
  BY DEF ServeInv, PolledIsNow
<1>2. CASE LoopTick
  BY <1>2 DEF LoopTick, PolledIsNow
<1>3. CASE LoopExit
  BY <1>1, <1>3 DEF LoopExit, PolledIsNow, IInv, TypeOK
<1>4. CASE ScanDone
  BY <1>1, <1>4 DEF ScanDone, PolledIsNow, IInv, TypeOK
<1>5. CASE Advance
  BY <1>5 DEF Advance, PolledIsNow
<1>6. CASE loop'.now = loop.now /\ UNCHANGED <<clock, polled>>
  BY <1>1, <1>6 DEF PolledIsNow
<1> QED
  BY <1>2, <1>3, <1>4, <1>5, <1>6, LoopKept

LEMMA LiveIsNewerKept ==
  ASSUME IInv, ServeInv, [Next]_vars
  PROVE  LiveIsNewer'
<1> USE DEF IInv
<1> SUFFICES ASSUME NEW i \in RunIds', Live(runs'[i])
             PROVE  \/ lastRun'[runs'[i].job] = Never
                    \/ lastRun'[runs'[i].job] < MinuteStart(runs'[i].at)
  BY DEF LiveIsNewer, MinuteStart, Minute, Live
<1>1. CASE i \in RunIds
  <2> DEFINE j == runs[i].job
  <2>1. /\ Live(runs[i]) /\ runs'[i].job = j /\ runs'[i].at = runs[i].at
        /\ j \in Jobs
    BY <1>1, RunsKept, RunsSequence DEF Run
  <2>2. lastRun'[j] = lastRun[j]
    <3> SUFFICES ASSUME lastRun'[j] # lastRun[j] PROVE FALSE
      OBVIOUS
    <3>1. j \in running
      BY <1>1, <2>1 DEF MarkIsLive
    <3>2. PICK k \in RunIds : runs[k].job = j /\ Live(runs[k]) /\ ~Live(runs'[k])
      BY <2>1, <3>1, LastRunKept
    <3>3. k <= i /\ i <= k /\ i \in Nat /\ k \in Nat
      BY <1>1, <2>1, <3>2, RunsSequence DEF LiveIsLatest
    <3> QED
      BY <3>2, <3>3
  <2>3. lastRun[j] = Never \/ lastRun[j] < MinuteStart(runs[i].at)
    BY <1>1, <2>1 DEF ServeInv, LiveIsNewer
  <2> QED
    BY <2>1, <2>2, <2>3
<1>2. CASE StartDue /\ runs'[i] = NewRun(loop.next, loop.now)
  <2>1. runs'[i].job = loop.next /\ runs'[i].at = loop.now
    BY <1>2 DEF NewRun
  <2>2. lastRun' = lastRun /\ MayStart(loop.next, loop.now)
    BY <1>2 DEF StartDue
  <2> QED
    BY <2>1, <2>2 DEF MayStart
<1> QED
  BY <1>1, <1>2, RunsKept

\* A minute that is served stays so while it lasts: the run that ends and
\* overwrites lastRun has itself been started in it, or in an earlier one,
\* and then it was not lastRun that served the minute.
LEMMA ServedKept ==
  ASSUME IInv, ServeInv, [Next]_vars, NEW j \in Jobs, Served(j),
         Minute(clock') = Minute(clock)
  PROVE  Served(j)'
<1> USE DEF IInv
<1>1. CASE \E i \in RunIds : runs[i].job = j /\ Minute(runs[i].at) = Minute(clock)
  <2>1. PICK i \in RunIds : runs[i].job = j /\ Minute(runs[i].at) = Minute(clock)
    BY <1>1
  <2>2. i \in RunIds' /\ runs'[i].job = j /\ runs'[i].at = runs[i].at
    BY <2>1, RunsKept
  <2>3. Minute(runs'[i].at) = Minute(clock')
    BY <2>1, <2>2
  <2> QED
    BY <2>2, <2>3 DEF Served, Minute
<1>2. CASE lastRun[j] # Never /\ Minute(lastRun[j]) = Minute(clock)
  <2>1. lastRun'[j] = lastRun[j]
    <3> SUFFICES ASSUME lastRun'[j] # lastRun[j] PROVE FALSE
      OBVIOUS
    <3>1. PICK i \in RunIds : runs[i].job = j /\ Live(runs[i])
      BY <1>2, LastRunKept
    <3>2. /\ runs[i].at \in Nat /\ clock \in Nat /\ lastRun[j] \in Nat
          /\ runs[i].at <= clock
      BY <1>2, <3>1, RunsSequence DEF Run, TypeOK, InTime
    <3>3. lastRun[j] < MinuteStart(runs[i].at)
      BY <1>2, <3>1 DEF ServeInv, LiveIsNewer
    <3>4. Minute(lastRun[j]) < Minute(runs[i].at) /\ Minute(runs[i].at) <= Minute(clock)
      BY <3>2, <3>3, BeforeMinuteStart, MinuteMonotone
    <3>5. Minute(lastRun[j]) \in Nat /\ Minute(runs[i].at) \in Nat /\ Minute(clock) \in Nat
      BY <3>2, MinuteType
    <3> QED
      BY <1>2, <3>4, <3>5
  <2>2. lastRun'[j] # Never /\ Minute(lastRun'[j]) = Minute(clock')
    BY <1>2, <2>1
  <2> QED
    BY <2>2 DEF Served, Minute, Never
<1> QED
  BY <1>1, <1>2 DEF Served

\* The job under the cursor of a scan in this minute: started, seen for the
\* first time, started earlier in the minute, not due, or blocked.
LEMMA CursorServes ==
  ASSUME IInv, ServeInv, [Next]_vars, StartDue \/ PassOver, stop = "running",
         Minute(loop.now) = Minute(clock), NEW j \in Enabled \ blocked', j = loop.next,
         Matches(j, clock), clock' = clock
  PROVE  Served(j)'
<1> USE DEF IInv
<1>1. /\ j \in Jobs /\ loop.now \in Nat /\ clock \in Nat
      /\ lastRun \in [Jobs -> Nat \cup {Never}] /\ ~Stopped
  BY JobsAssumption DEF TypeOK, Stopped
<1>2. CASE StartDue
  <2> DEFINE new == Len(runs) + 1
  <2>1. new \in RunIds' /\ runs'[new] = NewRun(j, loop.now)
    BY <1>2, RunsKept
  <2>2. runs'[new].job = j /\ Minute(runs'[new].at) = Minute(clock')
    BY <2>1 DEF NewRun
  <2> HIDE DEF new
  <2> QED
    BY <2>1, <2>2 DEF Served, Minute
<1>3. CASE PassOver
  <2>1. j \notin running
    BY <1>3 DEF PassOver
  <2>2. CASE lastRun[j] = Never
    <3>1. lastRun' = [lastRun EXCEPT ![j] = loop.now]
      BY <1>1, <1>3, <2>1, <2>2 DEF PassOver
    <3>2. lastRun'[j] = loop.now /\ loop.now # Never
      BY <1>1, <3>1 DEF Never
    <3>3. lastRun'[j] # Never /\ Minute(lastRun'[j]) = Minute(clock')
      BY <3>2
    <3> QED
      BY <3>3 DEF Served, Minute, Never
  <2>3. CASE lastRun[j] # Never
    <3>1. lastRun[j] \in Nat /\ lastRun'[j] = lastRun[j] /\ lastRun[j] <= clock
      BY <1>1, <1>3, <2>1, <2>3 DEF PassOver, ServeInv, NotAhead
    <3>2. ~MayStart(j, loop.now)
      BY <1>3 DEF PassOver
    <3>3. Matches(j, loop.now)
      BY DEF Matches
    <3>4. ~(lastRun[j] < MinuteStart(loop.now))
      BY <1>1, <2>1, <2>3, <3>2, <3>3 DEF MayStart
    <3>5. Minute(loop.now) <= Minute(lastRun[j])
      BY <1>1, <3>1, <3>4, ClockAssumption DEF Minute, MinuteStart
    <3>6. Minute(lastRun[j]) <= Minute(clock)
      BY <1>1, <3>1, MinuteMonotone
    <3>7. Minute(lastRun[j]) = Minute(clock)
      BY <1>1, <3>1, <3>5, <3>6, MinuteType
    <3>8. lastRun'[j] # Never /\ Minute(lastRun'[j]) = Minute(clock')
      BY <2>3, <3>1, <3>7
    <3> QED
      BY <3>8 DEF Served, Minute, Never
  <2> QED
    BY <2>2, <2>3
<1> QED
  BY <1>2, <1>3

LEMMA ScanServesKept ==
  ASSUME IInv, ServeInv, [Next]_vars
  PROVE  ScanServes'
<1> USE DEF IInv
<1>1. /\ clock \in Nat /\ clock' \in Nat /\ clock <= clock'
      /\ loop.now \in Nat /\ loop.now <= clock /\ Enabled \subseteq Jobs
      /\ loop.next \in 1..(NumJobs + 1) /\ NumJobs \in Nat
      /\ stop' = "running" => stop = "running"
  BY LoopKept, JobsAssumption DEF InTime, TypeOK
<1>2. ASSUME loop'.pc = "scan", Minute(loop'.now) = Minute(clock'), stop' = "running",
             NEW j \in Enabled \ blocked', j < loop'.next, Matches(j, clock')
      PROVE  Served(j)'
  <2>1. CASE LoopTick
    <3>1. loop'.next = 1 /\ j \in 1..NumJobs
      BY <1>1, <2>1 DEF LoopTick, Jobs
    <3> QED
      BY <1>1, <1>2, <3>1
  <2>2. ASSUME loop'.now = loop.now
        PROVE  Minute(clock') = Minute(clock) /\ Minute(loop.now) = Minute(clock)
    <3>1. /\ Minute(loop.now) <= Minute(clock) /\ Minute(clock) <= Minute(clock')
          /\ Minute(clock) \in Nat /\ Minute(clock') \in Nat
      BY <1>1, MinuteMonotone, MinuteType
    <3> QED
      BY <1>2, <2>2, <3>1
  <2>3. ASSUME loop'.now = loop.now, loop.pc = "scan", j \in Enabled \ blocked,
               j < loop.next
        PROVE  Served(j)'
    <3>1. Matches(j, clock) /\ Minute(clock') = Minute(clock) /\ j \in Jobs
      BY <1>1, <1>2, <2>2, <2>3 DEF Matches
    <3>2. Served(j)
      BY <1>1, <1>2, <2>2, <2>3, <3>1 DEF ServeInv, ScanServes
    <3> QED
      BY <3>1, <3>2, ServedKept
  <2>4. CASE /\ StartDue \/ PassOver
             /\ loop.next \in Jobs /\ loop.pc = "scan"
             /\ loop'.now = loop.now /\ loop'.next = loop.next + 1
             /\ UNCHANGED <<clock, polled>> /\ blocked \subseteq blocked'
    <3>1. CASE j < loop.next
      BY <1>2, <2>3, <2>4, <3>1
    <3>2. CASE j = loop.next
      <4>1. Matches(j, clock) /\ Minute(loop.now) = Minute(clock) /\ clock' = clock
        BY <1>2, <2>2, <2>4 DEF Matches
      <4> QED
        BY <1>1, <1>2, <2>4, <3>2, <4>1, CursorServes
    <3>3. j < loop.next + 1 /\ j \in Int /\ loop.next \in Int
      BY <1>1, <1>2, <2>4 DEF Jobs
    <3> QED
      BY <3>1, <3>2, <3>3
  <2>5. CASE Advance \/ UNCHANGED <<clock, polled, loop, blocked>>
    BY <1>2, <2>3, <2>5 DEF Advance
  <2>6. CASE LoopExit \/ ScanDone
    BY <1>2, <2>6 DEF LoopExit, ScanDone, TypeOK
  <2> QED
    BY <2>1, <2>4, <2>5, <2>6, LoopKept
<1>3. ASSUME loop'.pc = "idle", polled', stop' = "running",
             NEW j \in Enabled \ blocked', Matches(j, clock')
      PROVE  Served(j)'
  <2>1. ASSUME clock' = clock, Served(j) PROVE Served(j)'
    BY <1>1, <2>1, ServedKept
  <2>2. CASE ScanDone
    <3>1. /\ loop.pc = "scan" /\ loop.next > NumJobs /\ clock' = clock /\ blocked' = blocked
          /\ polled \/ loop.now = clock
      BY <1>3, <2>2 DEF ScanDone
    <3>2. loop.now = clock
      BY <3>1 DEF ServeInv, PolledIsNow
    <3>3. Matches(j, clock) /\ j < loop.next
      BY <1>1, <1>3, <3>1 DEF Jobs
    <3>4. Served(j)
      BY <1>1, <1>3, <3>1, <3>2, <3>3 DEF ServeInv, ScanServes
    <3> QED
      BY <2>1, <3>1, <3>4
  <2>3. CASE UNCHANGED <<clock, polled, loop, blocked>>
    <3>1. loop.pc = "idle" /\ polled /\ j \in Enabled \ blocked /\ Matches(j, clock)
      BY <1>3, <2>3
    <3>2. Served(j)
      BY <1>1, <1>3, <3>1 DEF ServeInv, ScanServes
    <3> QED
      BY <2>1, <2>3, <3>2
  <2>4. CASE Advance
    BY <1>3, <2>4 DEF Advance
  <2>5. CASE LoopTick \/ loop'.pc = "scan"
    BY <1>3, <2>5 DEF LoopTick
  <2>6. CASE LoopExit
    BY <1>3, <2>6 DEF LoopExit, TypeOK
  <2> QED
    BY <2>2, <2>3, <2>4, <2>5, <2>6, LoopKept
<1> QED
  BY <1>2, <1>3 DEF ScanServes, Served, Minute, Matches, Never

LEMMA InitServeInv == Init => ServeInv
<1> SUFFICES ASSUME Init PROVE ServeInv
  OBVIOUS
<1>1. RunIds = {}
  BY DEF Init, RunIds
<1>2. \A j \in Jobs : lastRun[j] = -1 /\ clock = 0
  BY DEF Init, Never
<1>3. NotAhead
  BY <1>1, <1>2 DEF NotAhead
<1> QED
  BY <1>1, <1>3 DEF Init, ServeInv, PolledIsNow, LiveIsNewer, ScanServes

\* A minute that the schedule names and that the loop has scanned is served
\* when it ends, whatever the runs have done meanwhile: startDue's two ways of
\* saying no are a run that is live and a minute that has been served.
THEOREM DueMinutesAreServed == Spec => DueMinuteServed
<1>1. ServeInv /\ [Next]_vars => [ /\ Minute(clock') # Minute(clock)
        /\ polled /\ loop.pc = "idle" /\ stop = "running"
        => \A j \in Enabled \ blocked : Matches(j, clock) => Served(j) ]_vars
  BY DEF ServeInv, ScanServes
<1>2. IInv /\ ServeInv /\ [Next]_vars => ServeInv'
  BY NotAheadKept, PolledIsNowKept, LiveIsNewerKept, ScanServesKept DEF ServeInv
<1>3. Spec => []ServeInv
  BY <1>2, Inductive, InitServeInv, PTL DEF Spec
<1> QED
  BY <1>1, <1>3, PTL DEF Spec, DueMinuteServed
==============================================================================
