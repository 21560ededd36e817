---------------------------- MODULE MCJobManager -----------------------------
(***************************************************************************)
(* Instances of JobManager for TLC.  The minutes at which a job is due are *)
(* those its cron expression matches.                                      *)
(***************************************************************************)
EXTENDS JobManager, CronSchedule

\* The minutes of a behaviour are the first of 2026, a Thursday.
TimeOf(m) == [minute |-> m, hour |-> 0, dayOfMonth |-> 1, month |-> 1, dayOfWeek |-> 4]

DueOf(expr) ==
    {m \in 0 .. Minute(MaxClock) : Parses(expr) /\ ScheduleMatches(Parse(expr), TimeOf(m))}

\* "* * * * *"
EveryMinute == Fields(Every(1), Every(1), Every(1), Every(1), Every(1))

\* "1-59/2 * 13 * thu-fri,7": the odd minutes of Thursdays, Fridays and
\* Sundays and of every 13th.
OddMinutes ==
    Fields(<<[base |-> "range", from |-> 1, to |-> 59, step |-> 2]>>, Every(1), Only(13),
           Every(1), <<[base |-> "range", from |-> 4, to |-> 5, step |-> 1]>> \o Only(7))

\* TLC evaluates a definition without parameters once.
EveryMinuteDue == DueOf(EveryMinute)
OddMinutesDue == DueOf(OddMinutes)

\* Two command jobs without uploads.
MCUploadsTwo == <<0, 0>>
MCDueTwo     == <<EveryMinuteDue, OddMinutesDue>>

\* One job: a command, then two artifacts.
MCUploadsOne == <<2>>
MCDueOne     == <<EveryMinuteDue>>
==============================================================================
