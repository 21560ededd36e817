----------------------------- MODULE ProbeChecks -----------------------------
(***************************************************************************)
(* The verdict of each kind of probe (internal/check and toolchecks.go),   *)
(* for what it may meet.                                                   *)
(*                                                                         *)
(* reach: the address that is dialled, or the command on the target,       *)
(* answers in time ("up"), refuses ("down") or says nothing ("silent").    *)
(* tool: there is the first utility the probe asks for, only a later one,  *)
(* or none.  thing: what the probe asks for                                *)
(*   good, bad   is so, is not so                                          *)
(*   none        is not so, for what is asked about is not there           *)
(*   hidden      is not so, but where the code looks it seems to be        *)
(*   missed      is so, but where the code looks it seems not to be        *)
(* A kind that cannot be misled takes the last two for what they are.      *)
(***************************************************************************)
EXTENDS ProbeKinds

Worlds == [reach : {"up", "down", "silent"}, tool : {"first", "later", "none"},
           thing : {"good", "bad", "none", "hidden", "missed"}]

So(w) == w.thing \in {"good", "missed"}

Seen(w) == w.thing \in {"good", "hidden"}

Timed(p) == "timeout" \notin p.blank

Given(p) == "target" \notin p.blank

\* What was asked for, or anything when nothing was.
Expected(p, w) == IF p.extra THEN So(w) ELSE w.thing \notin {"none", "hidden"}

\* The same of one look, which may come too soon or at another one of several.
AtFirstSight(p, w) == Expected(p, w) /\ (p.extra => w.thing # "missed")

----------------------------------------------------------------------------
(* internal/check: run by the monitor itself. *)

\* The deadline is two seconds after the timeout, whatever the packets need.
Ping(p, w) == w.reach = "up" /\ w.tool # "none" /\ ~p.extra

\* A timeout of zero is no timeout here.
CheckPort(w) == w.reach = "up"

DialTCP(p, w) == w.reach = "up" /\ Timed(p)

\* One read, and a greeting may come in pieces.
CheckBanner(p, w) == w.reach = "up" /\ AtFirstSight(p, w)

\* monitor.go:537 asks for a GET, whatever the method, and for no text of the body.
CheckHTTP(p, w) == w.reach = "up" /\ Timed(p) /\ IF p.extra THEN Seen(w) ELSE So(w)

\* "hidden": a name without a CNAME is its own.  "missed": one of the names of
\* an answer is not valid, which is an error beside the others.
CheckDNS(p, w) ==
    w.reach = "up" /\ Timed(p) /\ IF p.extra THEN Seen(w) ELSE w.thing \notin {"none", "missed"}

\* A hop that says nothing is a row of the output as well ("hidden"), and may
\* take longer than the deadline ("missed").
CheckTraceroute(w) ==
    w.tool # "none" /\ IF w.reach = "up" THEN w.thing # "missed" ELSE w.thing = "hidden"

CheckTLS(p, w) == w.reach = "up" /\ Timed(p) /\ So(w)

CheckNTP(p, w) == w.reach = "up" /\ Expected(p, w)

\* One host key, of the several that a server may have.
CheckSSH(p, w) == w.reach = "up" /\ AtFirstSight(p, w)

Network(k, p, w) ==
    CASE k = "ping"   -> Ping(p, w)
      [] k = "tcp"    -> IF p.extra THEN DialTCP(p, w) ELSE CheckPort(w)
      [] k = "banner" -> CheckBanner(p, w)
      [] k = "http"   -> CheckHTTP(p, w)
      [] k = "dns"    -> CheckDNS(p, w)
      [] k = "trace"  -> CheckTraceroute(w)
      [] k = "tls"    -> CheckTLS(p, w)
      [] k = "ntp"    -> CheckNTP(p, w)
      [] k = "ssh"    -> CheckSSH(p, w)

----------------------------------------------------------------------------
(* toolchecks.go: a command on the target says one word or a number, and   *)
(* nothing at all when it was cut off.                                     *)

Ran(w) == w.reach = "up"

\* systemctl, or service when there is none.
ServiceSays(p, w) ==
    IF ~Ran(w) THEN "" ELSE IF w.tool = "none" THEN "unsupported"
    ELSE IF Given(p) /\ So(w) THEN "active" ELSE "inactive"

runServiceChecks(p, w) == ServiceSays(p, w) = "active"

\* pidof counts the processes of an executable.  pgrep -f, and ps with grep,
\* also count the shell that was given the pattern with the command, and a blank
\* pattern is that of every process.
ByName(p, w) == p.extra /\ Given(p) /\ w.tool = "first"

ProcessSays(p, w) == (IF So(w) THEN 1 ELSE 0) + (IF ByName(p, w) THEN 0 ELSE 1)

\* "missed": not every pgrep has a -c, and then it prints no number.
runProcessChecks(p, w) ==
    Ran(w) /\ w.tool # "none" /\ (ByName(p, w) \/ w.thing # "missed") /\ ProcessSays(p, w) >= 1

\* Any word but the two, and silence, are taken for a missing utility.
\* "hidden": netstat also lists the ports of peers.  "missed": an ss that fails.
ListeningSays(p, w) ==
    IF ~Ran(w) THEN "" ELSE IF w.tool = "none" THEN "unsupported"
    ELSE IF Given(p) /\ Seen(w) THEN "listening" ELSE "not_listening"

\* Mutant: whatever is not the word for no listener is a listener.
MutrunListeningChecks(p, w) == ListeningSays(p, w) # "not_listening"

runListeningChecks(p, w) == ListeningSays(p, w) = "listening"

\* "hidden": journalctl fails and wc counts nothing, or the minutes are those of
\* another time zone, where there are none; there may be some, too: "missed".
JournalSays(w) == IF w.thing \in {"bad", "missed"} THEN 1 ELSE 0

runJournalChecks(w) == Ran(w) /\ w.tool = "first" /\ JournalSays(w) <= 0

\* "missing" and "unreadable" are not the two numbers of stat.  The age is one
\* by the clock of the monitor.
runFileChecks(p, w) ==
    Ran(w) /\ Given(p) /\ w.tool # "none"
    /\ IF p.extra THEN Seen(w) ELSE w.thing \in {"good", "bad"}

\* "hidden": du and find fail for what they may not read, count the rest and
\* their messages are thrown away.
runDirectoryChecks(p, w) ==
    Ran(w) /\ Given(p) /\ w.tool = "first"
    /\ IF p.extra THEN w.thing \notin {"bad", "none"} ELSE w.thing \notin {"none", "hidden"}

\* A pattern grep does not understand prints no number.  "hidden": tail fails
\* and grep counts nothing.
runLogChecks(p, w) ==
    Ran(w) /\ Given(p) /\ w.tool = "first" /\ w.thing \notin {"bad", "none"}

\* The shell builtin needs no utility.
runCommandChecks(p, w) == Ran(w) /\ Given(p) /\ So(w)

\* One of three utilities prints a digest.  A digest that was left blank is what
\* is printed by none that fails ("hidden") or is cut off.
runHashChecks(p, w) ==
    IF Given(p) THEN Ran(w) /\ w.tool # "none" /\ So(w)
    ELSE ~Ran(w) \/ (w.tool # "none" /\ w.thing = "hidden")

\* It is bad as soon as it expires within the days that call for a warning.
runCertificateFileChecks(p, w) == Ran(w) /\ Given(p) /\ w.tool = "first" /\ So(w)

runUnixSocketChecks(p, w) == Ran(w) /\ Given(p) /\ So(w)

runUserChecks(p, w) == Ran(w) /\ Given(p) /\ w.tool = "first" /\ So(w)

Tool(k, p, w) ==
    CASE k = "service"          -> runServiceChecks(p, w)
      [] k = "process"          -> runProcessChecks(p, w)
      [] k = "listening"        -> runListeningChecks(p, w)
      [] k = "journal"          -> runJournalChecks(w)
      [] k = "file"             -> runFileChecks(p, w)
      [] k = "directory"        -> runDirectoryChecks(p, w)
      [] k = "log"              -> runLogChecks(p, w)
      [] k = "command"          -> runCommandChecks(p, w)
      [] k = "hash"             -> runHashChecks(p, w)
      [] k = "certificate_file" -> runCertificateFileChecks(p, w)
      [] k = "unix_socket"      -> runUnixSocketChecks(p, w)
      [] k = "user"             -> runUserChecks(p, w)

\* A custom command has no timeout of its own.
Custom(p, w) == w.reach = "up" /\ Expected(p, w)

Verdict(k, p, w) ==
    IF k \in NetworkKinds THEN Network(k, p, w)
    ELSE IF k \in ToolKinds THEN Tool(k, p, w) ELSE Custom(p, w)

----------------------------------------------------------------------------
(* What a probe is for, by the comments on its type in config.go: the      *)
(* target is as the probe asks, and has what it takes to see that.         *)

Needed(k) == CASE k \in {"journal", "directory", "log", "certificate_file", "user"} -> {"first"}
               [] k \in {"ping", "trace", "service", "process", "listening", "file", "hash"} ->
                    {"first", "later"}
               [] OTHER -> {"first", "later", "none"}

\* A unit that is not there has no entries in the journal.
AsAsked(k, p, w) ==
    CASE k \in {"ping", "tcp", "trace"} -> TRUE
      [] k \in {"banner", "dns", "ntp", "ssh", "file", "directory", "custom"} -> Expected(p, w)
      [] k = "journal" -> w.thing \notin {"bad", "hidden"}
      [] OTHER -> So(w)

\* The tcp probe of a local server that names another host.
Elsewhere(k, p, local) == k = "tcp" /\ local /\ Given(p)

Met(k, p, w, local) ==
    IF Elsewhere(k, p, local) THEN So(w)
    ELSE /\ w.reach = "up" /\ w.tool \in Needed(k) /\ AsAsked(k, p, w)
         /\ k \in ToolKinds \ {"journal"} => Given(p)
=============================================================================
