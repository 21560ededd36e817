--------------------------- MODULE MCAlertPipeline ---------------------------
(* Instances of AlertPipeline for TLC. *)
EXTENDS AlertPipeline

\* A router, and a web server behind it.
MCBehindRouter == [router |-> {}, web |-> {"router"}]

Rule(n, s, p) == [name |-> n, servers |-> s, ping |-> p]

MCNoRunbooks == <<>>
MCNoRoutes   == <<>>

\* A metric rule and a ping rule that share a name, and a rule for everyone.
MCRulesShared ==
    <<Rule("load", {"web"}, FALSE), Rule("load", {}, TRUE), Rule("disk", {}, FALSE)>>
MCRulesOne    == <<Rule("load", {"web"}, FALSE)>>

Book(m, r, s, t, c, n, w) ==
    [mode |-> m, rules |-> r, servers |-> s, targets |-> t, cooldown |-> c,
     budget |-> n, window |-> w]

\* A runbook that lists its target twice, one for the server that fired, one
\* for the watchdog, one that is off.
MCRunbooks ==
    <<Book("alert", {}, {}, <<"web", "web">>, 1, 2, 2),
      Book("alert", {"load"}, {"web"}, <<>>, 2, 1, 1),
      Book("watchdog", {}, {}, <<>>, 1, 1, 1),
      Book("off", {}, {}, <<>>, 1, 1, 1)>>

Route(r, s, c) == [rules |-> r, servers |-> s, continue |-> c]

\* A route that fans out, one that settles web, one for the rest, one shadowed.
MCRoutes ==
    <<Route({"load"}, {}, TRUE), Route({}, {"web"}, FALSE),
      Route({}, {}, FALSE), Route({"disk"}, {}, FALSE)>>
=============================================================================
