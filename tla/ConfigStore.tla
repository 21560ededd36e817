----------------------------- MODULE ConfigStore -----------------------------
(***************************************************************************)
(* What WatchSSH promises of the configuration that its web interface      *)
(* edits, with no arrays, locks, copies or files: an edit takes effect at  *)
(* once and entirely, and while the operators take turns what a saved      *)
(* request leaves behind is what a restart serves.  LiveConfig refines it. *)
(***************************************************************************)
EXTENDS ServerList

VARIABLES
    config,      \* the configuration in effect
    next         \* the configuration that is kept for a restart, or Unknown

cvars == <<config, next>>

Configs == [list : Seq(Entries), glob : Globals]

Unknown == [list |-> <<>>, glob |-> "unknown"]

\* A start with the configuration that was kept.
Starts(started, kept) ==
    /\ started.list \in Started(kept.list)
    /\ started = [list |-> started.list, glob |-> kept.glob]

Init == next \in Configs /\ Starts(config, next)

\* An operator begins to work, or ends without a save.
Open == next' = Unknown /\ UNCHANGED config

Put(list) == config' = [config EXCEPT !.list = list] /\ UNCHANGED next

Add == \E e \in Entries : Put(Append(config.list, e))

\* A server keeps its name.
Edit ==
    \E i \in DOMAIN config.list : \E e \in Entries :
      e.name = config.list[i].name /\ Put([config.list EXCEPT ![i] = e])

Remove == \E n \in Names : \E list \in Without(config.list, n) : Put(list)

Set == \E g \in Globals : config' = [config EXCEPT !.glob = g] /\ UNCHANGED next

Change == next = Unknown /\ (Add \/ Edit \/ Remove \/ Set)

\* A save ends with nobody else at work.
Keep == next' = config /\ UNCHANGED config

Restart ==
    /\ next # Unknown => next' = next
    /\ next' \in Configs /\ Starts(config', next')

Next == Open \/ Change \/ Keep \/ Restart

Spec == Init /\ [][Next]_cvars
=============================================================================
