------------------------------ MODULE LiveConfig ------------------------------
(***************************************************************************)
(* The live configuration: one slice of servers that the handlers of the   *)
(* web interface edit in place under web.State's lock, that a save reads   *)
(* again after the lock (state.go, config.Save), that the collector ranges *)
(* over without any lock (monitor.go), and that a restart reads back from  *)
(* the file (config.Load, main.go).                                        *)
(*                                                                         *)
(* A slice is an array and a length, and two slices may share an array.  A *)
(* reader without the lock that meets a writer finds the old server, the   *)
(* new one, or a mixture of both.  The list of alert rules is edited and   *)
(* saved the same way and is left out.                                     *)
(***************************************************************************)
EXTENDS ServerList

CONSTANTS
    FirstFile,   \* the file at the first start
    Requests,    \* the handlers that may run at once
    Spare        \* the slots append may allocate beyond what it needs

FileKinds == {"none", "empty", "whole", "mixed", "partial"}

Files == [kind : FileKinds, list : Seq(Entries), glob : Globals]

\* The first start has succeeded, or there was no file yet.
ASSUME FileAssumption ==
    /\ FirstFile \in Files /\ FirstFile.kind \in {"none", "empty", "whole"}
    /\ IF FirstFile.kind = "whole" THEN Accepted(FirstFile.list) ELSE FirstFile.list = <<>>

ASSUME RequestAssumption ==
    IsFiniteSet(Requests) /\ {"saved", "nobody"} \cap Requests = {} /\ Spare \in Nat

VARIABLES
    proc,      \* "up", or "down" when the start was refused
    heap,      \* the arrays
    live,      \* cfg.Servers: an array and a length
    glob,      \* the settings of cfg that belong to no server
    req,       \* req[r]: the request that handler r works on
    file,      \* the configuration file
    metrics,   \* the names in State.metrics
    cyc,       \* the collection in progress
    edits,     \* the number of requests so far
    sole,      \* the request that has had the configuration to itself,
               \*    "saved" after it has ended with a save, or "nobody"
    orderly    \* history: no two requests have met

vars == <<proc, heap, live, glob, req, file, metrics, cyc, edits, sole, orderly>>

\* What a handler was asked for: a server of that name, valid or not, to be
\* added, edited in place or removed, or other settings.
Ops == [kind : {"add", "edit", "remove", "set"}, name : Names, ver : Versions,
        ok : BOOLEAN, glob : Globals]

ReqSteps == {"idle", "inside", "snapshot", "validate", "marshal", "open", "write", "done"}

Current == [i \in 1 .. live.len |-> heap[live.arr][i]]

\* The settings a start takes from the file.
GlobOf(f) == IF f.kind = "none" THEN "initial"
             ELSE IF f.kind = "empty" THEN "empty" ELSE f.glob

Unset == [name |-> Garbage, ver |-> -1, ok |-> FALSE]

\* A new array that holds the list.
Padded(list, n) ==
    [i \in 1 .. Len(list) + n |-> IF i <= Len(list) THEN list[i] ELSE Unset]

NoOp == [kind |-> "set", name |-> Localhost, ver |-> -1, ok |-> FALSE, glob |-> "initial"]

NoCopy == [arr |-> 1, len |-> 0, glob |-> "initial"]

NoRequest ==
    [step |-> "idle", op |-> NoOp, copy |-> NoCopy, read |-> <<>>, saved |-> FALSE]

NoCycle == [step |-> "idle", arr |-> 1, len |-> 0, polled |-> <<>>, due |-> <<>>,
            quiet |-> TRUE]

Init ==
    /\ proc = "up"
    /\ file = FirstFile
    /\ \E list \in Started(FirstFile.list), n \in 0 .. Spare :
         heap = <<Padded(list, n)>> /\ live = [arr |-> 1, len |-> Len(list)]
    /\ glob = GlobOf(FirstFile)
    /\ req = [r \in Requests |-> NoRequest]
    /\ metrics = {} /\ cyc = NoCycle /\ edits = 0
    /\ sole = "saved" /\ orderly = TRUE

----------------------------------------------------------------------------
(* Editing: the handlers of server.go call State's methods. *)

Locked == \E r \in Requests : req[r].step = "inside"

AllIdle == \A r \in Requests : req[r].step = "idle"

Step(r, from, to) ==
    proc = "up" /\ req[r].step = from /\ req' = [req EXCEPT ![r].step = to]

\* The edit is done: the lock is released.
Leave(r, to) ==
    /\ proc = "up" /\ req[r].step = "inside"
    /\ req' = [req EXCEPT ![r].step = to, ![r].op = NoOp]

\* A remove has no fields to be wrong, and settings have no name.
Asked == {op \in Ops :
    /\ op.ver = edits' /\ op.glob = "changed"
    /\ op.kind = "remove" => op.ok
    /\ op.kind = "set" => op.name = Localhost}

\* A handler has passed its own checks of the form and takes the lock.  With
\* the web interface off there is no handler.
Enter(r) ==
    /\ proc = "up" /\ glob # "empty" /\ req[r].step = "idle" /\ ~Locked
    /\ edits < MaxEdits /\ edits' = edits + 1
    /\ \E op \in Asked :
         /\ req' = [req EXCEPT ![r].step = "inside", ![r].op = op]
         /\ cyc' = [cyc EXCEPT !.quiet = @ /\ (op.kind = "remove" => cyc.step # "range")]
    /\ sole' = IF AllIdle THEN r ELSE "nobody"
    /\ orderly' = (orderly /\ AllIdle)
    /\ UNCHANGED <<proc, heap, live, glob, file, metrics>>

NewEntry(op) == [name |-> op.name, ver |-> op.ver, ok |-> op.ok]

Found(op) == \E i \in 1 .. live.len : heap[live.arr][i].name = op.name

First(op) == {i \in 1 .. live.len :
    /\ heap[live.arr][i].name = op.name
    /\ \A k \in 1 .. i - 1 : heap[live.arr][k].name # op.name}

Fits == live.len < Len(heap[live.arr])

\* The array with the list moved to its front.
Compacted(list) ==
    [i \in DOMAIN heap[live.arr] |-> IF i <= Len(list) THEN list[i] ELSE heap[live.arr][i]]

\* What the edit makes of the array of the live slice.
After(op) ==
    CASE op.kind = "add" /\ Fits -> {[heap[live.arr] EXCEPT ![live.len + 1] = NewEntry(op)]}
      [] op.kind = "edit" -> {[heap[live.arr] EXCEPT ![i] = NewEntry(op)] : i \in First(op)}
      [] op.kind = "remove" -> {Compacted(list) : list \in Without(Current, op.name)}
      [] OTHER -> {}

EditKeeps == UNCHANGED <<proc, file, edits, cyc, sole, orderly>>

\* Mutant: the slice keeps its length when a server is removed.
MutRemoveServer(r) ==
    /\ req[r].op.kind = "remove" /\ Leave(r, "snapshot")
    /\ \E list \in Without(Current, req[r].op.name) :
         heap' = [heap EXCEPT ![live.arr] = Compacted(list)]
    /\ metrics' = metrics \ {req[r].op.name}
    /\ UNCHANGED <<live, glob>> /\ EditKeeps

\* The servers that stay move to the front of the same array.
RemoveServer(r) ==
    /\ req[r].op.kind = "remove" /\ Leave(r, "snapshot")
    /\ \E list \in Without(Current, req[r].op.name) :
         /\ heap' = [heap EXCEPT ![live.arr] = Compacted(list)]
         /\ live' = [live EXCEPT !.len = Len(list)]
    /\ metrics' = metrics \ {req[r].op.name}
    /\ UNCHANGED glob /\ EditKeeps

\* append uses a free slot of the array, or a new array.
AddServer(r) ==
    /\ req[r].op.kind = "add" /\ Leave(r, "snapshot")
    /\ \/ /\ Fits
          /\ heap' = [heap EXCEPT ![live.arr][live.len + 1] = NewEntry(req[r].op)]
          /\ live' = [live EXCEPT !.len = @ + 1]
       \/ /\ ~Fits
          /\ \E n \in 0 .. Spare :
               heap' = Append(heap, Padded(Append(Current, NewEntry(req[r].op)), n))
          /\ live' = [arr |-> Len(heap) + 1, len |-> live.len + 1]
    /\ UNCHANGED <<glob, metrics>> /\ EditKeeps

\* A probe is added, imported or removed.
UpdateServer(r) ==
    /\ req[r].op.kind = "edit" /\ Leave(r, "snapshot")
    /\ \E i \in First(req[r].op) :
         heap' = [heap EXCEPT ![live.arr][i] = NewEntry(req[r].op)]
    /\ UNCHANGED <<live, glob, metrics>> /\ EditKeeps

NotFound(r) ==
    /\ req[r].op.kind = "edit" /\ ~Found(req[r].op) /\ Leave(r, "done")
    /\ UNCHANGED <<heap, live, glob, metrics>> /\ EditKeeps

\* The settings are checked, with the servers as they are, before they count.
UpdateGlobalSettings(r) ==
    /\ req[r].op.kind = "set"
    /\ IF req[r].op.ok /\ Accepted(Current)
       THEN Leave(r, "snapshot") /\ glob' = req[r].op.glob
       ELSE Leave(r, "done") /\ UNCHANGED glob
    /\ UNCHANGED <<heap, live, metrics>> /\ EditKeeps

Apply(r) ==
    \/ RemoveServer(r) \/ AddServer(r) \/ UpdateServer(r) \/ NotFound(r)
    \/ UpdateGlobalSettings(r)

----------------------------------------------------------------------------
(* Saving: SaveConfig copies the slice, not the servers. *)

SaveKeeps == UNCHANGED <<proc, heap, live, glob, metrics, cyc, edits, sole>>

\* Under the lock for reading.
Snapshot(r) ==
    /\ ~Locked
    /\ proc = "up" /\ req[r].step = "snapshot"
    /\ req' = [req EXCEPT ![r].step = "validate",
                          ![r].copy = [arr |-> live.arr, len |-> live.len, glob |-> glob]]
    /\ UNCHANGED <<file, orderly>> /\ SaveKeeps

\* A server that is being overwritten, read word by word.
Torn(old, new) ==
    {e \in Entries : e.ver = -1 /\ e.name = IF old.name = new.name THEN old.name ELSE Garbage}

\* What a reader without the lock may find in a slot.
Readable(a, i) ==
    LET old == heap[a][i]
        news == UNION {{b[i] : b \in After(req[w].op)} :
                         w \in {w \in Requests : req[w].step = "inside" /\ live.arr = a}}
    IN {old} \cup UNION {{new} \cup Torn(old, new) : new \in news \ {old}}

\* Validate and yaml.Marshal each go through the servers of the copy.
Read(r) ==
    /\ proc = "up" /\ req[r].step \in {"validate", "marshal"}
    /\ Len(req[r].read) < req[r].copy.len
    /\ \E e \in Readable(req[r].copy.arr, Len(req[r].read) + 1) :
         req' = [req EXCEPT ![r].read = Append(@, e)]
    /\ UNCHANGED <<file, orderly>> /\ SaveKeeps

ReadAll(r) == Len(req[r].read) = req[r].copy.len

\* Mutant: Save does not validate.
MutValidate(r) ==
    /\ proc = "up" /\ req[r].step = "validate" /\ ReadAll(r)
    /\ req' = [req EXCEPT ![r].step = "marshal", ![r].read = <<>>]
    /\ UNCHANGED <<file, orderly>> /\ SaveKeeps

Validate(r) ==
    /\ proc = "up" /\ req[r].step = "validate" /\ ReadAll(r)
    /\ req' = [req EXCEPT ![r].step = IF Accepted(req[r].read) THEN "marshal" ELSE "done",
                          ![r].read = <<>>]
    /\ UNCHANGED <<file, orderly>> /\ SaveKeeps

Marshal(r) ==
    /\ Step(r, "marshal", "open") /\ ReadAll(r)
    /\ UNCHANGED <<file, orderly>> /\ SaveKeeps

\* os.WriteFile opens the file and leaves nothing in it.
Truncate(r) ==
    /\ Step(r, "open", "write")
    /\ file' = [kind |-> "empty", list |-> <<>>, glob |-> "empty"]
    /\ UNCHANGED orderly /\ SaveKeeps

OpenFails(r) ==
    /\ Step(r, "open", "done")
    /\ UNCHANGED <<file, orderly>> /\ SaveKeeps

Writers == {r \in Requests : req[r].step = "write"}

\* It writes from the start of the file: what another save has put there since
\* is overwritten, except for its end when that is longer; one that is writing
\* too may overwrite any of it.
Write(r) ==
    /\ proc = "up" /\ req[r].step = "write"
    /\ req' = [req EXCEPT ![r].step = "done", ![r].saved = TRUE]
    /\ \E kind \in IF file.kind = "empty" /\ \A w \in Writers : w = r
                   THEN {"whole"} ELSE {"whole", "mixed"} :
         file' = [kind |-> kind, list |-> req[r].read, glob |-> req[r].copy.glob]
    /\ UNCHANGED orderly /\ SaveKeeps

\* The lists that the beginning of a file may hold: the servers before the cut,
\* and perhaps the one it goes through, with the fields that were written.
Beginnings(list) ==
    {SubSeq(list, 1, n) : n \in 0 .. Len(list)}
    \cup {Append(SubSeq(list, 1, n - 1), [list[n] EXCEPT !.ver = -1]) : n \in 1 .. Len(list)}

\* What a write that is cut short may leave.  The settings follow the servers.
CutShort(r) ==
    {[kind |-> "partial", list |-> list, glob |-> "empty"] : list \in Beginnings(req[r].read)}
    \cup {[kind |-> "partial", list |-> req[r].read, glob |-> req[r].copy.glob]}

\* The disk is full.
WriteFails(r) ==
    /\ Step(r, "write", "done")
    /\ file' \in CutShort(r)
    /\ UNCHANGED orderly /\ SaveKeeps

\* The operator is redirected to the page, with or without an error.
Reply(r) ==
    /\ proc = "up" /\ req[r].step = "done"
    /\ req' = [req EXCEPT ![r] = NoRequest]
    /\ sole' = IF sole = r THEN (IF req[r].saved THEN "saved" ELSE "nobody") ELSE sole
    /\ UNCHANGED <<proc, heap, live, glob, file, metrics, cyc, edits, orderly>>

SaveConfig(r) ==
    \/ Snapshot(r) \/ Read(r) \/ Validate(r) \/ Marshal(r)
    \/ Truncate(r) \/ OpenFails(r) \/ Write(r) \/ WriteFails(r)

----------------------------------------------------------------------------
(* The collector: its loop over the servers takes no lock. *)

CycleKeeps == UNCHANGED <<proc, heap, live, glob, req, file, edits, sole, orderly>>

\* range copies the slice once.  (A length read with an older array, when
\* append has just moved the servers, ends the process: Restart.)
BeginCycle ==
    /\ proc = "up" /\ cyc.step = "idle"
    /\ cyc' = [step |-> "range", arr |-> live.arr, len |-> live.len, polled |-> <<>>,
               due |-> [i \in 1 .. live.len |-> Current[i].name],
               quiet |-> \A r \in Requests :
                           req[r].step = "inside" => req[r].op.kind # "remove"]
    /\ UNCHANGED metrics /\ CycleKeeps

\* Mutant: the loop looks at the live length in every round.
MutSpawn ==
    /\ proc = "up" /\ cyc.step = "range" /\ Len(cyc.polled) < live.len
    /\ \E e \in Readable(live.arr, Len(cyc.polled) + 1) :
         cyc' = [cyc EXCEPT !.polled = Append(@, e.name), !.len = live.len]
    /\ UNCHANGED metrics /\ CycleKeeps

Spawn ==
    /\ proc = "up" /\ cyc.step = "range" /\ Len(cyc.polled) < cyc.len
    /\ \E e \in Readable(cyc.arr, Len(cyc.polled) + 1) :
         cyc' = [cyc EXCEPT !.polled = Append(@, e.name)]
    /\ UNCHANGED metrics /\ CycleKeeps

Wait ==
    /\ proc = "up" /\ cyc.step = "range" /\ Len(cyc.polled) = cyc.len
    /\ cyc' = [cyc EXCEPT !.step = "publish"]
    /\ UNCHANGED metrics /\ CycleKeeps

\* State.Update, under the lock.
Update ==
    /\ proc = "up" /\ cyc.step = "publish" /\ ~Locked
    /\ metrics' = metrics \cup {cyc.polled[i] : i \in DOMAIN cyc.polled}
    /\ cyc' = NoCycle
    /\ CycleKeeps

----------------------------------------------------------------------------
(* The process ends at any step and is started again by systemd. *)

\* A write that was under way is cut short.
LeftBehind == {file} \cup UNION {CutShort(r) : r \in Writers}

Loads(f) == f.kind \in {"none", "empty"} \/ Accepted(f.list)

\* LoadOrDefault, the diagnostic server, the filter, and a new State.
Restart ==
    /\ proc = "up"
    /\ file' \in LeftBehind /\ Loads(file')
    /\ \E list \in Started(file'.list), n \in 0 .. Spare :
         heap' = <<Padded(list, n)>> /\ live' = [arr |-> 1, len |-> Len(list)]
    /\ glob' = GlobOf(file')
    /\ req' = [r \in Requests |-> NoRequest]
    /\ metrics' = {} /\ cyc' = NoCycle
    /\ sole' = "saved"
    /\ UNCHANGED <<proc, edits, orderly>>

\* Load refuses the file, or cannot read what is in it.
StartFails ==
    /\ proc = "up"
    /\ file' \in LeftBehind
    /\ file'.kind \in {"mixed", "partial"} \/ ~Loads(file')
    /\ proc' = "down"
    /\ req' = [r \in Requests |-> NoRequest]
    /\ metrics' = {} /\ cyc' = NoCycle
    /\ sole' = IF sole = "saved" THEN sole ELSE "nobody"
    /\ UNCHANGED <<heap, live, glob, edits, orderly>>

\* Until somebody repairs the file.
Down == proc = "down" /\ UNCHANGED vars

Handler(r) == Apply(r) \/ SaveConfig(r) \/ Reply(r)

Next ==
    \/ \E r \in Requests : Enter(r) \/ Handler(r)
    \/ BeginCycle \/ Spawn \/ Wait \/ Update
    \/ Restart \/ StartFails \/ Down

Spec == Init /\ [][Next]_vars

----------------------------------------------------------------------------
(* Properties. *)

TypeOK ==
    /\ proc \in {"up", "down"}
    /\ heap \in Seq(Seq(Entries))
    /\ live \in [arr : Nat, len : Nat]
    /\ glob \in Globals
    /\ req \in [Requests -> [step : ReqSteps, op : Ops, read : Seq(Entries), saved : BOOLEAN,
                             copy : [arr : Nat, len : Nat, glob : Globals]]]
    /\ file \in Files
    /\ metrics \subseteq Names \cup {Garbage}
    /\ cyc \in [step : {"idle", "range", "publish"}, arr : Nat, len : Nat, quiet : BOOLEAN,
                polled : Seq(Names \cup {Garbage}), due : Seq(Names \cup {Garbage})]
    /\ edits \in 0 .. MaxEdits
    /\ sole \in Requests \cup {"saved", "nobody"}
    /\ orderly \in BOOLEAN

\* The configuration in effect and the one a restart would have.
Store == INSTANCE ConfigStore WITH
  config <- [list |-> Current, glob |-> glob],
  next   <- IF sole = "saved" THEN [list |-> file.list, glob |-> GlobOf(file)]
            ELSE [list |-> <<>>, glob |-> "unknown"]

\* Whatever the handlers do to the array they share, the configuration they
\* see changes by whole edits only; and what a request has saved while nobody
\* else was at work is what a restart brings back.
ImplementsConfigStore == Store!Spec

\* "Validate checks a configuration that was loaded or assembled": operators
\* who take turns, whatever they enter, keep WatchSSH from starting again in one
\* case only: the last write was cut short, by a full disk or the end of the
\* process, and no save has come through since.
StartsAgain == orderly /\ proc = "down" => file.kind = "partial"

\* "collect queries all servers concurrently": a round asks every server that
\* was configured when it began, each once, unless one is removed meanwhile.
EveryServerPolled == cyc.step = "publish" /\ cyc.quiet => cyc.polled = cyc.due
=============================================================================
