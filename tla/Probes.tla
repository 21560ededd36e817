-------------------------------- MODULE Probes --------------------------------
(***************************************************************************)
(* The probes of one server: the operator adds, imports and removes them   *)
(* on the servers page, each change is saved, and meanwhile the collector  *)
(* goes through the lists it has found (web/server.go, monitor.go).        *)
(*                                                                         *)
(* A list of probes is a slice whose array the collector shares with the   *)
(* handlers.  The handlers take turns here and every save is written to    *)
(* the end: LiveConfig has what happens otherwise.                         *)
(***************************************************************************)
EXTENDS ProbeChecks, FiniteSets, SequencesExt

CONSTANTS
    Uses,      \* the sets of kinds a server may have probes of
    Tabs,      \* the pages operators have open
    MaxBorn,   \* bounds for checking, for each use: the probes that are added,
    MaxOpen    \*    and the pages on which a row has been picked

ASSUME UsesAssumption ==
    Uses \subseteq SUBSET Kinds /\ MaxBorn \in [Uses -> Nat] /\ MaxOpen \in [Uses -> Nat]

VARIABLES
    live,    \* the server in the live configuration
    file,    \* the server in the configuration file
    pages,   \* pages[t]: the row that the operator of page t is going to remove
    move,    \* the removal that is moving the probes behind it to the front
    cyc,     \* the collection in progress, with the wrong verdicts its last probe may get
    born,    \* the number given to the newest probe
    told     \* the probes an answer has called added and nobody has removed since

vars == <<live, file, pages, move, cyc, born, told>>

\* A list is its array and its length.
Slice(list) == [cells |-> list, len |-> Len(list)]

ListOf(slice) == SubSeq(slice.cells, 1, slice.len)

Used == DOMAIN live.lists

Current(k) == ListOf(live.lists[k])

IdsOf(list) == [i \in DOMAIN list |-> list[i].id]

AsFile(server) == [known |-> server.known, local |-> server.local,
                   lists |-> [k \in DOMAIN server.lists |-> ListOf(server.lists[k])]]

AsLive(server) ==
    [known |-> server.known, local |-> server.local,
     lists |-> [k \in DOMAIN server.lists |->
                  Slice([i \in DOMAIN server.lists[k] |->
                           applyDefaults(k, server.lists[k][i], server.local)])]]

NoRow == [kind |-> "ping", index |-> 0, id |-> 0, fresh |-> FALSE]

NoCycle == [step |-> "idle", view |-> <<>>, next |-> <<>>, due |-> <<>>,
            reported |-> <<>>, last |-> {}, platform |-> "unix", quiet |-> TRUE]

\* The probe a server may have from the start leaves everything to the defaults.
FirstProbe(k) == [id |-> 1, by |-> "file", blank |-> Defaults(k), extra |-> FALSE, legal |-> TRUE]

Init ==
    /\ \E used \in Uses, known, local \in BOOLEAN :
         \E lists \in [used -> {0, 1}] :
           /\ known \/ (~local /\ \A k \in used : lists[k] = 0)
           /\ file = [known |-> known, local |-> local,
                      lists |-> [k \in used |-> [i \in 1 .. lists[k] |-> FirstProbe(k)]]]
    /\ live = AsLive(file)
    /\ pages = [t \in Tabs |-> NoRow] /\ move = NoRow
    /\ cyc = NoCycle /\ born = 1 /\ told = {}

----------------------------------------------------------------------------
(* Saving.  A local server passes whatever its probes are. *)

Savable(server) ==
    ~server.known \/ server.local
    \/ \A k \in DOMAIN server.lists :
         \A i \in 1 .. server.lists[k].len : Valid(k, server.lists[k].cells[i])

Save(server) == file' = IF Savable(server) THEN AsFile(server) ELSE file

\* The pages whose rows of a kind are no longer where they were.
Outdated(kinds) ==
    [t \in Tabs |-> IF pages[t].kind \notin kinds THEN pages[t]
                    ELSE [pages[t] EXCEPT !.fresh = FALSE, !.id = 0]]

----------------------------------------------------------------------------
(* Adding.  ping is a single probe; the others go to the end of their list, *)
(* in the same array when it has room for one more.                        *)

\* Mutant: the new probe comes first.
MutAppended(slice, p) == Slice(<<p>> \o ListOf(slice))

Appended(slice, p) ==
    IF slice.len < Len(slice.cells)
    THEN [cells |-> [slice.cells EXCEPT ![slice.len + 1] = p], len |-> slice.len + 1]
    ELSE Slice(Append(slice.cells, p))

With(k, p) == [live EXCEPT !.lists[k] = IF k = "ping" THEN Slice(<<p>>) ELSE Appended(@, p)]

\* The collector keeps the old array when append has to take a new one.
Keeps(k) ==
    IF cyc.step = "idle" \/ live.lists[k].len < Len(live.lists[k].cells) THEN {cyc}
    ELSE {cyc, [cyc EXCEPT !.view[k] =
                  IF cyc.view[k].own THEN @
                  ELSE [own |-> TRUE, cells |-> live.lists[k].cells, len |-> @.len]]}

Entry(k, p) == [kind |-> k, id |-> p.id, by |-> p.by]

Entries(k, list) == {Entry(k, list[i]) : i \in DOMAIN list}

\* Adding a ping probe replaces the one there is.
Replaced(k) == IF k = "ping" THEN Entries(k, Current(k)) ELSE {}

\* Mutant: the answer does not wait for the save.
MutAdd(k, p) ==
    /\ live' = With(k, p) /\ Save(With(k, p))
    /\ cyc' \in Keeps(k)
    /\ born' = born + 1
    /\ told' = (told \ Replaced(k)) \cup {Entry(k, p)}
    /\ pages' = Outdated(IF k = "ping" THEN {k} ELSE {})
    /\ UNCHANGED move

Add(k, p) ==
    /\ live' = With(k, p) /\ Save(With(k, p))
    /\ cyc' \in Keeps(k)
    /\ born' = born + 1
    /\ told' = (told \ Replaced(k)) \cup (IF Savable(With(k, p)) THEN {Entry(k, p)} ELSE {})
    /\ pages' = Outdated(IF k = "ping" THEN {k} ELSE {})
    /\ UNCHANGED move

New(by, blank, extra, legal) ==
    [id |-> born + 1, by |-> by, blank |-> blank, extra |-> extra, legal |-> legal]

Idle == move = NoRow /\ born <= MaxBorn[Used]

MayAdd == live.known /\ Idle

\* A form that is not complete changes nothing.
handleAddProbe ==
    \E k \in Used \cap ProbeFormKinds, extra \in BOOLEAN, legal \in BOOLEAN :
      /\ MayAdd /\ (legal \/ k \in UncheckedValues)
      /\ Add(k, New("page", {}, extra, legal))

\* The values a bundle may leave blank: none, those that have a default, or
\* also one that has none.
Bundled(k) == {{}, Defaults(k)} \cup (IF Needs(k) = {} THEN {} ELSE {Defaults(k) \cup {"target"}})

\* mergeChecks puts the imported probes behind those there are.
handleImportProbes ==
    \E k \in Used : \E blank \in Bundled(k), extra \in BOOLEAN :
      /\ MayAdd
      /\ Add(k, normalizeImportedChecks(k, New("bundle", blank, extra, TRUE), live.local))

\* The form for a new server: its answer does not wait for the save.
handleAddServer ==
    /\ ~live.known /\ Idle
    /\ \E local, profile \in BOOLEAN, kinds \in SUBSET Used :
         LET Set(k) == IF profile THEN applyServerProfile(k) ELSE checksFromServerForm(k)
             server ==
               [known |-> TRUE, local |-> local,
                lists |-> [k \in Used |->
                   Slice(IF k \in kinds THEN <<New("form", Set(k), FALSE, TRUE)>> ELSE <<>>)]]
         IN /\ kinds \subseteq IF profile THEN ProfileKinds ELSE ServerFormKinds
            /\ live' = server /\ Save(server)
            /\ told' = UNION {Entries(k, ListOf(server.lists[k])) : k \in kinds}
    /\ born' = born + 1
    /\ UNCHANGED <<pages, move, cyc>>

----------------------------------------------------------------------------
(* Removing: a page names the kind and the index of a row it has shown. *)

\* The operator looks at the page and picks a row.
probeRows(t) ==
    /\ live.known /\ Cardinality({u \in Tabs \ {t} : pages[u] # NoRow}) < MaxOpen[Used]
    /\ \E k \in Used : \E i \in 1 .. live.lists[k].len :
         pages' = [pages EXCEPT ![t] =
                     [kind |-> k, index |-> i, id |-> Current(k)[i].id, fresh |-> TRUE]]
    /\ UNCHANGED <<live, file, move, cyc, born, told>>

Without(slice, index) ==
    [cells |-> SubSeq(slice.cells, 1, index - 1)
               \o SubSeq(slice.cells, index + 1, slice.len)
               \o SubSeq(slice.cells, slice.len, Len(slice.cells)),
     len   |-> slice.len - 1]

removeProbe(row) ==
    [live EXCEPT !.lists[row.kind] = IF row.kind = "ping" THEN Slice(<<>>) ELSE Without(@, row.index)]

\* The handler has the lock and starts to move the probes behind the row.
StartRemoval(t) ==
    /\ live.known /\ move = NoRow /\ pages[t] # NoRow
    /\ pages[t].index <= live.lists[pages[t].kind].len
    /\ move' = pages[t]
    /\ pages' = [pages EXCEPT ![t] = NoRow]
    /\ cyc' = [cyc EXCEPT !.quiet = @ /\ cyc.step = "idle"]
    /\ UNCHANGED <<live, file, born, told>>

\* "Probe was not found": the list has become shorter, or the server is gone.
NotFound(t) ==
    /\ move = NoRow /\ pages[t] # NoRow
    /\ ~live.known \/ pages[t].index > live.lists[pages[t].kind].len
    /\ pages' = [pages EXCEPT ![t] = NoRow]
    /\ UNCHANGED <<live, file, move, cyc, born, told>>

Removed == Current(move.kind)[move.index]

handleRemoveProbe ==
    /\ move # NoRow
    /\ LET server == removeProbe(move)
       IN /\ live' = server /\ Save(server)
          /\ told' = told \ {Entry(move.kind, Removed)}
    /\ pages' = Outdated({move.kind})
    /\ move' = NoRow
    /\ UNCHANGED <<cyc, born>>

----------------------------------------------------------------------------
(* Collecting. *)

\* Whether the probe is one that a pass runs.
runConnectivityChecks(k, p) == k \in NetworkKinds /\ ~(k = "tcp" /\ p.extra)

runLocalConnectivityChecks(k, p) == k # "ping" /\ runConnectivityChecks(k, p)

gatherAll(k, platform) == k = "custom" \/ (k \in ToolKinds /\ platform # "windows")

\* Mutant: the second pass does not look at the source.
MutrunTargetPortChecks(k, p) == k = "tcp"

runTargetPortChecks(k, p) == k = "tcp" /\ p.extra

\* The monitor's own probes come first, then those over the connection.
Runs(k, p) ==
    IF cyc.step = "monitor"
    THEN IF live.local THEN runLocalConnectivityChecks(k, p) ELSE runConnectivityChecks(k, p)
    ELSE gatherAll(k, cyc.platform) \/ (~live.local /\ runTargetPortChecks(k, p))

\* What is to be reported of a list: who it is, and whether the target dials.
Expect(k, list) ==
    [i \in DOMAIN list |-> [id |-> list[i].id, dials |-> k = "tcp" /\ list[i].extra]]

CycleKeeps == UNCHANGED <<live, file, pages, move, born, told>>

\* collect takes the struct of the server; its slices share their arrays.
BeginRound ==
    /\ cyc.step = "idle" /\ live.known
    /\ cyc' = [step |-> "monitor", platform |-> "unix",
               view |-> [k \in Used |-> [own |-> k = "ping", cells |-> live.lists[k].cells,
                                         len |-> live.lists[k].len]],
               next |-> [k \in Used |-> 1], reported |-> [k \in Used |-> <<>>], last |-> {},
               due |-> [k \in Used |-> Expect(k, Current(k))], quiet |-> move = NoRow]
    /\ CycleKeeps

\* A probe that is being overwritten.
Torn == [id |-> 0, by |-> "file", blank |-> {}, extra |-> FALSE, legal |-> TRUE]

\* What the loop finds: the array of the list, perhaps while it is moved.
Found(k) ==
    LET view == cyc.view[k]
        i == cyc.next[k]
        here == live.lists[k].cells[i]
        there == removeProbe(move).lists[k].cells[i]
    IN IF view.own THEN {view.cells[i]}
       ELSE IF move.kind # k \/ move = NoRow \/ there = here THEN {here}
       ELSE {here, there, Torn}

\* Mutant: the loop goes to the end of the array.
MutcollectServer(k) ==
    /\ cyc.step \in {"monitor", "target"} /\ cyc.next[k] <= Len(cyc.view[k].cells)
    /\ cyc' = [cyc EXCEPT !.next[k] = @ + 1, !.last = {}]
    /\ CycleKeeps

\* Whatever it meets, the probe is OK or not; here is where it should not be so.
Wrong(k, p) ==
    {[kind |-> k, probe |-> p, local |-> live.local, world |-> w, ok |-> Verdict(k, p, w)] :
       w \in {v \in Worlds : Verdict(k, p, v) # Met(k, p, v, live.local)}}

collectServer(k) ==
    /\ cyc.step \in {"monitor", "target"} /\ cyc.next[k] <= cyc.view[k].len
    /\ \E p \in Found(k) :
         cyc' = [cyc EXCEPT
                   !.next[k] = @ + 1,
                   !.reported[k] = IF Runs(k, p) THEN Append(@, p.id) ELSE @,
                   !.last = IF Runs(k, p) THEN Wrong(k, p) ELSE {}]
    /\ CycleKeeps

PassEnds == \A k \in DOMAIN cyc.view : cyc.next[k] > cyc.view[k].len

\* The connection, or the collection of the system's own metrics, fails.
Unavailable ==
    /\ cyc.step = "monitor" /\ PassEnds
    /\ cyc' = [cyc EXCEPT !.step = "failed", !.last = {}]
    /\ CycleKeeps

Connected ==
    /\ cyc.step = "monitor" /\ PassEnds
    /\ \E platform \in {"unix", "windows"} :
         cyc' = [cyc EXCEPT !.step = "target", !.platform = platform, !.last = {},
                            !.next = [k \in DOMAIN cyc.next |-> 1]]
    /\ CycleKeeps

Collected ==
    /\ cyc.step = "target" /\ PassEnds
    /\ cyc' = [cyc EXCEPT !.step = "done", !.last = {}]
    /\ CycleKeeps

EndRound ==
    /\ cyc.step \in {"done", "failed"}
    /\ cyc' = NoCycle
    /\ CycleKeeps

----------------------------------------------------------------------------
(* WatchSSH is stopped at any step and reads its file again. *)

Restart ==
    /\ live' = AsLive(file)
    /\ pages' = Outdated({k \in Used : IdsOf(Current(k)) # IdsOf(file.lists[k])})
    /\ move' = NoRow /\ cyc' = NoCycle
    /\ UNCHANGED <<file, born, told>>

Next ==
    \/ handleAddProbe \/ handleImportProbes \/ handleAddServer
    \/ \E t \in Tabs : probeRows(t) \/ StartRemoval(t) \/ NotFound(t)
    \/ handleRemoveProbe
    \/ BeginRound \/ (\E k \in Used : cyc.step # "idle" /\ collectServer(k))
    \/ Unavailable \/ Connected \/ Collected \/ EndRound
    \/ Restart

Spec == Init /\ [][Next]_vars
----------------------------------------------------------------------------
(* Properties. *)

Slices == [cells : Seq(Probes), len : Nat]

Views == [own : BOOLEAN, cells : Seq(Probes), len : Nat]

Rows == [kind : Kinds, index : Nat, id : Nat, fresh : BOOLEAN]

Results == [kind : Kinds, probe : Probes, local : BOOLEAN, world : Worlds, ok : BOOLEAN]

Rounds ==
    [step : {"monitor", "target", "failed", "done"}, view : [Used -> Views], next : [Used -> Nat],
     due : [Used -> Seq([id : Nat, dials : BOOLEAN])], reported : [Used -> Seq(Nat)],
     last : SUBSET Results,
     platform : {"unix", "windows"}, quiet : BOOLEAN]

\* The type invariant: the collector stays within its lists, and no list ever
\* gets shorter than empty.
TypeOK ==
    /\ Used \in Uses
    /\ live \in [known : BOOLEAN, local : BOOLEAN, lists : [Used -> Slices]]
    /\ file \in [known : BOOLEAN, local : BOOLEAN, lists : [Used -> Seq(Probes)]]
    /\ pages \in [Tabs -> Rows] /\ move \in Rows
    /\ cyc = NoCycle \/ cyc \in Rounds
    /\ \A k \in DOMAIN cyc.view :
         cyc.view[k].len <= Len(cyc.view[k].cells) /\ cyc.next[k] \in 1 .. cyc.view[k].len + 1
    /\ born \in 1 .. MaxBorn[Used] + 1
    /\ told \subseteq [kind : Kinds, id : Nat, by : Origins]

\* The probes that README and comments except: a local server is not pinged
\* and has no connection to dial from, and Windows has none of the utilities.
Reportable(k, probe) ==
    /\ live.local => k # "ping" /\ ~probe.dials
    /\ cyc.platform = "windows" => k \notin ToolKinds

\* The results of the probes that are dialled from the target come last.
Before(due, i, j) == IF due[i].dials = due[j].dials THEN i < j ELSE due[j].dials

\* The results are those of the probes at these places of the list, each once
\* and one before the other.
ReportOf(reported, due, places) ==
    \E at \in [DOMAIN reported -> places] :
      /\ \A i \in places : \E n \in DOMAIN reported : at[n] = i
      /\ \A m, n \in DOMAIN reported : m < n => Before(due, at[m], at[n])
      /\ \A n \in DOMAIN reported : reported[n] = due[at[n]].id

\* collectServer: a collection that succeeds reports every probe the server had
\* when it began, each once and in its place, unless one is removed meanwhile.
EveryProbeReported ==
    cyc.step = "done" /\ cyc.quiet =>
      \A k \in DOMAIN cyc.due :
        ReportOf(cyc.reported[k], cyc.due[k],
                 {i \in DOMAIN cyc.due[k] : Reportable(k, cyc.due[k][i])})

\* Where the code says OK without having seen it: what ProbeChecks calls hidden,
\* its own shell, and no digest for one that was left blank.
SeesTooLittle(r) ==
    \/ r.world.thing = "hidden" /\ r.kind \in {"dns", "trace", "listening", "journal", "log"}
    \/ r.world.thing = "hidden" /\ r.probe.extra /\ r.kind \in {"http", "file", "directory"}
    \/ r.kind = "process" /\ ~ByName(r.probe, r.world)
    \/ r.kind = "hash" /\ ~Given(r.probe)

\* Where it fails without a reason: what ProbeChecks calls missed, packets that
\* take longer than the deadline, and a timeout of zero that an import leaves.
GivesUpEarly(r) ==
    \/ r.world.thing = "missed"
         /\ r.kind \in {"dns", "trace", "process", "listening", "journal", "file"}
    \/ r.world.thing = "missed" /\ r.probe.extra /\ r.kind \in {"banner", "http", "ssh"}
    \/ r.kind = "ping" /\ r.probe.extra
    \/ r.kind \in {"dns", "tls"} /\ r.probe.by = "bundle"

\* Check types of config.go: apart from those, and from the tcp probe of a local
\* server that names another host, a probe is OK when what it asks for is so, and
\* only then, however its fields came to be filled in.
VerdictsAreRight ==
    \A r \in cyc.last :
      \/ Elsewhere(r.kind, r.probe, r.local)
      \/ IF r.ok THEN SeesTooLittle(r) ELSE GivesUpEarly(r)

\* handleAddProbe, handleImportProbes: what was answered "added" or "imported"
\* is in the file until somebody removes it, whatever is entered, refused or
\* stopped in between.
Kept(by) == \A e \in told : e.by \in by => e \in Entries(e.kind, file.lists[e.kind])

ToldIsKept == Kept({"page", "bundle"})

\* "Changes are saved to the active configuration file."
FormsAreSaved == Kept({"form"})

\* handleRemoveProbe: a row is removed that the operator saw, unless another of
\* its kind has gone since, or a restart has brought back an older file.
RemovesWhatWasShown == move # NoRow /\ move.fresh => Removed.id = move.id

\* applyDefaults: a restart changes no verdict of a probe that is still there.
\* (Of an imported dns or tls probe it does, see GivesUpEarly.)
RestartKeepsVerdicts ==
    [][Restart => \A k \in Used : \A i \in DOMAIN Current(k), j \in DOMAIN Current(k)' :
         LET p == Current(k)[i]
             q == Current(k)'[j]
         IN p.id = q.id /\ ~(k \in {"dns", "tls"} /\ p.by = "bundle")
              => \A w \in Worlds : Verdict(k, p, w) = Verdict(k, q, w)]_vars
----------------------------------------------------------------------------
(* The inductive invariant. *)

\* What a list is is within its array, there is one ping probe at most, and a
\* server that is not known has none of any kind.
\* A collection has begun with a known server, and the arrays it shares have
\* not become shorter; the single ping probe it shares with nobody.
ListsInv ==
    /\ \A k \in Used : live.lists[k].len <= Len(live.lists[k].cells)
    /\ \A k \in Used \cap {"ping"} : live.lists[k].len <= 1 /\ Len(file.lists[k]) <= 1
    /\ ~live.known => \A k \in Used : live.lists[k].len = 0
    /\ ~file.known => \A k \in Used : file.lists[k] = <<>>
    /\ cyc.step # "idle" => live.known
    /\ \A k \in DOMAIN cyc.view : ~cyc.view[k].own =>
         k # "ping" /\ cyc.view[k].len <= Len(live.lists[k].cells)

\* A row that is still where it was shown.
InPlace(row) ==
    row.fresh => /\ row.index <= live.lists[row.kind].len
                 /\ live.lists[row.kind].cells[row.index].id = row.id

Picked(row) == row # NoRow => row.kind \in Used /\ row.index > 0

RowsInv ==
    /\ \A t \in Tabs : Picked(pages[t]) /\ InPlace(pages[t])
    /\ Picked(move) /\ InPlace(move)
    /\ move # NoRow => live.known /\ move.index <= live.lists[move.kind].len

\* An import leaves the timeout of a lookup or of a certificate blank, and
\* nothing else does where it matters.
OnTime(k, p) ==
    k \in {"tcp", "http", "dns", "tls"} /\ ~Timed(p) => k \in {"dns", "tls"} /\ p.by = "bundle"

\* The probes in the array of a list, those in the file, and those in the array
\* that a collection goes through.
Cells(k) == {live.lists[k].cells[i] : i \in DOMAIN live.lists[k].cells}

Lines(k) == {file.lists[k][i] : i \in DOMAIN file.lists[k]}

Viewed(k) == {cyc.view[k].cells[i] : i \in DOMAIN cyc.view[k].cells}

TimesInv ==
    /\ \A k \in Used : \A p \in Cells(k) : OnTime(k, p)
    /\ \A k \in DOMAIN cyc.view : \A p \in Viewed(k) : OnTime(k, p)

\* Those of one number are the same probe, but for the defaults of a restart.
Alike(k, p, q) ==
    p.extra = q.extra /\ (k \in ToolKinds => ("target" \in p.blank <=> "target" \in q.blank))

NumbersInv ==
    \A k \in Used : \A p \in Cells(k) \cup Lines(k) :
      p.id <= born /\ \A q \in Cells(k) \cup Lines(k) : p.id = q.id => Alike(k, p, q)

\* What is told is in the file, and would be in the next one.
ToldInv ==
    \A e \in told : e.by \in {"page", "bundle"} =>
      /\ e.kind \in Used
      /\ e \in Entries(e.kind, Current(e.kind)) /\ e \in Entries(e.kind, file.lists[e.kind])

\* What a collection is going to find at a place of a list.
Cell(k, i) == IF cyc.view[k].own THEN cyc.view[k].cells[i] ELSE live.lists[k].cells[i]

\* That is what was there when it began.
Foreseen(k) ==
    /\ Len(cyc.due[k]) = cyc.view[k].len
    /\ ~cyc.view[k].own => cyc.view[k].len <= live.lists[k].len
    /\ \A i \in 1 .. cyc.view[k].len :
         /\ cyc.due[k][i].id = Cell(k, i).id
         /\ cyc.due[k][i].dials <=> (k = "tcp" /\ Cell(k, i).extra)

\* As long as nothing is removed.
QuietInv ==
    cyc.quiet /\ cyc.step # "idle" => move = NoRow /\ \A k \in Used : Foreseen(k)

\* The probes of a list that the passes have reported so far.
Covered(k) ==
    {i \in DOMAIN cyc.due[k] :
       /\ Reportable(k, cyc.due[k][i])
       /\ IF k \in NetworkKinds /\ ~cyc.due[k][i].dials
          THEN cyc.step = "monitor" => i < cyc.next[k]
          ELSE cyc.step # "monitor" /\ (cyc.step = "target" => i < cyc.next[k])}

ReportsInv ==
    cyc.quiet /\ cyc.step \in {"monitor", "target", "done"} =>
      \A k \in Used : ReportOf(cyc.reported[k], cyc.due[k], Covered(k))

IInv ==
    /\ TypeOK /\ ListsInv /\ RowsInv /\ TimesInv /\ NumbersInv /\ ToldInv
    /\ QuietInv /\ ReportsInv /\ VerdictsAreRight
=============================================================================
