------------------------------ MODULE ProbeKinds ------------------------------
(***************************************************************************)
(* The kinds of probe a server may have (config.Checks) and what the code  *)
(* does to the fields of one that are left blank: which ones config.Load   *)
(* fills, which ones the import of a bundle fills, which ones Validate     *)
(* insists on, and which ones the forms of the web interface set.          *)
(*                                                                         *)
(* A field is "target" (host, URL, path, unit, pattern or command, the     *)
(* port of listening, the digest of hash), "port", "source", "timeout",    *)
(* "name", "limit" (a count or a number of days, hops or minutes) or       *)
(* "option" (a method, protocol, algorithm, record type or priority).      *)
(* What else a probe may ask for is its "extra":                           *)
(*   ping       more packets than its deadline leaves time for             *)
(*   tcp        to be dialled from the target                              *)
(*   process    an executable for pidof instead of a pattern               *)
(*   http       another method than GET, or a text in the body             *)
(*   file       an age or a size                                           *)
(*   directory  the largest usage, or number of files                      *)
(*   others     the expected banner, answer, offset, fingerprint or output *)
(***************************************************************************)
EXTENDS Integers, Sequences

NetworkKinds == {"ping", "tcp", "banner", "http", "dns", "trace", "tls", "ntp", "ssh"}

PathKinds == {"file", "directory", "log", "hash", "certificate_file", "unix_socket"}

ToolKinds == PathKinds \cup {"service", "process", "listening", "journal", "command", "user"}

Kinds == NetworkKinds \cup ToolKinds \cup {"custom"}

FieldNames == {"target", "port", "source", "timeout", "name", "limit", "option"}

Origins == {"file", "form", "page", "bundle"}

\* legal: Validate finds nothing wrong with the values that are set.
Probes == [id : Nat, by : Origins, blank : SUBSET FieldNames, extra : BOOLEAN, legal : BOOLEAN]

----------------------------------------------------------------------------
(* What the start of WatchSSH fills in: applyDefaults. *)

NetworkDefaults ==
    [ping   |-> {"limit", "timeout"},
     tcp    |-> {"timeout", "source", "target"},
     banner |-> {"timeout"},
     http   |-> {"option", "limit", "timeout"},
     dns    |-> {"option", "timeout"},
     trace  |-> {"limit", "timeout"},
     tls    |-> {"port", "timeout"},
     ntp    |-> {"port", "timeout"},
     ssh    |-> {"name", "target", "port", "timeout"}]

TargetDefaults ==
    [service          |-> {"timeout"},
     process          |-> {"name", "limit", "timeout"},
     listening        |-> {"option", "timeout"},
     journal          |-> {"option", "limit", "timeout"},
     file             |-> {"name", "timeout"},
     directory        |-> {"name", "timeout"},
     log              |-> {"name", "limit", "timeout"},
     command          |-> {"name", "timeout"},
     hash             |-> {"name", "option", "timeout"},
     certificate_file |-> {"name", "limit", "timeout"},
     unix_socket      |-> {"name", "timeout"},
     user             |-> {"name", "timeout"}]

Defaults(k) ==
    IF k \in NetworkKinds THEN NetworkDefaults[k]
    ELSE IF k \in ToolKinds THEN TargetDefaults[k] ELSE {}

\* A name is taken from the target (that of hash from its path), and the target
\* of tcp and ssh, with the port of ssh, from the server: a local one has neither.
Missing(k, p, local) ==
    (IF "target" \in p.blank /\ k # "hash" THEN {"name"} ELSE {})
    \cup (IF ~local THEN {} ELSE IF k = "ssh" THEN {"target", "port"} ELSE {"target"})

applyDefaults(k, p, local) ==
    [p EXCEPT !.blank = @ \ (Defaults(k) \ Missing(k, p, local))]

----------------------------------------------------------------------------
(* What an import fills in: normalizeImportedChecks. *)

Normalized == {"ping", "tcp", "ssh", "http"} \cup ToolKinds

\* The port of ssh is 22 when the server has none, and its name follows the
\* host that was filled in.
normalizeImportedChecks(k, p, local) ==
    IF k \notin Normalized THEN p
    ELSE [p EXCEPT !.blank = @ \
           (Defaults(k) \ (Missing(k, p, local) \ (IF k # "ssh" THEN {}
                                                   ELSE IF local THEN {"port"} ELSE {"name"})))]

----------------------------------------------------------------------------
(* What Validate insists on.  It looks at no probe of a local server. *)

Needs(k) ==
    CASE k = "tcp"                      -> {"target", "port", "source"}
      [] k = "ssh"                      -> {"target", "port", "timeout"}
      [] k = "service"                  -> {"target"}
      [] k = "listening"                -> {"target", "option"}
      [] k \in {"process", "log"}       -> {"target", "limit", "timeout"}
      [] k = "hash"                     -> {"target", "option", "timeout"}
      [] k \in {"file", "directory", "command", "certificate_file", "unix_socket", "user"}
                                        -> {"target", "timeout"}
      [] OTHER                          -> {}

Valid(k, p) == p.legal /\ p.blank \cap Needs(k) = {}

----------------------------------------------------------------------------
(* What the forms set. *)

\* Mutant: no timeout is set.
MutchecksFromServerForm(k) == IF k = "tcp" THEN {"source", "target"} ELSE {"timeout"}

\* The form for a new server: a list of hosts, URLs or ports for each kind.
checksFromServerForm(k) == IF k = "tcp" THEN {"source", "target"} ELSE {}

\* Its profiles: ports, a health URL, a lookup and a certificate, or ping.
applyServerProfile(k) ==
    IF k = "tcp" THEN {"source", "target"} ELSE IF k = "http" THEN {"option"} ELSE {}

ProfileKinds == {"ping", "tcp", "http", "dns", "tls"}

ServerFormKinds == (NetworkKinds \ {"ssh"}) \cup {"custom"}

\* The form for a new probe sets every field of the kinds it knows.
ProbeFormKinds == Kinds \ {"banner"}

\* It looks at a port only to see that there is one.
UncheckedValues == {"tcp", "ssh", "listening"}
=============================================================================
