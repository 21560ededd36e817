----------------------------- MODULE ProbesProofs -----------------------------
(***************************************************************************)
(* Proofs about Probes: what the operator was told and shown (ToldInv,     *)
(* RowsInv), what a collection finds and reports (QuietInv, ReportsInv),   *)
(* and what a probe says before and after a restart (TimesInv, NumbersInv).*)
(***************************************************************************)
EXTENDS Probes, TLAPS, SequenceTheorems

----------------------------------------------------------------------------
(* The fields that defaults and imports fill in. *)

LEMMA NetworkDefaultsType ==
    ASSUME NEW k \in NetworkKinds
    PROVE  /\ Defaults(k) \subseteq FieldNames
           /\ k \in {"tcp", "http", "dns", "tls"} => "timeout" \in Defaults(k)
  BY DEF Defaults, NetworkKinds, NetworkDefaults, FieldNames

LEMMA ToolDefaultsType ==
    ASSUME NEW k \in ToolKinds
    PROVE  /\ Defaults(k) \subseteq FieldNames
           /\ "target" \notin Defaults(k)
  BY DEF Defaults, NetworkKinds, ToolKinds, PathKinds, TargetDefaults, FieldNames

LEMMA DefaultsType ==
    ASSUME NEW k \in Kinds
    PROVE  /\ Defaults(k) \subseteq FieldNames
           /\ k \in {"tcp", "http", "dns", "tls"} => "timeout" \in Defaults(k)
           /\ k \in ToolKinds => "target" \notin Defaults(k)
<1>1. CASE k \in NetworkKinds
  <2>1. k \notin ToolKinds
    BY <1>1 DEF NetworkKinds, ToolKinds, PathKinds
  <2> QED
    BY <1>1, <2>1, NetworkDefaultsType
<1>2. CASE k \in ToolKinds
  <2>1. k \notin {"tcp", "http", "dns", "tls"}
    BY <1>2 DEF ToolKinds, PathKinds
  <2> QED
    BY <1>2, <2>1, ToolDefaultsType
<1>3. CASE k = "custom"
  BY <1>3 DEF Defaults, NetworkKinds, ToolKinds, PathKinds
<1> QED
  BY <1>1, <1>2, <1>3 DEF Kinds

\* A start changes nothing of a probe but its blanks, and leaves no timeout
\* blank where it matters, nor the target of a tool check any less blank.
LEMMA DefaultsApplied ==
    ASSUME NEW k \in Kinds, NEW p \in Probes, NEW local \in BOOLEAN
    PROVE  LET q == applyDefaults(k, p, local)
           IN /\ q \in Probes /\ q.id = p.id /\ q.by = p.by
              /\ Alike(k, q, p) /\ OnTime(k, q)
              /\ k \in {"tcp", "http", "dns", "tls"} => Timed(q)
<1> DEFINE q == applyDefaults(k, p, local)
<1>1. /\ q \in Probes /\ q.id = p.id /\ q.by = p.by /\ q.extra = p.extra
      /\ q.blank = p.blank \ (Defaults(k) \ Missing(k, p, local))
  BY DEF applyDefaults, Probes
<1>2. k \in ToolKinds => ("target" \in q.blank <=> "target" \in p.blank)
  BY <1>1, DefaultsType
<1>3. k \in {"tcp", "http", "dns", "tls"} => Timed(q)
  <2>1. "timeout" \notin Missing(k, p, local)
    BY DEF Missing
  <2> QED
    BY <1>1, <2>1, DefaultsType DEF Timed
<1> QED
  BY <1>1, <1>2, <1>3 DEF Alike, OnTime

\* An import leaves only the timeouts of lookups and certificates blank.
LEMMA ImportNormalized ==
    ASSUME NEW k \in Kinds, NEW p \in Probes, NEW local \in BOOLEAN, p.by = "bundle"
    PROVE  LET q == normalizeImportedChecks(k, p, local)
           IN q \in Probes /\ q.id = p.id /\ q.by = p.by /\ OnTime(k, q)
<1> DEFINE q == normalizeImportedChecks(k, p, local)
<1>1. q \in Probes /\ q.id = p.id /\ q.by = p.by
  BY DEF normalizeImportedChecks, Probes
<1>2. CASE k \in {"tcp", "http"}
  <2>1. k \in Normalized
    BY <1>2 DEF Normalized
  <2>2. q.blank \subseteq p.blank \ (Defaults(k) \ Missing(k, p, local))
    BY <1>2, <2>1 DEF normalizeImportedChecks, Probes
  <2>3. "timeout" \notin Missing(k, p, local)
    BY DEF Missing
  <2> QED
    BY <1>1, <1>2, <2>2, <2>3, DefaultsType DEF OnTime, Timed
<1>3. CASE k \notin {"tcp", "http"}
  BY <1>1, <1>3 DEF OnTime
<1> QED
  BY <1>1, <1>2, <1>3

----------------------------------------------------------------------------
(* Slices. *)

LEMMA ListOfSlice ==
    ASSUME NEW s \in Slices, s.len <= Len(s.cells)
    PROVE  /\ ListOf(s) \in Seq(Probes) /\ Len(ListOf(s)) = s.len
           /\ DOMAIN ListOf(s) = 1 .. s.len
           /\ \A i \in 1 .. s.len : ListOf(s)[i] = s.cells[i] /\ s.cells[i] \in Probes
<1>1. s.cells \in Seq(Probes) /\ s.len \in Nat /\ s.len \in 0 .. Len(s.cells)
  BY DEF Slices
<1> QED
  BY <1>1, SubSeqProperties, ElementOfSeq DEF ListOf

LEMMA ShortLists ==
    ASSUME NEW S
    PROVE  /\ <<>> \in Seq(S) /\ Len(<<>>) = 0
           /\ \A e \in S : <<e>> \in Seq(S) /\ Len(<<e>>) = 1 /\ <<e>>[1] = e
  OBVIOUS

LEMMA SliceOfList ==
    ASSUME NEW list \in Seq(Probes)
    PROVE  /\ Slice(list) \in Slices /\ Slice(list).cells = list
           /\ Slice(list).len = Len(list) /\ Slice(list).len <= Len(Slice(list).cells)
           /\ ListOf(Slice(list)) = list
<1>1. Slice(list) \in Slices /\ Slice(list).cells = list /\ Slice(list).len = Len(list)
  BY LenProperties DEF Slice, Slices
<1>2. SubSeq(list, 1, Len(list)) = list
  BY LenProperties
<1> QED
  BY <1>1, <1>2 DEF ListOf

\* What is appended comes behind the list, in its array or in a longer one.
LEMMA AppendedSlice ==
    ASSUME NEW s \in Slices, NEW p \in Probes, s.len <= Len(s.cells)
    PROVE  LET a == Appended(s, p)
           IN /\ a \in Slices /\ a.len = s.len + 1 /\ a.len <= Len(a.cells)
              /\ Len(s.cells) <= Len(a.cells)
              /\ a.cells[a.len] = p
              /\ \A i \in 1 .. s.len : a.cells[i] = s.cells[i]
              /\ \A i \in 1 .. Len(a.cells) :
                   a.cells[i] = p \/ (i \in 1 .. Len(s.cells) /\ a.cells[i] = s.cells[i])
<1> DEFINE a == Appended(s, p)
<1>1. s.cells \in Seq(Probes) /\ s.len \in Nat /\ Len(s.cells) \in Nat
  BY LenProperties DEF Slices
<1>2. CASE s.len < Len(s.cells)
  <2>1. a = [cells |-> [s.cells EXCEPT ![s.len + 1] = p], len |-> s.len + 1]
    BY <1>2 DEF Appended
  <2>2. s.len + 1 \in 1 .. Len(s.cells)
    BY <1>1, <1>2
  <2>3. a.cells \in Seq(Probes) /\ Len(a.cells) = Len(s.cells)
    BY <2>1, <2>2, <1>1, ExceptSeq
  <2>4. \A i \in 1 .. Len(s.cells) : a.cells[i] = IF i = s.len + 1 THEN p ELSE s.cells[i]
    BY <2>1, <2>2, <1>1, LenProperties
  <2> QED
    BY <1>1, <1>2, <2>1, <2>2, <2>3, <2>4 DEF Slices
<1>3. CASE ~(s.len < Len(s.cells))
  <2>1. s.len = Len(s.cells)
    BY <1>1, <1>3
  <2>2. a = Slice(Append(s.cells, p))
    BY <1>3 DEF Appended
  <2>3. /\ Append(s.cells, p) \in Seq(Probes) /\ Len(Append(s.cells, p)) = Len(s.cells) + 1
        /\ \A i \in 1 .. Len(s.cells) : Append(s.cells, p)[i] = s.cells[i]
        /\ Append(s.cells, p)[Len(s.cells) + 1] = p
    BY <1>1, AppendProperties
  <2>4. a \in Slices /\ a.cells = Append(s.cells, p) /\ a.len = Len(s.cells) + 1
    BY <2>2, <2>3, SliceOfList
  <2> QED
    BY <1>1, <2>1, <2>3, <2>4
<1> QED
  BY <1>2, <1>3

\* What is behind the row moves one place to the front; the array stays as long.
LEMMA WithoutRow ==
    ASSUME NEW s \in Slices, NEW index \in Nat, index > 0, index <= s.len, s.len <= Len(s.cells)
    PROVE  LET w == Without(s, index)
           IN /\ w \in Slices /\ w.len = s.len - 1 /\ Len(w.cells) = Len(s.cells)
              /\ \A i \in 1 .. w.len :
                   w.cells[i] = IF i < index THEN s.cells[i] ELSE s.cells[i + 1]
              /\ \A i \in 1 .. Len(w.cells) : \E j \in 1 .. Len(s.cells) : w.cells[i] = s.cells[j]
<1> DEFINE w == Without(s, index)
           a == SubSeq(s.cells, 1, index - 1)
           b == SubSeq(s.cells, index + 1, s.len)
           c == SubSeq(s.cells, s.len, Len(s.cells))
<1>1. /\ s.cells \in Seq(Probes) /\ s.len \in Nat /\ Len(s.cells) \in Nat
      /\ \A i \in 1 .. Len(s.cells) : s.cells[i] \in Probes
  BY LenProperties, ElementOfSeq DEF Slices
<1>2. /\ a \in Seq(Probes) /\ Len(a) = index - 1
      /\ \A i \in 1 .. index - 1 : a[i] = s.cells[i]
  <2>1. index - 1 \in Int /\ \A i \in 1 .. index - 1 : s.cells[i] \in Probes
    BY <1>1
  <2> QED
    BY <2>1, SubSeqProperties
<1>3. /\ b \in Seq(Probes) /\ Len(b) = s.len - index
      /\ \A i \in 1 .. s.len - index : b[i] = s.cells[index + i]
  <2>1. index + 1 \in Int /\ s.len \in Int /\ \A i \in index + 1 .. s.len : s.cells[i] \in Probes
    BY <1>1
  <2>2. /\ b \in Seq(Probes) /\ Len(b) = IF index + 1 <= s.len THEN s.len - (index + 1) + 1 ELSE 0
        /\ \A i \in 1 .. s.len - (index + 1) + 1 : b[i] = s.cells[index + 1 + i - 1]
    BY <2>1, SubSeqProperties
  <2> QED
    BY <1>1, <2>2
<1>4. /\ c \in Seq(Probes) /\ Len(c) = Len(s.cells) - s.len + 1
      /\ \A i \in 1 .. Len(s.cells) - s.len + 1 : c[i] = s.cells[s.len + i - 1]
  <2>1. s.len \in Int /\ Len(s.cells) \in Int /\ \A i \in s.len .. Len(s.cells) : s.cells[i] \in Probes
    BY <1>1
  <2> QED
    BY <1>1, <2>1, SubSeqProperties
<1> HIDE DEF a, b, c
<1> DEFINE d == a \o b
<1>5. /\ d \in Seq(Probes) /\ Len(d) = s.len - 1
      /\ \A i \in 1 .. s.len - 1 : d[i] = IF i <= index - 1 THEN a[i] ELSE b[i - (index - 1)]
  <2>1. /\ d \in Seq(Probes) /\ Len(d) = Len(a) + Len(b)
        /\ \A i \in 1 .. Len(a) + Len(b) : d[i] = IF i <= Len(a) THEN a[i] ELSE b[i - Len(a)]
    <3>1. a \in Seq(Probes) /\ b \in Seq(Probes)
      BY <1>2, <1>3
    <3> QED
      BY <3>1, ConcatProperties
  <2>2. Len(a) + Len(b) = s.len - 1
    BY <1>1, <1>2, <1>3
  <2> QED
    BY <1>2, <2>1, <2>2
<1> DEFINE e == d \o c
<1> HIDE DEF d
<1>6. /\ e \in Seq(Probes) /\ Len(e) = Len(s.cells)
      /\ \A i \in 1 .. Len(s.cells) : e[i] = IF i <= s.len - 1 THEN d[i] ELSE c[i - (s.len - 1)]
  <2>1. /\ e \in Seq(Probes) /\ Len(e) = Len(d) + Len(c)
        /\ \A i \in 1 .. Len(d) + Len(c) : e[i] = IF i <= Len(d) THEN d[i] ELSE c[i - Len(d)]
    BY <1>4, <1>5, ConcatProperties
  <2>2. Len(d) + Len(c) = Len(s.cells)
    BY <1>1, <1>4, <1>5
  <2> QED
    BY <1>5, <2>1, <2>2
<1>7. w = [cells |-> e, len |-> s.len - 1]
  BY DEF Without, a, b, c, d
<1> HIDE DEF e, w
<1>8. w \in Slices /\ w.len = s.len - 1 /\ w.cells = e /\ Len(w.cells) = Len(s.cells)
  BY <1>1, <1>6, <1>7 DEF Slices
<1>9. ASSUME NEW i \in 1 .. s.len - 1
      PROVE  w.cells[i] = IF i < index THEN s.cells[i] ELSE s.cells[i + 1]
  <2>1. w.cells[i] = d[i]
    <3>1. i \in 1 .. Len(s.cells) /\ i <= s.len - 1
      BY <1>1
    <3> QED
      BY <3>1, <1>6, <1>8
  <2>2. CASE i < index
    <3>1. i \in 1 .. index - 1 /\ i <= index - 1
      BY <2>2
    <3> QED
      BY <2>1, <2>2, <3>1, <1>2, <1>5
  <2>3. CASE ~(i < index)
    <3>1. ~(i <= index - 1) /\ i - (index - 1) \in 1 .. s.len - index /\ index + (i - (index - 1)) = i + 1
      BY <2>3, <1>1
    <3>2. b[i - (index - 1)] = s.cells[i + 1]
      BY <3>1, <1>3
    <3> QED
      BY <2>1, <2>3, <3>1, <3>2, <1>5
  <2> QED
    BY <2>2, <2>3
<1>10. ASSUME NEW i \in 1 .. Len(s.cells)
       PROVE  \E j \in 1 .. Len(s.cells) : w.cells[i] = s.cells[j]
  <2>1. CASE i <= s.len - 1
    BY <1>1, <1>9, <2>1
  <2>2. CASE ~(i <= s.len - 1)
    <3>1. w.cells[i] = c[i - (s.len - 1)]
      BY <1>6, <1>8, <2>2
    <3>2. i - (s.len - 1) \in 1 .. Len(s.cells) - s.len + 1 /\ s.len + (i - (s.len - 1)) - 1 = i
      BY <1>1, <2>2
    <3> QED
      BY <3>1, <3>2, <1>4
  <2> QED
    BY <2>1, <2>2
<1>11. \A i \in 1 .. w.len : w.cells[i] = IF i < index THEN s.cells[i] ELSE s.cells[i + 1]
  BY <1>8, <1>9
<1>12. \A i \in 1 .. Len(w.cells) : \E j \in 1 .. Len(s.cells) : w.cells[i] = s.cells[j]
  BY <1>8, <1>10
<1> QED
  BY <1>8, <1>11, <1>12 DEF w

----------------------------------------------------------------------------
(* What a probe says. *)

\* The verdict is the right one, except where the code sees too little, gives up
\* too early or looks elsewhere.
Excused(k, p, w, local) ==
    LET r == [kind |-> k, probe |-> p, local |-> local, world |-> w, ok |-> Verdict(k, p, w)]
    IN \/ Elsewhere(k, p, local)
       \/ /\ Verdict(k, p, w) /\ ~Met(k, p, w, local) => SeesTooLittle(r)
          /\ ~Verdict(k, p, w) /\ Met(k, p, w, local) => GivesUpEarly(r)

LEMMA NetworkVerdict ==
    ASSUME NEW k \in NetworkKinds, NEW p \in Probes, NEW w \in Worlds, NEW local \in BOOLEAN, OnTime(k, p)
    PROVE  Excused(k, p, w, local)
<1>1. Verdict(k, p, w) = Network(k, p, w)
  BY DEF Verdict
<1>2. CASE k = "ping"
  BY <1>1, <1>2 DEF Network, Ping, Excused, Met, AsAsked, Needed, Worlds, So, Seen, Given, SeesTooLittle, GivesUpEarly, OnTime,
     Timed, Elsewhere, ToolKinds, PathKinds
<1>3. CASE k = "tcp"
  BY <1>1, <1>3 DEF Network, DialTCP, CheckPort, Elsewhere, Excused, Met, AsAsked, Needed, Worlds, So, Seen, Given, SeesTooLittle, GivesUpEarly, OnTime,
     Timed, ToolKinds, PathKinds
<1>4. CASE k = "banner"
  BY <1>1, <1>4 DEF Network, CheckBanner, AtFirstSight, Expected, Excused, Met, AsAsked, Needed, Worlds, So, Seen, Given, SeesTooLittle, GivesUpEarly, OnTime,
     Timed, Elsewhere, ToolKinds, PathKinds
<1>5. CASE k = "http"
  BY <1>1, <1>5 DEF Network, CheckHTTP, Excused, Met, AsAsked, Needed, Worlds, So, Seen, Given, SeesTooLittle, GivesUpEarly, OnTime,
     Timed, Elsewhere, ToolKinds, PathKinds
<1>6. CASE k = "dns"
  BY <1>1, <1>6 DEF Network, CheckDNS, Expected, Excused, Met, AsAsked, Needed, Worlds, So, Seen, Given, SeesTooLittle, GivesUpEarly, OnTime,
     Timed, Elsewhere, ToolKinds, PathKinds
<1>7. CASE k = "trace"
  BY <1>1, <1>7 DEF Network, CheckTraceroute, Excused, Met, AsAsked, Needed, Worlds, So, Seen, Given, SeesTooLittle, GivesUpEarly, OnTime,
     Timed, Elsewhere, ToolKinds, PathKinds
<1>8. CASE k = "tls"
  BY <1>1, <1>8 DEF Network, CheckTLS, Excused, Met, AsAsked, Needed, Worlds, So, Seen, Given, SeesTooLittle, GivesUpEarly, OnTime,
     Timed, Elsewhere, ToolKinds, PathKinds
<1>9. CASE k = "ntp"
  BY <1>1, <1>9 DEF Network, CheckNTP, Expected, Excused, Met, AsAsked, Needed, Worlds, So, Seen, Given, SeesTooLittle, GivesUpEarly, OnTime,
     Timed, Elsewhere, ToolKinds, PathKinds
<1>10. CASE k = "ssh"
  BY <1>1, <1>10 DEF Network, CheckSSH, AtFirstSight, Expected, Excused, Met, AsAsked, Needed, Worlds, So, Seen, Given, SeesTooLittle, GivesUpEarly, OnTime,
     Timed, Elsewhere, ToolKinds, PathKinds
<1> QED
  BY <1>2, <1>3, <1>4, <1>5, <1>6, <1>7, <1>8, <1>9, <1>10 DEF NetworkKinds

LEMMA ToolVerdict ==
    ASSUME NEW k \in ToolKinds, NEW p \in Probes, NEW w \in Worlds, NEW local \in BOOLEAN
    PROVE  Excused(k, p, w, local)
<1>1. Verdict(k, p, w) = Tool(k, p, w)
  BY DEF Verdict, NetworkKinds, ToolKinds, PathKinds
<1>2. CASE k = "service"
  BY <1>1, <1>2 DEF Tool, Ran, runServiceChecks, ServiceSays, Elsewhere, Excused, Met, AsAsked, Needed, Worlds, So, Seen, Given, SeesTooLittle, GivesUpEarly,
     ToolKinds, PathKinds
<1>3. CASE k = "process"
  <2>1. So(w) => ProcessSays(p, w) >= 1
    BY DEF ProcessSays
  <2>2. ProcessSays(p, w) >= 1 => So(w) \/ ~ByName(p, w)
    BY DEF ProcessSays
  <2>3. Verdict(k, p, w) = runProcessChecks(p, w)
    BY <1>1, <1>3 DEF Tool
  <2> QED
    BY <1>3, <2>1, <2>2, <2>3 DEF Ran, ByName, runProcessChecks, Elsewhere,
       Excused, Met, AsAsked, Needed, Worlds, So, Seen, Given, SeesTooLittle, GivesUpEarly, ToolKinds, PathKinds
<1>4. CASE k = "listening"
  BY <1>1, <1>4 DEF Tool, Ran, runListeningChecks, ListeningSays, Elsewhere, Excused, Met, AsAsked, Needed, Worlds, So, Seen, Given, SeesTooLittle, GivesUpEarly,
     ToolKinds, PathKinds
<1>5. CASE k = "journal"
  <2>1. JournalSays(w) <= 0 <=> w.thing \notin {"bad", "missed"}
    BY DEF JournalSays
  <2>2. Verdict(k, p, w) = runJournalChecks(w)
    BY <1>1, <1>5 DEF Tool
  <2> QED
    BY <1>5, <2>1, <2>2 DEF Ran, runJournalChecks, Elsewhere,
       Excused, Met, AsAsked, Needed, Worlds, So, Seen, Given, SeesTooLittle, GivesUpEarly, ToolKinds, PathKinds
<1>6. CASE k = "file"
  BY <1>1, <1>6 DEF Tool, Ran, runFileChecks, Expected, Elsewhere, Excused, Met, AsAsked, Needed, Worlds, So, Seen, Given, SeesTooLittle, GivesUpEarly,
     ToolKinds, PathKinds
<1>7. CASE k = "directory"
  BY <1>1, <1>7 DEF Tool, Ran, runDirectoryChecks, Expected, Elsewhere, Excused, Met, AsAsked, Needed, Worlds, So, Seen, Given, SeesTooLittle, GivesUpEarly,
     ToolKinds, PathKinds
<1>8. CASE k = "log"
  BY <1>1, <1>8 DEF Tool, Ran, runLogChecks, Elsewhere, Excused, Met, AsAsked, Needed, Worlds, So, Seen, Given, SeesTooLittle, GivesUpEarly,
     ToolKinds, PathKinds
<1>9. CASE k = "command"
  BY <1>1, <1>9 DEF Tool, Ran, runCommandChecks, Elsewhere, Excused, Met, AsAsked, Needed, Worlds, So, Seen, Given, SeesTooLittle, GivesUpEarly,
     ToolKinds, PathKinds
<1>10. CASE k = "hash"
  BY <1>1, <1>10 DEF Tool, Ran, runHashChecks, Elsewhere, Excused, Met, AsAsked, Needed, Worlds, So, Seen, Given, SeesTooLittle, GivesUpEarly,
     ToolKinds, PathKinds
<1>11. CASE k = "certificate_file"
  BY <1>1, <1>11 DEF Tool, Ran, runCertificateFileChecks, Elsewhere, Excused, Met, AsAsked, Needed, Worlds, So, Seen, Given, SeesTooLittle, GivesUpEarly,
     ToolKinds, PathKinds
<1>12. CASE k = "unix_socket"
  BY <1>1, <1>12 DEF Tool, Ran, runUnixSocketChecks, Elsewhere, Excused, Met, AsAsked, Needed, Worlds, So, Seen, Given, SeesTooLittle, GivesUpEarly,
     ToolKinds, PathKinds
<1>13. CASE k = "user"
  BY <1>1, <1>13 DEF Tool, Ran, runUserChecks, Elsewhere, Excused, Met, AsAsked, Needed, Worlds, So, Seen, Given, SeesTooLittle, GivesUpEarly,
     ToolKinds, PathKinds
<1> QED
  BY <1>2, <1>3, <1>4, <1>5, <1>6, <1>7, <1>8, <1>9, <1>10, <1>11, <1>12, <1>13 DEF ToolKinds, PathKinds

LEMMA AnyVerdict ==
    ASSUME NEW k \in Kinds, NEW p \in Probes, NEW w \in Worlds, NEW local \in BOOLEAN, OnTime(k, p)
    PROVE  Excused(k, p, w, local)
<1>1. CASE k = "custom"
  BY <1>1 DEF Verdict, Custom, Excused, Elsewhere, Met, AsAsked, Needed, Worlds, Expected, NetworkKinds, ToolKinds, PathKinds
<1> QED
  BY <1>1, NetworkVerdict, ToolVerdict DEF Kinds

LEMMA VerdictType ==
    ASSUME NEW k \in Kinds, NEW p, NEW w
    PROVE  Verdict(k, p, w) \in BOOLEAN
<1>1. CASE k \in NetworkKinds
  <2>1. Verdict(k, p, w) = Network(k, p, w)
    BY <1>1 DEF Verdict
  <2>2. Network(k, p, w) \in BOOLEAN
    BY <1>1 DEF NetworkKinds, Network, Ping, DialTCP, CheckPort, CheckBanner, CheckHTTP, CheckDNS, CheckTraceroute,
       CheckTLS, CheckNTP, CheckSSH, AtFirstSight, Expected, So, Seen
  <2> QED
    BY <2>1, <2>2
<1>2. CASE k \in ToolKinds
  <2>1. Verdict(k, p, w) = Tool(k, p, w)
    BY <1>2 DEF Verdict, NetworkKinds, ToolKinds, PathKinds
  <2>2. Tool(k, p, w) \in BOOLEAN
    BY <1>2 DEF ToolKinds, PathKinds, Tool, runServiceChecks, runProcessChecks, runListeningChecks, runJournalChecks,
       runFileChecks, runDirectoryChecks, runLogChecks, runCommandChecks, runHashChecks, runCertificateFileChecks,
       runUnixSocketChecks, runUserChecks, Ran, Given, So, Seen
  <2> QED
    BY <2>1, <2>2
<1>3. CASE k = "custom"
  <2>1. Verdict(k, p, w) = Custom(p, w)
    BY <1>3 DEF Verdict, NetworkKinds, ToolKinds, PathKinds
  <2>2. Custom(p, w) \in BOOLEAN
    BY DEF Custom
  <2> QED
    BY <2>1, <2>2
<1> QED
  BY <1>1, <1>2, <1>3 DEF Kinds

\* It depends on nothing but what the probe asks for, its timeout where it
\* matters, and for a tool check on whether it has a target.
LEMMA SameVerdict ==
    ASSUME NEW k \in Kinds, NEW p \in Probes, NEW q \in Probes, NEW w \in Worlds,
           Alike(k, p, q), k \in {"tcp", "http", "dns", "tls"} => Timed(p) /\ Timed(q)
    PROVE  Verdict(k, p, w) = Verdict(k, q, w)
<1>1. CASE k \in NetworkKinds
  BY <1>1 DEF Alike, Verdict, Network, NetworkKinds, Expected, Ping, DialTCP, CheckPort, CheckBanner, CheckHTTP, CheckDNS,
     CheckTraceroute, CheckTLS, CheckNTP, CheckSSH, AtFirstSight
<1>2. CASE k \in ToolKinds
  <2>1. Verdict(k, p, w) = Tool(k, p, w) /\ Verdict(k, q, w) = Tool(k, q, w)
    BY <1>2 DEF Verdict, NetworkKinds, ToolKinds, PathKinds
  <2>2. p.extra = q.extra /\ Given(p) = Given(q)
    BY <1>2 DEF Alike, Given
  <2> QED
    BY <1>2, <2>1, <2>2 DEF Tool, Expected, runServiceChecks, ServiceSays, runProcessChecks, ProcessSays, ByName,
       runListeningChecks, ListeningSays, runJournalChecks, JournalSays, runFileChecks, runDirectoryChecks, runLogChecks,
       runCommandChecks, runHashChecks, runCertificateFileChecks, runUnixSocketChecks, runUserChecks
<1>3. CASE k = "custom"
  BY <1>3 DEF Alike, Verdict, Custom, Expected, NetworkKinds, ToolKinds, PathKinds
<1> QED
  BY <1>1, <1>2, <1>3 DEF Kinds

----------------------------------------------------------------------------
(* What the steps do to the lists. *)

ServersOf(used) == [known : BOOLEAN, local : BOOLEAN, lists : [used -> Slices]]

FilesOf(used) == [known : BOOLEAN, local : BOOLEAN, lists : [used -> Seq(Probes)]]

Within(server) == \A k \in DOMAIN server.lists : server.lists[k].len <= Len(server.lists[k].cells)

LEMMA UsedAreKinds ==
    ASSUME TypeOK
    PROVE  Used \subseteq Kinds /\ Used \in Uses /\ MaxBorn[Used] \in Nat
  BY UsesAssumption DEF TypeOK

LEMMA FileOfServer ==
    ASSUME NEW used, NEW server \in ServersOf(used), Within(server)
    PROVE  /\ AsFile(server) \in FilesOf(used)
           /\ AsFile(server).known = server.known /\ AsFile(server).local = server.local
           /\ \A k \in used : AsFile(server).lists[k] = ListOf(server.lists[k])
<1>1. server.known \in BOOLEAN /\ server.local \in BOOLEAN /\ server.lists \in [used -> Slices]
  BY DEF ServersOf
<1>2. \A k \in used : ListOf(server.lists[k]) \in Seq(Probes)
  BY <1>1, ListOfSlice DEF Within
<1> QED
  BY <1>1, <1>2 DEF AsFile, FilesOf

\* What a start makes of a probe.
LEMMA ServerOfFile ==
    ASSUME NEW used \in SUBSET Kinds, NEW f \in FilesOf(used)
    PROVE  /\ AsLive(f) \in ServersOf(used) /\ Within(AsLive(f))
           /\ AsLive(f).known = f.known /\ AsLive(f).local = f.local
           /\ \A k \in used :
                /\ AsLive(f).lists[k].len = Len(f.lists[k]) /\ Len(AsLive(f).lists[k].cells) = Len(f.lists[k])
                /\ \A i \in 1 .. Len(f.lists[k]) :
                     AsLive(f).lists[k].cells[i] = applyDefaults(k, f.lists[k][i], f.local)
<1>1. f.known \in BOOLEAN /\ f.local \in BOOLEAN /\ f.lists \in [used -> Seq(Probes)]
  BY DEF FilesOf
<1> DEFINE filled(k) == [i \in DOMAIN f.lists[k] |-> applyDefaults(k, f.lists[k][i], f.local)]
<1>2. ASSUME NEW k \in used
      PROVE  filled(k) \in Seq(Probes) /\ Len(filled(k)) = Len(f.lists[k])
  <2>1. /\ f.lists[k] \in Seq(Probes) /\ Len(f.lists[k]) \in Nat
        /\ DOMAIN f.lists[k] = 1 .. Len(f.lists[k])
        /\ \A i \in 1 .. Len(f.lists[k]) : f.lists[k][i] \in Probes
    BY <1>1, LenProperties, ElementOfSeq
  <2>2. \A i \in 1 .. Len(f.lists[k]) : applyDefaults(k, f.lists[k][i], f.local) \in Probes
    BY <1>1, <2>1, DefaultsApplied
  <2>3. filled(k) \in [1 .. Len(f.lists[k]) -> Probes]
    BY <2>1, <2>2
  <2>4. filled(k) \in Seq(Probes)
    BY <2>1, <2>3, SeqDef
  <2>5. DOMAIN filled(k) = 1 .. Len(filled(k)) /\ Len(filled(k)) \in Nat
    BY <2>4, LenProperties
  <2> QED
    BY <2>1, <2>3, <2>4, <2>5
<1>3. \A k \in used : /\ Slice(filled(k)) \in Slices /\ Slice(filled(k)).cells = filled(k)
                       /\ Slice(filled(k)).len = Len(f.lists[k])
  BY <1>2, SliceOfList
<1>4. AsLive(f) = [known |-> f.known, local |-> f.local, lists |-> [k \in used |-> Slice(filled(k))]]
  BY <1>1 DEF AsLive
<1> HIDE DEF filled
<1>5. AsLive(f) \in ServersOf(used)
  BY <1>1, <1>3, <1>4 DEF ServersOf
<1>6. \A k \in used : AsLive(f).lists[k] = Slice(filled(k))
  BY <1>4
<1>7. ASSUME NEW k \in used, NEW i \in 1 .. Len(f.lists[k])
      PROVE  filled(k)[i] = applyDefaults(k, f.lists[k][i], f.local)
  BY <1>1, LenProperties DEF filled
<1>8. Within(AsLive(f))
  <2>1. \A k \in used : Len(f.lists[k]) \in Nat
    BY <1>1, LenProperties
  <2> QED
    BY <1>2, <1>3, <1>4, <1>6, <2>1 DEF Within
<1> QED
  BY <1>2, <1>3, <1>4, <1>5, <1>6, <1>7, <1>8

LEMMA SaveWrites ==
    ASSUME TypeOK, NEW server \in ServersOf(Used), Within(server), Save(server)
    PROVE  /\ file' \in FilesOf(Used)
           /\ file' = file \/ file' = AsFile(server)
           /\ Savable(server) => file' = AsFile(server)
<1>1. file \in FilesOf(Used)
  BY DEF TypeOK, FilesOf
<1> QED
  BY <1>1, FileOfServer DEF Save

\* The two handlers that add probes to a known server.
LEMMA AddingIsAdd ==
    ASSUME TypeOK, handleAddProbe \/ handleImportProbes
    PROVE  /\ live.known /\ move = NoRow /\ born <= MaxBorn[Used]
           /\ \E k \in Used, p \in Probes :
                Add(k, p) /\ p.id = born + 1 /\ p.by \in {"page", "bundle"} /\ OnTime(k, p)
<1>1. born \in Nat /\ born + 1 \in Nat
  BY UsedAreKinds DEF TypeOK
<1>2. CASE handleAddProbe
  <2>1. PICK k \in Used \cap ProbeFormKinds, extra \in BOOLEAN, legal \in BOOLEAN :
          MayAdd /\ Add(k, New("page", {}, extra, legal))
    BY <1>2 DEF handleAddProbe
  <2> DEFINE p == New("page", {}, extra, legal)
  <2>2. p \in Probes /\ p.id = born + 1 /\ p.by = "page" /\ p.blank = {}
    BY <1>1 DEF New, Probes, Origins
  <2>3. OnTime(k, p)
    BY <2>2 DEF OnTime, Timed
  <2> QED
    BY <2>1, <2>2, <2>3 DEF MayAdd, Idle
<1>3. CASE handleImportProbes
  <2>1. PICK k \in Used : \E blank \in Bundled(k), extra \in BOOLEAN :
          MayAdd /\ Add(k, normalizeImportedChecks(k, New("bundle", blank, extra, TRUE), live.local))
    BY <1>3 DEF handleImportProbes
  <2>2. PICK blank \in Bundled(k), extra \in BOOLEAN :
          MayAdd /\ Add(k, normalizeImportedChecks(k, New("bundle", blank, extra, TRUE), live.local))
    BY <2>1
  <2> DEFINE n == New("bundle", blank, extra, TRUE)
  <2>3. k \in Kinds /\ live.local \in BOOLEAN
    BY UsedAreKinds DEF TypeOK
  <2>4. blank \subseteq FieldNames
    BY <2>3, DefaultsType DEF Bundled, FieldNames
  <2>5. n \in Probes /\ n.id = born + 1 /\ n.by = "bundle"
    BY <1>1, <2>4 DEF New, Probes, Origins
  <2> HIDE DEF n
  <2>6. /\ normalizeImportedChecks(k, n, live.local) \in Probes
        /\ normalizeImportedChecks(k, n, live.local).id = born + 1
        /\ normalizeImportedChecks(k, n, live.local).by = "bundle"
        /\ OnTime(k, normalizeImportedChecks(k, n, live.local))
    BY <2>3, <2>5, ImportNormalized
  <2>7. Add(k, normalizeImportedChecks(k, n, live.local))
    BY <2>2 DEF n
  <2> QED
    BY <2>2, <2>6, <2>7 DEF MayAdd, Idle
<1> QED
  BY <1>2, <1>3

LEMMA LiveType ==
    ASSUME TypeOK, ListsInv
    PROVE  /\ live \in ServersOf(Used) /\ Within(live) /\ file \in FilesOf(Used)
           /\ \A k \in Used : /\ live.lists[k] \in Slices /\ live.lists[k].len <= Len(live.lists[k].cells)
                               /\ Current(k) \in Seq(Probes) /\ Len(Current(k)) = live.lists[k].len
                               /\ DOMAIN Current(k) = 1 .. live.lists[k].len
                               /\ \A i \in 1 .. live.lists[k].len :
                                    Current(k)[i] = live.lists[k].cells[i] /\ live.lists[k].cells[i] \in Probes
<1>1. live \in ServersOf(Used) /\ file \in FilesOf(Used)
  BY DEF TypeOK, ServersOf, FilesOf
<1>2. \A k \in Used : live.lists[k] \in Slices /\ live.lists[k].len <= Len(live.lists[k].cells)
  BY DEF TypeOK, ListsInv
<1>3. Within(live)
  BY <1>2 DEF Within, Used
<1> QED
  BY <1>1, <1>2, <1>3, ListOfSlice DEF Current

LEMMA AddedList ==
    ASSUME TypeOK, ListsInv, NEW k \in Used, NEW p \in Probes, Add(k, p)
    PROVE  /\ live' \in ServersOf(Used) /\ Used' = Used /\ Within(live')
           /\ live'.known = live.known /\ live'.local = live.local
           /\ \A j \in Used \ {k} : live'.lists[j] = live.lists[j]
           /\ live'.lists[k] = IF k = "ping" THEN Slice(<<p>>) ELSE Appended(live.lists[k], p)
           /\ file' \in FilesOf(Used) /\ (file' = file \/ file' = AsFile(live'))
           /\ Savable(live') => file' = AsFile(live')
<1> DEFINE new == IF k = "ping" THEN Slice(<<p>>) ELSE Appended(live.lists[k], p)
<1>1. live \in ServersOf(Used) /\ live.lists[k] \in Slices /\ live.lists[k].len <= Len(live.lists[k].cells)
  BY LiveType
<1>2. new \in Slices /\ new.len <= Len(new.cells)
  <2>1. CASE k = "ping"
    <3>1. <<p>> \in Seq(Probes) /\ Len(<<p>>) = 1
      BY ShortLists
    <3>2. Slice(<<p>>) \in Slices /\ Slice(<<p>>).len <= Len(Slice(<<p>>).cells)
      BY <3>1, SliceOfList
    <3> QED
      BY <2>1, <3>1, <3>2
  <2>2. CASE k # "ping"
    BY <1>1, <2>2, AppendedSlice
  <2> QED
    BY <2>1, <2>2
<1>3. live' = [live EXCEPT !.lists[k] = new]
  BY DEF Add, With
<1> HIDE DEF new
<1>4. live' = [known |-> live.known, local |-> live.local, lists |-> [live.lists EXCEPT ![k] = new]]
  BY <1>1, <1>3 DEF ServersOf
<1>5. live' \in ServersOf(Used) /\ Used' = Used
  BY <1>1, <1>2, <1>4 DEF ServersOf, Used
<1>6. /\ live'.known = live.known /\ live'.local = live.local /\ live'.lists[k] = new
      /\ \A j \in Used \ {k} : live'.lists[j] = live.lists[j]
  BY <1>1, <1>4 DEF ServersOf
<1>7. Within(live')
  BY <1>1, <1>2, <1>5, <1>6, LiveType DEF Within, Used
<1>8. Save(live')
  BY DEF Add
<1>9. file' \in FilesOf(Used) /\ (file' = file \/ file' = AsFile(live')) /\ (Savable(live') => file' = AsFile(live'))
  BY <1>5, <1>7, <1>8, SaveWrites
<1> QED
  BY <1>5, <1>6, <1>7, <1>9 DEF new

LEMMA RemovedFromList ==
    ASSUME TypeOK, ListsInv, RowsInv, handleRemoveProbe
    PROVE  /\ live' \in ServersOf(Used) /\ Used' = Used /\ Within(live')
           /\ live'.known = live.known /\ live'.local = live.local /\ live.known
           /\ move.kind \in Used /\ move.index \in 1 .. live.lists[move.kind].len
           /\ \A j \in Used \ {move.kind} : live'.lists[j] = live.lists[j]
           /\ live'.lists[move.kind] =
                IF move.kind = "ping" THEN Slice(<<>>) ELSE Without(live.lists[move.kind], move.index)
           /\ file' \in FilesOf(Used) /\ (file' = file \/ file' = AsFile(live'))
<1> DEFINE k == move.kind
           new == IF k = "ping" THEN Slice(<<>>) ELSE Without(live.lists[k], move.index)
<1>1. k \in Used /\ live.known /\ move.index \in Nat /\ move.index \in 1 .. live.lists[k].len
  BY LiveType DEF handleRemoveProbe, RowsInv, Picked, TypeOK, Rows, Slices
<1>2. live \in ServersOf(Used) /\ live.lists[k] \in Slices /\ live.lists[k].len <= Len(live.lists[k].cells)
  BY <1>1, LiveType
<1>3. new \in Slices /\ new.len <= Len(new.cells)
  <2>1. <<>> \in Seq(Probes) /\ Len(<<>>) = 0
    BY ShortLists
  <2>2. live.lists[k].len \in Nat
    BY <1>2 DEF Slices
  <2>3. CASE k = "ping"
    <3>1. Slice(<<>>) \in Slices /\ Slice(<<>>).cells = <<>> /\ Slice(<<>>).len = 0
      BY <2>1, SliceOfList
    <3> QED
      BY <2>1, <2>3, <3>1
  <2>4. CASE k # "ping"
    <3>1. /\ Without(live.lists[k], move.index) \in Slices
          /\ Without(live.lists[k], move.index).len = live.lists[k].len - 1
          /\ Len(Without(live.lists[k], move.index).cells) = Len(live.lists[k].cells)
      BY <1>1, <1>2, WithoutRow
    <3>2. Len(live.lists[k].cells) \in Nat
      BY <1>2, LenProperties DEF Slices
    <3> QED
      BY <1>2, <2>2, <2>4, <3>1, <3>2
  <2> QED
    BY <2>3, <2>4
<1>4. live' = [live EXCEPT !.lists[k] = new] /\ Save(live')
  BY DEF handleRemoveProbe, removeProbe
<1> HIDE DEF new
<1>5. live' = [known |-> live.known, local |-> live.local, lists |-> [live.lists EXCEPT ![k] = new]]
  BY <1>2, <1>4 DEF ServersOf
<1>6. live' \in ServersOf(Used) /\ Used' = Used
  BY <1>1, <1>2, <1>3, <1>5 DEF ServersOf, Used
<1>7. /\ live'.known = live.known /\ live'.local = live.local /\ live'.lists[k] = new
      /\ \A j \in Used \ {k} : live'.lists[j] = live.lists[j]
  BY <1>1, <1>2, <1>5 DEF ServersOf
<1>8. Within(live')
  BY <1>3, <1>6, <1>7, LiveType DEF Within, Used
<1>9. file' \in FilesOf(Used) /\ (file' = file \/ file' = AsFile(live'))
  BY <1>4, <1>6, <1>8, SaveWrites
<1> QED
  BY <1>1, <1>6, <1>7, <1>8, <1>9 DEF new

LEMMA AddedServer ==
    ASSUME TypeOK, handleAddServer
    PROVE  /\ ~live.known /\ move = NoRow /\ born <= MaxBorn[Used]
           /\ live' \in ServersOf(Used) /\ Used' = Used /\ Within(live') /\ live'.known
           /\ \A k \in Used : \A i \in 1 .. Len(live'.lists[k].cells) :
                LET p == live'.lists[k].cells[i]
                IN p.id = born + 1 /\ p.extra = FALSE /\ OnTime(k, p) /\ p.blank \cap {"target"} \subseteq
                     (IF k = "tcp" THEN {"target"} ELSE {})
           /\ file' \in FilesOf(Used) /\ (file' = file \/ file' = AsFile(live'))
           /\ told' \subseteq [kind : Kinds, id : Nat, by : {"form"}]
           /\ born' = born + 1 /\ pages' = pages /\ move' = move /\ cyc' = cyc
           /\ \A k \in Used : live'.lists[k].len <= 1
<1>1. PICK local \in BOOLEAN, profile \in BOOLEAN, kinds \in SUBSET Used :
        LET Set(k) == IF profile THEN applyServerProfile(k) ELSE checksFromServerForm(k)
            server ==
              [known |-> TRUE, local |-> local,
               lists |-> [k \in Used |->
                  Slice(IF k \in kinds THEN <<New("form", Set(k), FALSE, TRUE)>> ELSE <<>>)]]
        IN /\ live' = server /\ Save(server)
           /\ told' = UNION {Entries(k, ListOf(server.lists[k])) : k \in kinds}
  BY DEF handleAddServer
<1> DEFINE blank(k) == IF profile THEN applyServerProfile(k) ELSE checksFromServerForm(k)
           p(k) == New("form", blank(k), FALSE, TRUE)
           list(k) == IF k \in kinds THEN <<p(k)>> ELSE <<>>
<1>2. live' = [known |-> TRUE, local |-> local, lists |-> [k \in Used |-> Slice(list(k))]]
  BY <1>1
<1>3. Save(live') /\ told' = UNION {Entries(k, ListOf(live'.lists[k])) : k \in kinds}
  BY <1>1
<1>4. Used \subseteq Kinds /\ born + 1 \in Nat
  BY UsedAreKinds DEF TypeOK
<1>5. ASSUME NEW k \in Used
      PROVE  /\ p(k) \in Probes /\ p(k).id = born + 1 /\ p(k).extra = FALSE /\ p(k).by = "form" /\ OnTime(k, p(k))
             /\ p(k).blank \cap {"target"} \subseteq (IF k = "tcp" THEN {"target"} ELSE {})
  <2>1. /\ blank(k) \subseteq FieldNames /\ "timeout" \notin blank(k)
        /\ k # "tcp" => "target" \notin blank(k)
    BY DEF applyServerProfile, checksFromServerForm, FieldNames
  <2> HIDE DEF blank
  <2>2. p(k) = [id |-> born + 1, by |-> "form", blank |-> blank(k), extra |-> FALSE, legal |-> TRUE]
    BY DEF New
  <2> HIDE DEF p
  <2>3. /\ p(k).id = born + 1 /\ p(k).extra = FALSE /\ p(k).by = "form" /\ p(k).blank = blank(k)
    BY <2>2
  <2>4. blank(k) \in SUBSET FieldNames /\ "form" \in Origins
    BY <2>1 DEF Origins
  <2>5. p(k) \in Probes
    BY <1>4, <2>2, <2>4 DEF Probes
  <2> QED
    BY <2>1, <2>3, <2>5 DEF OnTime, Timed
<1> HIDE DEF p
<1>6. ASSUME NEW k \in Used
      PROVE  /\ list(k) \in Seq(Probes) /\ Len(list(k)) \in Nat /\ Len(list(k)) <= 1
             /\ \A i \in 1 .. Len(list(k)) : list(k)[i] = p(k)
  <2>1. CASE k \in kinds
    <3>1. list(k) = <<p(k)>>
      BY <2>1
    <3> HIDE DEF list
    <3>2. <<p(k)>> \in Seq(Probes) /\ Len(<<p(k)>>) = 1 /\ <<p(k)>>[1] = p(k)
      BY <1>5, ShortLists
    <3> QED
      BY <3>1, <3>2
  <2>2. CASE k \notin kinds
    <3>1. list(k) = <<>>
      BY <2>2
    <3> HIDE DEF list
    <3>2. <<>> \in Seq(Probes) /\ Len(<<>>) = 0
      BY ShortLists
    <3> QED
      BY <3>1, <3>2
  <2> QED
    BY <2>1, <2>2
<1> HIDE DEF list
<1>7. \A k \in Used : /\ Slice(list(k)) \in Slices /\ Slice(list(k)).cells = list(k)
                       /\ Slice(list(k)).len = Len(list(k)) /\ ListOf(Slice(list(k))) = list(k)
  BY <1>6, SliceOfList
<1>8. \A k \in Used : live'.lists[k] = Slice(list(k))
  BY <1>2
<1>9. live' \in ServersOf(Used) /\ Used' = Used /\ live'.known
  BY <1>2, <1>7 DEF ServersOf, Used
<1>10. Within(live')
  BY <1>6, <1>7, <1>8, <1>9 DEF Within, Used
<1>11. file' \in FilesOf(Used) /\ (file' = file \/ file' = AsFile(live'))
  BY <1>3, <1>9, <1>10, SaveWrites
<1>12. told' \subseteq [kind : Kinds, id : Nat, by : {"form"}]
  <2>1. SUFFICES ASSUME NEW k \in kinds, NEW e \in Entries(k, ListOf(live'.lists[k]))
                 PROVE  e \in [kind : Kinds, id : Nat, by : {"form"}]
    BY <1>3, Zenon
  <2>2. k \in Used
    OBVIOUS
  <2>3. ListOf(live'.lists[k]) = list(k)
    BY <1>7, <1>8, <2>2
  <2>4. PICK i \in DOMAIN list(k) : e = Entry(k, list(k)[i])
    BY <2>3 DEF Entries
  <2>5. list(k)[i] = p(k)
    BY <1>6, <2>2, <2>4, LenProperties
  <2> QED
    BY <1>4, <1>5, <2>2, <2>4, <2>5 DEF Entry
<1>13. /\ ~live.known /\ move = NoRow /\ born <= MaxBorn[Used]
       /\ born' = born + 1 /\ pages' = pages /\ move' = move /\ cyc' = cyc
  BY DEF handleAddServer, Idle
<1>14. ASSUME NEW k \in Used, NEW i \in 1 .. Len(live'.lists[k].cells)
       PROVE  live'.lists[k].cells[i] = p(k)
  BY <1>6, <1>7, <1>8
<1>15. \A k \in Used : live'.lists[k].len <= 1
  BY <1>6, <1>7, <1>8
<1> QED
  BY <1>5, <1>9, <1>10, <1>11, <1>12, <1>13, <1>14, <1>15

LEMMA Restarted ==
    ASSUME TypeOK, Restart
    PROVE  /\ live' \in ServersOf(Used) /\ Used' = Used /\ Within(live')
           /\ live'.known = file.known /\ live'.local = file.local
           /\ \A k \in Used :
                /\ live'.lists[k].len = Len(file.lists[k]) /\ Len(live'.lists[k].cells) = Len(file.lists[k])
                /\ \A i \in 1 .. Len(file.lists[k]) :
                     live'.lists[k].cells[i] = applyDefaults(k, file.lists[k][i], file.local)
<1>1. file \in FilesOf(Used) /\ Used \in SUBSET Kinds /\ live' = AsLive(file)
  BY UsedAreKinds DEF TypeOK, FilesOf, Restart
<1>2. live' \in ServersOf(Used)
  BY <1>1, ServerOfFile
<1>3. Used' = Used
  BY <1>2 DEF ServersOf, Used
<1> QED
  BY <1>1, <1>2, <1>3, ServerOfFile

----------------------------------------------------------------------------
(* The collection beside an addition: it keeps its array, or goes on sharing. *)

SameRound == /\ cyc'.step = cyc.step /\ cyc'.next = cyc.next /\ cyc'.due = cyc.due
             /\ cyc'.reported = cyc.reported /\ cyc'.last = cyc.last
             /\ cyc'.platform = cyc.platform /\ cyc'.quiet = cyc.quiet
             /\ DOMAIN cyc'.view = DOMAIN cyc.view

LEMMA RoundType ==
    ASSUME TypeOK
    PROVE  /\ cyc.step = "idle" <=> cyc = NoCycle
           /\ cyc.step = "idle" => DOMAIN cyc.view = {} /\ cyc.last = {}
           /\ cyc.step # "idle" =>
                /\ cyc \in Rounds /\ DOMAIN cyc.view = Used /\ DOMAIN cyc.next = Used /\ DOMAIN cyc.due = Used
                /\ \A k \in Used : /\ cyc.view[k] \in Views /\ cyc.view[k].own \in BOOLEAN
                                    /\ cyc.view[k].len \in Nat /\ cyc.view[k].cells \in Seq(Probes)
                                    /\ cyc.view[k].len <= Len(cyc.view[k].cells)
                                    /\ cyc.next[k] \in 1 .. cyc.view[k].len + 1
<1>1. CASE cyc = NoCycle
  BY <1>1 DEF NoCycle
<1>2. CASE cyc \in Rounds
  <2>1. cyc.step # "idle" /\ cyc # NoCycle
    BY <1>2 DEF Rounds, NoCycle
  <2>2. cyc.view \in [Used -> Views] /\ cyc.next \in [Used -> Nat]
        /\ cyc.due \in [Used -> Seq([id : Nat, dials : BOOLEAN])]
    BY <1>2 DEF Rounds
  <2>3. \A k \in Used : /\ cyc.view[k].len <= Len(cyc.view[k].cells)
                         /\ cyc.next[k] \in 1 .. cyc.view[k].len + 1
    BY <2>2 DEF TypeOK
  <2> QED
    BY <1>2, <2>1, <2>2, <2>3 DEF Views
<1> QED
  BY <1>1, <1>2 DEF TypeOK

LEMMA KeptRound ==
    ASSUME TypeOK, ListsInv, NEW k \in Used, cyc' \in Keeps(k)
    PROVE  /\ SameRound
           /\ cyc' = cyc \/ (cyc.step # "idle" /\ cyc \in Rounds /\ cyc' \in Rounds)
           /\ \A j \in DOMAIN cyc.view :
                \/ cyc'.view[j] = cyc.view[j]
                \/ /\ j = k /\ ~cyc.view[j].own /\ cyc.step # "idle"
                   /\ cyc'.view[j] = [own |-> TRUE, cells |-> live.lists[j].cells, len |-> cyc.view[j].len]
<1>1. CASE cyc' = cyc
  BY <1>1 DEF SameRound
<1>2. CASE cyc' # cyc
  <2> DEFINE new == IF cyc.view[k].own THEN cyc.view[k]
                    ELSE [own |-> TRUE, cells |-> live.lists[k].cells, len |-> cyc.view[k].len]
  <2>1. cyc.step # "idle" /\ cyc' = [cyc EXCEPT !.view[k] = new]
    BY <1>2 DEF Keeps
  <2>2. cyc \in Rounds /\ cyc.view \in [Used -> Views]
    BY <2>1, RoundType DEF Rounds
  <2>3. new \in Views
    BY <2>1, LiveType, RoundType DEF Views, Slices
  <2> HIDE DEF new
  <2>4. cyc' \in Rounds
    BY <2>1, <2>2, <2>3 DEF Rounds
  <2>5. SameRound
    BY <2>1, <2>2 DEF SameRound, Rounds
  <2>6. cyc'.view = [cyc.view EXCEPT ![k] = new]
    BY <2>1, <2>2 DEF Rounds
  <2>7. \A j \in Used \ {k} : cyc'.view[j] = cyc.view[j]
    BY <2>2, <2>6
  <2>8. cyc'.view[k] = new
    BY <2>2, <2>6
  <2> QED
    BY <2>1, <2>2, <2>4, <2>5, <2>7, <2>8 DEF new
<1> QED
  BY <1>1, <1>2

----------------------------------------------------------------------------
(* The types, and the lists in their arrays. *)

CycleStep == BeginRound \/ (\E k \in Used : cyc.step # "idle" /\ collectServer(k))
             \/ Unavailable \/ Connected \/ Collected \/ EndRound

LEMMA CycleLeaves ==
    ASSUME CycleStep
    PROVE  CycleKeeps
  BY DEF CycleStep, BeginRound, collectServer, Unavailable, Connected, Collected, EndRound

\* The cases of a step, with the lists that a handler changes.
LEMMA StepCases ==
    ASSUME TypeOK, [Next]_vars
    PROVE  \/ handleAddProbe \/ handleImportProbes
           \/ handleAddServer
           \/ \E t \in Tabs : probeRows(t) \/ StartRemoval(t) \/ NotFound(t)
           \/ handleRemoveProbe
           \/ CycleStep
           \/ Restart
           \/ UNCHANGED vars
  BY DEF Next, CycleStep

\* A probe may be found where the loop looks.
LEMMA FoundType ==
    ASSUME TypeOK, ListsInv, RowsInv, NEW k \in Used, cyc.step # "idle", cyc.next[k] <= cyc.view[k].len,
           NEW p \in Found(k)
    PROVE  /\ p \in Probes
           /\ TimesInv => OnTime(k, p)
           /\ move = NoRow => p = Cell(k, cyc.next[k])
<1> DEFINE i == cyc.next[k]
<1>1. /\ i \in 1 .. cyc.view[k].len /\ cyc.view[k].own \in BOOLEAN /\ i \in 1 .. Len(cyc.view[k].cells)
      /\ cyc.view[k].cells \in Seq(Probes) /\ k \in DOMAIN cyc.view /\ cyc.view[k].len \in Nat
  <2>1. cyc.view[k].cells \in Seq(Probes) /\ Len(cyc.view[k].cells) \in Nat
    BY RoundType, LenProperties
  <2> QED
    BY <2>1, RoundType
<1>2. CASE cyc.view[k].own
  <2>1. p = cyc.view[k].cells[i] /\ p = Cell(k, i)
    BY <1>2 DEF Found, Cell
  <2>2. p \in Probes
    BY <1>1, <2>1, ElementOfSeq
  <2>3. TimesInv => OnTime(k, p)
    <3>1. p \in Viewed(k)
      BY <1>1, <2>1, LenProperties DEF Viewed
    <3> QED
      BY <1>1, <3>1 DEF TimesInv
  <2> QED
    BY <2>1, <2>2, <2>3
<1>3. CASE ~cyc.view[k].own
  <2> DEFINE here == live.lists[k].cells[i]
             there == removeProbe(move).lists[k].cells[i]
  <2>1. /\ k # "ping" /\ live.lists[k] \in Slices /\ i \in 1 .. Len(live.lists[k].cells)
        /\ live.lists[k].len <= Len(live.lists[k].cells)
    <3>1. /\ k # "ping" /\ cyc.view[k].len <= Len(live.lists[k].cells)
      BY <1>1, <1>3 DEF ListsInv
    <3>2. live.lists[k] \in Slices /\ Len(live.lists[k].cells) \in Nat /\ live.lists[k].len <= Len(live.lists[k].cells)
      BY LiveType, LenProperties DEF Slices
    <3> QED
      BY <1>1, <3>1, <3>2
  <2>2. /\ \A j \in 1 .. Len(live.lists[k].cells) : live.lists[k].cells[j] \in Probes
        /\ TimesInv => \A j \in 1 .. Len(live.lists[k].cells) : OnTime(k, live.lists[k].cells[j])
    <3>1. live.lists[k].cells \in Seq(Probes)
      BY <2>1 DEF Slices
    <3>2. DOMAIN live.lists[k].cells = 1 .. Len(live.lists[k].cells)
      BY <3>1, LenProperties
    <3>3. TimesInv => \A j \in DOMAIN live.lists[k].cells : OnTime(k, live.lists[k].cells[j])
      BY DEF TimesInv, Cells
    <3>4. \A j \in 1 .. Len(live.lists[k].cells) : live.lists[k].cells[j] \in Probes
      BY <3>1, ElementOfSeq
    <3> QED
      BY <3>2, <3>3, <3>4
  <2>3. p = here \/ (move # NoRow /\ move.kind = k /\ (p = there \/ p = Torn))
    BY <1>3 DEF Found
  <2>4. CASE p = here
    BY <1>3, <2>1, <2>2, <2>4 DEF Cell
  <2>5. CASE move # NoRow /\ move.kind = k /\ p = there
    <3>1. move.index \in Nat /\ move.index > 0 /\ move.index <= live.lists[k].len
      BY <2>5 DEF RowsInv, Picked, TypeOK, Rows
    <3>2. removeProbe(move).lists[k] = Without(live.lists[k], move.index)
      <4>1. live \in ServersOf(Used)
        BY LiveType
      <4> QED
        BY <2>1, <2>5, <4>1 DEF removeProbe, ServersOf
    <3> DEFINE w == Without(live.lists[k], move.index)
    <3>3. /\ Len(w.cells) = Len(live.lists[k].cells)
          /\ \A n \in 1 .. Len(w.cells) : \E j \in 1 .. Len(live.lists[k].cells) : w.cells[n] = live.lists[k].cells[j]
      BY <2>1, <3>1, WithoutRow
    <3> HIDE DEF w
    <3>4. there = w.cells[i]
      BY <3>2 DEF w
    <3>5. PICK j \in 1 .. Len(live.lists[k].cells) : there = live.lists[k].cells[j]
      BY <2>1, <3>3, <3>4
    <3> QED
      BY <2>2, <2>5, <3>5
  <2>6. CASE move # NoRow /\ p = Torn
    BY <2>6 DEF Torn, Probes, Origins, OnTime, Timed
  <2> QED
    BY <2>3, <2>4, <2>5, <2>6
<1> QED
  BY <1>1, <1>2, <1>3

\* What a round is from its fields, and that the loop is within its lists.
LEMMA RoundFrom ==
    ASSUME Used' = Used, cyc' \in Rounds,
           \A k \in Used : /\ cyc'.view[k].len <= Len(cyc'.view[k].cells)
                           /\ cyc'.next[k] \in 1 .. cyc'.view[k].len + 1
    PROVE  /\ cyc' = NoCycle \/ cyc' \in Rounds'
           /\ \A k \in DOMAIN cyc'.view :
                cyc'.view[k].len <= Len(cyc'.view[k].cells) /\ cyc'.next[k] \in 1 .. cyc'.view[k].len + 1
<1>1. DOMAIN cyc'.view = Used
  BY DEF Rounds
<1>2. Rounds' = Rounds
  BY DEF Rounds
<1> QED
  BY <1>1, <1>2

LEMMA ExpectType ==
    ASSUME TypeOK, ListsInv, NEW k \in Used
    PROVE  /\ Expect(k, Current(k)) \in Seq([id : Nat, dials : BOOLEAN])
           /\ Len(Expect(k, Current(k))) = live.lists[k].len
           /\ \A i \in 1 .. live.lists[k].len :
                /\ Expect(k, Current(k))[i].id = live.lists[k].cells[i].id
                /\ Expect(k, Current(k))[i].dials <=> (k = "tcp" /\ live.lists[k].cells[i].extra)
<1> DEFINE n == live.lists[k].len
           due == Expect(k, Current(k))
<1>1. /\ n \in Nat /\ DOMAIN Current(k) = 1 .. n
      /\ \A i \in 1 .. n : Current(k)[i] = live.lists[k].cells[i] /\ live.lists[k].cells[i] \in Probes
  BY LiveType DEF Slices
<1>2. due = [i \in 1 .. n |-> [id |-> Current(k)[i].id, dials |-> k = "tcp" /\ Current(k)[i].extra]]
  BY <1>1 DEF Expect
<1> HIDE DEF due, n
<1>3. ASSUME NEW i \in 1 .. n
      PROVE  /\ due[i] \in [id : Nat, dials : BOOLEAN] /\ due[i].id = live.lists[k].cells[i].id
             /\ due[i].dials <=> (k = "tcp" /\ live.lists[k].cells[i].extra)
  <2>1. due[i] = [id |-> Current(k)[i].id, dials |-> k = "tcp" /\ Current(k)[i].extra]
    BY <1>2
  <2>2. Current(k)[i] = live.lists[k].cells[i] /\ live.lists[k].cells[i] \in Probes
    BY <1>1
  <2> DEFINE p == live.lists[k].cells[i]
             dials == k = "tcp" /\ p.extra
  <2>3. dials \in BOOLEAN /\ p.id \in Nat
    BY <2>2 DEF Probes
  <2>4. due[i] = [id |-> p.id, dials |-> dials]
    BY <2>1, <2>2
  <2>5. dials <=> (k = "tcp" /\ p.extra)
    OBVIOUS
  <2> HIDE DEF dials
  <2>6. /\ due[i] \in [id : Nat, dials : BOOLEAN] /\ due[i].id = p.id /\ due[i].dials = dials
    BY <2>3, <2>4
  <2> QED
    BY <2>5, <2>6
<1>4. due \in [1 .. n -> [id : Nat, dials : BOOLEAN]]
  BY <1>2, <1>3
<1>5. due \in Seq([id : Nat, dials : BOOLEAN])
  BY <1>1, <1>4, SeqDef
<1>6. Len(due) \in Nat /\ DOMAIN due = 1 .. Len(due)
  BY <1>5, LenProperties
<1>7. Len(due) = n
  BY <1>1, <1>4, <1>6
<1> QED
  BY <1>3, <1>5, <1>7 DEF due, n

LEMMA CycleType ==
    ASSUME TypeOK, ListsInv, RowsInv, CycleStep
    PROVE  /\ cyc' = NoCycle \/ cyc' \in Rounds'
           /\ \A k \in DOMAIN cyc'.view :
                cyc'.view[k].len <= Len(cyc'.view[k].cells) /\ cyc'.next[k] \in 1 .. cyc'.view[k].len + 1
<1>1. Used' = Used
  BY CycleLeaves DEF CycleKeeps, Used
<1>2. CASE BeginRound
  <2> DEFINE view == [k \in Used |-> [own |-> k = "ping", cells |-> live.lists[k].cells, len |-> live.lists[k].len]]
             due == [k \in Used |-> Expect(k, Current(k))]
  <2>1. cyc' = [step |-> "monitor", platform |-> "unix", view |-> view,
                next |-> [k \in Used |-> 1], reported |-> [k \in Used |-> <<>>], last |-> {},
                due |-> due, quiet |-> move = NoRow]
    BY <1>2 DEF BeginRound
  <2>2. \A k \in Used : /\ live.lists[k].cells \in Seq(Probes) /\ live.lists[k].len \in Nat
                         /\ live.lists[k].len <= Len(live.lists[k].cells)
    BY LiveType DEF Slices
  <2>3. view \in [Used -> Views]
    BY <2>2 DEF Views
  <2>4. due \in [Used -> Seq([id : Nat, dials : BOOLEAN])]
    BY ExpectType
  <2>5. [k \in Used |-> <<>>] \in [Used -> Seq(Nat)]
    BY ShortLists
  <2>6. (move = NoRow) \in BOOLEAN
    OBVIOUS
  <2>7. cyc'.view = view /\ cyc'.next = [k \in Used |-> 1]
    BY <2>1
  <2>8. \A k \in Used : cyc'.view[k].len = live.lists[k].len /\ cyc'.view[k].cells = live.lists[k].cells /\ cyc'.next[k] = 1
    BY <2>7
  <2> HIDE DEF view, due
  <2>9. cyc' \in Rounds
    BY <2>1, <2>3, <2>4, <2>5, <2>6 DEF Rounds
  <2>10. \A k \in Used : /\ cyc'.view[k].len <= Len(cyc'.view[k].cells)
                          /\ cyc'.next[k] \in 1 .. cyc'.view[k].len + 1
    BY <2>2, <2>8
  <2> QED
    BY <1>1, <2>9, <2>10, RoundFrom
<1>3. CASE \E k \in Used : cyc.step # "idle" /\ collectServer(k)
  <2>1. PICK k \in Used : cyc.step # "idle" /\ collectServer(k)
    BY <1>3
  <2>2. cyc.next[k] <= cyc.view[k].len /\ cyc \in Rounds
    BY <2>1, RoundType DEF collectServer
  <2>3. PICK p \in Found(k) :
         cyc' = [cyc EXCEPT
                   !.next[k] = @ + 1,
                   !.reported[k] = IF Runs(k, p) THEN Append(@, p.id) ELSE @,
                   !.last = IF Runs(k, p) THEN Wrong(k, p) ELSE {}]
    BY <2>1 DEF collectServer
  <2> DEFINE ids == IF Runs(k, p) THEN Append(cyc.reported[k], p.id) ELSE cyc.reported[k]
             last == IF Runs(k, p) THEN Wrong(k, p) ELSE {}
  <2>4. p \in Probes /\ k \in Kinds
    BY <2>1, <2>2, FoundType, UsedAreKinds
  <2>5. cyc.reported \in [Used -> Seq(Nat)] /\ cyc.next \in [Used -> Nat]
    BY <2>2 DEF Rounds
  <2>6. ids \in Seq(Nat)
    BY <2>4, <2>5, AppendProperties DEF Probes
  <2>7. last \subseteq Results
    <3>1. \A w \in Worlds : Verdict(k, p, w) \in BOOLEAN
      BY <2>4, VerdictType
    <3>2. live.local \in BOOLEAN
      BY DEF TypeOK
    <3> QED
      BY <2>4, <3>1, <3>2 DEF Wrong, Results
  <2> HIDE DEF ids, last
  <2>8. cyc' = [cyc EXCEPT !.next[k] = cyc.next[k] + 1, !.reported[k] = ids, !.last = last]
    BY <2>3 DEF ids, last
  <2>9. cyc' = [cyc EXCEPT !.next = [cyc.next EXCEPT ![k] = cyc.next[k] + 1],
                           !.reported = [cyc.reported EXCEPT ![k] = ids], !.last = last]
    BY <2>2, <2>8 DEF Rounds
  <2>10. [cyc.next EXCEPT ![k] = cyc.next[k] + 1] \in [Used -> Nat] /\ [cyc.reported EXCEPT ![k] = ids] \in [Used -> Seq(Nat)]
    BY <2>5, <2>6
  <2>11. cyc' \in Rounds /\ cyc'.view = cyc.view /\ cyc'.next = [cyc.next EXCEPT ![k] = cyc.next[k] + 1]
    BY <2>2, <2>7, <2>9, <2>10 DEF Rounds
  <2>12. \A j \in Used : cyc'.next[j] \in 1 .. cyc'.view[j].len + 1 /\ cyc'.view[j].len <= Len(cyc'.view[j].cells)
    BY <2>1, <2>2, <2>5, <2>11, RoundType
  <2> QED
    BY <1>1, <2>11, <2>12, RoundFrom
<1>4. CASE Unavailable \/ Collected
  <2>1. cyc.step # "idle" /\ cyc \in Rounds
    BY <1>4, RoundType DEF Unavailable, Collected
  <2>2. PICK step \in {"failed", "done"} : cyc' = [cyc EXCEPT !.step = step, !.last = {}]
    BY <1>4 DEF Unavailable, Collected
  <2>3. cyc' \in Rounds /\ cyc'.view = cyc.view /\ cyc'.next = cyc.next
    BY <2>1, <2>2 DEF Rounds
  <2> QED
    BY <1>1, <2>1, <2>3, RoundFrom, RoundType
<1>5. CASE Connected
  <2>1. cyc.step # "idle" /\ cyc \in Rounds /\ DOMAIN cyc.next = Used
    BY <1>5, RoundType DEF Connected
  <2>2. PICK platform \in {"unix", "windows"} :
          cyc' = [cyc EXCEPT !.step = "target", !.platform = platform, !.last = {},
                             !.next = [k \in Used |-> 1]]
    BY <1>5, <2>1 DEF Connected
  <2>3. cyc' \in Rounds /\ cyc'.view = cyc.view /\ cyc'.next = [k \in Used |-> 1]
    BY <2>1, <2>2 DEF Rounds
  <2>4. \A k \in Used : cyc'.next[k] \in 1 .. cyc'.view[k].len + 1 /\ cyc'.view[k].len <= Len(cyc'.view[k].cells)
    BY <2>1, <2>3, RoundType
  <2> QED
    BY <1>1, <2>3, <2>4, RoundFrom
<1>6. CASE EndRound
  BY <1>6 DEF EndRound, NoCycle
<1> QED
  BY <1>2, <1>3, <1>4, <1>5, <1>6 DEF CycleStep

LEMMA OutdatedType ==
    ASSUME TypeOK, NEW kinds
    PROVE  /\ Outdated(kinds) \in [Tabs -> Rows]
           /\ \A t \in Tabs : LET row == Outdated(kinds)[t]
                IN /\ row.kind = pages[t].kind /\ row.index = pages[t].index
                   /\ row.fresh => row = pages[t] /\ row.kind \notin kinds
                   /\ RowsInv => Picked(row)
<1>1. ASSUME NEW t \in Tabs
      PROVE  LET row == Outdated(kinds)[t]
             IN /\ row \in Rows /\ row.kind = pages[t].kind /\ row.index = pages[t].index
                /\ row.fresh => row = pages[t] /\ row.kind \notin kinds
                /\ RowsInv => Picked(row)
  <2>1. pages[t] \in Rows
    BY DEF TypeOK
  <2>2. CASE pages[t].kind \notin kinds
    BY <2>1, <2>2 DEF Outdated, RowsInv
  <2>3. CASE pages[t].kind \in kinds
    <3>1. Outdated(kinds)[t] = [kind |-> pages[t].kind, index |-> pages[t].index, id |-> 0, fresh |-> FALSE]
      BY <2>1, <2>3 DEF Outdated, Rows
    <3>2. pages[t] = NoRow => Outdated(kinds)[t] = NoRow
      BY <3>1 DEF NoRow
    <3> QED
      BY <2>1, <3>1, <3>2 DEF Rows, RowsInv, Picked
  <2> QED
    BY <2>2, <2>3
<1>2. Outdated(kinds) \in [Tabs -> Rows]
  BY <1>1 DEF Outdated
<1> QED
  BY <1>1, <1>2

LEMMA TypeStep ==
    ASSUME TypeOK, ListsInv, RowsInv, [Next]_vars
    PROVE  TypeOK'
<1>1. /\ born \in 1 .. MaxBorn[Used] + 1 /\ MaxBorn[Used] \in Nat /\ Used \in Uses /\ Used \subseteq Kinds
      /\ told \subseteq [kind : Kinds, id : Nat, by : Origins] /\ pages \in [Tabs -> Rows] /\ move \in Rows
  BY UsedAreKinds DEF TypeOK
<1>2. NoRow \in Rows
  BY DEF NoRow, Rows, Kinds, NetworkKinds
<1>3. CASE handleAddProbe \/ handleImportProbes
  <2>1. PICK k \in Used, p \in Probes : Add(k, p) /\ p.by \in {"page", "bundle"}
    BY <1>3, AddingIsAdd
  <2>2. /\ live' \in ServersOf(Used) /\ Used' = Used /\ file' \in FilesOf(Used)
    BY <2>1, AddedList
  <2>3. cyc' \in Keeps(k)
    BY <2>1 DEF Add
  <2>4. /\ cyc' = NoCycle \/ cyc' \in Rounds'
        /\ \A j \in DOMAIN cyc'.view :
             cyc'.view[j].len <= Len(cyc'.view[j].cells) /\ cyc'.next[j] \in 1 .. cyc'.view[j].len + 1
    <3>1. CASE cyc' = cyc
      BY <2>2, <3>1 DEF TypeOK, Rounds
    <3>2. CASE cyc' # cyc
      <4>1. /\ cyc.step # "idle" /\ cyc \in Rounds /\ cyc' \in Rounds /\ cyc'.next = cyc.next
        BY <2>3, <3>2, KeptRound DEF SameRound
      <4>2. ASSUME NEW j \in Used
            PROVE  /\ cyc'.view[j].len = cyc.view[j].len
                   /\ cyc'.view[j].len <= Len(cyc'.view[j].cells)
        <5>1. j \in DOMAIN cyc.view /\ cyc.view[j].len <= Len(cyc.view[j].cells)
          BY <4>1, RoundType
        <5>2. CASE cyc'.view[j] = cyc.view[j]
          BY <5>1, <5>2
        <5>3. CASE cyc'.view[j] # cyc.view[j]
          <6>1. /\ ~cyc.view[j].own
                /\ cyc'.view[j] = [own |-> TRUE, cells |-> live.lists[j].cells, len |-> cyc.view[j].len]
            BY <2>3, <5>1, <5>3, KeptRound
          <6> QED
            BY <5>1, <6>1 DEF ListsInv
        <5> QED
          BY <5>2, <5>3
      <4>3. \A j \in Used : cyc'.next[j] \in 1 .. cyc'.view[j].len + 1
        BY <4>1, <4>2, RoundType
      <4> QED
        BY <2>2, <4>1, <4>2, <4>3, RoundFrom
    <3> QED
      BY <3>1, <3>2
  <2>5. born' \in 1 .. MaxBorn[Used] + 1
    BY <1>1, <1>3, <2>1, AddingIsAdd DEF Add
  <2>6. told' \subseteq [kind : Kinds, id : Nat, by : Origins]
    <3>1. Entry(k, p) \in [kind : Kinds, id : Nat, by : Origins]
      BY <1>1 DEF Entry, Probes
    <3>2. told' \subseteq told \cup {Entry(k, p)}
      BY <2>1 DEF Add
    <3> QED
      BY <1>1, <3>1, <3>2
  <2>7. pages' \in [Tabs -> Rows] /\ move' = move
    BY <2>1, OutdatedType DEF Add
  <2> QED
    BY <1>1, <2>2, <2>4, <2>5, <2>6, <2>7 DEF TypeOK, ServersOf, FilesOf
<1>4. CASE handleAddServer
  <2>1. /\ live' \in ServersOf(Used) /\ Used' = Used /\ file' \in FilesOf(Used)
        /\ told' \subseteq [kind : Kinds, id : Nat, by : {"form"}]
        /\ born' = born + 1 /\ born <= MaxBorn[Used] /\ pages' = pages /\ move' = move /\ cyc' = cyc
    BY <1>4, AddedServer
  <2>2. told' \subseteq [kind : Kinds, id : Nat, by : Origins]
    BY <2>1 DEF Origins
  <2>3. born' \in 1 .. MaxBorn[Used] + 1
    BY <1>1, <2>1
  <2>4. Rounds' = Rounds
    BY <2>1 DEF Rounds
  <2> QED
    BY <1>1, <2>1, <2>2, <2>3, <2>4 DEF TypeOK, ServersOf, FilesOf
<1>5. ASSUME NEW t \in Tabs, probeRows(t)
      PROVE  TypeOK'
  <2>1. PICK k \in Used : \E i \in 1 .. live.lists[k].len :
          pages' = [pages EXCEPT ![t] = [kind |-> k, index |-> i, id |-> Current(k)[i].id, fresh |-> TRUE]]
    BY <1>5 DEF probeRows
  <2>2. PICK i \in 1 .. live.lists[k].len :
          pages' = [pages EXCEPT ![t] = [kind |-> k, index |-> i, id |-> Current(k)[i].id, fresh |-> TRUE]]
    BY <2>1
  <2>3. Current(k)[i] \in Probes /\ i \in Nat
    BY LiveType DEF Slices
  <2>4. pages' \in [Tabs -> Rows]
    BY <1>1, <2>2, <2>3 DEF Rows, Probes
  <2> QED
    BY <1>5, <2>4 DEF probeRows, TypeOK, Used, Rounds
<1>6. ASSUME NEW t \in Tabs, StartRemoval(t)
      PROVE  TypeOK'
  <2>1. move' \in Rows /\ pages' \in [Tabs -> Rows]
    BY <1>1, <1>2, <1>6 DEF StartRemoval
  <2>2. /\ cyc' = NoCycle \/ cyc' \in Rounds
        /\ cyc'.view = cyc.view /\ cyc'.next = cyc.next
    <3>1. CASE cyc = NoCycle
      BY <1>6, <3>1 DEF StartRemoval, NoCycle
    <3>2. CASE cyc \in Rounds
      BY <1>6, <3>2 DEF StartRemoval, Rounds
    <3> QED
      BY <3>1, <3>2 DEF TypeOK
  <2>3. UNCHANGED <<live, file, born, told>>
    BY <1>6 DEF StartRemoval
  <2>4. Used' = Used /\ Rounds' = Rounds
    BY <2>3 DEF Used, Rounds
  <2> QED
    BY <2>1, <2>2, <2>3, <2>4 DEF TypeOK
<1>7. ASSUME NEW t \in Tabs, NotFound(t)
      PROVE  TypeOK'
  <2>1. pages' \in [Tabs -> Rows]
    BY <1>1, <1>2, <1>7 DEF NotFound
  <2> QED
    BY <1>7, <2>1 DEF NotFound, TypeOK, Used, Rounds
<1>8. CASE handleRemoveProbe
  <2>1. live' \in ServersOf(Used) /\ Used' = Used /\ file' \in FilesOf(Used)
    BY <1>8, RemovedFromList
  <2>2. /\ pages' \in [Tabs -> Rows] /\ move' \in Rows /\ UNCHANGED <<cyc, born>>
        /\ told' \subseteq told
    BY <1>2, <1>8, OutdatedType DEF handleRemoveProbe
  <2>3. Rounds' = Rounds
    BY <2>1 DEF Rounds
  <2> QED
    BY <1>1, <2>1, <2>2, <2>3 DEF TypeOK, ServersOf, FilesOf
<1>9. CASE CycleStep
  <2>1. UNCHANGED <<live, file, pages, move, born, told>>
    BY <1>9, CycleLeaves DEF CycleKeeps
  <2>2. /\ cyc' = NoCycle \/ cyc' \in Rounds'
        /\ \A k \in DOMAIN cyc'.view :
             cyc'.view[k].len <= Len(cyc'.view[k].cells) /\ cyc'.next[k] \in 1 .. cyc'.view[k].len + 1
    BY <1>9, CycleType
  <2> QED
    BY <2>1, <2>2 DEF TypeOK, Used
<1>10. CASE Restart
  <2>1. live' \in ServersOf(Used) /\ Used' = Used
    BY <1>10, Restarted
  <2>2. /\ pages' \in [Tabs -> Rows] /\ move' \in Rows /\ cyc' = NoCycle /\ DOMAIN cyc'.view = {}
        /\ UNCHANGED <<file, born, told>>
    BY <1>2, <1>10, OutdatedType DEF Restart, NoCycle
  <2> QED
    BY <1>1, <2>1, <2>2 DEF TypeOK, ServersOf
<1>11. CASE UNCHANGED vars
  BY <1>11 DEF vars, TypeOK, Used, Rounds
<1> QED
  BY <1>3, <1>4, <1>5, <1>6, <1>7, <1>8, <1>9, <1>10, <1>11, StepCases

\* What the steps of a collection do to the lists it looks at.
LEMMA CycleViews ==
    ASSUME TypeOK, CycleStep
    PROVE  \/ BeginRound /\ cyc'.view = [k \in Used |-> [own |-> k = "ping", cells |-> live.lists[k].cells,
                                                          len |-> live.lists[k].len]]
           \/ cyc.step # "idle" /\ cyc'.step # "idle" /\ cyc'.view = cyc.view
           \/ cyc' = NoCycle
<1>1. CASE BeginRound
  BY <1>1 DEF BeginRound
<1>2. CASE EndRound
  BY <1>2 DEF EndRound
<1>3. CASE Unavailable \/ Connected \/ Collected
  <2>1. cyc.step # "idle" /\ cyc \in Rounds
    BY <1>3, RoundType DEF Unavailable, Connected, Collected
  <2> QED
    BY <1>3, <2>1 DEF Unavailable, Connected, Collected, Rounds
<1>4. CASE \E k \in Used : cyc.step # "idle" /\ collectServer(k)
  <2>1. cyc.step # "idle" /\ cyc \in Rounds
    BY <1>4, RoundType
  <2>2. PICK k \in Used : collectServer(k)
    BY <1>4
  <2>3. cyc'.view = cyc.view /\ cyc'.step = cyc.step
    BY <2>1, <2>2 DEF collectServer, Rounds
  <2> QED
    BY <2>1, <2>3
<1> QED
  BY <1>1, <1>2, <1>3, <1>4 DEF CycleStep

LEMMA SameLists ==
    ASSUME TypeOK, [Next]_vars,
           \/ \E t \in Tabs : probeRows(t) \/ StartRemoval(t) \/ NotFound(t)
           \/ CycleStep
           \/ UNCHANGED vars
    PROVE  UNCHANGED <<live, file, born, told>> /\ Used' = Used
  BY CycleLeaves DEF probeRows, StartRemoval, NotFound, CycleKeeps, vars, Used

\* There is one ping probe at most, in memory and in the file.
LEMMA OnePing ==
    ASSUME TypeOK, ListsInv, RowsInv, [Next]_vars, "ping" \in Used
    PROVE  live'.lists["ping"].len <= 1 /\ Len(file'.lists["ping"]) <= 1
<1> DEFINE k == "ping"
<1>1. live.lists[k].len <= 1 /\ Len(file.lists[k]) <= 1
  BY DEF ListsInv
<1>2. ASSUME live' \in ServersOf(Used), Within(live'), file' = file \/ file' = AsFile(live'), live'.lists[k].len <= 1
      PROVE  Len(file'.lists[k]) <= 1
  <2>1. live'.lists[k] \in Slices /\ live'.lists[k].len <= Len(live'.lists[k].cells)
    BY <1>2 DEF ServersOf, Within
  <2>2. Len(ListOf(live'.lists[k])) <= 1
    BY <1>2, <2>1, ListOfSlice
  <2> QED
    BY <1>1, <1>2, <2>2, FileOfServer
<1>3. CASE handleAddProbe \/ handleImportProbes
  <2>1. PICK j \in Used, p \in Probes : Add(j, p)
    BY <1>3, AddingIsAdd
  <2>2. live'.lists[k].len <= 1
    <3>1. CASE j = k
      <4>1. live'.lists[k] = Slice(<<p>>)
        BY <2>1, <3>1, AddedList
      <4>2. Slice(<<p>>).len = 1
        BY ShortLists DEF Slice
      <4> QED
        BY <4>1, <4>2
    <3>2. CASE j # k
      <4>1. live'.lists[k] = live.lists[k]
        BY <2>1, <3>2, AddedList
      <4> QED
        BY <1>1, <4>1
    <3> QED
      BY <3>1, <3>2
  <2> QED
    BY <1>2, <2>1, <2>2, AddedList
<1>4. CASE handleAddServer
  BY <1>2, <1>4, AddedServer
<1>5. CASE handleRemoveProbe
  <2>1. live'.lists[k].len <= 1
    <3>1. CASE move.kind = k
      <4>1. live'.lists[k] = Slice(<<>>)
        BY <1>5, <3>1, RemovedFromList
      <4>2. Slice(<<>>).len = 0
        BY ShortLists DEF Slice
      <4> QED
        BY <4>1, <4>2
    <3>2. CASE move.kind # k
      <4>1. live'.lists[k] = live.lists[k]
        BY <1>5, <3>2, RemovedFromList
      <4> QED
        BY <1>1, <4>1
    <3> QED
      BY <3>1, <3>2
  <2> QED
    BY <1>2, <1>5, <2>1, RemovedFromList
<1>6. CASE Restart
  BY <1>1, <1>6, Restarted DEF Restart
<1>7. CASE UNCHANGED <<live, file>>
  BY <1>1, <1>7
<1> QED
  BY <1>3, <1>4, <1>5, <1>6, <1>7, StepCases, SameLists

LEMMA ListsStep ==
    ASSUME TypeOK, ListsInv, RowsInv, [Next]_vars
    PROVE  ListsInv'
<1> USE DEF ListsInv
<1>0. "ping" \in Used => live'.lists["ping"].len <= 1 /\ Len(file'.lists["ping"]) <= 1
  BY OnePing
<1>1. CASE handleAddProbe \/ handleImportProbes
  <2>1. live.known
    BY <1>1, AddingIsAdd
  <2>2. PICK k \in Used, p \in Probes : Add(k, p)
    BY <1>1, AddingIsAdd
  <2>3. /\ live' \in ServersOf(Used) /\ Used' = Used /\ Within(live') /\ live'.known
        /\ \A j \in Used \ {k} : live'.lists[j] = live.lists[j]
        /\ live'.lists[k] = IF k = "ping" THEN Slice(<<p>>) ELSE Appended(live.lists[k], p)
        /\ file' = file \/ file' = AsFile(live')
    BY <2>1, <2>2, AddedList
  <2>4. \A j \in Used : live'.lists[j].len <= Len(live'.lists[j].cells)
    BY <2>3 DEF Within, Used
  <2>5. ~file'.known => \A j \in Used : file'.lists[j] = <<>>
    BY <2>3, FileOfServer
  <2>6. ASSUME NEW j \in DOMAIN cyc'.view, ~cyc'.view[j].own
        PROVE  j # "ping" /\ cyc'.view[j].len <= Len(live'.lists[j].cells)
    <3>1. j \in DOMAIN cyc.view /\ cyc'.view[j] = cyc.view[j]
      <4>1. cyc' \in Keeps(k)
        BY <2>2 DEF Add
      <4>2. j \in DOMAIN cyc.view
        BY <4>1, <2>6, KeptRound DEF SameRound
      <4>3. \/ cyc'.view[j] = cyc.view[j]
            \/ cyc'.view[j] = [own |-> TRUE, cells |-> live.lists[j].cells, len |-> cyc.view[j].len]
        BY <4>1, <4>2, KeptRound
      <4> QED
        BY <2>6, <4>2, <4>3
    <3>2. j \in Used /\ j # "ping" /\ cyc.view[j].len <= Len(live.lists[j].cells) /\ cyc.view[j].len \in Nat
      BY <2>6, <3>1, RoundType
    <3>3. Len(live.lists[j].cells) <= Len(live'.lists[j].cells)
      <4>1. CASE j # k
        BY <2>3, <3>2, <4>1, LiveType, LenProperties DEF Slices
      <4>2. CASE j = k
        <5>1. live.lists[k] \in Slices /\ live.lists[k].len <= Len(live.lists[k].cells)
          BY LiveType
        <5> QED
          BY <2>3, <3>2, <4>2, <5>1, AppendedSlice
      <4> QED
        BY <4>1, <4>2
    <3>4. Len(live.lists[j].cells) \in Nat /\ Len(live'.lists[j].cells) \in Nat
      BY <2>3, <3>2, LiveType, LenProperties DEF ServersOf, Slices
    <3> QED
      BY <3>1, <3>2, <3>3, <3>4
  <2> QED
    BY <1>0, <2>3, <2>4, <2>5, <2>6
<1>2. CASE handleAddServer
  <2>1. /\ live' \in ServersOf(Used) /\ Used' = Used /\ Within(live') /\ live'.known
        /\ file' = file \/ file' = AsFile(live')
        /\ ~live.known /\ cyc' = cyc
    BY <1>2, AddedServer
  <2>2. \A j \in Used : live'.lists[j].len <= Len(live'.lists[j].cells)
    BY <2>1 DEF Within, Used
  <2>3. ~file'.known => \A j \in Used : file'.lists[j] = <<>>
    BY <2>1, FileOfServer
  <2>4. DOMAIN cyc'.view = {}
    BY <2>1, RoundType
  <2> QED
    BY <1>0, <2>1, <2>2, <2>3, <2>4
<1>3. ASSUME NEW t \in Tabs, probeRows(t) \/ NotFound(t)
      PROVE  ListsInv'
  BY <1>3 DEF probeRows, NotFound, Used
<1>4. ASSUME NEW t \in Tabs, StartRemoval(t)
      PROVE  ListsInv'
  <2>1. cyc'.view = cyc.view /\ live.known
    <3>1. CASE cyc = NoCycle
      BY <1>4, <3>1 DEF StartRemoval, NoCycle
    <3>2. CASE cyc \in Rounds
      BY <1>4, <3>2 DEF StartRemoval, Rounds
    <3> QED
      BY <3>1, <3>2 DEF TypeOK
  <2> QED
    BY <1>0, <1>4, <2>1 DEF StartRemoval, Used
<1>5. CASE handleRemoveProbe
  <2>1. /\ live' \in ServersOf(Used) /\ Used' = Used /\ Within(live') /\ live'.known
        /\ move.kind \in Used /\ move.index \in 1 .. live.lists[move.kind].len
        /\ \A j \in Used \ {move.kind} : live'.lists[j] = live.lists[j]
        /\ live'.lists[move.kind] =
                IF move.kind = "ping" THEN Slice(<<>>) ELSE Without(live.lists[move.kind], move.index)
        /\ file' = file \/ file' = AsFile(live')
    BY <1>5, RemovedFromList
  <2>2. \A j \in Used : live'.lists[j].len <= Len(live'.lists[j].cells)
    BY <2>1 DEF Within, Used
  <2>3. ~file'.known => \A j \in Used : file'.lists[j] = <<>>
    BY <2>1, FileOfServer
  <2>4. cyc' = cyc
    BY <1>5 DEF handleRemoveProbe
  <2>5. ASSUME NEW j \in DOMAIN cyc.view, ~cyc.view[j].own
        PROVE  j # "ping" /\ cyc.view[j].len <= Len(live'.lists[j].cells)
    <3>1. j \in Used /\ j # "ping" /\ cyc.view[j].len <= Len(live.lists[j].cells)
      BY <2>5, RoundType
    <3>2. Len(live'.lists[j].cells) = Len(live.lists[j].cells)
      <4>1. CASE j # move.kind
        BY <2>1, <3>1, <4>1
      <4>2. CASE j = move.kind
        <5>1. live.lists[j] \in Slices /\ live.lists[j].len <= Len(live.lists[j].cells) /\ live.lists[j].len \in Nat
          BY <3>1, LiveType DEF Slices
        <5>2. move.index \in Nat /\ move.index > 0 /\ move.index <= live.lists[j].len
          BY <2>1, <4>2, <5>1
        <5>3. Len(Without(live.lists[j], move.index).cells) = Len(live.lists[j].cells)
          BY <5>1, <5>2, WithoutRow
        <5>4. live'.lists[j] = Without(live.lists[j], move.index)
          BY <2>1, <3>1, <4>2
        <5> QED
          BY <5>3, <5>4
      <4> QED
        BY <4>1, <4>2
    <3> QED
      BY <3>1, <3>2
  <2> QED
    BY <1>0, <2>1, <2>2, <2>3, <2>4, <2>5
<1>6. CASE CycleStep
  <2>1. UNCHANGED <<live, file>> /\ Used' = Used
    BY <1>6, CycleLeaves DEF CycleKeeps, Used
  <2>2. CASE BeginRound /\ cyc'.view = [k \in Used |-> [own |-> k = "ping", cells |-> live.lists[k].cells,
                                                          len |-> live.lists[k].len]]
    <3>1. live.known
      BY <2>2 DEF BeginRound
    <3>2. ASSUME NEW k \in DOMAIN cyc'.view, ~cyc'.view[k].own
          PROVE  k # "ping" /\ cyc'.view[k].len <= Len(live.lists[k].cells)
      <4>1. k \in Used /\ cyc'.view[k] = [own |-> k = "ping", cells |-> live.lists[k].cells, len |-> live.lists[k].len]
        BY <2>2
      <4>2. cyc'.view[k].own = (k = "ping") /\ cyc'.view[k].len = live.lists[k].len
        BY <4>1
      <4> QED
        BY <3>2, <4>1, <4>2
    <3> QED
      BY <1>0, <2>1, <3>1, <3>2
  <2>3. CASE cyc.step # "idle" /\ cyc'.step # "idle" /\ cyc'.view = cyc.view
    BY <1>0, <2>1, <2>3
  <2>4. CASE cyc' = NoCycle
    <3>1. cyc'.step = "idle" /\ DOMAIN cyc'.view = {}
      BY <2>4 DEF NoCycle
    <3> QED
      BY <1>0, <2>1, <3>1
  <2> QED
    BY <1>6, <2>2, <2>3, <2>4, CycleViews
<1>7. CASE Restart
  <2>1. /\ Used' = Used /\ Within(live') /\ live'.known = file.known
        /\ \A k \in Used : live'.lists[k].len = Len(file.lists[k])
    BY <1>7, Restarted
  <2>2. cyc' = NoCycle /\ cyc'.step = "idle" /\ DOMAIN cyc'.view = {} /\ file' = file
    BY <1>7 DEF Restart, NoCycle
  <2>3. ~live'.known => \A k \in Used : live'.lists[k].len = 0
    BY <2>1, ShortLists
  <2>4. \A j \in Used : live'.lists[j].len <= Len(live'.lists[j].cells)
    BY <2>1 DEF Within, Used
  <2> QED
    BY <1>0, <2>1, <2>2, <2>3, <2>4
<1>8. CASE UNCHANGED vars
  BY <1>8 DEF vars, Used
<1> QED
  BY <1>1, <1>2, <1>3, <1>4, <1>5, <1>6, <1>7, <1>8, StepCases

----------------------------------------------------------------------------
(* The rows that operators have picked. *)

LEMMA NoRowPlaced ==
    ~NoRow.fresh /\ Picked(NoRow) /\ InPlace(NoRow)
  BY DEF NoRow, Picked, InPlace

\* Where a row that is still in place is.
LEMMA RowPlace ==
    ASSUME TypeOK, ListsInv, NEW row \in Rows, Picked(row), InPlace(row), row.fresh
    PROVE  /\ row.kind \in Used /\ row.index \in 1 .. live.lists[row.kind].len
           /\ live.lists[row.kind].cells[row.index].id = row.id
           /\ live.known
<1>1. row # NoRow
  BY NoRowPlaced
<1>2. row.kind \in Used /\ row.index \in Nat /\ row.index > 0 /\ row.index <= live.lists[row.kind].len
  BY <1>1 DEF Picked, InPlace, Rows
<1>3. live.lists[row.kind].len \in Nat
  BY <1>2, LiveType DEF Slices
<1> QED
  BY <1>2, <1>3 DEF InPlace, ListsInv

\* A row that is in place after a step that leaves none to be removed.
Stays(row) ==
    row.fresh => row.index <= live'.lists[row.kind].len /\ live'.lists[row.kind].cells[row.index].id = row.id

LEMMA RowsNext ==
    ASSUME Used' = Used, move' = NoRow, \A t \in Tabs : Picked(pages'[t]) /\ Stays(pages'[t])
    PROVE  RowsInv'
<1>1. \A t \in Tabs : (Picked(pages[t]) /\ InPlace(pages[t]))'
  BY DEF Picked, InPlace, Stays, NoRow
<1>2. (Picked(move) /\ InPlace(move))' /\ ~(move # NoRow)'
  BY DEF Picked, InPlace, NoRow
<1> QED
  BY <1>1, <1>2 DEF RowsInv

LEMMA RowsStep ==
    ASSUME TypeOK, ListsInv, RowsInv, [Next]_vars
    PROVE  RowsInv'
<1>1. pages \in [Tabs -> Rows] /\ move \in Rows
  BY DEF TypeOK
<1>2. \A t \in Tabs : Picked(pages[t]) /\ InPlace(pages[t])
  BY DEF RowsInv
<1>3. CASE handleAddProbe \/ handleImportProbes
  <2>1. move = NoRow
    BY <1>3, AddingIsAdd
  <2>2. PICK k \in Used, p \in Probes : Add(k, p)
    BY <1>3, AddingIsAdd
  <2>3. /\ Used' = Used
        /\ \A j \in Used \ {k} : live'.lists[j] = live.lists[j]
        /\ k # "ping" => live'.lists[k] = Appended(live.lists[k], p)
    BY <2>2, AddedList
  <2>4. move' = NoRow /\ pages' = Outdated(IF k = "ping" THEN {k} ELSE {})
    BY <2>1, <2>2 DEF Add
  <2>5. ASSUME NEW t \in Tabs
        PROVE  Picked(pages'[t]) /\ Stays(pages'[t])
    <3> DEFINE row == pages'[t]
    <3>1. /\ row.fresh => row = pages[t] /\ row.kind \notin (IF k = "ping" THEN {k} ELSE {})
          /\ Picked(row)
      BY <2>4, OutdatedType
    <3> HIDE DEF row
    <3>2. ASSUME row.fresh
          PROVE  row.index <= live'.lists[row.kind].len /\ live'.lists[row.kind].cells[row.index].id = row.id
      <4>1. /\ row.kind \in Used /\ row.index \in 1 .. live.lists[row.kind].len
            /\ live.lists[row.kind].cells[row.index].id = row.id
        <5>1. row = pages[t] /\ row \in Rows /\ Picked(row) /\ InPlace(row)
          BY <1>1, <1>2, <3>1, <3>2
        <5> QED
          BY <3>2, <5>1, RowPlace
      <4>2. CASE row.kind # k
        BY <2>3, <4>1, <4>2, LiveType DEF Slices
      <4>3. CASE row.kind = k
        <5>1. k # "ping" /\ live.lists[k] \in Slices /\ live.lists[k].len \in Nat
              /\ live.lists[k].len <= Len(live.lists[k].cells)
          BY <3>1, <3>2, <4>3, LiveType DEF Slices
        <5> DEFINE a == Appended(live.lists[k], p)
        <5>2. /\ a.len = live.lists[k].len + 1
              /\ \A i \in 1 .. live.lists[k].len : a.cells[i] = live.lists[k].cells[i]
          BY <5>1, AppendedSlice
        <5> HIDE DEF a
        <5>3. live'.lists[k] = a
          BY <2>3, <5>1 DEF a
        <5> QED
          BY <4>1, <4>3, <5>1, <5>2, <5>3
      <4> QED
        BY <4>2, <4>3
    <3> QED
      BY <3>1, <3>2 DEF Stays, row
  <2> QED
    BY <2>3, <2>4, <2>5, RowsNext
<1>4. CASE handleAddServer
  <2>1. Used' = Used /\ ~live.known /\ pages' = pages /\ move = NoRow /\ move' = NoRow
    BY <1>4, AddedServer
  <2>2. \A t \in Tabs : ~pages[t].fresh
    BY <1>1, <1>2, <2>1, RowPlace
  <2> QED
    BY <1>2, <2>1, <2>2, RowsNext DEF Stays
<1>5. ASSUME NEW t \in Tabs, probeRows(t)
      PROVE  RowsInv'
  <2>1. PICK k \in Used : \E i \in 1 .. live.lists[k].len :
          pages' = [pages EXCEPT ![t] = [kind |-> k, index |-> i, id |-> Current(k)[i].id, fresh |-> TRUE]]
    BY <1>5 DEF probeRows
  <2>2. PICK i \in 1 .. live.lists[k].len :
          pages' = [pages EXCEPT ![t] = [kind |-> k, index |-> i, id |-> Current(k)[i].id, fresh |-> TRUE]]
    BY <2>1
  <2> DEFINE row == [kind |-> k, index |-> i, id |-> Current(k)[i].id, fresh |-> TRUE]
  <2>3. /\ live.lists[k].len \in Nat /\ Current(k)[i] = live.lists[k].cells[i]
    BY LiveType DEF Slices
  <2>4. Picked(row) /\ InPlace(row)
    BY <2>3 DEF Picked, InPlace
  <2> HIDE DEF row
  <2>5. \A u \in Tabs : pages'[u] = IF u = t THEN row ELSE pages[u]
    BY <1>1, <2>2 DEF row
  <2>6. \A u \in Tabs : Picked(pages'[u]) /\ InPlace(pages'[u])
    BY <1>2, <2>4, <2>5
  <2> QED
    BY <1>5, <2>6 DEF probeRows, RowsInv, Picked, InPlace, Used
<1>6. ASSUME NEW t \in Tabs, StartRemoval(t)
      PROVE  RowsInv'
  <2>1. /\ pages' = [pages EXCEPT ![t] = NoRow] /\ move' = pages[t] /\ live' = live /\ live.known
        /\ pages[t].index <= live.lists[pages[t].kind].len
    BY <1>6 DEF StartRemoval
  <2>2. \A u \in Tabs : pages'[u] = IF u = t THEN NoRow ELSE pages[u]
    BY <1>1, <2>1
  <2>3. \A u \in Tabs : Picked(pages'[u]) /\ InPlace(pages'[u])
    BY <1>2, <2>2, NoRowPlaced
  <2> QED
    BY <1>2, <2>1, <2>3 DEF RowsInv, Picked, InPlace, Used
<1>7. ASSUME NEW t \in Tabs, NotFound(t)
      PROVE  RowsInv'
  <2>1. pages' = [pages EXCEPT ![t] = NoRow] /\ UNCHANGED <<live, move>>
    BY <1>7 DEF NotFound
  <2>2. \A u \in Tabs : pages'[u] = IF u = t THEN NoRow ELSE pages[u]
    BY <1>1, <2>1
  <2>3. \A u \in Tabs : Picked(pages'[u]) /\ InPlace(pages'[u])
    BY <1>2, <2>2, NoRowPlaced
  <2> QED
    BY <2>1, <2>3 DEF RowsInv, Picked, InPlace, Used
<1>8. CASE handleRemoveProbe
  <2>1. /\ Used' = Used
        /\ \A j \in Used \ {move.kind} : live'.lists[j] = live.lists[j]
    BY <1>8, RemovedFromList
  <2>2. move' = NoRow /\ pages' = Outdated({move.kind})
    BY <1>8 DEF handleRemoveProbe
  <2>3. ASSUME NEW t \in Tabs
        PROVE  Picked(pages'[t]) /\ Stays(pages'[t])
    <3> DEFINE row == pages'[t]
    <3>1. (row.fresh => row = pages[t] /\ row.kind \notin {move.kind}) /\ Picked(row)
      BY <2>2, OutdatedType
    <3> HIDE DEF row
    <3>2. ASSUME row.fresh
          PROVE  row.index <= live'.lists[row.kind].len /\ live'.lists[row.kind].cells[row.index].id = row.id
      <4>1. /\ row.kind \in Used /\ row.index \in 1 .. live.lists[row.kind].len
            /\ live.lists[row.kind].cells[row.index].id = row.id
        <5>1. row = pages[t] /\ row \in Rows /\ Picked(row) /\ InPlace(row)
          BY <1>1, <1>2, <3>1, <3>2
        <5> QED
          BY <3>2, <5>1, RowPlace
      <4> QED
        BY <2>1, <3>1, <3>2, <4>1, LiveType DEF Slices
    <3> QED
      BY <3>1, <3>2 DEF Stays, row
  <2> QED
    BY <2>1, <2>2, <2>3, RowsNext
<1>9. CASE CycleStep
  BY <1>9, CycleLeaves DEF CycleKeeps, RowsInv, Picked, InPlace, Used
<1>10. CASE Restart
  <2>1. /\ Used' = Used
        /\ \A k \in Used :
             /\ live'.lists[k].len = Len(file.lists[k])
             /\ \A i \in 1 .. Len(file.lists[k]) :
                  live'.lists[k].cells[i] = applyDefaults(k, file.lists[k][i], file.local)
    BY <1>10, Restarted
  <2> DEFINE gone == {k \in Used : IdsOf(Current(k)) # IdsOf(file.lists[k])}
  <2>2. move' = NoRow /\ pages' = Outdated(gone)
    BY <1>10 DEF Restart
  <2> HIDE DEF gone
  <2>3. ASSUME NEW t \in Tabs
        PROVE  Picked(pages'[t]) /\ Stays(pages'[t])
    <3> DEFINE row == pages'[t]
               k == row.kind
               i == row.index
    <3>1. (row.fresh => row = pages[t] /\ row.kind \notin gone) /\ Picked(row)
      BY <2>2, OutdatedType
    <3> HIDE DEF row
    <3>2. ASSUME row.fresh
          PROVE  i <= live'.lists[k].len /\ live'.lists[k].cells[i].id = row.id
      <4>1. k \in Used /\ i \in 1 .. live.lists[k].len /\ live.lists[k].cells[i].id = row.id
        <5>1. row = pages[t] /\ row \in Rows /\ Picked(row) /\ InPlace(row)
          BY <1>1, <1>2, <3>1, <3>2
        <5> QED
          BY <3>2, <5>1, RowPlace
      <4>2. IdsOf(Current(k)) = IdsOf(file.lists[k])
        BY <3>1, <3>2, <4>1 DEF gone
      <4>3. DOMAIN Current(k) = 1 .. live.lists[k].len /\ Current(k)[i] = live.lists[k].cells[i]
        BY <4>1, LiveType
      <4>4. file.lists[k] \in Seq(Probes)
        BY <4>1 DEF TypeOK
      <4>5. DOMAIN file.lists[k] = 1 .. Len(file.lists[k]) /\ Len(file.lists[k]) \in Nat
        BY <4>4, LenProperties
      <4>6. DOMAIN Current(k) = DOMAIN file.lists[k]
        <5>1. DOMAIN IdsOf(Current(k)) = DOMAIN Current(k) /\ DOMAIN IdsOf(file.lists[k]) = DOMAIN file.lists[k]
          BY DEF IdsOf
        <5> QED
          BY <4>2, <5>1
      <4>7. Current(k)[i].id = file.lists[k][i].id
        <5>1. IdsOf(Current(k))[i] = Current(k)[i].id /\ IdsOf(file.lists[k])[i] = file.lists[k][i].id
          BY <4>1, <4>3, <4>6 DEF IdsOf
        <5> QED
          BY <4>2, <5>1
      <4>8. i \in 1 .. Len(file.lists[k]) /\ file.lists[k][i] \in Probes
        BY <4>1, <4>3, <4>4, <4>5, <4>6, ElementOfSeq
      <4>9. live'.lists[k].cells[i].id = file.lists[k][i].id
        <5>1. k \in Kinds /\ file.local \in BOOLEAN
          BY <4>1, UsedAreKinds DEF TypeOK
        <5>2. applyDefaults(k, file.lists[k][i], file.local).id = file.lists[k][i].id
          BY <4>8, <5>1, DefaultsApplied
        <5> QED
          BY <2>1, <4>1, <4>8, <5>2
      <4> QED
        BY <2>1, <4>1, <4>3, <4>5, <4>7, <4>8, <4>9
    <3> QED
      BY <3>1, <3>2 DEF Stays, row
  <2> QED
    BY <2>1, <2>2, <2>3, RowsNext
<1>11. CASE UNCHANGED vars
  BY <1>11 DEF vars, RowsInv, Picked, InPlace, Used
<1> QED
  BY <1>3, <1>4, <1>5, <1>6, <1>7, <1>8, <1>9, <1>10, <1>11, StepCases

----------------------------------------------------------------------------
(* The probes that lists and arrays have in them. *)

LEMMA AddedCells ==
    ASSUME TypeOK, ListsInv, NEW k \in Used, NEW p \in Probes, Add(k, p), NEW j \in Used
    PROVE  Cells(j)' \subseteq Cells(j) \cup (IF j = k THEN {p} ELSE {})
<1>1. /\ live.lists[j] \in Slices /\ live.lists[j].len <= Len(live.lists[j].cells)
      /\ DOMAIN live.lists[j].cells = 1 .. Len(live.lists[j].cells)
  BY LiveType, LenProperties DEF Slices
<1>2. CASE j # k
  BY <1>2, AddedList DEF Cells
<1>3. CASE j = k /\ k = "ping"
  <2>1. live'.lists[j] = Slice(<<p>>)
    BY <1>3, AddedList
  <2>2. Slice(<<p>>).cells = <<p>>
    BY DEF Slice
  <2>3. \A i \in DOMAIN <<p>> : <<p>>[i] = p
    OBVIOUS
  <2>4. Cells(j)' = {<<p>>[i] : i \in DOMAIN <<p>>}
    BY <2>1, <2>2 DEF Cells
  <2> QED
    BY <1>3, <2>3, <2>4
<1>4. CASE j = k /\ k # "ping"
  <2> DEFINE a == Appended(live.lists[j], p)
  <2>1. /\ a \in Slices
        /\ \A i \in 1 .. Len(a.cells) :
             a.cells[i] = p \/ (i \in 1 .. Len(live.lists[j].cells) /\ a.cells[i] = live.lists[j].cells[i])
    BY <1>1, AppendedSlice
  <2>2. live'.lists[j] = a
    BY <1>4, AddedList
  <2> HIDE DEF a
  <2>3. DOMAIN a.cells = 1 .. Len(a.cells)
    BY <2>1, LenProperties DEF Slices
  <2>4. Cells(j)' = {a.cells[i] : i \in 1 .. Len(a.cells)}
    BY <2>2, <2>3 DEF Cells
  <2> QED
    BY <1>1, <1>4, <2>1, <2>4 DEF Cells
<1> QED
  BY <1>2, <1>3, <1>4

LEMMA RemovedCells ==
    ASSUME TypeOK, ListsInv, RowsInv, handleRemoveProbe, NEW j \in Used
    PROVE  Cells(j)' \subseteq Cells(j)
<1>1. /\ live.lists[j] \in Slices /\ live.lists[j].len <= Len(live.lists[j].cells) /\ live.lists[j].len \in Nat
      /\ DOMAIN live.lists[j].cells = 1 .. Len(live.lists[j].cells)
  BY LiveType, LenProperties DEF Slices
<1>2. CASE j # move.kind
  BY <1>2, RemovedFromList DEF Cells
<1>3. CASE j = move.kind /\ j = "ping"
  <2>1. live'.lists[j] = Slice(<<>>) /\ Slice(<<>>).cells = <<>>
    BY <1>3, RemovedFromList DEF Slice
  <2>2. Cells(j)' = {}
    BY <2>1 DEF Cells
  <2> QED
    BY <2>2
<1>4. CASE j = move.kind /\ j # "ping"
  <2> DEFINE w == Without(live.lists[j], move.index)
  <2>1. move.index \in Nat /\ move.index > 0 /\ move.index <= live.lists[j].len
    BY <1>1, <1>4, RemovedFromList
  <2>2. /\ w \in Slices
        /\ \A i \in 1 .. Len(w.cells) : \E n \in 1 .. Len(live.lists[j].cells) : w.cells[i] = live.lists[j].cells[n]
    BY <1>1, <2>1, WithoutRow
  <2>3. live'.lists[j] = w
    BY <1>4, RemovedFromList
  <2> HIDE DEF w
  <2>4. DOMAIN w.cells = 1 .. Len(w.cells)
    BY <2>2, LenProperties DEF Slices
  <2>5. Cells(j)' = {w.cells[i] : i \in 1 .. Len(w.cells)}
    BY <2>3, <2>4 DEF Cells
  <2>6. Cells(j) = {live.lists[j].cells[i] : i \in 1 .. Len(live.lists[j].cells)}
    BY <1>1 DEF Cells
  <2>7. \A q \in Cells(j)' : q \in Cells(j)
    BY <2>2, <2>5, <2>6
  <2> QED
    BY <2>7
<1> QED
  BY <1>2, <1>3, <1>4

LEMMA RestartedCells ==
    ASSUME TypeOK, Restart, NEW k \in Used
    PROVE  \A q \in Cells(k)' : \E p \in Lines(k) : p \in Probes /\ q = applyDefaults(k, p, file.local)
<1>1. file.lists[k] \in Seq(Probes)
  BY DEF TypeOK
<1>2. /\ DOMAIN file.lists[k] = 1 .. Len(file.lists[k])
      /\ \A i \in 1 .. Len(file.lists[k]) : file.lists[k][i] \in Probes
  BY <1>1, LenProperties, ElementOfSeq
<1>3. /\ live'.lists[k] \in Slices /\ Len(live'.lists[k].cells) = Len(file.lists[k])
      /\ \A i \in 1 .. Len(file.lists[k]) :
           live'.lists[k].cells[i] = applyDefaults(k, file.lists[k][i], file.local)
  BY Restarted DEF ServersOf
<1>4. DOMAIN live'.lists[k].cells = 1 .. Len(file.lists[k])
  BY <1>3, LenProperties DEF Slices
<1> QED
  BY <1>2, <1>3, <1>4 DEF Cells, Lines

\* What is in the file after a save is in the lists or was in the file.
LEMMA SavedLines ==
    ASSUME Used' = Used, live' \in ServersOf(Used), Within(live'), file' = file \/ file' = AsFile(live'), NEW k \in Used
    PROVE  Lines(k)' \subseteq Lines(k) \cup Cells(k)'
<1>1. CASE file' = file
  BY <1>1 DEF Lines
<1>2. CASE file' = AsFile(live')
  <2>1. live'.lists[k] \in Slices /\ live'.lists[k].len <= Len(live'.lists[k].cells)
    BY DEF ServersOf, Within
  <2>2. file'.lists[k] = ListOf(live'.lists[k])
    BY <1>2, FileOfServer
  <2>3. /\ DOMAIN file'.lists[k] = 1 .. live'.lists[k].len
        /\ \A i \in 1 .. live'.lists[k].len : file'.lists[k][i] = live'.lists[k].cells[i]
    BY <2>1, <2>2, ListOfSlice
  <2>4. live'.lists[k].len \in Nat /\ DOMAIN live'.lists[k].cells = 1 .. Len(live'.lists[k].cells)
        /\ Len(live'.lists[k].cells) \in Nat
    BY <2>1, LenProperties DEF Slices
  <2>5. \A i \in 1 .. live'.lists[k].len : i \in DOMAIN live'.lists[k].cells
    BY <2>1, <2>4
  <2> QED
    BY <2>3, <2>5 DEF Lines, Cells
<1> QED
  BY <1>1, <1>2

----------------------------------------------------------------------------
(* Timeouts, and the numbers of probes. *)

\* The views that a collection keeps, takes or leaves.
LEMMA ViewedNext ==
    ASSUME TypeOK, ListsInv, Used' = Used, [Next]_vars, NEW k \in DOMAIN cyc'.view
    PROVE  (k \in DOMAIN cyc.view /\ Viewed(k)' = Viewed(k)) \/ (k \in Used /\ Viewed(k)' = Cells(k))
<1>1. CASE handleAddProbe \/ handleImportProbes
  <2>1. PICK j \in Used, p \in Probes : Add(j, p)
    BY <1>1, AddingIsAdd
  <2>2. cyc' \in Keeps(j)
    BY <2>1 DEF Add
  <2>3. k \in DOMAIN cyc.view
    BY <2>2, KeptRound DEF SameRound
  <2>4. cyc'.view[k] = cyc.view[k] \/ cyc'.view[k].cells = live.lists[k].cells
    <3>1. \/ cyc'.view[k] = cyc.view[k]
          \/ cyc'.view[k] = [own |-> TRUE, cells |-> live.lists[k].cells, len |-> cyc.view[k].len]
      BY <2>2, <2>3, KeptRound
    <3> QED
      BY <3>1
  <2>5. k \in Used
    BY <2>3, RoundType
  <2> QED
    BY <2>3, <2>4, <2>5 DEF Viewed, Cells
<1>2. CASE handleAddServer
  BY <1>2, AddedServer DEF Viewed
<1>3. ASSUME NEW t \in Tabs, probeRows(t) \/ NotFound(t)
      PROVE  k \in DOMAIN cyc.view /\ Viewed(k)' = Viewed(k)
  BY <1>3 DEF probeRows, NotFound, Viewed
<1>4. ASSUME NEW t \in Tabs, StartRemoval(t)
      PROVE  k \in DOMAIN cyc.view /\ Viewed(k)' = Viewed(k)
  <2>1. cyc'.view = cyc.view
    <3>1. CASE cyc = NoCycle
      BY <1>4, <3>1 DEF StartRemoval, NoCycle
    <3>2. CASE cyc \in Rounds
      BY <1>4, <3>2 DEF StartRemoval, Rounds
    <3> QED
      BY <3>1, <3>2 DEF TypeOK
  <2> QED
    BY <2>1 DEF Viewed
<1>5. CASE handleRemoveProbe
  BY <1>5 DEF handleRemoveProbe, Viewed
<1>6. CASE CycleStep
  <2>1. CASE cyc'.view = [j \in Used |-> [own |-> j = "ping", cells |-> live.lists[j].cells,
                                          len |-> live.lists[j].len]]
    <3>1. k \in Used /\ cyc'.view[k].cells = live.lists[k].cells
      BY <2>1
    <3> QED
      BY <3>1 DEF Viewed, Cells
  <2>2. CASE cyc'.view = cyc.view
    BY <2>2 DEF Viewed
  <2>3. CASE cyc' = NoCycle
    BY <2>3 DEF NoCycle
  <2> QED
    BY <1>6, <2>1, <2>2, <2>3, CycleViews
<1>7. CASE Restart
  BY <1>7 DEF Restart, NoCycle
<1>8. CASE UNCHANGED vars
  BY <1>8 DEF vars, Viewed
<1> QED
  BY <1>1, <1>2, <1>3, <1>4, <1>5, <1>6, <1>7, <1>8, StepCases

LEMMA TimesStep ==
    ASSUME TypeOK, ListsInv, RowsInv, TimesInv, [Next]_vars
    PROVE  TimesInv'
<1>1. Used' = Used
  BY StepCases, AddingIsAdd, AddedList, AddedServer, RemovedFromList, Restarted, SameLists
<1>2. ASSUME NEW k \in Used, NEW p \in Cells(k)'
      PROVE  OnTime(k, p)
  <2>1. CASE handleAddProbe \/ handleImportProbes
    <3>1. PICK j \in Used, new \in Probes : Add(j, new) /\ OnTime(j, new)
      BY <2>1, AddingIsAdd
    <3>2. p \in Cells(k) \/ (k = j /\ p = new)
      BY <3>1, AddedCells
    <3> QED
      BY <3>1, <3>2 DEF TimesInv
  <2>2. CASE handleAddServer
    <3>1. live'.lists[k].cells \in Seq(Probes)
      BY <2>2, AddedServer DEF ServersOf, Slices
    <3>2. PICK i \in 1 .. Len(live'.lists[k].cells) : p = live'.lists[k].cells[i]
      BY <3>1, LenProperties DEF Cells
    <3> QED
      BY <2>2, <3>2, AddedServer
  <2>3. CASE handleRemoveProbe
    BY <2>3, RemovedCells DEF TimesInv
  <2>4. CASE Restart
    <3>1. PICK q \in Probes : p = applyDefaults(k, q, file.local)
      BY <2>4, RestartedCells
    <3>2. k \in Kinds /\ file.local \in BOOLEAN
      BY UsedAreKinds DEF TypeOK
    <3> QED
      BY <3>1, <3>2, DefaultsApplied
  <2>5. CASE live' = live
    BY <2>5 DEF TimesInv, Cells
  <2> QED
    BY <2>1, <2>2, <2>3, <2>4, <2>5, StepCases, SameLists
<1>3. ASSUME NEW k \in DOMAIN cyc'.view, NEW p \in Viewed(k)'
      PROVE  OnTime(k, p)
  BY <1>1, <1>3, ViewedNext DEF TimesInv
<1> QED
  BY <1>1, <1>2, <1>3 DEF TimesInv

LEMMA NumbersStep ==
    ASSUME TypeOK, ListsInv, RowsInv, NumbersInv, [Next]_vars
    PROVE  NumbersInv'
<1>1. born \in Nat
  BY UsedAreKinds DEF TypeOK
<1>2. CASE handleAddProbe \/ handleImportProbes
  <2>1. PICK j \in Used, new \in Probes : Add(j, new) /\ new.id = born + 1
    BY <1>2, AddingIsAdd
  <2>2. Used' = Used /\ born' = born + 1
    BY <2>1, AddedList DEF Add
  <2>3. ASSUME NEW k \in Used, NEW p \in (Cells(k) \cup Lines(k))'
        PROVE  p \in Cells(k) \cup Lines(k) \/ (k = j /\ p = new)
    <3>1. Cells(k)' \subseteq Cells(k) \cup (IF k = j THEN {new} ELSE {})
      BY <2>1, AddedCells
    <3>2. Lines(k)' \subseteq Lines(k) \cup Cells(k)'
      BY <2>1, AddedList, SavedLines
    <3> QED
      BY <2>3, <3>1, <3>2
  <2>4. ASSUME NEW k \in Used, NEW p \in (Cells(k) \cup Lines(k))', NEW q \in (Cells(k) \cup Lines(k))'
        PROVE  p.id <= born + 1 /\ (p.id = q.id => Alike(k, p, q))
    <3>1. p \in Cells(k) \cup Lines(k) => p.id <= born
      BY DEF NumbersInv
    <3>2. q \in Cells(k) \cup Lines(k) => q.id <= born
      BY DEF NumbersInv
    <3>3. p.id \in Nat /\ q.id \in Nat
      <4>1. live.lists[k].cells \in Seq(Probes) /\ file.lists[k] \in Seq(Probes)
        BY LiveType DEF TypeOK, Slices
      <4>2. \A r \in Cells(k) \cup Lines(k) : r \in Probes
        BY <4>1, ElementOfSeq, LenProperties DEF Cells, Lines
      <4> QED
        BY <2>3, <2>4, <4>2 DEF Probes
    <3> QED
      BY <1>1, <2>1, <2>3, <3>1, <3>2, <3>3 DEF NumbersInv, Alike
  <2> QED
    BY <2>2, <2>4 DEF NumbersInv
<1>3. CASE handleAddServer
  <2>1. Used' = Used /\ born' = born + 1
    BY <1>3, AddedServer
  <2>2. ASSUME NEW k \in Used, NEW p \in Cells(k)'
        PROVE  p.id = born + 1 /\ p.extra = FALSE /\ (k # "tcp" => "target" \notin p.blank)
    <3>1. live'.lists[k].cells \in Seq(Probes)
      BY <1>3, AddedServer DEF ServersOf, Slices
    <3>2. PICK i \in 1 .. Len(live'.lists[k].cells) : p = live'.lists[k].cells[i]
      BY <3>1, LenProperties DEF Cells
    <3> QED
      BY <1>3, <3>2, AddedServer
  <2>3. ASSUME NEW k \in Used, NEW p \in (Cells(k) \cup Lines(k))'
        PROVE  p \in Lines(k) \/ p \in Cells(k)'
    BY <1>3, <2>3, AddedServer, SavedLines
  <2>4. ASSUME NEW k \in Used, NEW p \in (Cells(k) \cup Lines(k))', NEW q \in (Cells(k) \cup Lines(k))'
        PROVE  p.id <= born + 1 /\ (p.id = q.id => Alike(k, p, q))
    <3>1. /\ p \in Lines(k) => p.id <= born /\ p.id \in Nat
          /\ q \in Lines(k) => q.id <= born /\ q.id \in Nat
      <4>1. \A r \in Lines(k) : r \in Probes
        BY ElementOfSeq DEF Lines, TypeOK
      <4> QED
        BY <4>1 DEF NumbersInv, Probes
    <3>2. p \in Lines(k) /\ q \in Lines(k) => (p.id = q.id => Alike(k, p, q))
      BY DEF NumbersInv
    <3>3. ASSUME p \in Cells(k)', q \in Cells(k)'
          PROVE  Alike(k, p, q)
      <4>1. p.extra = q.extra /\ (k # "tcp" => "target" \notin p.blank /\ "target" \notin q.blank)
        BY <2>2, <3>3
      <4>2. k \in ToolKinds => k # "tcp"
        BY DEF ToolKinds, PathKinds
      <4> QED
        BY <4>1, <4>2 DEF Alike
    <3>4. (p \in Lines(k) \/ p \in Cells(k)') /\ (q \in Lines(k) \/ q \in Cells(k)')
      BY <2>3, <2>4
    <3>5. (p \in Cells(k)' => p.id = born + 1) /\ (q \in Cells(k)' => q.id = born + 1)
      BY <2>2
    <3> QED
      BY <1>1, <3>1, <3>2, <3>3, <3>4, <3>5
  <2> QED
    BY <2>1, <2>4 DEF NumbersInv
<1>4. CASE handleRemoveProbe
  <2>1. Used' = Used /\ born' = born
    BY <1>4, RemovedFromList DEF handleRemoveProbe
  <2>2. \A k \in Used : (Cells(k) \cup Lines(k))' \subseteq Cells(k) \cup Lines(k)
    BY <1>4, RemovedCells, RemovedFromList, SavedLines
  <2> QED
    BY <2>1, <2>2 DEF NumbersInv
<1>5. CASE Restart
  <2>1. Used' = Used /\ born' = born /\ file' = file
    BY <1>5, Restarted DEF Restart
  <2>2. ASSUME NEW k \in Used, NEW p \in (Cells(k) \cup Lines(k))'
        PROVE  \E q \in Lines(k) : p.id = q.id /\ Alike(k, p, q)
    <3>1. CASE p \in Lines(k)'
      <4>1. p \in Lines(k)
        BY <2>1, <3>1 DEF Lines
      <4> QED
        BY <4>1 DEF Alike
    <3>2. CASE p \in Cells(k)'
      <4>1. PICK q \in Lines(k) : q \in Probes /\ p = applyDefaults(k, q, file.local)
        BY <1>5, <3>2, RestartedCells
      <4>2. k \in Kinds /\ file.local \in BOOLEAN
        BY UsedAreKinds DEF TypeOK
      <4> QED
        BY <4>1, <4>2, DefaultsApplied
    <3> QED
      BY <2>2, <3>1, <3>2
  <2>3. ASSUME NEW k \in Used, NEW p \in (Cells(k) \cup Lines(k))', NEW q \in (Cells(k) \cup Lines(k))'
        PROVE  p.id <= born /\ (p.id = q.id => Alike(k, p, q))
    <3>1. PICK a \in Lines(k) : p.id = a.id /\ Alike(k, p, a)
      BY <2>2
    <3>2. PICK b \in Lines(k) : q.id = b.id /\ Alike(k, q, b)
      BY <2>2
    <3>3. a.id <= born /\ (a.id = b.id => Alike(k, a, b))
      BY DEF NumbersInv
    <3> QED
      BY <3>1, <3>2, <3>3 DEF Alike
  <2> QED
    BY <2>1, <2>3 DEF NumbersInv
<1>6. CASE UNCHANGED <<live, file, born>>
  BY <1>6 DEF NumbersInv, Cells, Lines, Used
<1> QED
  BY <1>2, <1>3, <1>4, <1>5, <1>6, StepCases, SameLists

----------------------------------------------------------------------------
(* What the operator has been told. *)

LEMMA EntryOfList ==
    ASSUME NEW k, NEW s \in Slices, s.len <= Len(s.cells), NEW e
    PROVE  e \in Entries(k, ListOf(s)) <=> \E i \in 1 .. s.len : e = Entry(k, s.cells[i])
<1>1. DOMAIN ListOf(s) = 1 .. s.len /\ \A i \in 1 .. s.len : ListOf(s)[i] = s.cells[i]
  BY ListOfSlice
<1> QED
  BY <1>1 DEF Entries

\* What is in memory and in the file remains in the file.
LEMMA SavedEntries ==
    ASSUME live' \in ServersOf(Used), Within(live'), file' = file \/ file' = AsFile(live'), NEW k \in Used, NEW e,
           e \in Entries(k, ListOf(live'.lists[k])), e \in Entries(k, file.lists[k]) \/ file' = AsFile(live')
    PROVE  e \in Entries(k, file'.lists[k])
<1>1. file' = AsFile(live') => file'.lists[k] = ListOf(live'.lists[k])
  BY FileOfServer
<1> QED
  BY <1>1

LEMMA ToldStep ==
    ASSUME TypeOK, ListsInv, RowsInv, ToldInv, [Next]_vars
    PROVE  ToldInv'
<1>1. Used' = Used
  BY StepCases, AddingIsAdd, AddedList, AddedServer, RemovedFromList, Restarted, SameLists
<1>2. ASSUME NEW e \in told', e.by \in {"page", "bundle"}
      PROVE  /\ e.kind \in Used
             /\ e \in Entries(e.kind, ListOf(live'.lists[e.kind])) /\ e \in Entries(e.kind, file'.lists[e.kind])
  <2> DEFINE j == e.kind
  <2>1. e \in told =>
          /\ j \in Used /\ live.lists[j] \in Slices /\ live.lists[j].len <= Len(live.lists[j].cells)
          /\ live.lists[j].len \in Nat
          /\ \E i \in 1 .. live.lists[j].len : e = Entry(j, live.lists[j].cells[i])
          /\ e \in Entries(j, Current(j)) /\ e \in Entries(j, file.lists[j])
    <3>1. e \in told => j \in Used /\ e \in Entries(j, Current(j)) /\ e \in Entries(j, file.lists[j])
      BY <1>2 DEF ToldInv
    <3>2. j \in Used => /\ live.lists[j] \in Slices /\ live.lists[j].len <= Len(live.lists[j].cells)
                        /\ live.lists[j].len \in Nat
      BY LiveType DEF Slices
    <3> QED
      BY <3>1, <3>2, EntryOfList DEF Current
  <2>2. CASE handleAddProbe \/ handleImportProbes
    <3>1. PICK k \in Used, p \in Probes : Add(k, p)
      BY <2>2, AddingIsAdd
    <3>2. /\ live' \in ServersOf(Used) /\ Within(live') /\ (file' = file \/ file' = AsFile(live'))
          /\ \A i \in Used \ {k} : live'.lists[i] = live.lists[i]
          /\ live'.lists[k] = IF k = "ping" THEN Slice(<<p>>) ELSE Appended(live.lists[k], p)
          /\ Savable(live') => file' = AsFile(live')
      BY <3>1, AddedList
    <3>3. \A i \in Used : live'.lists[i] \in Slices /\ live'.lists[i].len <= Len(live'.lists[i].cells)
      BY <1>1, <3>2 DEF ServersOf, Within, Used
    <3>4. CASE e = Entry(k, p) /\ file' = AsFile(live')
      <4>1. j = k
        BY <3>4 DEF Entry
      <4>2. live'.lists[k].len \in 1 .. live'.lists[k].len /\ live'.lists[k].cells[live'.lists[k].len] = p
        <5>1. CASE k = "ping"
          <6>1. live'.lists[k] = Slice(<<p>>) /\ Slice(<<p>>).len = 1 /\ Slice(<<p>>).cells = <<p>> /\ <<p>>[1] = p
            BY <3>2, <5>1, ShortLists DEF Slice
          <6> QED
            BY <6>1
        <5>2. CASE k # "ping"
          <6>1. live.lists[k] \in Slices /\ live.lists[k].len <= Len(live.lists[k].cells) /\ live.lists[k].len \in Nat
            BY LiveType DEF Slices
          <6> DEFINE a == Appended(live.lists[k], p)
          <6>2. a.len = live.lists[k].len + 1 /\ a.cells[a.len] = p
            BY <6>1, AppendedSlice
          <6> HIDE DEF a
          <6>3. live'.lists[k] = a
            BY <3>2, <5>2 DEF a
          <6> QED
            BY <6>1, <6>2, <6>3
        <5> QED
          BY <5>1, <5>2
      <4>3. e \in Entries(k, ListOf(live'.lists[k]))
        BY <3>3, <3>4, <4>2, EntryOfList
      <4> QED
        BY <3>2, <3>4, <4>1, <4>3, SavedEntries
    <3>5. CASE e \in told /\ e \notin Replaced(k)
      <4>1. j # "ping" \/ j # k
        BY <2>1, <3>5 DEF Replaced
      <4>2. PICK i \in 1 .. live.lists[j].len : e = Entry(j, live.lists[j].cells[i])
        BY <2>1, <3>5
      <4>3. i \in 1 .. live'.lists[j].len /\ live'.lists[j].cells[i] = live.lists[j].cells[i]
        <5>1. CASE j # k
          <6>1. live'.lists[j] = live.lists[j]
            BY <2>1, <3>2, <3>5, <5>1
          <6> QED
            BY <4>2, <6>1
        <5>2. CASE j = k
          <6> DEFINE a == Appended(live.lists[k], p)
          <6>1. /\ a.len = live.lists[k].len + 1
                /\ \A n \in 1 .. live.lists[k].len : a.cells[n] = live.lists[k].cells[n]
            BY <2>1, <3>5, <5>2, AppendedSlice
          <6> HIDE DEF a
          <6>2. live'.lists[j] = a
            BY <3>2, <4>1, <5>2 DEF a
          <6> QED
            BY <2>1, <3>5, <4>2, <5>2, <6>1, <6>2
        <5> QED
          BY <5>1, <5>2
      <4>4. e \in Entries(j, ListOf(live'.lists[j]))
        BY <2>1, <3>3, <3>5, <4>2, <4>3, EntryOfList
      <4> QED
        BY <2>1, <3>2, <3>5, <4>4, SavedEntries
    <3>6. \/ e = Entry(k, p) /\ file' = AsFile(live')
          \/ e \in told /\ e \notin Replaced(k)
      <4>1. told' = (told \ Replaced(k)) \cup (IF Savable(live') THEN {Entry(k, p)} ELSE {})
        BY <3>1 DEF Add
      <4> QED
        BY <1>2, <3>2, <4>1
    <3> QED
      BY <3>4, <3>5, <3>6
  <2>3. CASE handleAddServer
    <3>1. e.by \in {"form"}
      BY <1>2, <2>3, AddedServer
    <3> QED
      BY <1>2, <3>1
  <2>4. CASE handleRemoveProbe
    <3>1. /\ live' \in ServersOf(Used) /\ Within(live') /\ (file' = file \/ file' = AsFile(live'))
          /\ move.kind \in Used /\ move.index \in 1 .. live.lists[move.kind].len
          /\ \A i \in Used \ {move.kind} : live'.lists[i] = live.lists[i]
          /\ live'.lists[move.kind] =
                IF move.kind = "ping" THEN Slice(<<>>) ELSE Without(live.lists[move.kind], move.index)
      BY <2>4, RemovedFromList
    <3>2. \A i \in Used : live'.lists[i] \in Slices /\ live'.lists[i].len <= Len(live'.lists[i].cells)
      BY <1>1, <3>1 DEF ServersOf, Within, Used
    <3>3. e \in told /\ e # Entry(move.kind, live.lists[move.kind].cells[move.index])
      <4>1. Removed = live.lists[move.kind].cells[move.index]
        BY <3>1, LiveType DEF Removed
      <4> QED
        BY <1>2, <2>4, <4>1 DEF handleRemoveProbe
    <3>4. PICK i \in 1 .. live.lists[j].len : e = Entry(j, live.lists[j].cells[i])
      BY <2>1, <3>3
    <3>5. \E n \in 1 .. live'.lists[j].len : live'.lists[j].cells[n] = live.lists[j].cells[i]
      <4>1. CASE j # move.kind
        <5>1. live'.lists[j] = live.lists[j]
          BY <2>1, <3>1, <3>3, <4>1
        <5> QED
          BY <3>4, <5>1
      <4>2. CASE j = move.kind
        <5>1. i # move.index
          BY <3>3, <3>4, <4>2
        <5>2. j # "ping"
          <6>1. j = "ping" => live.lists[j].len <= 1
            BY <2>1, <3>3 DEF ListsInv
          <6> QED
            BY <2>1, <3>1, <3>3, <3>4, <4>2, <5>1, <6>1
        <5> DEFINE w == Without(live.lists[j], move.index)
        <5>3. move.index \in Nat /\ move.index > 0 /\ move.index <= live.lists[j].len
          BY <2>1, <3>1, <3>3, <4>2
        <5>4. /\ w.len = live.lists[j].len - 1
              /\ \A n \in 1 .. w.len :
                   w.cells[n] = IF n < move.index THEN live.lists[j].cells[n] ELSE live.lists[j].cells[n + 1]
          BY <2>1, <3>3, <5>3, WithoutRow
        <5> HIDE DEF w
        <5>5. live'.lists[j] = w
          BY <3>1, <4>2, <5>2 DEF w
        <5>6. CASE i < move.index
          <6>1. i \in 1 .. w.len /\ w.cells[i] = live.lists[j].cells[i]
            BY <2>1, <3>3, <3>4, <5>3, <5>4, <5>6
          <6> QED
            BY <5>5, <6>1
        <5>7. CASE ~(i < move.index)
          <6>1. i - 1 \in 1 .. w.len /\ ~(i - 1 < move.index) /\ i - 1 + 1 = i
            BY <2>1, <3>3, <3>4, <5>1, <5>3, <5>4, <5>7
          <6>2. w.cells[i - 1] = live.lists[j].cells[i]
            BY <5>4, <6>1
          <6> QED
            BY <5>5, <6>1, <6>2
        <5> QED
          BY <5>6, <5>7
      <4> QED
        BY <4>1, <4>2
    <3>6. e \in Entries(j, ListOf(live'.lists[j]))
      BY <2>1, <3>2, <3>3, <3>4, <3>5, EntryOfList
    <3> QED
      BY <2>1, <3>1, <3>3, <3>6, SavedEntries
  <2>5. CASE Restart
    <3>1. told' = told /\ file' = file
      BY <2>5 DEF Restart
    <3>2. /\ live' \in ServersOf(Used) /\ Within(live')
          /\ \A k \in Used :
               /\ live'.lists[k].len = Len(file.lists[k])
               /\ \A i \in 1 .. Len(file.lists[k]) :
                    live'.lists[k].cells[i] = applyDefaults(k, file.lists[k][i], file.local)
      BY <2>5, Restarted
    <3>3. j \in Used /\ e \in Entries(j, file.lists[j])
      BY <1>2, <2>1, <3>1
    <3>4. file.lists[j] \in Seq(Probes)
      BY <3>3 DEF TypeOK
    <3>5. PICK i \in 1 .. Len(file.lists[j]) : e = Entry(j, file.lists[j][i]) /\ file.lists[j][i] \in Probes
      BY <3>3, <3>4, LenProperties, ElementOfSeq DEF Entries
    <3>6. j \in Kinds /\ file.local \in BOOLEAN
      BY <3>3, UsedAreKinds DEF TypeOK
    <3> DEFINE q == applyDefaults(j, file.lists[j][i], file.local)
    <3>7. q.id = file.lists[j][i].id /\ q.by = file.lists[j][i].by
      BY <3>5, <3>6, DefaultsApplied
    <3> HIDE DEF q
    <3>8. i \in 1 .. live'.lists[j].len /\ live'.lists[j].cells[i] = q
      BY <3>2, <3>3, <3>5 DEF q
    <3>9. e = Entry(j, live'.lists[j].cells[i])
      BY <3>5, <3>7, <3>8 DEF Entry
    <3>10. live'.lists[j] \in Slices /\ live'.lists[j].len <= Len(live'.lists[j].cells)
      BY <1>1, <3>2, <3>3 DEF ServersOf, Within, Used
    <3> QED
      BY <3>1, <3>3, <3>8, <3>9, <3>10, EntryOfList
  <2>6. CASE UNCHANGED <<live, file, told>>
    BY <1>2, <2>1, <2>6 DEF Current
  <2> QED
    BY <2>2, <2>3, <2>4, <2>5, <2>6, StepCases, SameLists
<1> QED
  BY <1>1, <1>2 DEF ToldInv, Current

----------------------------------------------------------------------------
(* What the collection says. *)

\* What the collector does with one probe.
LEMMA Collecting ==
    ASSUME TypeOK, ListsInv, RowsInv, NEW k \in Used, cyc.step # "idle", collectServer(k)
    PROVE  \E p \in Found(k) :
             /\ cyc' = [cyc EXCEPT !.next = [cyc.next EXCEPT ![k] = cyc.next[k] + 1],
                                   !.reported = cyc'.reported, !.last = cyc'.last]
             /\ cyc'.step = cyc.step /\ cyc'.view = cyc.view /\ cyc'.due = cyc.due
             /\ cyc'.platform = cyc.platform /\ cyc'.quiet = cyc.quiet
             /\ cyc'.next = [cyc.next EXCEPT ![k] = cyc.next[k] + 1]
             /\ cyc'.reported = [cyc.reported EXCEPT
                                   ![k] = IF Runs(k, p) THEN Append(cyc.reported[k], p.id) ELSE cyc.reported[k]]
             /\ cyc'.last = IF Runs(k, p) THEN Wrong(k, p) ELSE {}
<1>1. cyc \in Rounds
  BY RoundType
<1>2. PICK p \in Found(k) :
       cyc' = [cyc EXCEPT
                 !.next[k] = @ + 1,
                 !.reported[k] = IF Runs(k, p) THEN Append(@, p.id) ELSE @,
                 !.last = IF Runs(k, p) THEN Wrong(k, p) ELSE {}]
  BY DEF collectServer
<1> DEFINE ids == IF Runs(k, p) THEN Append(cyc.reported[k], p.id) ELSE cyc.reported[k]
           last == IF Runs(k, p) THEN Wrong(k, p) ELSE {}
<1> HIDE DEF ids, last
<1>3. cyc' = [cyc EXCEPT !.next[k] = cyc.next[k] + 1, !.reported[k] = ids, !.last = last]
  BY <1>2 DEF ids, last
<1>4. cyc' = [cyc EXCEPT !.next = [cyc.next EXCEPT ![k] = cyc.next[k] + 1],
                         !.reported = [cyc.reported EXCEPT ![k] = ids], !.last = last]
  BY <1>1, <1>3 DEF Rounds
<1>5. /\ cyc'.step = cyc.step /\ cyc'.view = cyc.view /\ cyc'.due = cyc.due
      /\ cyc'.platform = cyc.platform /\ cyc'.quiet = cyc.quiet
      /\ cyc'.next = [cyc.next EXCEPT ![k] = cyc.next[k] + 1]
      /\ cyc'.reported = [cyc.reported EXCEPT ![k] = ids] /\ cyc'.last = last
  BY <1>1, <1>4 DEF Rounds
<1> QED
  BY <1>4, <1>5 DEF ids, last

\* The steps of a collection that look at no probe.
LEMMA Passing ==
    ASSUME TypeOK, Unavailable \/ Connected \/ Collected
    PROVE  /\ cyc.step # "idle" /\ cyc \in Rounds /\ PassEnds /\ cyc'.last = {}
           /\ cyc'.view = cyc.view /\ cyc'.due = cyc.due /\ cyc'.reported = cyc.reported
           /\ cyc'.quiet = cyc.quiet /\ cyc'.step # "idle"
           /\ Unavailable => cyc'.step = "failed"
           /\ Connected => /\ cyc.step = "monitor" /\ cyc'.step = "target" /\ cyc.platform \in {"unix", "windows"}
                           /\ cyc'.next = [k \in Used |-> 1] /\ cyc'.platform \in {"unix", "windows"}
           /\ Collected => /\ cyc.step = "target" /\ cyc'.step = "done" /\ cyc'.next = cyc.next
                           /\ cyc'.platform = cyc.platform
<1>1. cyc.step # "idle" /\ cyc \in Rounds /\ DOMAIN cyc.next = Used
  BY RoundType DEF Unavailable, Connected, Collected
<1>2. CASE Unavailable
  BY <1>1, <1>2 DEF Unavailable, Connected, Collected, Rounds
<1>3. CASE Connected
  BY <1>1, <1>3 DEF Unavailable, Connected, Collected, Rounds
<1>4. CASE Collected
  BY <1>1, <1>4 DEF Unavailable, Connected, Collected, Rounds
<1> QED
  BY <1>2, <1>3, <1>4

\* A removal that begins is noted in the collection.
LEMMA Disturbed ==
    ASSUME TypeOK, NEW t \in Tabs, StartRemoval(t)
    PROVE  /\ cyc'.step = cyc.step /\ cyc'.last = cyc.last
           /\ cyc'.quiet => cyc.step = "idle"
<1>1. cyc' = [cyc EXCEPT !.quiet = cyc.quiet /\ cyc.step = "idle"]
  BY DEF StartRemoval
<1>2. CASE cyc = NoCycle
  BY <1>1, <1>2 DEF NoCycle
<1>3. CASE cyc \in Rounds
  BY <1>1, <1>3 DEF Rounds
<1> QED
  BY <1>2, <1>3 DEF TypeOK

LEMMA VerdictsStep ==
    ASSUME TypeOK, ListsInv, RowsInv, TimesInv, VerdictsAreRight, [Next]_vars
    PROVE  VerdictsAreRight'
<1>1. cyc'.last = cyc.last => VerdictsAreRight'
  BY DEF VerdictsAreRight
<1>2. cyc'.last = {} => VerdictsAreRight'
  BY DEF VerdictsAreRight
<1>3. CASE handleAddProbe \/ handleImportProbes
  <2>1. PICK k \in Used, p \in Probes : Add(k, p)
    BY <1>3, AddingIsAdd
  <2>2. SameRound
    BY <2>1, KeptRound DEF Add
  <2> QED
    BY <1>1, <2>2 DEF SameRound
<1>4. CASE handleAddServer \/ handleRemoveProbe \/ UNCHANGED vars \/ \E t \in Tabs : probeRows(t) \/ NotFound(t)
  BY <1>1, <1>4 DEF handleAddServer, handleRemoveProbe, vars, probeRows, NotFound
<1>5. CASE \E t \in Tabs : StartRemoval(t)
  BY <1>1, <1>5, Disturbed
<1>6. CASE CycleStep
  <2>1. CASE BeginRound
    BY <1>2, <2>1 DEF BeginRound
  <2>2. CASE EndRound
    BY <1>2, <2>2 DEF EndRound, NoCycle
  <2>3. CASE Unavailable \/ Connected \/ Collected
    BY <1>2, <2>3, Passing
  <2>4. CASE \E k \in Used : cyc.step # "idle" /\ collectServer(k)
    <3>1. PICK k \in Used : cyc.step # "idle" /\ collectServer(k)
      BY <2>4
    <3>2. PICK p \in Found(k) : cyc'.last = IF Runs(k, p) THEN Wrong(k, p) ELSE {}
      BY <3>1, Collecting
    <3>3. cyc.next[k] <= cyc.view[k].len /\ k \in Kinds /\ live.local \in BOOLEAN
      BY <3>1, UsedAreKinds DEF collectServer, TypeOK
    <3>4. p \in Probes /\ OnTime(k, p)
      BY <3>1, <3>3, FoundType
    <3>5. ASSUME NEW r \in Wrong(k, p)
          PROVE  \/ Elsewhere(r.kind, r.probe, r.local)
                 \/ IF r.ok THEN SeesTooLittle(r) ELSE GivesUpEarly(r)
      <4>1. PICK w \in Worlds :
              /\ Verdict(k, p, w) # Met(k, p, w, live.local)
              /\ r = [kind |-> k, probe |-> p, local |-> live.local, world |-> w, ok |-> Verdict(k, p, w)]
        BY <3>5 DEF Wrong
      <4>2. r.kind = k /\ r.probe = p /\ r.local = live.local /\ r.ok = Verdict(k, p, w)
        BY <4>1
      <4>3. Verdict(k, p, w) \in BOOLEAN /\ Met(k, p, w, live.local) \in BOOLEAN
        <5>1. Verdict(k, p, w) \in BOOLEAN
          BY <3>3, VerdictType
        <5>2. CASE Elsewhere(k, p, live.local)
          <6>1. Met(k, p, w, live.local) = (w.thing \in {"good", "missed"})
            BY <5>2 DEF Met, So
          <6>2. (w.thing \in {"good", "missed"}) \in BOOLEAN
            OBVIOUS
          <6> QED
            BY <5>1, <6>1, <6>2
        <5>3. CASE ~Elsewhere(k, p, live.local)
          BY <5>1, <5>3, Zenon DEF Met
        <5> QED
          BY <5>2, <5>3
      <4>4. Excused(k, p, w, live.local)
        BY <3>3, <3>4, AnyVerdict
      <4> QED
        BY <4>1, <4>2, <4>3, <4>4 DEF Excused
    <3>6. ASSUME NEW r \in cyc'.last
          PROVE  \/ Elsewhere(r.kind, r.probe, r.local)
                 \/ IF r.ok THEN SeesTooLittle(r) ELSE GivesUpEarly(r)
      BY <3>2, <3>5, <3>6
    <3> QED
      BY <3>6 DEF VerdictsAreRight, Elsewhere, Given, ByName, SeesTooLittle, GivesUpEarly
  <2> QED
    BY <1>6, <2>1, <2>2, <2>3, <2>4 DEF CycleStep
<1>7. CASE Restart
  BY <1>2, <1>7 DEF Restart, NoCycle
<1> QED
  BY <1>3, <1>4, <1>5, <1>6, <1>7, StepCases

\* What a collection foresees of a list whose cells remain as they are.
LEMMA StillForeseen ==
    ASSUME TypeOK, ListsInv, NEW k \in Used, cyc.step # "idle", Foreseen(k), cyc'.due = cyc.due,
           \/ cyc'.view[k] = cyc.view[k]
           \/ /\ ~cyc.view[k].own
              /\ cyc'.view[k] = [own |-> TRUE, cells |-> live.lists[k].cells, len |-> cyc.view[k].len],
           ~cyc.view[k].own => /\ live.lists[k].len <= live'.lists[k].len /\ live'.lists[k].len \in Nat
                               /\ \A i \in 1 .. live.lists[k].len :
                                    live'.lists[k].cells[i] = live.lists[k].cells[i]
    PROVE  Foreseen(k)'
<1>1. cyc.view[k].len \in Nat /\ live.lists[k].len \in Nat
  BY RoundType, LiveType DEF Slices
<1>2. CASE cyc'.view[k] = cyc.view[k]
  <2>1. \A i \in 1 .. cyc.view[k].len : Cell(k, i)' = Cell(k, i)
    BY <1>1, <1>2 DEF Foreseen, Cell
  <2> QED
    BY <1>1, <1>2, <2>1 DEF Foreseen
<1>3. CASE /\ ~cyc.view[k].own
           /\ cyc'.view[k] = [own |-> TRUE, cells |-> live.lists[k].cells, len |-> cyc.view[k].len]
  <2>1. cyc'.view[k].own /\ cyc'.view[k].cells = live.lists[k].cells /\ cyc'.view[k].len = cyc.view[k].len
    BY <1>3
  <2>2. \A i \in 1 .. cyc.view[k].len : Cell(k, i)' = Cell(k, i)
    BY <1>3, <2>1 DEF Cell
  <2> QED
    BY <1>3, <2>1, <2>2 DEF Foreseen
<1> QED
  BY <1>2, <1>3

LEMMA QuietStep ==
    ASSUME TypeOK, ListsInv, RowsInv, QuietInv, [Next]_vars
    PROVE  QuietInv'
<1>1. Used' = Used
  BY StepCases, AddingIsAdd, AddedList, AddedServer, RemovedFromList, Restarted, SameLists
<1>2. SUFFICES ASSUME cyc'.quiet, cyc'.step # "idle"
               PROVE  move' = NoRow /\ \A k \in Used : Foreseen(k)'
  BY <1>1 DEF QuietInv, NoRow
<1>3. CASE handleAddProbe \/ handleImportProbes
  <2>1. PICK k \in Used, p \in Probes : Add(k, p)
    BY <1>3, AddingIsAdd
  <2>2. /\ SameRound
        /\ \A j \in DOMAIN cyc.view :
             \/ cyc'.view[j] = cyc.view[j]
             \/ /\ j = k /\ ~cyc.view[j].own /\ cyc.step # "idle"
                /\ cyc'.view[j] = [own |-> TRUE, cells |-> live.lists[j].cells, len |-> cyc.view[j].len]
    BY <2>1, KeptRound DEF Add
  <2>3. cyc.quiet /\ cyc.step # "idle" /\ cyc'.due = cyc.due /\ DOMAIN cyc.view = Used
    BY <1>2, <2>2, RoundType DEF SameRound
  <2>4. move = NoRow /\ move' = move /\ \A j \in Used : Foreseen(j)
    BY <2>1, <2>3 DEF QuietInv, Add
  <2>5. ASSUME NEW j \in Used, ~cyc.view[j].own
        PROVE  /\ live.lists[j].len <= live'.lists[j].len /\ live'.lists[j].len \in Nat
               /\ \A i \in 1 .. live.lists[j].len : live'.lists[j].cells[i] = live.lists[j].cells[i]
    <3>1. live.lists[j] \in Slices /\ live.lists[j].len <= Len(live.lists[j].cells) /\ live.lists[j].len \in Nat
      BY LiveType DEF Slices
    <3>2. CASE j # k
      <4>1. live'.lists[j] = live.lists[j]
        BY <2>1, <3>2, AddedList
      <4> QED
        BY <3>1, <4>1
    <3>3. CASE j = k
      <4>1. j # "ping"
        BY <2>3, <2>5 DEF ListsInv
      <4> DEFINE a == Appended(live.lists[j], p)
      <4>2. a.len = live.lists[j].len + 1 /\ \A i \in 1 .. live.lists[j].len : a.cells[i] = live.lists[j].cells[i]
        BY <3>1, AppendedSlice
      <4> HIDE DEF a
      <4>3. live'.lists[j] = a
        BY <2>1, <3>3, <4>1, AddedList DEF a
      <4> QED
        BY <3>1, <4>2, <4>3
    <3> QED
      BY <3>2, <3>3
  <2> QED
    BY <2>2, <2>3, <2>4, <2>5, StillForeseen
<1>4. CASE handleAddServer
  BY <1>2, <1>4 DEF handleAddServer, ListsInv
<1>5. CASE handleRemoveProbe
  BY <1>2, <1>5 DEF handleRemoveProbe, QuietInv
<1>6. CASE \E t \in Tabs : StartRemoval(t)
  BY <1>2, <1>6, Disturbed
<1>7. CASE UNCHANGED <<live, cyc, move>>
  <2>1. cyc.quiet /\ cyc.step # "idle"
    BY <1>2, <1>7
  <2>2. move = NoRow /\ \A k \in Used : Foreseen(k)
    BY <2>1 DEF QuietInv
  <2>3. \A k \in Used : live.lists[k].len \in Nat
    BY LiveType DEF Slices
  <2> QED
    BY <1>7, <2>1, <2>2, <2>3, StillForeseen
<1>8. CASE CycleStep
  <2>1. live' = live /\ move' = move
    BY <1>8, CycleLeaves DEF CycleKeeps
  <2>2. \A k \in Used : live.lists[k].len \in Nat
    BY LiveType DEF Slices
  <2>3. CASE BeginRound
    <3>1. /\ cyc'.view = [k \in Used |-> [own |-> k = "ping", cells |-> live.lists[k].cells, len |-> live.lists[k].len]]
          /\ cyc'.due = [k \in Used |-> Expect(k, Current(k))]
          /\ cyc'.quiet = (move = NoRow)
      BY <2>3 DEF BeginRound
    <3>2. ASSUME NEW k \in Used
          PROVE  Foreseen(k)'
      <4>1. cyc'.view[k].cells = live.lists[k].cells /\ cyc'.view[k].len = live.lists[k].len
        BY <3>1
      <4>2. cyc'.due[k] = Expect(k, Current(k))
        BY <3>1
      <4>3. /\ Len(cyc'.due[k]) = live.lists[k].len
            /\ \A i \in 1 .. live.lists[k].len :
                 /\ cyc'.due[k][i].id = live.lists[k].cells[i].id
                 /\ cyc'.due[k][i].dials <=> (k = "tcp" /\ live.lists[k].cells[i].extra)
        BY <4>2, ExpectType
      <4>4. \A i \in 1 .. live.lists[k].len : Cell(k, i)' = live.lists[k].cells[i]
        BY <2>1, <4>1 DEF Cell
      <4> QED
        BY <2>1, <2>2, <4>1, <4>3, <4>4 DEF Foreseen
    <3> QED
      BY <1>2, <2>1, <3>1, <3>2
  <2>4. CASE EndRound
    BY <1>2, <2>4 DEF EndRound, NoCycle
  <2>5. CASE (Unavailable \/ Connected \/ Collected) \/ \E k \in Used : cyc.step # "idle" /\ collectServer(k)
    <3>1. cyc.step # "idle" /\ cyc'.view = cyc.view /\ cyc'.due = cyc.due /\ cyc'.quiet = cyc.quiet
      BY <2>5, Passing, Collecting
    <3>2. move = NoRow /\ \A k \in Used : Foreseen(k)
      BY <1>2, <3>1 DEF QuietInv
    <3> QED
      BY <2>1, <2>2, <3>1, <3>2, StillForeseen
  <2> QED
    BY <1>8, <2>3, <2>4, <2>5 DEF CycleStep
<1>9. CASE Restart
  BY <1>2, <1>9 DEF Restart, NoCycle
<1> QED
  BY <1>3, <1>4, <1>5, <1>6, <1>7, <1>8, <1>9, StepCases DEF probeRows, NotFound, vars

\* A report that covers nothing, and one more result behind a report.
LEMMA EmptyReport ==
    ASSUME NEW due
    PROVE  ReportOf(<<>>, due, {})
<1>1. DOMAIN <<>> = {}
  OBVIOUS
<1>2. [n \in {} |-> n] \in [{} -> {}]
  OBVIOUS
<1> QED
  BY <1>1, <1>2 DEF ReportOf

LEMMA OneMoreResult ==
    ASSUME NEW r \in Seq(Nat), NEW due, NEW places, NEW i, i \notin places, due[i].id \in Nat,
           \A j \in places : Before(due, j, i), ReportOf(r, due, places)
    PROVE  ReportOf(Append(r, due[i].id), due, places \cup {i})
<1> DEFINE r2 == Append(r, due[i].id)
<1>1. /\ Len(r) \in Nat /\ DOMAIN r = 1 .. Len(r) /\ DOMAIN r2 = 1 .. Len(r) + 1
      /\ \A n \in 1 .. Len(r) : r2[n] = r[n]
      /\ r2[Len(r) + 1] = due[i].id
  BY AppendProperties, LenProperties
<1> HIDE DEF r2
<1>2. PICK at \in [DOMAIN r -> places] :
        /\ \A j \in places : \E n \in DOMAIN r : at[n] = j
        /\ \A m, n \in DOMAIN r : m < n => Before(due, at[m], at[n])
        /\ \A n \in DOMAIN r : r[n] = due[at[n]].id
  BY DEF ReportOf
<1> DEFINE at2 == [n \in DOMAIN r2 |-> IF n \in DOMAIN r THEN at[n] ELSE i]
<1>3. /\ at2 \in [DOMAIN r2 -> places \cup {i}]
      /\ \A n \in DOMAIN r : at2[n] = at[n] /\ at[n] \in places
      /\ at2[Len(r) + 1] = i /\ Len(r) + 1 \in DOMAIN r2
  BY <1>1
<1> HIDE DEF at2
<1>4. \A j \in places \cup {i} : \E n \in DOMAIN r2 : at2[n] = j
  <2>1. ASSUME NEW j \in places
        PROVE  \E n \in DOMAIN r2 : at2[n] = j
    <3>1. PICK n \in DOMAIN r : at[n] = j
      BY <1>2
    <3> QED
      BY <1>1, <1>3, <3>1
  <2> QED
    BY <1>3, <2>1
<1>5. ASSUME NEW m \in DOMAIN r2, NEW n \in DOMAIN r2, m < n
      PROVE  Before(due, at2[m], at2[n])
  <2>1. m \in DOMAIN r
    BY <1>1, <1>5
  <2>2. CASE n \in DOMAIN r
    BY <1>2, <1>3, <1>5, <2>1, <2>2
  <2>3. CASE n = Len(r) + 1
    BY <1>3, <2>1, <2>3
  <2> QED
    BY <1>1, <2>2, <2>3
<1>6. ASSUME NEW n \in DOMAIN r2
      PROVE  r2[n] = due[at2[n]].id
  <2>1. CASE n \in DOMAIN r
    BY <1>1, <1>2, <1>3, <2>1
  <2>2. CASE n = Len(r) + 1
    BY <1>1, <1>3, <2>2
  <2> QED
    BY <1>1, <2>1, <2>2
<1>7. ReportOf(r2, due, places \cup {i})
  BY <1>3, <1>4, <1>5, <1>6 DEF ReportOf
<1> QED
  BY <1>7 DEF r2

\* A pass runs a probe that is to be reported, and it is the pass for it.
LEMMA PassOfProbe ==
    ASSUME NEW k \in Kinds, cyc.step \in {"monitor", "target"}, NEW d, NEW p,
           d.dials <=> (k = "tcp" /\ p.extra)
    PROVE  Runs(k, p) <=> /\ Reportable(k, d)
                          /\ IF k \in NetworkKinds /\ ~d.dials THEN cyc.step = "monitor" ELSE cyc.step = "target"
<1>1. "tcp" \in NetworkKinds /\ "ping" \in NetworkKinds
  BY DEF NetworkKinds
<1>2. k \in NetworkKinds => k \notin ToolKinds /\ k # "custom"
  BY DEF NetworkKinds, ToolKinds, PathKinds
<1>3. k \in ToolKinds => k # "custom"
  BY DEF ToolKinds, PathKinds
<1>4. k \in NetworkKinds \/ k \in ToolKinds \/ k = "custom"
  BY DEF Kinds
<1>5. CASE cyc.step = "monitor"
  BY <1>1, <1>2, <1>5 DEF Runs, runLocalConnectivityChecks, runConnectivityChecks, Reportable
<1>6. CASE cyc.step = "target"
  BY <1>1, <1>2, <1>3, <1>4, <1>6 DEF Runs, gatherAll, runTargetPortChecks, Reportable
<1> QED
  BY <1>5, <1>6

\* A collection whose places and passes remain reports the same ones.
LEMMA SameCovered ==
    ASSUME NEW k, cyc'.due = cyc.due, cyc'.step = cyc.step, cyc'.platform = cyc.platform,
           live'.local = live.local, cyc'.next[k] = cyc.next[k]
    PROVE  Covered(k)' = Covered(k)
  BY DEF Covered, Reportable

\* A place more is covered when the pass runs the probe that is there.
LEMMA CoveredNext ==
    ASSUME TypeOK, NEW k \in Used, cyc.step \in {"monitor", "target"}, Foreseen(k), cyc.next[k] <= cyc.view[k].len,
           cyc'.due = cyc.due, cyc'.step = cyc.step, cyc'.platform = cyc.platform,
           live'.local = live.local, cyc'.next[k] = cyc.next[k] + 1
    PROVE  LET i == cyc.next[k]
               runs == Runs(k, Cell(k, i))
           IN /\ Covered(k)' = Covered(k) \cup (IF runs THEN {i} ELSE {})
              /\ cyc.due[k][i].id = Cell(k, i).id
              /\ runs => i \notin Covered(k) /\ \A j \in Covered(k) : Before(cyc.due[k], j, i)
<1> DEFINE i == cyc.next[k]
           p == Cell(k, i)
           Mine(j) == k \in NetworkKinds /\ ~cyc.due[k][j].dials
<1>1. /\ k \in Kinds /\ cyc.step # "idle" /\ cyc.view[k].len \in Nat /\ i \in 1 .. cyc.view[k].len
      /\ cyc.due \in [Used -> Seq([id : Nat, dials : BOOLEAN])]
  BY UsedAreKinds, RoundType DEF Rounds
<1>2. /\ DOMAIN cyc.due[k] = 1 .. cyc.view[k].len
      /\ \A j \in 1 .. cyc.view[k].len :
           cyc.due[k][j].dials \in BOOLEAN /\ (cyc.due[k][j].dials => k = "tcp")
  <2>1. cyc.due[k] \in Seq([id : Nat, dials : BOOLEAN])
    BY <1>1
  <2>2. DOMAIN cyc.due[k] = 1 .. cyc.view[k].len
    BY <2>1, LenProperties DEF Foreseen
  <2>3. \A j \in 1 .. cyc.view[k].len : cyc.due[k][j] \in [id : Nat, dials : BOOLEAN]
    BY <2>1, <2>2, LenProperties, ElementOfSeq
  <2> QED
    BY <2>2, <2>3 DEF Foreseen
<1>3. cyc.due[k][i].id = p.id /\ (cyc.due[k][i].dials <=> (k = "tcp" /\ p.extra))
  BY <1>1 DEF Foreseen
<1>4. Runs(k, p) <=> /\ Reportable(k, cyc.due[k][i])
                     /\ IF Mine(i) THEN cyc.step = "monitor" ELSE cyc.step = "target"
  BY <1>1, <1>3, PassOfProbe
<1>5. \A j : j \in Covered(k) <=>
        /\ j \in 1 .. cyc.view[k].len /\ Reportable(k, cyc.due[k][j])
        /\ IF Mine(j) THEN cyc.step = "monitor" => j < i ELSE cyc.step = "target" /\ j < i
  BY <1>1, <1>2 DEF Covered
<1>6. \A j : j \in Covered(k)' <=>
        /\ j \in 1 .. cyc.view[k].len /\ Reportable(k, cyc.due[k][j])
        /\ IF Mine(j) THEN cyc.step = "monitor" => j < i + 1 ELSE cyc.step = "target" /\ j < i + 1
  BY <1>1, <1>2 DEF Covered, Reportable
<1> HIDE DEF p
<1>7. ASSUME NEW j
      PROVE  j \in Covered(k)' <=> j \in Covered(k) \/ (Runs(k, p) /\ j = i)
  <2>1. CASE j \in 1 .. cyc.view[k].len
    <3>1. j < i + 1 <=> j < i \/ j = i
      BY <1>1, <2>1
    <3>2. ~(i < i)
      BY <1>1
    <3> QED
      BY <1>1, <1>4, <1>5, <1>6, <2>1, <3>1, <3>2
  <2>2. CASE j \notin 1 .. cyc.view[k].len
    BY <1>1, <1>5, <1>6, <2>2
  <2> QED
    BY <2>1, <2>2
<1>8. ASSUME Runs(k, p)
      PROVE  i \notin Covered(k) /\ \A j \in Covered(k) : Before(cyc.due[k], j, i)
  <2>1. ~(i < i)
    BY <1>1
  <2>2. i \notin Covered(k)
    BY <1>4, <1>5, <1>8, <2>1
  <2>3. ASSUME NEW j \in Covered(k)
        PROVE  Before(cyc.due[k], j, i)
    <3>1. j \in 1 .. cyc.view[k].len /\ (Mine(j) \/ (cyc.step = "target" /\ j < i))
      BY <1>5
    <3>2. CASE cyc.step = "monitor"
      <4>1. Mine(i) /\ Mine(j) /\ j < i
        BY <1>4, <1>5, <1>8, <3>1, <3>2
      <4> QED
        BY <1>1, <1>2, <3>1, <4>1 DEF Before
    <3>3. CASE cyc.step = "target"
      <4>1. ~Mine(i)
        BY <1>4, <1>8, <3>3
      <4>2. "tcp" \in NetworkKinds
        BY DEF NetworkKinds
      <4> QED
        BY <1>1, <1>2, <3>1, <4>1, <4>2 DEF Before
    <3> QED
      BY <3>2, <3>3
  <2> QED
    BY <2>2, <2>3
<1>9. Covered(k)' = Covered(k) \cup (IF Runs(k, p) THEN {i} ELSE {})
  BY <1>7
<1> QED
  BY <1>3, <1>8, <1>9 DEF p

\* Between the passes nothing is covered and nothing left out.
LEMMA CoveredThen ==
    ASSUME TypeOK, NEW k \in Used, Foreseen(k), Connected \/ Collected, live'.local = live.local
    PROVE  Covered(k)' = Covered(k)
<1>1. /\ cyc.step # "idle" /\ PassEnds /\ cyc'.due = cyc.due /\ k \in Kinds
      /\ Connected => cyc.step = "monitor" /\ cyc'.step = "target" /\ cyc'.next[k] = 1
      /\ Collected => /\ cyc.step = "target" /\ cyc'.step = "done" /\ cyc'.platform = cyc.platform
  BY Passing, UsedAreKinds
<1>2. cyc.view[k].len \in Nat /\ cyc.next[k] \in Nat /\ cyc.next[k] > cyc.view[k].len
  BY <1>1, RoundType DEF PassEnds
<1>3. DOMAIN cyc.due[k] = 1 .. cyc.view[k].len
  <2>1. cyc.due[k] \in Seq([id : Nat, dials : BOOLEAN])
    BY <1>1, RoundType DEF Rounds
  <2> QED
    BY <2>1, LenProperties DEF Foreseen
<1>4. \A j \in DOMAIN cyc.due[k] : j \in Nat /\ j < cyc.next[k] /\ ~(j < 1)
  BY <1>2, <1>3
<1>5. k \in NetworkKinds => k \notin ToolKinds
  BY DEF NetworkKinds, ToolKinds, PathKinds
<1>6. CASE Connected
  BY <1>1, <1>4, <1>5, <1>6 DEF Covered, Reportable
<1>7. CASE Collected
  BY <1>1, <1>4, <1>7 DEF Covered, Reportable
<1> QED
  BY <1>6, <1>7

LEMMA ReportsStep ==
    ASSUME TypeOK, ListsInv, RowsInv, QuietInv, ReportsInv, [Next]_vars
    PROVE  ReportsInv'
<1>1. Used' = Used
  BY StepCases, AddingIsAdd, AddedList, AddedServer, RemovedFromList, Restarted, SameLists
<1>2. SUFFICES ASSUME cyc'.quiet, cyc'.step \in {"monitor", "target", "done"}
               PROVE  \A k \in Used : ReportOf(cyc'.reported[k], cyc'.due[k], Covered(k)')
  BY <1>1 DEF ReportsInv
<1>3. CASE handleAddProbe \/ handleImportProbes
  <2>1. PICK k \in Used, p \in Probes : Add(k, p)
    BY <1>3, AddingIsAdd
  <2>2. SameRound /\ live'.local = live.local
    BY <2>1, KeptRound, AddedList DEF Add
  <2>3. \A j \in Used : Covered(j)' = Covered(j)
    BY <2>2, SameCovered DEF SameRound
  <2> QED
    BY <1>2, <2>2, <2>3 DEF ReportsInv, SameRound
<1>4. CASE handleAddServer
  BY <1>2, <1>4 DEF handleAddServer, ListsInv
<1>5. CASE handleRemoveProbe
  BY <1>2, <1>5 DEF handleRemoveProbe, QuietInv
<1>6. CASE \E t \in Tabs : StartRemoval(t)
  BY <1>2, <1>6, Disturbed
<1>7. CASE UNCHANGED <<live, cyc>>
  <2>1. \A j \in Used : Covered(j)' = Covered(j)
    BY <1>7, SameCovered
  <2> QED
    BY <1>2, <1>7, <2>1 DEF ReportsInv
<1>8. CASE CycleStep
  <2>1. live' = live
    BY <1>8, CycleLeaves DEF CycleKeeps
  <2>2. CASE BeginRound
    <3>1. /\ cyc'.step = "monitor" /\ cyc'.due = [k \in Used |-> Expect(k, Current(k))]
          /\ cyc'.next = [k \in Used |-> 1] /\ cyc'.reported = [k \in Used |-> <<>>]
      BY <2>2 DEF BeginRound
    <3>2. ASSUME NEW k \in Used
          PROVE  Covered(k)' = {}
      <4>1. cyc'.next[k] = 1
        BY <3>1
      <4>2. cyc'.due[k] \in Seq([id : Nat, dials : BOOLEAN])
        BY <3>1, ExpectType
      <4>3. \A j \in DOMAIN cyc'.due[k] : ~(j < cyc'.next[k])
        BY <4>1, <4>2, LenProperties
      <4> QED
        BY <3>1, <4>3 DEF Covered
    <3> QED
      BY <3>1, <3>2, EmptyReport
  <2>3. CASE EndRound
    BY <1>2, <2>3 DEF EndRound, NoCycle
  <2>4. CASE Unavailable
    BY <1>2, <2>4, Passing
  <2>5. CASE Connected \/ Collected
    <3>1. /\ cyc.step \in {"monitor", "target"} /\ cyc.quiet /\ cyc'.due = cyc.due /\ cyc'.reported = cyc.reported
      BY <1>2, <2>5, Passing
    <3>2. \A k \in Used : Foreseen(k)
      BY <3>1 DEF QuietInv
    <3>3. \A k \in Used : Covered(k)' = Covered(k)
      BY <2>1, <2>5, <3>2, CoveredThen
    <3> QED
      BY <3>1, <3>3 DEF ReportsInv
  <2>6. CASE \E k \in Used : cyc.step # "idle" /\ collectServer(k)
    <3>1. PICK k \in Used : cyc.step # "idle" /\ collectServer(k)
      BY <2>6
    <3>2. PICK p \in Found(k) :
            /\ cyc'.step = cyc.step /\ cyc'.view = cyc.view /\ cyc'.due = cyc.due
            /\ cyc'.platform = cyc.platform /\ cyc'.quiet = cyc.quiet
            /\ cyc'.next = [cyc.next EXCEPT ![k] = cyc.next[k] + 1]
            /\ cyc'.reported = [cyc.reported EXCEPT
                                  ![k] = IF Runs(k, p) THEN Append(cyc.reported[k], p.id) ELSE cyc.reported[k]]
      BY <3>1, Collecting
    <3>3. /\ cyc.step \in {"monitor", "target"} /\ cyc.next[k] <= cyc.view[k].len
          /\ cyc.next \in [Used -> Nat] /\ cyc.reported \in [Used -> Seq(Nat)]
      BY <3>1, RoundType DEF collectServer, Rounds
    <3>4. move = NoRow /\ \A j \in Used : Foreseen(j)
      BY <1>2, <3>1, <3>2 DEF QuietInv
    <3>5. p = Cell(k, cyc.next[k]) /\ p.id \in Nat
      BY <3>1, <3>3, <3>4, FoundType DEF Probes
    <3>6. \A j \in Used : ReportOf(cyc.reported[j], cyc.due[j], Covered(j))
      BY <1>2, <3>2, <3>3 DEF ReportsInv
    <3>7. ASSUME NEW j \in Used \ {k}
          PROVE  ReportOf(cyc'.reported[j], cyc'.due[j], Covered(j)')
      <4>1. cyc'.next[j] = cyc.next[j] /\ cyc'.reported[j] = cyc.reported[j]
        BY <3>2, <3>3
      <4>2. Covered(j)' = Covered(j)
        BY <2>1, <3>2, <4>1, SameCovered
      <4> QED
        BY <3>2, <3>6, <4>1, <4>2
    <3>8. ReportOf(cyc'.reported[k], cyc'.due[k], Covered(k)')
      <4> DEFINE i == cyc.next[k]
      <4>1. cyc'.next[k] = cyc.next[k] + 1
        BY <3>2, <3>3
      <4>2. /\ Covered(k)' = Covered(k) \cup (IF Runs(k, p) THEN {i} ELSE {})
            /\ cyc.due[k][i].id = p.id
            /\ Runs(k, p) => i \notin Covered(k) /\ \A j \in Covered(k) : Before(cyc.due[k], j, i)
        BY <2>1, <3>2, <3>3, <3>4, <3>5, <4>1, CoveredNext
      <4>3. CASE Runs(k, p)
        <5>1. Covered(k)' = Covered(k) \cup {i} /\ cyc'.reported[k] = Append(cyc.reported[k], cyc.due[k][i].id)
          BY <3>2, <3>3, <4>2, <4>3
        <5>2. /\ cyc.reported[k] \in Seq(Nat) /\ cyc.due[k][i].id \in Nat
              /\ i \notin Covered(k) /\ \A j \in Covered(k) : Before(cyc.due[k], j, i)
          BY <3>3, <3>5, <4>2, <4>3
        <5>3. ReportOf(Append(cyc.reported[k], cyc.due[k][i].id), cyc.due[k], Covered(k) \cup {i})
          BY <3>6, <5>2, OneMoreResult
        <5> QED
          BY <3>2, <5>1, <5>3
      <4>4. CASE ~Runs(k, p)
        <5>1. Covered(k)' = Covered(k) /\ cyc'.reported[k] = cyc.reported[k]
          BY <3>2, <3>3, <4>2, <4>4
        <5> QED
          BY <3>2, <3>6, <5>1
      <4> QED
        BY <4>3, <4>4
    <3> QED
      BY <3>7, <3>8
  <2> QED
    BY <1>8, <2>2, <2>3, <2>4, <2>5, <2>6 DEF CycleStep
<1>9. CASE Restart
  BY <1>2, <1>9 DEF Restart, NoCycle
<1> QED
  BY <1>3, <1>4, <1>5, <1>6, <1>7, <1>8, <1>9, StepCases DEF probeRows, NotFound, vars

----------------------------------------------------------------------------
(* The invariant. *)

\* The server there is at the start, and what has been made of its file.
LEMMA InitServer ==
    ASSUME Init
    PROVE  /\ Used \in Uses /\ Used \subseteq Kinds
           /\ file \in FilesOf(Used) /\ live = AsLive(file)
           /\ \A k \in Used : /\ Len(file.lists[k]) <= 1
                               /\ \A i \in 1 .. Len(file.lists[k]) : file.lists[k][i] = FirstProbe(k)
           /\ ~file.known => \A k \in Used : file.lists[k] = <<>>
<1>0. PICK used \in Uses, known \in BOOLEAN, local \in BOOLEAN :
        \E lists \in [used -> {0, 1}] :
          /\ known \/ (~local /\ \A k \in used : lists[k] = 0)
          /\ file = [known |-> known, local |-> local,
                     lists |-> [k \in used |-> [i \in 1 .. lists[k] |-> FirstProbe(k)]]]
  BY DEF Init
<1>1. PICK lists \in [used -> {0, 1}] :
        /\ known \/ (~local /\ \A k \in used : lists[k] = 0)
        /\ file = [known |-> known, local |-> local,
                   lists |-> [k \in used |-> [i \in 1 .. lists[k] |-> FirstProbe(k)]]]
  BY <1>0
<1>2. used \in SUBSET Kinds
  BY UsesAssumption
<1> DEFINE list(k) == [i \in 1 .. lists[k] |-> FirstProbe(k)]
<1>3. ASSUME NEW k \in used
      PROVE  /\ list(k) \in Seq(Probes) /\ Len(list(k)) = lists[k] /\ lists[k] \in 0 .. 1
             /\ \A i \in 1 .. lists[k] : list(k)[i] = FirstProbe(k)
  <2>1. FirstProbe(k) \in Probes
    BY <1>2, DefaultsType DEF FirstProbe, Probes, Origins
  <2>2. lists[k] \in 0 .. 1
    OBVIOUS
  <2> HIDE DEF FirstProbe
  <2>3. list(k) \in Seq(Probes) /\ Len(list(k)) = lists[k]
    BY <2>1, <2>2
  <2> QED
    BY <2>2, <2>3
<1>4. /\ file.known = known /\ file.local = local /\ file.lists \in [used -> Seq(Probes)]
      /\ \A k \in used : file.lists[k] = list(k)
  <2>1. file = [known |-> known, local |-> local, lists |-> [k \in used |-> list(k)]]
    BY <1>1
  <2> HIDE DEF list
  <2> QED
    BY <1>3, <2>1
<1> HIDE DEF list
<1>5. file \in FilesOf(used)
  <2>1. file = [known |-> known, local |-> local, lists |-> file.lists]
    BY <1>1
  <2> QED
    BY <1>4, <2>1 DEF FilesOf
<1>6. live = AsLive(file)
  BY DEF Init
<1>7. Used = used
  BY <1>2, <1>5, <1>6, ServerOfFile DEF ServersOf, Used
<1>8. ASSUME ~known, NEW k \in used
      PROVE  file.lists[k] = <<>>
  <2>1. lists[k] = 0
    BY <1>1, <1>8
  <2> QED
    BY <1>3, <1>4, <2>1, EmptySeq
<1> QED
  BY <1>2, <1>3, <1>4, <1>5, <1>6, <1>7, <1>8

LEMMA InitInv ==
    ASSUME Init
    PROVE  IInv
<1>1. /\ Used \in Uses /\ Used \in SUBSET Kinds /\ file \in FilesOf(Used) /\ live = AsLive(file)
      /\ file.known \in BOOLEAN /\ file.local \in BOOLEAN /\ file.lists \in [Used -> Seq(Probes)]
  BY InitServer DEF FilesOf
<1>2. /\ live \in ServersOf(Used) /\ Within(live) /\ live.known = file.known
      /\ \A k \in Used :
           /\ live.lists[k].len = Len(file.lists[k]) /\ Len(live.lists[k].cells) = Len(file.lists[k])
           /\ \A i \in 1 .. Len(file.lists[k]) :
                live.lists[k].cells[i] = applyDefaults(k, file.lists[k][i], file.local)
  BY <1>1, ServerOfFile
<1>3. pages = [t \in Tabs |-> NoRow] /\ move = NoRow /\ cyc = NoCycle /\ born = 1 /\ told = {}
  BY DEF Init
<1>4. cyc.step = "idle" /\ cyc.view = <<>> /\ cyc.last = {} /\ DOMAIN cyc.view = {}
  BY <1>3 DEF NoCycle
<1>5. TypeOK
  <2>1. NoRow \in Rows
    BY DEF NoRow, Rows, Kinds, NetworkKinds
  <2>2. pages \in [Tabs -> Rows]
    BY <1>3, <2>1
  <2>3. born \in 1 .. MaxBorn[Used] + 1
    BY <1>1, <1>3, UsesAssumption
  <2>4. live \in [known : BOOLEAN, local : BOOLEAN, lists : [Used -> Slices]]
    BY <1>2 DEF ServersOf
  <2>5. file \in [known : BOOLEAN, local : BOOLEAN, lists : [Used -> Seq(Probes)]]
    BY <1>1 DEF FilesOf
  <2> QED
    BY <1>1, <1>3, <1>4, <2>1, <2>2, <2>3, <2>4, <2>5 DEF TypeOK
<1>6. ListsInv
  <2>1. \A k \in Used : live.lists[k].len <= Len(live.lists[k].cells)
    BY <1>2 DEF Within, ServersOf
  <2>2. \A k \in Used : live.lists[k].len <= 1 /\ Len(file.lists[k]) <= 1
    BY <1>2, InitServer
  <2>3. ~file.known => \A k \in Used : file.lists[k] = <<>> /\ live.lists[k].len = 0
    <3>1. Len(<<>>) = 0
      OBVIOUS
    <3> QED
      BY <1>2, <3>1, InitServer
  <2> QED
    BY <1>2, <1>4, <2>1, <2>2, <2>3 DEF ListsInv
<1>7. RowsInv
  <2>1. \A t \in Tabs : pages[t] = NoRow
    BY <1>3
  <2> QED
    BY <1>3, <2>1, NoRowPlaced DEF RowsInv
<1>8. ASSUME NEW k \in Used
      PROVE  /\ k \in Kinds /\ FirstProbe(k).id = 1 /\ \A p \in Lines(k) : p = FirstProbe(k)
             /\ \A q \in Cells(k) : q.id = 1 /\ OnTime(k, q) /\ Alike(k, q, FirstProbe(k))
  <2>1. file.lists[k] \in Seq(Probes) /\ \A i \in 1 .. Len(file.lists[k]) : file.lists[k][i] = FirstProbe(k)
    BY <1>1, InitServer
  <2>2. \A p \in Lines(k) : p = FirstProbe(k)
    BY <2>1, LenProperties DEF Lines
  <2>3. k \in Kinds /\ FirstProbe(k).id = 1
    BY <1>1 DEF FirstProbe
  <2>4. ASSUME NEW q \in Cells(k)
        PROVE  q.id = 1 /\ OnTime(k, q) /\ Alike(k, q, FirstProbe(k))
    <3>1. live.lists[k].cells \in Seq(Probes)
      BY <1>2 DEF ServersOf, Slices
    <3>2. PICK i \in 1 .. Len(file.lists[k]) : q = live.lists[k].cells[i]
      BY <1>2, <3>1, LenProperties DEF Cells
    <3>3. q = applyDefaults(k, file.lists[k][i], file.local) /\ file.lists[k][i] \in Probes
          /\ file.lists[k][i] = FirstProbe(k)
      BY <1>2, <2>1, <3>2, ElementOfSeq
    <3>4. FirstProbe(k) \in Probes /\ q = applyDefaults(k, FirstProbe(k), file.local)
      BY <3>3
    <3> HIDE DEF FirstProbe
    <3> QED
      BY <1>1, <2>3, <3>4, DefaultsApplied
  <2> QED
    BY <2>2, <2>3, <2>4
<1>9. TimesInv
  BY <1>4, <1>8 DEF TimesInv
<1>10. NumbersInv
  <2>1. SUFFICES ASSUME NEW k \in Used, NEW p \in Cells(k) \cup Lines(k), NEW q \in Cells(k) \cup Lines(k)
                 PROVE  p.id <= born /\ Alike(k, p, q)
    BY DEF NumbersInv
  <2>2. /\ p = FirstProbe(k) \/ Alike(k, p, FirstProbe(k))
        /\ q = FirstProbe(k) \/ Alike(k, q, FirstProbe(k))
        /\ p.id = 1
    BY <1>8
  <2>3. Alike(k, p, FirstProbe(k)) /\ Alike(k, q, FirstProbe(k))
    BY <2>2 DEF Alike
  <2> QED
    BY <1>3, <2>2, <2>3 DEF Alike
<1>11. ToldInv
  BY <1>3 DEF ToldInv
<1>12. QuietInv /\ ReportsInv /\ VerdictsAreRight
  BY <1>4 DEF QuietInv, ReportsInv, VerdictsAreRight
<1> QED
  BY <1>5, <1>6, <1>7, <1>9, <1>10, <1>11, <1>12 DEF IInv

LEMMA NextInv ==
    ASSUME IInv, [Next]_vars
    PROVE  IInv'
  BY TypeStep, ListsStep, RowsStep, TimesStep, NumbersStep, ToldStep, QuietStep, ReportsStep, VerdictsStep DEF IInv

\* The inductive invariant.
THEOREM Invariance == Spec => []IInv
<1>1. Init => IInv
  BY InitInv
<1>2. IInv /\ [Next]_vars => IInv'
  BY NextInv
<1> QED
  BY <1>1, <1>2, PTL DEF Spec

\* collectServer never reads beyond the array of a list, whatever the handlers
\* do to it meanwhile, and no list gets shorter than empty.
THEOREM TypeCorrect == Spec => []TypeOK
<1>1. IInv => TypeOK
  BY DEF IInv
<1> QED
  BY <1>1, Invariance, PTL

\* handleRemoveProbe: the row that goes is the one the operator saw, unless one
\* of its kind has gone since, or a restart has brought back an older file.
THEOREM RemovesTheShown == Spec => []RemovesWhatWasShown
<1>1. ASSUME IInv
      PROVE  RemovesWhatWasShown
  <2>1. SUFFICES ASSUME move # NoRow, move.fresh
                 PROVE  Removed.id = move.id
    BY DEF RemovesWhatWasShown
  <2>2. TypeOK /\ ListsInv /\ Picked(move) /\ InPlace(move) /\ move \in Rows
    BY <1>1 DEF IInv, RowsInv, TypeOK
  <2>3. /\ move.kind \in Used /\ move.index \in 1 .. live.lists[move.kind].len
        /\ live.lists[move.kind].cells[move.index].id = move.id
    BY <2>1, <2>2, RowPlace
  <2>4. Removed = live.lists[move.kind].cells[move.index]
    BY <2>2, <2>3, LiveType DEF Removed
  <2> QED
    BY <2>3, <2>4
<1> QED
  BY <1>1, Invariance, PTL

\* handleAddProbe, handleImportProbes: what was answered "added" or "imported"
\* stays in the file until somebody removes it.
THEOREM ToldStays == Spec => []ToldIsKept
<1>1. IInv => ToldIsKept
  BY DEF IInv, ToldInv, ToldIsKept, Kept
<1> QED
  BY <1>1, Invariance, PTL

\* config.go: with the named exceptions, every kind of probe is OK exactly when
\* what it asks for is so, whether a form, an import or the file has made it.
THEOREM RightVerdicts == Spec => []VerdictsAreRight
<1>1. IInv => VerdictsAreRight
  BY DEF IInv
<1> QED
  BY <1>1, Invariance, PTL

\* collectServer: a collection that succeeds, with nothing removed meanwhile,
\* reports every probe the server had when it began, once and in its place.
THEOREM AllReported == Spec => []EveryProbeReported
<1>1. ASSUME IInv
      PROVE  EveryProbeReported
  <2>1. SUFFICES ASSUME cyc.step = "done", cyc.quiet, NEW k \in DOMAIN cyc.due
                 PROVE  ReportOf(cyc.reported[k], cyc.due[k],
                                 {i \in DOMAIN cyc.due[k] : Reportable(k, cyc.due[k][i])})
    BY DEF EveryProbeReported
  <2>2. k \in Used
    BY <1>1, <2>1, RoundType DEF IInv
  <2>3. ReportOf(cyc.reported[k], cyc.due[k], Covered(k))
    BY <1>1, <2>1, <2>2 DEF IInv, ReportsInv
  <2>4. Covered(k) = {i \in DOMAIN cyc.due[k] : Reportable(k, cyc.due[k][i])}
    BY <2>1 DEF Covered
  <2> QED
    BY <2>3, <2>4
<1> QED
  BY <1>1, Invariance, PTL

\* applyDefaults: a start that reads the file again changes no verdict of a
\* probe that is still there, except of an imported lookup or certificate.
THEOREM RestartsKeepVerdicts == Spec => RestartKeepsVerdicts
<1> DEFINE A == Restart => \A k \in Used : \A i \in DOMAIN Current(k), j \in DOMAIN Current(k)' :
                  LET p == Current(k)[i]
                      q == Current(k)'[j]
                  IN p.id = q.id /\ ~(k \in {"dns", "tls"} /\ p.by = "bundle")
                       => \A w \in Worlds : Verdict(k, p, w) = Verdict(k, q, w)
<1>1. ASSUME IInv, Restart
      PROVE  A
  <2>1. SUFFICES ASSUME NEW k \in Used, NEW i \in DOMAIN Current(k), NEW j \in DOMAIN Current(k)',
                        Current(k)[i].id = Current(k)'[j].id,
                        ~(k \in {"dns", "tls"} /\ Current(k)[i].by = "bundle"), NEW w \in Worlds
                 PROVE  Verdict(k, Current(k)[i], w) = Verdict(k, Current(k)'[j], w)
    BY Zenon
  <2>2. TypeOK /\ ListsInv /\ TimesInv /\ NumbersInv /\ k \in Kinds /\ file.local \in BOOLEAN
    BY <1>1, UsedAreKinds DEF IInv, TypeOK
  <2> DEFINE p == Current(k)[i]
             q == Current(k)'[j]
  <2>3. /\ live.lists[k] \in Slices /\ live.lists[k].len <= Len(live.lists[k].cells) /\ live.lists[k].len \in Nat
        /\ i \in 1 .. live.lists[k].len /\ p = live.lists[k].cells[i] /\ p \in Probes
    BY <2>2, LiveType DEF Slices
  <2>4. p \in Cells(k)
    BY <2>3, LenProperties DEF Cells, Slices
  <2>5. q \in Cells(k)'
    <3>1. live'.lists[k] \in Slices /\ live'.lists[k].len <= Len(live'.lists[k].cells) /\ live'.lists[k].len \in Nat
      BY <1>1, <2>2, Restarted DEF ServersOf, Within, Slices
    <3>2. ListOf(live'.lists[k]) = Current(k)'
      BY DEF Current
    <3>3. j \in 1 .. live'.lists[k].len /\ q = live'.lists[k].cells[j]
      BY <3>1, <3>2, ListOfSlice
    <3>4. j \in DOMAIN live'.lists[k].cells
      BY <3>1, <3>3, LenProperties DEF Slices
    <3> QED
      BY <3>3, <3>4 DEF Cells
  <2>6. PICK line \in Lines(k) : line \in Probes /\ q = applyDefaults(k, line, file.local)
    BY <1>1, <2>2, <2>5, RestartedCells
  <2>7. /\ q \in Probes /\ q.id = line.id /\ Alike(k, q, line)
        /\ k \in {"tcp", "http", "dns", "tls"} => Timed(q)
    BY <2>2, <2>6, DefaultsApplied
  <2>8. Alike(k, p, line)
    BY <2>1, <2>2, <2>4, <2>6, <2>7 DEF NumbersInv
  <2>9. Alike(k, p, q)
    BY <2>7, <2>8 DEF Alike
  <2>10. k \in {"tcp", "http", "dns", "tls"} => Timed(p)
    BY <2>1, <2>2, <2>4 DEF TimesInv, OnTime
  <2> HIDE DEF p, q
  <2>11. Verdict(k, p, w) = Verdict(k, q, w)
    BY <2>2, <2>3, <2>7, <2>9, <2>10, SameVerdict
  <2> QED
    BY <2>11 DEF p, q
<1>2. IInv /\ [Next]_vars => [A]_vars
  BY <1>1
<1> QED
  BY <1>2, Invariance, PTL DEF Spec, RestartKeepsVerdicts

=============================================================================
