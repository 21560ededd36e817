--------------------------- MODULE LiveConfigProofs ---------------------------
(***************************************************************************)
(* Proofs about LiveConfig: its types (TInv), the round of the collector   *)
(* (Watching), operators who take turns (InTurn), and the refinement of    *)
(* ConfigStore, for which a request that is alone must be known to stay    *)
(* alone and to save what is in effect (Exclusive).                        *)
(***************************************************************************)
EXTENDS LiveConfig, TLAPS, SequenceTheorems

(* Sequences. *)

\* A function on 1 .. n is a sequence of length n.
LEMMA FunSeq ==
  ASSUME NEW S, NEW n \in Nat, NEW f \in [1 .. n -> S]
  PROVE  f \in Seq(S) /\ Len(f) = n
<1>1. f \in Seq(S)
  BY SeqDef
<1>2. Len(f) \in Nat /\ DOMAIN f = 1 .. Len(f)
  BY <1>1, LenProperties
<1>3. 1 .. Len(f) = 1 .. n
  BY <1>2
<1> QED
  BY <1>1, <1>2, <1>3

\* What a sequence is.
LEMMA Indices ==
  ASSUME NEW S, NEW s \in Seq(S)
  PROVE  /\ Len(s) \in Nat /\ DOMAIN s = 1 .. Len(s)
         /\ \A i \in 1 .. Len(s) : s[i] \in S
  BY LenProperties, ElementOfSeq

\* A list that is kept in part is not longer.
LEMMA KeptType ==
  ASSUME NEW list \in Seq(Entries), NEW S, NEW k \in Kept(list, S)
  PROVE  k \in Seq(Entries) /\ Len(k) <= Len(list)
<1> DEFINE positions == {i \in DOMAIN list : list[i].name \in S}
<1>0. PICK m \in 0 .. Len(list) :
        \E f \in [1 .. m -> positions] : k = [i \in DOMAIN f |-> list[f[i]]]
  BY DEF Kept
<1>1. PICK f \in [1 .. m -> positions] : k = [i \in DOMAIN f |-> list[f[i]]]
  BY <1>0
<1>2. Len(list) \in Nat /\ DOMAIN list = 1 .. Len(list)
      /\ \A i \in 1 .. Len(list) : list[i] \in Entries
  BY Indices
<1>3. DOMAIN f = 1 .. m /\ \A i \in 1 .. m : f[i] \in 1 .. Len(list)
  BY <1>2
<1>4. k \in [1 .. m -> Entries]
  BY <1>1, <1>2, <1>3
<1>5. m \in Nat /\ m <= Len(list)
  BY <1>2
<1> QED
  BY <1>4, <1>5, FunSeq

LEMMA StartedType ==
  ASSUME NEW list \in Seq(Entries), NEW k \in Started(list)
  PROVE  k \in Seq(Entries)
<1>1. Diagnostic \in Entries
  BY NameAssumption, EditAssumption DEF Diagnostic, Entries, Versions
<1>2. <<Diagnostic>> \in Seq(Entries)
  BY <1>1
<1> QED
  BY <1>2, KeptType DEF Started

LEMMA PaddedType ==
  ASSUME NEW list \in Seq(Entries), NEW n \in Nat
  PROVE  /\ Padded(list, n) \in Seq(Entries)
         /\ Len(Padded(list, n)) = Len(list) + n
         /\ \A i \in 1 .. Len(list) : Padded(list, n)[i] = list[i]
<1>1. Unset \in Entries
  BY NameAssumption, EditAssumption DEF Unset, Entries, Versions
<1>2. Len(list) \in Nat /\ \A i \in 1 .. Len(list) : list[i] \in Entries
  BY Indices
<1>3. Padded(list, n) \in [1 .. Len(list) + n -> Entries]
  BY <1>1, <1>2 DEF Padded
<1>4. \A i \in 1 .. Len(list) : Padded(list, n)[i] = list[i]
  BY <1>2 DEF Padded
<1>5. Len(list) + n \in Nat
  BY <1>2
<1> QED
  BY <1>3, <1>4, <1>5, FunSeq

----------------------------------------------------------------------------
(* Types. *)

\* Every slice lies in its array, and nothing reads past the end of a copy.
Bounded ==
    /\ live.arr \in 1 .. Len(heap) /\ live.len <= Len(heap[live.arr])
    /\ \A r \in Requests :
         /\ req[r].copy.arr \in 1 .. Len(heap)
         /\ req[r].copy.len <= Len(heap[req[r].copy.arr])
         /\ Len(req[r].read) <= req[r].copy.len
    /\ /\ cyc.arr \in 1 .. Len(heap) /\ cyc.len <= Len(heap[cyc.arr])
       /\ Len(cyc.polled) <= cyc.len /\ Len(cyc.due) = cyc.len

Base == TypeOK /\ Bounded

\* The arrays that are there keep their lengths.
Grown ==
    /\ heap' \in Seq(Seq(Entries)) /\ Len(heap) <= Len(heap')
    /\ \A a \in 1 .. Len(heap) : Len(heap'[a]) = Len(heap[a])

LEMMA HeapType ==
  ASSUME Base
  PROVE  /\ heap \in Seq(Seq(Entries)) /\ Len(heap) \in Nat
         /\ \A a \in 1 .. Len(heap) : heap[a] \in Seq(Entries) /\ Len(heap[a]) \in Nat
         /\ \A a \in 1 .. Len(heap) : \A i \in 1 .. Len(heap[a]) : heap[a][i] \in Entries
         /\ \A a \in 1 .. Len(heap) : DOMAIN heap[a] = 1 .. Len(heap[a])
<1>1. heap \in Seq(Seq(Entries))
  BY DEF Base, TypeOK
<1>2. Len(heap) \in Nat /\ \A a \in 1 .. Len(heap) : heap[a] \in Seq(Entries)
  BY <1>1, Indices
<1> QED
  BY <1>1, <1>2, Indices

LEMMA CurrentType ==
  ASSUME Base
  PROVE  /\ Current \in Seq(Entries) /\ Len(Current) = live.len
         /\ \A i \in 1 .. live.len : Current[i] = heap[live.arr][i]
         /\ live.len \in Nat /\ live.arr \in 1 .. Len(heap)
         /\ live.len <= Len(heap[live.arr])
<1>1. live.arr \in 1 .. Len(heap) /\ live.len <= Len(heap[live.arr]) /\ live.len \in Nat
  BY DEF Base, TypeOK, Bounded
<1>2. \A i \in 1 .. live.len : heap[live.arr][i] \in Entries
  BY <1>1, HeapType
<1>3. Current \in [1 .. live.len -> Entries]
  BY <1>2 DEF Current
<1>4. \A i \in 1 .. live.len : Current[i] = heap[live.arr][i]
  BY DEF Current
<1> QED
  BY <1>1, <1>3, <1>4, FunSeq

LEMMA NewEntryType ==
  ASSUME NEW op \in Ops
  PROVE  NewEntry(op) \in Entries
  BY DEF NewEntry, Ops, Entries

LEMMA CompactedType ==
  ASSUME Base, NEW list \in Seq(Entries), Len(list) <= live.len
  PROVE  /\ Compacted(list) \in Seq(Entries)
         /\ Len(Compacted(list)) = Len(heap[live.arr])
<1>1. live.arr \in 1 .. Len(heap) /\ live.len <= Len(heap[live.arr]) /\ live.len \in Nat
  BY CurrentType
<1>2. DOMAIN heap[live.arr] = 1 .. Len(heap[live.arr]) /\ Len(heap[live.arr]) \in Nat
      /\ \A i \in 1 .. Len(heap[live.arr]) : heap[live.arr][i] \in Entries
  BY <1>1, HeapType
<1>3. Len(list) \in Nat /\ \A i \in 1 .. Len(list) : list[i] \in Entries
  BY Indices
<1>4. Compacted(list) \in [1 .. Len(heap[live.arr]) -> Entries]
  BY <1>2, <1>3 DEF Compacted
<1> QED
  BY <1>2, <1>4, FunSeq

\* One array is replaced by one of the same length.
LEMMA Replaced ==
  ASSUME Base, NEW b \in Seq(Entries), Len(b) = Len(heap[live.arr]),
         heap' = [heap EXCEPT ![live.arr] = b]
  PROVE  /\ Grown /\ Len(heap') = Len(heap) /\ heap'[live.arr] = b
         /\ \A a \in 1 .. Len(heap) : a # live.arr => heap'[a] = heap[a]
<1>1. live.arr \in 1 .. Len(heap)
  BY CurrentType
<1>2. heap \in Seq(Seq(Entries)) /\ Len(heap) \in Nat
  BY HeapType
<1>3. /\ heap' \in Seq(Seq(Entries)) /\ Len(heap') = Len(heap)
      /\ \A a \in 1 .. Len(heap) : heap'[a] = IF a = live.arr THEN b ELSE heap[a]
  BY <1>1, <1>2, ExceptSeq
<1> QED
  BY <1>1, <1>2, <1>3 DEF Grown

\* The live slice after a step.
LiveType ==
    /\ live' \in [arr : Nat, len : Nat]
    /\ live'.arr \in 1 .. Len(heap') /\ live'.len <= Len(heap'[live'.arr])

LEMMA OpType ==
  ASSUME Base, NEW r \in Requests
  PROVE  req[r].op \in Ops
  BY DEF Base, TypeOK

LEMMA RemoveType ==
  ASSUME Base, NEW r \in Requests, RemoveServer(r)
  PROVE  Grown /\ LiveType
<1>1. PICK list \in Without(Current, req[r].op.name) :
        /\ heap' = [heap EXCEPT ![live.arr] = Compacted(list)]
        /\ live' = [live EXCEPT !.len = Len(list)]
  BY DEF RemoveServer
<1>2. /\ Current \in Seq(Entries) /\ Len(Current) = live.len
      /\ live.arr \in 1 .. Len(heap) /\ live.len <= Len(heap[live.arr])
  BY CurrentType
<1>3. list \in Seq(Entries) /\ Len(list) <= live.len
  BY <1>1, <1>2, KeptType DEF Without
<1>4. Compacted(list) \in Seq(Entries) /\ Len(Compacted(list)) = Len(heap[live.arr])
  BY <1>3, CompactedType
<1>5. Grown /\ Len(heap') = Len(heap) /\ heap'[live.arr] = Compacted(list)
  BY <1>1, <1>4, Replaced
<1>6. live \in [arr : Nat, len : Nat] /\ Len(list) \in Nat
  BY <1>3, Indices DEF Base, TypeOK
<1>7. live'.arr = live.arr /\ live'.len = Len(list) /\ live' \in [arr : Nat, len : Nat]
  BY <1>1, <1>6
<1>8. Len(list) <= Len(heap[live.arr])
  BY <1>2, <1>3, <1>6, CurrentType, HeapType
<1> QED
  BY <1>2, <1>4, <1>5, <1>7, <1>8 DEF LiveType

LEMMA UpdateType ==
  ASSUME Base, NEW r \in Requests, UpdateServer(r)
  PROVE  Grown /\ LiveType
<1>1. PICK i \in First(req[r].op) :
        heap' = [heap EXCEPT ![live.arr][i] = NewEntry(req[r].op)]
  BY DEF UpdateServer
<1>2. live' = live
  BY DEF UpdateServer
<1>3. live.arr \in 1 .. Len(heap) /\ live.len <= Len(heap[live.arr]) /\ live.len \in Nat
  BY CurrentType
<1>4. heap[live.arr] \in Seq(Entries) /\ Len(heap[live.arr]) \in Nat
  BY <1>3, HeapType
<1>5. i \in 1 .. Len(heap[live.arr])
  BY <1>1, <1>3, <1>4 DEF First
<1>6. NewEntry(req[r].op) \in Entries
  BY OpType, NewEntryType
<1> DEFINE b == [heap[live.arr] EXCEPT ![i] = NewEntry(req[r].op)]
<1>7. b \in Seq(Entries) /\ Len(b) = Len(heap[live.arr])
  BY <1>4, <1>5, <1>6, ExceptSeq
<1>8. heap' = [heap EXCEPT ![live.arr] = b]
  BY <1>1
<1>9. Grown /\ Len(heap') = Len(heap) /\ heap'[live.arr] = b
  <2> HIDE DEF b
  <2> QED BY <1>7, <1>8, Replaced
<1> HIDE DEF b
<1> QED
  BY <1>2, <1>3, <1>7, <1>9 DEF LiveType, Base, TypeOK

LEMMA AddType ==
  ASSUME Base, NEW r \in Requests, AddServer(r)
  PROVE  Grown /\ LiveType
<1>1. NewEntry(req[r].op) \in Entries
  BY OpType, NewEntryType
<1>2. /\ Current \in Seq(Entries) /\ Len(Current) = live.len /\ live.len \in Nat
      /\ live.arr \in 1 .. Len(heap) /\ live.len <= Len(heap[live.arr])
  BY CurrentType
<1>3. /\ heap \in Seq(Seq(Entries)) /\ Len(heap) \in Nat
      /\ heap[live.arr] \in Seq(Entries) /\ Len(heap[live.arr]) \in Nat
  BY <1>2, HeapType
<1>4. live \in [arr : Nat, len : Nat]
  BY DEF Base, TypeOK
<1>5. CASE /\ Fits
           /\ heap' = [heap EXCEPT ![live.arr][live.len + 1] = NewEntry(req[r].op)]
           /\ live' = [live EXCEPT !.len = @ + 1]
  <2> DEFINE b == [heap[live.arr] EXCEPT ![live.len + 1] = NewEntry(req[r].op)]
  <2>1. live.len + 1 \in 1 .. Len(heap[live.arr])
    BY <1>2, <1>3, <1>5 DEF Fits
  <2>2. b \in Seq(Entries) /\ Len(b) = Len(heap[live.arr])
    BY <1>1, <1>3, <2>1, ExceptSeq
  <2>3. heap' = [heap EXCEPT ![live.arr] = b]
    BY <1>5
  <2>4. Grown /\ Len(heap') = Len(heap) /\ heap'[live.arr] = b
    <3> HIDE DEF b
    <3> QED BY <2>2, <2>3, Replaced
  <2>5. live'.arr = live.arr /\ live'.len = live.len + 1 /\ live' \in [arr : Nat, len : Nat]
    BY <1>2, <1>4, <1>5
  <2> HIDE DEF b
  <2> QED
    BY <1>2, <2>1, <2>2, <2>4, <2>5 DEF LiveType
<1>6. ASSUME NEW n \in 0 .. Spare,
             heap' = Append(heap, Padded(Append(Current, NewEntry(req[r].op)), n)),
             live' = [arr |-> Len(heap) + 1, len |-> live.len + 1]
      PROVE  Grown /\ LiveType
  <2> DEFINE list == Append(Current, NewEntry(req[r].op))
             b == Padded(list, n)
  <2>1. list \in Seq(Entries) /\ Len(list) = live.len + 1
    BY <1>1, <1>2, AppendProperties
  <2>2. n \in Nat
    BY RequestAssumption
  <2>3. b \in Seq(Entries) /\ Len(b) = live.len + 1 + n
    <3> HIDE DEF list
    <3> QED BY <2>1, <2>2, PaddedType
  <2>4. heap' = Append(heap, b)
    BY <1>6
  <2> HIDE DEF list, b
  <2>5. /\ heap' \in Seq(Seq(Entries)) /\ Len(heap') = Len(heap) + 1
        /\ \A a \in 1 .. Len(heap) : heap'[a] = heap[a]
        /\ heap'[Len(heap) + 1] = b
    BY <1>3, <2>3, <2>4, AppendProperties
  <2> QED
    BY <1>2, <1>3, <1>6, <2>2, <2>3, <2>5 DEF Grown, LiveType
<1> QED
  BY <1>5, <1>6 DEF AddServer

LEMMA ApplyType ==
  ASSUME Base, NEW r \in Requests, Apply(r)
  PROVE  Grown /\ LiveType
<1>1. heap' = heap /\ live' = live => Grown /\ LiveType
  BY CurrentType, HeapType DEF Grown, LiveType, Base, TypeOK
<1>2. NotFound(r) \/ UpdateGlobalSettings(r) => heap' = heap /\ live' = live
  BY DEF NotFound, UpdateGlobalSettings
<1> QED
  BY <1>1, <1>2, RemoveType, UpdateType, AddType DEF Apply

\* A request and a collection whose copies lie in the arrays of h.
Record == [step : ReqSteps, op : Ops, read : Seq(Entries), saved : BOOLEAN,
           copy : [arr : Nat, len : Nat, glob : Globals]]

GoodRequest(q, h) ==
    /\ q \in Record
    /\ q.copy.arr \in 1 .. Len(h) /\ q.copy.len <= Len(h[q.copy.arr])
    /\ Len(q.read) <= q.copy.len

Cycle == [step : {"idle", "range", "publish"}, arr : Nat, len : Nat, quiet : BOOLEAN,
          polled : Seq(Names \cup {Garbage}), due : Seq(Names \cup {Garbage})]

GoodCycle(c, h) ==
    /\ c \in Cycle
    /\ c.arr \in 1 .. Len(h) /\ c.len <= Len(h[c.arr])
    /\ Len(c.polled) <= c.len /\ Len(c.due) = c.len

LEMMA AllGood ==
  ASSUME Base
  PROVE  /\ req \in [Requests -> Record] /\ \A r \in Requests : GoodRequest(req[r], heap)
         /\ GoodCycle(cyc, heap)
  BY DEF Base, TypeOK, Bounded, Record, GoodRequest, Cycle, GoodCycle

LEMMA Empties ==
  ASSUME NEW h \in Seq(Seq(Entries)), 1 \in 1 .. Len(h)
  PROVE  GoodRequest(NoRequest, h) /\ GoodCycle(NoCycle, h)
<1>1. NoOp \in Ops
  BY NameAssumption, EditAssumption DEF NoOp, Ops, Versions, Globals
<1>2. h[1] \in Seq(Entries) /\ Len(h[1]) \in Nat
  BY Indices
<1>3. <<>> \in Seq(Entries) /\ <<>> \in Seq(Names \cup {Garbage}) /\ Len(<<>>) = 0
  BY EmptySeq
<1>4. NoRequest \in Record
  BY <1>1, <1>3 DEF NoRequest, Record, ReqSteps, NoCopy, Globals
<1>5. NoCycle \in Cycle
  BY <1>3 DEF NoCycle, Cycle
<1> QED
  BY <1>2, <1>3, <1>4, <1>5 DEF GoodRequest, GoodCycle, NoRequest, NoCopy, NoCycle

\* What a step must show.
LEMMA BaseFrom ==
  ASSUME Base, Grown, LiveType,
         proc' \in {"up", "down"}, glob' \in Globals, file' \in Files,
         metrics' \subseteq Names \cup {Garbage}, edits' \in 0 .. MaxEdits,
         sole' \in Requests \cup {"saved", "nobody"}, orderly' \in BOOLEAN,
         req' \in [Requests -> Record],
         \A r \in Requests : GoodRequest(req'[r], heap),
         GoodCycle(cyc', heap)
  PROVE  Base'
<1>1. Len(heap) \in Nat /\ Len(heap') \in Nat
      /\ \A a \in 1 .. Len(heap) : a \in 1 .. Len(heap')
  BY HeapType, LenProperties DEF Grown
<1>2. \A r \in Requests : GoodRequest(req'[r], heap')
  BY <1>1 DEF GoodRequest, Grown
<1>3. GoodCycle(cyc', heap')
  BY <1>1 DEF GoodCycle, Grown
<1>4. TypeOK'
  BY <1>3 DEF TypeOK, Grown, LiveType, Record, GoodCycle, Cycle
<1>5. Bounded'
  BY <1>2, <1>3 DEF Bounded, LiveType, GoodRequest, GoodCycle
<1> QED
  BY <1>4, <1>5 DEF Base

\* The step of one request, which leaves the arrays alone.
LEMMA OneRequest ==
  ASSUME Base, NEW r \in Requests, NEW q, GoodRequest(q, heap),
         req' = [req EXCEPT ![r] = q]
  PROVE  /\ req' \in [Requests -> Record]
         /\ \A s \in Requests : GoodRequest(req'[s], heap)
<1>1. req \in [Requests -> Record] /\ \A s \in Requests : GoodRequest(req[s], heap)
  BY AllGood
<1>2. q \in Record
  BY DEF GoodRequest
<1>3. \A s \in Requests : req'[s] = IF s = r THEN q ELSE req[s]
  BY <1>1
<1> QED
  BY <1>1, <1>2, <1>3

LEMMA Same ==
  ASSUME Base, heap' = heap, live' = live
  PROVE  Grown /\ LiveType
  BY CurrentType, HeapType DEF Grown, LiveType, Base, TypeOK

----------------------------------------------------------------------------

LEMMA InitBase == ASSUME Init PROVE Base
<1>1. FirstFile \in Files /\ FirstFile.list \in Seq(Entries)
  BY FileAssumption DEF Files
<1>2. PICK list \in Started(FirstFile.list), n \in 0 .. Spare :
        heap = <<Padded(list, n)>> /\ live = [arr |-> 1, len |-> Len(list)]
  BY DEF Init
<1>3. list \in Seq(Entries) /\ Len(list) \in Nat /\ n \in Nat
  BY <1>1, <1>2, StartedType, Indices, RequestAssumption
<1>4. Padded(list, n) \in Seq(Entries) /\ Len(Padded(list, n)) = Len(list) + n
  BY <1>3, PaddedType
<1>5. /\ heap \in Seq(Seq(Entries)) /\ Len(heap) = 1 /\ heap[1] = Padded(list, n)
  BY <1>2, <1>4
<1>6. GoodRequest(NoRequest, heap) /\ GoodCycle(NoCycle, heap)
  BY <1>5, Empties
<1>7. GlobOf(FirstFile) \in Globals
  BY <1>1 DEF GlobOf, Files, Globals
<1>8. TypeOK
  BY <1>1, <1>2, <1>3, <1>5, <1>6, <1>7, EditAssumption
  DEF Init, TypeOK, GoodRequest, GoodCycle, Record, Cycle
<1>9. Bounded
  BY <1>2, <1>3, <1>4, <1>5, <1>6 DEF Init, Bounded, GoodRequest, GoodCycle
<1> QED
  BY <1>8, <1>9 DEF Base

LEMMA Scalars ==
  ASSUME Base
  PROVE  /\ proc \in {"up", "down"} /\ glob \in Globals /\ file \in Files
         /\ metrics \subseteq Names \cup {Garbage} /\ edits \in 0 .. MaxEdits
         /\ sole \in Requests \cup {"saved", "nobody"} /\ orderly \in BOOLEAN
  BY DEF Base, TypeOK

LEMMA EnterBase ==
  ASSUME Base, NEW r \in Requests, Enter(r)
  PROVE  Base'
<1>1. PICK op \in Asked :
        /\ req' = [req EXCEPT ![r].step = "inside", ![r].op = op]
        /\ cyc' = [cyc EXCEPT !.quiet = @ /\ (op.kind = "remove" => cyc.step # "range")]
  BY DEF Enter
<1> DEFINE q == [req[r] EXCEPT !.step = "inside", !.op = op]
<1>2. op \in Ops
  BY DEF Asked
<1>3. GoodRequest(req[r], heap) /\ GoodCycle(cyc, heap)
  BY AllGood
<1>4. GoodRequest(q, heap)
  BY <1>2, <1>3 DEF GoodRequest, Record, ReqSteps
<1>5. req' = [req EXCEPT ![r] = q]
  BY <1>1
<1>6. req' \in [Requests -> Record] /\ \A s \in Requests : GoodRequest(req'[s], heap)
  <2> HIDE DEF q
  <2> QED BY <1>4, <1>5, OneRequest
<1>7. cyc.quiet \in BOOLEAN
  BY <1>3 DEF GoodCycle, Cycle
<1>8. GoodCycle(cyc', heap)
  <2> DEFINE b == cyc.quiet /\ (op.kind = "remove" => cyc.step # "range")
  <2>1. b \in BOOLEAN /\ cyc' = [cyc EXCEPT !.quiet = b]
    BY <1>1, <1>7
  <2> HIDE DEF b
  <2> QED BY <1>3, <2>1 DEF GoodCycle, Cycle
<1>9. edits' \in 0 .. MaxEdits
  BY EditAssumption DEF Enter, Base, TypeOK
<1>10. sole' \in Requests \cup {"saved", "nobody"} /\ orderly' \in BOOLEAN
  BY Scalars DEF Enter
<1>11. UNCHANGED <<proc, heap, live, glob, file, metrics>>
  BY DEF Enter
<1>12. Grown /\ LiveType
  BY <1>11, Same
<1> QED
  BY <1>6, <1>8, <1>9, <1>10, <1>11, <1>12, Scalars, BaseFrom

LEMMA LeaveGood ==
  ASSUME Base, NEW r \in Requests, NEW to \in ReqSteps, Leave(r, to)
  PROVE  /\ req' \in [Requests -> Record]
         /\ \A s \in Requests : GoodRequest(req'[s], heap)
<1> DEFINE q == [req[r] EXCEPT !.step = to, !.op = NoOp]
<1>1. GoodRequest(req[r], heap)
  BY AllGood
<1>2. NoOp \in Ops
  BY NameAssumption, EditAssumption DEF NoOp, Ops, Versions, Globals
<1>3. GoodRequest(q, heap)
  BY <1>1, <1>2 DEF GoodRequest, Record
<1>4. req' = [req EXCEPT ![r] = q]
  BY DEF Leave
<1> HIDE DEF q
<1> QED
  BY <1>3, <1>4, OneRequest

LEMMA ApplyBase ==
  ASSUME Base, NEW r \in Requests, Apply(r)
  PROVE  Base'
<1>1. Leave(r, "snapshot") \/ Leave(r, "done")
  BY DEF Apply, RemoveServer, AddServer, UpdateServer, NotFound, UpdateGlobalSettings
<1>2. req' \in [Requests -> Record] /\ \A s \in Requests : GoodRequest(req'[s], heap)
  BY <1>1, LeaveGood DEF ReqSteps
<1>3. EditKeeps
  BY DEF Apply, RemoveServer, AddServer, UpdateServer, NotFound, UpdateGlobalSettings
<1>4. req[r].op.glob \in Globals
  BY OpType DEF Ops
<1>5. glob' \in Globals /\ metrics' \subseteq Names \cup {Garbage}
  BY <1>4, Scalars
  DEF Apply, RemoveServer, AddServer, UpdateServer, NotFound, UpdateGlobalSettings
<1>6. Grown /\ LiveType
  BY ApplyType
<1>7. GoodCycle(cyc', heap)
  BY <1>3, AllGood DEF EditKeeps
<1>8. UNCHANGED <<proc, file, edits, sole, orderly>>
  BY <1>3 DEF EditKeeps
<1> QED
  BY <1>2, <1>5, <1>6, <1>7, <1>8, Scalars, BaseFrom

\* The steps of a save change their request, and the file or orderly.
LEMMA SaveBase ==
  ASSUME Base, NEW r \in Requests, NEW q, GoodRequest(q, heap),
         req' = [req EXCEPT ![r] = q], file' \in Files, orderly' \in BOOLEAN,
         SaveKeeps
  PROVE  Base'
<1>1. req' \in [Requests -> Record] /\ \A s \in Requests : GoodRequest(req'[s], heap)
  BY OneRequest
<1>2. UNCHANGED <<proc, heap, live, glob, metrics, cyc, edits, sole>>
  BY DEF SaveKeeps
<1>3. Grown /\ LiveType
  BY <1>2, Same
<1> QED
  BY <1>1, <1>2, <1>3, AllGood, Scalars, BaseFrom

\* A reader finds a server in a slot.
LEMMA ReadableType ==
  ASSUME Base, NEW a \in 1 .. Len(heap), NEW i \in 1 .. Len(heap[a]),
         NEW e \in Readable(a, i)
  PROVE  e \in Entries
<1>1. heap[a][i] \in Entries
  BY HeapType
<1>2. ASSUME NEW w \in Requests, live.arr = a, NEW b \in After(req[w].op)
      PROVE  b[i] \in Entries
  <2>1. req[w].op \in Ops /\ NewEntry(req[w].op) \in Entries
    BY OpType, NewEntryType
  <2>2. heap[live.arr] \in Seq(Entries) /\ DOMAIN heap[live.arr] = 1 .. Len(heap[live.arr])
    BY CurrentType, HeapType
  <2>3. CASE req[w].op.kind = "add" /\ Fits
    BY <1>1, <1>2, <2>1, <2>2, <2>3 DEF After
  <2>4. CASE req[w].op.kind = "edit"
    BY <1>1, <1>2, <2>1, <2>2, <2>4 DEF After
  <2>5. CASE req[w].op.kind = "remove"
    <3>1. PICK list \in Without(Current, req[w].op.name) : b = Compacted(list)
      BY <1>2, <2>5 DEF After
    <3>2. list \in Seq(Entries) /\ Len(list) <= live.len
      BY <3>1, CurrentType, KeptType DEF Without
    <3>3. Compacted(list) \in Seq(Entries) /\ Len(Compacted(list)) = Len(heap[live.arr])
      BY <3>2, CompactedType
    <3> QED
      BY <1>2, <3>1, <3>3, ElementOfSeq
  <2>6. CASE req[w].op.kind = "set" \/ (req[w].op.kind = "add" /\ ~Fits)
    BY <1>2, <2>6 DEF After
  <2> QED
    BY <2>1, <2>3, <2>4, <2>5, <2>6 DEF Ops
<1>3. \A old, new : \A x \in Torn(old, new) : x \in Entries
  BY DEF Torn
<1> QED
  BY <1>1, <1>2, <1>3 DEF Readable

LEMMA SnapshotBase ==
  ASSUME Base, NEW r \in Requests, Snapshot(r), req[r].read = <<>>
  PROVE  Base'
<1> DEFINE c == [arr |-> live.arr, len |-> live.len, glob |-> glob]
           q == [req[r] EXCEPT !.step = "validate", !.copy = c]
<1>1. GoodRequest(req[r], heap)
  BY AllGood
<1>2. c \in [arr : Nat, len : Nat, glob : Globals] /\ c.arr = live.arr /\ c.len = live.len
  BY DEF Base, TypeOK
<1>3. q.copy = c /\ q.read = <<>> /\ q \in Record
  <2> HIDE DEF c
  <2> QED BY <1>1, <1>2 DEF GoodRequest, Record, ReqSteps
<1>4. GoodRequest(q, heap)
  <2>1. live.arr \in 1 .. Len(heap) /\ live.len <= Len(heap[live.arr]) /\ live.len \in Nat
    BY CurrentType
  <2> HIDE DEF q, c
  <2> QED BY <1>2, <1>3, <2>1, EmptySeq DEF GoodRequest
<1>5. req' = [req EXCEPT ![r] = q]
  BY DEF Snapshot
<1>6. SaveKeeps /\ file' \in Files /\ orderly' \in BOOLEAN
  BY Scalars DEF Snapshot
<1> HIDE DEF q
<1> QED
  BY <1>4, <1>5, <1>6, SaveBase

LEMMA ReadBase ==
  ASSUME Base, NEW r \in Requests, Read(r)
  PROVE  Base'
<1>1. GoodRequest(req[r], heap)
  BY AllGood
<1> DEFINE i == Len(req[r].read) + 1
<1>2. /\ req[r].copy.arr \in 1 .. Len(heap) /\ Len(req[r].read) \in Nat
      /\ Len(req[r].read) < req[r].copy.len /\ req[r].copy.len \in Nat
      /\ i \in 1 .. Len(heap[req[r].copy.arr])
  <2>1. Len(req[r].read) \in Nat
    BY <1>1, LenProperties DEF GoodRequest, Record
  <2>2. req[r].copy.arr \in 1 .. Len(heap) /\ Len(heap[req[r].copy.arr]) \in Nat
    BY <1>1, HeapType DEF GoodRequest
  <2>3. Len(req[r].read) < req[r].copy.len /\ req[r].copy.len \in Nat
        /\ req[r].copy.len <= Len(heap[req[r].copy.arr])
    BY <1>1 DEF GoodRequest, Record, Read
  <2> DEFINE m == Len(req[r].read)
             l == req[r].copy.len
             h == Len(heap[req[r].copy.arr])
  <2>4. m \in Nat /\ l \in Nat /\ h \in Nat /\ m < l /\ l <= h
    BY <2>1, <2>2, <2>3
  <2>5. m + 1 \in 1 .. h
    <3> HIDE DEF m, l, h
    <3> QED BY <2>4
  <2> QED
    BY <2>1, <2>2, <2>3, <2>5
<1>3. PICK e \in Readable(req[r].copy.arr, i) :
        req' = [req EXCEPT ![r].read = Append(@, e)]
  BY DEF Read
<1>4. e \in Entries
  BY <1>2, ReadableType
<1> DEFINE q == [req[r] EXCEPT !.read = Append(@, e)]
<1>5. Append(req[r].read, e) \in Seq(Entries)
      /\ Len(Append(req[r].read, e)) = Len(req[r].read) + 1
  BY <1>1, <1>4, AppendProperties DEF GoodRequest, Record
<1>6. GoodRequest(q, heap)
  <2> DEFINE s == Append(req[r].read, e)
  <2>1. s \in Seq(Entries) /\ Len(s) <= req[r].copy.len
    BY <1>2, <1>5
  <2> HIDE DEF s
  <2>2. q = [req[r] EXCEPT !.read = s]
    BY DEF s
  <2>3. [req[r] EXCEPT !.read = s] \in Record
        /\ [req[r] EXCEPT !.read = s].copy = req[r].copy
        /\ [req[r] EXCEPT !.read = s].read = s
    BY <1>1, <2>1 DEF GoodRequest, Record
  <2> HIDE DEF q
  <2> QED
    BY <1>1, <2>1, <2>2, <2>3 DEF GoodRequest
<1>7. req' = [req EXCEPT ![r] = q]
  BY <1>3
<1>8. SaveKeeps /\ file' \in Files /\ orderly' \in BOOLEAN
  BY Scalars DEF Read
<1> HIDE DEF q
<1> QED
  BY <1>6, <1>7, <1>8, SaveBase

\* A step that only moves a request on.
LEMMA MoveBase ==
  ASSUME Base, NEW r \in Requests, NEW from, NEW to \in ReqSteps, Step(r, from, to),
         file' \in Files, orderly' \in BOOLEAN, SaveKeeps
  PROVE  Base'
<1> DEFINE q == [req[r] EXCEPT !.step = to]
<1>1. GoodRequest(req[r], heap)
  BY AllGood
<1>2. GoodRequest(q, heap)
  BY <1>1 DEF GoodRequest, Record
<1>3. req' = [req EXCEPT ![r] = q]
  BY DEF Step
<1> HIDE DEF q
<1> QED
  BY <1>2, <1>3, SaveBase

LEMMA ValidateBase ==
  ASSUME Base, NEW r \in Requests, Validate(r)
  PROVE  Base'
<1> DEFINE to == IF Accepted(req[r].read) THEN "marshal" ELSE "done"
           q == [req[r] EXCEPT !.step = to, !.read = <<>>]
<1>1. GoodRequest(req[r], heap)
  BY AllGood
<1>2. to \in ReqSteps /\ <<>> \in Seq(Entries) /\ Len(<<>>) = 0
  BY EmptySeq DEF ReqSteps
<1>3. req' = [req EXCEPT ![r] = q]
  BY DEF Validate
<1> HIDE DEF to
<1>4. GoodRequest(q, heap)
  <2>1. q \in Record /\ q.copy = req[r].copy /\ q.read = <<>>
    BY <1>1, <1>2 DEF GoodRequest, Record
  <2>2. req[r].copy.len \in Nat
    BY <1>1 DEF GoodRequest, Record
  <2> QED
    BY <1>1, <1>2, <2>1, <2>2 DEF GoodRequest
<1>5. SaveKeeps /\ file' \in Files /\ orderly' \in BOOLEAN
  BY Scalars DEF Validate
<1> HIDE DEF q
<1> QED
  BY <1>3, <1>4, <1>5, SaveBase

LEMMA ListedType ==
  ASSUME Base, NEW r \in Requests, NEW kind \in FileKinds
  PROVE  [kind |-> kind, list |-> req[r].read, glob |-> req[r].copy.glob] \in Files
<1>1. req[r] \in Record
  BY AllGood
<1> QED
  BY <1>1 DEF Record, Files

\* Whatever is left of a write that is cut short is a file.
LEMMA CutType ==
  ASSUME Base, NEW r \in Requests, NEW f \in CutShort(r)
  PROVE  f \in Files /\ f.kind = "partial"
<1> DEFINE list == req[r].read
<1>1. req[r] \in Record /\ list \in Seq(Entries) /\ req[r].copy.glob \in Globals
  BY AllGood DEF Record
<1>2. Len(list) \in Nat /\ \A i \in 1 .. Len(list) : list[i] \in Entries
  BY <1>1, Indices
<1> HIDE DEF list
<1>3. \A n \in 0 .. Len(list) : SubSeq(list, 1, n) \in Seq(Entries)
  BY <1>1, <1>2
<1>4. ASSUME NEW n \in 1 .. Len(list)
      PROVE  Append(SubSeq(list, 1, n - 1), [list[n] EXCEPT !.ver = -1]) \in Seq(Entries)
  <2>1. [list[n] EXCEPT !.ver = -1] \in Entries
    BY <1>2, EditAssumption DEF Entries, Versions
  <2>2. SubSeq(list, 1, n - 1) \in Seq(Entries)
    BY <1>2, <1>3, <1>4
  <2> QED
    BY <2>1, <2>2, AppendProperties
<1>5. Beginnings(list) \subseteq Seq(Entries)
  BY <1>3, <1>4 DEF Beginnings
<1>6. PICK l \in Beginnings(list) \cup {list}, g \in {"empty", req[r].copy.glob} :
        f = [kind |-> "partial", list |-> l, glob |-> g]
  BY DEF CutShort, list
<1>7. l \in Seq(Entries) /\ g \in Globals
  BY <1>1, <1>5, <1>6 DEF Globals
<1> QED
  BY <1>6, <1>7 DEF Files, FileKinds

\* Without a writer the end of the process leaves the file as it is.
LEMMA LeftType ==
  ASSUME Base, NEW f \in LeftBehind
  PROVE  /\ f \in Files
         /\ f = file \/ f.kind = "partial"
         /\ (\A r \in Requests : req[r].step # "write") => f = file
  BY CutType, Scalars DEF LeftBehind, Writers

LEMMA WriteBase ==
  ASSUME Base, NEW r \in Requests, Write(r)
  PROVE  Base'
<1> DEFINE q == [req[r] EXCEPT !.step = "done", !.saved = TRUE]
<1>1. GoodRequest(req[r], heap)
  BY AllGood
<1>2. GoodRequest(q, heap)
  BY <1>1 DEF GoodRequest, Record, ReqSteps
<1>3. req' = [req EXCEPT ![r] = q]
  BY DEF Write
<1>4. SaveKeeps /\ orderly' \in BOOLEAN
  BY Scalars DEF Write
<1>5. file' \in Files
  BY ListedType DEF Write, FileKinds
<1> HIDE DEF q
<1> QED
  BY <1>2, <1>3, <1>4, <1>5, SaveBase

LEMMA SaveConfigBase ==
  ASSUME Base, NEW r \in Requests, SaveConfig(r),
         req[r].step = "snapshot" => req[r].read = <<>>
  PROVE  Base'
<1>1. CASE Snapshot(r)
  BY <1>1, SnapshotBase DEF Snapshot
<1>2. CASE Read(r)
  BY <1>2, ReadBase
<1>3. CASE Validate(r)
  BY <1>3, ValidateBase
<1>4. CASE Marshal(r)
  BY <1>4, MoveBase, Scalars DEF Marshal, ReqSteps
<1>5. CASE Truncate(r)
  <2>1. [kind |-> "empty", list |-> <<>>, glob |-> "empty"] \in Files
    BY EmptySeq DEF Files, FileKinds, Globals
  <2> QED
    BY <1>5, <2>1, MoveBase, Scalars DEF Truncate, ReqSteps
<1>6. CASE OpenFails(r)
  BY <1>6, MoveBase, Scalars DEF OpenFails, ReqSteps
<1>7. CASE Write(r)
  BY <1>7, WriteBase
<1>8. CASE WriteFails(r)
  BY <1>8, MoveBase, CutType, Scalars DEF WriteFails, ReqSteps
<1> QED
  BY <1>1, <1>2, <1>3, <1>4, <1>5, <1>6, <1>7, <1>8 DEF SaveConfig

LEMMA ReplyBase ==
  ASSUME Base, NEW r \in Requests, Reply(r)
  PROVE  Base'
<1>1. 1 \in 1 .. Len(heap)
  BY CurrentType, HeapType
<1>2. GoodRequest(NoRequest, heap)
  BY <1>1, HeapType, Empties
<1>3. req' = [req EXCEPT ![r] = NoRequest]
  BY DEF Reply
<1>4. req' \in [Requests -> Record] /\ \A s \in Requests : GoodRequest(req'[s], heap)
  BY <1>2, <1>3, OneRequest
<1>5. UNCHANGED <<proc, heap, live, glob, file, metrics, cyc, edits, orderly>>
      /\ sole' \in Requests \cup {"saved", "nobody"}
  BY Scalars DEF Reply
<1>6. Grown /\ LiveType
  BY <1>5, Same
<1> QED
  BY <1>4, <1>5, <1>6, AllGood, Scalars, BaseFrom

----------------------------------------------------------------------------
(* The collector and the process. *)

LEMMA CycleBase ==
  ASSUME Base, CycleKeeps, GoodCycle(cyc', heap), metrics' \subseteq Names \cup {Garbage}
  PROVE  Base'
<1>1. UNCHANGED <<proc, heap, live, glob, req, file, edits, sole, orderly>>
  BY DEF CycleKeeps
<1>2. Grown /\ LiveType
  BY <1>1, Same
<1> QED
  BY <1>1, <1>2, AllGood, Scalars, BaseFrom

LEMMA BeginBase ==
  ASSUME Base, BeginCycle
  PROVE  /\ Base'
         /\ cyc'.due \in Seq(Names \cup {Garbage}) /\ Len(cyc'.due) = live.len
         /\ \A i \in 1 .. live.len : cyc'.due[i] = heap[live.arr][i].name
<1> DEFINE due == [i \in 1 .. live.len |-> Current[i].name]
           quiet == \A r \in Requests :
                      req[r].step = "inside" => req[r].op.kind # "remove"
<1>1. /\ live.len \in Nat /\ live.arr \in 1 .. Len(heap) /\ live.arr \in Nat
      /\ live.len <= Len(heap[live.arr])
      /\ \A i \in 1 .. live.len : Current[i] \in Entries /\ Current[i] = heap[live.arr][i]
  BY CurrentType, ElementOfSeq
<1>2. due \in [1 .. live.len -> Names \cup {Garbage}]
  BY <1>1 DEF Entries
<1>3. due \in Seq(Names \cup {Garbage}) /\ Len(due) = live.len
  <2> HIDE DEF due
  <2> QED BY <1>1, <1>2, FunSeq
<1>4. cyc' = [step |-> "range", arr |-> live.arr, len |-> live.len, polled |-> <<>>,
              due |-> due, quiet |-> quiet]
  BY DEF BeginCycle
<1>5. \A i \in 1 .. live.len : due[i] = heap[live.arr][i].name
  BY <1>1
<1>6. quiet \in BOOLEAN
  OBVIOUS
<1> HIDE DEF due, quiet
<1>7. <<>> \in Seq(Names \cup {Garbage}) /\ Len(<<>>) = 0
  BY EmptySeq
<1>8. GoodCycle(cyc', heap)
  BY <1>1, <1>3, <1>4, <1>6, <1>7 DEF GoodCycle, Cycle
<1>9. CycleKeeps /\ metrics' = metrics
  BY DEF BeginCycle
<1>10. Base'
  BY <1>8, <1>9, Scalars, CycleBase
<1> QED
  BY <1>3, <1>4, <1>5, <1>10

LEMMA SpawnBase ==
  ASSUME Base, Spawn
  PROVE  /\ Base'
         /\ Len(cyc.polled) \in Nat /\ cyc.arr \in 1 .. Len(heap)
         /\ Len(cyc.polled) + 1 \in 1 .. cyc.len
         /\ Len(cyc.polled) + 1 \in 1 .. Len(heap[cyc.arr])
         /\ \E e \in Readable(cyc.arr, Len(cyc.polled) + 1) :
              cyc' = [cyc EXCEPT !.polled = Append(@, e.name)] /\ e \in Entries
<1> DEFINE i == Len(cyc.polled) + 1
<1>1. GoodCycle(cyc, heap)
  BY AllGood
<1>2. Len(cyc.polled) \in Nat /\ cyc.len \in Nat /\ cyc.arr \in 1 .. Len(heap)
      /\ cyc.polled \in Seq(Names \cup {Garbage})
  BY <1>1, LenProperties DEF GoodCycle, Cycle
<1>3. Len(heap[cyc.arr]) \in Nat /\ cyc.len <= Len(heap[cyc.arr])
      /\ Len(cyc.polled) < cyc.len
  BY <1>1, <1>2, HeapType DEF GoodCycle, Spawn
<1>4. i \in 1 .. cyc.len /\ i \in 1 .. Len(heap[cyc.arr])
  BY <1>2, <1>3
<1>5. PICK e \in Readable(cyc.arr, i) : cyc' = [cyc EXCEPT !.polled = Append(@, e.name)]
  BY DEF Spawn
<1>6. e \in Entries /\ e.name \in Names \cup {Garbage}
  <2>1. e \in Entries
    BY <1>2, <1>4, ReadableType
  <2> QED
    BY <2>1 DEF Entries
<1>7. Append(cyc.polled, e.name) \in Seq(Names \cup {Garbage})
      /\ Len(Append(cyc.polled, e.name)) = Len(cyc.polled) + 1
  BY <1>2, <1>6, AppendProperties
<1>8. GoodCycle(cyc', heap)
  <2> DEFINE s == Append(cyc.polled, e.name)
  <2>1. cyc' = [cyc EXCEPT !.polled = s]
    BY <1>5
  <2>2. s \in Seq(Names \cup {Garbage}) /\ Len(s) <= cyc.len
    BY <1>2, <1>3, <1>7
  <2> HIDE DEF s
  <2> QED
    BY <1>1, <2>1, <2>2 DEF GoodCycle, Cycle
<1>9. CycleKeeps /\ metrics' = metrics
  BY DEF Spawn
<1>10. Base'
  BY <1>8, <1>9, Scalars, CycleBase
<1> QED
  BY <1>2, <1>4, <1>5, <1>6, <1>10

LEMMA WaitBase ==
  ASSUME Base, Wait
  PROVE  Base'
<1>1. GoodCycle(cyc, heap)
  BY AllGood
<1>2. GoodCycle(cyc', heap)
  BY <1>1 DEF Wait, GoodCycle, Cycle
<1>3. CycleKeeps /\ metrics' = metrics
  BY DEF Wait
<1> QED
  BY <1>2, <1>3, Scalars, CycleBase

LEMMA UpdateBase ==
  ASSUME Base, Update
  PROVE  Base'
<1>1. 1 \in 1 .. Len(heap)
  BY CurrentType, HeapType
<1>2. GoodCycle(cyc', heap)
  BY <1>1, HeapType, Empties DEF Update
<1>3. cyc.polled \in Seq(Names \cup {Garbage})
  BY AllGood DEF GoodCycle, Cycle
<1>4. \A i \in DOMAIN cyc.polled : cyc.polled[i] \in Names \cup {Garbage}
  BY <1>3, Indices
<1>5. CycleKeeps /\ metrics' \subseteq Names \cup {Garbage}
  BY <1>4, Scalars DEF Update
<1> QED
  BY <1>2, <1>5, CycleBase

LEMMA RestartBase ==
  ASSUME Base, Restart
  PROVE  Base'
<1>1. file' \in Files /\ file'.list \in Seq(Entries)
  BY LeftType DEF Restart, Files
<1>2. PICK list \in Started(file'.list), n \in 0 .. Spare :
        heap' = <<Padded(list, n)>> /\ live' = [arr |-> 1, len |-> Len(list)]
  BY DEF Restart
<1>3. list \in Seq(Entries) /\ Len(list) \in Nat /\ n \in Nat
  BY <1>1, <1>2, StartedType, Indices, RequestAssumption
<1>4. Padded(list, n) \in Seq(Entries) /\ Len(Padded(list, n)) = Len(list) + n
  BY <1>3, PaddedType
<1>5. /\ heap' \in Seq(Seq(Entries)) /\ Len(heap') = 1 /\ heap'[1] = Padded(list, n)
  BY <1>2, <1>4
<1>6. GoodRequest(NoRequest, heap') /\ GoodCycle(NoCycle, heap')
  <2>1. 1 \in 1 .. Len(heap')
    BY <1>5
  <2> QED
    BY <1>5, <2>1, Empties
<1>7. GlobOf(file') \in Globals
  BY <1>1 DEF GlobOf, Files, Globals
<1>8. TypeOK'
  BY <1>1, <1>2, <1>3, <1>5, <1>6, <1>7, Scalars
  DEF Restart, TypeOK, GoodRequest, GoodCycle, Record, Cycle
<1>9. Bounded'
  BY <1>2, <1>3, <1>4, <1>5, <1>6 DEF Restart, Bounded, GoodRequest, GoodCycle
<1> QED
  BY <1>8, <1>9 DEF Base

LEMMA StartFailsBase ==
  ASSUME Base, StartFails
  PROVE  Base'
<1>1. file' \in Files
  BY LeftType DEF StartFails
<1>2. UNCHANGED <<heap, live, glob, edits, orderly>> /\ cyc' = NoCycle
      /\ req' = [r \in Requests |-> NoRequest] /\ metrics' = {}
  BY DEF StartFails
<1>3. Grown /\ LiveType
  BY <1>2, Same
<1>4. 1 \in 1 .. Len(heap)
  BY CurrentType, HeapType
<1>5. GoodRequest(NoRequest, heap) /\ GoodCycle(NoCycle, heap)
  BY <1>4, HeapType, Empties
<1>6. req' \in [Requests -> Record]
  BY <1>2, <1>5 DEF GoodRequest
<1>7. proc' \in {"up", "down"} /\ sole' \in Requests \cup {"saved", "nobody"}
  BY DEF StartFails
<1> QED
  BY <1>1, <1>2, <1>3, <1>5, <1>6, <1>7, Scalars, BaseFrom

LEMMA StutterBase ==
  ASSUME Base, UNCHANGED vars
  PROVE  Base'
  BY DEF vars, Base, TypeOK, Bounded

\* A request that has not saved yet has read nothing.
Unread ==
    \A r \in Requests : req[r].step \in {"idle", "inside", "snapshot"} => req[r].read = <<>>

TInv == Base /\ Unread

LEMMA InitTInv == ASSUME Init PROVE TInv
<1>1. Base
  BY InitBase
<1>2. Unread
  BY DEF Init, Unread, NoRequest
<1> QED
  BY <1>1, <1>2 DEF TInv

\* The steps of a request leave the other requests as they are.
LEMMA OthersKeep ==
  ASSUME Base, NEW r \in Requests, Enter(r) \/ Handler(r)
  PROVE  /\ \A s \in Requests : s # r => req'[s] = req[s]
         /\ req'[r].step \in ReqSteps
<1>1. req \in [Requests -> Record]
  BY AllGood
<1> QED
  BY <1>1
  DEF Enter, Handler, Apply, RemoveServer, AddServer, UpdateServer, NotFound,
      UpdateGlobalSettings, Leave, SaveConfig, Snapshot, Read, Validate, Marshal, Truncate,
      OpenFails, Write, WriteFails, Step, Reply, NoRequest, Record, ReqSteps

LEMMA HandlerUnread ==
  ASSUME TInv, NEW r \in Requests, Enter(r) \/ Handler(r)
  PROVE  Unread'
<1>1. req \in [Requests -> Record] /\ Base
  BY AllGood DEF TInv
<1>2. \A s \in Requests : s # r => req'[s] = req[s]
  BY <1>1, OthersKeep
<1>3. req'[r].step \in {"idle", "inside", "snapshot"} => req'[r].read = <<>>
  <2>1. CASE Enter(r)
    <3>1. PICK op \in Asked : req' = [req EXCEPT ![r].step = "inside", ![r].op = op]
      BY <2>1 DEF Enter
    <3>2. req'[r] = [req[r] EXCEPT !.step = "inside", !.op = op] /\ req[r] \in Record
      BY <1>1, <3>1
    <3>3. req'[r].read = req[r].read
      BY <3>2 DEF Record
    <3>4. req[r].step = "idle"
      BY <2>1 DEF Enter
    <3> QED
      BY <3>3, <3>4 DEF TInv, Unread
  <2>2. CASE Apply(r)
    <3>1. PICK to : Leave(r, to)
      BY <2>2 DEF Apply, RemoveServer, AddServer, UpdateServer, NotFound,
                  UpdateGlobalSettings
    <3>2. req'[r] = [req[r] EXCEPT !.step = to, !.op = NoOp] /\ req[r] \in Record
      BY <1>1, <3>1 DEF Leave
    <3>3. req'[r].read = req[r].read /\ req[r].step = "inside"
      BY <3>1, <3>2 DEF Leave, Record
    <3> QED
      BY <3>3 DEF TInv, Unread
  <2>3. CASE SaveConfig(r)
    BY <1>1, <2>3
    DEF SaveConfig, Snapshot, Read, Validate, Marshal, Truncate, OpenFails, Write,
        WriteFails, Step, Record
  <2>4. CASE Reply(r)
    BY <1>1, <2>4 DEF Reply, NoRequest
  <2> QED
    BY <2>1, <2>2, <2>3, <2>4 DEF Handler
<1> QED
  BY <1>2, <1>3 DEF TInv, Unread

LEMMA NextTInv ==
  ASSUME TInv, [Next]_vars
  PROVE  TInv'
<1>1. Base
  BY DEF TInv
<1>2. ASSUME NEW r \in Requests, Enter(r) \/ Handler(r)
      PROVE  TInv'
  <2>1. Unread'
    BY <1>2, HandlerUnread
  <2>2. CASE Enter(r)
    BY <1>1, <2>1, <2>2, EnterBase DEF TInv
  <2>3. CASE Apply(r)
    BY <1>1, <2>1, <2>3, ApplyBase DEF TInv
  <2>4. CASE SaveConfig(r)
    BY <1>1, <2>1, <2>4, SaveConfigBase DEF TInv, Unread
  <2>5. CASE Reply(r)
    BY <1>1, <2>1, <2>5, ReplyBase DEF TInv
  <2> QED
    BY <1>2, <2>2, <2>3, <2>4, <2>5 DEF Handler
<1>3. ASSUME req' = req, Base'
      PROVE  TInv'
  BY <1>3 DEF TInv, Unread
<1>4. CASE BeginCycle
  BY <1>1, <1>3, <1>4, BeginBase DEF BeginCycle, CycleKeeps
<1>5. CASE Spawn
  BY <1>1, <1>3, <1>5, SpawnBase DEF Spawn, CycleKeeps
<1>6. CASE Wait
  BY <1>1, <1>3, <1>6, WaitBase DEF Wait, CycleKeeps
<1>7. CASE Update
  BY <1>1, <1>3, <1>7, UpdateBase DEF Update, CycleKeeps
<1>8. CASE Restart \/ StartFails
  <2>1. Unread'
    BY <1>8 DEF Restart, StartFails, Unread, NoRequest
  <2> QED
    BY <1>1, <1>8, <2>1, RestartBase, StartFailsBase DEF TInv
<1>10. CASE UNCHANGED vars
  BY <1>1, <1>3, <1>10, StutterBase DEF vars
<1> QED
  BY <1>2, <1>4, <1>5, <1>6, <1>7, <1>8, <1>10 DEF Next, Down

\* Types, bounds and Unread hold in every reachable state.
THEOREM TypeInvariant == Spec => []TInv
<1>1. Init => TInv
  BY InitTInv
<1>2. TInv /\ [Next]_vars => TInv'
  BY NextTInv
<1> QED
  BY <1>1, <1>2, PTL DEF Spec

\* The state keeps its types: in particular every slice stays in its array,
\* and nobody reads past the end of a copy.
THEOREM TypeCorrect == Spec => []TypeOK
<1>1. TInv => TypeOK
  BY DEF TInv, Base
<1> QED
  BY <1>1, TypeInvariant, PTL

----------------------------------------------------------------------------
(* The round of the collector. *)

\* What the names in a round owe to the list it began with, as long as no
\* server is removed: an edit keeps the name, and append writes behind the
\* end of the copy or in another array.
Watching ==
    /\ cyc.step = "publish" => Len(cyc.polled) = cyc.len
    /\ cyc.step # "idle" /\ cyc.quiet =>
         \A i \in 1 .. Len(cyc.polled) : cyc.polled[i] = cyc.due[i]
    /\ cyc.step = "range" /\ cyc.quiet =>
         /\ \A i \in 1 .. cyc.len : heap[cyc.arr][i].name = cyc.due[i]
         /\ \A r \in Requests : req[r].step = "inside" => req[r].op.kind # "remove"
         /\ cyc.arr = live.arr => cyc.len <= live.len

LEMMA CycleType ==
  ASSUME Base
  PROVE  /\ cyc \in Cycle /\ cyc.len \in Nat /\ cyc.arr \in 1 .. Len(heap)
         /\ cyc.len <= Len(heap[cyc.arr]) /\ Len(heap[cyc.arr]) \in Nat
         /\ Len(cyc.polled) \in Nat /\ Len(cyc.due) = cyc.len
<1>1. GoodCycle(cyc, heap)
  BY AllGood
<1> QED
  BY <1>1, HeapType, LenProperties DEF GoodCycle, Cycle

LEMMA HandlerLeaves ==
  ASSUME Base, NEW r \in Requests, Handler(r)
  PROVE  req'[r].step # "inside"
<1>1. req \in [Requests -> Record]
  BY AllGood
<1>2. ASSUME NEW to, to # "inside", Leave(r, to)
      PROVE  req'[r].step # "inside"
  <2>1. req'[r] = [req[r] EXCEPT !.step = to, !.op = NoOp] /\ req[r] \in Record
    BY <1>1, <1>2 DEF Leave
  <2> QED
    BY <1>2, <2>1 DEF Record
<1>3. CASE Apply(r)
  BY <1>2, <1>3 DEF Apply, RemoveServer, AddServer, UpdateServer, NotFound,
                    UpdateGlobalSettings
<1>4. CASE SaveConfig(r)
  BY <1>1, <1>4
  DEF SaveConfig, Snapshot, Read, Validate, Marshal, Truncate, OpenFails, Write,
      WriteFails, Step, Record
<1>5. CASE Reply(r)
  BY <1>1, <1>5 DEF Reply, NoRequest
<1> QED
  BY <1>3, <1>4, <1>5 DEF Handler

\* A step of a handler keeps Watching when it keeps the names.
LEMMA NamesKeep ==
  ASSUME TInv, Watching, NEW r \in Requests, Handler(r), cyc' = cyc,
         cyc.step = "range" /\ cyc.quiet =>
           /\ \A i \in 1 .. cyc.len : heap'[cyc.arr][i].name = heap[cyc.arr][i].name
           /\ cyc.arr = live'.arr => cyc.len <= live'.len
  PROVE  Watching'
<1>1. \A s \in Requests : req'[s].step = "inside" => req'[s] = req[s]
  BY HandlerLeaves, OthersKeep DEF TInv
<1> QED
  BY <1>1 DEF Watching

LEMMA AddWatching ==
  ASSUME TInv, Watching, NEW r \in Requests, AddServer(r),
         cyc.step = "range", cyc.quiet
  PROVE  /\ \A i \in 1 .. cyc.len : heap'[cyc.arr][i].name = heap[cyc.arr][i].name
         /\ cyc.arr = live'.arr => cyc.len <= live'.len
<1> DEFINE new == NewEntry(req[r].op)
<1>1. Base /\ (cyc.arr = live.arr => cyc.len <= live.len)
  BY DEF TInv, Watching
<1>2. /\ cyc.len \in Nat /\ cyc.arr \in 1 .. Len(heap) /\ cyc.len <= Len(heap[cyc.arr])
      /\ live.arr \in 1 .. Len(heap) /\ live.len \in Nat
      /\ Len(heap) \in Nat
  BY <1>1, CycleType, CurrentType, HeapType
<1>3. /\ heap \in Seq(Seq(Entries)) /\ DOMAIN heap = 1 .. Len(heap)
      /\ DOMAIN heap[cyc.arr] = 1 .. Len(heap[cyc.arr]) /\ Len(heap[cyc.arr]) \in Nat
  BY <1>1, <1>2, HeapType, LenProperties
<1>4. live \in [arr : Nat, len : Nat]
  BY <1>1 DEF Base, TypeOK
<1>5. CASE /\ heap' = [heap EXCEPT ![live.arr][live.len + 1] = new]
           /\ live' = [live EXCEPT !.len = @ + 1]
  <2>1. live'.arr = live.arr /\ live'.len = live.len + 1
    BY <1>4, <1>5
  <2>2. CASE cyc.arr = live.arr
    <3>1. heap'[cyc.arr] = [heap[cyc.arr] EXCEPT ![live.len + 1] = new]
      BY <1>2, <1>3, <1>5, <2>2
    <3>2. \A i \in 1 .. cyc.len : i # live.len + 1 /\ i \in DOMAIN heap[cyc.arr]
      BY <1>1, <1>2, <1>3, <2>2
    <3>3. \A i \in 1 .. cyc.len : heap'[cyc.arr][i] = heap[cyc.arr][i]
      BY <3>1, <3>2
    <3> QED
      BY <1>1, <1>2, <2>1, <3>3
  <2>3. CASE cyc.arr # live.arr
    <3>1. heap'[cyc.arr] = heap[cyc.arr]
      BY <1>2, <1>3, <1>5, <2>3
    <3> QED
      BY <2>1, <2>3, <3>1
  <2> QED
    BY <2>2, <2>3
<1>6. ASSUME NEW n \in 0 .. Spare,
             heap' = Append(heap, Padded(Append(Current, new), n)),
             live' = [arr |-> Len(heap) + 1, len |-> live.len + 1]
      PROVE  heap'[cyc.arr] = heap[cyc.arr] /\ cyc.arr # live'.arr
  <2> DEFINE b == Padded(Append(Current, new), n)
  <2>1. new \in Entries /\ Current \in Seq(Entries) /\ n \in Nat
    BY <1>1, OpType, NewEntryType, CurrentType, RequestAssumption
  <2>2. Append(Current, new) \in Seq(Entries)
    BY <2>1, AppendProperties
  <2>3. b \in Seq(Entries)
    BY <2>1, <2>2, PaddedType
  <2>4. heap' = Append(heap, b)
    BY <1>6
  <2> HIDE DEF b
  <2>5. heap'[cyc.arr] = heap[cyc.arr]
    BY <1>2, <1>3, <2>3, <2>4, AppendProperties
  <2>6. live'.arr = Len(heap) + 1
    BY <1>6
  <2> QED
    BY <1>2, <2>5, <2>6
<1> QED
  BY <1>5, <1>6 DEF AddServer

LEMMA UpdateWatching ==
  ASSUME TInv, Watching, NEW r \in Requests, UpdateServer(r),
         cyc.step = "range", cyc.quiet
  PROVE  /\ \A i \in 1 .. cyc.len : heap'[cyc.arr][i].name = heap[cyc.arr][i].name
         /\ cyc.arr = live'.arr => cyc.len <= live'.len
<1>1. Base /\ (cyc.arr = live.arr => cyc.len <= live.len) /\ live' = live
  BY DEF TInv, Watching, UpdateServer
<1>2. /\ cyc.len \in Nat /\ cyc.arr \in 1 .. Len(heap) /\ cyc.len <= Len(heap[cyc.arr])
      /\ live.arr \in 1 .. Len(heap) /\ Len(heap[cyc.arr]) \in Nat
  BY <1>1, CycleType, CurrentType
<1>3. /\ DOMAIN heap = 1 .. Len(heap)
      /\ DOMAIN heap[cyc.arr] = 1 .. Len(heap[cyc.arr])
  BY <1>1, <1>2, HeapType, LenProperties
<1>4. PICK k \in First(req[r].op) :
        heap' = [heap EXCEPT ![live.arr][k] = NewEntry(req[r].op)]
  BY DEF UpdateServer
<1>5. heap[live.arr][k].name = req[r].op.name
  BY <1>4 DEF First
<1>6. NewEntry(req[r].op).name = req[r].op.name
  BY DEF NewEntry
<1>7. CASE cyc.arr = live.arr
  <2>1. heap'[cyc.arr] = [heap[cyc.arr] EXCEPT ![k] = NewEntry(req[r].op)]
    BY <1>2, <1>3, <1>4, <1>7
  <2>2. ASSUME NEW i \in 1 .. cyc.len
        PROVE  heap'[cyc.arr][i].name = heap[cyc.arr][i].name
    <3>1. i \in DOMAIN heap[cyc.arr]
      BY <1>2, <1>3
    <3>2. CASE i = k
      BY <1>5, <1>6, <1>7, <2>1, <3>1, <3>2
    <3>3. CASE i # k
      BY <2>1, <3>1, <3>3
    <3> QED
      BY <3>2, <3>3
  <2> QED
    BY <1>1, <2>2
<1>8. CASE cyc.arr # live.arr
  BY <1>1, <1>2, <1>3, <1>4, <1>8
<1> QED
  BY <1>7, <1>8

LEMMA ApplyWatching ==
  ASSUME TInv, Watching, NEW r \in Requests, Apply(r)
  PROVE  Watching'
<1>1. Handler(r) /\ cyc' = cyc
  BY DEF Handler, Apply, RemoveServer, AddServer, UpdateServer, NotFound,
         UpdateGlobalSettings, EditKeeps
<1>2. CASE ~(cyc.step = "range" /\ cyc.quiet)
  BY <1>1, <1>2, NamesKeep
<1>3. CASE cyc.step = "range" /\ cyc.quiet
  <2>1. ~RemoveServer(r)
    BY <1>3 DEF Watching, RemoveServer, Leave
  <2>2. CASE NotFound(r) \/ UpdateGlobalSettings(r)
    <3>1. heap' = heap /\ live' = live
      BY <2>2 DEF NotFound, UpdateGlobalSettings
    <3> QED
      BY <1>1, <1>3, <3>1, NamesKeep DEF Watching
  <2>3. CASE AddServer(r)
    BY <1>1, <1>3, <2>3, AddWatching, NamesKeep
  <2>4. CASE UpdateServer(r)
    BY <1>1, <1>3, <2>4, UpdateWatching, NamesKeep
  <2> QED
    BY <2>1, <2>2, <2>3, <2>4 DEF Apply
<1> QED
  BY <1>2, <1>3

LEMMA EnterWatching ==
  ASSUME TInv, Watching, NEW r \in Requests, Enter(r)
  PROVE  Watching'
<1>1. Base /\ cyc \in Cycle /\ req \in [Requests -> Record]
  BY CycleType, AllGood DEF TInv
<1>2. PICK op \in Asked :
        /\ req' = [req EXCEPT ![r].step = "inside", ![r].op = op]
        /\ cyc' = [cyc EXCEPT !.quiet = @ /\ (op.kind = "remove" => cyc.step # "range")]
  BY DEF Enter
<1> DEFINE b == cyc.quiet /\ (op.kind = "remove" => cyc.step # "range")
<1>3. cyc' = [cyc EXCEPT !.quiet = b]
  BY <1>2
<1>4. b => cyc.quiet /\ (op.kind = "remove" => cyc.step # "range")
  OBVIOUS
<1> HIDE DEF b
<1>5. /\ cyc'.step = cyc.step /\ cyc'.len = cyc.len /\ cyc'.arr = cyc.arr
      /\ cyc'.polled = cyc.polled /\ cyc'.due = cyc.due /\ cyc'.quiet = b
  BY <1>1, <1>3 DEF Cycle
<1>6. req'[r] = [req[r] EXCEPT !.step = "inside", !.op = op] /\ req[r] \in Record
  BY <1>1, <1>2
<1>7. req'[r].op = op
  BY <1>6 DEF Record
<1>8. \A s \in Requests : s # r => req'[s] = req[s]
  BY <1>1, OthersKeep
<1>9. heap' = heap /\ live' = live
  BY DEF Enter
<1> QED
  BY <1>4, <1>5, <1>7, <1>8, <1>9 DEF Watching

\* What a round reads in a slot has the name the slot had.
LEMMA ReadsName ==
  ASSUME TInv, Watching, cyc.step = "range", cyc.quiet,
         NEW i \in 1 .. cyc.len, NEW e \in Readable(cyc.arr, i)
  PROVE  e.name = cyc.due[i]
<1>1. /\ Base /\ heap[cyc.arr][i].name = cyc.due[i]
      /\ cyc.arr = live.arr => cyc.len <= live.len
      /\ \A r \in Requests : req[r].step = "inside" => req[r].op.kind # "remove"
  BY DEF TInv, Watching
<1>2. /\ cyc.len \in Nat /\ cyc.arr \in 1 .. Len(heap) /\ cyc.len <= Len(heap[cyc.arr])
      /\ Len(heap[cyc.arr]) \in Nat /\ live.len \in Nat
      /\ DOMAIN heap[cyc.arr] = 1 .. Len(heap[cyc.arr])
  BY <1>1, CycleType, CurrentType, HeapType
<1>3. ASSUME NEW w \in Requests, req[w].step = "inside", live.arr = cyc.arr,
             NEW b \in After(req[w].op)
      PROVE  b[i].name = heap[cyc.arr][i].name
  <2>1. req[w].op \in Ops /\ req[w].op.kind # "remove"
    BY <1>1, <1>3, OpType
  <2>2. i \in DOMAIN heap[cyc.arr] /\ i # live.len + 1
    BY <1>1, <1>2, <1>3
  <2>3. CASE req[w].op.kind = "add" /\ Fits
    <3>1. b = [heap[live.arr] EXCEPT ![live.len + 1] = NewEntry(req[w].op)]
      BY <1>3, <2>3 DEF After
    <3> QED
      BY <1>3, <2>2, <3>1
  <2>4. CASE req[w].op.kind = "edit"
    <3>1. PICK k \in First(req[w].op) :
            b = [heap[live.arr] EXCEPT ![k] = NewEntry(req[w].op)]
      BY <1>3, <2>4 DEF After
    <3>2. heap[live.arr][k].name = req[w].op.name
      BY <3>1 DEF First
    <3>3. NewEntry(req[w].op).name = req[w].op.name
      BY DEF NewEntry
    <3>4. CASE i = k
      BY <1>3, <2>2, <3>1, <3>2, <3>3, <3>4
    <3>5. CASE i # k
      BY <1>3, <2>2, <3>1, <3>5
    <3> QED
      BY <3>4, <3>5
  <2>5. CASE req[w].op.kind = "set" \/ (req[w].op.kind = "add" /\ ~Fits)
    BY <1>3, <2>5 DEF After
  <2> QED
    BY <2>1, <2>3, <2>4, <2>5 DEF Ops
<1>4. \A old, new : \A x \in Torn(old, new) : old.name = new.name => x.name = old.name
  BY DEF Torn
<1>5. e.name = heap[cyc.arr][i].name
  BY <1>3, <1>4 DEF Readable
<1> QED
  BY <1>1, <1>5

LEMMA SpawnWatching ==
  ASSUME TInv, Watching, Spawn
  PROVE  Watching'
<1> DEFINE n == Len(cyc.polled)
<1>1. Base /\ cyc \in Cycle /\ n \in Nat /\ cyc.polled \in Seq(Names \cup {Garbage})
  BY CycleType DEF TInv, Cycle
<1>2. n + 1 \in 1 .. cyc.len /\ cyc.step = "range"
  BY <1>1, SpawnBase DEF Spawn
<1>3. PICK e \in Readable(cyc.arr, n + 1) :
        cyc' = [cyc EXCEPT !.polled = Append(@, e.name)] /\ e \in Entries
  BY <1>1, SpawnBase
<1> DEFINE s == Append(cyc.polled, e.name)
<1>4. e.name \in Names \cup {Garbage}
  BY <1>3 DEF Entries
<1>5. /\ Len(s) = n + 1 /\ s[n + 1] = e.name
      /\ \A i \in 1 .. n : s[i] = cyc.polled[i]
  BY <1>1, <1>4, AppendProperties
<1>6. cyc' = [cyc EXCEPT !.polled = s]
  BY <1>3
<1> HIDE DEF s
<1>7. /\ cyc'.step = cyc.step /\ cyc'.len = cyc.len /\ cyc'.arr = cyc.arr
      /\ cyc'.polled = s /\ cyc'.due = cyc.due /\ cyc'.quiet = cyc.quiet
  BY <1>1, <1>6 DEF Cycle
<1>8. cyc.quiet => e.name = cyc.due[n + 1]
  BY <1>2, <1>3, ReadsName
<1>9. cyc.quiet => \A i \in 1 .. n + 1 : s[i] = cyc.due[i]
  <2>1. cyc.quiet => \A i \in 1 .. n : cyc.polled[i] = cyc.due[i]
    BY <1>2 DEF Watching
  <2>2. \A i \in 1 .. n + 1 : i \in 1 .. n \/ i = n + 1
    BY <1>1
  <2> QED
    BY <1>5, <1>8, <2>1, <2>2
<1>10. UNCHANGED <<heap, live, req>>
  BY DEF Spawn, CycleKeeps
<1> QED
  BY <1>2, <1>5, <1>7, <1>9, <1>10 DEF Watching

LEMMA NextWatching ==
  ASSUME TInv, Watching, [Next]_vars
  PROVE  Watching'
<1>1. Base /\ cyc \in Cycle
  BY CycleType DEF TInv
<1>2. ASSUME NEW r \in Requests, Enter(r) \/ Handler(r)
      PROVE  Watching'
  <2>1. CASE Enter(r)
    BY <2>1, EnterWatching
  <2>2. CASE Apply(r)
    BY <2>2, ApplyWatching
  <2>3. CASE SaveConfig(r) \/ Reply(r)
    <3>1. UNCHANGED <<heap, live, cyc>>
      BY <2>3 DEF SaveConfig, Snapshot, Read, Validate, Marshal, Truncate, OpenFails,
                  Write, WriteFails, SaveKeeps, Reply
    <3> QED
      BY <2>3, <3>1, NamesKeep DEF Handler, Watching
  <2> QED
    BY <1>2, <2>1, <2>2, <2>3 DEF Handler
<1>3. CASE BeginCycle
  <2>1. /\ cyc'.step = "range" /\ cyc'.arr = live.arr /\ cyc'.len = live.len
        /\ cyc'.polled = <<>> /\ UNCHANGED <<heap, live, req>>
        /\ cyc'.quiet => \A r \in Requests :
                           req[r].step = "inside" => req[r].op.kind # "remove"
    BY <1>3 DEF BeginCycle, CycleKeeps
  <2>2. \A i \in 1 .. live.len : cyc'.due[i] = heap[live.arr][i].name
    BY <1>1, <1>3, BeginBase
  <2>3. live.len \in Nat /\ Len(cyc'.polled) = 0
    BY <1>1, <2>1, CurrentType
  <2> QED
    BY <2>1, <2>2, <2>3 DEF Watching
<1>4. CASE Spawn
  BY <1>4, SpawnWatching
<1>5. CASE Wait
  <2>1. /\ cyc'.step = "publish" /\ cyc'.len = cyc.len /\ cyc'.polled = cyc.polled
        /\ cyc'.due = cyc.due /\ cyc'.quiet = cyc.quiet
    BY <1>1, <1>5 DEF Wait, Cycle
  <2> QED
    BY <1>5, <2>1 DEF Watching, Wait
<1>6. CASE Update \/ Restart \/ StartFails
  BY <1>6 DEF Update, Restart, StartFails, NoCycle, Watching
<1>7. CASE UNCHANGED vars
  BY <1>7 DEF vars, Watching
<1> QED
  BY <1>2, <1>3, <1>4, <1>5, <1>6, <1>7 DEF Next, Down

\* A round asks every server that was configured when it began, each once and
\* in their order, unless one is removed meanwhile: for any number of
\* handlers, of servers and of edits.
THEOREM PollsAll == Spec => []EveryServerPolled
<1>1. Init => TInv /\ Watching
  BY InitTInv DEF Init, NoCycle, Watching
<1>2. (TInv /\ Watching) /\ [Next]_vars => (TInv /\ Watching)'
  BY NextTInv, NextWatching
<1>3. TInv /\ Watching => EveryServerPolled
  <2> SUFFICES ASSUME TInv, Watching, cyc.step = "publish", cyc.quiet
               PROVE  cyc.polled = cyc.due
    BY DEF EveryServerPolled
  <2>1. /\ cyc.polled \in Seq(Names \cup {Garbage}) /\ cyc.due \in Seq(Names \cup {Garbage})
        /\ Len(cyc.due) = cyc.len
    BY CycleType DEF TInv, Cycle
  <2>2. Len(cyc.polled) = Len(cyc.due)
        /\ \A i \in 1 .. Len(cyc.polled) : cyc.polled[i] = cyc.due[i]
    BY <2>1 DEF Watching
  <2> QED
    BY <2>1, <2>2, SeqEqual
<1> QED
  BY <1>1, <1>2, <1>3, PTL DEF Spec

----------------------------------------------------------------------------
(* Operators who take turns. *)

\* The file can be loaded, or its last write was cut short.
FileFits ==
    \/ Loads(file) /\ file.kind \in {"none", "empty", "whole"}
    \/ file.kind = "partial"

\* How far a save that is alone has got: what it reads is what is live, and
\* what it is about to write has been accepted.
OnTurn(r) ==
    /\ req[r].step \in {"validate", "marshal"} =>
         /\ req[r].copy.arr = live.arr /\ req[r].copy.len = live.len
         /\ \A i \in 1 .. Len(req[r].read) : req[r].read[i] = Current[i]
    /\ req[r].step \in {"marshal", "open", "write"} => Accepted(Current)
    /\ req[r].step \in {"open", "write"} => req[r].read = Current
    /\ req[r].step = "write" => file.kind = "empty"

\* No other request is in progress.
Only(r) == \A s \in Requests : s # r => req[s].step = "idle"

Alone == \A r, s \in Requests : r # s => req[r].step = "idle" \/ req[s].step = "idle"

InTurn ==
    orderly => /\ FileFits
               /\ proc = "down" => file.kind = "partial"
               /\ proc # "down" => Alone /\ \A r \in Requests : OnTurn(r)

\* Handlers run while the process is up, and keep it so.
LEMMA HandlerUp ==
  ASSUME NEW r \in Requests, Handler(r)
  PROVE  proc = "up" /\ proc' = "up"
BY DEF Handler, Apply, RemoveServer, AddServer, UpdateServer, NotFound,
       UpdateGlobalSettings, EditKeeps, Leave, SaveConfig, Snapshot, Read, Validate,
       Marshal, Truncate, OpenFails, Write, WriteFails, SaveKeeps, Step, Reply

\* A request that is alone makes a step.
LEMMA TurnStep ==
  ASSUME Base, InTurn, orderly', orderly, NEW r \in Requests, req[r].step # "idle",
         Handler(r), FileFits', OnTurn(r)'
  PROVE  InTurn'
<1>1. \A s \in Requests : s # r => req[s].step = "idle" /\ req'[s] = req[s]
  BY HandlerUp, OthersKeep DEF InTurn, Alone
<1>2. Alone'
  BY <1>1 DEF Alone
<1>3. \A s \in Requests : s # r => OnTurn(s)'
  BY <1>1 DEF OnTurn
<1>4. proc' = "up"
  BY HandlerUp
<1> QED
  BY <1>2, <1>3, <1>4 DEF InTurn

\* A save that is alone has read the whole list.
LEMMA ReadWhole ==
  ASSUME Base, NEW r \in Requests, OnTurn(r), ReadAll(r),
         req[r].step \in {"validate", "marshal"}
  PROVE  req[r].read = Current
<1>1. req[r].read \in Seq(Entries) /\ Current \in Seq(Entries) /\ Len(Current) = live.len
  BY CurrentType, AllGood DEF Record
<1>2. Len(req[r].read) = live.len
      /\ \A i \in 1 .. Len(req[r].read) : req[r].read[i] = Current[i]
  BY DEF OnTurn, ReadAll
<1> QED
  BY <1>1, <1>2, SeqEqual

LEMMA ReadTurn ==
  ASSUME TInv, NEW r \in Requests, Only(r), OnTurn(r), Read(r)
  PROVE  OnTurn(r)'
<1> DEFINE n == Len(req[r].read)
<1>1. Base /\ req[r] \in Record /\ req \in [Requests -> Record] /\ n \in Nat
      /\ req[r].read \in Seq(Entries)
  BY AllGood, LenProperties DEF TInv, Record
<1>2. /\ req[r].step \in {"validate", "marshal"} /\ n < req[r].copy.len
      /\ UNCHANGED <<heap, live, file, orderly>>
  BY DEF Read, SaveKeeps
<1>3. /\ OnTurn(r) /\ req[r].copy.arr = live.arr /\ req[r].copy.len = live.len
      /\ live.len \in Nat
  BY <1>1, <1>2, CurrentType DEF OnTurn
<1>4. \A w \in Requests : req[w].step # "inside"
  BY <1>2 DEF Only
<1>5. Readable(live.arr, n + 1) = {heap[live.arr][n + 1]}
  BY <1>4 DEF Readable
<1>6. n + 1 \in 1 .. live.len
  BY <1>1, <1>2, <1>3
<1>7. Current[n + 1] = heap[live.arr][n + 1] /\ Current[n + 1] \in Entries
  BY <1>1, <1>6, CurrentType, ElementOfSeq
<1>8. req' = [req EXCEPT ![r].read = Append(@, Current[n + 1])]
  BY <1>3, <1>5, <1>7 DEF Read
<1> DEFINE s == Append(req[r].read, Current[n + 1])
<1>9. Len(s) = n + 1 /\ s[n + 1] = Current[n + 1]
      /\ \A i \in 1 .. n : s[i] = req[r].read[i]
  BY <1>1, <1>7, AppendProperties
<1>10. req'[r] = [req[r] EXCEPT !.read = s]
  BY <1>1, <1>8
<1> HIDE DEF s
<1>11. req'[r].read = s /\ req'[r].step = req[r].step /\ req'[r].copy = req[r].copy
  BY <1>1, <1>10 DEF Record
<1>12. \A i \in 1 .. n + 1 : s[i] = Current[i]
  <2>1. \A i \in 1 .. n : req[r].read[i] = Current[i]
    BY <1>2, <1>3 DEF OnTurn
  <2>2. \A i \in 1 .. n + 1 : i \in 1 .. n \/ i = n + 1
    BY <1>1
  <2> QED
    BY <1>9, <2>1, <2>2
<1>13. Current' = Current
  BY <1>2 DEF Current
<1> QED
  BY <1>2, <1>3, <1>9, <1>11, <1>12, <1>13 DEF OnTurn

LEMMA SaveTurn ==
  ASSUME TInv, NEW r \in Requests, Only(r), OnTurn(r), SaveConfig(r)
  PROVE  /\ OnTurn(r)'
         /\ orderly /\ FileFits => (orderly' => FileFits')
<1>1. Base /\ req[r] \in Record /\ req \in [Requests -> Record] /\ Unread
  BY AllGood DEF TInv
<1>4. heap' = heap /\ live' = live /\ Current' = Current
  BY DEF SaveConfig, Snapshot, Read, Validate, Marshal, Truncate, OpenFails, Write,
         WriteFails, SaveKeeps, Current
<1>5. CASE Snapshot(r)
  <2> DEFINE c == [arr |-> live.arr, len |-> live.len, glob |-> glob]
  <2>1. req'[r] = [req[r] EXCEPT !.step = "validate", !.copy = c]
        /\ req[r].step = "snapshot" /\ UNCHANGED <<file, orderly>>
    BY <1>1, <1>5 DEF Snapshot
  <2>2. c.arr = live.arr /\ c.len = live.len
    OBVIOUS
  <2> HIDE DEF c
  <2>3. req'[r].step = "validate" /\ req'[r].copy = c /\ req'[r].read = <<>>
    BY <1>1, <2>1 DEF Record, Unread
  <2>4. Len(<<>>) = 0
    BY EmptySeq
  <2>5. OnTurn(r)'
    BY <1>4, <2>2, <2>3, <2>4 DEF OnTurn
  <2> QED
    BY <2>1, <2>5 DEF FileFits
<1>6. CASE Read(r)
  <2>1. UNCHANGED <<file, orderly>>
    BY <1>6 DEF Read
  <2> QED
    BY <1>6, <2>1, ReadTurn DEF FileFits
<1>7. CASE Validate(r)
  <2> DEFINE to == IF Accepted(req[r].read) THEN "marshal" ELSE "done"
  <2>1. req'[r] = [req[r] EXCEPT !.step = to, !.read = <<>>]
        /\ req[r].step = "validate" /\ ReadAll(r) /\ UNCHANGED <<file, orderly>>
    BY <1>1, <1>7 DEF Validate
  <2>2. req[r].read = Current
    BY <1>1, <2>1, ReadWhole
  <2>3. to = "done" \/ (to = "marshal" /\ Accepted(Current))
    BY <2>2
  <2> HIDE DEF to
  <2>4. req'[r].step = to /\ req'[r].copy = req[r].copy /\ req'[r].read = <<>>
    BY <1>1, <2>1 DEF Record
  <2>5. Len(<<>>) = 0
    BY EmptySeq
  <2>6. OnTurn(r)'
    BY <1>4, <2>1, <2>3, <2>4, <2>5 DEF OnTurn
  <2> QED
    BY <2>1, <2>6 DEF FileFits
<1>8. CASE Marshal(r)
  <2>1. req'[r] = [req[r] EXCEPT !.step = "open"]
        /\ req[r].step = "marshal" /\ ReadAll(r) /\ UNCHANGED <<file, orderly>>
    BY <1>1, <1>8 DEF Marshal, Step
  <2>2. req[r].read = Current
    BY <1>1, <2>1, ReadWhole
  <2>3. req'[r].step = "open" /\ req'[r].read = req[r].read
    BY <1>1, <2>1 DEF Record
  <2>4. OnTurn(r)'
    BY <1>4, <2>1, <2>2, <2>3 DEF OnTurn
  <2> QED
    BY <2>1, <2>4 DEF FileFits
<1>9. CASE Truncate(r)
  <2>1. req'[r] = [req[r] EXCEPT !.step = "write"] /\ req[r].step = "open"
        /\ file'.kind = "empty" /\ orderly' = orderly
    BY <1>1, <1>9 DEF Truncate, Step
  <2>2. req'[r].step = "write" /\ req'[r].read = req[r].read
    BY <1>1, <2>1 DEF Record
  <2>3. OnTurn(r)'
    BY <1>4, <2>1, <2>2 DEF OnTurn
  <2> QED
    BY <2>1, <2>3 DEF FileFits, Loads
<1>10. CASE OpenFails(r)
  <2>1. req'[r] = [req[r] EXCEPT !.step = "done"] /\ req[r].step = "open"
        /\ UNCHANGED <<file, orderly>>
    BY <1>1, <1>10 DEF OpenFails, Step
  <2>2. req'[r].step = "done"
    BY <1>1, <2>1 DEF Record
  <2>3. OnTurn(r)'
    BY <2>2 DEF OnTurn
  <2> QED
    BY <2>1, <2>3 DEF FileFits
<1>11. CASE Write(r)
  <2>0. Writers = {r}
    BY <1>11 DEF Write, Writers, Only
  <2>1. req'[r] = [req[r] EXCEPT !.step = "done", !.saved = TRUE]
        /\ req[r].step = "write" /\ orderly' = orderly
    BY <1>1, <1>11 DEF Write
  <2>2. file.kind = "empty" /\ req[r].read = Current /\ Accepted(Current)
    BY <2>1 DEF OnTurn
  <2>3. file' = [kind |-> "whole", list |-> Current, glob |-> req[r].copy.glob]
    BY <1>11, <2>0, <2>2 DEF Write
  <2>4. FileFits'
    BY <2>2, <2>3 DEF FileFits, Loads
  <2>5. req'[r].step = "done"
    BY <1>1, <2>1 DEF Record
  <2>6. OnTurn(r)'
    BY <2>5 DEF OnTurn
  <2> QED
    BY <2>4, <2>6
<1>12. CASE WriteFails(r)
  <2>1. req'[r] = [req[r] EXCEPT !.step = "done"]
    BY <1>1, <1>12 DEF WriteFails, Step
  <2>2. file'.kind = "partial"
    BY <1>1, <1>12, CutType DEF WriteFails
  <2>3. req'[r].step = "done"
    BY <1>1, <2>1 DEF Record
  <2>4. OnTurn(r)'
    BY <2>3 DEF OnTurn
  <2> QED
    BY <2>2, <2>4 DEF FileFits
<1> QED
  BY <1>5, <1>6, <1>7, <1>8, <1>9, <1>10, <1>11, <1>12 DEF SaveConfig

\* A request that is alone stays on its way, whatever step it makes.
LEMMA StaysOnTurn ==
  ASSUME TInv, NEW r \in Requests, Only(r), OnTurn(r), Handler(r)
  PROVE  /\ OnTurn(r)'
         /\ orderly /\ FileFits => (orderly' => FileFits')
<1>1. Base
  BY DEF TInv
<1>2. CASE Apply(r)
  <2>1. UNCHANGED <<file, orderly>> /\ req[r].step = "inside"
    BY <1>2 DEF Apply, RemoveServer, AddServer, UpdateServer, NotFound,
                UpdateGlobalSettings, EditKeeps, Leave
  <2>2. ASSUME NEW to \in {"snapshot", "done"}, Leave(r, to)
        PROVE  req'[r].step \in {"snapshot", "done"}
    <3>1. req'[r] = [req[r] EXCEPT !.step = to, !.op = NoOp] /\ req[r] \in Record
      BY <1>1, <2>2, AllGood DEF Leave
    <3> QED
      BY <3>1 DEF Record
  <2>3. req'[r].step \in {"snapshot", "done"}
    BY <1>2, <2>2 DEF Apply, RemoveServer, AddServer, UpdateServer, NotFound,
                      UpdateGlobalSettings
  <2> QED
    BY <2>1, <2>3 DEF OnTurn, FileFits
<1>3. CASE SaveConfig(r)
  BY <1>3, SaveTurn
<1>4. CASE Reply(r)
  <2>1. UNCHANGED <<file, orderly>> /\ req'[r].step = "idle"
    BY <1>1, <1>4, AllGood DEF Reply, NoRequest
  <2> QED
    BY <2>1 DEF OnTurn, FileFits
<1> QED
  BY <1>2, <1>3, <1>4 DEF Handler

LEMMA HandlerTurn ==
  ASSUME TInv, InTurn, orderly, NEW r \in Requests, Handler(r)
  PROVE  InTurn'
<1>1. Base /\ FileFits /\ OnTurn(r)
  BY HandlerUp DEF TInv, InTurn
<1>2. req[r].step # "idle"
  BY DEF Handler, Apply, RemoveServer, AddServer, UpdateServer, NotFound,
         UpdateGlobalSettings, Leave, SaveConfig, Snapshot, Read, Validate, Marshal,
         Truncate, OpenFails, Write, WriteFails, Step, Reply
<1>3. Only(r)
  BY <1>2, HandlerUp DEF InTurn, Alone, Only
<1>4. OnTurn(r)' /\ (orderly' => FileFits')
  BY <1>1, <1>3, StaysOnTurn
<1>5. CASE orderly'
  BY <1>1, <1>2, <1>4, <1>5, TurnStep
<1>6. CASE ~orderly'
  BY <1>6 DEF InTurn
<1> QED
  BY <1>5, <1>6

LEMMA EnterTurn ==
  ASSUME TInv, InTurn, NEW r \in Requests, Enter(r)
  PROVE  InTurn'
<1>1. Base /\ req \in [Requests -> Record]
  BY AllGood DEF TInv
<1>2. orderly' => orderly /\ AllIdle
  BY DEF Enter
<1>3. \A s \in Requests : s # r => req'[s] = req[s]
  BY <1>1, OthersKeep
<1>4. req'[r].step = "inside"
  <2>1. PICK op \in Asked : req' = [req EXCEPT ![r].step = "inside", ![r].op = op]
    BY DEF Enter
  <2>2. req'[r] = [req[r] EXCEPT !.step = "inside", !.op = op] /\ req[r] \in Record
    BY <1>1, <2>1
  <2> QED
    BY <2>2 DEF Record
<1>5. orderly' => Alone' /\ \A s \in Requests : OnTurn(s)'
  BY <1>2, <1>3, <1>4 DEF AllIdle, Alone, OnTurn
<1>6. proc = "up" /\ UNCHANGED <<proc, file>>
  BY DEF Enter
<1> QED
  BY <1>2, <1>5, <1>6 DEF InTurn, FileFits, Loads

LEMMA NextInTurn ==
  ASSUME TInv, InTurn, [Next]_vars
  PROVE  InTurn'
<1>1. ASSUME NEW r \in Requests, Enter(r) \/ Handler(r)
      PROVE  InTurn'
  <2>1. CASE Enter(r)
    BY <2>1, EnterTurn
  <2>2. CASE Handler(r) /\ orderly
    BY <2>2, HandlerTurn
  <2>3. CASE Handler(r) /\ ~orderly
    <3>1. ~orderly'
      BY <2>3 DEF Handler, Apply, RemoveServer, AddServer, UpdateServer, NotFound,
             UpdateGlobalSettings, EditKeeps, SaveConfig, Snapshot, Read, Validate,
             Marshal, Truncate, OpenFails, Write, WriteFails, SaveKeeps, Reply
    <3> QED
      BY <3>1 DEF InTurn
  <2> QED
    BY <1>1, <2>1, <2>2, <2>3
<1>2. CASE BeginCycle \/ Spawn \/ Wait \/ Update \/ UNCHANGED vars
  <2>1. UNCHANGED <<proc, heap, live, req, file, orderly>>
    BY <1>2 DEF BeginCycle, Spawn, Wait, Update, CycleKeeps, vars
  <2>2. Current' = Current
    BY <2>1 DEF Current
  <2> QED
    BY <2>1, <2>2 DEF InTurn, FileFits, Alone, OnTurn
<1>3. CASE Restart
  <2>1. UNCHANGED <<proc, orderly>> /\ proc = "up" /\ \A r \in Requests : req'[r].step = "idle"
    BY <1>3 DEF Restart, NoRequest
  <2>2. file' = file \/ file'.kind = "partial"
    BY <1>3, LeftType DEF TInv, Restart
  <2>3. FileFits => FileFits'
    BY <2>2 DEF FileFits
  <2> QED
    BY <2>1, <2>3 DEF InTurn, Alone, OnTurn
<1>4. CASE StartFails
  <2>1. orderly' = orderly /\ proc' = "down"
        /\ (file'.kind \in {"mixed", "partial"} \/ ~Loads(file'))
    BY <1>4 DEF StartFails
  <2>2. file' = file \/ file'.kind = "partial"
    BY <1>4, LeftType DEF TInv, StartFails
  <2>3. FileFits => file'.kind = "partial"
    BY <2>1, <2>2 DEF FileFits
  <2> QED
    BY <2>1, <2>3 DEF InTurn, FileFits
<1> QED
  BY <1>1, <1>2, <1>3, <1>4 DEF Next, Down

\* Operators who take turns, whatever they enter and wherever the process ends,
\* keep WatchSSH from starting again only if the last write of the file was cut
\* short: for any number of operators, of servers and of edits.
THEOREM RestartsInTurn == Spec => []StartsAgain
<1>1. ASSUME Init PROVE TInv /\ InTurn
  <2>1. FirstFile.kind \in {"none", "empty", "whole"} /\ Loads(FirstFile)
    BY FileAssumption DEF Loads
  <2>2. \A r \in Requests : req[r].step = "idle"
    BY <1>1 DEF Init, NoRequest
  <2>3. proc = "up" /\ FileFits
    BY <1>1, <2>1 DEF Init, FileFits
  <2> QED
    BY <1>1, <2>2, <2>3, InitTInv DEF InTurn, Alone, OnTurn
<1>2. (TInv /\ InTurn) /\ [Next]_vars => (TInv /\ InTurn)'
  BY NextTInv, NextInTurn
<1>3. TInv /\ InTurn => StartsAgain
  BY DEF InTurn, StartsAgain
<1> QED
  BY <1>1, <1>2, <1>3, PTL DEF Spec

----------------------------------------------------------------------------
(* The configuration that is kept for a restart. *)

\* What a request that is alone saves is what is in effect.
Holds(r) ==
    /\ req[r].step \in {"validate", "marshal", "open", "write"} => req[r].copy.glob = glob
    /\ req[r].saved => file = [kind |-> "whole", list |-> Current, glob |-> glob]

Exclusive ==
    /\ \A r \in Requests : req[r].saved => req[r].step = "done"
    /\ sole = "saved" => AllIdle
    /\ \A r \in Requests :
         sole = r => req[r].step # "idle" /\ Only(r) /\ OnTurn(r) /\ Holds(r)

LEMMA EnterExclusive ==
  ASSUME TInv, Exclusive, NEW r \in Requests, Enter(r)
  PROVE  Exclusive'
<1>1. Base /\ req \in [Requests -> Record] /\ req[r] \in Record
  BY AllGood DEF TInv
<1>2. PICK op \in Asked : req' = [req EXCEPT ![r].step = "inside", ![r].op = op]
  BY DEF Enter
<1>3. req'[r] = [req[r] EXCEPT !.step = "inside", !.op = op]
  BY <1>1, <1>2
<1>4. req'[r].step = "inside" /\ req'[r].saved = req[r].saved
  BY <1>1, <1>3 DEF Record
<1>5. ~req[r].saved
  BY DEF Enter, Exclusive
<1>6. \A s \in Requests : s # r => req'[s] = req[s]
  BY <1>1, OthersKeep
<1>7. sole' = (IF AllIdle THEN r ELSE "nobody") /\ r \notin {"saved", "nobody"}
  BY RequestAssumption DEF Enter
<1>8. "nobody" \notin Requests
  BY RequestAssumption
<1>9. AllIdle => Only(r)'
  BY <1>6 DEF AllIdle, Only
<1>10. OnTurn(r)' /\ Holds(r)'
  BY <1>4, <1>5 DEF OnTurn, Holds
<1>11. \A s \in Requests : req'[s].saved => req'[s].step = "done"
  BY <1>4, <1>5, <1>6 DEF Exclusive
<1>12. \A s \in Requests : sole' = s => s = r /\ AllIdle
  BY <1>7, <1>8
<1> QED
  BY <1>4, <1>7, <1>9, <1>10, <1>11, <1>12 DEF Exclusive

\* A request counts as saved once it has written, until its reply.
LEMMA HandlerSaved ==
  ASSUME TInv, Exclusive, NEW r \in Requests, Handler(r)
  PROVE  /\ req[r].step # "idle"
         /\ req'[r].saved => Write(r) /\ req'[r].step = "done"
         /\ req'[r].step = "idle" => Reply(r)
<1>1. Base /\ req \in [Requests -> Record] /\ req[r] \in Record
  BY AllGood DEF TInv
<1>2. req[r].saved => req[r].step = "done"
  BY DEF Exclusive
<1>3. ASSUME NEW to \in ReqSteps \ {"idle"}, Leave(r, to)
      PROVE  req[r].step = "inside" /\ ~req'[r].saved /\ req'[r].step # "idle"
  <2>1. req'[r] = [req[r] EXCEPT !.step = to, !.op = NoOp] /\ req[r].step = "inside"
    BY <1>1, <1>3 DEF Leave
  <2> QED
    BY <1>1, <1>2, <2>1 DEF Record
<1>4. CASE Apply(r)
  <2>1. Leave(r, "snapshot") \/ Leave(r, "done")
    BY <1>4 DEF Apply, RemoveServer, AddServer, UpdateServer, NotFound,
                UpdateGlobalSettings
  <2> QED
    BY <1>3, <2>1 DEF ReqSteps
<1>5. CASE Snapshot(r)
  <2>1. req'[r] = [req[r] EXCEPT !.step = "validate",
                     !.copy = [arr |-> live.arr, len |-> live.len, glob |-> glob]]
        /\ req[r].step = "snapshot"
    BY <1>1, <1>5 DEF Snapshot
  <2> QED
    BY <1>1, <1>2, <2>1 DEF Record
<1>6. CASE Read(r)
  <2>1. PICK e : req' = [req EXCEPT ![r].read = Append(@, e)]
    BY <1>6 DEF Read
  <2> DEFINE s == Append(req[r].read, e)
  <2>2. req'[r] = [req[r] EXCEPT !.read = s] /\ req[r].step \in {"validate", "marshal"}
    BY <1>1, <1>6, <2>1 DEF Read
  <2> HIDE DEF s
  <2> QED
    BY <1>1, <1>2, <2>2 DEF Record
<1>7. CASE Validate(r)
  <2> DEFINE to == IF Accepted(req[r].read) THEN "marshal" ELSE "done"
  <2>1. req'[r] = [req[r] EXCEPT !.step = to, !.read = <<>>] /\ req[r].step = "validate"
    BY <1>1, <1>7 DEF Validate
  <2>2. to \in {"marshal", "done"}
    OBVIOUS
  <2> HIDE DEF to
  <2> QED
    BY <1>1, <1>2, <2>1, <2>2 DEF Record
<1>8. CASE Marshal(r) \/ Truncate(r) \/ OpenFails(r) \/ WriteFails(r)
  <2>1. PICK to \in {"open", "write", "done"} :
          req' = [req EXCEPT ![r].step = to] /\ req[r].step \in {"marshal", "open", "write"}
    BY <1>8 DEF Marshal, Truncate, OpenFails, WriteFails, Step
  <2>2. req'[r] = [req[r] EXCEPT !.step = to]
    BY <1>1, <2>1
  <2> QED
    BY <1>1, <1>2, <2>1, <2>2 DEF Record
<1>9. CASE Write(r)
  <2>1. req'[r] = [req[r] EXCEPT !.step = "done", !.saved = TRUE] /\ req[r].step = "write"
    BY <1>1, <1>9 DEF Write
  <2> QED
    BY <1>1, <1>9, <2>1 DEF Record
<1>10. CASE Reply(r)
  <2>1. req'[r] = NoRequest /\ req[r].step = "done"
    BY <1>1, <1>10 DEF Reply
  <2> QED
    BY <1>10, <2>1 DEF NoRequest
<1> QED
  BY <1>4, <1>5, <1>6, <1>7, <1>8, <1>9, <1>10 DEF Handler, SaveConfig

LEMMA HandlerHolds ==
  ASSUME TInv, Exclusive, NEW r \in Requests, Only(r), OnTurn(r), Holds(r), Handler(r)
  PROVE  Holds(r)'
<1>1. Base /\ req \in [Requests -> Record] /\ req[r] \in Record
  BY AllGood DEF TInv
<1>2. req'[r].saved => Write(r) /\ req'[r].step = "done"
  BY HandlerSaved
<1>3. CASE Write(r)
  <2>1. file.kind = "empty" /\ req[r].read = Current /\ req[r].copy.glob = glob
        /\ Writers = {r}
    BY <1>3 DEF Write, OnTurn, Holds, Only, Writers
  <2>2. file' = [kind |-> "whole", list |-> Current, glob |-> glob]
        /\ UNCHANGED <<heap, live, glob>>
    BY <1>3, <2>1 DEF Write, SaveKeeps
  <2>3. Current' = Current
    BY <2>2 DEF Current
  <2>4. req'[r] = [req[r] EXCEPT !.step = "done", !.saved = TRUE]
    BY <1>1, <1>3 DEF Write
  <2>5. req'[r].step = "done"
    BY <1>1, <2>4 DEF Record
  <2> QED
    BY <2>2, <2>3, <2>5 DEF Holds
<1>4. CASE ~Write(r)
  <2> SUFFICES ASSUME req'[r].step \in {"validate", "marshal", "open", "write"}
               PROVE  req'[r].copy.glob = glob'
    BY <1>2, <1>4 DEF Holds
  <2>1. CASE Snapshot(r)
    <3> DEFINE c == [arr |-> live.arr, len |-> live.len, glob |-> glob]
    <3>1. req'[r] = [req[r] EXCEPT !.step = "validate", !.copy = c] /\ glob' = glob
      BY <1>1, <2>1 DEF Snapshot, SaveKeeps
    <3>2. c.glob = glob
      OBVIOUS
    <3> HIDE DEF c
    <3> QED
      BY <1>1, <3>1, <3>2 DEF Record
  <2>2. CASE Read(r) \/ Validate(r) \/ Marshal(r) \/ Truncate(r)
    <3>1. req'[r].copy = req[r].copy /\ glob' = glob
          /\ req[r].step \in {"validate", "marshal", "open"}
      BY <1>1, <2>2 DEF Read, Validate, Marshal, Truncate, Step, SaveKeeps, Record
    <3> QED
      BY <3>1 DEF Holds
  <2>3. CASE Apply(r) \/ OpenFails(r) \/ WriteFails(r) \/ Reply(r)
    <3>1. PICK to \in {"snapshot", "done", "idle"} : req'[r].step = to
      BY <1>1, <2>3 DEF Apply, RemoveServer, AddServer, UpdateServer, NotFound, Leave,
        UpdateGlobalSettings, OpenFails, WriteFails, Step, Reply, NoRequest, Record
    <3> QED
      BY <3>1
  <2> QED
    BY <1>4, <2>1, <2>2, <2>3 DEF Handler, SaveConfig
<1> QED
  BY <1>3, <1>4

LEMMA HandlerExclusive ==
  ASSUME TInv, Exclusive, NEW r \in Requests, Handler(r)
  PROVE  Exclusive'
<1>1. Base
  BY DEF TInv
<1>2. /\ req[r].step # "idle"
      /\ req'[r].saved => req'[r].step = "done"
      /\ req'[r].step = "idle" => Reply(r)
  BY HandlerSaved
<1>3. \A s \in Requests : s # r => req'[s] = req[s]
  BY <1>1, OthersKeep
<1>4. sole # "saved"
  BY <1>2 DEF Exclusive, AllIdle
<1>5. ASSUME NEW s \in Requests, sole = s
      PROVE  s = r /\ Only(r) /\ OnTurn(r) /\ Holds(r)
  BY <1>2, <1>5 DEF Exclusive, Only
<1>6. \A s \in Requests : req'[s].saved => req'[s].step = "done"
  BY <1>2, <1>3 DEF Exclusive
<1>7. CASE Reply(r)
  <2>1. /\ req'[r].step = "idle"
        /\ sole' = IF sole = r THEN (IF req[r].saved THEN "saved" ELSE "nobody") ELSE sole
    BY <1>1, <1>7, AllGood DEF Reply, NoRequest
  <2>2. sole' \notin Requests
    BY <1>5, <2>1, RequestAssumption
  <2>3. sole' = "saved" => sole = r
    BY <1>4, <2>1
  <2>4. sole' = "saved" => AllIdle'
    BY <1>3, <1>5, <2>1, <2>3 DEF Only, AllIdle
  <2> QED
    BY <1>6, <2>2, <2>4 DEF Exclusive
<1>8. CASE ~Reply(r)
  <2>1. sole' = sole
    BY <1>8 DEF Handler, Apply, RemoveServer, AddServer, UpdateServer, NotFound,
       UpdateGlobalSettings, EditKeeps, SaveConfig, Snapshot, Read, Validate, Marshal,
       Truncate, OpenFails, Write, WriteFails, SaveKeeps
  <2>2. ASSUME NEW s \in Requests, sole' = s
        PROVE  req'[s].step # "idle" /\ Only(s)' /\ OnTurn(s)' /\ Holds(s)'
    <3>1. s = r /\ Only(r) /\ OnTurn(r) /\ Holds(r)
      BY <1>5, <2>1, <2>2
    <3>2. OnTurn(r)' /\ Holds(r)'
      BY <3>1, StaysOnTurn, HandlerHolds
    <3>3. Only(r)'
      BY <1>3, <3>1 DEF Only
    <3> QED
      BY <1>2, <1>8, <3>1, <3>2, <3>3
  <2> QED
    BY <1>4, <1>6, <2>1, <2>2 DEF Exclusive
<1> QED
  BY <1>7, <1>8

LEMMA NextExclusive ==
  ASSUME TInv, Exclusive, [Next]_vars
  PROVE  Exclusive'
<1>1. ASSUME NEW r \in Requests, Enter(r) \/ Handler(r)
      PROVE  Exclusive'
  BY <1>1, EnterExclusive, HandlerExclusive
<1>2. CASE BeginCycle \/ Spawn \/ Wait \/ Update \/ UNCHANGED vars
  <2>1. UNCHANGED <<heap, live, glob, req, file, sole>>
    BY <1>2 DEF BeginCycle, Spawn, Wait, Update, CycleKeeps, vars
  <2>2. Current' = Current
    BY <2>1 DEF Current
  <2> QED
    BY <2>1, <2>2 DEF Exclusive, AllIdle, Only, OnTurn, Holds
<1>3. CASE Restart \/ StartFails
  <2>1. sole' \in {"saved", "nobody"} /\ \A r \in Requests : req'[r] = NoRequest
    BY <1>3 DEF Restart, StartFails
  <2>2. NoRequest.step = "idle" /\ NoRequest.saved = FALSE
    BY DEF NoRequest
  <2>3. \A r \in Requests : sole' # r
    BY <2>1, RequestAssumption
  <2> QED
    BY <2>1, <2>2, <2>3 DEF Exclusive, AllIdle
<1> QED
  BY <1>1, <1>2, <1>3 DEF Next, Down

----------------------------------------------------------------------------
(* What the operators see of an edit, whatever happens to the array. *)

\* The live list after a step, when the new array is known.
LEMMA CurrentIs ==
  ASSUME Base, NEW b \in Seq(Entries), NEW list \in Seq(Entries),
         heap'[live'.arr] = b, live'.len = Len(list),
         \A i \in 1 .. Len(list) : b[i] = list[i]
  PROVE  Current' = list
<1>1. Current' = [i \in 1 .. Len(list) |-> b[i]]
  BY DEF Current
<1>2. list = [i \in 1 .. Len(list) |-> list[i]]
  BY Indices
<1> QED
  BY <1>1, <1>2

LEMMA RemoveCurrent ==
  ASSUME Base, NEW r \in Requests, RemoveServer(r)
  PROVE  Current' \in Without(Current, req[r].op.name) /\ UNCHANGED glob
<1>1. PICK list \in Without(Current, req[r].op.name) :
        /\ heap' = [heap EXCEPT ![live.arr] = Compacted(list)]
        /\ live' = [live EXCEPT !.len = Len(list)]
  BY DEF RemoveServer
<1>2. /\ Current \in Seq(Entries) /\ Len(Current) = live.len /\ live.len \in Nat
      /\ live.arr \in 1 .. Len(heap) /\ live.len <= Len(heap[live.arr])
  BY CurrentType
<1>3. list \in Seq(Entries) /\ Len(list) <= live.len /\ Len(list) \in Nat
  BY <1>1, <1>2, KeptType, Indices DEF Without
<1>4. Compacted(list) \in Seq(Entries) /\ Len(Compacted(list)) = Len(heap[live.arr])
  BY <1>3, CompactedType
<1>5. heap'[live.arr] = Compacted(list)
  BY <1>1, <1>4, Replaced
<1>6. live'.arr = live.arr /\ live'.len = Len(list)
  BY <1>1 DEF Base, TypeOK
<1>7. DOMAIN heap[live.arr] = 1 .. Len(heap[live.arr]) /\ Len(heap[live.arr]) \in Nat
  BY <1>2, HeapType
<1>8. \A i \in 1 .. Len(list) : Compacted(list)[i] = list[i]
  BY <1>2, <1>3, <1>7 DEF Compacted
<1>9. Current' = list
  BY <1>3, <1>4, <1>5, <1>6, <1>8, CurrentIs
<1> QED
  BY <1>1, <1>9 DEF RemoveServer

LEMMA UpdateCurrent ==
  ASSUME Base, NEW r \in Requests, UpdateServer(r)
  PROVE  /\ \E i \in DOMAIN Current : \E e \in Entries :
              e.name = Current[i].name /\ Current' = [Current EXCEPT ![i] = e]
         /\ UNCHANGED glob
<1>1. PICK i \in First(req[r].op) :
        heap' = [heap EXCEPT ![live.arr][i] = NewEntry(req[r].op)]
  BY DEF UpdateServer
<1>2. /\ Current \in Seq(Entries) /\ Len(Current) = live.len /\ live.len \in Nat
      /\ live.arr \in 1 .. Len(heap) /\ live.len <= Len(heap[live.arr])
      /\ \A k \in 1 .. live.len : Current[k] = heap[live.arr][k]
  BY CurrentType
<1>3. heap[live.arr] \in Seq(Entries) /\ Len(heap[live.arr]) \in Nat
  BY <1>2, HeapType
<1>4. i \in 1 .. live.len /\ heap[live.arr][i].name = req[r].op.name
  BY <1>1 DEF First
<1>5. i \in 1 .. Len(heap[live.arr])
  BY <1>2, <1>3, <1>4
<1> DEFINE e == NewEntry(req[r].op)
           b == [heap[live.arr] EXCEPT ![i] = e]
           list == [Current EXCEPT ![i] = e]
<1>6. e \in Entries /\ e.name = req[r].op.name
  BY OpType, NewEntryType DEF NewEntry
<1>7. heap' = [heap EXCEPT ![live.arr] = b]
  BY <1>1
<1> HIDE DEF e
<1>8. /\ b \in Seq(Entries) /\ Len(b) = Len(heap[live.arr])
      /\ \A k \in 1 .. Len(b) : b[k] = IF k = i THEN e ELSE heap[live.arr][k]
  BY <1>3, <1>5, <1>6, ExceptSeq
<1>9. /\ list \in Seq(Entries) /\ Len(list) = live.len
      /\ \A k \in 1 .. live.len : list[k] = IF k = i THEN e ELSE Current[k]
  BY <1>2, <1>4, <1>6, ExceptSeq
<1>10. heap'[live.arr] = b
  <2> HIDE DEF b, list
  <2> QED BY <1>7, <1>8, Replaced
<1>11. live' = live
  BY DEF UpdateServer
<1> HIDE DEF b, list
<1>12. \A k \in 1 .. Len(list) : b[k] = list[k]
  BY <1>2, <1>3, <1>8, <1>9
<1>13. Current' = list
  BY <1>8, <1>9, <1>10, <1>11, <1>12, CurrentIs
<1>14. i \in DOMAIN Current /\ e.name = Current[i].name
  BY <1>2, <1>4, <1>6, Indices
<1>15. UNCHANGED glob
  BY DEF UpdateServer
<1> QED
  BY <1>6, <1>13, <1>14, <1>15 DEF list

LEMMA AddCurrent ==
  ASSUME Base, NEW r \in Requests, AddServer(r)
  PROVE  (\E e \in Entries : Current' = Append(Current, e)) /\ UNCHANGED glob
<1> DEFINE e == NewEntry(req[r].op)
           list == Append(Current, e)
<1>1. e \in Entries
  BY OpType, NewEntryType
<1>2. /\ Current \in Seq(Entries) /\ Len(Current) = live.len /\ live.len \in Nat
      /\ live.arr \in 1 .. Len(heap) /\ live.len <= Len(heap[live.arr])
      /\ \A k \in 1 .. live.len : Current[k] = heap[live.arr][k]
  BY CurrentType
<1>3. /\ heap \in Seq(Seq(Entries)) /\ Len(heap) \in Nat
      /\ heap[live.arr] \in Seq(Entries) /\ Len(heap[live.arr]) \in Nat
  BY <1>2, HeapType
<1>4. \/ /\ Fits
         /\ heap' = [heap EXCEPT ![live.arr][live.len + 1] = e]
         /\ live' = [live EXCEPT !.len = @ + 1]
      \/ /\ \E n \in 0 .. Spare : heap' = Append(heap, Padded(list, n))
         /\ live' = [arr |-> Len(heap) + 1, len |-> live.len + 1]
  BY DEF AddServer
<1> HIDE DEF e
<1>5. /\ list \in Seq(Entries) /\ Len(list) = live.len + 1
      /\ \A k \in 1 .. live.len : list[k] = Current[k]
      /\ list[live.len + 1] = e
  BY <1>1, <1>2, AppendProperties
<1> HIDE DEF list
<1>6. ASSUME Fits, heap' = [heap EXCEPT ![live.arr][live.len + 1] = e],
             live' = [live EXCEPT !.len = @ + 1]
      PROVE  Current' = list
  <2> DEFINE b == [heap[live.arr] EXCEPT ![live.len + 1] = e]
  <2>1. live.len + 1 \in 1 .. Len(heap[live.arr])
    BY <1>2, <1>3, <1>6 DEF Fits
  <2>2. /\ b \in Seq(Entries) /\ Len(b) = Len(heap[live.arr])
        /\ \A k \in 1 .. Len(b) : b[k] = IF k = live.len + 1 THEN e ELSE heap[live.arr][k]
    BY <1>1, <1>3, <2>1, ExceptSeq
  <2>3. heap' = [heap EXCEPT ![live.arr] = b]
    BY <1>6
  <2> HIDE DEF b
  <2>4. heap'[live.arr] = b
    BY <2>2, <2>3, Replaced
  <2>5. live'.arr = live.arr /\ live'.len = live.len + 1
    BY <1>2, <1>6 DEF Base, TypeOK
  <2>6. \A k \in 1 .. live.len + 1 :
          k \in 1 .. Len(heap[live.arr]) /\ (k \in 1 .. live.len \/ k = live.len + 1)
    BY <1>2, <1>3, <2>1
  <2>7. \A k \in 1 .. live.len : k # live.len + 1
    BY <1>2
  <2>8. ASSUME NEW k \in 1 .. Len(list)
        PROVE  b[k] = list[k]
    <3>1. k \in 1 .. Len(b) /\ (k \in 1 .. live.len \/ k = live.len + 1)
      BY <1>5, <2>2, <2>6, <2>8
    <3>2. CASE k = live.len + 1
      BY <1>5, <2>2, <3>1, <3>2
    <3>3. CASE k \in 1 .. live.len
      BY <1>2, <1>5, <2>2, <2>7, <3>1, <3>3
    <3> QED
      BY <3>1, <3>2, <3>3
  <2> QED
    BY <1>5, <2>2, <2>4, <2>5, <2>8, CurrentIs
<1>7. ASSUME NEW n \in 0 .. Spare, heap' = Append(heap, Padded(list, n)),
             live' = [arr |-> Len(heap) + 1, len |-> live.len + 1]
      PROVE  Current' = list
  <2> DEFINE b == Padded(list, n)
  <2>1. n \in Nat
    BY RequestAssumption
  <2>2. b \in Seq(Entries) /\ \A k \in 1 .. Len(list) : b[k] = list[k]
    BY <1>5, <2>1, PaddedType
  <2>3. heap' = Append(heap, b)
    BY <1>7
  <2> HIDE DEF b
  <2>4. heap'[Len(heap) + 1] = b
    BY <1>3, <2>2, <2>3, AppendProperties
  <2>5. live'.arr = Len(heap) + 1 /\ live'.len = Len(list)
    BY <1>5, <1>7
  <2>6. heap'[live'.arr] = b
    BY <2>4, <2>5
  <2> QED
    BY <1>5, <2>2, <2>5, <2>6, CurrentIs
<1>8. Current' = list
  BY <1>4, <1>6, <1>7
<1>9. UNCHANGED glob
  BY DEF AddServer
<1> QED
  BY <1>1, <1>8, <1>9 DEF list

\* What a start reads is what it serves.
LEMMA StartCurrent ==
  ASSUME NEW list \in Seq(Entries), NEW n \in Nat,
         heap = <<Padded(list, n)>>, live = [arr |-> 1, len |-> Len(list)]
  PROVE  Current = list
<1>1. \A i \in 1 .. Len(list) : Padded(list, n)[i] = list[i]
  BY PaddedType
<1>2. Current = [i \in 1 .. Len(list) |-> Padded(list, n)[i]]
  BY DEF Current
<1>3. list = [i \in 1 .. Len(list) |-> list[i]]
  BY Indices
<1> QED
  BY <1>1, <1>2, <1>3

----------------------------------------------------------------------------
(* The refinement of ConfigStore. *)

Config == [list |-> Current, glob |-> glob]

Saved == [list |-> file.list, glob |-> GlobOf(file)]

Unknown == [list |-> <<>>, glob |-> "unknown"]

ForRestart == IF sole = "saved" THEN Saved ELSE Unknown

\* The definitions of ConfigStore, in the terms of LiveConfig.
LEMMA StoreTerms ==
  /\ Store!cvars = <<Config, ForRestart>>
  /\ Store!Unknown = Unknown
  /\ Store!Entries = Entries /\ Store!Globals = Globals
  /\ \A list : Store!Started(list) = Started(list)
  /\ \A list, n : Store!Without(list, n) = Without(list, n)
BY DEF Store!cvars, Store!Unknown, Store!Entries, Store!Globals, Store!Started,
       Store!Without, Store!Kept, Store!Diagnostic, Store!Versions, Config, ForRestart, Saved,
       Unknown, Entries, Globals, Started, Without, Kept, Diagnostic, Versions

\* What a step must show to stutter, and when the two agree.
LEMMA StoreStutters ==
  ASSUME Config' = Config, ForRestart' = ForRestart
  PROVE  UNCHANGED Store!cvars
  BY StoreTerms DEF Store!cvars, Config, ForRestart, Saved, Unknown

LEMMA FileConfig ==
  ASSUME Base
  PROVE  Saved \in Store!Configs
<1>1. file.list \in Seq(Entries) /\ GlobOf(file) \in Globals
  BY Scalars DEF Files, GlobOf, Globals
<1> QED
  BY <1>1, StoreTerms DEF Saved, Store!Configs

LEMMA InitRefines ==
  ASSUME Init
  PROVE  Store!Init
<1>1. PICK list \in Started(FirstFile.list), n \in 0 .. Spare :
        heap = <<Padded(list, n)>> /\ live = [arr |-> 1, len |-> Len(list)]
  BY DEF Init
<1>2. n \in Nat
  BY RequestAssumption
<1>3. FirstFile.list \in Seq(Entries)
  BY FileAssumption DEF Files
<1>4. list \in Seq(Entries)
  BY <1>1, <1>3, StartedType
<1>5. Current = list
  BY <1>1, <1>2, <1>4, StartCurrent
<1>6. Saved \in Store!Configs
  BY InitBase, FileConfig
<1>7. sole = "saved" /\ file = FirstFile /\ glob = GlobOf(file)
  BY DEF Init
<1> QED
  BY <1>1, <1>5, <1>6, <1>7, StoreTerms DEF Store!Init, Store!Starts, Saved

LEMMA EnterRefines ==
  ASSUME TInv, Exclusive, NEW r \in Requests, Enter(r)
  PROVE  Store!Open
<1>1. sole' # "saved"
  BY RequestAssumption DEF Enter
<1>2. UNCHANGED <<heap, live, glob>>
  BY DEF Enter
<1>3. Current' = Current
  BY <1>2 DEF Current
<1> QED
  BY <1>1, <1>2, <1>3, StoreTerms DEF Store!Open, Unknown

LEMMA ApplyRefines ==
  ASSUME TInv, Exclusive, NEW r \in Requests, Apply(r)
  PROVE  Store!Change \/ UNCHANGED Store!cvars
<1>1. Base /\ req[r].op \in Ops
  BY OpType DEF TInv
<1>2. UNCHANGED <<file, sole>> /\ req[r].step = "inside"
  BY DEF Apply, RemoveServer, AddServer, UpdateServer, NotFound, UpdateGlobalSettings,
         EditKeeps, Leave
<1>3. sole # "saved"
  BY <1>2 DEF Exclusive, AllIdle
<1>4. ForRestart = Unknown /\ ForRestart' = Unknown
  BY <1>2, <1>3 DEF ForRestart, Unknown
<1>5. CASE RemoveServer(r)
  <2>1. Current' \in Without(Current, req[r].op.name) /\ glob' = glob
    BY <1>1, <1>5, RemoveCurrent
  <2>2. req[r].op.name \in Names
    BY <1>1 DEF Ops
  <2>3. Store!Remove
    BY <1>2, <1>3, <2>1, <2>2, StoreTerms DEF Store!Remove, Store!Put
  <2> QED
    BY <1>3, <2>3, StoreTerms DEF Store!Change, Unknown
<1>6. CASE AddServer(r)
  <2>1. PICK e \in Entries : Current' = Append(Current, e) /\ glob' = glob
    BY <1>1, <1>6, AddCurrent
  <2>2. Store!Put(Append(Current, e))
    BY <1>2, <1>3, <2>1 DEF Store!Put
  <2>3. e \in Store!Entries
    BY StoreTerms
  <2>4. Store!Add
    BY <2>2, <2>3 DEF Store!Add
  <2> QED
    BY <1>3, <2>4, StoreTerms DEF Store!Change, Unknown
<1>7. CASE UpdateServer(r)
  <2>1. PICK i \in DOMAIN Current : \E e \in Entries :
          e.name = Current[i].name /\ Current' = [Current EXCEPT ![i] = e]
    BY <1>1, <1>7, UpdateCurrent
  <2>2. PICK e \in Entries :
          e.name = Current[i].name /\ Current' = [Current EXCEPT ![i] = e]
    BY <2>1
  <2>3. glob' = glob
    BY <1>1, <1>7, UpdateCurrent
  <2>4. Store!Put([Current EXCEPT ![i] = e])
    BY <1>2, <1>3, <2>2, <2>3 DEF Store!Put
  <2>5. e \in Store!Entries
    BY StoreTerms
  <2>6. Store!Edit
    BY <2>2, <2>4, <2>5 DEF Store!Edit
  <2> QED
    BY <1>3, <2>6, StoreTerms DEF Store!Change, Unknown
<1>8. CASE NotFound(r) \/ UpdateGlobalSettings(r)
  <2>1. UNCHANGED <<heap, live>>
    BY <1>8 DEF NotFound, UpdateGlobalSettings
  <2>2. Current' = Current
    BY <2>1 DEF Current
  <2>3. CASE glob' = glob
    <3>1. Config' = Config
      BY <2>2, <2>3 DEF Config
    <3> QED
      BY <1>4, <3>1, StoreStutters
  <2>4. CASE glob' # glob
    <3>1. glob' \in Globals
      BY <1>1, <1>8, <2>4 DEF NotFound, UpdateGlobalSettings, Ops
    <3>2. Store!Set
      BY <1>2, <1>3, <2>2, <3>1, StoreTerms DEF Store!Set
    <3> QED
      BY <1>3, <3>2, StoreTerms DEF Store!Change, Unknown
  <2> QED
    BY <2>3, <2>4
<1> QED
  BY <1>5, <1>6, <1>7, <1>8 DEF Apply

LEMMA SaveRefines ==
  ASSUME TInv, Exclusive, NEW r \in Requests, SaveConfig(r)
  PROVE  UNCHANGED Store!cvars
<1>1. UNCHANGED <<heap, live, glob, sole>>
  BY DEF SaveConfig, Snapshot, Read, Validate, Marshal, Truncate, OpenFails, Write,
         WriteFails, SaveKeeps
<1>2. req[r].step # "idle"
  BY HandlerSaved DEF Handler
<1>3. sole # "saved"
  BY <1>2 DEF Exclusive, AllIdle
<1>4. Config' = Config /\ ForRestart' = ForRestart
  BY <1>1, <1>3 DEF Config, Current, ForRestart, Unknown
<1> QED
  BY <1>4, StoreStutters

LEMMA ReplyRefines ==
  ASSUME TInv, Exclusive, NEW r \in Requests, Reply(r)
  PROVE  Store!Keep \/ UNCHANGED Store!cvars
<1>1. UNCHANGED <<heap, live, glob, file>> /\ req[r].step = "done"
  BY DEF Reply
<1>2. Current' = Current
  BY <1>1 DEF Current
<1>3. sole # "saved"
  BY <1>1 DEF Exclusive, AllIdle
<1>4. sole' = IF sole = r THEN (IF req[r].saved THEN "saved" ELSE "nobody") ELSE sole
  BY DEF Reply
<1>5. CASE sole = r /\ req[r].saved
  <2>1. file = [kind |-> "whole", list |-> Current, glob |-> glob]
    BY <1>5 DEF Exclusive, Holds
  <2>2. GlobOf(file) = glob /\ file.list = Current
    BY <2>1 DEF GlobOf
  <2>3. GlobOf(file)' = GlobOf(file) /\ file' = file
    BY <1>1 DEF GlobOf
  <2>4. sole' = "saved"
    BY <1>4, <1>5
  <2>5. Store!Keep
    BY <1>1, <1>2, <2>2, <2>3, <2>4 DEF Store!Keep
  <2> QED
    BY <2>5
<1>6. CASE ~(sole = r /\ req[r].saved)
  <2>1. sole' # "saved"
    BY <1>3, <1>4, <1>6
  <2>2. Config' = Config /\ ForRestart' = ForRestart
    BY <1>1, <1>2, <1>3, <2>1 DEF Config, ForRestart, Unknown
  <2> QED
    BY <2>2, StoreStutters
<1> QED
  BY <1>5, <1>6

LEMMA RestartRefines ==
  ASSUME TInv, Exclusive, Restart
  PROVE  Store!Restart
<1>1. PICK list \in Started(file'.list), n \in 0 .. Spare :
        heap' = <<Padded(list, n)>> /\ live' = [arr |-> 1, len |-> Len(list)]
  BY DEF Restart
<1>2. n \in Nat
  BY RequestAssumption
<1>3. glob' = GlobOf(file') /\ sole' = "saved"
  BY DEF Restart
<1>4. file' \in Files /\ (sole = "saved" => file' = file)
  BY LeftType DEF TInv, Restart, Exclusive, AllIdle
<1>10. file'.list \in Seq(Entries) /\ Saved' \in Store!Configs
  BY <1>4, StoreTerms DEF Saved, GlobOf, Globals, Files, Store!Configs
<1>5. list \in Seq(Entries)
  BY <1>1, <1>10, StartedType
<1>6. Current' = list
  <2>1. \A i \in 1 .. Len(list) : Padded(list, n)[i] = list[i]
    BY <1>2, <1>5, PaddedType
  <2>2. Current' = [i \in 1 .. Len(list) |-> Padded(list, n)[i]]
    BY <1>1 DEF Current
  <2>3. list = [i \in 1 .. Len(list) |-> list[i]]
    BY <1>5, Indices
  <2> QED
    BY <2>1, <2>2, <2>3
<1>7. ForRestart' = Saved'
  BY <1>3 DEF ForRestart
<1>8. Saved' = [list |-> file'.list, glob |-> GlobOf(file')]
  BY DEF Saved, GlobOf
<1>9. ForRestart # Unknown => ForRestart' = ForRestart
  BY <1>4, <1>7 DEF ForRestart, Saved, GlobOf
<1> QED
  BY <1>1, <1>3, <1>6, <1>7, <1>8, <1>9, <1>10, StoreTerms
  DEF Store!Restart, Store!Starts, ForRestart, Saved, Unknown

LEMMA NextRefines ==
  ASSUME TInv, Exclusive, [Next]_vars
  PROVE  [Store!Next]_(Store!cvars)
<1>1. ASSUME NEW r \in Requests, Enter(r) \/ Handler(r)
      PROVE  Store!Next \/ UNCHANGED Store!cvars
  BY <1>1, EnterRefines, ApplyRefines, SaveRefines, ReplyRefines DEF Handler, Store!Next
<1>2. CASE BeginCycle \/ Spawn \/ Wait \/ Update \/ UNCHANGED vars
  <2>1. UNCHANGED <<heap, live, glob, file, sole>>
    BY <1>2 DEF BeginCycle, Spawn, Wait, Update, CycleKeeps, vars
  <2>2. Config' = Config /\ ForRestart' = ForRestart
    BY <2>1 DEF Config, Current, ForRestart, Saved, GlobOf, Unknown
  <2> QED
    BY <2>2, StoreStutters
<1>3. CASE Restart
  BY <1>3, RestartRefines DEF Store!Next
<1>4. CASE StartFails
  <2>1. UNCHANGED <<heap, live, glob>> /\ file' \in LeftBehind
        /\ sole' = IF sole = "saved" THEN sole ELSE "nobody"
    BY <1>4 DEF StartFails
  <2>2. sole = "saved" => file' = file
    BY <2>1, LeftType DEF TInv, Exclusive, AllIdle
  <2>3. Config' = Config /\ ForRestart' = ForRestart
    BY <2>1, <2>2 DEF Config, Current, ForRestart, Saved, GlobOf, Unknown
  <2> QED
    BY <2>3, StoreStutters
<1> QED
  BY <1>1, <1>2, <1>3, <1>4 DEF Next, Down

\* The live configuration implements ConfigStore: whatever the handlers do to
\* the array they share, an edit takes effect at once and entirely, and what a
\* request has saved while nobody else was at work is what a restart brings
\* back, for any number of operators, of servers and of edits.
THEOREM Implements == Spec => ImplementsConfigStore
<1>1. ASSUME Init PROVE TInv /\ Exclusive
  <2>1. sole = "saved" /\ \A r \in Requests : req[r] = NoRequest
    BY <1>1 DEF Init
  <2>2. NoRequest.step = "idle" /\ NoRequest.saved = FALSE
    BY DEF NoRequest
  <2>3. \A r \in Requests : sole # r
    BY <2>1, RequestAssumption
  <2> QED
    BY <1>1, <2>1, <2>2, <2>3, InitTInv DEF Exclusive, AllIdle
<1>2. (TInv /\ Exclusive) /\ [Next]_vars => (TInv /\ Exclusive)'
  BY NextTInv, NextExclusive
<1>3. Init => Store!Init
  BY InitRefines
<1>4. (TInv /\ Exclusive) /\ [Next]_vars => [Store!Next]_(Store!cvars)
  BY NextRefines
<1> QED
  BY <1>1, <1>2, <1>3, <1>4, PTL DEF Spec, ImplementsConfigStore, Store!Spec

=============================================================================
