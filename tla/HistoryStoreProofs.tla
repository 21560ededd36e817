-------------------------- MODULE HistoryStoreProofs --------------------------
(***************************************************************************)
(* Theorems about HistoryStore for batches of every size, every retention, *)
(* and any number of attempts, trimming rounds and crashes.                *)
(***************************************************************************)
EXTENDS HistoryStore, TLAPS

LEMMA RowTimes ==
  /\ \A r \in Rows : r.at \in 0 .. MaxClock /\ r.at \in Int
  /\ \A t \in Int : Second(t) \in Int
  /\ \A t, u \in Int : t <= u => Second(t) <= Second(u)
BY StoreAssumption DEF Rows, Second

\* The order of the texts agrees with the order of the seconds.
LEMMA TextOrder ==
  ASSUME NEW t \in Int, NEW u \in Int
  PROVE  /\ TextBefore(t, u) => Second(t) <= Second(u)
         /\ ~TextBefore(t, u) => Second(u) <= Second(t)
BY RowTimes DEF TextBefore

----------------------------------------------------------------------------
(* Types. *)

LEMMA NothingType == Nothing \in [Rows -> Nat]
BY DEF Nothing

LEMMA InitType ==
  ASSUME Init
  PROVE  TypeOK
BY NothingType, StoreAssumption DEF Init, TypeOK, Tables, SchemaParts

LEMMA StoreType ==
  ASSUME TypeOK, Store
  PROVE  stored' \in [Tables -> [Rows -> Nat]]
<1>1. [r \in Rows |-> stored[table][r] + staged[r]] \in [Rows -> Nat]
  BY DEF TypeOK
<1>2. stored' = [stored EXCEPT ![table] = [r \in Rows |-> stored[table][r] + staged[r]]]
  BY DEF Store
<1> QED
  BY <1>1, <1>2 DEF TypeOK

LEMMA DeleteType ==
  ASSUME TypeOK, NEW t \in Tables, NEW rows \in SUBSET Rows, Delete(t, rows)
  PROVE  /\ stored' \in [Tables -> [Rows -> Nat]]
         /\ gone' \in [Tables -> SUBSET Rows]
<1>1. [r \in Rows |-> IF r \in rows THEN 0 ELSE stored[t][r]] \in [Rows -> Nat]
  BY DEF TypeOK
<1>2. stored' = [stored EXCEPT ![t] =
                   [r \in Rows |-> IF r \in rows THEN 0 ELSE stored[t][r]]]
  BY DEF Delete
<1>3. gone' = [gone EXCEPT ![t] = gone[t] \cup (rows \cap Kept(t))]
  BY DEF Delete
<1> QED
  BY <1>1, <1>2, <1>3 DEF TypeOK

\* What the two deletions of a kind come down to.
LEMMA DeleteSteps ==
  ASSUME TypeOK,
         ExpireMetrics \/ ExpireFirings \/ TrimMetric \/ TrimFiring
  PROVE  \/ UNCHANGED <<stored, gone>>
         \/ \E t \in Tables, rows \in SUBSET Rows : Delete(t, rows)
<1>1. CASE ExpireMetrics \/ ExpireFirings
  BY <1>1 DEF ExpireMetrics, ExpireFirings, Expired, Tables
<1>2. CASE TrimMetric \/ TrimFiring
  BY <1>2 DEF TrimMetric, TrimFiring, DeleteOldest, Tables, Kept
<1> QED
  BY <1>1, <1>2

LEMMA BeginType ==
  ASSUME TypeOK, Begin
  PROVE  TypeOK'
<1>1. PICK times \in [1 .. Samples -> mark + 1 .. clock], n \in 0 .. MaxFirings,
           fired \in mark + 1 .. clock :
        batch' = [metrics |-> {[at |-> times[i], of |-> i] : i \in 1 .. Samples},
                  firings |-> {[at |-> fired, of |-> i] : i \in 1 .. n}]
  BY DEF Begin
<1>2. mark + 1 .. clock \subseteq 0 .. MaxClock
  BY StoreAssumption DEF TypeOK
<1>3. {[at |-> times[i], of |-> i] : i \in 1 .. Samples} \subseteq Rows
  <2> SUFFICES ASSUME NEW i \in 1 .. Samples
               PROVE  [at |-> times[i], of |-> i] \in Rows
    OBVIOUS
  <2>1. times[i] \in 0 .. MaxClock
    BY <1>2
  <2>2. i \in 1 .. Samples + MaxFirings
    BY StoreAssumption
  <2> QED
    BY <2>1, <2>2 DEF Rows
<1>4. {[at |-> fired, of |-> i] : i \in 1 .. n} \subseteq Rows
  <2> SUFFICES ASSUME NEW i \in 1 .. n
               PROVE  [at |-> fired, of |-> i] \in Rows
    OBVIOUS
  <2>1. fired \in 0 .. MaxClock
    BY <1>2
  <2>2. i \in 1 .. Samples + MaxFirings
    BY StoreAssumption
  <2> QED
    BY <2>1, <2>2 DEF Rows
<1>5. batch' \in [Tables -> SUBSET Rows]
  BY <1>1, <1>3, <1>4 DEF Tables
<1>6. mark' \in 0 .. clock' /\ cutoff' \in Int
  BY StoreAssumption DEF Begin, TypeOK
<1>7. /\ pc' = "begin" /\ outcome' = "none"
      /\ UNCHANGED <<table, attempt, left, staged, trims, stored, schema, clock,
                     crashes, gone>>
  BY DEF Begin
<1> QED
  BY <1>5, <1>6, <1>7 DEF TypeOK

LEMMA TypeStep ==
  ASSUME TypeOK, Transaction, [Next]_vars
  PROVE  TypeOK'
<1> USE StoreAssumption, NothingType DEF TypeOK
<1>1. CASE Open
  BY <1>1 DEF Open, Migrate, cycle, Created, SchemaParts
<1>2. CASE Begin
  BY <1>2, BeginType
<1>3. CASE NoRows
  BY <1>3 DEF NoRows, Recorded, Keeps, Tables
<1>4. CASE BeginTx
  BY <1>4 DEF BeginTx, Keeps
<1>5. CASE \E r \in Rows : Insert(r)
  BY <1>5 DEF Insert, Keeps
<1>6. CASE Commit
  BY <1>6, StoreType DEF Commit, Keeps
<1>7. CASE Conflict
  BY <1>7 DEF Conflict, Failed, Keeps, Tables
<1>8. CASE Retry
  BY <1>8 DEF Retry, Failed, Keeps, Tables, Transaction
<1>9. CASE WriteFails
  <2>1. stored' \in [Tables -> [Rows -> Nat]]
    BY <1>9, StoreType DEF WriteFails
  <2> QED
    BY <1>9, <2>1 DEF WriteFails, Failed, Keeps, Tables
<1>10. CASE ExpireMetrics \/ ExpireFirings \/ TrimMetric \/ TrimFiring
  <2>1. stored' \in [Tables -> [Rows -> Nat]] /\ gone' \in [Tables -> SUBSET Rows]
    BY <1>10, DeleteSteps, DeleteType
  <2> QED
    BY <1>10, <2>1 DEF ExpireMetrics, ExpireFirings, TrimMetric, TrimFiring,
                       RetentionKeeps, Keeps
<1>11. CASE TooLarge
  BY <1>11 DEF TooLarge, MayTrim, RetentionKeeps, Keeps
<1>12. CASE SmallEnough
  BY <1>12 DEF SmallEnough, Recorded, Keeps, Tables
<1>13. CASE RetentionFails
  BY <1>13 DEF RetentionFails, Failed, Keeps, Tables
<1>14. CASE Close \/ Start("closed") \/ Start("down")
  BY <1>14 DEF Close, Start, cycle, SchemaParts
<1>17. CASE Advance
  <2>1. clock' \in 0 .. MaxClock /\ mark' \in 0 .. clock'
    BY <1>17 DEF Advance
  <2> QED
    BY <1>17, <2>1 DEF Advance, cycle
<1>15. CASE Crash
  BY <1>15 DEF Crash, Tables
<1>16. CASE UNCHANGED vars
  BY <1>16 DEF vars, cycle
<1> QED
  BY <1>1, <1>2, <1>3, <1>4, <1>5, <1>6, <1>7, <1>8, <1>9, <1>10, <1>11, <1>12,
     <1>13, <1>14, <1>15, <1>16, <1>17 DEF Next, Write, Retain

----------------------------------------------------------------------------
(* What the three steps that change the history do to its rows. *)

LEMMA DeleteKeeps ==
  ASSUME TypeOK, NEW t \in Tables, NEW rows \in SUBSET Rows, Delete(t, rows)
  PROVE  \A u \in Tables :
           /\ Kept(u)' = IF u = t THEN Kept(u) \ rows ELSE Kept(u)
           /\ gone'[u] = IF u = t THEN gone[u] \cup (rows \cap Kept(u)) ELSE gone[u]
           /\ Committed(u)' = Committed(u)
           /\ \A r \in Rows : stored'[u][r] \in {0, stored[u][r]}
<1> TAKE u \in Tables
<1>1. stored'[u] = IF u = t THEN [r \in Rows |-> IF r \in rows THEN 0 ELSE stored[u][r]]
                            ELSE stored[u]
  BY DEF Delete, TypeOK
<1>2. Kept(u)' = IF u = t THEN Kept(u) \ rows ELSE Kept(u)
  BY <1>1 DEF Kept, TypeOK
<1>3. gone'[u] = IF u = t THEN gone[u] \cup (rows \cap Kept(u)) ELSE gone[u]
  BY DEF Delete, TypeOK
<1>4. Committed(u)' = Committed(u)
  BY <1>2, <1>3 DEF Committed
<1> QED
  BY <1>1, <1>2, <1>3, <1>4

LEMMA StoreKeeps ==
  ASSUME TypeOK, Transaction, pc = "commit", Store, UNCHANGED gone
  PROVE  \A u \in Tables :
           /\ Kept(u)' = IF u = table THEN Kept(u) \cup batch[u] ELSE Kept(u)
           /\ Committed(u)' = IF u = table THEN Committed(u) \cup batch[u]
                                           ELSE Committed(u)
           /\ \A r \in Rows : stored'[u][r] =
                 IF u = table /\ r \in batch[u] THEN stored[u][r] + 1 ELSE stored[u][r]
<1> TAKE u \in Tables
<1>1. \A r \in Rows : staged[r] = IF r \in batch[table] THEN 1 ELSE 0
  BY DEF Transaction
<1>2. \A r \in Rows : stored'[u][r] =
        IF u = table THEN stored[u][r] + staged[r] ELSE stored[u][r]
  BY DEF Store, TypeOK
<1>3. \A r \in Rows : stored'[u][r] =
        IF u = table /\ r \in batch[u] THEN stored[u][r] + 1 ELSE stored[u][r]
  BY <1>1, <1>2 DEF TypeOK
<1>4. batch[u] \subseteq Rows
  BY DEF TypeOK
<1>5. Kept(u)' = IF u = table THEN Kept(u) \cup batch[u] ELSE Kept(u)
  BY <1>3, <1>4 DEF Kept, TypeOK
<1> QED
  BY <1>3, <1>5 DEF Committed

\* A deletion by age or by size takes no row of a later second than one it leaves.
Parted(t, rows) ==
    \A q \in rows \cap Kept(t), r \in Kept(t) \ rows : Second(q.at) <= Second(r.at)

LEMMA ExpiredParted ==
  ASSUME TypeOK, cutoff' \in Int, NEW t \in Tables
  PROVE  Parted(t, Expired)
<1> SUFFICES ASSUME NEW q \in Expired \cap Kept(t), NEW r \in Kept(t) \ Expired
             PROVE  Second(q.at) <= Second(r.at)
  BY DEF Parted
<1>1. q \in Rows /\ r \in Rows
  BY DEF Kept
<1>2. TextBefore(q.at, cutoff') /\ ~TextBefore(r.at, cutoff')
  BY <1>1 DEF Expired
<1>3. Second(q.at) <= Second(cutoff') /\ Second(cutoff') <= Second(r.at)
  BY <1>1, <1>2, RowTimes, TextOrder
<1>4. Second(q.at) \in Int /\ Second(r.at) \in Int /\ Second(cutoff') \in Int
  BY <1>1, RowTimes
<1> QED
  BY <1>3, <1>4

LEMMA OldestParted ==
  ASSUME TypeOK, NEW t \in Tables, NEW q \in Kept(t), Oldest(t, q)
  PROVE  Parted(t, {q})
<1> SUFFICES ASSUME NEW r \in Kept(t)
             PROVE  Second(q.at) <= Second(r.at)
  BY DEF Parted
<1>1. q \in Rows /\ r \in Rows
  BY DEF Kept
<1>2. ~TextBefore(r.at, q.at)
  BY DEF Oldest
<1> QED
  BY <1>1, <1>2, RowTimes, TextOrder

----------------------------------------------------------------------------
(* The rows of the history, for each of the four ways a step treats them. *)

RowsRight == NothingTwice /\ BatchWhole /\ InOrder /\ KeptIsNewest

LEMMA QuietRows ==
  ASSUME RowsRight, UNCHANGED <<batch, stored, gone, mark>>
  PROVE  RowsRight'
<1>1. \A t : Kept(t)' = Kept(t) /\ Committed(t)' = Committed(t)
  BY DEF Kept, Committed
<1> QED
  BY <1>1 DEF RowsRight, NothingTwice, BatchWhole, InOrder, KeptIsNewest

LEMMA DeleteRows ==
  ASSUME TypeOK, RowsRight, UNCHANGED <<batch, mark>>,
         NEW t \in Tables, NEW rows \in SUBSET Rows, Delete(t, rows), Parted(t, rows)
  PROVE  RowsRight'
<1>1. NothingTwice'
  <2> SUFFICES ASSUME NEW u \in Tables, NEW r \in Rows
               PROVE  stored'[u][r] <= 1
    BY DEF NothingTwice
  <2>1. stored'[u][r] \in {0, stored[u][r]}
    BY DeleteKeeps
  <2> QED
    BY <2>1 DEF RowsRight, NothingTwice
<1>2. BatchWhole' /\ InOrder'
  BY DeleteKeeps DEF RowsRight, BatchWhole, InOrder
<1>3. KeptIsNewest'
  <2> SUFFICES ASSUME NEW u \in Tables, NEW r \in Kept(u)', NEW q \in gone'[u]
               PROVE  Second(q.at) <= Second(r.at)
    BY DEF KeptIsNewest
  <2>1. /\ Kept(u)' = IF u = t THEN Kept(u) \ rows ELSE Kept(u)
        /\ gone'[u] = IF u = t THEN gone[u] \cup (rows \cap Kept(u)) ELSE gone[u]
    BY DeleteKeeps
  <2> QED
    BY <2>1 DEF RowsRight, KeptIsNewest, Parted
<1> QED
  BY <1>1, <1>2, <1>3 DEF RowsRight

LEMMA StoreRows ==
  ASSUME TypeOK, Transaction, Progress, RowsRight, UNCHANGED <<batch, gone, mark>>,
         pc = "commit", Store
  PROVE  RowsRight'
<1>1. batch[table] \cap Committed(table) = {} /\ table \in Tables
  BY DEF Progress, Writing, TypeOK
<1>2. NothingTwice'
  <2>1. \A r \in batch[table] \cap Rows : stored[table][r] = 0
    BY <1>1 DEF Committed, Kept, TypeOK
  <2> QED
    BY <2>1, StoreKeeps DEF RowsRight, NothingTwice
<1>3. BatchWhole'
  BY StoreKeeps DEF RowsRight, BatchWhole
<1>4. InOrder'
  BY StoreKeeps DEF RowsRight, InOrder
<1>5. KeptIsNewest'
  <2> SUFFICES ASSUME NEW r \in batch[table], NEW q \in gone[table]
               PROVE  Second(q.at) <= Second(r.at)
    BY StoreKeeps DEF RowsRight, KeptIsNewest
  <2>1. q \in Committed(table) \ batch[table]
    BY <1>1 DEF Committed
  <2>2. q.at < r.at /\ q \in Rows /\ r \in Rows
    BY <1>1, <2>1 DEF RowsRight, InOrder, TypeOK
  <2> QED
    BY <2>2, RowTimes
<1> QED
  BY <1>2, <1>3, <1>4, <1>5 DEF RowsRight

LEMMA BeginRows ==
  ASSUME TypeOK, RowsRight, Begin
  PROVE  /\ RowsRight'
         /\ \A t \in Tables : batch'[t] \cap Committed(t)' = {}
<1>1. \A t : Kept(t)' = Kept(t) /\ Committed(t)' = Committed(t)
  BY DEF Begin, Kept, Committed
<1>2. \A t \in Tables : \A r \in batch'[t] : mark < r.at /\ r.at <= mark'
  <2>1. PICK times \in [1 .. Samples -> mark + 1 .. clock], n \in 0 .. MaxFirings,
             fired \in mark + 1 .. clock :
          batch' = [metrics |-> {[at |-> times[i], of |-> i] : i \in 1 .. Samples},
                    firings |-> {[at |-> fired, of |-> i] : i \in 1 .. n}]
    BY DEF Begin
  <2>2. \A r \in batch'["metrics"] : r.at \in mark + 1 .. clock
    BY <2>1
  <2>3. \A r \in batch'["firings"] : r.at \in mark + 1 .. clock
    BY <2>1
  <2> QED
    BY <2>2, <2>3 DEF Begin, Tables, TypeOK
<1>3. \A t \in Tables : \A r \in Committed(t) : r.at <= mark /\ r.at \in Int
  BY RowTimes DEF RowsRight, InOrder, Committed, Kept, TypeOK
<1>4. mark \in Int /\ mark' \in Int /\ mark <= mark'
  BY DEF Begin, TypeOK
<1>5. \A t \in Tables : \A r \in batch'[t] : r.at \in Int
  BY BeginType, RowTimes DEF TypeOK
<1>6. \A t \in Tables : batch'[t] \cap Committed(t)' = {}
  BY <1>1, <1>2, <1>3, <1>4, <1>5
<1>7. InOrder'
  BY <1>1, <1>2, <1>3, <1>4, <1>5 DEF InOrder
<1>8. NothingTwice' /\ KeptIsNewest'
  BY <1>1 DEF Begin, RowsRight, NothingTwice, KeptIsNewest
<1> QED
  BY <1>6, <1>7, <1>8 DEF RowsRight, BatchWhole

LEMMA RowsStep ==
  ASSUME TypeOK, Transaction, Progress, RowsRight, [Next]_vars
  PROVE  RowsRight'
<1>1. CASE Begin
  BY <1>1, BeginRows
<1>2. CASE Commit
  BY <1>2, StoreRows DEF Commit, Keeps
<1>3. CASE WriteFails
  BY <1>3, StoreRows, QuietRows DEF WriteFails, Keeps
<1>4. CASE ExpireMetrics \/ ExpireFirings
  <2>1. PICK t \in Tables : Delete(t, Expired)
    BY <1>4 DEF ExpireMetrics, ExpireFirings, Tables
  <2>2. UNCHANGED <<batch, mark>> /\ cutoff' \in Int
    BY <1>4, TypeStep DEF ExpireMetrics, ExpireFirings, RetentionKeeps, Keeps, TypeOK
  <2>3. Expired \in SUBSET Rows
    BY DEF Expired
  <2> QED
    BY <2>1, <2>2, <2>3, ExpiredParted, DeleteRows
<1>5. CASE TrimMetric \/ TrimFiring
  <2>1. UNCHANGED <<batch, mark>>
    BY <1>5 DEF TrimMetric, TrimFiring, RetentionKeeps, Keeps
  <2>2. PICK t \in Tables : DeleteOldest(t)
    BY <1>5 DEF TrimMetric, TrimFiring, Tables
  <2>3. CASE UNCHANGED <<stored, gone>>
    BY <2>1, <2>3, QuietRows
  <2>4. CASE \E q \in Kept(t) : Oldest(t, q) /\ Delete(t, {q})
    <3>1. PICK q \in Kept(t) : Oldest(t, q) /\ Delete(t, {q})
      BY <2>4
    <3>2. {q} \in SUBSET Rows
      BY DEF Kept
    <3> QED
      BY <2>1, <3>1, <3>2, OldestParted, DeleteRows
  <2> QED
    BY <2>2, <2>3, <2>4 DEF DeleteOldest
<1>6. CASE \/ Open \/ NoRows \/ BeginTx \/ (\E r \in Rows : Insert(r)) \/ Conflict
           \/ Retry \/ TooLarge \/ SmallEnough \/ RetentionFails \/ Close \/ Crash
           \/ Start("closed") \/ Start("down") \/ Advance \/ UNCHANGED vars
  BY <1>6, QuietRows
     DEF Open, Migrate, NoRows, BeginTx, Insert, Conflict, Retry, TooLarge, SmallEnough,
         RetentionFails, Close, Crash, Start, Advance, RetentionKeeps, Keeps, vars, cycle
<1> QED
  BY <1>1, <1>2, <1>3, <1>4, <1>5, <1>6 DEF Next, Write, Retain

----------------------------------------------------------------------------
(* Where the cycle is, and what it has promised. *)

CycleRight ==
    Transaction /\ Progress /\ Expiring /\ OkMeansRecorded /\ FiringsHaveSamples /\ ExpiredGone

LEMMA QuietCycle ==
  ASSUME UNCHANGED <<stored, gone, mark>>
  PROVE  \A t : /\ Kept(t)' = Kept(t) /\ Committed(t)' = Committed(t)
               /\ Clean(t)' = Clean(t)
BY DEF Kept, Committed, Clean

LEMMA QuietStep ==
  ASSUME TypeOK, CycleRight, BatchWhole, UNCHANGED <<stored, gone, mark>>,
         \/ NoRows \/ BeginTx \/ (\E r \in Rows : Insert(r)) \/ Conflict \/ Retry
         \/ WriteFails \/ TooLarge \/ SmallEnough \/ RetentionFails \/ Crash
  PROVE  CycleRight'
<1> USE QuietCycle
    DEF CycleRight, OkMeansRecorded, FiringsHaveSamples, ExpiredGone, Expiring, Progress,
        Transaction, Writing, Retaining, Tables
<1>1. CASE NoRows
  BY <1>1 DEF NoRows, Recorded, TypeOK
<1>2. CASE BeginTx
  <2>1. staged' = [r \in Rows |-> IF r \in batch'[table'] \ left' THEN 1 ELSE 0]
    BY <1>2 DEF BeginTx, Nothing
  <2> QED
    BY <1>2, <2>1 DEF BeginTx, TypeOK
<1>3. CASE \E r \in Rows : Insert(r)
  <2>1. PICK r \in Rows : Insert(r)
    BY <1>3
  <2>2. r \in batch[table] /\ left' \subseteq batch[table]
    BY <2>1 DEF Insert
  <2>3. /\ staged' = [staged EXCEPT ![r] = staged[r] + 1] /\ r \in left
        /\ left' = left \ {r} /\ batch' = batch /\ table' = table
    BY <2>1 DEF Insert
  <2>4. staged = [q \in Rows |-> IF q \in batch[table] \ left THEN 1 ELSE 0]
    BY <2>1 DEF Insert
  <2>5. staged' = [q \in Rows |-> IF q \in batch'[table'] \ left' THEN 1 ELSE 0]
    <3>1. \A q \in Rows : staged'[q] = IF q \in batch[table] \ left' THEN 1 ELSE 0
      BY <2>2, <2>3, <2>4
    <3>2. staged' = [q \in Rows |-> staged'[q]]
      BY <2>3, <2>4
    <3> QED
      BY <2>3, <3>1, <3>2
  <2>6. /\ pc = "insert" /\ pc' \in {"insert", "commit"}
        /\ pc' = "commit" => left' = {}
        /\ outcome' = outcome
    BY <2>1 DEF Insert
  <2>7. Transaction'
    BY <2>2, <2>3, <2>5, <2>6
  <2>8. Progress' /\ Expiring'
    BY <2>3, <2>6
  <2> QED
    BY <2>3, <2>6, <2>7, <2>8
<1>4. CASE Conflict
  <2>1. /\ pc \in {"insert", "commit"} /\ left' = {} /\ staged' = Nothing
        /\ batch' = batch
        /\ \/ pc' = "idle" /\ table' = "metrics" /\ outcome' = "failed"
           \/ /\ attempt # Attempts /\ pc' = "backoff"
              /\ UNCHANGED <<table, attempt, outcome>>
    BY <1>4 DEF Conflict, Failed
  <2>2. Transaction'
    BY <2>1, StoreAssumption DEF TypeOK
  <2>3. Progress' /\ Expiring'
    BY <2>1
  <2> QED
    BY <2>1, <2>2, <2>3
<1>5. CASE Retry
  BY <1>5 DEF Retry, Failed, TypeOK
<1>6. CASE WriteFails
  BY <1>6 DEF WriteFails, Failed, TypeOK
<1>7. CASE TooLarge
  BY <1>7 DEF TooLarge, RetentionKeeps, TypeOK
<1>8. CASE SmallEnough
  BY <1>8 DEF SmallEnough, Recorded, TypeOK
<1>9. CASE RetentionFails
  BY <1>9 DEF RetentionFails, Failed, TypeOK
<1>10. CASE Crash
  BY <1>10 DEF Crash, TypeOK
<1> QED
  BY <1>1, <1>2, <1>3, <1>4, <1>5, <1>6, <1>7, <1>8, <1>9, <1>10

LEMMA BeginStep ==
  ASSUME TypeOK, CycleRight, RowsRight, Begin
  PROVE  CycleRight'
<1>1. /\ table \in Tables /\ table' = table /\ pc = "idle" /\ pc' = "begin"
      /\ outcome' = "none" /\ left' = left /\ staged' = staged
  BY DEF Begin, TypeOK
<1>2. table = "metrics" /\ left = {} /\ staged = Nothing
  BY <1>1 DEF CycleRight, Progress, Transaction, Writing, Retaining
<1>3. \A t \in Tables : batch'[t] \cap Committed(t)' = {}
  BY BeginRows
<1>4. Transaction'
  BY <1>1, <1>2 DEF Transaction, Nothing
<1>5. Progress' /\ FiringsHaveSamples'
  BY <1>1, <1>2, <1>3 DEF Progress, FiringsHaveSamples, Writing, Retaining, Tables
<1>6. Expiring' /\ OkMeansRecorded' /\ ExpiredGone'
  BY <1>1, <1>2 DEF Expiring, OkMeansRecorded, ExpiredGone
<1> QED
  BY <1>4, <1>5, <1>6 DEF CycleRight

\* A batch is stored, by a commit that succeeds or by one that fails later.
LEMMA StoreStep ==
  ASSUME TypeOK, CycleRight, BatchWhole, Commit \/ (WriteFails /\ pc = "commit" /\ Store)
  PROVE  CycleRight'
<1>1. /\ pc = "commit" /\ Store /\ UNCHANGED <<batch, gone>>
      /\ left' = {} /\ staged' = Nothing
      /\ \/ pc' = "age" /\ UNCHANGED <<table, outcome>>
         \/ pc' = "idle" /\ table' = "metrics" /\ outcome' = "failed"
  BY DEF Commit, WriteFails, Failed, CycleRight, Transaction
<1>2. \A u \in Tables :
        Committed(u)' = IF u = table THEN Committed(u) \cup batch[u] ELSE Committed(u)
  BY <1>1, StoreKeeps DEF CycleRight
<1>3. /\ table \in Tables /\ outcome = "none"
      /\ table = "metrics" => batch["firings"] \cap Committed("firings") = {}
      /\ table = "firings" => batch["metrics"] \subseteq Committed("metrics")
  BY <1>1 DEF CycleRight, Progress, Writing, TypeOK
<1>4. Transaction'
  BY <1>1 DEF Transaction
<1>5. Progress' /\ FiringsHaveSamples'
  BY <1>1, <1>2, <1>3 DEF Progress, FiringsHaveSamples, Writing, Retaining, Tables
<1>6. Expiring' /\ OkMeansRecorded' /\ ExpiredGone'
  BY <1>1, <1>3 DEF Expiring, OkMeansRecorded, ExpiredGone, Writing
<1> QED
  BY <1>4, <1>5, <1>6 DEF CycleRight

\* The order of the texts is right about seconds.
LEMMA NotBefore ==
  ASSUME NEW a \in Int, NEW b \in Int, NEW c \in Int, c <= b, ~TextBefore(a, b)
  PROVE  Second(a) >= Second(c)
<1> DEFINE x == a \div 2
           y == b \div 2
           z == c \div 2
<1>1. x \in Int /\ y \in Int /\ z \in Int /\ z <= y
  OBVIOUS
<1>2. ~(x < y)
  BY DEF TextBefore, Second
<1> HIDE DEF x, y, z
<1>3. x >= z
  BY <1>1, <1>2
<1> QED
  BY <1>3 DEF x, z, Second

\* What a deletion by age leaves is not of an earlier second than its cutoff.
LEMMA LeftIsLater ==
  ASSUME TypeOK, Retention > 0, cutoff' \in Int, mark - Retention <= cutoff',
         NEW r \in Rows \ Expired
  PROVE  Second(r.at) >= Second(mark - Retention)
<1>1. ~TextBefore(r.at, cutoff')
  BY DEF Expired
<1>2. r.at \in Int /\ mark - Retention \in Int
  BY StoreAssumption DEF TypeOK, Rows
<1> QED
  BY <1>1, <1>2, NotBefore

\* A deletion leaves what was clean clean, and what it expires is clean after it.
LEMMA DeleteClean ==
  ASSUME TypeOK, NEW t \in Tables, NEW rows \in SUBSET Rows, Delete(t, rows), mark' = mark
  PROVE  /\ \A u \in Tables : Clean(u) => Clean(u)'
         /\ Retention > 0 /\ rows = Expired /\ cutoff' \in Int
              /\ mark - Retention <= cutoff' => Clean(t)'
<1>1. \A u \in Tables : Kept(u)' = IF u = t THEN Kept(u) \ rows ELSE Kept(u)
  BY DeleteKeeps
<1>2. ASSUME Retention > 0, rows = Expired, cutoff' \in Int, mark - Retention <= cutoff'
      PROVE  Clean(t)'
  <2>1. \A r \in Kept(t)' : r \in Rows /\ r \notin Expired
    BY <1>1, <1>2 DEF Kept
  <2> QED
    BY <1>2, <2>1, LeftIsLater DEF Clean
<1> QED
  BY <1>1, <1>2 DEF Clean

LEMMA DeleteStep ==
  ASSUME TypeOK, CycleRight, Dated,
         ExpireMetrics \/ ExpireFirings \/ TrimMetric \/ TrimFiring
  PROVE  CycleRight'
<1>1. /\ UNCHANGED <<table, batch, left, staged, attempt, outcome, mark>>
      /\ \/ pc = "age" /\ pc' = "ageFirings" /\ Delete("metrics", Expired)
         \/ /\ pc = "ageFirings" /\ pc' = "stat" /\ cutoff' = cutoff
            /\ Delete("firings", Expired)
         \/ /\ pc \in {"trimMetric", "trimFiring"} /\ pc' \in {"trimFiring", "stat"}
            /\ cutoff' = cutoff
            /\ \/ UNCHANGED <<stored, gone>>
               \/ \E t \in Tables, rows \in SUBSET Rows : Delete(t, rows)
  BY DeleteSteps
     DEF ExpireMetrics, ExpireFirings, TrimMetric, TrimFiring, RetentionKeeps, Keeps
<1>8. pc \in {"age", "ageFirings"} => cutoff' \in Int /\ mark - Retention <= cutoff'
  BY <1>1, StoreAssumption
     DEF Dated, TypeOK, ExpireMetrics, ExpireFirings, TrimMetric, TrimFiring
<1>2. \A u \in Tables : Committed(u)' = Committed(u)
  <2>1. CASE UNCHANGED <<stored, gone>>
    BY <2>1 DEF Committed, Kept
  <2>2. CASE \E t \in Tables, rows \in SUBSET Rows : Delete(t, rows)
    BY <2>2, DeleteKeeps
  <2>3. Expired \in SUBSET Rows
    BY DEF Expired
  <2> QED
    BY <1>1, <2>1, <2>2, <2>3 DEF Tables
<1>3. /\ pc \in Retaining /\ pc' \in Retaining
      /\ pc' \notin {"insert", "commit", "backoff"} /\ outcome = "none"
  BY <1>1 DEF CycleRight, Progress, Retaining
<1>4. Transaction'
  BY <1>1, <1>3 DEF CycleRight, Transaction, Retaining
<1>5. Progress' /\ FiringsHaveSamples'
  BY <1>1, <1>2, <1>3
     DEF CycleRight, Progress, FiringsHaveSamples, Writing, Retaining, Tables, TypeOK
<1>6. OkMeansRecorded' /\ ExpiredGone'
  BY <1>1, <1>3 DEF OkMeansRecorded, ExpiredGone
<1>7. Expiring'
  <2> SUFFICES ASSUME Retention > 0
               PROVE  /\ pc' = "ageFirings" => Clean("metrics")'
                      /\ pc' \in {"stat", "trimMetric", "trimFiring"} =>
                           \A t \in Tables : Clean(t)'
    BY <1>3 DEF Expiring, Writing, Retaining
  <2>1. Expired \in SUBSET Rows /\ "metrics" \in Tables /\ "firings" \in Tables
    BY DEF Expired, Tables
  <2>2. CASE pc = "age"
    BY <1>1, <1>8, <2>1, <2>2, DeleteClean
  <2>3. CASE pc = "ageFirings"
    <3>1. Clean("metrics") /\ Delete("firings", Expired)
      BY <1>1, <2>3 DEF CycleRight, Expiring
    <3>2. Clean("metrics")' /\ Clean("firings")'
      BY <1>1, <1>8, <2>1, <2>3, <3>1, DeleteClean
    <3> QED
      BY <1>1, <2>3, <3>2 DEF Tables
  <2>4. CASE pc \in {"trimMetric", "trimFiring"}
    <3>1. \A t \in Tables : Clean(t)
      BY <1>1, <2>4 DEF CycleRight, Expiring
    <3>2. CASE UNCHANGED <<stored, gone>>
      BY <1>1, <2>4, <3>1, <3>2, QuietCycle
    <3>3. CASE \E t \in Tables, rows \in SUBSET Rows : Delete(t, rows)
      BY <1>1, <2>4, <3>1, <3>3, DeleteClean
    <3> QED
      BY <1>1, <2>4, <3>2, <3>3
  <2> QED
    BY <1>1, <2>2, <2>3, <2>4
<1> QED
  BY <1>4, <1>5, <1>6, <1>7 DEF CycleRight

\* Opening, closing, restarting and the passage of time.
LEMMA OtherStep ==
  ASSUME TypeOK, CycleRight,
         \/ Open \/ Close \/ Start("closed") \/ Start("down") \/ Advance
         \/ UNCHANGED vars
  PROVE  CycleRight'
<1>1. UNCHANGED <<cycle, stored, gone, mark>>
  BY DEF Open, Migrate, Close, Start, Advance, vars
<1>2. \/ pc' = pc
      \/ /\ pc \in {"idle", "closed", "down"} \cup SchemaParts
         /\ pc' \in {"idle", "closed", "down"} \cup SchemaParts
  BY DEF Open, Migrate, Close, Start, Advance, vars, SchemaParts
<1>3. /\ UNCHANGED <<table, batch, left, staged, attempt, outcome>>
      /\ \A t : /\ Kept(t)' = Kept(t) /\ Committed(t)' = Committed(t)
               /\ Clean(t)' = Clean(t)
  BY <1>1, QuietCycle DEF cycle
<1>4. Transaction' /\ Progress'
  BY <1>2, <1>3
     DEF CycleRight, Transaction, Progress, Writing, Retaining, SchemaParts
<1>5. Expiring'
  BY <1>2, <1>3 DEF CycleRight, Expiring, Writing, SchemaParts
<1>6. OkMeansRecorded' /\ FiringsHaveSamples' /\ ExpiredGone'
  BY <1>3 DEF CycleRight, OkMeansRecorded, FiringsHaveSamples, ExpiredGone
<1> QED
  BY <1>4, <1>5, <1>6 DEF CycleRight

LEMMA CycleStep ==
  ASSUME TypeOK, CycleRight, RowsRight, Dated, [Next]_vars
  PROVE  CycleRight'
<1>1. NoRows \/ BeginTx \/ (\E r \in Rows : Insert(r)) \/ Conflict \/ Retry
        \/ TooLarge \/ SmallEnough \/ RetentionFails \/ Crash
      => UNCHANGED <<stored, gone, mark>>
  BY DEF NoRows, BeginTx, Insert, Conflict, Retry, TooLarge, SmallEnough, RetentionFails,
         Crash, RetentionKeeps, Keeps
<1>2. WriteFails => \/ UNCHANGED <<stored, gone, mark>>
                    \/ WriteFails /\ pc = "commit" /\ Store
  BY DEF WriteFails, Keeps
<1> QED
  BY <1>1, <1>2, QuietStep, BeginStep, StoreStep, DeleteStep, OtherStep
     DEF Next, Write, Retain, RowsRight

----------------------------------------------------------------------------
(* The cutoff. *)

LEMMA DatedStep ==
  ASSUME TypeOK, Dated, [Next]_vars
  PROVE  Dated'
<1>1. CASE ExpireMetrics
  <2>1. cutoff' = clock - Retention /\ clock' = clock /\ mark' = mark
    BY <1>1 DEF ExpireMetrics, RetentionKeeps, Keeps
  <2>2. clock \in Int /\ Retention \in Int /\ mark \in Int /\ mark <= clock
    BY StoreAssumption DEF TypeOK
  <2> QED
    BY <2>1, <2>2 DEF Dated
<1>2. CASE Open \/ Begin \/ Write \/ Close \/ Crash \/ Start("closed") \/ Start("down")
           \/ ExpireFirings \/ TooLarge \/ SmallEnough \/ TrimMetric \/ TrimFiring
           \/ RetentionFails
  <2>1. pc' # "ageFirings"
    BY <1>2 DEF Open, Migrate, Begin, Write, NoRows, BeginTx, Insert, Commit, Conflict, Retry,
                WriteFails, Recorded, Failed, Close, Crash, Start, ExpireFirings, TooLarge,
                SmallEnough, TrimMetric, TrimFiring, RetentionFails
  <2> QED
    BY <2>1 DEF Dated
<1>3. CASE Advance
  BY <1>3, StoreAssumption DEF Advance, cycle, Dated, TypeOK
<1>4. CASE UNCHANGED vars
  BY <1>4 DEF vars, cycle, Dated
<1> QED
  BY <1>1, <1>2, <1>3, <1>4 DEF Next, Retain

\* What a deletion by age takes is past the cutoff, or in the same second.
LEMMA PastCutoff ==
  ASSUME TypeOK, NEW r \in Expired, cutoff' \in Int, cutoff' <= clock - Retention
  PROVE  clock - r.at >= Retention - 1
<1>1. r \in Rows /\ TextBefore(r.at, cutoff')
  BY DEF Expired
<1>2. r.at \in Int /\ clock \in Int /\ Retention \in Int
  BY <1>1, RowTimes, StoreAssumption DEF TypeOK
<1>3. r.at \div 2 <= cutoff' \div 2
  BY <1>1, <1>2, TextOrder DEF Second
<1>4. r.at <= cutoff' + 1
  BY <1>2, <1>3
<1> QED
  BY <1>2, <1>4

----------------------------------------------------------------------------
(* The schema. *)

LEMMA SchemaStep ==
  ASSUME TypeOK, Opened, SchemaReady, [Next]_vars
  PROVE  Opened' /\ SchemaReady'
<1>1. CASE Open
  BY <1>1 DEF Open, Migrate, Tolerated, Created, Opened, SchemaReady, SchemaParts, TypeOK
<1>2. CASE Start("closed") \/ Start("down")
  BY <1>2 DEF Start, Opened, SchemaReady, SchemaParts
<1>3. CASE Crash
  BY <1>3 DEF Crash, Opened, SchemaReady, SchemaParts
<1>4. CASE UNCHANGED <<pc, schema>>
  BY <1>4 DEF Opened, SchemaReady
<1>5. CASE Begin \/ Write \/ Retain \/ Close \/ Advance
  <2>1. schema' = schema
    BY <1>5 DEF Begin, Write, Retain, Close, Advance, NoRows, BeginTx, Insert, Commit,
                Conflict, Retry, WriteFails, ExpireMetrics, ExpireFirings, TooLarge,
                SmallEnough, TrimMetric, TrimFiring, RetentionFails, RetentionKeeps, Keeps
  <2>2. pc \notin SchemaParts \cup {"down"} /\ pc' \notin SchemaParts
    BY <1>5 DEF Begin, Write, Retain, Close, Advance, NoRows, BeginTx, Insert, Commit,
                Conflict, Retry, WriteFails, ExpireMetrics, ExpireFirings, TooLarge,
                SmallEnough, TrimMetric, TrimFiring, RetentionFails, Recorded, Failed,
                SchemaParts
  <2> QED
    BY <2>1, <2>2 DEF Opened, SchemaReady, SchemaParts
<1> QED
  BY <1>1, <1>2, <1>3, <1>4, <1>5 DEF Next, vars

----------------------------------------------------------------------------
(* The theorems. *)

LEMMA InitIInv ==
  ASSUME Init
  PROVE  IInv
<1>1. TypeOK
  BY InitType
<1>2. \A t \in Tables : Kept(t) = {} /\ gone[t] = {} /\ batch[t] = {}
  BY DEF Init, Kept, Nothing
<1>3. \A t \in Tables : Committed(t) = {}
  BY <1>2 DEF Committed
<1>4. Transaction /\ Progress /\ Expiring /\ Dated /\ Opened /\ SchemaReady
  BY DEF Init, Transaction, Progress, Expiring, Dated, Opened, SchemaReady, Writing, Retaining,
         SchemaParts
<1>5. NothingTwice
  BY DEF Init, NothingTwice, Nothing
<1>6. InOrder /\ BatchWhole /\ KeptIsNewest
  BY <1>2, <1>3 DEF InOrder, BatchWhole, KeptIsNewest
<1>7. OkMeansRecorded /\ FiringsHaveSamples /\ ExpiredGone
  BY <1>2, <1>3 DEF Init, OkMeansRecorded, FiringsHaveSamples, ExpiredGone, Tables
<1> QED
  BY <1>1, <1>4, <1>5, <1>6, <1>7 DEF IInv

LEMMA StepIInv == IInv /\ [Next]_vars => IInv'
<1> SUFFICES ASSUME IInv, [Next]_vars
             PROVE  IInv'
  OBVIOUS
<1>1. TypeOK /\ RowsRight /\ CycleRight /\ Dated /\ Opened /\ SchemaReady
  BY DEF IInv, RowsRight, CycleRight
<1>2. TypeOK' /\ RowsRight' /\ CycleRight' /\ Dated' /\ Opened' /\ SchemaReady'
  BY <1>1, TypeStep, RowsStep, CycleStep, DatedStep, SchemaStep DEF CycleRight
<1> QED
  BY <1>2 DEF IInv, RowsRight, CycleRight

\* Transaction, cycle, rows and schema fit together in every reachable state.
THEOREM Inductive == Spec => []IInv
BY InitIInv, StepIInv, PTL DEF Spec

\* The state of the history store keeps its types.
THEOREM TypeCorrect == Spec => []TypeOK
<1>1. IInv => TypeOK
  BY DEF IInv
<1> QED
  BY <1>1, Inductive, PTL

\* A write that is tried again after a conflict, or that fails with an error
\* after its commit, never stores a row twice.
THEOREM StoredOnce == Spec => []NothingTwice
<1>1. IInv => NothingTwice
  BY DEF IInv
<1> QED
  BY <1>1, Inductive, PTL

\* Of the samples, and of the firings, of a cycle the history has all or none,
\* whatever conflicts, fails or crashes.
THEOREM BatchesAreWhole == Spec => []BatchWhole
<1>1. IInv => BatchWhole
  BY DEF IInv
<1> QED
  BY <1>1, Inductive, PTL

\* recordHistory returns nil only if all of its rows were committed, and no
\* firing is committed without the samples of its cycle.
THEOREM RecordedInOrder == Spec => [](OkMeansRecorded /\ FiringsHaveSamples)
<1>1. IInv => OkMeansRecorded /\ FiringsHaveSamples
  BY DEF IInv
<1> QED
  BY <1>1, Inductive, PTL

\* Retention never deletes a row of a later second than one that it keeps,
\* although it compares texts that drop trailing zeros.
THEOREM OldestGoFirst == Spec => []KeptIsNewest
<1>1. IInv => KeptIsNewest
  BY DEF IInv
<1> QED
  BY <1>1, Inductive, PTL

\* After a nil for a batch with samples nothing is left that is of an earlier
\* second than the one in which the retention ended when the cycle recorded:
\* the order of texts never keeps more than that second.
THEOREM ExpiredAreGone == Spec => []ExpiredGone
<1>1. IInv => ExpiredGone
  BY DEF IInv
<1> QED
  BY <1>1, Inductive, PTL

\* applyRetention: what is deleted for its age is older than the retention, or
\* in the second that ends with it, although texts are compared and time may
\* pass between the commit and the deletions.
THEOREM FreshRowsSurvive == Spec => FreshSurvives
<1> DEFINE A == \A t \in Tables : \A r \in gone'[t] \ gone[t] :
                  pc \in {"age", "ageFirings"} => clock - r.at >= Retention - 1
<1>1. ASSUME IInv, Next
      PROVE  A
  <2>1. SUFFICES ASSUME NEW t \in Tables, NEW r \in gone'[t] \ gone[t], pc \in {"age", "ageFirings"}
                 PROVE  clock - r.at >= Retention - 1
    OBVIOUS
  <2>2. TypeOK /\ Dated /\ clock \in Int /\ Retention \in Int
    BY <1>1, StoreAssumption DEF IInv, TypeOK
  <2>3. ExpireMetrics \/ ExpireFirings
    <3>1. gone' # gone
      BY <2>1
    <3>2. Open \/ Begin \/ Write \/ Close \/ Crash \/ Start("closed") \/ Start("down") \/ Advance
            \/ TooLarge \/ SmallEnough \/ RetentionFails => gone' = gone
      BY DEF Open, Migrate, Begin, Write, NoRows, BeginTx, Insert, Commit, Conflict, Retry, WriteFails,
             Close, Crash, Start, Advance, TooLarge, SmallEnough, RetentionFails
    <3>3. ~TrimMetric /\ ~TrimFiring
      BY <2>1 DEF TrimMetric, TrimFiring
    <3> QED
      BY <1>1, <3>1, <3>2, <3>3 DEF Next, Retain
  <2>4. /\ \E u \in Tables : Delete(u, Expired)
        /\ cutoff' \in Int /\ cutoff' <= clock - Retention
    BY <2>1, <2>2, <2>3 DEF ExpireMetrics, ExpireFirings, Tables, TypeOK, Dated
  <2>5. PICK u \in Tables : Delete(u, Expired)
    BY <2>4
  <2>6. Expired \in SUBSET Rows
    BY DEF Expired
  <2>7. r \in Expired
    <3>1. gone'[t] = IF t = u THEN gone[t] \cup (Expired \cap Kept(t)) ELSE gone[t]
      BY <2>2, <2>5, <2>6, DeleteKeeps
    <3> QED
      BY <2>1, <3>1
  <2> QED
    BY <2>2, <2>4, <2>7, PastCutoff
<1>2. ASSUME IInv, UNCHANGED vars
      PROVE  A
  BY <1>2 DEF vars
<1>3. IInv /\ [Next]_vars => [A]_vars
  BY <1>1, <1>2
<1> QED
  BY <1>3, Inductive, PTL DEF Spec, FreshSurvives

=============================================================================
