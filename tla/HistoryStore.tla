----------------------------- MODULE HistoryStore -----------------------------
(***************************************************************************)
(* The history of samples and alerts: Monitor.recordHistory (monitor.go)   *)
(* and the tinySQL store behind it (history/tinysql.go).                   *)
(*                                                                         *)
(* The polling goroutine is the only writer.  What makes the order of      *)
(* steps matter are conflicts that are retried, errors and the deadline of *)
(* the context at any step, deletions that run after the commit, and       *)
(* crashes.  The database is external: a transaction commits as a whole or *)
(* not at all, a conflict means that it has not; any other error of a      *)
(* commit leaves open whether it has.  The primary keys are not relied on. *)
(* How large the file is after a deletion is left open.                    *)
(*                                                                         *)
(* Time is counted in half seconds, because rows are ordered by the text   *)
(* of their time.  A reading of the history changes nothing and is left    *)
(* out, as is the store of storage.type none, which does nothing.          *)
(***************************************************************************)
EXTENDS Integers, FiniteSets

CONSTANTS
    Samples,       \* results in a batch of the polling loop
    MaxFirings,    \* bound: firings of a cycle
    Retention,     \* storage.retention_days, in half seconds; 0: off
    SizeLimited,   \* storage.max_size_mb > 0
    Attempts,      \* tinySQLWriteAttempts
    TrimLimit,     \* the rounds of trimBySize
    MaxClock,      \* bound: the last instant of a behaviour
    MaxCrashes     \* bound: crashes of the process

ASSUME StoreAssumption ==
    /\ Samples \in Nat /\ MaxFirings \in Nat
    /\ Retention \in Nat /\ Retention % 2 = 0
    /\ SizeLimited \in BOOLEAN
    /\ Attempts \in Nat \ {0} /\ TrimLimit \in Nat
    /\ MaxClock \in Nat /\ MaxCrashes \in Nat

VARIABLES
    pc,        \* the writing goroutine, or the state of the process
    table,     \* the table being written
    batch,     \* batch[t]: the rows of this cycle for table t
    left,      \* those the transaction has yet to insert
    staged,    \* staged[r]: copies of r in the transaction
    attempt,   \* retryTinySQLWrite's attempt, from 1
    cutoff,    \* applyRetention's cutoff
    trims,     \* rounds of trimBySize so far
    outcome,   \* what the last recordHistory returned
    stored,    \* stored[t][r]: committed copies of r in table t
    schema,    \* the parts of the schema that exist in the file
    clock,     \* now
    mark,      \* when the last cycle recorded: later samples are later
    crashes,   \* crashes so far
    gone       \* history: gone[t]: the rows deleted from table t

cycle == <<table, batch, left, staged, attempt, cutoff, trims, outcome>>

vars == <<pc, cycle, stored, schema, clock, mark, crashes, gone>>

Tables == {"metrics", "firings"}

SchemaParts == {"tables", "indexes", "columns"}

Rows == [at : 0 .. MaxClock, of : 1 .. Samples + MaxFirings]

Nothing == [r \in Rows |-> 0]

Kept(t) == {r \in Rows : stored[t][r] > 0}

\* RFC3339Nano drops trailing zeros and "." sorts before "Z": the text of a
\* whole second comes after the texts of its fractions.
Second(t) == t \div 2

TextBefore(t, u) ==
    Second(t) < Second(u) \/ (Second(t) = Second(u) /\ t % 2 > u % 2)

\* A new file, or one of a version that had no indexes and fewer columns.
Init ==
    /\ pc = "tables"
    /\ table = "metrics"
    /\ batch = [t \in Tables |-> {}]
    /\ left = {} /\ staged = Nothing
    /\ attempt = 1 /\ cutoff = 0 /\ trims = 0
    /\ outcome = "none"
    /\ stored = [t \in Tables |-> Nothing]
    /\ schema \in {{}, {"tables"}}
    /\ clock = 0 /\ mark = 0 /\ crashes = 0
    /\ gone = [t \in Tables |-> {}]

----------------------------------------------------------------------------
(* Opening the file: initSchema runs on every start. *)

\* Mutant: a column that exists already is an error.
MutTolerated == {"tables", "indexes"}

\* IF NOT EXISTS, and isDuplicateSchemaError.
Tolerated == SchemaParts

\* A new table has all its columns.
Created(part) == IF part = "tables" THEN {"tables", "columns"} ELSE {part}

Migrate(part, next) ==
    /\ pc = part
    /\ schema' = IF part \in schema THEN schema ELSE schema \cup Created(part)
    /\ pc' = IF part \in schema /\ part \notin Tolerated THEN "down" ELSE next
    /\ UNCHANGED <<cycle, stored, clock, mark, crashes, gone>>

Open ==
    \/ Migrate("tables", "indexes") \/ Migrate("indexes", "columns")
    \/ Migrate("columns", "idle")

----------------------------------------------------------------------------
(* recordHistory. *)

Keeps == UNCHANGED <<schema, clock, mark, crashes>>

\* A cycle delivers its batch.  A sample is of its collection, a firing of the
\* evaluation; both are later than what the cycle before has recorded.
Begin ==
    /\ pc = "idle" /\ mark < clock
    /\ \E times \in [1 .. Samples -> mark + 1 .. clock], n \in 0 .. MaxFirings,
          fired \in mark + 1 .. clock :
         /\ \A i \in 1 .. Samples : times[i] <= fired
         /\ batch' = [metrics |-> {[at |-> times[i], of |-> i] : i \in 1 .. Samples},
                      firings |-> {[at |-> fired, of |-> i] : i \in 1 .. n}]
    /\ pc' = "begin" /\ outcome' = "none"
    /\ mark' = clock /\ cutoff' = 0
    /\ UNCHANGED <<table, attempt, left, staged, trims, stored, schema, clock, crashes, gone>>

\* RecordFirings follows RecordMetrics; then recordHistory returns nil.
Recorded ==
    /\ IF table = "metrics"
       THEN pc' = "begin" /\ table' = "firings" /\ attempt' = 1 /\ UNCHANGED outcome
       ELSE pc' = "idle" /\ table' = "metrics" /\ attempt' = 1 /\ outcome' = "ok"

\* recordHistory returns an error, which is logged; no more of the batch is written.
Failed == pc' = "idle" /\ table' = "metrics" /\ attempt' = 1 /\ outcome' = "failed"

\* No rows of this kind: nothing is written, and nothing is expired.
NoRows ==
    /\ pc = "begin" /\ batch[table] = {}
    /\ Recorded
    /\ UNCHANGED <<batch, left, staged, cutoff, trims, stored, gone>> /\ Keeps

BeginTx ==
    /\ pc = "begin" /\ batch[table] # {}
    /\ pc' = "insert" /\ left' = batch[table]
    /\ UNCHANGED <<table, batch, staged, attempt, cutoff, trims, outcome, stored, gone>> /\ Keeps

\* Mutant: the row is written without the transaction.
MutInsert(r) ==
    /\ pc = "insert" /\ r \in left /\ \A q \in left : r.of <= q.of
    /\ left' = left \ {r}
    /\ stored' = [stored EXCEPT ![table][r] = @ + 1]
    /\ pc' = IF left' = {} THEN "commit" ELSE "insert"
    /\ UNCHANGED <<table, batch, staged, attempt, cutoff, trims, outcome, gone>> /\ Keeps

Insert(r) ==
    /\ pc = "insert" /\ r \in left /\ \A q \in left : r.of <= q.of
    /\ left' = left \ {r}
    /\ staged' = [staged EXCEPT ![r] = @ + 1]
    /\ pc' = IF left' = {} THEN "commit" ELSE "insert"
    /\ UNCHANGED <<table, batch, attempt, cutoff, trims, outcome, stored, gone>> /\ Keeps

Store == stored' = [stored EXCEPT ![table] = [r \in Rows |-> @[r] + staged[r]]]

Commit ==
    /\ pc = "commit"
    /\ Store
    /\ staged' = Nothing
    /\ pc' = "age" /\ attempt' = 1
    /\ UNCHANGED <<table, batch, left, cutoff, trims, outcome, gone>> /\ Keeps

\* Mutant: the transaction is begun once, before the first attempt.
MutConflict ==
    /\ pc \in {"insert", "commit"}
    /\ left' = {} /\ UNCHANGED staged
    /\ IF attempt = Attempts
       THEN Failed
       ELSE pc' = "backoff" /\ UNCHANGED <<table, attempt, outcome>>
    /\ UNCHANGED <<batch, cutoff, trims, stored, gone>> /\ Keeps

\* Mutant: after the last attempt nil is returned.
MutGivesUp ==
    /\ pc \in {"insert", "commit"}
    /\ staged' = Nothing /\ left' = {}
    /\ IF attempt = Attempts
       THEN Recorded
       ELSE pc' = "backoff" /\ UNCHANGED <<table, attempt, outcome>>
    /\ UNCHANGED <<batch, cutoff, trims, stored, gone>> /\ Keeps

\* ErrTransactionConflict: rolled back, and written again unless it was the last.
Conflict ==
    /\ pc \in {"insert", "commit"}
    /\ staged' = Nothing /\ left' = {}
    /\ IF attempt = Attempts
       THEN Failed
       ELSE pc' = "backoff" /\ UNCHANGED <<table, attempt, outcome>>
    /\ UNCHANGED <<batch, cutoff, trims, stored, gone>> /\ Keeps

\* The timer of the retry, unless the context ends first.
Retry ==
    /\ pc = "backoff"
    /\ \/ pc' = "begin" /\ attempt' = attempt + 1 /\ UNCHANGED <<table, outcome>>
       \/ Failed
    /\ UNCHANGED <<batch, left, staged, cutoff, trims, stored, gone>> /\ Keeps

\* Any other error, json.Marshal's included: rolled back, not written again.
WriteFails ==
    /\ pc \in {"begin", "insert", "commit"} /\ batch[table] # {}
    /\ Failed
    /\ left' = {} /\ staged' = Nothing
    /\ UNCHANGED stored \/ (pc = "commit" /\ Store)
    /\ UNCHANGED <<batch, cutoff, trims, gone>> /\ Keeps

----------------------------------------------------------------------------
(* applyRetention. *)

Delete(t, rows) ==
    /\ stored' = [stored EXCEPT ![t] = [r \in Rows |-> IF r \in rows THEN 0 ELSE @[r]]]
    /\ gone' = [gone EXCEPT ![t] = @ \cup (rows \cap Kept(t))]

\* Mutant: the retention is added to now.
MutExpired == IF Retention = 0 THEN {} ELSE {r \in Rows : TextBefore(r.at, clock + Retention)}

Expired == IF Retention = 0 THEN {} ELSE {r \in Rows : TextBefore(r.at, cutoff')}

RetentionKeeps ==
    UNCHANGED <<table, batch, left, staged, attempt, outcome>> /\ Keeps

\* Samples older than the cutoff go first.
ExpireMetrics ==
    /\ pc = "age"
    /\ cutoff' = clock - Retention
    /\ Delete("metrics", Expired)
    /\ pc' = "ageFirings"
    /\ UNCHANGED trims /\ RetentionKeeps

\* Mutant: the firings are never expired.
MutExpireFirings ==
    /\ pc = "ageFirings"
    /\ UNCHANGED <<cutoff, stored, gone>>
    /\ pc' = "stat"
    /\ UNCHANGED trims /\ RetentionKeeps

ExpireFirings ==
    /\ pc = "ageFirings"
    /\ UNCHANGED cutoff
    /\ Delete("firings", Expired)
    /\ pc' = "stat"
    /\ UNCHANGED trims /\ RetentionKeeps

MayTrim == SizeLimited /\ trims < TrimLimit

\* trimBySize looks at the file: another round if it is too large.
TooLarge ==
    /\ pc = "stat" /\ MayTrim
    /\ pc' = "trimMetric" /\ trims' = trims + 1
    /\ UNCHANGED <<cutoff, stored, gone>> /\ RetentionKeeps

\* It is small enough, cannot be looked at, or the rounds are used up.
SmallEnough ==
    /\ pc = "stat"
    /\ Recorded /\ trims' = 0
    /\ UNCHANGED <<batch, left, staged, cutoff, stored, gone>> /\ Keeps

\* Mutant: ORDER BY ... DESC.
MutOldest(t, r) == \A q \in Kept(t) : ~TextBefore(r.at, q.at)

Oldest(t, r) == \A q \in Kept(t) : ~TextBefore(q.at, r.at)

DeleteOldest(t) ==
    \/ Kept(t) = {} /\ UNCHANGED <<stored, gone>>
    \/ \E r \in Kept(t) : Oldest(t, r) /\ Delete(t, {r})

TrimMetric ==
    /\ pc = "trimMetric" /\ pc' = "trimFiring"
    /\ UNCHANGED <<cutoff, trims>> /\ RetentionKeeps
    /\ DeleteOldest("metrics")

TrimFiring ==
    /\ pc = "trimFiring" /\ pc' = "stat"
    /\ UNCHANGED <<cutoff, trims>> /\ RetentionKeeps
    /\ DeleteOldest("firings")

\* A deletion fails after the commit: the same error as a failed write.
RetentionFails ==
    /\ pc \in {"age", "ageFirings", "trimMetric", "trimFiring"}
    /\ Failed /\ trims' = 0
    /\ UNCHANGED <<batch, left, staged, cutoff, stored, gone>> /\ Keeps

----------------------------------------------------------------------------
(* The process. *)

\* Monitor.Stop comes between two cycles, and closes the store.
Close ==
    /\ pc = "idle" /\ pc' = "closed"
    /\ UNCHANGED <<cycle, stored, schema, clock, mark, crashes, gone>>

\* The process ends at any other place: its transaction is gone, its batch too
\* (batch keeps it for the properties).
Crash ==
    /\ pc \notin {"closed", "down"} /\ crashes < MaxCrashes
    /\ pc' = "down" /\ crashes' = crashes + 1
    /\ table' = "metrics" /\ attempt' = 1 /\ trims' = 0 /\ outcome' = "none"
    /\ left' = {} /\ staged' = Nothing
    /\ UNCHANGED <<batch, cutoff, stored, schema, clock, mark, gone>>

\* The service is started, after a crash without being asked.
Start(from) ==
    /\ pc = from /\ pc' = "tables"
    /\ UNCHANGED <<cycle, stored, schema, clock, mark, crashes, gone>>

\* Begin and ExpireMetrics alone read the clock: nobody can tell whether time
\* passed before them or earlier.
Advance ==
    /\ pc \in {"idle", "age"}
    /\ clock < MaxClock /\ clock' = clock + 1
    /\ UNCHANGED <<pc, cycle, stored, schema, mark, crashes, gone>>

Write ==
    \/ NoRows \/ BeginTx \/ (\E r \in Rows : Insert(r)) \/ Commit \/ Conflict
    \/ Retry \/ WriteFails

Retain ==
    \/ ExpireMetrics \/ ExpireFirings \/ TooLarge \/ SmallEnough
    \/ TrimMetric \/ TrimFiring \/ RetentionFails

Next ==
    \/ Open \/ Begin \/ Write \/ Retain
    \/ Close \/ Crash \/ Start("closed") \/ Start("down") \/ Advance

Spec == Init /\ [][Next]_vars

\* Every call of the database returns, and a process that failed is restarted
\* (Restart=on-failure); nobody has to start one that was stopped.
FairSpec == Spec /\ WF_vars(Open) /\ WF_vars(Write \/ Retain) /\ WF_vars(Start("down"))

----------------------------------------------------------------------------
(* Properties. *)

TypeOK ==
    /\ pc \in {"idle", "begin", "insert", "commit", "backoff", "age", "ageFirings",
               "stat", "trimMetric", "trimFiring", "closed", "down"} \cup SchemaParts
    /\ table \in Tables
    /\ batch \in [Tables -> SUBSET Rows]
    /\ left \in SUBSET Rows
    /\ staged \in [Rows -> Nat]
    /\ attempt \in 1 .. Attempts
    /\ cutoff \in Int
    /\ trims \in 0 .. TrimLimit
    /\ outcome \in {"none", "ok", "failed"}
    /\ stored \in [Tables -> [Rows -> Nat]]
    /\ schema \in SUBSET SchemaParts
    /\ clock \in 0 .. MaxClock /\ mark \in 0 .. clock
    /\ crashes \in 0 .. MaxCrashes
    /\ gone \in [Tables -> SUBSET Rows]

\* What of the table was ever committed.
Committed(t) == Kept(t) \cup gone[t]

\* "The callback must be idempotent until its transaction commits": whatever is
\* retried, no row is stored twice.
NothingTwice == \A t \in Tables, r \in Rows : stored[t][r] <= 1

\* A batch is in the history as a whole or not at all, through conflicts, errors
\* and crashes.
BatchWhole ==
    \A t \in Tables : batch[t] \cap Committed(t) \in {{}, batch[t]}

\* recordHistory returns nil only if the whole batch was committed.
OkMeansRecorded ==
    outcome = "ok" => \A t \in Tables : batch[t] \subseteq Committed(t)

\* An alert is in the history only together with the samples of its cycle.
FiringsHaveSamples ==
    batch["firings"] \cap Committed("firings") # {} =>
        batch["metrics"] \subseteq Committed("metrics")

\* "Trims the oldest history records": although times are ordered as text, no
\* row was deleted that is of a later second than one that is kept.
KeptIsNewest ==
    \A t \in Tables : \A r \in Kept(t), q \in gone[t] : Second(q.at) <= Second(r.at)

\* A row that a step deletes for its age is older than the retention, or in the
\* second that ends with it.
FreshSurvives ==
    [][\A t \in Tables : \A r \in gone'[t] \ gone[t] :
         pc \in {"age", "ageFirings"} => clock - r.at >= Retention - 1]_vars

\* Nothing is of an earlier second than the one in which the retention ends, as
\* seen when the cycle recorded.
Clean(t) == \A r \in Kept(t) : Second(r.at) >= Second(mark - Retention)

\* "retention_days removes older records": when recordHistory returns nil for a
\* batch with samples, neither table holds a row that was older than the
\* retention by a second or more when the cycle began to record.  In the second
\* in which the retention ends an older row may be left, since the text of a
\* whole second comes after those of its fractions.
ExpiredGone ==
    outcome = "ok" /\ batch["metrics"] # {} /\ Retention > 0 => \A t \in Tables : Clean(t)

\* Samples are written only to a schema that is complete, from whichever version
\* and crash the file comes.
SchemaReady ==
    pc \notin SchemaParts \cup {"down"} => schema = SchemaParts

\* Opening and recording end, whatever conflicts, fails or crashes.
Settles == (pc \notin {"idle", "closed"}) ~> (pc \in {"idle", "closed"})

(***************************************************************************)
(* The inductive invariant: what the transaction holds, how far the cycle  *)
(* has come, and that no committed row is later than one of the batch.     *)
(***************************************************************************)

Writing == {"begin", "insert", "commit", "backoff"}

Retaining == {"age", "ageFirings", "stat", "trimMetric", "trimFiring"}

\* The transaction holds the part of the batch that it has inserted, once.
Transaction ==
    /\ pc \in {"insert", "commit"} =>
         /\ left \subseteq batch[table]
         /\ staged = [r \in Rows |-> IF r \in batch[table] \ left THEN 1 ELSE 0]
    /\ pc \notin {"insert", "commit"} => left = {} /\ staged = Nothing
    /\ pc = "commit" => left = {}
    /\ pc = "backoff" => attempt < Attempts

\* What is committed of the batch, for each step of the cycle.
Progress ==
    /\ pc \in Writing => batch[table] \cap Committed(table) = {}
    /\ pc \in Retaining => batch[table] \subseteq Committed(table)
    /\ pc \in Writing \cup Retaining =>
         /\ outcome = "none"
         /\ table = "metrics" => batch["firings"] \cap Committed("firings") = {}
         /\ table = "firings" => batch["metrics"] \subseteq Committed("metrics")
    /\ pc \notin Writing \cup Retaining => table = "metrics"

InOrder ==
    \A t \in Tables :
        /\ \A r \in batch[t] \cup Committed(t) : r.at <= mark
        /\ \A r \in batch[t], q \in Committed(t) \ batch[t] : q.at < r.at

\* What applyRetention has expired so far.
Expiring ==
    Retention > 0 =>
        /\ pc = "ageFirings" => Clean("metrics")
        /\ \/ pc \in {"stat", "trimMetric", "trimFiring"}
           \/ pc \in Writing /\ table = "firings" /\ batch["metrics"] # {}
           => \A t \in Tables : Clean(t)

\* The two deletions by age use one cutoff, of some time since the cycle began.
Dated ==
    pc = "ageFirings" => mark - Retention <= cutoff /\ cutoff <= clock - Retention

Opened ==
    /\ pc = "indexes" => "tables" \in schema
    /\ pc = "columns" => {"tables", "indexes"} \subseteq schema

\* The inductive invariant of the history.
IInv ==
    /\ TypeOK /\ Transaction /\ Progress /\ InOrder /\ Expiring /\ Dated /\ Opened
    /\ NothingTwice /\ BatchWhole /\ OkMeansRecorded /\ FiringsHaveSamples
    /\ KeptIsNewest /\ ExpiredGone /\ SchemaReady
=============================================================================
