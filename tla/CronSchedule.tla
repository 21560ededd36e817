----------------------------- MODULE CronSchedule -----------------------------
(***************************************************************************)
(* The cron subset of internal/schedule: what Parse makes of an            *)
(* expression and which minutes Matches accepts.  An expression is a       *)
(* record of its five fields, a field the sequence of the items between    *)
(* its commas.  A name ("mon") stands for its number, and a text that is   *)
(* no number for one outside every range: both are refused alike.          *)
(***************************************************************************)
EXTENDS Integers, Sequences

CONSTANT MaxInt    \* the greatest int

ASSUME IntAssumption == MaxInt \in Nat /\ MaxInt >= 127

\* "*", "from", "from-to", each with a "/step" or with 1 for none.
Items == [base : {"any", "one", "range"}, from : Int, to : Int, step : Int]

Every(n) == <<[base |-> "any", from |-> 0, to |-> 0, step |-> n]>>

Only(n) == <<[base |-> "one", from |-> n, to |-> n, step |-> 1]>>

\* A field of an expression with the least and the greatest value it may name.
Limits == [minute |-> <<0, 59>>, hour |-> <<0, 23>>, dayOfMonth |-> <<1, 31>>,
           month |-> <<1, 12>>, dayOfWeek |-> <<0, 7>>]

Parts == {"minute", "hour", "dayOfMonth", "month", "dayOfWeek"}

Expressions == [Parts -> Seq(Items)]

Fields(minute, hour, dayOfMonth, month, dayOfWeek) ==
    [minute |-> minute, hour |-> hour, dayOfMonth |-> dayOfMonth, month |-> month,
     dayOfWeek |-> dayOfWeek]

\* @hourly, @daily, @weekly, @monthly and @yearly.
Descriptors ==
    LET any == Every(1)
    IN {Fields(Only(0), any, any, any, any),
        Fields(Only(0), Only(0), any, any, any),
        Fields(Only(0), Only(0), any, any, Only(0)),
        Fields(Only(0), Only(0), Only(1), any, any),
        Fields(Only(0), Only(0), Only(1), Only(1), any)}

----------------------------------------------------------------------------
(* Parse *)

InLimits(v, part) == Limits[part][1] <= v /\ v <= Limits[part][2]

\* parseStep, parseRange and parseValue return no error; Atoi refuses what no
\* int holds.
ItemParses(item, part) ==
    /\ 0 < item.step /\ item.step <= MaxInt
    /\ item.base \in {"one", "range"} => InLimits(item.from, part)
    /\ item.base = "range" => InLimits(item.to, part) /\ item.from <= item.to

StartOf(item, part) == IF item.base = "any" THEN Limits[part][1] ELSE item.from

EndOf(item, part) ==
    IF item.base = "any" THEN Limits[part][2]
    ELSE IF item.base = "one" THEN item.from ELSE item.to

\* What an int holds of the sum n.
Wrap(n) == ((n + MaxInt + 1) % (2 * (MaxInt + 1))) - (MaxInt + 1)

\* The value of the loop's variable before its round k.
ValueAt(item, part, k) == Wrap(StartOf(item, part) + k * item.step)

\* The loop ends with the first value above the end: round k is entered when
\* none was before it.
Visited(item, part) ==
    {ValueAt(item, part, k) : k \in
       {k \in 0 .. MaxInt : \A j \in 0 .. k : ValueAt(item, part, j) <= EndOf(item, part)}}

\* Sunday is 0 and 7.
Folded(v, part) == IF part = "dayOfWeek" /\ v = 7 THEN 0 ELSE v

parseField(items, part) ==
    UNION {{Folded(v, part) : v \in Visited(items[i], part)} : i \in DOMAIN items}

FieldParses(items, part) ==
    items # <<>> /\ \A i \in DOMAIN items : ItemParses(items[i], part)

Parses(expr) == \A part \in Parts : FieldParses(expr[part], part)

Complete(values, least, greatest) == least .. greatest \subseteq values

Parse(expr) == [
    values      |-> [part \in Parts |-> parseField(expr[part], part)],
    domWildcard |-> Complete(parseField(expr.dayOfMonth, "dayOfMonth"), 1, 31),
    dowWildcard |-> Complete(parseField(expr.dayOfWeek, "dayOfWeek"), 0, 6)]

----------------------------------------------------------------------------
(* Matches *)

\* The local time of a minute.
Times == {t \in [Parts -> Nat] :
    /\ \A part \in Parts : InLimits(t[part], part)
    /\ t.dayOfWeek <= 6}

ScheduleMatches(s, at) ==
    LET has(part) == at[part] \in s.values[part]
    IN /\ has("minute") /\ has("hour") /\ has("month")
       /\ \/ s.domWildcard /\ s.dowWildcard
          \/ s.domWildcard /\ has("dayOfWeek")
          \/ s.dowWildcard /\ has("dayOfMonth")
          \/ ~s.domWildcard /\ ~s.dowWildcard /\ (has("dayOfMonth") \/ has("dayOfWeek"))

----------------------------------------------------------------------------
(* What an expression means. *)

\* Every step-th value from the start to the end.
Selects(item, part, v) ==
    \E k \in Nat : v = StartOf(item, part) + k * item.step /\ v <= EndOf(item, part)

\* A day of the week is selected under either of its numbers.
Means(items, part, v) ==
    \E i \in DOMAIN items :
      \/ Selects(items[i], part, v)
      \/ part = "dayOfWeek" /\ v = 0 /\ Selects(items[i], part, 7)

\* A step that cannot leave the range of an int.
Ordinary(items, part) ==
    \A i \in DOMAIN items : items[i].step <= MaxInt - EndOf(items[i], part)

\* A field that selects every value there is.
Wild(items, part, least, greatest) ==
    \A v \in least .. greatest : Means(items, part, v)

\* "Traditional cron semantics": both days must match, or either when both are restricted.
Falls(expr, at) ==
    LET means(part) == Means(expr[part], part, at[part])
        restricted == ~Wild(expr.dayOfMonth, "dayOfMonth", 1, 31)
                      /\ ~Wild(expr.dayOfWeek, "dayOfWeek", 0, 6)
    IN /\ means("minute") /\ means("hour") /\ means("month")
       /\ IF restricted THEN means("dayOfMonth") \/ means("dayOfWeek")
          ELSE means("dayOfMonth") /\ means("dayOfWeek")
=============================================================================
