-------------------------- MODULE CronScheduleProofs --------------------------
(***************************************************************************)
(* Proofs about CronSchedule: the loop that fills a field selects every    *)
(* step-th value, and Matches accepts the minutes the expression means.    *)
(***************************************************************************)
EXTENDS CronSchedule, TLAPS

\* Every descriptor from @hourly to @yearly stands for an expression that
\* parses, with no step to overflow.
THEOREM DescriptorsParse ==
  \A d \in Descriptors :
    /\ d \in Expressions /\ Parses(d)
    /\ \A part \in Parts : Ordinary(d[part], part)
<1> DEFINE Fits(part, items) ==
      items \in Seq(Items) /\ FieldParses(items, part) /\ Ordinary(items, part)
<1>1. \A part \in Parts : Fits(part, Every(1))
  BY IntAssumption
  DEF Parts, Every, Items, FieldParses, ItemParses, Ordinary, EndOf, Limits
<1>2. Fits("minute", Only(0)) /\ Fits("hour", Only(0)) /\ Fits("dayOfWeek", Only(0))
      /\ Fits("dayOfMonth", Only(1)) /\ Fits("month", Only(1))
  BY IntAssumption
  DEF Parts, Only, Items, FieldParses, ItemParses, Ordinary, EndOf, Limits, InLimits
<1> HIDE DEF Fits
<1>3. TAKE d \in Descriptors
<1>4. PICK a, b, c, e, f : d = Fields(a, b, c, e, f)
  BY DEF Descriptors
<1>5. d = [part \in Parts |-> d[part]]
  BY <1>4 DEF Fields, Parts
<1>6. \A part \in Parts : Fits(part, d[part])
  BY <1>1, <1>2 DEF Descriptors, Fields, Parts
<1>7. QED
  BY <1>5, <1>6 DEF Fits, Expressions, Parses

\* Multiplication keeps an order.
LEMMA Product == \A j, k, s \in Nat : j <= k => j * s <= k * s
  OBVIOUS

\* An int holds every number of its range.
LEMMA WrapIsIdentity ==
  \A n \in Int : -MaxInt - 1 <= n /\ n <= MaxInt => Wrap(n) = n
  BY IntAssumption DEF Wrap

\* The quotient of a division.
LEMMA Division ==
  \A a \in Nat, s \in Nat \ {0} : \E q \in Nat : q * s <= a /\ a < (q + 1) * s
<1>1. TAKE a \in Nat, s \in Nat \ {0}
<1>2. a \div s \in Nat /\ a % s \in 0 .. s - 1 /\ a = s * (a \div s) + (a % s)
  OBVIOUS
<1> WITNESS a \div s \in Nat
<1>3. QED
  BY <1>2

\* An item that parses starts and ends within the limits of its field.
LEMMA Bounds ==
  ASSUME NEW part \in Parts, NEW item \in Items, ItemParses(item, part)
  PROVE  /\ StartOf(item, part) \in Nat /\ EndOf(item, part) \in Nat
         /\ StartOf(item, part) <= EndOf(item, part)
         /\ InLimits(StartOf(item, part), part) /\ InLimits(EndOf(item, part), part)
         /\ EndOf(item, part) <= 59
         /\ item.step \in Nat \ {0}
<1>1. /\ Limits[part][1] \in 0 .. 1 /\ Limits[part][2] \in 7 .. 59
  BY DEF Limits, Parts
<1>2. item.base \in {"any", "one", "range"} /\ item.from \in Int /\ item.to \in Int
      /\ item.step \in Int
  BY DEF Items
<1>3. CASE item.base = "any"
  BY <1>1, <1>2, <1>3 DEF ItemParses, StartOf, EndOf, InLimits
<1>4. CASE item.base = "one"
  BY <1>1, <1>2, <1>4 DEF ItemParses, StartOf, EndOf, InLimits
<1>5. CASE item.base = "range"
  BY <1>1, <1>2, <1>5 DEF ItemParses, StartOf, EndOf, InLimits
<1>6. QED
  BY <1>2, <1>3, <1>4, <1>5

\* The loop of parseField puts in exactly every step-th value from the start
\* to the end of an item, as long as adding the step does not overflow an int.
THEOREM StepsSelect ==
  ASSUME NEW part \in Parts, NEW item \in Items, ItemParses(item, part),
         item.step <= MaxInt - EndOf(item, part)
  PROVE  \A v : v \in Visited(item, part) <=> Selects(item, part, v)
<1> DEFINE s == StartOf(item, part)
           e == EndOf(item, part)
           d == item.step
<1>1. s \in Nat /\ e \in Nat /\ s <= e /\ e <= 59 /\ d \in Nat \ {0} /\ d <= MaxInt - e
  BY Bounds
<1>2. \A k \in Nat : s + k * d <= MaxInt => ValueAt(item, part, k) = s + k * d
  <2>1. TAKE k \in Nat
  <2>2. k * d \in Nat
    BY <1>1
  <2>3. QED
    BY <1>1, <2>2, WrapIsIdentity, IntAssumption DEF ValueAt
<1>3. ASSUME NEW v, Selects(item, part, v)
      PROVE  v \in Visited(item, part)
  <2>1. PICK k \in Nat : v = s + k * d /\ v <= e
    BY <1>3 DEF Selects
  <2>2. k <= k * d /\ k * d \in Nat
    BY <1>1
  <2>3. k \in 0 .. MaxInt
    BY <1>1, <2>1, <2>2, IntAssumption
  <2>4. ASSUME NEW j \in 0 .. k
        PROVE  ValueAt(item, part, j) = s + j * d /\ s + j * d <= e
    <3>1. j * d <= k * d /\ j * d \in Nat
      BY <1>1, Product
    <3>2. s + j * d <= e /\ s + j * d <= MaxInt
      BY <1>1, <2>1, <2>2, <3>1, IntAssumption
    <3>3. QED
      BY <1>2, <3>2
  <2>5. ValueAt(item, part, k) = v /\ \A j \in 0 .. k : ValueAt(item, part, j) <= e
    BY <2>1, <2>4
  <2>6. QED
    BY <2>3, <2>5 DEF Visited
<1>4. ASSUME NEW v, v \in Visited(item, part)
      PROVE  Selects(item, part, v)
  <2>1. PICK k \in 0 .. MaxInt : /\ v = ValueAt(item, part, k)
                                 /\ \A j \in 0 .. k : ValueAt(item, part, j) <= e
    BY <1>4 DEF Visited
  <2>2. s + k * d <= e
    <3>1. SUFFICES ASSUME s + k * d > e PROVE FALSE
      BY <1>1
    <3>2. PICK q \in Nat : q * d <= e - s /\ e - s < (q + 1) * d
      <4>1. e - s \in Nat /\ d \in Nat \ {0}
        BY <1>1
      <4>2. QED
        BY <4>1, Division
    <3>3. q + 1 <= k
      <4>1. SUFFICES ASSUME k <= q PROVE FALSE
        OBVIOUS
      <4>2. k * d <= q * d /\ k * d \in Nat /\ q * d \in Nat
        BY <1>1, <4>1, Product
      <4>3. QED
        BY <1>1, <3>1, <3>2, <4>2
    <3>4. (q + 1) * d = q * d + d /\ q * d \in Nat
      BY <1>1
    <3>5. s + (q + 1) * d > e /\ s + (q + 1) * d <= MaxInt
      BY <1>1, <3>2, <3>4, IntAssumption
    <3>6. ValueAt(item, part, q + 1) = s + (q + 1) * d
      BY <1>2, <3>5
    <3>7. QED
      BY <1>1, <2>1, <3>3, <3>4, <3>5, <3>6
  <2>3. k \in Nat /\ s + k * d <= MaxInt
    BY <1>1, <2>2, IntAssumption
  <2>4. v = s + k * d /\ v <= e
    BY <1>2, <2>1, <2>2, <2>3
  <2>5. QED
    BY <2>3, <2>4 DEF Selects
<1>5. QED
  BY <1>3, <1>4

\* A field holds a value of its range exactly when one of its items means it.
THEOREM FieldMeans ==
  ASSUME NEW part \in Parts, NEW items \in Seq(Items),
         FieldParses(items, part), Ordinary(items, part),
         NEW v, part = "dayOfWeek" => v # 7
  PROVE  v \in parseField(items, part) <=> Means(items, part, v)
<1>1. \A i \in DOMAIN items : items[i] \in Items /\ ItemParses(items[i], part)
                              /\ items[i].step <= MaxInt - EndOf(items[i], part)
  BY DEF FieldParses, Ordinary
<1>2. \A i \in DOMAIN items : \A w :
        w \in Visited(items[i], part) <=> Selects(items[i], part, w)
  BY <1>1, StepsSelect
<1>3. v \in parseField(items, part) <=>
        \E i \in DOMAIN items : \E w \in Visited(items[i], part) : v = Folded(w, part)
  BY DEF parseField
<1>4. \A i \in DOMAIN items :
        (\E w \in Visited(items[i], part) : v = Folded(w, part)) <=>
          \/ v \in Visited(items[i], part)
          \/ part = "dayOfWeek" /\ v = 0 /\ 7 \in Visited(items[i], part)
  <2>1. TAKE i \in DOMAIN items
  <2>2. ASSUME NEW w \in Visited(items[i], part), v = Folded(w, part)
        PROVE  \/ v \in Visited(items[i], part)
               \/ part = "dayOfWeek" /\ v = 0 /\ 7 \in Visited(items[i], part)
    BY <2>2 DEF Folded
  <2>3. ASSUME v \in Visited(items[i], part)
        PROVE  \E w \in Visited(items[i], part) : v = Folded(w, part)
    BY <2>3 DEF Folded
  <2>4. ASSUME part = "dayOfWeek", v = 0, 7 \in Visited(items[i], part)
        PROVE  \E w \in Visited(items[i], part) : v = Folded(w, part)
    BY <2>4 DEF Folded
  <2>5. QED
    BY <2>2, <2>3, <2>4
<1>5. QED
  BY <1>2, <1>3, <1>4 DEF Means

\* The values of a parsed schedule, for the part of an ordinary expression.
LEMMA Has ==
  ASSUME NEW expr \in Expressions, Parses(expr),
         \A part \in Parts : Ordinary(expr[part], part),
         NEW part \in Parts, NEW v, part = "dayOfWeek" => v # 7
  PROVE  v \in Parse(expr).values[part] <=> Means(expr[part], part, v)
<1>1. Parse(expr).values[part] = parseField(expr[part], part)
  BY DEF Parse
<1>2. expr[part] \in Seq(Items) /\ FieldParses(expr[part], part)
      /\ Ordinary(expr[part], part)
  BY DEF Expressions, Parses
<1>3. QED
  BY <1>1, <1>2, FieldMeans

\* A job whose schedule parses is due in exactly the minutes that cron gives
\* the expression: both days must match, or either when both are restricted,
\* and 7 is Sunday too.
THEOREM MatchesWhatIsMeant ==
  ASSUME NEW expr \in Expressions, Parses(expr),
         \A part \in Parts : Ordinary(expr[part], part),
         NEW at \in Times
  PROVE  ScheduleMatches(Parse(expr), at) <=> Falls(expr, at)
<1> DEFINE p == Parse(expr)
           has(part) == at[part] \in p.values[part]
           means(part) == Means(expr[part], part, at[part])
<1>1. \A part \in Parts : has(part) <=> means(part)
  <2>1. at.dayOfWeek # 7
    BY DEF Times, Parts
  <2>2. QED
    BY <2>1, Has
<1>2. Parts = {"minute", "hour", "dayOfMonth", "month", "dayOfWeek"}
  BY DEF Parts
<1>3. p.domWildcard <=> Wild(expr.dayOfMonth, "dayOfMonth", 1, 31)
  <2>1. p.domWildcard <=> \A v \in 1 .. 31 : v \in p.values["dayOfMonth"]
    BY DEF Parse, Complete, Parts
  <2>2. QED
    BY <1>2, <2>1, Has DEF Wild
<1>4. p.dowWildcard <=> Wild(expr.dayOfWeek, "dayOfWeek", 0, 6)
  <2>1. p.dowWildcard <=> \A v \in 0 .. 6 : v \in p.values["dayOfWeek"]
    BY DEF Parse, Complete, Parts
  <2>2. \A v \in 0 .. 6 : v # 7
    OBVIOUS
  <2>3. QED
    BY <1>2, <2>1, <2>2, Has DEF Wild
\* A wildcard holds whatever day it is.
<1>5. /\ Wild(expr.dayOfMonth, "dayOfMonth", 1, 31) => means("dayOfMonth")
      /\ Wild(expr.dayOfWeek, "dayOfWeek", 0, 6) => means("dayOfWeek")
  <2>1. at.dayOfMonth \in 1 .. 31 /\ at.dayOfWeek \in 0 .. 6
    BY <1>2 DEF Times, InLimits, Limits
  <2>2. QED
    BY <2>1 DEF Wild
<1>6. /\ has("minute") <=> means("minute")
      /\ has("hour") <=> means("hour")
      /\ has("month") <=> means("month")
      /\ has("dayOfMonth") <=> means("dayOfMonth")
      /\ has("dayOfWeek") <=> means("dayOfWeek")
  BY <1>1, <1>2
<1>7. ScheduleMatches(p, at) <=>
        /\ has("minute") /\ has("hour") /\ has("month")
        /\ \/ p.domWildcard /\ p.dowWildcard
           \/ p.domWildcard /\ has("dayOfWeek")
           \/ p.dowWildcard /\ has("dayOfMonth")
           \/ ~p.domWildcard /\ ~p.dowWildcard /\ (has("dayOfMonth") \/ has("dayOfWeek"))
  BY DEF ScheduleMatches
<1>8. Falls(expr, at) <=>
        /\ means("minute") /\ means("hour") /\ means("month")
        /\ IF ~Wild(expr.dayOfMonth, "dayOfMonth", 1, 31)
              /\ ~Wild(expr.dayOfWeek, "dayOfWeek", 0, 6)
           THEN means("dayOfMonth") \/ means("dayOfWeek")
           ELSE means("dayOfMonth") /\ means("dayOfWeek")
  BY DEF Falls
<1> HIDE DEF has, means
<1>9. QED
  BY <1>3, <1>4, <1>5, <1>6, <1>7, <1>8
=============================================================================
