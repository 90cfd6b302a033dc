--------------------------- MODULE NumberBuckets ---------------------------
(* The ranges the shop suggests for a price or a number attribute: the values *)
(* of the products found, cut at round numbers.  The code computes in float64 *)
(* on decimals.  Here numbers are integers in a unit far below the last       *)
(* decimal entered, and one unit stands for a rounding error: the constants   *)
(* Low, Short and Drift say where rounding makes a difference.  Values come   *)
(* as a function, from whatever holds a value to the value.                   *)
EXTENDS Integers, FiniteSets

CONSTANTS ExactValueBucketThreshold,  \* 8 in the code
          TargetRangeBucketCount,     \* 5 in the code
          MaxExponent,                \* no value reaches 10^MaxExponent
          Low,    \* ranges whose fraction comes out below the limit it equals
          Short,  \* <<min, step>> whose quotient comes out below a whole number
          Drift   \* what rounding adds to a start, by <<min, step, k>>

\* More distinct values than the target, so that no step is below 1.
ASSUME BucketAssumption ==
    /\ TargetRangeBucketCount \in Nat \ {0}
    /\ ExactValueBucketThreshold \in Nat
    /\ ExactValueBucketThreshold >= TargetRangeBucketCount
    /\ MaxExponent \in Nat

\* A rounding error is small beside a step: starts stay in order.
ASSUME RoundingAssumption ==
    \A at \in DOMAIN Drift : Drift[at] \in {-1, 1} /\ at[2] >= 3

F == INSTANCE FiniteSetsExt

Distinct(values) == {values[i] : i \in DOMAIN values}
CountOf(values, these) == Cardinality({i \in DOMAIN values : values[i] \in these})

NumberBucket(min, max, count) == [min |-> min, max |-> max, count |-> count]
Filled(buckets) == {b \in buckets : b.count > 0}

-----------------------------------------------------------------------------
(* Number attributes. *)

\* niceNumber(range / target): 1, 2, 5 or 10 times the power of ten below it.
NiceNumber(range) ==
    LET unit == F!Max({1} \cup {u \in {10^e : e \in 0..MaxExponent} :
                                  TargetRangeBucketCount * u <= range})
        t == TargetRangeBucketCount * unit
        Under(a, limit) == a < limit \/ (a = limit /\ range \in Low)
    IN  CASE Under(2 * range, 3 * t) -> unit
          [] ~Under(2 * range, 3 * t) /\ Under(range, 3 * t) -> 2 * unit
          [] ~Under(range, 3 * t) /\ Under(range, 7 * t) -> 5 * unit
          [] OTHER -> 10 * unit

\* math.Floor(min / step)
Quotient(min, step) == (min \div step) - (IF <<min, step>> \in Short THEN 1 ELSE 0)

\* The k-th lo: that many steps times step, and step added k times, each
\* product and sum rounded.
Start(min, step, k) ==
    LET at == <<min, step, k>> IN
    (Quotient(min, step) + k) * step + (IF at \in DOMAIN Drift THEN Drift[at] ELSE 0)
Steps(min, max, step) == {k \in 0..(max - min + 3 * step) : Start(min, step, k) < max}

\* Mutant: the last range leaves the greatest value out.
InOpenStep(v, min, max, step, k) ==
    v >= Start(min, step, k) /\ v < Start(min, step, k + 1)

\* v >= lo && (v < hi || hi >= max)
InStep(v, min, max, step, k) ==
    /\ v >= Start(min, step, k)
    /\ v < Start(min, step, k + 1) \/ Start(min, step, k + 1) >= max

BuildNumberBuckets(values) ==
    LET distinct == Distinct(values)
        min == F!Min(distinct)
        max == F!Max(distinct)
        step == NiceNumber(max - min)
        Exact(v) == NumberBucket(v, v, CountOf(values, {v}))
        Range(k) == NumberBucket(Start(min, step, k), Start(min, step, k + 1),
                                 CountOf(values, {w \in distinct : InStep(w, min, max, step, k)}))
    IN  IF Cardinality(distinct) <= ExactValueBucketThreshold
          THEN {Exact(v) : v \in distinct}
          ELSE Filled({Range(k) : k \in Steps(min, max, step)})

-----------------------------------------------------------------------------
(* Prices. *)

NiceNumbers == {m * 10^e : m \in {1, 2, 5}, e \in 0..MaxExponent}

\* From the last nice number at or below min to the first at or above max.
NiceSequence(min, max) ==
    {b \in NiceNumbers : /\ \A x \in NiceNumbers : b < x => min < x
                         /\ \A x \in NiceNumbers : x < b => x < max}

\* lo and hi are neighbours in the sequence.
Adjacent(bounds, lo, hi) ==
    lo < hi /\ \A x \in bounds : x <= lo \/ hi <= x
InTier(v, bounds, lo, hi) ==
    v >= lo /\ (v < hi \/ (v = hi /\ \A x \in bounds : x <= hi))

\* Every value is positive.
BuildPriceBuckets(values) ==
    LET min == F!Min(Distinct(values))
        max == F!Max(Distinct(values))
        bounds == NiceSequence(min, max)
        tiers == {t \in bounds \X bounds : Adjacent(bounds, t[1], t[2])}
        Tier(t) == NumberBucket(t[1], t[2], CountOf(values, {w \in Distinct(values) :
                                                              InTier(w, bounds, t[1], t[2])}))
    IN  IF Cardinality(Distinct(values)) <= 1
          THEN {NumberBucket(v, v, CountOf(values, {v})) : v \in Distinct(values)}
          ELSE Filled({Tier(t) : t \in tiers})

-----------------------------------------------------------------------------

\* The buckets account for every value, once.
Tiles(buckets, values) ==
    /\ F!MapThenSumSet(LAMBDA b : b.count, buckets) = Cardinality(DOMAIN values)
    /\ \A v \in Distinct(values) : \E b \in buckets : b.min <= v /\ v <= b.max

\* The first starts above the least value; they account for the others, once.
TilesAbove(buckets, values) ==
    \E least \in Distinct(values) :
      /\ \A v \in Distinct(values) : least <= v
      /\ \A b \in buckets : least < b.min
      /\ Tiles(buckets, [i \in {j \in DOMAIN values : values[j] # least} |-> values[i]])
=============================================================================
