--------------------------- MODULE HardwareMetrics --------------------------
(***************************************************************************)
(* The history of the hardware.  The collector takes a sample every few    *)
(* seconds and enters it, in one transaction, into a bucket of every       *)
(* resolution; a bucket keeps a running average.  Every so many samples    *)
(* old buckets are deleted, the finer the sooner.  A chart averages the    *)
(* buckets of one resolution.  The columns are treated alike, so one       *)
(* stands for all; a sensor that is not there gives no value.              *)
(***************************************************************************)
EXTENDS Integers, Sequences, FiniteSets, FiniteSetsExt

CONSTANTS
    Resolution,     \* seconds of a bucket: 5, 60, 900 and 3600
    Retention,      \* how long the buckets of each resolution are kept
    Chart,          \* RANGE_CONFIG
    PruneEvery,     \* samples between two deletions (12)
    Value,          \* values of the column
    Null,           \* no value
    MaxSamples,     \* bound: samples taken
    MaxTime         \* bound: the clock

(* A bucket that is filled is kept; every chart finds its buckets still    *)
(* kept, and cuts none in two.                                             *)
NumbersFit(charts, resolutions, kept) ==
    /\ \A r \in resolutions : kept[r] >= r
    /\ \A c \in charts :
          /\ c.source \in resolutions /\ c.display \in Nat \ {0}
          /\ c.display % c.source = 0 /\ c.duration \in Nat /\ c.duration <= kept[c.source]

ASSUME MetricsAssumption ==
    /\ Resolution \subseteq Nat \ {0} /\ Retention \in [Resolution -> Nat]
    /\ NumbersFit(Chart, Resolution, Retention)
    /\ PruneEvery \in Nat \ {0}
    /\ Value \subseteq Int /\ Null \notin Value /\ Null \notin [num : Int, den : Int]
    /\ MaxSamples \in Nat /\ MaxTime \in Nat

Day == 86400

\* The numbers of the code; no chart has more points than its LIMIT lets through.
CodeRetention == [r \in {5, 60, 900, 3600} |->
    CASE r = 5 -> 2 * Day [] r = 60 -> 45 * Day [] r = 900 -> 400 * Day [] OTHER -> 1095 * Day]

CodeChart ==
    {[source |-> 5, display |-> 5, duration |-> 300],
     [source |-> 60, display |-> 120, duration |-> Day],
     [source |-> 900, display |-> 900, duration |-> 7 * Day],
     [source |-> 900, display |-> 3600, duration |-> 30 * Day],
     [source |-> 3600, display |-> 28800, duration |-> 365 * Day]}

ASSUME CodeFits ==
    /\ NumbersFit(CodeChart, DOMAIN CodeRetention, CodeRetention)
    /\ \A c \in CodeChart : c.duration \div c.display + 1 <= 1200

VARIABLES
    clock,      \* CURRENT_TIMESTAMP
    buckets,    \* rows of hardware_metric_samples, by resolution and start
    sampled,    \* every sample that was stored: when it was taken, and its value
    number,     \* sample_number of the collector
    pruning     \* the collector is about to delete

metrics == <<clock, buckets, sampled, number, pruning>>

MetricsInit ==
    /\ clock = 0
    /\ buckets = << >>
    /\ sampled = << >>
    /\ number = 0 /\ pruning = FALSE

-----------------------------------------------------------------------------
\* Averages are fractions: AVG and REAL arithmetic are taken as exact.
Exactly(v) == [num |-> v, den |-> 1]
Plus(a, b) == [num |-> a.num * b.den + b.num * a.den, den |-> a.den * b.den]
Over(a, n) == [num |-> a.num, den |-> a.den * n]

Start(t, r) == (t \div r) * r

\* Faulty variant: the average is divided by the number before the sample.
MeanByOldCount(b, v) ==
    CASE v = Null -> b.mean
      [] v # Null /\ b.mean = Null -> Exactly(v)
      [] OTHER -> Over(Plus([num |-> b.mean.num * b.count, den |-> b.mean.den], Exactly(v)), b.count)

(* The average is weighed with the number of all samples of the bucket,    *)
(* those without a value included.                                         *)
Mean(b, v) ==
    CASE v = Null -> b.mean
      [] v # Null /\ b.mean = Null -> Exactly(v)
      [] OTHER -> Over(Plus([num |-> b.mean.num * b.count, den |-> b.mean.den], Exactly(v)), b.count + 1)

Entered(key, v) ==
    IF key \in DOMAIN buckets
    THEN [count |-> buckets[key].count + 1, mean |-> Mean(buckets[key], v)]
    ELSE [count |-> 1, mean |-> IF v = Null THEN Null ELSE Exactly(v)]

(* record_snapshot: all resolutions or, when the database fails, none.     *)
Sample(v) ==
    /\ ~pruning /\ Len(sampled) < MaxSamples
    /\ LET hit == {<<r, Start(clock, r)>> : r \in Resolution} IN
       buckets' = [key \in DOMAIN buckets \cup hit |->
                      IF key \in hit THEN Entered(key, v) ELSE buckets[key]]
    /\ sampled' = Append(sampled, [at |-> clock, value |-> v])
    /\ number' = (number + 1) % PruneEvery
    /\ pruning' = (number' = 0)
    /\ UNCHANGED clock

\* Faulty variant: all resolutions are kept as long as the finest.
ExpiredSoon(key) == key[2] < clock - Min({Retention[r] : r \in Resolution})

Expired(key) == key[2] < clock - Retention[key[1]]

Prune ==
    /\ pruning /\ pruning' = FALSE
    /\ buckets' = [key \in {k \in DOMAIN buckets : ~Expired(k)} |-> buckets[key]]
    /\ UNCHANGED <<clock, sampled, number>>

PruneFails ==
    /\ pruning /\ pruning' = FALSE
    /\ UNCHANGED <<clock, buckets, sampled, number>>

\* The thread dies with the controller; the next one counts from zero.
Restart ==
    /\ number' = 0 /\ pruning' = FALSE
    /\ UNCHANGED <<clock, buckets, sampled>>

Tick ==
    /\ clock < MaxTime /\ clock' = clock + 1
    /\ UNCHANGED <<buckets, sampled, number, pruning>>

MetricsNext == (\E v \in Value \cup {Null} : Sample(v)) \/ Prune \/ PruneFails \/ Restart \/ Tick

MetricsSpec == MetricsInit /\ [][MetricsNext]_metrics

-----------------------------------------------------------------------------
(* history(): the buckets of the chart's resolution that begin within its  *)
(* range, grouped by period, and for each period the plain average of      *)
(* those that have a value.                                                *)
Shown(c) == {key \in DOMAIN buckets : key[1] = c.source /\ key[2] >= clock - c.duration}

MeanOf(rows, keys) ==
    Over(MapThenFoldSet(Plus, Exactly(0), LAMBDA key : rows[key].mean,
                        LAMBDA S : CHOOSE key \in S : TRUE, keys), Cardinality(keys))

Point(c, period) ==
    LET here == {key \in Shown(c) : Start(key[2], c.display) = period /\ buckets[key].mean # Null}
    IN  IF here = {} THEN Null ELSE MeanOf(buckets, here)

\* Numbers of the samples that lie in the bucket of resolution r that begins at t.
Within(t, r) == {i \in DOMAIN sampled : Start(sampled[i].at, r) = t}

Valued(samples) == {i \in samples : sampled[i].value # Null}

TotalOf(samples, numbers) == MapThenSumSet(LAMBDA i : samples[i].value, numbers)

Between(mean, samples) ==
    /\ \E i \in samples : sampled[i].value * mean.den <= mean.num
    /\ \E i \in samples : mean.num <= sampled[i].value * mean.den

\* A bucket begins in the past and counts no more samples than were taken.
MetricsOK ==
    /\ clock \in 0..MaxTime
    /\ \A key \in DOMAIN buckets :
          /\ key \in Resolution \X (0..clock)
          /\ buckets[key].count \in 1..Len(sampled)
    /\ number \in 0..(PruneEvery - 1) /\ pruning \in BOOLEAN

(* A bucket that is still kept counts the samples taken in it, across      *)
(* restarts and deletions.  Its average has a value if one of them has,    *)
(* lies between the least and the largest, and is their mean if none       *)
(* lacks a value.                                                          *)
AveragesAreTrue ==
    \A key \in DOMAIN buckets :
        LET here == Within(key[2], key[1])
            mean == buckets[key].mean
        IN  /\ buckets[key].count = Cardinality(here)
            /\ mean = Null <=> Valued(here) = {}
            /\ mean # Null => Between(mean, Valued(here))
            /\ Valued(here) = here =>
                  mean.num * Cardinality(here) = mean.den * TotalOf(sampled, here)

(* "提供五分钟、一天、一周、一月和一年历史曲线" (README.md): whatever was      *)
(* deleted, a chart has a point wherever a bucket that began in its range  *)
(* got a value, and the point lies between the values taken there.         *)
ChartsAreComplete ==
    \A c \in Chart : \A period \in 0..clock :
        LET here == Valued({i \in Within(period, c.display) :
                              Start(sampled[i].at, c.source) >= clock - c.duration})
        IN  /\ here # {} => Point(c, period) # Null
            /\ Point(c, period) # Null => here # {} /\ Between(Point(c, period), here)

(* What is kept and what is drawn is true of the samples.                  *)
HistoryIsTrue == AveragesAreTrue /\ ChartsAreComplete
=============================================================================
