---------------------------- MODULE BenchMeasure ----------------------------
(***************************************************************************)
(* bench_measure in the benchmark firmware's main/bench.c: it times a      *)
(* number of calls of one operation and reports the least, the middle and  *)
(* the greatest of them in cycles.  A window may contain a tick interrupt, *)
(* and a call that fails is over early.                                    *)
(***************************************************************************)
EXTENDS Integers, Sequences, FiniteSets

CONSTANTS
  ITERATIONS,  \* timed calls of an operation
  Cycles,      \* what one call of each operation takes
  EarlyExit,   \* what a call takes that returns an error
  TickCycles,  \* what the tick interrupt adds
  Readings,    \* values the cycle counter may have when a window begins
  Wrap         \* the cycle counter counts modulo this, 2^32

MAX_ITERATIONS == 200

ASSUME BenchAssumption ==
  /\ ITERATIONS \in 3 .. MAX_ITERATIONS /\ Wrap \in Nat
  /\ EarlyExit \in Nat /\ TickCycles \in Nat /\ Readings \subseteq 0 .. Wrap - 1
  /\ \A o \in DOMAIN Cycles : /\ Cycles[o] \in Nat /\ EarlyExit < Cycles[o]
                              /\ Cycles[o] + TickCycles < Wrap

VARIABLES
  s_samples,
  r,         \* min, median and max of bench_result_t
  clean      \* history: windows without a tick, of a call that succeeded

measureVars == <<s_samples, r, clean>>

NoFigures == [min |-> 0, median |-> 0, max |-> 0]

MeasureInit == s_samples = <<>> /\ r = NoFigures /\ clean = 0

\* Fault: the difference of the readings as it is.
SampleSigned(start, end) == end - start
\* end - start, both 32 bits wide.
Sample(start, end) == (end - start) % Wrap

\* Before the first window.
ClearSamples == s_samples' = <<>> /\ clean' = 0 /\ UNCHANGED r

\* One timed call, which succeeds or not.
Window(o, succeeds) ==
  \E start \in Readings, tick \in BOOLEAN :
    LET cycles == (IF succeeds THEN Cycles[o] ELSE EarlyExit)
                  + (IF tick THEN TickCycles ELSE 0)
    IN  /\ s_samples' = Append(s_samples, Sample(start, (start + cycles) % Wrap))
        /\ clean' = IF succeeds /\ ~tick THEN clean + 1 ELSE clean
        /\ UNCHANGED r

Below(samples, v) == {j \in 1 .. Len(samples) : samples[j] < v}
UpTo(samples, v) == {j \in 1 .. Len(samples) : samples[j] <= v}
\* Fault: the figures are taken from the samples as they came.
AsTheyCame(samples) == samples
\* qsort: at place i the value that fewer than i samples are below, and at least
\* i are not above.
sorted(samples) ==
  [i \in 1 .. Len(samples) |->
     CHOOSE v \in {samples[j] : j \in 1 .. Len(samples)} :
       Cardinality(Below(samples, v)) < i /\ i <= Cardinality(UpTo(samples, v))]

\* The middle of an even number of samples is the upper one of the two.
Statistics ==
  LET s == sorted(s_samples)
  IN  /\ r' = [min |-> s[1], median |-> s[(ITERATIONS \div 2) + 1],
               max |-> s[ITERATIONS]]
      /\ UNCHANGED <<s_samples, clean>>
=============================================================================
