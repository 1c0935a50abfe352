----------------------------- MODULE Percentile -----------------------------
(***************************************************************************)
(* Percentile.cpp: the first MaximumNumberOfMeasurementses latencies since *)
(* the last reset, and a table of their percentiles.  Nothing is printed   *)
(* before the array is full, and nothing is added to it from then on.      *)
(*                                                                         *)
(* The code subtracts in 64 bits and compares in the 32 of an int.  The    *)
(* index of a percentile, computed in double, is exact for the 10          *)
(* percentiles of 1000 that the code has.                                  *)
(***************************************************************************)
EXTENDS Integers, Sequences, FiniteSets, Functions

CONSTANTS
  MaximumNumberOfMeasurementses, NumberOfPercentiles,
  Measurements,          \* latencies that may be measured
  IntLimit               \* the first number too large for an int, 2^31

VARIABLES
  MeasurementArray,      \* its first CurrentNumberOfMeasurementses elements
  measured,              \* auxiliary: the same, in the order of measurement
  table                  \* auxiliary: the table printed last, and of what

percentiles == <<MeasurementArray, measured, table>>

ASSUME PercentileAssumption ==
  /\ NumberOfPercentiles \in Nat \ {0}
  /\ MaximumNumberOfMeasurementses \in Nat \ {0}
  /\ MaximumNumberOfMeasurementses % NumberOfPercentiles = 0
  /\ Measurements \subseteq Nat /\ IntLimit \in Nat \ {0}

NoTable == [values |-> <<>>, of |-> <<>>]

\* The constructor fills the array, prints it once and resets it.
PercentileInit == MeasurementArray = <<>> /\ measured = <<>> /\ table = NoTable

Full == Len(MeasurementArray) >= MaximumNumberOfMeasurementses

MutantKeepsAdding == TRUE
HasRoom           == ~Full

AddNanosecondTimeStampMeasurement(value) ==
  /\ IF HasRoom
       THEN /\ MeasurementArray' = Append(MeasurementArray, value)
            /\ measured' = Append(measured, value)
       ELSE UNCHANGED <<MeasurementArray, measured>>
  /\ UNCHANGED table

\* The difference of two words, returned as an int.
CompareValuesForSorting(a, b) ==
  ((a - b + IntLimit) % (2 * IntLimit)) - IntLimit

Arrangements(s) ==
  { [i \in DOMAIN s |-> s[p[i]]] : p \in Bijection(DOMAIN s, DOMAIN s) }

InOrder(s) ==
  \A i, j \in DOMAIN s : i < j => CompareValuesForSorting(s[i], s[j]) <= 0

\* What qsort may leave: if no arrangement satisfies the comparator, any.
Sorted(s) ==
  LET sorted == { t \in Arrangements(s) : InOrder(t) } IN
  IF sorted = {} THEN Arrangements(s) ELSE sorted

\* Counted from 1, one more than PercentileIndex.
MutantIndex(i) ==
  ((i - 1) * MaximumNumberOfMeasurementses) \div NumberOfPercentiles + 1
Index(i)       == (i * MaximumNumberOfMeasurementses) \div NumberOfPercentiles

PrintPercentileTableValues ==
  /\ IF Full
       THEN /\ MeasurementArray' \in Sorted(MeasurementArray)
            /\ table' = [ values |-> [i \in 1 .. NumberOfPercentiles |->
                                        MeasurementArray'[Index(i)]],
                          of     |-> measured ]
       ELSE UNCHANGED <<MeasurementArray, table>>
  /\ UNCHANGED measured

ResetPercentileTableArray ==
  /\ MeasurementArray' = <<>> /\ measured' = <<>>
  /\ UNCHANGED table

-----------------------------------------------------------------------------
PercentileTypeOK ==
  /\ MeasurementArray \in Seq(Measurements)
  /\ Len(MeasurementArray) <= MaximumNumberOfMeasurementses
  /\ measured \in Seq(Measurements) /\ Len(measured) = Len(MeasurementArray)
  /\ Len(table.values) \in {0, NumberOfPercentiles}

\* How many of s are not greater than v.
Rank(s, v) == Cardinality({ j \in DOMAIN s : s[j] <= v })

FitInt(s) == \A i, j \in DOMAIN s : s[i] - s[j] < IntLimit

\* The table shows the percentiles of the first measurements since the last
\* reset, however often it was printed before: the i-th value is the least of
\* them that i/n of them do not exceed.  Only latencies so far apart that
\* their difference is no int are excepted (Percentile.cpp:41).
TableOfMeasurements ==
  FitInt(table.of) =>
    \A i \in DOMAIN table.values :
      LET v          == table.values[i]
          Reaches(w) == Rank(table.of, w) * NumberOfPercentiles >= i * Len(table.of)
      IN /\ Reaches(v)
         /\ \A j \in DOMAIN table.of : table.of[j] < v => ~Reaches(table.of[j])

\* The array is what was measured, sorted perhaps once it is full.
ArrayArranged ==
  /\ MeasurementArray \in Arrangements(measured)
  /\ ~Full => MeasurementArray = measured

=============================================================================
