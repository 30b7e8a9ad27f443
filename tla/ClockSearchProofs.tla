-------------------------- MODULE ClockSearchProofs --------------------------
(***************************************************************************)
(* The search of the clock calculation is exhaustive: what it returns is   *)
(* the best choice on its grid, and it gives up only when there is none,   *)
(* for every frequency, error, unit and number of input dividers.  The     *)
(* programming word holds that choice: each setting can be read back.      *)
(***************************************************************************)
EXTENDS ClockSearch, TLAPS, WellFoundedInduction

\* The inductive invariant: nothing the loops have passed is a solution, and a
\* return leaves the loops where they stopped.
NonePassed == NoneBefore(ppm, r, od)

ReturnedHere ==
  /\ ret = 0 =>
       /\ choice.refDiv = r /\ choice.outDiv = od
       /\ Solution(ppm, r, od, choice.VCO_Div)
       /\ \A v \in min_V .. choice.VCO_Div - 1 : ~Solution(ppm, r, od, v)
  /\ ret = 2 => LastOD /\ r = MaxR /\ ppm = requestedppm /\ ~Solvable(ppm, r, od)

IInv == TypeOK /\ NonePassed /\ ReturnedHere

-----------------------------------------------------------------------------
\* A quotient rounded down is no larger than any bound of the exact one.
LEMMA DivBound ==
  ASSUME NEW a \in Int, NEW b \in Nat \ {0}, NEW v \in Int, a <= b * v
  PROVE  a \div b <= v
OBVIOUS

\* V_Divstart is a VCO divider, and no solution lies below it: the inner loop
\* that starts there misses none.
LEMMA StartSkipsNothing ==
  ASSUME TypeOK, NEW p \in 0 .. Parts, NEW q \in 1 .. MaxR, NEW o \in OutputDividers,
         NEW v \in min_V .. max_V, Solution(p, q, o, v)
  PROVE  v \in Accepted(desired, equalFits, p, q, o, V_Divstart(desired, p, q, o))
<1> DEFINE a == (Parts - p) * (desired * (q * o))
<1> DEFINE b == Parts * inputfreq
<1>1. o \in Int /\ desired \in Nat /\ q \in Int /\ p \in Int /\ v \in Int
  BY ClockAssumption DEF TypeOK, OutputDividers, min_V, max_V
<1>2. b \in Nat \ {0}
  BY ClockAssumption DEF inputfreq
<1>3. a \in Int
  BY <1>1, ClockAssumption
<1>4. Parts * (inputfreq * v) = b * v
  BY <1>1, ClockAssumption DEF inputfreq
<1>5. a <= Parts * (inputfreq * v)
  <2> DEFINE freq == Parts * (inputfreq * v)
  <2>1. a \in Int /\ freq \in Int
    BY <1>1, <1>3, ClockAssumption DEF inputfreq
  <2>2. IF equalFits THEN a <= freq ELSE a < freq
    BY DEF Solution, FreqOK
  <2> QED
    BY <2>1, <2>2
<1>6. a \div b <= v
  <2> HIDE DEF a, b
  <2> QED
    BY <1>1, <1>2, <1>3, <1>4, <1>5, DivBound
<1>7. V_Divstart(desired, p, q, o) <= v /\ V_Divstart(desired, p, q, o) \in Int
  <2> DEFINE start == a \div b
  <2>1. start \in Int /\ start <= v
    BY <1>2, <1>3, <1>6
  <2>2. V_Divstart(desired, p, q, o) =
          IF start < min_V THEN min_V ELSE IF start > max_V THEN max_V ELSE start
    BY DEF V_Divstart
  <2> HIDE DEF start
  <2> QED
    BY <1>1, <2>1, <2>2 DEF min_V, max_V
<1> QED
  BY <1>1, <1>7 DEF Solution, Accepted, max_V

\* The inner loop that finds nothing leaves no solution at its position.
LEMMA NothingHereIsNone ==
  ASSUME TypeOK, NothingHere
  PROVE  ~Solvable(ppm, r, od)
<1>1. ppm \in 0 .. Parts /\ r \in 1 .. MaxR /\ od \in OutputDividers
  BY ClockAssumption DEF TypeOK
<1> SUFFICES ASSUME NEW v \in min_V .. max_V, Solution(ppm, r, od, v) PROVE FALSE
  BY DEF Solvable
<1>2. v \in Candidates
  BY <1>1, StartSkipsNothing DEF Candidates
<1> QED
  BY <1>2 DEF NothingHere, Solution

\* The grid of the loop over od, range by range.
LEMMA GridRanges ==
  ASSUME NEW t
  PROVE  t \in OutputDividers <=>
           \/ t \in 2 .. 1030
           \/ \E k \in 516 .. 1030 : t = 2 * k
           \/ \E k \in 516 .. 1030 : t = 4 * k
           \/ \E k \in 516 .. 1029 : t = 8 * k
BY DEF OutputDividers

LEMMA GridBounds ==
  ASSUME NEW t \in OutputDividers
  PROVE  t \in Int /\ 2 <= t /\ t <= 8232
<1>1. CASE t \in 2 .. 1030
  BY <1>1
<1>2. CASE \E k \in 516 .. 1030 : t = 2 * k
  BY <1>2
<1>3. CASE \E k \in 516 .. 1030 : t = 4 * k
  BY <1>3
<1>4. CASE \E k \in 516 .. 1029 : t = 8 * k
  BY <1>4
<1> QED
  BY <1>1, <1>2, <1>3, <1>4, GridRanges

\* The steps of the loop over od come to every divider of the grid and to no
\* other.
LEMMA GridStep ==
  ASSUME NEW o \in OutputDividers, NEW t \in OutputDividers, o < t
  PROVE  o <= t - StepOf(t) /\ ~(t - StepOf(t) <= 1)
<1>1. o \in Int /\ 2 <= o
  BY GridBounds
<1>2. CASE t \in 2 .. 1030
  BY <1>1, <1>2 DEF StepOf
<1>3. ASSUME NEW k \in 516 .. 1030, t = 2 * k
      PROVE  o <= t - StepOf(t)
  <2>1. t \in Int /\ StepOf(t) = 2
    BY <1>3 DEF StepOf
  <2>2. CASE o \in 2 .. 1030
    BY <1>3, <2>1, <2>2
  <2>3. ASSUME NEW j \in 516 .. 1030, o = 2 * j PROVE o <= t - StepOf(t)
    BY <1>3, <2>1, <2>3
  <2>4. ASSUME NEW j \in 516 .. 1030, o = 4 * j PROVE o <= t - StepOf(t)
    BY <1>3, <2>1, <2>4
  <2>5. ASSUME NEW j \in 516 .. 1029, o = 8 * j PROVE o <= t - StepOf(t)
    BY <1>3, <2>1, <2>5
  <2> QED
    BY <2>2, <2>3, <2>4, <2>5, GridRanges
<1>4. ASSUME NEW k \in 516 .. 1030, t = 4 * k
      PROVE  o <= t - StepOf(t)
  <2>1. t \in Int /\ StepOf(t) = 4
    BY <1>4 DEF StepOf
  <2>2. CASE o \in 2 .. 1030
    BY <1>4, <2>1, <2>2
  <2>3. ASSUME NEW j \in 516 .. 1030, o = 2 * j PROVE o <= t - StepOf(t)
    BY <1>4, <2>1, <2>3
  <2>4. ASSUME NEW j \in 516 .. 1030, o = 4 * j PROVE o <= t - StepOf(t)
    BY <1>4, <2>1, <2>4
  <2>5. ASSUME NEW j \in 516 .. 1029, o = 8 * j PROVE o <= t - StepOf(t)
    BY <1>4, <2>1, <2>5
  <2> QED
    BY <2>2, <2>3, <2>4, <2>5, GridRanges
<1>5. ASSUME NEW k \in 516 .. 1029, t = 8 * k
      PROVE  o <= t - StepOf(t)
  <2>1. t \in Int /\ StepOf(t) = 8
    BY <1>5 DEF StepOf
  <2>2. CASE o \in 2 .. 1030
    BY <1>5, <2>1, <2>2
  <2>3. ASSUME NEW j \in 516 .. 1030, o = 2 * j PROVE o <= t - StepOf(t)
    BY <1>5, <2>1, <2>3
  <2>4. ASSUME NEW j \in 516 .. 1030, o = 4 * j PROVE o <= t - StepOf(t)
    BY <1>5, <2>1, <2>4
  <2>5. ASSUME NEW j \in 516 .. 1029, o = 8 * j PROVE o <= t - StepOf(t)
    BY <1>5, <2>1, <2>5
  <2> QED
    BY <2>2, <2>3, <2>4, <2>5, GridRanges
<1>6. o <= t - StepOf(t)
  BY <1>2, <1>3, <1>4, <1>5, GridRanges
<1>7. t \in Int /\ StepOf(t) \in Int
  BY GridBounds DEF StepOf
<1> QED
  BY <1>1, <1>6, <1>7

LEMMA GridStays ==
  ASSUME NEW t \in OutputDividers, ~(t - StepOf(t) <= 1)
  PROVE  t - StepOf(t) \in OutputDividers
<1>1. CASE t \in 2 .. 1030
  <2>1. t - StepOf(t) \in 2 .. 1030
    BY <1>1 DEF StepOf
  <2> QED
    BY <2>1, GridRanges
<1>2. ASSUME NEW k \in 516 .. 1030, t = 2 * k
      PROVE  t - StepOf(t) \in OutputDividers
  <2>1. t - StepOf(t) = 2 * (k - 1) /\ (k = 516 => t - StepOf(t) = 1030)
    BY <1>2 DEF StepOf
  <2>2. k = 516 \/ k - 1 \in 516 .. 1030
    BY <1>2
  <2> QED
    BY <2>1, <2>2, GridRanges
<1>3. ASSUME NEW k \in 516 .. 1030, t = 4 * k
      PROVE  t - StepOf(t) \in OutputDividers
  <2>1. t - StepOf(t) = 4 * (k - 1) /\ (k = 516 => t - StepOf(t) = 2 * 1030)
    BY <1>3 DEF StepOf
  <2>2. k = 516 \/ k - 1 \in 516 .. 1030
    BY <1>3
  <2> QED
    BY <2>1, <2>2, GridRanges
<1>4. ASSUME NEW k \in 516 .. 1029, t = 8 * k
      PROVE  t - StepOf(t) \in OutputDividers
  <2>1. t - StepOf(t) = 8 * (k - 1) /\ (k = 516 => t - StepOf(t) = 4 * 1030)
    BY <1>4 DEF StepOf
  <2>2. k = 516 \/ k - 1 \in 516 .. 1029
    BY <1>4
  <2> QED
    BY <2>1, <2>2, GridRanges
<1> QED
  BY <1>1, <1>2, <1>3, <1>4, GridRanges

LEMMA GridFirst ==
  /\ FirstOD \in OutputDividers
  /\ \A o \in OutputDividers : o <= FirstOD /\ o \in Int
<1>1. 8232 = 8 * 1029 /\ 1029 \in 516 .. 1029
  OBVIOUS
<1>2. FirstOD \in OutputDividers
  BY <1>1, GridRanges DEF FirstOD
<1> QED
  BY <1>2, GridBounds DEF FirstOD

\* The start of the inner loop is a VCO divider.
LEMMA StartInRange ==
  ASSUME TypeOK
  PROVE  V_Divstart(desired, ppm, r, od) \in min_V .. max_V
<1>1. Parts * inputfreq \in Nat \ {0}
  BY ClockAssumption DEF inputfreq
<1>2. (Parts - ppm) * (desired * (r * od)) \in Int
  <2>1. od \in Int
    BY GridBounds DEF TypeOK
  <2> QED
    BY <2>1, ClockAssumption DEF TypeOK
<1>3. ((Parts - ppm) * (desired * (r * od))) \div (Parts * inputfreq) \in Int
  BY <1>1, <1>2
<1>4. PICK n : n = ((Parts - ppm) * (desired * (r * od))) \div (Parts * inputfreq)
  OBVIOUS
<1>5. V_Divstart(desired, ppm, r, od) =
        IF n < min_V THEN min_V ELSE IF n > max_V THEN max_V ELSE n
  BY <1>4, Zenon DEF V_Divstart
<1>6. n \in Int
  BY <1>3, <1>4, Zenon
<1> QED
  BY <1>5, <1>6 DEF min_V, max_V

-----------------------------------------------------------------------------
LEMMA InitHolds == Init => IInv
<1> SUFFICES ASSUME Init PROVE IInv
  OBVIOUS
<1>1. TypeOK
  <2>1. requestedppm \in Nat /\ 1 \in 1 .. MaxR
    BY ClockAssumption DEF Init
  <2> QED
    BY <2>1, GridFirst DEF Init, TypeOK, Running
<1>2. NonePassed
  BY GridFirst DEF Init, NonePassed, NoneBefore, Earlier
<1>3. ReturnedHere
  BY DEF Init, ReturnedHere, Running
<1> QED
  BY <1>1, <1>2, <1>3 DEF IInv

\* A position passed after the step was passed before it or is the one the step
\* leaves.
LEMMA StepHolds == IInv /\ [Next]_vars => IInv'
<1> SUFFICES ASSUME IInv, [Next]_vars PROVE IInv'
  OBVIOUS
<1> USE DEF IInv
<1>0. /\ ppm \in Nat /\ r \in Nat /\ od \in OutputDividers /\ od \in Int
      /\ requestedppm \in Nat /\ MaxR \in Nat
  BY GridFirst, ClockAssumption DEF TypeOK
<1>1. CASE Finish
  <2>1. PICK v \in Candidates :
          /\ \A w \in Candidates : v <= w
          /\ choice'.refDiv = r /\ choice'.VCO_Div = v /\ choice'.outDiv = od
    BY <1>1 DEF Finish
  <2>2. UNCHANGED <<desired, requestedppm, equalFits, ppm, r, od>> /\ ret' = 0 /\ Rule2(r)
    BY <1>1 DEF Finish
  <2>3. \A w \in min_V .. max_V : Solution(ppm, r, od, w) => w \in Candidates
    <3>1. ppm \in 0 .. Parts /\ r \in 1 .. MaxR
      BY ClockAssumption DEF TypeOK
    <3> QED
      BY <1>0, <3>1, StartSkipsNothing DEF Candidates
  <2>4. V_Divstart(desired, ppm, r, od) \in min_V .. max_V
    BY StartInRange
  <2>5. Solution(ppm, r, od, v) /\ v \in min_V .. max_V
    BY <2>1, <2>2, <2>4 DEF Candidates, Accepted, Solution, min_V, max_V
  <2>6. \A w \in min_V .. v - 1 : ~Solution(ppm, r, od, w)
    <3>1. v \in Int /\ v <= max_V /\ min_V \in Int /\ max_V \in Int
      BY <2>5 DEF min_V, max_V
    <3> SUFFICES ASSUME NEW w \in min_V .. v - 1, Solution(ppm, r, od, w) PROVE FALSE
      OBVIOUS
    <3>2. w \in Int /\ w < v /\ w \in min_V .. max_V
      BY <3>1
    <3>3. v <= w
      BY <2>1, <2>3, <3>2
    <3> QED
      BY <3>1, <3>2, <3>3
  <2>7. TypeOK'
    BY <2>2 DEF TypeOK
  <2>8. NonePassed'
    BY <2>2 DEF NonePassed, NoneBefore, Solvable, Solution
  <2>9. ReturnedHere'
    BY <2>1, <2>2, <2>5, <2>6 DEF ReturnedHere, Solution
  <2> QED
    BY <2>7, <2>8, <2>9
<1>2. CASE NextOD
  <2>1. ~Solvable(ppm, r, od)
    BY <1>2, NothingHereIsNone DEF NextOD
  <2>2. /\ od' = od - StepOf(od) /\ ~(od - StepOf(od) <= 1)
        /\ UNCHANGED <<desired, requestedppm, equalFits, ppm, r, ret>> /\ ret = Running
    BY <1>2 DEF NextOD, LastOD
  <2>3. od' \in OutputDividers
    BY <1>0, <2>2, GridStays
  <2>4. ASSUME NEW p \in Nat, NEW q \in 1 .. MaxR, NEW o \in OutputDividers,
               Earlier(p, q, o, ppm', r', od'), ~Earlier(p, q, o, ppm, r, od)
        PROVE  p = ppm /\ q = r /\ o = od
    <3>1. p = ppm /\ q = r /\ o <= od /\ o > od'
      BY <1>0, <2>2, <2>4, GridFirst DEF Earlier
    <3> QED
      BY <1>0, <2>2, <3>1, GridStep, GridFirst
  <2>5. TypeOK'
    BY <2>2, <2>3 DEF TypeOK
  <2>6. NonePassed'
    BY <2>1, <2>2, <2>4 DEF NonePassed, NoneBefore, Solvable, Solution
  <2>7. ReturnedHere'
    BY <2>2 DEF ReturnedHere, Running
  <2> QED
    BY <2>5, <2>6, <2>7
<1>3. CASE NextR
  <2>1. ~Solvable(ppm, r, od)
    BY <1>3, NothingHereIsNone DEF NextR
  <2>2. /\ LastOD /\ r < MaxR /\ r' = r + 1 /\ od' = FirstOD
        /\ UNCHANGED <<desired, requestedppm, equalFits, ppm, ret>> /\ ret = Running
    BY <1>3 DEF NextR
  <2>3. \A o \in OutputDividers : o <= od => ~Solvable(ppm, r, o)
    BY <1>0, <2>1, <2>2, GridStep, GridFirst DEF LastOD, Solvable, Solution
  <2>4. ASSUME NEW p \in Nat, NEW q \in 1 .. MaxR, NEW o \in OutputDividers,
               Earlier(p, q, o, ppm', r', od'), ~Earlier(p, q, o, ppm, r, od)
        PROVE  p = ppm /\ q = r /\ o <= od
    BY <1>0, <2>2, <2>4, GridFirst DEF Earlier
  <2>5. TypeOK'
    BY <1>0, <2>2, GridFirst DEF TypeOK
  <2>6. NonePassed'
    BY <2>2, <2>3, <2>4 DEF NonePassed, NoneBefore, Solvable, Solution
  <2>7. ReturnedHere'
    BY <2>2 DEF ReturnedHere, Running
  <2> QED
    BY <2>5, <2>6, <2>7
<1>4. CASE IncreasePpm
  <2>1. ~Solvable(ppm, r, od)
    BY <1>4, NothingHereIsNone DEF IncreasePpm
  <2>2. /\ LastOD /\ r = MaxR /\ ppm < requestedppm /\ ppm' = ppm + 1 /\ r' = 1 /\ od' = FirstOD
        /\ UNCHANGED <<desired, requestedppm, equalFits, ret>> /\ ret = Running
    BY <1>4 DEF IncreasePpm
  <2>3. \A o \in OutputDividers : o <= od => ~Solvable(ppm, r, o)
    BY <1>0, <2>1, <2>2, GridStep, GridFirst DEF LastOD, Solvable, Solution
  <2>4. ASSUME NEW p \in Nat, NEW q \in 1 .. MaxR, NEW o \in OutputDividers,
               Earlier(p, q, o, ppm', r', od'), ~Earlier(p, q, o, ppm, r, od)
        PROVE  p = ppm /\ q = r /\ o <= od
    BY <1>0, <2>2, <2>4, GridFirst DEF Earlier
  <2>5. TypeOK'
    BY <1>0, <2>2, GridFirst, ClockAssumption DEF TypeOK
  <2>6. NonePassed'
    BY <2>2, <2>3, <2>4 DEF NonePassed, NoneBefore, Solvable, Solution
  <2>7. ReturnedHere'
    BY <2>2 DEF ReturnedHere, Running
  <2> QED
    BY <2>5, <2>6, <2>7
<1>5. CASE GiveUp
  <2>1. ~Solvable(ppm, r, od)
    BY <1>5, NothingHereIsNone DEF GiveUp
  <2>2. /\ LastOD /\ r = MaxR /\ ppm = requestedppm /\ ret' = 2
        /\ UNCHANGED <<desired, requestedppm, equalFits, ppm, r, od>>
    BY <1>5 DEF GiveUp
  <2>3. TypeOK'
    BY <2>2 DEF TypeOK
  <2>4. NonePassed'
    BY <2>2 DEF NonePassed, NoneBefore, Solvable, Solution
  <2>5. ReturnedHere'
    BY <2>1, <2>2 DEF ReturnedHere, LastOD, Solvable, Solution
  <2> QED
    BY <2>3, <2>4, <2>5
<1>6. CASE UNCHANGED vars
  <2>1. TypeOK'
    BY <1>6 DEF vars, TypeOK
  <2>2. NonePassed'
    BY <1>6 DEF vars, NonePassed, NoneBefore, Solvable, Solution
  <2>3. ReturnedHere'
    BY <1>6 DEF vars, ReturnedHere, LastOD, Solvable, Solution
  <2> QED
    BY <2>1, <2>2, <2>3
<1> QED
  BY <1>1, <1>2, <1>3, <1>4, <1>5, <1>6 DEF Next

-----------------------------------------------------------------------------
LEMMA SearchInvariant == Spec => []IInv
<1> QED
  BY InitHolds, StepHolds, PTL DEF Spec

\* The loops stay in their ranges and the output divider on its grid.
THEOREM SearchTypeCorrect == Spec => []TypeOK
<1>1. IInv => TypeOK
  BY DEF IInv
<1> QED
  BY <1>1, SearchInvariant, PTL

\* The dividers returned are a solution, and no solution with a smaller error
\* bound, a lower reference divider or a higher output divider was passed over.
THEOREM SearchReturnsBest == Spec => []BestChoice
<1>1. IInv => BestChoice
  BY DEF IInv, ReturnedHere, NonePassed, BestChoice
<1> QED
  BY <1>1, SearchInvariant, PTL

\* Return code 2 means that no dividers on the grid give the frequency within
\* the requested error.
THEOREM SearchIsExhaustive == Spec => []GivesUpOnlyWithout
<1>1. IInv => GivesUpOnlyWithout
  <2> SUFFICES ASSUME IInv, ret = 2,
                      NEW p \in 0 .. requestedppm, NEW q \in 1 .. MaxR, NEW o \in OutputDividers,
                      Solvable(p, q, o)
               PROVE  FALSE
    BY DEF GivesUpOnlyWithout
  <2>1. /\ LastOD /\ r = MaxR /\ ppm = requestedppm /\ ~Solvable(ppm, r, od)
        /\ od \in OutputDividers /\ ppm \in Nat
    BY ClockAssumption DEF IInv, ReturnedHere, TypeOK
  <2>2. ~Earlier(p, q, o, ppm, r, od)
    BY DEF IInv, NonePassed, NoneBefore
  <2>3. p = ppm /\ q = r /\ ~(o > od)
    BY <2>1, <2>2, GridFirst, ClockAssumption DEF Earlier, TypeOK, IInv
  <2>4. o < od
    BY <2>1, <2>3, GridFirst
  <2>5. ~Rule2(r)
    BY <2>1, <2>4, GridStep DEF LastOD
  <2> QED
    BY <2>3, <2>5 DEF Solvable, Solution
<1> QED
  BY <1>1, SearchInvariant, PTL

-----------------------------------------------------------------------------
\* The programming word: the bits of a number.

\* The powers of two a field can reach.
LEMMA Powers ==
  /\ 2 ^ 0 = 1 /\ 2 ^ 1 = 2 /\ 2 ^ 2 = 4 /\ 2 ^ 3 = 8 /\ 2 ^ 4 = 16 /\ 2 ^ 5 = 32
  /\ 2 ^ 6 = 64 /\ 2 ^ 7 = 128 /\ 2 ^ 8 = 256 /\ 2 ^ 9 = 512 /\ 2 ^ 10 = 1024
  /\ 2 ^ 11 = 2048 /\ 2 ^ 12 = 4096
<1> QED
  BY SMT

\* c is a bound on the numbers of w bits.
Bound(w, c) == c \in Nat /\ \A j \in w .. 12 : 2 ^ j \in Nat /\ c <= 2 ^ j

\* The bounds of the fields' widths.
LEMMA Bounds ==
  /\ Bound(1, 2) /\ Bound(2, 4) /\ Bound(3, 8) /\ Bound(4, 16)
  /\ Bound(5, 32) /\ Bound(9, 512) /\ Bound(11, 2048)
<1>1. ASSUME NEW j \in 0 .. 12
      PROVE  j \in {0, 1, 2, 3, 4, 5, 6, 7, 8, 9, 10, 11, 12}
  BY SMT
<1>0. Bound(1, 2)
  BY <1>1, Powers, SMT DEF Bound
<1>2. Bound(2, 4)
  BY <1>1, Powers, SMT DEF Bound
<1>3. Bound(3, 8)
  BY <1>1, Powers, SMT DEF Bound
<1>4. Bound(4, 16)
  BY <1>1, Powers, SMT DEF Bound
<1>5. Bound(5, 32)
  BY <1>1, Powers, SMT DEF Bound
<1>6. Bound(9, 512)
  BY <1>1, Powers, SMT DEF Bound
<1>7. Bound(11, 2048)
  BY <1>1, Powers, SMT DEF Bound
<1> QED
  BY <1>0, <1>2, <1>3, <1>4, <1>5, <1>6, <1>7

BitsOf(n) == {j \in 0 .. 12 : (n \div 2 ^ j) % 2 = 1}

\* Bit k of the word is bit k - at of the number stored at `at'.
LEMMA FieldBits ==
  ASSUME NEW n, NEW at
  PROVE  Field(n, at) = {at + j : j \in BitsOf(n)}
<1> QED
  BY Zenon DEF Field, BitsOf

\* A number of w bits stays in them.
LEMMA FieldWidth ==
  ASSUME NEW n \in Nat, NEW at \in Nat, NEW w \in 1 .. 12, NEW c, Bound(w, c), n < c
  PROVE  Field(n, at) \subseteq at .. at + w - 1
<1> SUFFICES ASSUME NEW k \in Field(n, at) PROVE k \in at .. at + w - 1
  OBVIOUS
<1>1. PICK j \in BitsOf(n) : k = at + j
  BY FieldBits, Zenon
<1>2. PICK p : p = 2 ^ j
  OBVIOUS
<1>3. j \in 0 .. 12 /\ (n \div p) % 2 = 1
  BY <1>1, <1>2, Zenon DEF BitsOf
<1>4. ASSUME w <= j PROVE FALSE
  <2>1. j \in w .. 12
    BY <1>3, <1>4, SMT
  <2>2. p \in Nat /\ c <= p /\ c \in Nat
    BY <1>2, <2>1, Zenon DEF Bound
  <2>3. n \div p = 0
    BY <2>2, SMT
  <2> QED
    BY <1>3, <2>3, SMT
<1> QED
  BY <1>1, <1>3, <1>4, SMT

\* A number is known by its last bit and its half.
LEMMA Halves ==
  ASSUME NEW a \in Nat, NEW b \in Nat, a % 2 = 1 <=> b % 2 = 1, a \div 2 = b \div 2
  PROVE  a = b
<1> QED
  BY SMT

Eleven(n) == n \in Nat /\ n < 2048

\* Nothing of a number of eleven bits is above them.
LEMMA NoHalf ==
  ASSUME NEW n, Eleven(n)
  PROVE  n \div 2048 = 0
<1> QED
  BY SMT DEF Eleven

\* Each power of two is twice the one before.
LEMMA PowerStep ==
  ASSUME NEW j \in 0 .. 10
  PROVE  2 ^ j \in Nat \ {0} /\ 2 ^ (j + 1) = 2 * 2 ^ j
<1>1. CASE j = 0
  <2>1. j + 1 = 1
    BY <1>1
  <2> QED
    BY <1>1, <2>1, Powers
<1>2. CASE j = 1
  <2>1. j + 1 = 2
    BY <1>2
  <2> QED
    BY <1>2, <2>1, Powers
<1>3. CASE j = 2
  <2>1. j + 1 = 3
    BY <1>3
  <2> QED
    BY <1>3, <2>1, Powers
<1>4. CASE j = 3
  <2>1. j + 1 = 4
    BY <1>4
  <2> QED
    BY <1>4, <2>1, Powers
<1>5. CASE j = 4
  <2>1. j + 1 = 5
    BY <1>5
  <2> QED
    BY <1>5, <2>1, Powers
<1>6. CASE j = 5
  <2>1. j + 1 = 6
    BY <1>6
  <2> QED
    BY <1>6, <2>1, Powers
<1>7. CASE j = 6
  <2>1. j + 1 = 7
    BY <1>7
  <2> QED
    BY <1>7, <2>1, Powers
<1>8. CASE j = 7
  <2>1. j + 1 = 8
    BY <1>8
  <2> QED
    BY <1>8, <2>1, Powers
<1>9. CASE j = 8
  <2>1. j + 1 = 9
    BY <1>9
  <2> QED
    BY <1>9, <2>1, Powers
<1>10. CASE j = 9
  <2>1. j + 1 = 10
    BY <1>10
  <2> QED
    BY <1>10, <2>1, Powers
<1>11. CASE j = 10
  <2>1. j + 1 = 11
    BY <1>11
  <2> QED
    BY <1>11, <2>1, Powers
<1> QED
  BY <1>1, <1>2, <1>3, <1>4, <1>5, <1>6, <1>7, <1>8, <1>9, <1>10, <1>11, SMT

\* A number of eleven bits is known by its bits, from the highest down.
LEMMA BitsInjective ==
  ASSUME NEW n, Eleven(n), NEW m, Eleven(m), BitsOf(n) = BitsOf(m)
  PROVE  n = m
<1>0. n \in Nat /\ m \in Nat
  BY DEF Eleven
<1> DEFINE Same(j) == n \div 2 ^ j = m \div 2 ^ j
<1>1. ASSUME NEW j \in 0 .. 10, Same(j + 1) PROVE Same(j)
  <2>1. PICK p, d : p = 2 ^ j /\ d = 2 ^ (j + 1)
    OBVIOUS
  <2>2. p \in Nat \ {0} /\ d = 2 * p /\ n \div d = m \div d
    BY <1>1, <2>1, PowerStep, Zenon
  <2>3. n \div p \in Nat /\ m \div p \in Nat
    BY <1>0, <2>2, SMT
  <2>4. (n \div p) % 2 = 1 <=> (m \div p) % 2 = 1
    <3>1. j \in 0 .. 12
      BY SMT
    <3> QED
      BY <2>1, <3>1, Zenon DEF BitsOf
  <2>5. (n \div p) \div 2 = n \div d /\ (m \div p) \div 2 = m \div d
    BY <1>0, <2>2, SMT
  <2> QED
    BY <2>1, <2>2, <2>3, <2>4, <2>5, Halves
<1>2. Same(11)
  <2>1. 2 ^ 11 = 2048
    BY Powers
  <2> QED
    BY <2>1, NoHalf
<1> HIDE DEF Same
<1>3. \A j \in 0 .. 10 : Same(j + 1) => Same(j)
  BY <1>1
<1>4. Same(10)
  <2>1. 10 \in 0 .. 10 /\ 10 + 1 = 11
    BY SMT
  <2> QED
    BY <1>3, <1>2, <2>1, Zenon
<1>5. Same(9)
  <2>1. 9 \in 0 .. 10 /\ 9 + 1 = 10
    BY SMT
  <2> QED
    BY <1>3, <1>4, <2>1, Zenon
<1>6. Same(8)
  <2>1. 8 \in 0 .. 10 /\ 8 + 1 = 9
    BY SMT
  <2> QED
    BY <1>3, <1>5, <2>1, Zenon
<1>7. Same(7)
  <2>1. 7 \in 0 .. 10 /\ 7 + 1 = 8
    BY SMT
  <2> QED
    BY <1>3, <1>6, <2>1, Zenon
<1>8. Same(6)
  <2>1. 6 \in 0 .. 10 /\ 6 + 1 = 7
    BY SMT
  <2> QED
    BY <1>3, <1>7, <2>1, Zenon
<1>9. Same(5)
  <2>1. 5 \in 0 .. 10 /\ 5 + 1 = 6
    BY SMT
  <2> QED
    BY <1>3, <1>8, <2>1, Zenon
<1>10. Same(4)
  <2>1. 4 \in 0 .. 10 /\ 4 + 1 = 5
    BY SMT
  <2> QED
    BY <1>3, <1>9, <2>1, Zenon
<1>11. Same(3)
  <2>1. 3 \in 0 .. 10 /\ 3 + 1 = 4
    BY SMT
  <2> QED
    BY <1>3, <1>10, <2>1, Zenon
<1>12. Same(2)
  <2>1. 2 \in 0 .. 10 /\ 2 + 1 = 3
    BY SMT
  <2> QED
    BY <1>3, <1>11, <2>1, Zenon
<1>13. Same(1)
  <2>1. 1 \in 0 .. 10 /\ 1 + 1 = 2
    BY SMT
  <2> QED
    BY <1>3, <1>12, <2>1, Zenon
<1>14. Same(0)
  <2>1. 0 \in 0 .. 10 /\ 0 + 1 = 1
    BY SMT
  <2> QED
    BY <1>3, <1>13, <2>1, Zenon
<1>15. n \div 1 = m \div 1
  BY <1>14, Powers DEF Same
<1> QED
  BY <1>0, <1>15, SMT

\* So is one stored in the word.
LEMMA FieldInjective ==
  ASSUME NEW n, Eleven(n), NEW m, Eleven(m), NEW at \in Nat,
         Field(n, at) = Field(m, at)
  PROVE  n = m
<1>1. ASSUME NEW x, NEW y, Field(x, at) = Field(y, at), NEW k \in BitsOf(x)
      PROVE  k \in BitsOf(y)
  <2>1. at + k \in Field(y, at)
    BY <1>1, FieldBits, Zenon
  <2>2. PICK j \in BitsOf(y) : at + k = at + j
    BY <2>1, FieldBits, Zenon
  <2>3. j \in 0 .. 12 /\ k \in 0 .. 12
    BY <1>1, Zenon DEF BitsOf
  <2>4. j = k
    BY <2>2, <2>3, SMT
  <2> QED
    BY <2>4
<1>2. BitsOf(n) \subseteq BitsOf(m) /\ BitsOf(m) \subseteq BitsOf(n)
  BY <1>1, Zenon
<1>3. BitsOf(n) = BitsOf(m)
  BY <1>2
<1> QED
  BY <1>3, BitsInjective


-----------------------------------------------------------------------------
\* A nonempty set of numbers has a least one.
LEMMA LeastNumber ==
  ASSUME NEW T, T \subseteq Nat, T # {}
  PROVE  \E x \in T : \A y \in T : x <= y
<1> DEFINE R == {ss \in Nat \X Nat : ss[1] < ss[2]}
<1>1. IsWellFoundedOn(R, Nat)
  BY NatLessThanWellFounded, Zenon DEF OpToRel
<1>2. ASSUME NEW x \in Nat, NEW y \in Nat, <<y, x>> \notin R PROVE x <= y
  BY <1>2, SMT
<1> HIDE DEF R
<1>3. PICK x \in T : \A y \in T : ~ (<<y, x>> \in R)
  BY <1>1, WFMin, Zenon
<1> QED
  BY <1>2, <1>3, Zenon

\* The order of the filter loops has a first filter among those in range.
LEMMA FirstOfFilters ==
  ASSUME NEW q, NEW v, Filters(q, v) # {}
  PROVE  FirstFilter(q, v) \in (1 .. 4) \X (1 .. 20)
<1> DEFINE F == Filters(q, v)
<1>1. F \subseteq (1 .. 4) \X (1 .. 20)
  BY DEF Filters
<1> HIDE DEF F
<1> DEFINE A == {f[1] : f \in F}
<1>2. A \subseteq Nat /\ A # {}
  BY <1>1 DEF F
<1>3. PICK a \in A : \A y \in A : a <= y
  BY <1>2, LeastNumber, Zenon
<1> DEFINE B == {f[2] : f \in {g \in F : g[1] = a}}
<1>4. B \subseteq Nat /\ B # {}
  BY <1>1
<1>5. PICK b \in B : \A y \in B : b <= y
  BY <1>4, LeastNumber, Zenon
<1>6. PICK f \in F : f[1] = a /\ f[2] = b
  BY <1>1
<1>7. \A g \in F : f[1] < g[1] \/ (f[1] = g[1] /\ f[2] <= g[2])
  <2> SUFFICES ASSUME NEW g \in F PROVE f[1] < g[1] \/ (f[1] = g[1] /\ f[2] <= g[2])
    OBVIOUS
  <2>1. a <= g[1] /\ a \in Nat /\ g[1] \in Nat /\ (g[1] = a => b <= g[2])
    BY <1>1, <1>2, <1>3, <1>5
  <2> QED
    BY <1>6, <2>1
<1>8. FirstFilter(q, v) \in F
  BY <1>6, <1>7, Zenon DEF FirstFilter, F
<1> QED
  BY <1>1, <1>8

-----------------------------------------------------------------------------
\* The tables: each stays within its bits.

\* A number of eleven bits stays in them.
LEMMA ElevenBits ==
  ASSUME NEW n, Eleven(n), NEW at \in Nat
  PROVE  Field(n, at) \subseteq at .. at + 10
<1>1. PICK c : c = 2048
  OBVIOUS
<1>2. Bound(11, c) /\ n \in Nat /\ n < c
  BY <1>1, Bounds DEF Eleven
<1> HIDE <1>1
<1>3. 11 \in 1 .. 12 /\ at + 11 - 1 = at + 10
  BY SMT
<1> QED
  BY <1>2, <1>3, FieldWidth, Zenon

\* The input dividers Rule 2 lets through.
InputNumbers == 1 .. 1200

\* The three forms of Table 1 are told apart by bits 0 and 1.
InputForm(q, code) ==
  /\ code \subseteq InputBits
  /\ q <= 2 => Eleven(q - 1) /\ 1 \notin code /\ Field(q - 1, 0) = code
  /\ 2 < q /\ q <= 17 =>
       /\ Eleven(17 - q) /\ 1 \in code /\ 0 \notin code
       /\ Field(17 - q, 2) = code \ {0, 1}
  /\ 17 < q => /\ Eleven(q - 8) /\ 1 \in code /\ 0 \in code
               /\ Field(q - 8, 2) = code \ {0, 1}

LEMMA InputForms ==
  ASSUME NEW q \in InputNumbers
  PROVE  InputForm(q, InputDivider(q))
<1> USE DEF InputNumbers
<1>0. ASSUME NEW F, F \subseteq 2 .. 2 + 10
      PROVE  0 \notin F /\ 1 \notin F /\ F \subseteq InputBits
  BY <1>0 DEF InputBits
<1>1. CASE q <= 2
  <2>1. Eleven(q - 1) /\ q - 1 \in Nat /\ q - 1 < 2
    BY <1>1 DEF Eleven
  <2>2. 1 \in 1 .. 12 /\ 0 \in Nat /\ 0 .. 0 + 1 - 1 = {0}
    BY SMT
  <2>3. Field(q - 1, 0) \subseteq 0 .. 0 + 1 - 1
    <3>1. PICK n : n = q - 1
      OBVIOUS
    <3>2. n \in Nat /\ n < 2 /\ Bound(1, 2)
      BY <2>1, <3>1, Bounds
    <3>3. Field(n, 0) \subseteq 0 .. 0 + 1 - 1
      BY <2>2, <3>2, FieldWidth, ZenonT(60)
    <3> QED
      BY <3>1, <3>3
  <2>4. InputDivider(q) = Field(q - 1, 0)
    BY <1>1 DEF InputDivider
  <2>5. InputDivider(q) \subseteq InputBits /\ 1 \notin InputDivider(q)
    BY <2>2, <2>3, <2>4 DEF InputBits
  <2> QED
    BY <1>1, <2>1, <2>4, <2>5 DEF InputForm
<1>2. CASE 2 < q /\ q <= 17
  <2>1. Eleven(17 - q) /\ ~(q <= 2) /\ q <= 17
    BY <1>2 DEF Eleven
  <2>2. PICK F : F = Field(17 - q, 2)
    OBVIOUS
  <2>3. F \subseteq 2 .. 2 + 10
    BY <2>1, <2>2, ElevenBits
  <2>4. InputDivider(q) = F \cup {1}
    BY <2>1, <2>2 DEF InputDivider
  <2>5. 0 \notin F /\ 1 \notin F /\ F \subseteq InputBits /\ 1 \in InputBits
    BY <1>0, <2>3 DEF InputBits
  <2>6. /\ InputDivider(q) \subseteq InputBits /\ 1 \in InputDivider(q)
        /\ 0 \notin InputDivider(q) /\ F = InputDivider(q) \ {0, 1}
    BY <2>4, <2>5
  <2> QED
    BY <1>2, <2>1, <2>2, <2>6 DEF InputForm
<1>3. CASE 17 < q
  <2>1. Eleven(q - 8) /\ ~(q <= 2) /\ ~(q <= 17)
    BY <1>3 DEF Eleven
  <2>2. PICK F : F = Field(q - 8, 2)
    OBVIOUS
  <2>3. F \subseteq 2 .. 2 + 10
    BY <2>1, <2>2, ElevenBits
  <2>4. InputDivider(q) = F \cup {0, 1}
    BY <2>1, <2>2 DEF InputDivider
  <2>5. 0 \notin F /\ 1 \notin F /\ F \subseteq InputBits /\ 1 \in InputBits /\ 0 \in InputBits
    BY <1>0, <2>3 DEF InputBits
  <2>6. /\ InputDivider(q) \subseteq InputBits /\ 1 \in InputDivider(q)
        /\ 0 \in InputDivider(q) /\ F = InputDivider(q) \ {0, 1}
    BY <2>4, <2>5
  <2> QED
    BY <1>3, <2>1, <2>2, <2>6 DEF InputForm
<1> QED
  BY <1>1, <1>2, <1>3

\* Table 1 stays in the input bits and gives every divider a code of its own.
LEMMA InputTable ==
  ASSUME NEW q \in InputNumbers
  PROVE  /\ InputDivider(q) \subseteq InputBits
         /\ \A t \in InputNumbers \ {q} : InputDivider(t) # InputDivider(q)
<1>0. q \in 1 .. 1200
  BY DEF InputNumbers
<1>1. ASSUME NEW t \in InputNumbers, InputDivider(t) = InputDivider(q)
      PROVE  t = q
  <2> PICK I : I = InputDivider(q)
    OBVIOUS
  <2>0. InputForm(q, I) /\ InputForm(t, I) /\ t \in 1 .. 1200
    <3>1. InputForm(q, I) /\ InputForm(t, I)
      BY <1>1, InputForms, Zenon
    <3> QED
      BY <3>1 DEF InputNumbers
  <2>1. CASE q <= 2
    <3>1. t <= 2
      BY <1>0, <2>0, <2>1 DEF InputForm
    <3>2. Field(t - 1, 0) = Field(q - 1, 0) /\ Eleven(t - 1) /\ Eleven(q - 1) /\ 0 \in Nat
      BY <1>0, <2>0, <2>1, <3>1 DEF InputForm
    <3>3. t - 1 = q - 1
      BY <3>2, FieldInjective
    <3> QED
      BY <1>0, <2>0, <3>3
  <2>2. CASE 2 < q /\ q <= 17
    <3>1. 2 < t /\ t <= 17
      BY <1>0, <2>0, <2>2 DEF InputForm
    <3>2. Field(17 - t, 2) = Field(17 - q, 2) /\ Eleven(17 - t) /\ Eleven(17 - q) /\ 2 \in Nat
      BY <1>0, <2>0, <2>2, <3>1 DEF InputForm
    <3>3. 17 - t = 17 - q
      BY <3>2, FieldInjective
    <3> QED
      BY <1>0, <2>0, <3>3
  <2>3. CASE 17 < q
    <3>1. 17 < t
      BY <1>0, <2>0, <2>3 DEF InputForm
    <3>2. Field(t - 8, 2) = Field(q - 8, 2) /\ Eleven(t - 8) /\ Eleven(q - 8) /\ 2 \in Nat
      BY <1>0, <2>0, <2>3, <3>1 DEF InputForm
    <3>3. t - 8 = q - 8
      BY <3>2, FieldInjective
    <3> QED
      BY <1>0, <2>0, <3>3
  <2> QED
    BY <1>0, <2>1, <2>2, <2>3
<1>2. InputDivider(q) \subseteq InputBits
  BY InputForms, Zenon DEF InputForm
<1> QED
  BY <1>1, <1>2, Zenon

\* Table 2 stays in the VCO bits and gives every divider a code of its own.
LEMMA VCOTable ==
  ASSUME NEW v \in min_V .. max_V
  PROVE  /\ VCODivider(v) \subseteq VCOBits
         /\ \A t \in (min_V .. max_V) \ {v} : VCODivider(t) # VCODivider(v)
<1>1. \A t \in min_V .. max_V : Eleven(t - 8) /\ t \in Int
  BY DEF Eleven, min_V, max_V
<1>2. 13 \in Nat /\ 13 .. 13 + 10 = VCOBits
  BY DEF VCOBits
<1>3. VCODivider(v) \subseteq VCOBits
  BY <1>1, <1>2, ElevenBits DEF VCODivider
<1>4. ASSUME NEW t \in min_V .. max_V, VCODivider(t) = VCODivider(v)
      PROVE  t = v
  <2>1. t - 8 = v - 8
    BY <1>1, <1>2, <1>4, FieldInjective DEF VCODivider
  <2> QED
    BY <1>1, <2>1
<1> QED
  BY <1>3, <1>4

\* The members of the two tables of the search.
LEMMA CurrentValues ==
  /\ {Currents[j] : j \in 1 .. 20} =
       {1, 2, 3, 4, 5, 6, 7, 8, 9, 10, 12, 14, 15, 16, 18, 20, 21, 24, 28, 32}
  /\ {Resistors[j] : j \in 1 .. 4} = {64, 52, 16, 4}
<1>1. 1 .. 20 = {1, 2, 3, 4, 5, 6, 7, 8, 9, 10, 11, 12, 13, 14, 15, 16, 17, 18, 19, 20}
  BY SMT
<1>2. 1 .. 4 = {1, 2, 3, 4}
  BY SMT
<1>3. {Currents[j] : j \in 1 .. 20} =
       {1, 2, 3, 4, 5, 6, 7, 8, 9, 10, 12, 14, 15, 16, 18, 20, 21, 24, 28, 32}
  BY <1>1, SMTT(60) DEF Currents
<1>4. {Resistors[j] : j \in 1 .. 4} = {64, 52, 16, 4}
  BY <1>2, SMTT(60) DEF Resistors
<1> QED
  BY <1>3, <1>4

ResistorValues == {64, 52, 16, 4}
CurrentNumbers == {1, 2, 3, 4, 5, 6, 7, 8, 9, 10, 12, 14, 15, 16, 18, 20, 21, 24, 28, 32}

\* Table 4 stays in the resistor bits.
LEMMA ResistorTable ==
  ASSUME NEW rs \in ResistorValues
  PROVE  LoopFilterResistor(rs) \subseteq ResistorBits
<1> QED
  BY SMT DEF LoopFilterResistor, ResistorBits, ResistorValues

\* The code and the two multiplying bits of a current tell it from the others.
Doubled(icp) == icp \in {2, 4, 10, 12, 14, 16, 20, 28, 32}
Tripled(icp) == icp \in {3, 4, 9, 12, 15, 18, 20, 21, 24, 28, 32}

\* No two currents have the same code and the same two bits.
LEMMA CurrentCodes ==
  ASSUME NEW a \in CurrentNumbers
  PROVE  /\ ChargePumpCode(a) \in 0 .. 7
         /\ \A b \in CurrentNumbers :
              /\ ChargePumpCode(a) = ChargePumpCode(b)
              /\ Doubled(a) <=> Doubled(b)
              /\ Tripled(a) <=> Tripled(b)
              => a = b
<1>1. ChargePumpCode(a) \in 0 .. 7
  BY SMT DEF ChargePumpCode, CurrentNumbers
<1> SUFFICES ASSUME NEW b \in CurrentNumbers, ChargePumpCode(a) = ChargePumpCode(b),
                    Doubled(a) <=> Doubled(b), Tripled(a) <=> Tripled(b)
             PROVE  a = b
  BY <1>1, Zenon
<1> QED
  BY SMTT(60) DEF ChargePumpCode, CurrentNumbers, Doubled, Tripled

\* Table 3 stays in the current bits, and its code and two bits can be told apart.
LEMMA CurrentForm ==
  ASSUME NEW a \in CurrentNumbers
  PROVE  /\ ChargePumpCurrent(a) \subseteq CurrentBits
         /\ Field(ChargePumpCode(a), 91) = ChargePumpCurrent(a) \ {127, 128}
         /\ 127 \in ChargePumpCurrent(a) <=> Doubled(a)
         /\ 128 \in ChargePumpCurrent(a) <=> Tripled(a)
<1>1. PICK n : n = ChargePumpCode(a)
  OBVIOUS
<1>2. n \in Nat /\ n < 8 /\ Bound(3, 8)
  <2>1. n \in 0 .. 7
    BY <1>1, CurrentCodes, Zenon
  <2> QED
    BY <2>1, Bounds
<1>3. PICK F : F = Field(n, 91)
  OBVIOUS
<1>4. F \subseteq 91 .. 91 + 3 - 1
  <2>1. 3 \in 1 .. 12 /\ 91 \in Nat
    BY SMT
  <2> QED
    BY <1>2, <1>3, <2>1, FieldWidth, Zenon
<1>5. F \subseteq CurrentBits /\ 127 \notin F /\ 128 \notin F
  BY <1>4 DEF CurrentBits
<1>6. PICK D : D = IF Doubled(a) THEN {127} ELSE {}
  OBVIOUS
<1>7. PICK T : T = IF Tripled(a) THEN {128} ELSE {}
  OBVIOUS
<1>8. ChargePumpCurrent(a) = F \cup D \cup T
  BY <1>1, <1>3, <1>6, <1>7, Zenon DEF ChargePumpCurrent, Doubled, Tripled
<1>9. /\ D \subseteq {127} /\ T \subseteq {128} /\ 127 # 128
      /\ 127 \in D <=> Doubled(a)
      /\ 128 \in T <=> Tripled(a)
  BY <1>6, <1>7
<1>10. 127 \in CurrentBits /\ 128 \in CurrentBits
  BY DEF CurrentBits
<1> HIDE DEF CurrentBits
<1>11. /\ ChargePumpCurrent(a) \subseteq CurrentBits
       /\ F = ChargePumpCurrent(a) \ {127, 128}
  <2>1. F \cup D \cup T \subseteq CurrentBits
    <3>1. F \subseteq CurrentBits /\ D \subseteq CurrentBits /\ T \subseteq CurrentBits
      BY <1>5, <1>9, <1>10
    <3> QED
      BY <3>1, Zenon
  <2>2. F = (F \cup D \cup T) \ {127, 128}
    <3>1. D \subseteq {127, 128} /\ T \subseteq {127, 128}
      BY <1>9
    <3>2. PICK X : X = {127, 128}
      OBVIOUS
    <3>3. \A x \in F : x \notin X
      BY <1>5, <3>2
    <3>4. F = (F \cup D \cup T) \ X
      <4>1. D \subseteq X /\ T \subseteq X
        BY <3>1, <3>2
      <4> QED
        BY <3>3, <4>1, Zenon
    <3> QED
      BY <3>2, <3>4
  <2> QED
    BY <1>8, <2>1, <2>2, Zenon
<1>12. 127 \in ChargePumpCurrent(a) <=> 127 \in D
  BY <1>5, <1>8, <1>9
<1>13. 128 \in ChargePumpCurrent(a) <=> 128 \in T
  BY <1>5, <1>8, <1>9
<1>14. /\ 127 \in ChargePumpCurrent(a) <=> Doubled(a)
       /\ 128 \in ChargePumpCurrent(a) <=> Tripled(a)
  BY <1>9, <1>12, <1>13
<1>15. Field(ChargePumpCode(a), 91) = F
  BY <1>1, <1>3
<1> QED
  BY <1>11, <1>14, <1>15

\* Table 3 gives every current a code of its own.
LEMMA CurrentTable ==
  ASSUME NEW a \in CurrentNumbers, NEW b \in CurrentNumbers, a # b
  PROVE  ChargePumpCurrent(b) # ChargePumpCurrent(a)
<1> SUFFICES ASSUME ChargePumpCurrent(b) = ChargePumpCurrent(a) PROVE FALSE
  OBVIOUS
<1>1. /\ Field(ChargePumpCode(a), 91) = Field(ChargePumpCode(b), 91)
      /\ Doubled(a) <=> Doubled(b)
      /\ Tripled(a) <=> Tripled(b)
  <2>1. PICK C : C = ChargePumpCurrent(a) /\ C = ChargePumpCurrent(b)
    OBVIOUS
  <2>2. /\ Field(ChargePumpCode(a), 91) = C \ {127, 128}
        /\ 127 \in C <=> Doubled(a)
        /\ 128 \in C <=> Tripled(a)
    BY <2>1, CurrentForm
  <2>3. /\ Field(ChargePumpCode(b), 91) = C \ {127, 128}
        /\ 127 \in C <=> Doubled(b)
        /\ 128 \in C <=> Tripled(b)
    BY <2>1, CurrentForm
  <2> QED
    BY <2>2, <2>3
<1>2. \A c \in CurrentNumbers : Eleven(ChargePumpCode(c))
  BY CurrentCodes, SMT DEF Eleven
<1>3. ChargePumpCode(a) = ChargePumpCode(b)
  <2>1. 91 \in Nat
    BY SMT
  <2> QED
    BY <1>1, <1>2, <2>1, FieldInjective, Zenon
<1> QED
  BY <1>1, <1>3, CurrentCodes, Zenon

\* The output dividers whose code is an index and a power of two.
LargeDivider(o) == o \in 38 .. 8232

\* The powers of two a large output divider is split by.
LEMMA SmallPowers ==
  ASSUME NEW j \in 0 .. 3
  PROVE  \/ j = 0 /\ 2 ^ j = 1
         \/ j = 1 /\ 2 ^ j = 2
         \/ j = 2 /\ 2 ^ j = 4
         \/ j = 3 /\ 2 ^ j = 8
<1>1. CASE j = 0
  BY <1>1, Powers
<1>2. CASE j = 1
  BY <1>2, Powers
<1>3. CASE j = 2
  BY <1>3, Powers
<1>4. CASE j = 3
  BY <1>4, Powers
<1> QED
  BY <1>1, <1>2, <1>3, <1>4, SMT

\* What a split is.
Indices == 0 .. 511

LEMMA SplitParts ==
  ASSUME NEW o, NEW s \in Splits(o)
  PROVE  /\ s \in {0, 1} \X (0 .. 3)
         /\ o % 2 ^ s[2] = 0 /\ (o \div 2 ^ s[2]) % 2 = s[1]
         /\ IndexOf(o, s[1], s[2]) \in Indices
<1> QED
  BY Zenon DEF Splits, Indices

\* Two splits never share an index: the higher power of two has the lower one.
LEMMA IndexFalls ==
  ASSUME NEW o, LargeDivider(o), NEW s \in Splits(o), NEW t \in Splits(o), t[2] < s[2]
  PROVE  IndexOf(o, s[1], s[2]) < IndexOf(o, t[1], t[2])
<1>8. PICK y : y = s[1]
  OBVIOUS
<1>9. PICK z : z = t[1]
  OBVIOUS
<1>10. PICK p : p = 2 ^ s[2]
  OBVIOUS
<1>11. PICK q : q = 2 ^ t[2]
  OBVIOUS
<1>1. y = s[1] /\ z = t[1] /\ p = 2 ^ s[2] /\ q = 2 ^ t[2]
  BY <1>8, <1>9, <1>10, <1>11
<1>2. o % p = 0 /\ (o \div p) % 2 = y /\ o % q = 0 /\ (o \div q) % 2 = z
  BY <1>1, SplitParts, Zenon
<1>3. PICK j, k : j = s[2] /\ k = t[2]
  OBVIOUS
<1>4. j \in 0 .. 3 /\ k \in 0 .. 3 /\ y \in {0, 1} /\ z \in {0, 1}
  <2>1. s \in {0, 1} \X (0 .. 3) /\ t \in {0, 1} \X (0 .. 3)
    BY SplitParts, Zenon
  <2> QED
    BY <1>1, <1>3, <2>1
<1>5. /\ \/ j = 0 /\ p = 1
         \/ j = 1 /\ p = 2
         \/ j = 2 /\ p = 4
         \/ j = 3 /\ p = 8
      /\ \/ k = 0 /\ q = 1
         \/ k = 1 /\ q = 2
         \/ k = 2 /\ q = 4
         \/ k = 3 /\ q = 8
  BY <1>1, <1>3, <1>4, SmallPowers, Zenon
<1>6. k < j
  BY <1>3
<1>7. (o \div p - y) \div 2 - 3 < (o \div q - z) \div 2 - 3
  <2>0. o \in 38 .. 8232
    BY DEF LargeDivider
  <2>1. CASE p = 2 /\ q = 1
    BY <1>2, <1>4, <2>0, <2>1, SMT
  <2>2. CASE p = 4 /\ q = 1
    BY <1>2, <1>4, <2>0, <2>2, SMT
  <2>3. CASE p = 4 /\ q = 2
    BY <1>2, <1>4, <2>0, <2>3, SMT
  <2>4. CASE p = 8 /\ q = 1
    BY <1>2, <1>4, <2>0, <2>4, SMT
  <2>5. CASE p = 8 /\ q = 2
    BY <1>2, <1>4, <2>0, <2>5, SMT
  <2>6. CASE p = 8 /\ q = 4
    BY <1>2, <1>4, <2>0, <2>6, SMT
  <2> QED
    BY <1>5, <1>6, <2>1, <2>2, <2>3, <2>4, <2>5, <2>6, SMT
<1> QED
  BY <1>1, <1>7, Zenon DEF IndexOf

\* So the loop over the index finds one split, the first.
LEMMA FirstSplitExists ==
  ASSUME NEW o, LargeDivider(o), Splits(o) # {}
  PROVE  FirstSplit(Splits(o), o) \in Splits(o)
<1>1. PICK S : S = Splits(o)
  OBVIOUS
<1>2. ASSUME NEW s \in S
      PROVE  s \in {0, 1} \X (0 .. 3) /\ (o \div 2 ^ s[2]) % 2 = s[1]
  BY <1>1, SplitParts, Zenon
<1>3. \A s \in S : s \in {0, 1} \X (0 .. 3)
  BY <1>2, Zenon
<1> DEFINE A == {3 - s[2] : s \in S}
<1>4. A \subseteq Nat /\ A # {}
  BY <1>1, <1>3, SMT
<1>5. PICK a \in A : \A b \in A : a <= b
  <2> HIDE DEF A
  <2> QED
    BY <1>4, LeastNumber, Zenon
<1>6. PICK s \in S : a = 3 - s[2]
  OBVIOUS
<1>7. ASSUME NEW t \in S, t # s
      PROVE  IndexOf(o, s[1], s[2]) < IndexOf(o, t[1], t[2])
  <2>1. s[2] \in 0 .. 3 /\ t[2] \in 0 .. 3 /\ 3 - s[2] <= 3 - t[2]
    BY <1>3, <1>5, <1>6
  <2>2. s = <<s[1], s[2]>> /\ t = <<t[1], t[2]>>
    BY <1>3
  <2>3. ASSUME s[2] = t[2] PROVE FALSE
    <3>1. s[1] = t[1]
      BY <1>2, <1>7, <2>3, Zenon
    <3> QED
      BY <1>7, <2>2, <2>3, <3>1, Zenon
  <2>4. t[2] < s[2]
    BY <2>1, <2>3
  <2> QED
    BY <1>1, <2>4, IndexFalls, Zenon
<1>8. \A t \in S \ {s} : IndexOf(o, s[1], s[2]) < IndexOf(o, t[1], t[2])
  BY <1>7, Zenon
<1> QED
  BY <1>1, <1>8, Zenon DEF FirstSplit

\* Where the fields of Table 5 lie.
LEMMA OutputNumbers ==
  /\ {95, 96, 97, 98, 99} \subseteq OutputBits
  /\ 98 .. 98 + 5 - 1 \subseteq OutputBits
  /\ 99 .. 99 + 2 - 1 \subseteq OutputBits
  /\ 101 .. 101 + 9 - 1 \subseteq OutputBits
<1> QED
  BY SMT DEF OutputBits

\* The low bits of byte 12 are output bits.
LEMMA ByteTwelve ==
  ASSUME NEW bits, bits \subseteq 0 .. 3
  PROVE  Byte(12, bits) \subseteq OutputBits
<1> QED
  BY SMT DEF Byte, OutputBits

\* The first output dividers.
LEMMA SmallOutputBits ==
  ASSUME NEW o \in DOMAIN SmallOutput
  PROVE  SmallOutput[o] \subseteq OutputBits
<1>1. o \in {2, 3, 4, 5, 6, 7, 9, 11, 13}
  BY DEF SmallOutput
<1>2. /\ Byte(12, {2}) \subseteq OutputBits /\ Byte(12, {0}) \subseteq OutputBits
      /\ Byte(12, {0, 2}) \subseteq OutputBits /\ Byte(12, {0, 3}) \subseteq OutputBits
      /\ Byte(12, {0, 2, 3}) \subseteq OutputBits
  BY ByteTwelve
<1>3. 95 \in OutputBits
  BY DEF OutputBits
<1>4. CASE o = 2
  BY <1>4 DEF SmallOutput
<1>5. CASE o = 3
  <2>1. SmallOutput[o] = {95}
    BY <1>5 DEF SmallOutput
  <2> QED
    BY <1>3, <2>1
<1>6. CASE o = 4
  <2>1. SmallOutput[o] = Byte(12, {2})
    BY <1>6 DEF SmallOutput
  <2> QED
    BY <1>2, <2>1
<1>7. CASE o = 5
  <2>1. SmallOutput[o] = Byte(12, {0})
    BY <1>7 DEF SmallOutput
  <2> QED
    BY <1>2, <2>1
<1>8. CASE o = 6
  <2>1. SmallOutput[o] = {95} \cup Byte(12, {2})
    BY <1>8 DEF SmallOutput
  <2> QED
    BY <1>2, <1>3, <2>1
<1>9. CASE o = 7
  <2>1. SmallOutput[o] = {95} \cup Byte(12, {0})
    BY <1>9 DEF SmallOutput
  <2> QED
    BY <1>2, <1>3, <2>1
<1>10. CASE o = 9
  <2>1. SmallOutput[o] = {95} \cup Byte(12, {0, 2})
    BY <1>10 DEF SmallOutput
  <2> QED
    BY <1>2, <1>3, <2>1
<1>11. CASE o = 11
  <2>1. SmallOutput[o] = {95} \cup Byte(12, {0, 3})
    BY <1>11 DEF SmallOutput
  <2> QED
    BY <1>2, <1>3, <2>1
<1>12. CASE o = 13
  <2>1. SmallOutput[o] = {95} \cup Byte(12, {0, 2, 3})
    BY <1>12 DEF SmallOutput
  <2> QED
    BY <1>2, <1>3, <2>1
<1> QED
  BY <1>1, <1>4, <1>5, <1>6, <1>7, <1>8, <1>9, <1>10, <1>11, <1>12

\* The output dividers with an index.
LEMMA LargeOutputBits ==
  ASSUME NEW o, LargeDivider(o)
  PROVE  LargeOutput(o) \subseteq OutputBits
<1>1. {95} \cup Byte(12, {1}) \subseteq OutputBits /\ Byte(12, {2}) \subseteq OutputBits
  <2>1. Byte(12, {1}) \subseteq OutputBits /\ Byte(12, {2}) \subseteq OutputBits
    BY ByteTwelve
  <2>2. 95 \in OutputBits
    BY DEF OutputBits
  <2> QED
    BY <2>1, <2>2
<1>2. CASE Splits(o) = {}
  <2>1. LargeOutput(o) = {95} \cup Byte(12, {1})
    BY <1>2 DEF LargeOutput
  <2> QED
    BY <1>1, <2>1
<1>3. CASE Splits(o) # {}
  <2>1. PICK s : s = FirstSplit(Splits(o), o)
    OBVIOUS
  <2>2. s \in Splits(o)
    BY <1>3, <2>1, FirstSplitExists, Zenon
  <2>3. PICK i, z : i = IndexOf(o, s[1], s[2]) /\ z = s[2]
    OBVIOUS
  <2>4. i \in Indices /\ s \in {0, 1} \X (0 .. 3)
    BY <2>2, <2>3, SplitParts, Zenon
  <2>5. i \in Nat /\ i < 512 /\ z \in Nat /\ z < 4
    BY <2>3, <2>4 DEF Indices
  <2>6. Field(i, 101) \subseteq OutputBits
    <3>1. PICK c : c = 512
      OBVIOUS
    <3>2. Bound(9, c) /\ i < c
      BY <2>5, <3>1, Bounds
    <3> HIDE <3>1
    <3>3. 9 \in 1 .. 12 /\ 101 \in Nat
      BY SMT
    <3>4. Field(i, 101) \subseteq 101 .. 101 + 9 - 1
      BY <2>5, <3>2, <3>3, FieldWidth
    <3> QED
      BY <3>4, OutputNumbers
  <2>7. Field(z, 99) \subseteq OutputBits
    <3>1. 2 \in 1 .. 12 /\ 99 \in Nat /\ Bound(2, 4)
      BY Bounds
    <3>2. Field(z, 99) \subseteq 99 .. 99 + 2 - 1
      BY <2>5, <3>1, FieldWidth
    <3> QED
      BY <3>2, OutputNumbers
  <2>8. PICK E : E = IF s[1] = 0 THEN Byte(12, {2}) ELSE {}
    OBVIOUS
  <2>9. E \subseteq OutputBits
    BY <1>1, <2>8
  <2>10. LargeOutput(o) = {95} \cup Byte(12, {1}) \cup (Field(i, 101) \cup Field(z, 99) \cup E)
    BY <1>3, <2>1, <2>3, <2>8 DEF LargeOutput
  <2> QED
    BY <1>1, <2>6, <2>7, <2>9, <2>10
<1> QED
  BY <1>2, <1>3

\* Table 5 stays in the output bits: the codes of its own, the inverted ones and
\* the large ones.
LEMMA OutputTable ==
  ASSUME NEW o \in OutputDividers
  PROVE  OutputDivider(o) \subseteq OutputBits
<1>1. o \in Int /\ 2 <= o /\ o <= 8232
  BY GridBounds
<1>2. CASE o \in DOMAIN SmallOutput
  <2>1. OutputDivider(o) = SmallOutput[o]
    BY <1>2, Zenon DEF OutputDivider
  <2> QED
    BY <1>2, <2>1, SmallOutputBits
<1>3. CASE o \notin DOMAIN SmallOutput /\ o <= 37
  <2>1. o \notin {2, 3, 4, 5, 6, 7}
    BY <1>3, Zenon DEF SmallOutput
  <2>2. PICK n : n = 31 - (o - 6)
    OBVIOUS
  <2>3. n \in Nat /\ n < 32
    BY <1>1, <1>3, <2>1, <2>2, SMT
  <2>4. Field(n, 98) \subseteq OutputBits
    <3>1. 5 \in 1 .. 12 /\ 98 \in Nat /\ Bound(5, 32)
      BY Bounds
    <3>2. Field(n, 98) \subseteq 98 .. 98 + 5 - 1
      BY <2>3, <3>1, FieldWidth
    <3> QED
      BY <3>2, OutputNumbers
  <2>5. OutputDivider(o) = Field(n, 98) \cup Byte(12, {1})
    BY <1>3, <2>2 DEF OutputDivider
  <2>6. Byte(12, {1}) \subseteq OutputBits
    BY ByteTwelve
  <2> QED
    BY <2>4, <2>5, <2>6
<1>4. CASE o \notin DOMAIN SmallOutput /\ ~(o <= 37)
  <2>1. LargeDivider(o)
    BY <1>1, <1>4, SMT DEF LargeDivider
  <2>2. OutputDivider(o) = LargeOutput(o)
    BY <1>4 DEF OutputDivider
  <2> QED
    BY <2>1, <2>2, LargeOutputBits
<1> QED
  BY <1>2, <1>3, <1>4, Zenon

-----------------------------------------------------------------------------
\* The bits of the tables and those of the initial word do not meet.
Apart(X, Y) == \A k \in X : k \notin Y

LEMMA FieldsApart ==
  /\ Apart(InitialWord, InputBits) /\ Apart(InitialWord, VCOBits)
  /\ Apart(InitialWord, ResistorBits) /\ Apart(InitialWord, CurrentBits)
  /\ Apart(InitialWord, OutputBits)
  /\ Apart(InputBits, VCOBits) /\ Apart(InputBits, ResistorBits)
  /\ Apart(InputBits, CurrentBits) /\ Apart(InputBits, OutputBits)
  /\ Apart(VCOBits, ResistorBits) /\ Apart(VCOBits, CurrentBits)
  /\ Apart(VCOBits, OutputBits)
  /\ Apart(ResistorBits, CurrentBits) /\ Apart(ResistorBits, OutputBits)
  /\ Apart(CurrentBits, OutputBits)
<1>1. InitialWord \subseteq (136 .. 159) \cup {110, 112, 122}
  <2>1. /\ Byte(17, 0 .. 7) \subseteq 136 .. 159 /\ Byte(18, 0 .. 7) \subseteq 136 .. 159
        /\ Byte(19, 0 .. 7) \subseteq 136 .. 159
    BY SMT DEF Byte
  <2>2. Byte(15, {2}) = {122} /\ Byte(14, {0}) = {112} /\ Byte(13, {6}) = {110}
    BY SMT DEF Byte
  <2> QED
    BY <2>1, <2>2 DEF InitialWord
<1>2. /\ Apart(InitialWord, InputBits) /\ Apart(InitialWord, VCOBits)
      /\ Apart(InitialWord, ResistorBits) /\ Apart(InitialWord, CurrentBits)
      /\ Apart(InitialWord, OutputBits)
  BY <1>1, SMT DEF Apart, InputBits, VCOBits, ResistorBits, CurrentBits, OutputBits
<1>3. /\ Apart(InputBits, VCOBits) /\ Apart(InputBits, ResistorBits)
      /\ Apart(InputBits, CurrentBits) /\ Apart(InputBits, OutputBits)
  BY SMT DEF Apart, InputBits, VCOBits, ResistorBits, CurrentBits, OutputBits
<1>4. /\ Apart(VCOBits, ResistorBits) /\ Apart(VCOBits, CurrentBits)
      /\ Apart(VCOBits, OutputBits)
      /\ Apart(ResistorBits, CurrentBits) /\ Apart(ResistorBits, OutputBits)
      /\ Apart(CurrentBits, OutputBits)
  BY SMT DEF Apart, VCOBits, ResistorBits, CurrentBits, OutputBits
<1> QED
  BY <1>2, <1>3, <1>4

\* Five fields in bits of their own and what the word held before.
Fields(A, V, L, C, O) == InitialWord \cup A \cup V \cup L \cup C \cup O

\* The word is the one of the choice, whose parts the loops and the tables know.
WordOfChoice ==
  /\ ret # 0 => progbytes = Unset
  /\ ret = 0 =>
       /\ choice.refDiv \in InputNumbers /\ choice.VCO_Div \in min_V .. max_V
       /\ choice.outDiv \in OutputDividers
       /\ choice.Rs \in ResistorValues /\ choice.icpnum \in CurrentNumbers
       /\ progbytes = Word(choice.refDiv, choice.VCO_Div, choice.outDiv,
                           choice.Rs, choice.icpnum)

\* Every step of the search keeps the bytes in step with the choice.
LEMMA WordStep == WordOfChoice /\ TypeOK /\ [Next]_vars => WordOfChoice'
<1> SUFFICES ASSUME WordOfChoice, TypeOK, [Next]_vars PROVE WordOfChoice'
  OBVIOUS
<1>1. CASE Finish
  <2>1. PICK v \in Candidates :
          choice' = [refDiv |-> r, VCO_Div |-> v, outDiv |-> od,
                     Rs |-> Resistors[FirstFilter(r, v)[1]],
                     icpnum |-> Currents[FirstFilter(r, v)[2]]]
    BY <1>1, Zenon DEF Finish
  <2>2. r \in InputNumbers /\ od \in OutputDividers
    <3>1. r \in Int /\ 1 <= r /\ od \in OutputDividers
      BY DEF TypeOK
    <3>2. r <= 1200
      BY <1>1 DEF Finish, Rule2
    <3> QED
      BY <3>1, <3>2 DEF InputNumbers
  <2>3. v \in min_V .. max_V /\ Filters(r, v) # {}
    <3>1. V_Divstart(desired, ppm, r, od) \in min_V .. max_V
      BY StartInRange
    <3>2. v \in V_Divstart(desired, ppm, r, od) .. max_V /\ Filters(r, v) # {}
      BY <2>1, Zenon DEF Candidates, Accepted
    <3> QED
      BY <3>1, <3>2 DEF min_V, max_V
  <2>4. PICK f : f = FirstFilter(r, v)
    OBVIOUS
  <2>5. f[1] \in 1 .. 4 /\ f[2] \in 1 .. 20
    <3>1. f \in (1 .. 4) \X (1 .. 20)
      BY <2>3, <2>4, FirstOfFilters, Zenon
    <3> QED
      BY <3>1
  <2>6. Resistors[f[1]] \in ResistorValues /\ Currents[f[2]] \in CurrentNumbers
    BY <2>5, CurrentValues, Zenon DEF ResistorValues, CurrentNumbers
  <2>7. /\ choice'.refDiv = r /\ choice'.VCO_Div = v /\ choice'.outDiv = od
        /\ choice'.Rs = Resistors[f[1]] /\ choice'.icpnum = Currents[f[2]]
    BY <2>1, <2>4
  <2>8. /\ ret' = 0
        /\ progbytes' = Word(choice'.refDiv, choice'.VCO_Div, choice'.outDiv,
                             choice'.Rs, choice'.icpnum)
    BY <1>1, Zenon DEF Finish
  <2> QED
    BY <2>2, <2>3, <2>6, <2>7, <2>8 DEF WordOfChoice
<1>2. CASE NextOD \/ NextR \/ IncreasePpm
  BY <1>2 DEF NextOD, NextR, IncreasePpm, WordOfChoice, Running
<1>3. CASE GiveUp
  BY <1>3 DEF GiveUp, WordOfChoice, Running
<1>4. CASE UNCHANGED vars
  BY <1>4 DEF vars, WordOfChoice
<1> QED
  BY <1>1, <1>2, <1>3, <1>4 DEF Next

\* Which is enough to read each setting back.
LEMMA WordHolds == WordOfChoice => WordHoldsChoice
<1> SUFFICES ASSUME WordOfChoice PROVE WordHoldsChoice
  OBVIOUS
<1>1. CASE ret # 0
  BY <1>1, Zenon DEF WordOfChoice, WordHoldsChoice
<1>2. CASE ret = 0
  <2>1. PICK q, v, o, rs, icp :
          /\ q = choice.refDiv /\ v = choice.VCO_Div /\ o = choice.outDiv
          /\ rs = choice.Rs /\ icp = choice.icpnum
    OBVIOUS
  <2>2. /\ q \in InputNumbers /\ v \in min_V .. max_V /\ o \in OutputDividers
        /\ rs \in ResistorValues /\ icp \in CurrentNumbers
        /\ progbytes = Word(q, v, o, rs, icp)
    BY <1>2, <2>1 DEF WordOfChoice
  <2>3. /\ InputDivider(q) \subseteq InputBits /\ VCODivider(v) \subseteq VCOBits
        /\ LoopFilterResistor(rs) \subseteq ResistorBits
        /\ ChargePumpCurrent(icp) \subseteq CurrentBits
        /\ OutputDivider(o) \subseteq OutputBits
    <3>1. InputDivider(q) \subseteq InputBits
      BY <2>2, InputTable, Zenon
    <3>2. VCODivider(v) \subseteq VCOBits
      BY <2>2, VCOTable
    <3>3. LoopFilterResistor(rs) \subseteq ResistorBits
      BY <2>2, ResistorTable
    <3>4. ChargePumpCurrent(icp) \subseteq CurrentBits
      BY <2>2, CurrentForm
    <3>5. OutputDivider(o) \subseteq OutputBits
      BY <2>2, OutputTable
    <3> QED
      BY <3>1, <3>2, <3>3, <3>4, <3>5, Zenon
  <2>4. /\ progbytes \cap InputBits = InputDivider(q)
        /\ progbytes \cap VCOBits = VCODivider(v)
        /\ progbytes \cap ResistorBits = LoopFilterResistor(rs)
        /\ progbytes \cap CurrentBits = ChargePumpCurrent(icp)
        /\ progbytes \cap OutputBits = OutputDivider(o)
    <3>1. PICK A, V, L, C, O : /\ A = InputDivider(q) /\ V = VCODivider(v)
                               /\ L = LoopFilterResistor(rs)
                               /\ C = ChargePumpCurrent(icp) /\ O = OutputDivider(o)
      OBVIOUS
    <3>2. progbytes = InitialWord \cup InputDivider(q) \cup VCODivider(v)
                        \cup LoopFilterResistor(rs) \cup ChargePumpCurrent(icp)
                        \cup OutputDivider(o)
      BY <2>2, Zenon DEF Word
    <3>3. /\ A \subseteq InputBits /\ V \subseteq VCOBits /\ L \subseteq ResistorBits
          /\ C \subseteq CurrentBits /\ O \subseteq OutputBits
          /\ progbytes = Fields(A, V, L, C, O)
      BY <2>3, <3>1, <3>2, Zenon DEF Fields
    <3>4. progbytes \cap InputBits = A
      BY <3>3, FieldsApart, Zenon DEF Apart, Fields
    <3>5. progbytes \cap VCOBits = V
      BY <3>3, FieldsApart, Zenon DEF Apart, Fields
    <3>6. progbytes \cap ResistorBits = L
      BY <3>3, FieldsApart, Zenon DEF Apart, Fields
    <3>7. progbytes \cap CurrentBits = C
      BY <3>3, FieldsApart, Zenon DEF Apart, Fields
    <3>8. progbytes \cap OutputBits = O
      BY <3>3, FieldsApart, Zenon DEF Apart, Fields
    <3> QED
      BY <3>1, <3>4, <3>5, <3>6, <3>7, <3>8, Zenon
  <2>5. /\ \A t \in (1 .. 1200) \ {q} : InputDivider(t) # InputDivider(q)
        /\ \A t \in (min_V .. max_V) \ {v} : VCODivider(t) # VCODivider(v)
    <3>1. \A t \in (1 .. 1200) \ {q} : InputDivider(t) # InputDivider(q)
      <4>1. \A t \in InputNumbers \ {q} : InputDivider(t) # InputDivider(q)
        BY <2>2, InputTable, Zenon
      <4> QED
        BY <4>1 DEF InputNumbers
    <3>2. \A t \in (min_V .. max_V) \ {v} : VCODivider(t) # VCODivider(v)
      BY <2>2, VCOTable
    <3> QED
      BY <3>1, <3>2
  <2>6. ASSUME NEW j \in 1 .. 20, Currents[j] # icp
        PROVE  ChargePumpCurrent(Currents[j]) # ChargePumpCurrent(icp)
    <3>1. Currents[j] \in CurrentNumbers
      BY CurrentValues, Zenon DEF CurrentNumbers
    <3> QED
      BY <2>2, <2>6, <3>1, CurrentTable, Zenon
  <2> QED
    BY <1>2, <2>1, <2>4, <2>5, <2>6 DEF WordHoldsChoice
<1> QED
  BY <1>1, <1>2

\* The caller's bytes are untouched until the search returns a choice, and then
\* every setting of the choice can be read back from the word: the five tables
\* write bits of their own, and no other divider or current has the same code.
THEOREM WordReadsBack == Spec => []WordHoldsChoice
<1>1. Init => WordOfChoice
  BY DEF Init, WordOfChoice, Running
<1>2. IInv => TypeOK
  BY DEF IInv
<1>3. Spec => []WordOfChoice
  BY <1>1, <1>2, WordStep, SearchInvariant, PTL DEF Spec
<1> QED
  BY <1>3, WordHolds, PTL

=============================================================================
