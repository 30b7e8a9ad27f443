----------------------------- MODULE ClockSearch -----------------------------
(***************************************************************************)
(* The clock calculation of the user library, lib/raw/calculate-clock-     *)
(* bits.c: three nested loops look for the dividers of the clock generator *)
(* that give the desired frequency, within an error that grows by one part *)
(* per million after every scan that finds nothing, and for a loop filter  *)
(* for them; the choice becomes the programming word of ClockWord.         *)
(*                                                                         *)
(* One step is one turn of the loop over the output divider od, the loop   *)
(* over the VCO divider v being inside it.  Frequencies are integers in a  *)
(* unit of which a megahertz has PerMHz, and the allowable error is        *)
(* ppm / Parts of the desired frequency (Parts is 1000000 in the code):    *)
(* both are parameters so that TLC's 32-bit integers hold the products.    *)
(* The code computes in doubles, which decide every comparison as the      *)
(* reals do except where both sides are equal: a frequency that is exactly *)
(* at the border, above all exact at error 0, may come out a rounding      *)
(* error away.  `equalFits' says how that falls for this frequency.        *)
(***************************************************************************)
EXTENDS ClockWord

CONSTANTS
  PerMHz,          \* units of frequency in a megahertz
  Parts,           \* the denominator of the error
  MinDesired, MaxDesired,  \* the range of the first check
  MaxR,            \* the largest input divider tried (1200 for 24 MHz)
  Desired,         \* frequencies asked for
  Requested,       \* largest errors allowed
  Unset            \* the caller's bytes, before the word is copied into them

ASSUME ClockAssumption ==
  /\ PerMHz \in Nat \ {0} /\ Parts \in Nat \ {0} /\ MaxR \in Nat \ {0}
  /\ MinDesired \in Nat /\ MaxDesired \in Nat
  /\ Desired \subseteq Nat /\ Requested \subseteq 0 .. Parts

VARIABLES
  desired, requestedppm, equalFits,  \* the call; never changed
  ppm, r, od,      \* the loops
  ret,             \* the return code, Running until then
  choice,          \* the dividers and the filter found
  progbytes        \* the caller's 20 bytes

vars == <<desired, requestedppm, equalFits, ppm, r, od, ret, choice, progbytes>>

inputfreq == 24 * PerMHz
min_V == 12
max_V == 2055
FirstOD == 8232
Running == -1

-----------------------------------------------------------------------------
\* Rule 2: the reference frequency is 20 kHz to 100 MHz (in units of 20 kHz).
Rule2(q) == q <= 1200 /\ 24 <= 100 * q

\* Rule 1: the frequency of the VCO, 24 MHz * v / r, is in a range that
\* depends on the output divider.
VCOLimit(o) == IF o = 2 THEN 540
               ELSE IF o = 3 THEN 720
               ELSE IF o \in 38 .. 1029 THEN 570 ELSE 730
Rule1(q, o, v) == 90 * q <= 24 * v /\ 24 * v <= VCOLimit(o) * q

\* |freq - desired| <= allowable_error, both sides times Parts * r * od.
FreqOK(d, eq, p, q, o, v) ==
  LET freq  == Parts * (inputfreq * v)
      lower == (Parts - p) * (d * (q * o))
      upper == (Parts + p) * (d * (q * o))
  IN  /\ IF eq THEN lower <= freq ELSE lower < freq
      /\ IF eq THEN freq <= upper ELSE freq < upper

\* Mutation: the start is rounded up.
V_DivstartAbove(d, p, q, o) ==
  LET start == ((Parts - p) * (d * (q * o))) \div (Parts * inputfreq) + 1
  IN  IF start < min_V THEN min_V ELSE IF start > max_V THEN max_V ELSE start

\* V_Divstart: the VCO divider whose frequency is just below the allowed ones.
V_Divstart(d, p, q, o) ==
  LET start == ((Parts - p) * (d * (q * o))) \div (Parts * inputfreq)
  IN  IF start < min_V THEN min_V ELSE IF start > max_V THEN max_V ELSE start

\* The loop filters in range for these dividers: the ratio of the reference to
\* the noise bandwidth, rounded up to tenths, is 7 to 30 and the damping factor
\* 0.2 to 2.  With the constants of the code the ratio is 389.1518 * v / (r * rs * n)
\* and the square of the factor 93 * rs * rs * n / (3200 * v).
FilterOK(q, v, rs, n) ==
  /\ 34500 * (q * rs * n) <= 1945759 * v
  /\ 1945759 * v < 150000 * (q * rs * n)
  /\ 128 * v <= 93 * rs * rs * n
  /\ 93 * rs * rs * n <= 12800 * v
Filters(q, v) == {f \in (1 .. 4) \X (1 .. 20) :
                    FilterOK(q, v, Resistors[f[1]], Currents[f[2]])}
FirstFilter(q, v) ==
  CHOOSE f \in Filters(q, v) :
    \A g \in Filters(q, v) : f[1] < g[1] \/ (f[1] = g[1] /\ f[2] <= g[2])

\* The VCO dividers the inner loop accepts, from v = start.
Accepted(d, eq, p, q, o, start) ==
  {v \in start .. max_V : /\ Rule1(q, o, v)
                          /\ FreqOK(d, eq, p, q, o, v)
                          /\ Filters(q, v) # {}}
Candidates == Accepted(desired, equalFits, ppm, r, od, V_Divstart(desired, ppm, r, od))

-----------------------------------------------------------------------------
Init ==
  /\ desired \in Desired /\ requestedppm \in Requested
  /\ equalFits \in BOOLEAN
  /\ ppm = 0 /\ r = 1 /\ od = FirstOD
  /\ ret = IF desired < MinDesired \/ desired > MaxDesired THEN 1 ELSE Running
  /\ choice = <<>>
  /\ progbytes = Unset

\* goto finished: the first v and the first filter in range; the tables fill the
\* word and calculate_clock_bits copies it to the caller.
Finish ==
  /\ ret = Running
  /\ Rule2(r)
  /\ \E v \in Candidates :
       /\ \A w \in Candidates : v <= w
       /\ LET f == FirstFilter(r, v)
          IN  choice' = [refDiv |-> r, VCO_Div |-> v, outDiv |-> od,
                         Rs |-> Resistors[f[1]], icpnum |-> Currents[f[2]]]
  /\ progbytes' = Word(choice'.refDiv, choice'.VCO_Div, choice'.outDiv,
                       choice'.Rs, choice'.icpnum)
  /\ ret' = 0
  /\ UNCHANGED <<desired, requestedppm, equalFits, ppm, r, od>>

\* Nothing at this divider: the next one of the loop, at last the next error.
NothingHere == Rule2(r) => Candidates = {}
\* Mutation: while (od > 0).
LastODZero == ~Rule2(r) \/ od - StepOf(od) <= 0
LastOD == ~Rule2(r) \/ od - StepOf(od) <= 1

NextOD ==
  /\ ret = Running
  /\ ~LastOD
  /\ NothingHere
  /\ od' = od - StepOf(od)
  /\ UNCHANGED <<desired, requestedppm, equalFits, ppm, r, ret, choice, progbytes>>

NextR ==
  /\ ret = Running
  /\ LastOD /\ r < MaxR
  /\ NothingHere
  /\ r' = r + 1 /\ od' = FirstOD
  /\ UNCHANGED <<desired, requestedppm, equalFits, ppm, ret, choice, progbytes>>

IncreasePpm ==
  /\ ret = Running
  /\ LastOD /\ r = MaxR /\ ppm < requestedppm
  /\ NothingHere
  /\ ppm' = ppm + 1 /\ r' = 1 /\ od' = FirstOD
  /\ UNCHANGED <<desired, requestedppm, equalFits, ret, choice, progbytes>>

GiveUp ==
  /\ ret = Running
  /\ LastOD /\ r = MaxR /\ ppm = requestedppm
  /\ NothingHere
  /\ ret' = 2
  /\ UNCHANGED <<desired, requestedppm, equalFits, ppm, r, od, choice, progbytes>>

Next == Finish \/ NextOD \/ NextR \/ IncreasePpm \/ GiveUp

Spec == Init /\ [][Next]_vars /\ WF_vars(Next)

-----------------------------------------------------------------------------
TypeOK ==
  /\ desired \in Desired /\ requestedppm \in Requested /\ equalFits \in BOOLEAN
  /\ ppm \in 0 .. requestedppm /\ r \in 1 .. MaxR /\ od \in OutputDividers
  /\ ret \in {Running, 0, 1, 2}

\* What the search is for: dividers within the error, with a filter, whatever
\* the order in which the loops come to them.
Solution(p, q, o, v) ==
  /\ v \in min_V .. max_V
  /\ Rule2(q) /\ Rule1(q, o, v)
  /\ FreqOK(desired, equalFits, p, q, o, v)
  /\ Filters(q, v) # {}
Solvable(p, q, o) == \E v \in min_V .. max_V : Solution(p, q, o, v)

\* The loops come to <<p, q, o>> before <<p2, q2, o2>>.
Earlier(p, q, o, p2, q2, o2) ==
  \/ p < p2
  \/ p = p2 /\ q < q2
  \/ p = p2 /\ q = q2 /\ o > o2
NoneBefore(p2, q2, o2) ==
  \A p \in 0 .. requestedppm, q \in 1 .. MaxR, o \in OutputDividers :
    Earlier(p, q, o, p2, q2, o2) => ~Solvable(p, q, o)

\* The choice is the best by the keys the code's comment names: the smallest
\* error (in steps of one part), then the lowest reference divider, then the
\* highest output divider, and among those the lowest VCO divider.  Starting
\* the inner loop at V_Divstart and the steps of od skip no better one.
BestChoice ==
  ret = 0 =>
    /\ Solution(ppm, choice.refDiv, choice.outDiv, choice.VCO_Div)
    /\ \A v \in min_V .. choice.VCO_Div - 1 : ~Solution(ppm, choice.refDiv, choice.outDiv, v)
    /\ NoneBefore(ppm, choice.refDiv, choice.outDiv)

\* "No solutions found, try increasing ppm" is said only of a frequency that no
\* dividers on the grid give within the error asked for.
GivesUpOnlyWithout ==
  ret = 2 =>
    \A p \in 0 .. requestedppm, q \in 1 .. MaxR, o \in OutputDividers : ~Solvable(p, q, o)

\* The caller's bytes change only when they get a word, and each setting can be
\* read back from it: no table disturbs the bits of another, and no two settings
\* of a table the search can reach share a code.
WordHoldsChoice ==
  IF ret # 0 THEN progbytes = Unset
  ELSE /\ progbytes \cap InputBits = InputDivider(choice.refDiv)
       /\ progbytes \cap VCOBits = VCODivider(choice.VCO_Div)
       /\ progbytes \cap ResistorBits = LoopFilterResistor(choice.Rs)
       /\ progbytes \cap CurrentBits = ChargePumpCurrent(choice.icpnum)
       /\ progbytes \cap OutputBits = OutputDivider(choice.outDiv)
       /\ \A q \in (1 .. 1200) \ {choice.refDiv} :
            InputDivider(q) # InputDivider(choice.refDiv)
       /\ \A v \in (min_V .. max_V) \ {choice.VCO_Div} :
            VCODivider(v) # VCODivider(choice.VCO_Div)
       /\ \A j \in 1 .. 20 : Currents[j] # choice.icpnum =>
            ChargePumpCurrent(Currents[j]) # ChargePumpCurrent(choice.icpnum)

=============================================================================
