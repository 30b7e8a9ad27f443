------------------------------ MODULE ClockWord ------------------------------
(***************************************************************************)
(* The programming word of the clock generator (ICS30703), the second half *)
(* of GetICS30703Data in lib/raw/calculate-clock-bits.c: five tables turn  *)
(* the dividers, the resistor and the current the search chose into bits   *)
(* of progdata[0..19].                                                     *)
(*                                                                         *)
(* The word is the set of its 1 bits, bit k of progdata[b] being 8 * b + k *)
(* (the numbering of the code's own comments: "bit 89 and 90").  Setting a *)
(* mask is a union, clearing one a difference.                             *)
(***************************************************************************)
EXTENDS Integers, FiniteSets

\* A byte's bits from a set of bit numbers, and the 1 bits of n shifted to
\* position at.
Byte(b, bits) == {8 * b + k : k \in bits}
Field(n, at) == {at + k : k \in {j \in 0 .. 12 : (n \div 2 ^ j) % 2 = 1}}

\* The values of the Rs and icp switches of the search, in the order they are
\* tried: ohms / 1000, and icpnum / 125.
Resistors == <<64, 52, 16, 4>>
Currents == <<1, 2, 3, 4, 5, 6, 7, 8, 9, 10, 12, 14, 15, 16, 18, 20, 21, 24, 28, 32>>

\* The output dividers the search tries: 8232 downwards in steps that double
\* with the divider.
StepOf(od) == IF od <= 1030 THEN 1
              ELSE IF od <= 2060 THEN 2
              ELSE IF od <= 4120 THEN 4 ELSE 8
OutputDividers ==
  (2 .. 1030) \cup {2 * k : k \in 516 .. 1030} \cup {4 * k : k \in 516 .. 1030}
    \cup {8 * k : k \in 516 .. 1029}

-----------------------------------------------------------------------------
\* What the word holds before the tables: bytes 17 to 19, the crystal bit, the
\* power of the feedback counter, the enable bit of CLK1.
InitialWord == Byte(17, 0 .. 7) \cup Byte(18, 0 .. 7) \cup Byte(19, 0 .. 7)
                 \cup Byte(15, {2}) \cup Byte(14, {0}) \cup Byte(13, {6})

\* Table 1: the input divider.
InputDivider(r) ==
  IF r <= 2 THEN Field(r - 1, 0)
  ELSE IF r <= 17 THEN Field(17 - r, 2) \cup {1}       \* ~(r - 2), four bits
  ELSE Field(r - 8, 2) \cup {0, 1}

\* Mutation: the value starts one bit early, in the byte Table 1 ends in.
VCODividerOneBitLow(v) == Field(v - 8, 12)

\* Table 2: the VCO divider.
VCODivider(v) == Field(v - 8, 13)

\* Table 4: the resistor of the loop filter, bits 89 and 90.
LoopFilterResistor(rs) ==
  CASE rs = 64 -> {} [] rs = 52 -> {90} [] rs = 16 -> {89} [] rs = 4 -> {89, 90}

\* Table 3: the current of the charge pump: three bits of byte 11, bit 7 of byte
\* 15 and bit 0 of byte 16.
ChargePumpCode(icp) ==
  CASE icp \in {1, 2, 3, 4} -> 7
    [] icp \in {5, 10, 15, 20} -> 3
    [] icp \in {6, 18} -> 2
    [] icp \in {7, 14, 21, 28} -> 1
    [] icp \in {8, 16, 24, 32} -> 0
    [] icp \in {9, 12} -> 5
ChargePumpCurrent(icp) ==
  Field(ChargePumpCode(icp), 91)
    \cup (IF icp \in {2, 4, 10, 12, 14, 16, 20, 28, 32} THEN {127} ELSE {})
    \cup (IF icp \in {3, 4, 9, 12, 15, 18, 20, 21, 24, 28, 32} THEN {128} ELSE {})

\* Table 5: the output divider.  The first dividers have codes of their own,
\* most up to 37 are stored inverted; the others are (2 * (i + 3) + y) * 2 ^ z
\* with the smallest i that fits (two forms never share an i).
SmallOutput == [od \in {2, 3, 4, 5, 6, 7, 9, 11, 13} |->
  CASE od = 2 -> {} [] od = 3 -> {95}
    [] od = 4 -> Byte(12, {2}) [] od = 5 -> Byte(12, {0})
    [] od = 6 -> {95} \cup Byte(12, {2}) [] od = 7 -> {95} \cup Byte(12, {0})
    [] od = 9 -> {95} \cup Byte(12, {0, 2}) [] od = 11 -> {95} \cup Byte(12, {0, 3})
    [] od = 13 -> {95} \cup Byte(12, {0, 2, 3})]

IndexOf(od, y, z) == (od \div 2 ^ z - y) \div 2 - 3
Splits(od) == {s \in {0, 1} \X (0 .. 3) :      \* <<y, z>>
                 /\ od % 2 ^ s[2] = 0 /\ (od \div 2 ^ s[2]) % 2 = s[1]
                 /\ IndexOf(od, s[1], s[2]) \in 0 .. 511}
FirstSplit(splits, od) ==
  CHOOSE s \in splits :
    \A t \in splits \ {s} : IndexOf(od, s[1], s[2]) < IndexOf(od, t[1], t[2])
LargeOutput(od) ==
  {95} \cup Byte(12, {1})
    \cup IF Splits(od) = {} THEN {}
         ELSE LET s == FirstSplit(Splits(od), od)
              IN  Field(IndexOf(od, s[1], s[2]), 101) \cup Field(s[2], 99)
                    \cup (IF s[1] = 0 THEN Byte(12, {2}) ELSE {})

\* Mutation: the inverted codes are used for one divider too many.
OutputDividerTo38(od) ==
  IF od \in DOMAIN SmallOutput THEN SmallOutput[od]
  ELSE IF od <= 38 THEN Field(31 - (od - 6), 98) \cup Byte(12, {1})
  ELSE LargeOutput(od)

OutputDivider(od) ==
  IF od \in DOMAIN SmallOutput THEN SmallOutput[od]
  ELSE IF od <= 37 THEN Field(31 - (od - 6), 98) \cup Byte(12, {1})
  ELSE LargeOutput(od)

\* The word of a choice of dividers and filter.
Word(r, v, od, rs, icp) ==
  InitialWord \cup InputDivider(r) \cup VCODivider(v) \cup LoopFilterResistor(rs)
    \cup ChargePumpCurrent(icp) \cup OutputDivider(od)

\* The bits each table writes.
InputBits == 0 .. 12
VCOBits == 13 .. 23
ResistorBits == {89, 90}
CurrentBits == {91, 92, 93, 127, 128}
OutputBits == {95} \cup 96 .. 109

=============================================================================
