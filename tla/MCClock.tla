------------------------------- MODULE MCClock -------------------------------
(***************************************************************************)
(* The clock calculation on a small instance: a unit of 100 kHz, errors in *)
(* per cent, input dividers 1 and 2, and the code's own range of VCO and   *)
(* output dividers, rules, filters and tables.                             *)
(***************************************************************************)
EXTENDS ClockSearch, FiniteSetsExt

CONSTANT NoBytes

MCDesired == {5, 120, 803}
MCRequested == {0, 1}

\* Every output divider the search tries can be read back from its code: a code
\* of its own, 37 - x, or (2 * (x + 3) + y) * 2 ^ z as the code's comments have it.
Value(bits, at, width) ==
  MapThenSumSet(LAMBDA k : 2 ^ (k - at), bits \cap (at .. at + width - 1))
OutputOf(bits) ==
  IF 97 \notin bits THEN CHOOSE o \in DOMAIN SmallOutput : SmallOutput[o] = bits
  ELSE IF 95 \notin bits THEN 37 - Value(bits, 98, 5)
  ELSE (2 * (Value(bits, 101, 9) + 3) + (IF 98 \in bits THEN 0 ELSE 1)) * 2 ^ Value(bits, 99, 2)

OutputReadable ==
  /\ OutputDivider(od) \subseteq OutputBits
  /\ OutputOf(OutputDivider(od)) = od

=============================================================================
