--------------------------------- MODULE Ring ---------------------------------
(***************************************************************************)
(* Positions in a descriptor ring.  The driver keeps its descriptors in an  *)
(* array of n entries and moves an index forward with                       *)
(*     index++; if (index == n) index = 0;                                  *)
(* (src/io.c).  RingAt is that step taken k times, 0 <= k <= n.             *)
(***************************************************************************)
EXTENDS Integers

(* Mutation: the index is not wrapped. *)
RingNextNoWrap(n, i) == i + 1

RingNext(n, i) == IF i + 1 = n THEN 0 ELSE i + 1

RingAt(n, i, k) == IF i + k >= n THEN i + k - n ELSE i + k

(* The k with RingAt(n, i, k) = j: how far j lies ahead of i. *)
RingOffset(n, i, j) == IF j >= i THEN j - i ELSE j - i + n

===============================================================================
