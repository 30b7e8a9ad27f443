----------------------------- MODULE RxDataProofs -----------------------------
(***************************************************************************)
(* Proofs about RxFifo of what reads return.  In the streaming modes it is  *)
(* the bytes of the line in order: what has been received and not read is   *)
(* one run of bytes, the rest of the descriptor the reader has begun, the   *)
(* finished ones after it, the one the tasklet fills, the receive FIFO.     *)
(* In the frame modes it is the frames of the line, each whole, once and in *)
(* order: ring and card hold consecutive frames, and the receive path is a  *)
(* queue of them.                                                           *)
(***************************************************************************)
EXTENDS RxFifoProofs, SequenceTheorems

(* A receive reset that does not reach the card leaves in its FIFO bytes     *)
(* that had been received before the purge; and "the SIZE should ALWAYS be   *)
(* in 4 byte increments" (config.h), since the FIFO is read by words.        *)
StreamHypothesis == RresSeen \subseteq {TRUE} /\ RxSize % 4 = 0

USE RxNumAssumption, RxSizeAssumption DEF Position

-----------------------------------------------------------------------------
(* Runs of bytes *)

(* The n bytes after byte a. *)
Run(a, n) == [i \in 1 .. n |-> a + i]

(* Byte y may follow byte x, when the port has been purged at C.             *)
Goes(x, y, C) == y = x + 1 \/ \E c \in C : x <= c /\ y = c + 1

(* The bytes g are in order, and the byte after a may follow them.           *)
InOrder(g, C, a) ==
  /\ \A i \in 1 .. Len(g) - 1 : Goes(g[i], g[i + 1], C)
  /\ Len(g) # 0 => Goes(g[Len(g)], a + 1, C)

(* The last of the bytes g is not after z.                                   *)
UpTo(g, z) == Len(g) # 0 => g[Len(g)] <= z

LEMMA RunFacts ==
  ASSUME NEW a \in Nat, NEW n \in Nat
  PROVE  /\ Run(a, n) \in Seq(Nat) /\ Len(Run(a, n)) = n
         /\ \A i \in 1 .. n : Run(a, n)[i] = a + i
BY SMT DEF Run

LEMMA RunBytes ==
  ASSUME NEW a \in Nat, NEW n \in Nat, NEW m \in 0 .. n
  PROVE  Bytes(Run(a, n), m) = Run(a, m)
<1>1. Len(Run(a, n)) = n /\ \A i \in 1 .. n : Run(a, n)[i] = a + i
  BY RunFacts
<1>2. \A i \in 1 .. m : (IF i <= Len(Run(a, n)) THEN Run(a, n)[i] ELSE 0) = a + i
  BY <1>1, SMT
<1>. QED  BY <1>2, Zenon DEF Bytes, Run

LEMMA RunRest ==
  ASSUME NEW a \in Nat, NEW n \in Nat, NEW m \in 0 .. n
  PROVE  Rest(Run(a, n), m) = Run(a + m, n - m)
BY SMT DEF Rest, Run

LEMMA RunConcat ==
  ASSUME NEW a \in Nat, NEW n \in Nat, NEW m \in Nat
  PROVE  Run(a, n) \o Run(a + n, m) = Run(a, n + m)
BY SMT DEF Run

LEMMA RunEmpty ==
  ASSUME NEW a \in Nat
  PROVE  Run(a, 0) = <<>>
BY SMT DEF Run

(* A reader goes on with the bytes after a. *)
LEMMA OrderGoesOn ==
  ASSUME NEW g \in Seq(Nat), NEW C, NEW a \in Nat, NEW n \in Nat, InOrder(g, C, a)
  PROVE  /\ InOrder(g \o Run(a, n), C, a + n)
         /\ \A z : UpTo(g, z) /\ a + n <= z => UpTo(g \o Run(a, n), z)
<1>. DEFINE h == g \o Run(a, n)
<1>0. /\ Len(g) \in Nat /\ Run(a, n) \in Seq(Nat) /\ Len(Run(a, n)) = n
      /\ \A i \in 1 .. n : Run(a, n)[i] = a + i
  <2>1. Len(g) \in Nat
    BY SMT
  <2>. QED  BY <2>1, RunFacts, Zenon
<1>1. /\ Len(h) = Len(g) + n
      /\ \A i \in 1 .. Len(g) : h[i] = g[i]
      /\ \A i \in 1 .. n : h[Len(g) + i] = a + i
  <2>. DEFINE t == Run(a, n)
  <2>1. t \in Seq(Nat) /\ Len(t) = n
    BY <1>0
  <2>. HIDE DEF t
  <2>2. /\ Len(g \o t) = Len(g) + n
        /\ \A i \in 1 .. Len(g) : (g \o t)[i] = g[i]
        /\ \A i \in 1 .. n : (g \o t)[Len(g) + i] = t[i]
    BY <2>1, SMTT(30)
  <2>. QED  BY <1>0, <2>2, Zenon DEF t
<1>. HIDE DEF h
<1>2. ASSUME NEW i \in 1 .. Len(h) - 1
      PROVE  Goes(h[i], h[i + 1], C)
  <2>1. CASE i < Len(g)
    <3>1. /\ i \in 1 .. Len(g) /\ i + 1 \in 1 .. Len(g) /\ i \in 1 .. Len(g) - 1
      BY <1>0, <2>1, SMT
    <3>. QED  BY <1>1, <3>1, Zenon DEF InOrder
  <2>2. CASE i = Len(g)
    <3>1. Len(g) # 0 /\ i \in 1 .. Len(g) /\ 1 \in 1 .. n
      BY <1>0, <1>1, <2>2, SMT
    <3>2. h[i] = g[Len(g)] /\ h[i + 1] = a + 1
      BY <1>1, <2>2, <3>1, Zenon
    <3>. QED  BY <3>1, <3>2, Zenon DEF InOrder
  <2>3. CASE i > Len(g)
    <3>1. /\ i - Len(g) \in 1 .. n /\ Len(g) + (i - Len(g)) = i
          /\ (i - Len(g)) + 1 \in 1 .. n /\ Len(g) + ((i - Len(g)) + 1) = i + 1
      BY <1>0, <1>1, <2>3, SMT
    <3>2. h[i] = a + (i - Len(g)) /\ h[i + 1] = a + ((i - Len(g)) + 1)
      BY <1>1, <3>1, Zenon
    <3>3. h[i + 1] = h[i] + 1
      BY <1>0, <3>2, SMT
    <3>. QED  BY <3>3, Zenon DEF Goes
  <2>. QED  BY <1>0, <1>1, <2>1, <2>2, <2>3, SMT
<1>3. CASE n = 0
  <2>1. Len(h) = Len(g) /\ a + n = a
    BY <1>0, <1>1, <1>3, SMT
  <2>2. Len(g) # 0 => Len(g) \in 1 .. Len(g)
    BY <1>0, SMT
  <2>3. Len(h) # 0 => Goes(h[Len(h)], a + n + 1, C)
    BY <1>1, <2>1, <2>2, Zenon DEF InOrder
  <2>4. Len(h) # 0 => h[Len(h)] = g[Len(g)]
    BY <1>1, <2>1, <2>2, Zenon
  <2>5. InOrder(h, C, a + n)
    BY <1>2, <2>3, Zenon DEF InOrder
  <2>6. \A z : UpTo(g, z) => UpTo(h, z)
    BY <2>1, <2>4, Zenon DEF UpTo
  <2>. QED  BY <2>5, <2>6, Zenon DEF h
<1>4. CASE n # 0
  <2>1. n \in 1 .. n /\ Len(g) + n = Len(h)
    BY <1>0, <1>1, <1>4, SMT
  <2>2. h[Len(h)] = a + n
    BY <1>1, <2>1, Zenon
  <2>3. InOrder(h, C, a + n)
    BY <1>2, <2>2, Zenon DEF InOrder, Goes
  <2>4. \A z : a + n <= z => UpTo(h, z)
    BY <2>2, Zenon DEF UpTo
  <2>. QED  BY <2>3, <2>4, Zenon DEF h
<1>. QED  BY <1>3, <1>4

(* A purge cuts the line at z. *)
LEMMA OrderCut ==
  ASSUME NEW g \in Seq(Nat), NEW C, NEW a \in Nat, NEW z \in Nat, InOrder(g, C, a),
         UpTo(g, z)
  PROVE  InOrder(g, C \cup {z}, z)
BY Zenon DEF InOrder, Goes, UpTo

-----------------------------------------------------------------------------
(* The inductive invariant *)

(* A finished descriptor: the bytes after a, up to z. *)
Holds(d, a, z) == d.data = Run(a, d.count) /\ z = a + d.count

(* The descriptor the tasklet fills: the bytes after a, up to e. *)
Filling(d, a, e) ==
  d.data = Run(a, d.cnt) /\ e = a + d.cnt /\ d.cnt % 4 = 0 /\ d.count = RxSize

Unused(d) == d.data = <<>> /\ d.cnt = 0 /\ d.count = RxSize

(* The ring r holds the bytes after b[0] up to e: each of the q finished     *)
(* descriptors from u on those after b[k], and the one after them the rest.  *)
InLine(r, u, q, b, e) ==
  /\ \A k \in 0 .. q - 1 : Holds(r[RingAt(RxNum, u, k)], b[k], b[k + 1])
  /\ q = RxNum => b[q] = e
  /\ q < RxNum => Filling(r[RingAt(RxNum, u, q)], b[q], e)
  /\ \A k \in q + 1 .. RxNum - 1 : Unused(r[RingAt(RxNum, u, k)])

(* The receive FIFO s: the bytes after e, the last one is byte n. *)
Waiting(s, e, n) == s = Run(e, Len(s)) /\ n = e + Len(s) /\ Len(s) % 4 = 0

OneRun ==
  \E q \in 0 .. RxNum, b \in [0 .. RxNum -> 0 .. arrived], e \in 0 .. arrived :
    /\ InRow(rx, fifo_rx_desc, Front, q)
    /\ InLine(rx, Front, q, b, e)
    /\ Waiting(rxfifo, e, arrived)
    /\ InOrder(got, cuts, b[0])

InStream == rx_frame_size = 0 /\ bcfl = <<>> /\ UpTo(got, arrived) /\ OneRun

SInv == IInv /\ (streaming => InStream)

-----------------------------------------------------------------------------
(* What a step does to the line of descriptors *)

(* All that is said of the ring is said of the descriptors at 0 .. RxNum - 1 *)
(* from u.                                                                   *)
LEMMA Places0 ==
  ASSUME NEW u \in Position, NEW q \in 0 .. RxNum
  PROVE  /\ \A k \in 0 .. q - 1 : k \in 0 .. RxNum - 1
         /\ q < RxNum => q \in 0 .. RxNum - 1
         /\ \A k \in q + 1 .. RxNum - 1 : k \in 0 .. RxNum - 1
         /\ \A k \in 0 .. RxNum - 1 : RingAt(RxNum, u, k) \in Position
         /\ RingAt(RxNum, u, 0) = u
BY RingFacts, SMT

LEMMA PlacesAhead ==
  ASSUME NEW u \in Position, NEW k \in 1 .. RxNum - 1
  PROVE  RingAt(RxNum, u, k) \in Position \ {u}
BY SMT DEF RingAt

(* The reader takes n bytes of the descriptor at its index.                  *)
LEMMA LineRead ==
  ASSUME NEW r, NEW s, NEW u \in Position, NEW q \in 0 .. RxNum, 0 < q,
         NEW b \in [0 .. RxNum -> Nat], NEW e, InLine(r, u, q, b, e), NEW n \in Nat,
         Holds(s[u], b[0] + n, b[1]), \A p \in Position \ {u} : s[p] = r[p]
  PROVE  InLine(s, u, q, [b EXCEPT ![0] = b[0] + n], e)
<1>. DEFINE g == [b EXCEPT ![0] = b[0] + n]
<1>1. g[0] = b[0] + n /\ \A k \in 1 .. RxNum : g[k] = b[k]
  BY SMT
<1>. HIDE DEF g
<1>2. \A k \in 1 .. RxNum - 1 : s[RingAt(RxNum, u, k)] = r[RingAt(RxNum, u, k)]
  <2>1. \A k \in 1 .. RxNum - 1 : RingAt(RxNum, u, k) \in Position \ {u}
    BY PlacesAhead
  <2>. QED  BY <2>1
<1>3. \A k \in 0 .. q - 1 : Holds(s[RingAt(RxNum, u, k)], g[k], g[k + 1])
  <2>. TAKE k \in 0 .. q - 1
  <2>1. CASE k = 0
    <3>1. RingAt(RxNum, u, 0) = u /\ 1 \in 1 .. RxNum /\ 0 + 1 = 1
      BY Places0, SMT
    <3>. QED  BY <1>1, <2>1, <3>1, Zenon
  <2>2. CASE k # 0
    <3>1. k \in 1 .. RxNum - 1 /\ k \in 1 .. RxNum /\ k + 1 \in 1 .. RxNum
      BY <2>2, SMT
    <3>. QED  BY <1>1, <1>2, <3>1, Zenon DEF InLine
  <2>. QED  BY <2>1, <2>2
<1>4. q \in 1 .. RxNum /\ (q < RxNum => q \in 1 .. RxNum - 1)
  BY SMT
<1>5. \A k \in q + 1 .. RxNum - 1 : k \in 1 .. RxNum - 1
  BY SMT
<1>. QED  BY <1>1, <1>2, <1>3, <1>4, <1>5, Zenon DEF InLine, g

LEMMA FreeFilling ==
  ASSUME NEW a \in Nat
  PROVE  Filling(Free, a, a)
<1>1. Free.data = <<>> /\ Free.cnt = 0 /\ Free.count = RxSize
  BY SMT DEF Free
<1>2. Run(a, 0) = <<>> /\ a = a + 0
  BY RunEmpty, SMT
<1>. QED  BY <1>1, <1>2, SMT DEF Filling

LEMMA LastIsNat ==
  ASSUME NEW g \in Seq(Nat), Len(g) # 0
  PROVE  g[Len(g)] \in Nat
BY SMT

(* The reader gives the descriptor at its index back.                        *)
LEMMA LineGiveBack ==
  ASSUME NEW r, NEW s, NEW u \in Position, NEW q \in 0 .. RxNum, 0 < q,
         NEW b \in [0 .. RxNum -> Nat], NEW e, InLine(r, u, q, b, e),
         NEW g \in [0 .. RxNum -> Nat], \A k \in 0 .. RxNum - 1 : g[k] = b[k + 1],
         s[u] = Free, \A p \in Position \ {u} : s[p] = r[p]
  PROVE  InLine(s, RingNext(RxNum, u), q - 1, g, e)
<1>. DEFINE v == RingNext(RxNum, u)
<1>1. /\ \A k \in 0 .. RxNum - 1 : RingAt(RxNum, v, k) = RingAt(RxNum, u, k + 1)
      /\ RingAt(RxNum, u, RxNum) = u
      /\ \A k \in 1 .. RxNum - 1 : RingAt(RxNum, u, k) \in Position \ {u}
  BY RingFacts, PlacesAhead, Zenon
<1>. HIDE DEF v
<1>2. \A k \in 0 .. RxNum - 2 : /\ k \in 0 .. RxNum - 1 /\ k + 1 \in 1 .. RxNum - 1
  BY SMT
<1>3. \A k \in 0 .. RxNum - 2 : s[RingAt(RxNum, v, k)] = r[RingAt(RxNum, u, k + 1)]
  BY <1>1, <1>2, Zenon
<1>4. s[RingAt(RxNum, v, RxNum - 1)] = Free
  <2>1. RxNum - 1 \in 0 .. RxNum - 1 /\ (RxNum - 1) + 1 = RxNum
    BY SMT
  <2>. QED  BY <1>1, <2>1, Zenon
<1>5. Unused(Free)
  BY Zenon DEF Unused, Free
<1>6. ASSUME NEW k \in 0 .. (q - 1) - 1
      PROVE  Holds(s[RingAt(RxNum, v, k)], g[k], g[k + 1])
  <2>1. /\ k \in 0 .. RxNum - 2 /\ k \in 0 .. RxNum - 1 /\ k + 1 \in 0 .. RxNum - 1
        /\ k + 1 \in 0 .. q - 1
    BY SMT
  <2>2. Holds(r[RingAt(RxNum, u, k + 1)], b[k + 1], b[(k + 1) + 1])
    BY <2>1, Zenon DEF InLine
  <2>. QED  BY <1>3, <2>1, <2>2, Zenon
<1>7. q - 1 # RxNum /\ q - 1 < RxNum
  BY SMT
<1>8. Filling(s[RingAt(RxNum, v, q - 1)], g[q - 1], e)
  <2>1. q - 1 \in 0 .. RxNum - 1 /\ (q - 1) + 1 = q
    BY SMT
  <2>2. g[q - 1] = b[q] /\ b[q] \in Nat
    BY <2>1, Zenon
  <2>3. CASE q = RxNum
    <3>1. s[RingAt(RxNum, v, q - 1)] = Free /\ b[q] = e
      BY <1>4, <2>3, Zenon DEF InLine
    <3>2. Filling(Free, b[q], b[q])
      BY <2>2, FreeFilling, Zenon
    <3>. QED  BY <2>2, <3>1, <3>2, Zenon
  <2>4. CASE q # RxNum
    <3>1. q < RxNum /\ q - 1 \in 0 .. RxNum - 2
      BY <2>4, SMT
    <3>2. s[RingAt(RxNum, v, q - 1)] = r[RingAt(RxNum, u, q)]
      BY <1>3, <2>1, <3>1, Zenon
    <3>. QED  BY <2>2, <3>1, <3>2, Zenon DEF InLine
  <2>. QED  BY <2>3, <2>4
<1>9. ASSUME NEW k \in (q - 1) + 1 .. RxNum - 1
      PROVE  Unused(s[RingAt(RxNum, v, k)])
  <2>1. CASE k = RxNum - 1
    BY <1>4, <1>5, <2>1, Zenon
  <2>2. CASE k # RxNum - 1
    <3>1. k \in 0 .. RxNum - 2 /\ k + 1 \in q + 1 .. RxNum - 1
      BY <2>2, SMT
    <3>. QED  BY <1>3, <3>1, Zenon DEF InLine
  <2>. QED  BY <2>1, <2>2
<1>. QED  BY <1>6, <1>7, <1>8, <1>9, Zenon DEF InLine, v

(* The tasklet adds to the descriptor at its index.                          *)
LEMMA LineFill ==
  ASSUME NEW r, NEW s, NEW u \in Position, NEW q \in 0 .. RxNum, q < RxNum, NEW b,
         NEW e, NEW z, InLine(r, u, q, b, e),
         NEW f, f = RingAt(RxNum, u, q), Filling(s[f], b[q], z),
         \A p \in Position \ {f} : s[p] = r[p]
  PROVE  InLine(s, u, q, b, z)
<1>1. q \in 0 .. RxNum - 1 /\ q # RxNum
  BY SMT
<1>2. ASSUME NEW k \in 0 .. RxNum - 1, k # q
      PROVE  s[RingAt(RxNum, u, k)] = r[RingAt(RxNum, u, k)]
  BY <1>1, <1>2, Places0, RingInjective, Zenon
<1>3. /\ \A k \in 0 .. q - 1 : k \in 0 .. RxNum - 1 /\ k # q
      /\ \A k \in q + 1 .. RxNum - 1 : k \in 0 .. RxNum - 1 /\ k # q
  BY SMT
<1>. QED  BY <1>1, <1>2, <1>3, Zenon DEF InLine

(* The tasklet finishes it, and the one after it is the next to fill.        *)
LEMMA LineFinish ==
  ASSUME NEW r, NEW s, NEW u \in Position, NEW q \in 0 .. RxNum, q < RxNum,
         NEW b \in [0 .. RxNum -> Nat], NEW e, NEW z \in Nat, InLine(r, u, q, b, e),
         NEW f, f = RingAt(RxNum, u, q), Holds(s[f], b[q], z),
         \A p \in Position \ {f} : s[p] = r[p]
  PROVE  InLine(s, u, q + 1, [b EXCEPT ![q + 1] = z], z)
<1>. DEFINE g == [b EXCEPT ![q + 1] = z]
<1>0. q \in 0 .. RxNum - 1 /\ q + 1 \in 0 .. RxNum /\ q # q + 1
  BY SMT
<1>1. g[q + 1] = z /\ \A k \in 0 .. q : g[k] = b[k]
  BY <1>0, SMT
<1>. HIDE DEF g
<1>2. ASSUME NEW k \in 0 .. RxNum - 1, k # q
      PROVE  s[RingAt(RxNum, u, k)] = r[RingAt(RxNum, u, k)]
  BY <1>0, <1>2, Places0, RingInjective, Zenon
<1>3. ASSUME NEW k \in 0 .. (q + 1) - 1
      PROVE  Holds(s[RingAt(RxNum, u, k)], g[k], g[k + 1])
  <2>1. CASE k = q
    <3>1. q \in 0 .. q
      BY SMT
    <3>. QED  BY <1>1, <2>1, <3>1, Zenon
  <2>2. CASE k # q
    <3>1. k \in 0 .. q - 1 /\ k \in 0 .. RxNum - 1 /\ k \in 0 .. q /\ k + 1 \in 0 .. q
      BY <2>2, SMT
    <3>. QED  BY <1>1, <1>2, <2>2, <3>1, Zenon DEF InLine
  <2>. QED  BY <2>1, <2>2
<1>4. ASSUME q + 1 < RxNum
      PROVE  Filling(s[RingAt(RxNum, u, q + 1)], z, z)
  <2>1. q + 1 \in q + 1 .. RxNum - 1 /\ q + 1 \in 0 .. RxNum - 1
    BY <1>4, SMT
  <2>2. Unused(s[RingAt(RxNum, u, q + 1)])
    BY <1>0, <1>2, <2>1, Zenon DEF InLine
  <2>. QED  BY <2>2, RunEmpty, SMT DEF Unused, Filling
<1>5. ASSUME NEW k \in (q + 1) + 1 .. RxNum - 1
      PROVE  Unused(s[RingAt(RxNum, u, k)])
  <2>1. k \in q + 1 .. RxNum - 1 /\ k \in 0 .. RxNum - 1 /\ k # q
    BY SMT
  <2>. QED  BY <1>2, <2>1, Zenon DEF InLine
<1>. QED  BY <1>1, <1>3, <1>4, <1>5, Zenon DEF InLine, g

(* A ring with nothing in it. *)
LEMMA LineEmpty ==
  ASSUME NEW r, r = [p \in Position |-> Free], NEW e \in Nat, NEW b, b[0] = e
  PROVE  InLine(r, 0, 0, b, e) /\ InRow(r, 0, 0, 0)
<1>1. 0 \in Position /\ 0 \in 0 .. RxNum /\ 0 # RxNum
  BY SMT
<1>2. \A k \in 0 .. RxNum - 1 : r[RingAt(RxNum, 0, k)] = Free
  BY <1>1, Places0, Zenon
<1>3. Unused(Free) /\ ~Free.cstop
  BY Zenon DEF Unused, Free
<1>4. Filling(Free, e, e)
  BY RunEmpty, SMT DEF Filling, Free
<1>5. /\ \A k \in 0 .. 0 - 1 : FALSE
      /\ \A k \in 0 + 1 .. RxNum - 1 : k \in 0 .. RxNum - 1
      /\ 0 < RxNum => 0 \in 0 .. RxNum - 1
  BY SMT
<1>6. InLine(r, 0, 0, b, e)
  BY <1>1, <1>2, <1>3, <1>4, <1>5, Zenon DEF InLine
<1>7. RingAt(RxNum, 0, 0) = 0 /\ \A k \in 0 .. RxNum - 1 : ~(k < 0)
  BY SMT DEF RingAt
<1>. QED  BY <1>2, <1>3, <1>6, <1>7, Zenon DEF InRow

-----------------------------------------------------------------------------
(* What a step does to the receive FIFO *)

LEMMA WaitingNone ==
  ASSUME NEW n \in Nat
  PROVE  Waiting(<<>>, n, n)
BY RunEmpty, SMT DEF Waiting

LEMMA WaitingLess ==
  ASSUME NEW s \in Seq(Nat), NEW e \in Nat, NEW n, Waiting(s, e, n),
         NEW m \in 0 .. Len(s), m % 4 = 0
  PROVE  Waiting(Rest(s, m), e + m, n)
<1>. DEFINE l == Len(s)
<1>1. l \in Nat /\ m \in 0 .. l /\ s = Run(e, l) /\ n = e + l /\ l % 4 = 0
  BY SMT DEF Waiting
<1>. HIDE DEF l
<1>2. Rest(s, m) = Run(e + m, l - m)
  BY <1>1, RunRest
<1>3. e + m \in Nat /\ l - m \in Nat /\ n = (e + m) + (l - m) /\ (l - m) % 4 = 0
  BY <1>1, SMT
<1>4. Len(Run(e + m, l - m)) = l - m
  BY <1>3, RunFacts, Zenon
<1>. QED  BY <1>2, <1>3, <1>4, Zenon DEF Waiting

LEMMA WaitingMore ==
  ASSUME NEW s \in Seq(Nat), NEW e \in Nat, NEW n, Waiting(s, e, n)
  PROVE  Waiting(s \o Run(n, 4), e, n + 4)
<1>. DEFINE l == Len(s)
<1>1. l \in Nat /\ s = Run(e, l) /\ n = e + l /\ l % 4 = 0
  BY SMT DEF Waiting
<1>. HIDE DEF l
<1>2. s \o Run(n, 4) = Run(e, l + 4)
  BY <1>1, 4 \in Nat, RunConcat
<1>3. l + 4 \in Nat /\ n + 4 = e + (l + 4) /\ (l + 4) % 4 = 0
  BY <1>1, SMT
<1>4. Len(Run(e, l + 4)) = l + 4
  BY <1>3, RunFacts, Zenon
<1>. QED  BY <1>2, <1>3, <1>4, Zenon DEF Waiting

-----------------------------------------------------------------------------
(* The steps *)

LEMMA FrontFacts ==
  ASSUME IInv
  PROVE  /\ Front \in Position
         /\ \A r \in Readers : pc[r] \in Holding /\ pc[r] # "advance" => Front = user_rx_desc
<1>. USE DEF IInv, TypeOK, RingType
<1>1. Front \in Position
  BY RingFacts, Zenon DEF Front
<1>2. ASSUME NEW r \in Readers, pc[r] \in Holding, pc[r] # "advance"
      PROVE  Front = user_rx_desc
  BY <1>2, Zenon DEF Front, OneReader, Holding
<1>. QED  BY <1>1, <1>2

(* The steps that move no byte, in the streaming modes. *)
Still ==
  /\ UNCHANGED <<rx, fifo_rx_desc, rx_frame_size, rxfifo, bcfl, arrived, got, cuts>>
  /\ Front' = Front

Moves ==
  \/ \E r \in Readers : ReadStreamMove(r)
  \/ IframeCopy \/ PurgeRx \/ HwStreamWord

LEMMA StillStep ==
  ASSUME IInv, streaming, rx_frame_size = 0, bcfl = <<>>, Next, ~Moves
  PROVE  Still
<1>. USE DEF IInv, TypeOK, CallersType, Goto, Return
<1>1. ASSUME UNCHANGED user_rx_desc,
             \A r \in Readers : pc'[r] = "advance" <=> pc[r] = "advance"
      PROVE  Front' = Front
  BY <1>1, Zenon DEF Front
<1>2. ASSUME NEW r \in Readers, ReadStreamAdvance(r)
      PROVE  Still
  <2>1. /\ pc[r] = "advance" /\ Goto(r, "move")
        /\ user_rx_desc' = RingNext(RxNum, user_rx_desc)
    BY <1>2, Zenon DEF ReadStreamAdvance
  <2>2. Front = user_rx_desc'
    BY <2>1, Zenon DEF Front
  <2>3. \A p \in Readers : pc'[p] # "advance"
    BY <2>1, Zenon DEF OneReader, Holding
  <2>4. Front' = user_rx_desc'
    BY <2>3, Zenon DEF Front
  <2>. QED  BY <1>2, <2>2, <2>4, Zenon DEF ReadStreamAdvance, Still, card, ghosts
<1>3. ASSUME NEW r \in Readers,
             \/ ReadDown(r) \/ ReadCheck(r) \/ ReadWait(r) \/ ReadNoMemory(r) \/ ReadUp(r)
             \/ ReadSignal(r) \/ ReadStreamLock(r)
             \/ \E n \in BufSizes, nb \in NonblockFlags : ReadCall(r, n, nb)
      PROVE  Still
  <2>1. /\ UNCHANGED <<rx, user_rx_desc, fifo_rx_desc, rx_frame_size, rxfifo, bcfl, arrived,
                       got, cuts>>
        /\ pc[r] # "advance"
    BY <1>3, Zenon DEF ReadDown, ReadCheck, ReadWait, ReadNoMemory, ReadUp, ReadSignal,
       ReadStreamLock, ReadCall, ring, card, ghosts
  <2>2. \E l \in Places \ {"advance"} : Goto(r, l)
    BY <1>3, Zenon DEF ReadDown, ReadCheck, ReadWait, ReadNoMemory, ReadUp, ReadSignal,
       ReadStreamLock, ReadCall, Places
  <2>3. Front' = Front
    BY <1>1, <2>1, <2>2, Zenon
  <2>. QED  BY <2>1, <2>3, Zenon DEF Still
<1>4. CASE Isr \/ TimerHandler \/ IframeLock
  <2>1. UNCHANGED <<rx, user_rx_desc, fifo_rx_desc, rx_frame_size, rxfifo, bcfl, arrived,
                    got, cuts, pc>>
    BY <1>4, Zenon DEF Isr, TimerHandler, IframeLock, ring, callers, card, ghosts
  <2>2. Front' = Front
    BY <1>1, <2>1, Zenon
  <2>. QED  BY <2>1, <2>2, Zenon DEF Still
<1>5. CASE IframeHead \/ IframeReady
  <2>1. /\ UNCHANGED <<rx, user_rx_desc, fifo_rx_desc, rx_frame_size, rxfifo, bcfl, arrived,
                       got, cuts>>
        /\ \A r \in Readers : pc'[r] = "advance" <=> pc[r] = "advance"
    BY <1>5, Zenon DEF IframeHead, IframeReady, ring, callers, card, ghosts
  <2>2. Front' = Front
    BY <1>1, <2>1, Zenon
  <2>. QED  BY <2>1, <2>2, Zenon DEF Still
<1>6. ~ \E r \in Readers : ReadFrameLock(r) \/ ReadFrameMove(r) \/ ReadFrameAdvance(r)
  BY Zenon DEF ReadFrameLock, ReadFrameMove, ReadFrameAdvance
<1>7. ~ \E s \in FrameSizes : HwFrameWord(s)
  BY Zenon DEF HwFrameWord
<1>. QED
  BY <1>2, <1>3, <1>4, <1>5, <1>6, <1>7, Zenon
  DEF Next, Step, ReaderStep, IframeStep, Moves

LEMMA StillHolds ==
  ASSUME InStream, Still
  PROVE  InStream'
BY Zenon DEF InStream, Still, OneRun, InRow

LEMMA InitStream == Init => InStream
<1>. SUFFICES ASSUME Init PROVE InStream
  OBVIOUS
<1>. USE DEF Init
<1>. DEFINE b == [k \in 0 .. RxNum |-> 0]
<1>1. b \in [0 .. RxNum -> 0 .. arrived] /\ b[0] = 0
  BY SMT
<1>2. Front = 0
  BY Zenon DEF Front
<1>. HIDE DEF b
<1>3. InLine(rx, 0, 0, b, 0) /\ InRow(rx, 0, 0, 0)
  BY <1>1, 0 \in Nat, LineEmpty, Zenon
<1>4. Waiting(rxfifo, 0, arrived)
  BY WaitingNone, SMT
<1>5. InOrder(got, cuts, b[0]) /\ UpTo(got, arrived)
  BY SMT DEF InOrder, UpTo
<1>6. 0 \in 0 .. RxNum /\ 0 \in 0 .. arrived
  BY SMT
<1>7. OneRun
  BY <1>1, <1>2, <1>3, <1>4, <1>5, <1>6, Zenon DEF OneRun
<1>. QED  BY <1>5, <1>7, Zenon DEF InStream

(* Facts of a state of the streaming modes. *)
LEMMA StreamFacts ==
  ASSUME SInv, streaming
  PROVE  /\ arrived \in Nat /\ rxfifo \in Seq(Nat) /\ got \in Seq(Nat)
         /\ Front \in Position /\ user_rx_desc \in Position /\ fifo_rx_desc \in Position
         /\ rx \in [Position -> DescType]
         /\ \A p \in Position : rx[p] \in DescType /\ rx[p].cnt \in Nat /\ rx[p].count \in Nat
<1>1. arrived \in Nat /\ rxfifo \in Seq(Nat) /\ got \in Seq(Nat)
  BY Zenon DEF SInv, IInv, TypeOK, GhostsType, CardType
<1>2. /\ user_rx_desc \in Position /\ fifo_rx_desc \in Position
      /\ rx \in [Position -> DescType]
  BY Zenon DEF SInv, IInv, TypeOK, RingType
<1>3. Front \in Position
  BY FrontFacts DEF SInv
<1>4. ASSUME NEW p \in Position
      PROVE  rx[p] \in DescType /\ rx[p].cnt \in Nat /\ rx[p].count \in Nat
  <2>1. rx[p] \in DescType
    BY <1>2
  <2>. QED  BY <2>1, Zenon DEF DescType
<1>. QED  BY <1>1, <1>2, <1>3, <1>4, Zenon

(* A purge; the reset reaches the card. *)
LEMMA StreamPurge ==
  ASSUME StreamHypothesis, SInv, streaming, PurgeRx
  PROVE  InStream'
<1>1. PICK q \in 0 .. RxNum, b \in [0 .. RxNum -> 0 .. arrived], e \in 0 .. arrived :
        InOrder(got, cuts, b[0])
  BY Zenon DEF SInv, InStream, OneRun
<1>2. arrived \in Nat /\ got \in Seq(Nat) /\ b[0] \in Nat
  BY StreamFacts, SMT
<1>3. PICK z : z = arrived
  OBVIOUS
<1>4. /\ rxfifo' = <<>> /\ bcfl' = <<>> /\ rx' = [p \in Position |-> Free]
      /\ user_rx_desc' = 0 /\ fifo_rx_desc' = 0 /\ rx_frame_size' = 0
      /\ arrived' = z /\ got' = got /\ cuts' = cuts \cup {z} /\ pc' = pc
  BY <1>3, Zenon DEF PurgeRx, StreamHypothesis, callers
<1>5. Front' = 0
  BY <1>4, Zenon DEF PurgeRx, LockFree, Front
<1>6. UpTo(got, z) /\ z \in Nat
  BY <1>2, <1>3, Zenon DEF SInv, InStream
<1>7. InOrder(got', cuts', z) /\ UpTo(got', z)
  BY <1>1, <1>2, <1>4, <1>6, OrderCut, Zenon
<1>. DEFINE g == [k \in 0 .. RxNum |-> z]
<1>8. g \in [0 .. RxNum -> 0 .. z] /\ g[0] = z /\ z \in 0 .. z /\ 0 \in 0 .. RxNum
  BY <1>6, SMT
<1>. HIDE DEF g
<1>9. InLine(rx', 0, 0, g, z) /\ InRow(rx', 0, 0, 0)
  BY <1>4, <1>6, <1>8, LineEmpty, Zenon
<1>10. Waiting(rxfifo', z, z)
  BY <1>4, <1>6, WaitingNone, Zenon
<1>11. OneRun'
  BY <1>4, <1>5, <1>7, <1>8, <1>9, <1>10, Zenon DEF OneRun
<1>. QED  BY <1>4, <1>7, <1>11, Zenon DEF InStream

(* Four bytes of the line. *)
LEMMA StreamWord ==
  ASSUME SInv, streaming, HwStreamWord
  PROVE  InStream'
<1>1. PICK q \in 0 .. RxNum, b \in [0 .. RxNum -> 0 .. arrived], e \in 0 .. arrived :
        /\ InRow(rx, fifo_rx_desc, Front, q) /\ InLine(rx, Front, q, b, e)
        /\ Waiting(rxfifo, e, arrived) /\ InOrder(got, cuts, b[0])
  BY Zenon DEF SInv, InStream, OneRun
<1>2. arrived \in Nat /\ rxfifo \in Seq(Nat)
  BY StreamFacts
<1>3. PICK z : z = arrived
  OBVIOUS
<1>4. [i \in 1 .. 4 |-> IF i <= 4 THEN z + i ELSE 0] = Run(z, 4)
  BY <1>2, <1>3, SMT DEF Run
<1>5. /\ rxfifo' = rxfifo \o Run(z, 4) /\ arrived' = z + 4
      /\ UNCHANGED <<rx, user_rx_desc, fifo_rx_desc, rx_frame_size, bcfl, got, cuts, pc>>
  BY <1>3, <1>4, Zenon DEF HwStreamWord, Push, ring, callers
<1>6. Front' = Front
  BY <1>5, Zenon DEF Front
<1>7. z \in Nat /\ e \in Nat /\ e \in 0 .. z + 4 /\ \A i \in 0 .. z : i \in 0 .. z + 4
  BY <1>2, <1>3, SMT
<1>8. Waiting(rxfifo', e, z + 4)
  BY <1>1, <1>2, <1>3, <1>5, <1>7, WaitingMore, Zenon
<1>9. b \in [0 .. RxNum -> 0 .. z + 4]
  BY <1>3, <1>7, Zenon
<1>10. OneRun'
  BY <1>1, <1>5, <1>6, <1>7, <1>8, <1>9, Zenon DEF OneRun, InRow
<1>11. UpTo(got, z + 4)
  <2>1. Len(got) # 0 => got[Len(got)] \in Nat
    BY StreamFacts, LastIsNat, Zenon
  <2>. QED  BY <1>3, <1>7, <2>1, SMT DEF SInv, InStream, UpTo
<1>. QED  BY <1>5, <1>10, <1>11, Zenon DEF SInv, InStream, UpTo

(* A reader takes bytes of the descriptor at its index. *)
LEMMA StreamMove ==
  ASSUME SInv, streaming, NEW r \in Readers, ReadStreamMove(r)
  PROVE  InStream'
<1>. DEFINE d == rx[user_rx_desc]
            n == Lesser(buf[r] - out_length, d.count)
            g == [d EXCEPT !.data = Rest(d.data, n), !.count = d.count - n]
<1>0. PICK q \in 0 .. RxNum, b \in [0 .. RxNum -> 0 .. arrived], e \in 0 .. arrived :
        /\ InRow(rx, fifo_rx_desc, Front, q) /\ InLine(rx, Front, q, b, e)
        /\ Waiting(rxfifo, e, arrived) /\ InOrder(got, cuts, b[0])
  BY Zenon DEF SInv, InStream, OneRun
<1>1. PICK u : u = user_rx_desc
  OBVIOUS
<1>2. /\ pc[r] = "move"
      /\ UNCHANGED <<user_rx_desc, fifo_rx_desc, rx_frame_size, rxfifo, bcfl, arrived, cuts>>
  BY Zenon DEF ReadStreamMove, card
<1>3. u \in Position /\ Front = u
  BY <1>1, <1>2, StreamFacts, FrontFacts, Zenon DEF SInv, Holding
<1>4. \A l : Goto(r, l) => (\E p \in Readers : pc'[p] = "advance") <=> l = "advance"
  <2>1. \A p \in Readers : p # r => pc[p] # "advance"
    BY <1>2, Zenon DEF SInv, IInv, OneReader, Holding
  <2>. QED  BY <2>1, Zenon DEF SInv, IInv, TypeOK, CallersType, Goto
<1>5. CASE ~d.cstop /\ ~d.fe
  <2>1. rx' = rx /\ got' = got /\ Goto(r, "up")
    BY <1>5, Zenon DEF ReadStreamMove, Return
  <2>2. Front' = Front
    <3>1. ~\E p \in Readers : pc'[p] = "advance"
      BY <1>4, <2>1, "up" # "advance"
    <3>2. Front' = user_rx_desc'
      BY <3>1, Zenon DEF Front
    <3>. QED  BY <1>1, <1>2, <1>3, <3>2, Zenon
  <2>. QED  BY <1>2, <2>1, <2>2, StillHolds, Zenon DEF SInv, Still
<1>6. CASE d.cstop \/ d.fe
  <2>1. d.cstop /\ d \in DescType /\ d.count \in Nat
    BY <1>6, StreamFacts, Zenon DEF SInv, IInv, DescsOK
  <2>2. n \in 0 .. d.count /\ n \in Nat
    <3>1. buf[r] \in Nat /\ out_length \in Nat /\ out_length <= buf[r]
      BY <1>2, Zenon DEF SInv, IInv, TypeOK, CallersType, RoomLeft
    <3>. QED  BY <2>1, <3>1, SMT DEF Lesser
  <2>. HIDE DEF n
  <2>3. /\ got' = got \o Bytes(d.data, n)
        /\ \/ /\ n = d.count /\ Goto(r, "advance")
              /\ rx' = [rx EXCEPT ![u] = Free]
           \/ /\ n # d.count /\ Goto(r, "up")
              /\ rx' = [rx EXCEPT ![u] = g]
    BY <1>1, <1>6, Zenon DEF ReadStreamMove, Return, n
  <2>4. 0 < q
    <3>1. 0 \in 0 .. RxNum - 1
      BY SMT
    <3>. QED  BY <1>0, <1>1, <1>3, <2>1, <3>1, RingFacts, Zenon DEF InRow
  <2>5. Holds(d, b[0], b[1])
    <3>1. 0 \in 0 .. q - 1 /\ 0 + 1 = 1
      BY <2>4, SMT
    <3>. QED  BY <1>0, <1>1, <1>3, <3>1, RingFacts, Zenon DEF InLine
  <2>6. /\ arrived \in Nat /\ b[0] \in 0 .. arrived /\ b[1] \in 0 .. arrived
        /\ b[0] \in Nat /\ b[0] + n <= arrived /\ b[0] + n \in 0 .. arrived
    <3>1. arrived \in Nat /\ 0 \in 0 .. RxNum /\ 1 \in 0 .. RxNum
      BY StreamFacts, SMT
    <3>2. b[0] \in 0 .. arrived /\ b[1] \in 0 .. arrived
      BY <3>1
    <3>3. b[1] = b[0] + d.count
      BY <2>5 DEF Holds
    <3>. QED  BY <2>1, <2>2, <3>1, <3>2, <3>3, SMT
  <2>7. got' = got \o Run(b[0], n)
    <3>1. Bytes(Run(b[0], d.count), n) = Run(b[0], n)
      BY <2>1, <2>2, <2>6, RunBytes
    <3>2. d.data = Run(b[0], d.count)
      BY <2>5 DEF Holds
    <3>. QED  BY <2>3, <3>1, <3>2
  <2>8. InOrder(got', cuts, b[0] + n) /\ UpTo(got', arrived)
    <3>1. got \in Seq(Nat)
      BY StreamFacts
    <3>2. InOrder(got, cuts, b[0]) /\ UpTo(got, arrived)
      BY <1>0 DEF SInv, InStream
    <3>. QED  BY <2>2, <2>6, <2>7, <3>1, <3>2, OrderGoesOn, Zenon
  <2>9. b \in [0 .. RxNum -> Nat]
    BY <2>6, SMT
  <2>10. \A t : rx' = [rx EXCEPT ![u] = t] =>
                  rx'[u] = t /\ \A p \in Position \ {u} : rx'[p] = rx[p]
    BY <1>3, StreamFacts, Zenon
  <2>11. CASE n = d.count /\ Goto(r, "advance") /\ rx' = [rx EXCEPT ![u] = Free]
    <3>. DEFINE h == [k \in 0 .. RxNum |-> IF k < RxNum THEN b[k + 1] ELSE 0]
    <3>1. /\ h \in [0 .. RxNum -> 0 .. arrived] /\ h \in [0 .. RxNum -> Nat]
          /\ \A k \in 0 .. RxNum - 1 : h[k] = b[k + 1]
      BY <2>6, SMT
    <3>2. h[0] = b[0] + n
      <4>1. 0 \in 0 .. RxNum - 1 /\ 0 + 1 = 1
        BY SMT
      <4>. QED  BY <2>5, <2>11, <3>1, <4>1, Zenon DEF Holds
    <3>. HIDE DEF h
    <3>3. Front' = RingNext(RxNum, u)
      BY <1>1, <1>2, <1>4, <2>11, Zenon DEF Front
    <3>4. rx'[u] = Free /\ \A p \in Position \ {u} : rx'[p] = rx[p]
      BY <2>10, <2>11
    <3>5. q - 1 \in 0 .. RxNum /\ InRow(rx', fifo_rx_desc, RingNext(RxNum, u), q - 1)
      <4>1. \A p \in Position \ {u} : rx'[p].cstop <=> rx[p].cstop
        BY <3>4
      <4>2. rx[u].cstop /\ ~rx'[u].cstop /\ InRow(rx, fifo_rx_desc, u, q) /\ u \in Position
        BY <1>0, <1>1, <1>3, <2>1, <3>4, FreeIsDesc, Zenon
      <4>. QED  BY <4>1, <4>2, GiveBack, Zenon
    <3>6. InLine(rx', RingNext(RxNum, u), q - 1, h, e)
      BY <1>0, <1>3, <2>4, <2>9, <3>1, <3>4, LineGiveBack, Zenon
    <3>7. OneRun'
      BY <1>0, <1>2, <2>8, <3>1, <3>2, <3>3, <3>5, <3>6, Zenon DEF OneRun
    <3>. QED  BY <1>2, <2>8, <3>7, Zenon DEF SInv, InStream
  <2>12. CASE n # d.count /\ Goto(r, "up") /\ rx' = [rx EXCEPT ![u] = g]
    <3>. DEFINE h == [b EXCEPT ![0] = b[0] + n]
    <3>1. h \in [0 .. RxNum -> 0 .. arrived] /\ h[0] = b[0] + n
      BY <2>6, SMT
    <3>2. /\ g.cstop = d.cstop /\ g.data = Rest(d.data, n) /\ g.count = d.count - n
      BY <2>1, Zenon DEF DescType
    <3>3. Holds(g, b[0] + n, b[1])
      <4>1. g.data = Run(b[0] + n, d.count - n)
        <5>1. Rest(Run(b[0], d.count), n) = Run(b[0] + n, d.count - n)
          BY <2>1, <2>2, <2>6, RunRest
        <5>2. d.data = Run(b[0], d.count)
          BY <2>5 DEF Holds
        <5>. QED  BY <3>2, <5>1, <5>2
      <4>2. b[1] = b[0] + d.count
        BY <2>5 DEF Holds
      <4>3. b[1] = (b[0] + n) + (d.count - n)
        BY <2>1, <2>2, <2>6, <4>2, SMT
      <4>. QED  BY <3>2, <4>1, <4>3, Zenon DEF Holds
    <3>. HIDE DEF g
    <3>4. rx'[u] = g /\ \A p \in Position \ {u} : rx'[p] = rx[p]
      BY <2>10, <2>12
    <3>5. \A p \in Position : rx'[p].cstop = rx[p].cstop
      BY <1>1, <3>2, <3>4, Zenon
    <3>6. InRow(rx', fifo_rx_desc, u, q)
      BY <1>0, <1>3, <3>5, Places0, Zenon DEF InRow
    <3>7. InLine(rx', u, q, h, e)
      BY <1>0, <1>3, <2>2, <2>4, <2>9, <3>3, <3>4, LineRead, Zenon
    <3>8. Front' = u
      <4>1. ~\E p \in Readers : pc'[p] = "advance"
        BY <1>4, <2>12, "up" # "advance"
      <4>2. Front' = user_rx_desc'
        BY <4>1, Zenon DEF Front
      <4>. QED  BY <1>1, <1>2, <4>2, Zenon
    <3>. HIDE DEF h
    <3>9. OneRun'
      BY <1>0, <1>2, <2>8, <3>1, <3>6, <3>7, <3>8, Zenon DEF OneRun
    <3>. QED  BY <1>2, <2>8, <3>9, Zenon DEF SInv, InStream
  <2>. QED  BY <2>3, <2>11, <2>12
<1>. QED  BY <1>5, <1>6

(* The tasklet moves words from the receive FIFO to the descriptor at its    *)
(* index.                                                                    *)
LEMMA StreamCopy ==
  ASSUME StreamHypothesis, SInv, streaming, IframeCopy
  PROVE  InStream'
<1>. DEFINE d == rx[fifo_rx_desc]
<1>0. PICK q \in 0 .. RxNum, b \in [0 .. RxNum -> 0 .. arrived], e \in 0 .. arrived :
        /\ InRow(rx, fifo_rx_desc, Front, q) /\ InLine(rx, Front, q, b, e)
        /\ Waiting(rxfifo, e, arrived) /\ InOrder(got, cuts, b[0])
  BY Zenon DEF SInv, InStream, OneRun
<1>1. PICK f, u : f = fifo_rx_desc /\ u = Front
  OBVIOUS
<1>2. /\ f \in Position /\ u \in Position /\ f = RingAt(RxNum, u, q)
      /\ rx_frame_size = 0 /\ bcfl = <<>> /\ arrived \in Nat /\ rxfifo \in Seq(Nat)
      /\ d \in DescType /\ d.cnt \in Nat /\ d.count \in Nat
  BY <1>0, <1>1, StreamFacts, Zenon DEF SInv, InStream, InRow
<1>3. ~d.cstop /\ d.cnt < RxSize
  BY <1>1, <1>2, Zenon DEF IframeCopy, SInv, IInv, DescsOK
<1>4. q < RxNum
  <2>. SUFFICES ASSUME q = RxNum PROVE FALSE
    BY SMT
  <2>1. f = u /\ RingAt(RxNum, u, 0) = u /\ 0 \in 0 .. RxNum - 1 /\ 0 < q
    BY <1>2, RingFacts, SMT
  <2>. QED  BY <1>0, <1>1, <1>3, <2>1, Zenon DEF InRow
<1>5. Filling(d, b[q], e)
  BY <1>0, <1>1, <1>2, <1>4, Zenon DEF InLine
<1>6. b[q] \in Nat /\ b \in [0 .. RxNum -> Nat] /\ e \in Nat
  <2>1. 0 .. arrived \subseteq Nat
    BY <1>2, SMT
  <2>. QED  BY <2>1
<1>7. PICK l \in Nat : l = Len(rxfifo) /\ rxfifo = Run(e, l) /\ l % 4 = 0 /\ arrived = e + l
  <2>1. Len(rxfifo) \in Nat
    BY <1>2, SMT
  <2>. QED  BY <1>0, <2>1, Zenon DEF Waiting
<1>8. PICK c \in Nat : c = d.cnt /\ c < RxSize /\ c % 4 = 0 /\ d.data = Run(b[q], c)
                      /\ e = b[q] + c /\ d.count = RxSize
  BY <1>2, <1>3, <1>5, Zenon DEF Filling
<1>9. PICK y \in Nat : y = b[q]
  BY <1>6
<1>10. l % 4 = 0 /\ arrived = e + l /\ c < RxSize /\ c % 4 = 0 /\ e = y + c
  BY <1>7, <1>8, <1>9
<1>11. PICK n \in Nat : /\ n = ReceiveLength /\ WordBytes(n) = n /\ n % 4 = 0
                       /\ n <= l /\ c + n <= RxSize
  <2>1. RxSize % 4 = 0
    BY DEF StreamHypothesis
  <2>2. ReceiveLength = Lesser(l, RxSize - c)
    BY <1>2, <1>7, <1>8, Zenon DEF ReceiveLength
  <2>3. (RxSize - c) % 4 = 0 /\ RxSize - c \in Nat
    BY <1>10, <2>1, SMT
  <2>4. \A m \in Nat : m % 4 = 0 => WordBytes(m) = m
    BY SMT DEF WordBytes
  <2>5. PICK m : m = RxSize - c
    OBVIOUS
  <2>6. m \in Nat /\ m % 4 = 0 /\ ReceiveLength = Lesser(l, m) /\ m = RxSize - c
    BY <2>2, <2>3, <2>5
  <2>7. Lesser(l, m) \in {l, m} /\ Lesser(l, m) <= l /\ Lesser(l, m) <= m
    BY <2>6, SMT DEF Lesser
  <2>8. c + Lesser(l, m) <= RxSize
    BY <1>10, <2>6, <2>7, SMT
  <2>. QED  BY <1>7, <2>4, <2>6, <2>7, <2>8, Zenon
<1>. DEFINE full == c + n >= RxSize
            g == [cstop |-> full, fe |-> FALSE,
                  cnt |-> IF full THEN 0 ELSE c + n,
                  count |-> IF full THEN RxSize ELSE d.count,
                  data |-> d.data \o Bytes(rxfifo, n)]
<1>12. /\ rxfifo' = Rest(rxfifo, n) /\ rx_frame_size' = 0 /\ rx' = [rx EXCEPT ![f] = g]
       /\ fifo_rx_desc' = IF full THEN RingNext(RxNum, f) ELSE f
       /\ UNCHANGED <<user_rx_desc, pc, bcfl, arrived, got, cuts>>
  <2>. DEFINE ended == rx_frame_size > 0 /\ rx_bytes_in_frame + n >= rx_frame_size
              finished == full \/ ended
  <2>1. ended = FALSE
    BY <1>2, SMT
  <2>. HIDE DEF ended, full
  <2>2. finished = full
    <3>1. full \in BOOLEAN
      BY SMT DEF full
    <3>. QED  BY <2>1, <3>1, Zenon
  <2>. HIDE DEF finished
  <2>3. /\ rxfifo' = Rest(rxfifo, WordBytes(n))
        /\ rx' = [rx EXCEPT ![f] =
                    [cstop |-> finished, fe |-> ended,
                     cnt |-> IF ended THEN rx_frame_size ELSE IF full THEN 0 ELSE c + n,
                     count |-> IF finished THEN RxSize ELSE d.count,
                     data |-> d.data \o Bytes(rxfifo, n)]]
        /\ rx_frame_size' = IF ended THEN 0 ELSE rx_frame_size
        /\ fifo_rx_desc' = IF finished THEN RingNext(RxNum, f) ELSE f
        /\ UNCHANGED <<user_rx_desc, pc, bcfl, arrived, got, cuts>>
    BY <1>1, <1>8, <1>11, Zenon DEF IframeCopy, ended, full, finished, callers, ghosts
  <2>. QED  BY <1>2, <1>11, <2>1, <2>2, <2>3, Zenon
<1>13. Front' = u
  BY <1>1, <1>12, Zenon DEF Front
<1>14. /\ g.data = d.data \o Bytes(rxfifo, n) /\ g.cstop = full
       /\ full => g.count = RxSize
       /\ ~full => g.cnt = c + n /\ g.count = RxSize
  BY <1>8, Zenon
<1>. HIDE DEF g, full
<1>15. n % 4 = 0 /\ n <= l /\ c + n <= RxSize
  BY <1>11
<1>16. PICK z \in 0 .. arrived : z = e + n /\ z = b[q] + (c + n) /\ z \in Nat
  <2>1. e + n \in 0 .. arrived /\ e + n = y + (c + n) /\ e + n \in Nat
    BY <1>10, <1>15, SMT
  <2>. QED  BY <1>9, <2>1
<1>17. Waiting(rxfifo', z, arrived)
  <2>1. n \in 0 .. Len(rxfifo)
    BY <1>7, <1>11, SMT
  <2>. QED  BY <1>0, <1>2, <1>6, <1>11, <1>12, <1>16, <2>1, WaitingLess, Zenon
<1>18. g.data = Run(b[q], c + n)
  <2>1. n \in 0 .. l
    BY <1>15, SMT
  <2>2. Bytes(Run(e, l), n) = Run(e, n)
    BY <1>6, <2>1, RunBytes
  <2>3. Run(y, c) \o Run(y + c, n) = Run(y, c + n)
    BY RunConcat
  <2>4. /\ g.data = d.data \o Bytes(rxfifo, n) /\ rxfifo = Run(e, l)
        /\ d.data = Run(y, c) /\ e = y + c
    BY <1>7, <1>8, <1>14, <1>9
  <2>. QED  BY <1>9, <2>2, <2>3, <2>4
<1>19. rx'[f] = g /\ \A p \in Position \ {f} : rx'[p] = rx[p]
  BY <1>2, <1>12, StreamFacts, Zenon
<1>20. CASE full
  <2>1. c + n = RxSize
    BY <1>15, <1>20, SMT DEF full
  <2>2. Holds(g, b[q], z) /\ g.cstop
    BY <1>14, <1>16, <1>18, <1>20, <2>1, Zenon DEF Holds
  <2>. DEFINE h == [b EXCEPT ![q + 1] = z]
  <2>3. h \in [0 .. RxNum -> 0 .. arrived] /\ h[0] = b[0]
    <3>1. q + 1 # 0 /\ z \in 0 .. arrived /\ 0 \in 0 .. RxNum
      BY SMT
    <3>. QED  BY <3>1, Zenon
  <2>4. InLine(rx', u, q + 1, h, z)
    BY <1>0, <1>1, <1>2, <1>4, <1>6, <1>16, <1>19, <2>2, LineFinish, Zenon
  <2>5. q + 1 \in 0 .. RxNum /\ InRow(rx', RingNext(RxNum, f), u, q + 1)
    BY <1>0, <1>1, <1>2, <1>3, <1>19, <2>2, Finish, Zenon
  <2>. HIDE DEF h
  <2>6. OneRun'
    BY <1>0, <1>12, <1>13, <1>16, <1>17, <1>20, <2>3, <2>4, <2>5, Zenon DEF OneRun
  <2>. QED  BY <1>2, <1>12, <2>6, Zenon DEF SInv, InStream
<1>21. CASE ~full
  <2>1. (c + n) % 4 = 0
    BY <1>10, <1>15, SMT
  <2>2. Filling(g, b[q], z)
    BY <1>14, <1>16, <1>18, <1>21, <2>1, Zenon DEF Filling
  <2>3. InLine(rx', u, q, b, z)
    BY <1>0, <1>1, <1>2, <1>4, <1>19, <2>2, LineFill, Zenon
  <2>4. \A p \in Position : rx'[p].cstop <=> rx[p].cstop
    BY <1>1, <1>3, <1>14, <1>19, <1>21, Zenon
  <2>5. InRow(rx', f, u, q)
    BY <1>0, <1>1, <1>2, <2>4, Places0, Zenon DEF InRow
  <2>6. OneRun'
    BY <1>0, <1>12, <1>13, <1>16, <1>17, <1>21, <2>3, <2>5, Zenon DEF OneRun
  <2>. QED  BY <1>2, <1>12, <2>6, Zenon DEF SInv, InStream
<1>. QED  BY <1>20, <1>21

-----------------------------------------------------------------------------
(* The theorem *)

LEMMA StreamStep ==
  ASSUME StreamHypothesis, SInv, [Next]_vars
  PROVE  SInv'
<1>1. IInv'
  BY Inductive DEF SInv
<1>2. CASE Next
  <2>1. streaming' = streaming
    BY <1>2 DEF Next
  <2>2. ASSUME streaming PROVE InStream'
    <3>1. CASE Moves
      BY <2>2, <3>1, StreamMove, StreamCopy, StreamPurge, StreamWord, Zenon DEF Moves
    <3>2. CASE ~Moves
      BY <1>2, <2>2, <3>2, StillStep, StillHolds, Zenon DEF SInv, InStream
    <3>. QED  BY <3>1, <3>2
  <2>. QED  BY <1>1, <2>1, <2>2 DEF SInv
<1>3. CASE UNCHANGED vars
  <2>1. Still /\ streaming' = streaming
    BY <1>3, Zenon DEF vars, state, ring, callers, card, ghosts, Still, Front
  <2>. QED  BY <1>1, <2>1, StillHolds, Zenon DEF SInv
<1>. QED  BY <1>2, <1>3

(* Streaming: when every receive reset reaches the card and descriptors hold *)
(* whole words, whatever the readers, the buffers and the ring, the bytes    *)
(* that reads return are those of the line in order, and bytes are left out  *)
(* at a purge only.                                                          *)
THEOREM StreamReadInOrder ==
  ASSUME StreamHypothesis
  PROVE  Spec => []StreamInOrder
<1>1. Init => SInv
  BY InitHolds, InitStream DEF SInv
<1>2. SInv /\ [Next]_vars => SInv'
  BY StreamStep
<1>3. SInv => StreamInOrder
  BY Zenon DEF SInv, InStream, OneRun, InOrder, Goes, StreamInOrder
<1>. QED  BY <1>1, <1>2, <1>3, PTL DEF Spec

-----------------------------------------------------------------------------
(* Frames *)

(* What is assumed of a port that receives frames.  A frame is more than its *)
(* status; a word that arrives between the tasklet's reads of RFCNT and of   *)
(* RXCNT does not complete descriptors of which the frame's end is unknown:  *)
(* either none arrives, or at most one and the words of no frame fill        *)
(* descriptors.  The run rx_race shows what the driver does otherwise.       *)
Fills == {RxSize * j : j \in Nat}
FrameHypothesis ==
  /\ RresSeen \subseteq {TRUE} /\ RxSize % 4 = 0
  /\ \A s \in FrameSizes : s > StatusBytes
  /\ \/ RaceWords = 0
     \/ RaceWords = 1 /\ \A s \in FrameSizes : WordBytes(s) \notin Fills

(* Byte i of the words of frame f. *)
ByteAt(f, i) == IF i <= f.size THEN f.first + i - 1 ELSE 0

(* The bytes s are those of frame f after its first o. *)
Part(s, f, o) == \A i \in 1 .. Len(s) : s[i] = ByteAt(f, o + i)

Frame == [first : Nat \ {0}, size : Nat]

LEMMA WordFacts ==
  ASSUME NEW n \in Nat
  PROVE  /\ WordBytes(n) \in Nat /\ n <= WordBytes(n) /\ WordBytes(n) < n + 4
         /\ WordBytes(n) % 4 = 0 /\ (n % 4 = 0 => WordBytes(n) = n)
BY SMT DEF WordBytes

LEMMA WordOrder ==
  ASSUME NEW m \in Nat, NEW n \in Nat, m <= n
  PROVE  WordBytes(m) <= WordBytes(n)
BY SMT DEF WordBytes

LEMMA FrameFacts ==
  ASSUME NEW f \in Frame
  PROVE  f.first \in Nat /\ f.first > 0 /\ f.size \in Nat
BY SMT DEF Frame

LEMMA DescFacts ==
  ASSUME NEW d \in DescType
  PROVE  /\ d.data \in Seq(Nat) /\ Len(d.data) \in Nat /\ d.cnt \in Nat /\ d.count \in Nat
         /\ d.fe \in BOOLEAN /\ d.cstop \in BOOLEAN
<1>1. d.data \in Seq(Nat) /\ d.cnt \in Nat /\ d.count \in Nat
      /\ d.fe \in BOOLEAN /\ d.cstop \in BOOLEAN
  BY Zenon DEF DescType
<1>2. \A s \in Seq(Nat) : Len(s) \in Nat
  BY SMT
<1>. QED  BY <1>1, <1>2, Zenon

LEMMA Below ==
  ASSUME NEW a \in Nat, NEW b \in Nat, NEW c \in Nat
  PROVE  /\ a <= b /\ b <= c => a <= c
         /\ a <= b /\ b < c => a < c
         /\ a < b /\ b <= c => a < c
         /\ a < b => a <= b
BY SMT

LEMMA Among ==
  ASSUME NEW n \in Nat, NEW f \in 1 .. n
  PROVE  /\ f # n => f \in 1 .. n - 1 /\ f < n
         /\ f + 1 \in 1 .. n => f # n
         /\ \A m \in Nat : m >= n => f \in 1 .. m
         /\ \A m \in Nat : f = n /\ f < m => m # n
BY SMT

LEMMA Between ==
  ASSUME NEW x \in Nat, NEW y \in Nat, NEW z \in Nat, NEW i \in y .. z - 1, x <= y
  PROVE  i \in x .. z - 1 /\ (x < y => i # x)
BY SMT

LEMMA Stretch ==
  ASSUME NEW x \in Nat, NEW y \in Nat, NEW z \in Nat, NEW i \in x .. z - 1,
         y <= z, z <= y + 1
  PROVE  i \in x .. y - 1 \/ (i = y /\ y < z)
BY SMT

LEMMA OneMore ==
  ASSUME NEW q \in 0 .. RxNum, q < RxNum
  PROVE  q \in 0 .. RxNum - 1 /\ q + 1 \in 0 .. RxNum /\ q # q + 1 /\ q \in 0 .. q
BY SMT

LEMMA PartBytes ==
  ASSUME NEW s \in Seq(Nat), NEW f \in Frame, NEW o \in Nat, NEW n \in 0 .. Len(s),
         o + n <= f.size, Part(s, f, o)
  PROVE  Bytes(s, n) = Run(f.first - 1 + o, n)
<1>1. f.first \in Nat /\ f.first > 0 /\ f.size \in Nat /\ Len(s) \in Nat /\ n \in Nat
  BY FrameFacts, SMT
<1>2. ASSUME NEW i \in 1 .. n
      PROVE  (IF i <= Len(s) THEN s[i] ELSE 0) = f.first - 1 + o + i
  <2>1. i \in 1 .. Len(s) /\ i <= Len(s) /\ o + i <= f.size
    BY <1>1, SMT
  <2>2. s[i] = f.first + (o + i) - 1
    BY <2>1, Zenon DEF Part, ByteAt
  <2>. QED  BY <1>1, <2>1, <2>2, SMT
<1>. QED  BY <1>2, Zenon DEF Bytes, Run

LEMMA PartMore ==
  ASSUME NEW s \in Seq(Nat), NEW t \in Seq(Nat), NEW f, NEW o \in Nat, Part(s, f, o),
         \A i \in 1 .. Len(t) : t[i] = ByteAt(f, o + Len(s) + i)
  PROVE  Part(s \o t, f, o)
<1>1. Len(s) \in Nat /\ Len(t) \in Nat /\ Len(s \o t) = Len(s) + Len(t)
  BY SMT
<1>2. /\ \A i \in 1 .. Len(s) : (s \o t)[i] = s[i]
      /\ \A i \in 1 .. Len(t) : (s \o t)[Len(s) + i] = t[i]
  BY SMTT(30)
<1>3. ASSUME NEW i \in 1 .. Len(s \o t)
      PROVE  (s \o t)[i] = ByteAt(f, o + i)
  <2>1. CASE i <= Len(s)
    <3>1. i \in 1 .. Len(s)
      BY <1>1, <2>1, SMT
    <3>. QED  BY <1>2, <3>1, Zenon DEF Part
  <2>2. CASE ~(i <= Len(s))
    <3>1. PICK j \in 1 .. Len(t) : i = Len(s) + j /\ o + i = o + Len(s) + j
      <4>1. i - Len(s) \in 1 .. Len(t) /\ i = Len(s) + (i - Len(s))
            /\ o + i = o + Len(s) + (i - Len(s))
        BY <1>1, <2>2, SMT
      <4>. QED  BY <4>1
    <3>. QED  BY <1>2, <3>1, Zenon
  <2>. QED  BY <2>1, <2>2
<1>. QED  BY <1>3, Zenon DEF Part

LEMMA PartGrow ==
  ASSUME NEW s, NEW f \in Frame, NEW g \in Frame, NEW o \in Nat, Len(s) \in Nat,
         Part(s, f, o), o + Len(s) <= f.size, g.first = f.first, f.size <= g.size
  PROVE  Part(s, g, o)
<1>1. f.size \in Nat /\ g.size \in Nat
  BY FrameFacts
<1>2. ASSUME NEW i \in 1 .. Len(s)
      PROVE  s[i] = ByteAt(g, o + i)
  <2>1. o + i <= f.size /\ o + i <= g.size
    BY <1>1, SMT
  <2>. QED  BY <2>1, Zenon DEF Part, ByteAt
<1>. QED  BY <1>2, Zenon DEF Part

-----------------------------------------------------------------------------
(* The ring holds consecutive frames *)

(* A finished descriptor d holds bytes of frame f of the frames A, those     *)
(* after its first o; the descriptor after it those of frame g after c.      *)
Filled(d, A, f, o, g, c) ==
  /\ Part(d.data, A[f], o) /\ d.count = RxSize
  /\ d.fe => /\ g = f + 1 /\ c = 0
             /\ d.cnt = A[f].size /\ A[f].size <= o + Len(d.data)
  /\ ~d.fe => g = f /\ c = o + RxSize /\ Len(d.data) = RxSize

(* Of the n frames A, the last of which is on the line, the ring r holds from *)
(* u on in q finished descriptors and the one after them those up to byte b   *)
(* of frame fr[q]: the k-th one begins after byte of[k] of frame fr[k].       *)
InRange(A, n, q, fr, of) ==
  \A k \in 0 .. q : /\ fr[k] \in 1 .. n /\ of[k] <= A[fr[k]].size
                    /\ fr[k] < n => of[k] < A[fr[k]].size
AllFilled(A, r, u, q, fr, of) ==
  \A k \in 0 .. q - 1 :
    Filled(r[RingAt(RxNum, u, k)], A, fr[k], of[k], fr[k + 1], of[k + 1])
Ascending(r, u, q, fr) ==
  \A j, k \in 0 .. q :
    j < k => fr[j] <= fr[k] /\ (r[RingAt(RxNum, u, j)].fe => fr[j] < fr[k])
Ended(r, u, q, fr) ==
  \A f \in fr[0] .. fr[q] - 1 :
    \E k \in 0 .. q - 1 : fr[k] = f /\ r[RingAt(RxNum, u, k)].fe
Part1(d, f, o, b) ==
  Part(d.data, f, o) /\ Len(d.data) = d.cnt /\ b = o + d.cnt /\ d.count = RxSize
RestOK(A, r, u, q, fr, of, b) ==
  /\ q < RxNum => Part1(r[RingAt(RxNum, u, q)], A[fr[q]], of[q], b)
  /\ q = RxNum => b = of[q]
  /\ \A k \in q + 1 .. RxNum - 1 : Unused(r[RingAt(RxNum, u, k)])
  /\ b % 4 = 0 /\ b <= WordBytes(A[fr[q]].size) /\ of[q] \in Fills
InFrames(A, n, r, u, q, fr, of, b) ==
  /\ InRange(A, n, q, fr, of) /\ AllFilled(A, r, u, q, fr, of)
  /\ Ascending(r, u, q, fr) /\ Ended(r, u, q, fr)
  /\ RestOK(A, r, u, q, fr, of, b)

(* The frame on the line grows to be the last of the m frames G, or they     *)
(* have one more.                                                            *)
Grows(A, n, G, m) ==
  /\ m \in {n, n + 1}
  /\ \A f \in 1 .. n - 1 : G[f] = A[f]
  /\ G[n].first = A[n].first /\ A[n].size <= G[n].size
  /\ m # n => A[n].size < G[n].size
  /\ A[n].size % 4 = 0

LEMMA RingGrows ==
  ASSUME NEW n \in Nat \ {0}, NEW m \in Nat, NEW A \in [1 .. n -> Frame],
         NEW G \in [1 .. m -> Frame], Grows(A, n, G, m), NEW r \in [Position -> DescType],
         NEW u \in Position, NEW q \in 0 .. RxNum, NEW fr \in [0 .. RxNum -> Nat],
         NEW of \in [0 .. RxNum -> Nat], NEW b \in Nat, InFrames(A, n, r, u, q, fr, of, b)
  PROVE  InFrames(G, m, r, u, q, fr, of, b)
<1>1. /\ n \in 1 .. n /\ n \in 1 .. m /\ m >= n
      /\ A[n].size \in Nat /\ G[n].size \in Nat /\ A[n] \in Frame /\ G[n] \in Frame
  <2>1. n \in 1 .. n /\ n \in 1 .. m /\ m >= n
    BY SMT DEF Grows
  <2>. QED  BY <2>1, FrameFacts, Zenon
<1>2. ASSUME NEW f \in 1 .. n
      PROVE  /\ f # n => f \in 1 .. n - 1 /\ f < n
             /\ f + 1 \in 1 .. n => f # n
             /\ f \in 1 .. m
             /\ f = n /\ f < m => m # n
  BY <1>1, Among, Zenon
<1>3. ASSUME NEW k \in 0 .. q
      PROVE  /\ k \in 0 .. RxNum /\ fr[k] \in 1 .. n /\ of[k] \in Nat
             /\ A[fr[k]] \in Frame
             /\ fr[k] # n => fr[k] \in 1 .. n - 1 /\ G[fr[k]] = A[fr[k]] /\ fr[k] < n
  <2>1. k \in 0 .. RxNum
    BY SMT
  <2>2. fr[k] \in 1 .. n
    BY Zenon DEF InFrames, InRange
  <2>. QED  BY <1>2, <2>1, <2>2, Zenon DEF Grows
<1>4. InRange(G, m, q, fr, of)
  <2>. SUFFICES ASSUME NEW k \in 0 .. q
                PROVE  /\ fr[k] \in 1 .. m /\ of[k] <= G[fr[k]].size
                       /\ fr[k] < m => of[k] < G[fr[k]].size
    BY Zenon DEF InRange
  <2>1. /\ of[k] <= A[fr[k]].size
        /\ fr[k] < n => of[k] < A[fr[k]].size
    BY Zenon DEF InFrames, InRange
  <2>2. PICK f \in 1 .. n, o \in Nat : f = fr[k] /\ o = of[k]
    BY <1>3
  <2>3. /\ o <= A[f].size
        /\ f < n => o < A[f].size
        /\ f # n => G[f] = A[f]
    BY <1>3, <2>1, <2>2
  <2>4. o <= G[f].size /\ (f < m => o < G[f].size)
    <3>1. CASE f = n
      <4>1. /\ o \in Nat /\ A[n].size \in Nat /\ G[n].size \in Nat /\ A[n].size <= G[n].size
            /\ o <= A[n].size
            /\ f < m => A[n].size < G[n].size
        BY <1>1, <1>2, <2>3, <3>1, Zenon DEF Grows
      <4>. QED  BY <3>1, <4>1, Below, Zenon
    <3>2. CASE f # n
      BY <1>2, <2>3, <3>2, Zenon
    <3>. QED  BY <3>1, <3>2
  <2>. QED  BY <1>2, <2>2, <2>4, Zenon
<1>5. ASSUME NEW s, NEW k \in 0 .. q, Part(s, A[fr[k]], of[k]), Len(s) \in Nat,
             fr[k] = n => of[k] + Len(s) <= A[n].size
      PROVE  Part(s, G[fr[k]], of[k])
  <2>1. CASE fr[k] = n
    BY <1>1, <1>3, <1>5, <2>1, PartGrow, Zenon DEF Grows
  <2>2. CASE fr[k] # n
    BY <1>3, <1>5, <2>2, Zenon
  <2>. QED  BY <2>1, <2>2
<1>6. AllFilled(G, r, u, q, fr, of)
  <2>. SUFFICES ASSUME NEW k \in 0 .. q - 1
                PROVE  Filled(r[RingAt(RxNum, u, k)], G, fr[k], of[k], fr[k + 1], of[k + 1])
    BY Zenon DEF AllFilled
  <2>0. k \in 0 .. q /\ k + 1 \in 0 .. q /\ k \in 0 .. RxNum - 1
    BY SMT
  <2>. DEFINE d == r[RingAt(RxNum, u, k)]
  <2>1. Filled(d, A, fr[k], of[k], fr[k + 1], of[k + 1])
    BY Zenon DEF InFrames, AllFilled
  <2>3. Len(d.data) \in Nat
    <3>1. d \in DescType
      BY <2>0, Places0, Zenon
    <3>. QED  BY <3>1, DescFacts, Zenon
  <2>. HIDE DEF d
  <2>4. CASE d.fe
    <3>1. fr[k] # n
      <4>1. fr[k + 1] = fr[k] + 1 /\ fr[k + 1] \in 1 .. n /\ fr[k] \in 1 .. n
        BY <1>3, <2>0, <2>1, <2>4, Zenon DEF Filled
      <4>. QED  BY <1>2, <4>1, Zenon
    <3>. QED  BY <1>3, <2>0, <2>1, <3>1, Zenon DEF Filled, d
  <2>5. CASE ~d.fe
    <3>1. /\ fr[k + 1] = fr[k] /\ of[k + 1] = of[k] + RxSize /\ Len(d.data) = RxSize
          /\ Part(d.data, A[fr[k]], of[k])
      BY <2>1, <2>5, Zenon DEF Filled
    <3>2. of[k + 1] <= A[fr[k + 1]].size
      BY <2>0, Zenon DEF InFrames, InRange
    <3>3. Part(d.data, G[fr[k]], of[k])
      BY <1>5, <2>0, <2>3, <3>1, <3>2, Zenon
    <3>. QED  BY <2>1, <2>5, <3>3, Zenon DEF Filled, d
  <2>. QED  BY <2>4, <2>5
<1>7. RestOK(G, r, u, q, fr, of, b)
  <2>0. q \in 0 .. q
    BY SMT
  <2>1. b <= WordBytes(G[fr[q]].size)
    <3>1. CASE fr[q] = n
      <4>1. WordBytes(A[n].size) <= WordBytes(G[n].size)
        BY <1>1, WordOrder, Zenon DEF Grows
      <4>2. b <= WordBytes(A[n].size) /\ WordBytes(A[n].size) \in Nat
            /\ WordBytes(G[n].size) \in Nat
        BY <1>1, <3>1, WordFacts, Zenon DEF InFrames, RestOK
      <4>. QED  BY <3>1, <4>1, <4>2, SMT
    <3>2. CASE fr[q] # n
      BY <1>3, <2>0, <3>2, Zenon DEF InFrames, RestOK
    <3>. QED  BY <3>1, <3>2
  <2>2. ASSUME q < RxNum
        PROVE  Part1(r[RingAt(RxNum, u, q)], G[fr[q]], of[q], b)
    <3>. DEFINE d == r[RingAt(RxNum, u, q)]
    <3>1. Part1(d, A[fr[q]], of[q], b)
      BY <2>2, Zenon DEF InFrames, RestOK
    <3>2. d.cnt \in Nat
      <4>1. d \in DescType
        BY <2>2, Places0, Zenon
      <4>. QED  BY <4>1, Zenon DEF DescType
    <3>. HIDE DEF d
    <3>3. fr[q] = n => of[q] + Len(d.data) <= A[n].size
      <4>. SUFFICES ASSUME fr[q] = n PROVE of[q] + Len(d.data) <= A[n].size
        OBVIOUS
      <4>1. b <= WordBytes(A[n].size) /\ A[n].size % 4 = 0
        BY Zenon DEF InFrames, RestOK, Grows
      <4>2. WordBytes(A[n].size) = A[n].size
        BY <1>1, <4>1, WordFacts, Zenon
      <4>. QED  BY <3>1, <4>1, <4>2, Zenon DEF Part1
    <3>4. Part(d.data, G[fr[q]], of[q])
      BY <1>5, <2>0, <3>1, <3>2, <3>3, Zenon DEF Part1
    <3>. QED  BY <3>1, <3>4, Zenon DEF Part1, d
  <2>. QED  BY <2>1, <2>2, Zenon DEF InFrames, RestOK
<1>. QED  BY <1>4, <1>6, <1>7, Zenon DEF InFrames

(* The ring s is r with the descriptor at u given back; the k-th descriptor  *)
(* is then the one that was k + 1.                                           *)
Given(s, r, u, fr, of, g, c) ==
  /\ Unused(s[u]) /\ \A p \in Position \ {u} : s[p] = r[p]
  /\ \A k \in 0 .. RxNum - 1 : g[k] = fr[k + 1] /\ c[k] = of[k + 1]

LEMMA FramesGiveBack ==
  ASSUME NEW n \in Nat, NEW A, NEW r, NEW s, NEW u \in Position, NEW q \in 0 .. RxNum, 0 < q,
         NEW fr \in [0 .. RxNum -> Nat], NEW of \in [0 .. RxNum -> Nat], NEW b \in Nat,
         InFrames(A, n, r, u, q, fr, of, b), NEW g, NEW c, Given(s, r, u, fr, of, g, c)
  PROVE  InFrames(A, n, s, RingNext(RxNum, u), q - 1, g, c, b)
<1>0. /\ Unused(s[u]) /\ \A p \in Position \ {u} : s[p] = r[p]
      /\ \A k \in 0 .. RxNum - 1 : g[k] = fr[k + 1] /\ c[k] = of[k + 1]
  BY Zenon DEF Given
<1>. USE <1>0
<1>. DEFINE v == RingNext(RxNum, u)
<1>1. /\ \A k \in 0 .. RxNum - 1 : RingAt(RxNum, v, k) = RingAt(RxNum, u, k + 1)
      /\ RingAt(RxNum, u, RxNum) = u
      /\ \A k \in 1 .. RxNum - 1 : RingAt(RxNum, u, k) \in Position \ {u}
  BY RingFacts, PlacesAhead, Zenon
<1>. HIDE DEF v
<1>2. \A k \in 0 .. RxNum - 2 : k \in 0 .. RxNum - 1 /\ k + 1 \in 1 .. RxNum - 1
  BY SMT
<1>3. \A k \in 0 .. RxNum - 2 : s[RingAt(RxNum, v, k)] = r[RingAt(RxNum, u, k + 1)]
  BY <1>1, <1>2, Zenon
<1>4. Unused(s[RingAt(RxNum, v, RxNum - 1)])
  <2>1. RxNum - 1 \in 0 .. RxNum - 1 /\ (RxNum - 1) + 1 = RxNum
    BY SMT
  <2>. QED  BY <1>1, <2>1, Zenon
<1>5. ASSUME NEW k \in 0 .. q - 1
      PROVE  k \in 0 .. RxNum - 1 /\ k + 1 \in 0 .. q /\ g[k] = fr[k + 1] /\ c[k] = of[k + 1]
  <2>1. k \in 0 .. RxNum - 1 /\ k + 1 \in 0 .. q
    BY SMT
  <2>. QED  BY <2>1
<1>6. InRange(A, n, q - 1, g, c)
  BY <1>5, Zenon DEF InFrames, InRange
<1>7. AllFilled(A, s, v, q - 1, g, c)
  <2>. SUFFICES ASSUME NEW k \in 0 .. (q - 1) - 1
                PROVE  Filled(s[RingAt(RxNum, v, k)], A, g[k], c[k], g[k + 1], c[k + 1])
    BY Zenon DEF AllFilled
  <2>1. /\ k \in 0 .. RxNum - 2 /\ k \in 0 .. q - 1 /\ k + 1 \in 0 .. q - 1
    BY SMT
  <2>2. Filled(r[RingAt(RxNum, u, k + 1)], A, fr[k + 1], of[k + 1],
               fr[(k + 1) + 1], of[(k + 1) + 1])
    BY <2>1, Zenon DEF InFrames, AllFilled
  <2>. QED  BY <1>3, <1>5, <2>1, <2>2, Zenon
<1>8. Ascending(s, v, q - 1, g)
  <2>. SUFFICES ASSUME NEW j \in 0 .. q - 1, NEW k \in 0 .. q - 1, j < k
                PROVE  g[j] <= g[k] /\ (s[RingAt(RxNum, v, j)].fe => g[j] < g[k])
    BY Zenon DEF Ascending
  <2>1. j \in 0 .. RxNum - 2 /\ j + 1 \in 0 .. q /\ k + 1 \in 0 .. q /\ j + 1 < k + 1
    BY SMT
  <2>2. fr[j + 1] <= fr[k + 1]
        /\ (r[RingAt(RxNum, u, j + 1)].fe => fr[j + 1] < fr[k + 1])
    BY <2>1, Zenon DEF InFrames, Ascending
  <2>. QED  BY <1>3, <1>5, <2>1, <2>2, Zenon
<1>9. Ended(s, v, q - 1, g)
  <2>. SUFFICES ASSUME NEW f \in g[0] .. g[q - 1] - 1
                PROVE  \E k \in 0 .. (q - 1) - 1 : g[k] = f /\ s[RingAt(RxNum, v, k)].fe
    BY Zenon DEF Ended
  <2>1. g[0] = fr[1] /\ g[q - 1] = fr[q]
    <3>1. 0 \in 0 .. q - 1 /\ q - 1 \in 0 .. q - 1 /\ 0 + 1 = 1 /\ (q - 1) + 1 = q
      BY SMT
    <3>. QED  BY <1>5, <3>1, Zenon
  <2>2. /\ 0 \in 0 .. q /\ 1 \in 0 .. q /\ 0 < 1 /\ fr[0] \in Nat /\ fr[1] \in Nat
        /\ fr[q] \in Nat
    <3>1. 0 \in 0 .. q /\ 1 \in 0 .. q /\ 0 < 1 /\ 0 \in 0 .. RxNum /\ 1 \in 0 .. RxNum
      BY SMT
    <3>. QED  BY <3>1, Zenon
  <2>3. fr[0] <= fr[1] /\ (r[RingAt(RxNum, u, 0)].fe => fr[0] < fr[1])
    BY <2>2, Zenon DEF InFrames, Ascending
  <2>4. /\ f \in fr[0] .. fr[q] - 1
        /\ r[RingAt(RxNum, u, 0)].fe => f # fr[0]
    <3>1. f \in fr[1] .. fr[q] - 1
      BY <2>1
    <3>2. f \in fr[0] .. fr[q] - 1 /\ (fr[0] < fr[1] => f # fr[0])
      BY <2>2, <2>3, <3>1, Between, Zenon
    <3>. QED  BY <2>3, <3>2, Zenon
  <2>5. PICK k \in 0 .. q - 1 : fr[k] = f /\ r[RingAt(RxNum, u, k)].fe
    BY <2>4, Zenon DEF InFrames, Ended
  <2>6. k # 0
    BY <2>4, <2>5, Zenon
  <2>7. PICK j \in 0 .. (q - 1) - 1 : k = j + 1 /\ j \in 0 .. RxNum - 2 /\ j \in 0 .. q - 1
    <3>1. k - 1 \in 0 .. (q - 1) - 1 /\ k = (k - 1) + 1 /\ k - 1 \in 0 .. RxNum - 2
          /\ k - 1 \in 0 .. q - 1
      BY <2>6, SMT
    <3>. QED  BY <3>1
  <2>8. g[j] = f /\ s[RingAt(RxNum, v, j)].fe
    BY <1>3, <1>5, <2>5, <2>7, Zenon
  <2>. QED  BY <2>8
<1>10. RestOK(A, s, v, q - 1, g, c, b)
  <2>1. /\ q - 1 \in 0 .. q - 1 /\ (q - 1) + 1 = q /\ q - 1 < RxNum /\ q - 1 # RxNum
    BY SMT
  <2>2. g[q - 1] = fr[q] /\ c[q - 1] = of[q]
    BY <1>5, <2>1, Zenon
  <2>3. Part1(s[RingAt(RxNum, v, q - 1)], A[fr[q]], of[q], b)
    <3>1. CASE q = RxNum
      <4>1. Unused(s[RingAt(RxNum, v, q - 1)]) /\ b = of[q]
        BY <1>4, <3>1, Zenon DEF InFrames, RestOK
      <4>. QED  BY <4>1, SMT DEF Unused, Part1, Part
    <3>2. CASE q # RxNum
      <4>1. q < RxNum /\ q - 1 \in 0 .. RxNum - 2
        BY <3>2, SMT
      <4>. QED  BY <1>3, <2>1, <4>1, Zenon DEF InFrames, RestOK
    <3>. QED  BY <3>1, <3>2
  <2>4. ASSUME NEW k \in (q - 1) + 1 .. RxNum - 1
        PROVE  Unused(s[RingAt(RxNum, v, k)])
    <3>1. CASE k = RxNum - 1
      BY <1>4, <3>1, Zenon
    <3>2. CASE k # RxNum - 1
      <4>1. k \in 0 .. RxNum - 2 /\ k + 1 \in q + 1 .. RxNum - 1
        BY <3>2, SMT
      <4>. QED  BY <1>3, <4>1, Zenon DEF InFrames, RestOK
    <3>. QED  BY <3>1, <3>2
  <2>. QED  BY <2>1, <2>2, <2>3, <2>4, Zenon DEF InFrames, RestOK
<1>. QED  BY <1>6, <1>7, <1>8, <1>9, <1>10, Zenon DEF InFrames, v

(* The tasklet adds to the descriptor at its index.                          *)
LEMMA FramesFill ==
  ASSUME NEW n \in Nat, NEW A, NEW r, NEW s, NEW u \in Position, NEW q \in 0 .. RxNum,
         q < RxNum, NEW fr, NEW of, NEW b, NEW z, InFrames(A, n, r, u, q, fr, of, b),
         NEW f, f = RingAt(RxNum, u, q), Part1(s[f], A[fr[q]], of[q], z),
         z % 4 = 0, z <= WordBytes(A[fr[q]].size), \A p \in Position \ {f} : s[p] = r[p]
  PROVE  InFrames(A, n, s, u, q, fr, of, z)
<1>1. q \in 0 .. RxNum - 1 /\ q # RxNum
  BY SMT
<1>2. ASSUME NEW k \in 0 .. RxNum - 1, k # q
      PROVE  s[RingAt(RxNum, u, k)] = r[RingAt(RxNum, u, k)]
  BY <1>1, <1>2, Places0, RingInjective, Zenon
<1>3. /\ \A k \in 0 .. q - 1 : k \in 0 .. RxNum - 1 /\ k # q
      /\ \A k \in q + 1 .. RxNum - 1 : k \in 0 .. RxNum - 1 /\ k # q
      /\ \A j, k \in 0 .. q : j < k => j \in 0 .. q - 1
  BY SMT
<1>4. AllFilled(A, s, u, q, fr, of)
  BY <1>2, <1>3, Zenon DEF InFrames, AllFilled
<1>5. Ascending(s, u, q, fr)
  BY <1>2, <1>3, Zenon DEF InFrames, Ascending
<1>6. Ended(s, u, q, fr)
  <2>. SUFFICES ASSUME NEW x \in fr[0] .. fr[q] - 1
                PROVE  \E k \in 0 .. q - 1 : fr[k] = x /\ s[RingAt(RxNum, u, k)].fe
    BY Zenon DEF Ended
  <2>1. PICK k \in 0 .. q - 1 : fr[k] = x /\ r[RingAt(RxNum, u, k)].fe
    BY Zenon DEF InFrames, Ended
  <2>. QED  BY <1>2, <1>3, <2>1, Zenon
<1>7. RestOK(A, s, u, q, fr, of, z)
  BY <1>1, <1>2, <1>3, Zenon DEF InFrames, RestOK
<1>. QED  BY <1>4, <1>5, <1>6, <1>7, Zenon DEF InFrames

(* The tasklet finishes it, and the one after it is the next to fill.        *)
LEMMA FramesFinish ==
  ASSUME NEW n \in Nat, NEW A \in [1 .. n -> Frame], NEW r, NEW s, NEW u \in Position,
         NEW q \in 0 .. RxNum, q < RxNum, NEW fr \in [0 .. RxNum -> Nat],
         NEW of \in [0 .. RxNum -> Nat], NEW b, InFrames(A, n, r, u, q, fr, of, b),
         NEW f, f = RingAt(RxNum, u, q), \A p \in Position \ {f} : s[p] = r[p],
         NEW g \in 1 .. n, NEW c \in Nat, Filled(s[f], A, fr[q], of[q], g, c),
         c <= A[g].size, g < n => c < A[g].size, c % 4 = 0, c \in Fills
  PROVE  InFrames(A, n, s, u, q + 1, [fr EXCEPT ![q + 1] = g], [of EXCEPT ![q + 1] = c], c)
<1>. DEFINE h == [fr EXCEPT ![q + 1] = g]
            o == [of EXCEPT ![q + 1] = c]
<1>0. q \in 0 .. RxNum - 1 /\ q + 1 \in 0 .. RxNum /\ q # q + 1 /\ q \in 0 .. q
  BY OneMore
<1>1. /\ h[q + 1] = g /\ o[q + 1] = c
      /\ \A k \in 0 .. q : k # q + 1 /\ k \in 0 .. RxNum
  BY <1>0, SMT
<1>2. \A k \in 0 .. q : h[k] = fr[k] /\ o[k] = of[k]
  BY <1>1, Zenon
<1>. HIDE DEF h, o
<1>3. ASSUME NEW k \in 0 .. RxNum - 1, k # q
      PROVE  s[RingAt(RxNum, u, k)] = r[RingAt(RxNum, u, k)]
  BY <1>0, <1>3, Places0, RingInjective, Zenon
<1>4. /\ \A k \in 0 .. q + 1 : k \in 0 .. q \/ k = q + 1
      /\ \A k \in 0 .. (q + 1) - 1 : k \in 0 .. q - 1 \/ k = q
      /\ \A k \in 0 .. q - 1 : k \in 0 .. q /\ k + 1 \in 0 .. q /\ k \in 0 .. RxNum - 1 /\ k # q
      /\ \A k \in 0 .. q : k \in 0 .. q - 1 \/ k = q
  BY SMT
<1>5. InRange(A, n, q + 1, h, o)
  BY <1>1, <1>2, <1>4, Zenon DEF InFrames, InRange
<1>6. AllFilled(A, s, u, q + 1, h, o)
  <2>. SUFFICES ASSUME NEW k \in 0 .. (q + 1) - 1
                PROVE  Filled(s[RingAt(RxNum, u, k)], A, h[k], o[k], h[k + 1], o[k + 1])
    BY Zenon DEF AllFilled
  <2>1. CASE k = q
    BY <1>0, <1>1, <1>2, <2>1, Zenon
  <2>2. CASE k # q
    BY <1>2, <1>3, <1>4, <2>2, Zenon DEF InFrames, AllFilled
  <2>. QED  BY <2>1, <2>2
<1>7. /\ fr[q] \in Nat /\ fr[0] \in Nat /\ g \in Nat /\ fr[q] <= g /\ g <= fr[q] + 1
      /\ s[f].fe => fr[q] < g
      /\ ~s[f].fe => g = fr[q]
  <2>1. fr[q] \in Nat /\ fr[0] \in Nat /\ g \in Nat /\ 0 \in 0 .. RxNum
    BY <1>0, SMT
  <2>2. (s[f].fe => g = fr[q] + 1) /\ (~s[f].fe => g = fr[q])
    BY Zenon DEF Filled
  <2>3. \A x \in Nat : x <= x /\ x <= x + 1 /\ x < x + 1 /\ x + 1 <= x + 1
    BY SMT
  <2>. QED  BY <2>1, <2>2, <2>3, Zenon
<1>8. Ascending(s, u, q + 1, h)
  <2>. SUFFICES ASSUME NEW j \in 0 .. q + 1, NEW k \in 0 .. q + 1, j < k
                PROVE  h[j] <= h[k] /\ (s[RingAt(RxNum, u, j)].fe => h[j] < h[k])
    BY Zenon DEF Ascending
  <2>1. j \in 0 .. q /\ (k \in 0 .. q => j \in 0 .. q - 1)
    BY SMT
  <2>2. ASSUME j \in 0 .. q - 1
        PROVE  /\ j < q /\ s[RingAt(RxNum, u, j)] = r[RingAt(RxNum, u, j)] /\ fr[j] \in Nat
               /\ fr[j] <= fr[q] /\ (r[RingAt(RxNum, u, j)].fe => fr[j] < fr[q])
    <3>1. j < q /\ j \in 0 .. RxNum
      BY <2>2, SMT
    <3>2. fr[j] <= fr[q] /\ (r[RingAt(RxNum, u, j)].fe => fr[j] < fr[q])
      BY <1>0, <2>1, <3>1, Zenon DEF InFrames, Ascending
    <3>. QED  BY <1>3, <1>4, <2>2, <3>1, <3>2, Zenon
  <2>3. CASE k \in 0 .. q
    <3>1. fr[j] <= fr[k] /\ (r[RingAt(RxNum, u, j)].fe => fr[j] < fr[k])
      BY <2>1, <2>3, Zenon DEF InFrames, Ascending
    <3>. QED  BY <1>2, <2>1, <2>2, <2>3, <3>1, Zenon
  <2>4. CASE k = q + 1
    <3>1. CASE j = q
      BY <1>0, <1>1, <1>2, <1>7, <2>4, <3>1, Zenon
    <3>2. CASE j # q
      <4>1. j \in 0 .. q - 1
        BY <1>4, <2>1, <3>2, Zenon
      <4>2. fr[j] <= g /\ (r[RingAt(RxNum, u, j)].fe => fr[j] < g)
        BY <1>7, <2>2, <4>1, Below, Zenon
      <4>. QED  BY <1>1, <1>2, <2>1, <2>2, <2>4, <4>1, <4>2, Zenon
    <3>. QED  BY <3>1, <3>2
  <2>. QED  BY <1>4, <2>3, <2>4
<1>9. Ended(s, u, q + 1, h)
  <2>. SUFFICES ASSUME NEW x \in h[0] .. h[q + 1] - 1
                PROVE  \E k \in 0 .. (q + 1) - 1 : h[k] = x /\ s[RingAt(RxNum, u, k)].fe
    BY Zenon DEF Ended
  <2>0. 0 \in 0 .. q /\ \A k \in 0 .. q : k \in 0 .. (q + 1) - 1
    BY SMT
  <2>1. x \in fr[0] .. g - 1
    BY <1>1, <1>2, <2>0, Zenon
  <2>2. x \in fr[0] .. fr[q] - 1 \/ (x = fr[q] /\ fr[q] < g)
    <3>1. /\ fr[q] \in Nat /\ fr[0] \in Nat /\ g \in Nat /\ fr[q] <= g /\ g <= fr[q] + 1
      BY <1>7
    <3>. QED  BY <2>1, <3>1, Stretch, Zenon
  <2>3. CASE x \in fr[0] .. fr[q] - 1
    <3>1. PICK k \in 0 .. q - 1 : fr[k] = x /\ r[RingAt(RxNum, u, k)].fe
      BY <2>3, Zenon DEF InFrames, Ended
    <3>. QED  BY <1>2, <1>3, <1>4, <2>0, <3>1, Zenon
  <2>4. CASE x = fr[q] /\ fr[q] < g
    <3>1. s[f].fe
      <4>1. fr[q] < g => g # fr[q]
        BY <1>7, SMT
      <4>. QED  BY <1>7, <2>4, <4>1, Zenon
    <3>. QED  BY <1>0, <1>2, <2>0, <2>4, <3>1, Zenon
  <2>. QED  BY <2>2, <2>3, <2>4
<1>10. RestOK(A, s, u, q + 1, h, o, c)
  <2>1. ASSUME q + 1 < RxNum
        PROVE  Part1(s[RingAt(RxNum, u, q + 1)], A[g], c, c)
    <3>1. q + 1 \in q + 1 .. RxNum - 1 /\ q + 1 \in 0 .. RxNum - 1
      BY <2>1, SMT
    <3>2. Unused(s[RingAt(RxNum, u, q + 1)])
      BY <1>0, <1>3, <3>1, Zenon DEF InFrames, RestOK
    <3>. QED  BY <3>2, SMT DEF Unused, Part1, Part
  <2>2. ASSUME NEW k \in (q + 1) + 1 .. RxNum - 1
        PROVE  Unused(s[RingAt(RxNum, u, k)])
    <3>1. k \in q + 1 .. RxNum - 1 /\ k \in 0 .. RxNum - 1 /\ k # q
      BY SMT
    <3>. QED  BY <1>3, <3>1, Zenon DEF InFrames, RestOK
  <2>3. c <= WordBytes(A[g].size)
    <3>1. A[g].size \in Nat
      BY FrameFacts, Zenon
    <3>2. /\ WordBytes(A[g].size) \in Nat /\ A[g].size <= WordBytes(A[g].size)
          /\ c <= A[g].size
      BY <3>1, WordFacts, Zenon
    <3>. QED  BY <3>1, <3>2, Below, Zenon
  <2>. QED  BY <1>1, <2>1, <2>2, <2>3, Zenon DEF RestOK
<1>. QED  BY <1>5, <1>6, <1>8, <1>9, <1>10, Zenon DEF InFrames, h, o

(* A ring with nothing in it. *)
LEMMA FramesEmpty ==
  ASSUME NEW n \in Nat \ {0}, NEW A \in [1 .. n -> Frame], NEW r,
         r = [p \in Position |-> Free], NEW fr, fr[0] = n, NEW of, of[0] = 0
  PROVE  InFrames(A, n, r, 0, 0, fr, of, 0) /\ InRow(r, 0, 0, 0)
<1>1. /\ 0 \in Position /\ 0 \in 0 .. RxNum /\ 0 # RxNum /\ 0 < RxNum /\ 0 \in 0 .. RxNum - 1
      /\ n \in 1 .. n /\ ~(n < n) /\ 0 % 4 = 0
      /\ \A k \in 0 .. 0 : k = 0
      /\ \A j, k \in 0 .. 0 : ~(j < k)
      /\ \A k \in 0 .. 0 - 1 : FALSE
      /\ \A k \in n .. n - 1 : FALSE
      /\ \A k \in 0 + 1 .. RxNum - 1 : k \in 0 .. RxNum - 1
      /\ \A k \in 0 .. RxNum - 1 : ~(k < 0)
      /\ RingAt(RxNum, 0, 0) = 0
  BY SMT DEF RingAt
<1>2. \A k \in 0 .. RxNum - 1 : r[RingAt(RxNum, 0, k)] = Free
  BY <1>1, Places0, Zenon
<1>3. Unused(Free) /\ ~Free.cstop
  BY Zenon DEF Unused, Free
<1>4. A[n].size \in Nat /\ 0 <= A[n].size /\ 0 <= WordBytes(A[n].size)
  <2>1. A[n].size \in Nat /\ WordBytes(A[n].size) \in Nat
    BY <1>1, FrameFacts, WordFacts, Zenon
  <2>2. \A x \in Nat : 0 <= x
    BY SMT
  <2>. QED  BY <2>1, <2>2, Zenon
<1>5. 0 \in Fills
  BY SMT DEF Fills
<1>6. Part1(Free, A[n], 0, 0)
  BY SMT DEF Part1, Part, Free
<1>7. InRange(A, n, 0, fr, of)
  BY <1>1, <1>4, Zenon DEF InRange
<1>8. /\ AllFilled(A, r, 0, 0, fr, of) /\ Ascending(r, 0, 0, fr) /\ Ended(r, 0, 0, fr)
  BY <1>1, Zenon DEF AllFilled, Ascending, Ended
<1>9. RestOK(A, r, 0, 0, fr, of, 0)
  BY <1>1, <1>2, <1>3, <1>4, <1>5, <1>6, Zenon DEF RestOK
<1>. QED  BY <1>1, <1>2, <1>3, <1>7, <1>8, <1>9, Zenon DEF InFrames, InRow

-----------------------------------------------------------------------------
(* The receive FIFO holds the frames after them *)

(* Byte i of the words from the beginning of frame f on is w.                *)
FifoByte(f, w, i) ==
  /\ i <= WordBytes(f.size) => w = ByteAt(f, i)
  /\ w = 0 \/ f.first <= w

(* Of the n frames A the FIFO s holds those from frame m on, of which b bytes *)
(* have been moved: the words of frame f begin after place p[f].              *)
InCard(A, n, s, m, b, p) ==
  /\ p[m] = 0 - b
  /\ \A f \in m .. n - 1 : p[f + 1] = p[f] + WordBytes(A[f].size)
  /\ Len(s) = p[n] + A[n].size
  /\ \A f, g \in m .. n : f < g => p[f] + WordBytes(A[f].size) <= p[g]
  /\ \A f \in m .. n : \A i \in 1 .. Len(s) : p[f] < i => FifoByte(A[f], s[i], i - p[f])

LEMMA RestFacts ==
  ASSUME NEW s \in Seq(Nat), NEW w \in 0 .. Len(s)
  PROVE  /\ Rest(s, w) \in Seq(Nat) /\ Len(Rest(s, w)) = Len(s) - w
         /\ Len(s) \in Nat /\ w \in Nat
         /\ \A i \in 1 .. Len(s) - w : Rest(s, w)[i] = s[w + i] /\ w + i \in 1 .. Len(s)
BY SMT DEF Rest

LEMMA DropArith ==
  ASSUME NEW x \in Int, NEW w \in Nat
  PROVE  /\ x - w \in Int
         /\ \A z \in Nat, y \in Int : x + z <= y => (x - w) + z <= y - w
         /\ \A i \in Nat : x - w < i => x < w + i
BY SMT

LEMMA DropSum ==
  ASSUME NEW x \in Int, NEW z \in Nat, NEW w \in Nat
  PROVE  (x + z) - w = (x - w) + z
BY SMT

LEMMA DropPlace ==
  ASSUME NEW x \in Int, NEW i \in Nat, NEW w \in Nat
  PROVE  i - (x - w) = (w + i) - x
BY SMT

(* The tasklet takes w bytes. *)
Dropped(A, n, s, w, k, c, p) == InCard(A, n, Rest(s, w), k, c, [f \in Nat |-> p[f] - w])

LEMMA CardDrop ==
  ASSUME NEW n \in Nat, NEW A \in [1 .. n -> Frame], NEW s \in Seq(Nat), NEW m \in 1 .. n,
         NEW b \in Nat, NEW p \in [Nat -> Int], InCard(A, n, s, m, b, p),
         NEW k \in {m, m + 1}, k \in 1 .. n, NEW w \in 0 .. Len(s), NEW c \in Nat,
         p[k] = w - c
  PROVE  Dropped(A, n, s, w, k, c, p)
<1>. DEFINE t == Rest(s, w)
            h == [f \in Nat |-> p[f] - w]
<1>1. /\ t \in Seq(Nat) /\ Len(t) = Len(s) - w /\ Len(s) \in Nat /\ w \in Nat
      /\ \A i \in 1 .. Len(s) - w : t[i] = s[w + i] /\ w + i \in 1 .. Len(s)
  BY RestFacts
<1>2. ASSUME NEW f \in k .. n
      PROVE  /\ f \in m .. n /\ f \in 1 .. n /\ f \in Nat /\ h[f] = p[f] - w /\ p[f] \in Int
             /\ A[f].size \in Nat /\ WordBytes(A[f].size) \in Nat
  <2>1. f \in m .. n /\ f \in 1 .. n /\ f \in Nat
    BY SMT
  <2>2. A[f].size \in Nat
    BY <2>1, FrameFacts, Zenon
  <2>. QED  BY <2>1, <2>2, WordFacts, Zenon
<1>. HIDE DEF t, h
<1>3. h[k] = 0 - c
  <2>1. k \in k .. n
    BY SMT
  <2>2. (w - c) - w = 0 - c
    BY <1>1, SMT
  <2>. QED  BY <1>2, <2>1, <2>2, Zenon
<1>4. \A f \in k .. n - 1 : h[f + 1] = h[f] + WordBytes(A[f].size)
  <2>. TAKE f \in k .. n - 1
  <2>1. f \in k .. n /\ f + 1 \in k .. n /\ f \in m .. n - 1
    BY SMT
  <2>2. p[f + 1] = p[f] + WordBytes(A[f].size)
    BY <2>1 DEF InCard
  <2>3. /\ h[f + 1] = p[f + 1] - w /\ h[f] = p[f] - w /\ w \in Nat
        /\ p[f] \in Int /\ p[f + 1] \in Int /\ WordBytes(A[f].size) \in Nat
    BY <1>1, <1>2, <2>1, Zenon
  <2>4. PICK x \in Int, z \in Nat : x = p[f] /\ z = WordBytes(A[f].size)
    BY <2>3
  <2>5. (x + z) - w = (x - w) + z
    BY <1>1, DropSum
  <2>. QED  BY <2>2, <2>3, <2>4, <2>5
<1>5. Len(t) = h[n] + A[n].size
  <2>1. n \in k .. n
    BY SMT
  <2>2. Len(s) = p[n] + A[n].size
    BY DEF InCard
  <2>3. /\ p[n] \in Int /\ A[n].size \in Nat /\ w \in Nat /\ h[n] = p[n] - w
    BY <1>1, <1>2, <2>1, Zenon
  <2>4. PICK x \in Int, z \in Nat : x = p[n] /\ z = A[n].size
    BY <2>3
  <2>5. (x + z) - w = (x - w) + z
    BY <1>1, DropSum
  <2>. QED  BY <1>1, <2>2, <2>3, <2>4, <2>5
<1>6. \A f, g \in k .. n : f < g => h[f] + WordBytes(A[f].size) <= h[g]
  <2>. SUFFICES ASSUME NEW f \in k .. n, NEW g \in k .. n, f < g
                PROVE  h[f] + WordBytes(A[f].size) <= h[g]
    OBVIOUS
  <2>1. p[f] + WordBytes(A[f].size) <= p[g]
    BY <1>2 DEF InCard
  <2>2. /\ p[f] \in Int /\ p[g] \in Int /\ WordBytes(A[f].size) \in Nat /\ w \in Nat
        /\ h[f] = p[f] - w /\ h[g] = p[g] - w
    BY <1>1, <1>2, Zenon
  <2>3. (p[f] - w) + WordBytes(A[f].size) <= p[g] - w
    BY <2>1, <2>2, DropArith, Zenon
  <2>. QED  BY <2>2, <2>3, Zenon
<1>7. ASSUME NEW f \in k .. n, NEW i \in 1 .. Len(t), h[f] < i
      PROVE  FifoByte(A[f], t[i], i - h[f])
  <2>1. i \in 1 .. Len(s) - w /\ i \in Nat
    <3>1. \A z \in Int : \A j \in 1 .. z : j \in Nat
      BY SMT
    <3>2. Len(s) - w \in Int
      BY <1>1, SMT
    <3>. QED  BY <1>1, <3>1, <3>2
  <2>2. p[f] < w + i /\ i - h[f] = (w + i) - p[f]
    <3>1. /\ p[f] \in Int /\ w \in Nat /\ i \in Nat /\ h[f] = p[f] - w /\ h[f] < i
      BY <1>1, <1>2, <1>7, <2>1, Zenon
    <3>2. p[f] - w < i => p[f] < w + i
      BY <3>1, DropArith, Zenon
    <3>3. i - (p[f] - w) = (w + i) - p[f]
      BY <3>1, DropPlace
    <3>. QED  BY <3>1, <3>2, <3>3, Zenon
  <2>3. FifoByte(A[f], s[w + i], (w + i) - p[f])
    BY <1>1, <1>2, <2>1, <2>2, Zenon DEF InCard
  <2>. QED  BY <1>1, <2>1, <2>2, <2>3, Zenon
<1>. QED  BY <1>3, <1>4, <1>5, <1>6, <1>7, Zenon DEF InCard, Dropped, t, h

(* The next word on the line: k bytes of the frame. *)
Word(e, k) == [i \in 1 .. 4 |-> IF i <= k THEN e + i ELSE 0]

(* The bytes t are those of s and a word with the k bytes after byte e.      *)
Longer(t, s, e, k) ==
  /\ Len(t) = Len(s) + 4
  /\ \A i \in 1 .. Len(s) : t[i] = s[i]
  /\ \A j \in 1 .. 4 : t[Len(s) + j] = IF j <= k THEN e + j ELSE 0

LEMMA WordConcat ==
  ASSUME NEW s \in Seq(Nat), NEW e \in Nat, NEW k \in 1 .. 4
  PROVE  /\ Word(e, k) \in Seq(Nat) /\ s \o Word(e, k) \in Seq(Nat)
         /\ Longer(s \o Word(e, k), s, e, k)
<1>. DEFINE v == Word(e, k)
<1>1. /\ v \in Seq(Nat) /\ Len(v) = 4
      /\ \A j \in 1 .. 4 : v[j] = IF j <= k THEN e + j ELSE 0
  BY SMT DEF Word
<1>. HIDE DEF v
<1>2. /\ s \o v \in Seq(Nat) /\ Len(s) \in Nat /\ Len(s \o v) = Len(s) + 4
      /\ \A i \in 1 .. Len(s) : (s \o v)[i] = s[i]
      /\ \A j \in 1 .. 4 : (s \o v)[Len(s) + j] = v[j]
  <2>1. /\ s \o v \in Seq(Nat) /\ Len(s) \in Nat
    BY <1>1, SMT
  <2>2. /\ Len(s \o v) = Len(s) + Len(v)
        /\ \A i \in 1 .. Len(s) + Len(v) :
             (s \o v)[i] = IF i <= Len(s) THEN s[i] ELSE v[i - Len(s)]
    BY <1>1, ConcatProperties, Zenon
  <2>3. /\ \A i \in 1 .. Len(s) : i \in 1 .. Len(s) + 4 /\ i <= Len(s)
        /\ \A j \in 1 .. 4 : /\ Len(s) + j \in 1 .. Len(s) + 4 /\ ~(Len(s) + j <= Len(s))
                             /\ (Len(s) + j) - Len(s) = j
    BY <2>1, SMT
  <2>. QED  BY <1>1, <2>1, <2>2, <2>3, Zenon
<1>. QED  BY <1>1, <1>2, Zenon DEF v, Longer

LEMMA FifoPlaces ==
  ASSUME NEW l \in Nat, NEW i \in 1 .. l + 4
  PROVE  i \in 1 .. l \/ \E j \in 1 .. 4 : i = l + j
<1>1. i \in 1 .. l \/ (i - l \in 1 .. 4 /\ i = l + (i - l))
  BY SMT
<1>. QED  BY <1>1

LEMMA PushArith ==
  ASSUME NEW z \in Nat, z % 4 = 0, NEW k \in 1 .. 4
  PROVE  WordBytes(z + k) = z + 4
BY SMT DEF WordBytes

LEMMA PushSum ==
  ASSUME NEW x \in Int, NEW z \in Nat, NEW k \in Nat
  PROVE  (x + z) + k = x + (z + k)
BY SMT

LEMMA PushBelow ==
  ASSUME NEW x \in Int, NEW z \in Nat, NEW y \in Int, NEW v \in Nat, x + z <= y
  PROVE  x + z <= (y + v) + 4
BY SMT

LEMMA PushPast ==
  ASSUME NEW x \in Int, NEW z \in Nat, NEW y \in Int, NEW v \in Nat, NEW j \in 1 .. 4,
         x + z <= y
  PROVE  ~(((y + v) + j) - x <= z)
BY SMT

LEMMA PushOld ==
  ASSUME NEW x \in Int, NEW z \in Nat, NEW i \in 1 .. x + z, NEW k \in 1 .. 4
  PROVE  i - x <= z /\ i - x <= z + k /\ i - x <= z + 4
BY SMT

LEMMA PushNew ==
  ASSUME NEW x \in Int, NEW z \in Nat, NEW f \in Nat \ {0}, NEW j \in 1 .. 4, NEW k \in 1 .. 4
  PROVE  /\ ((x + z) + j) - x <= z + k <=> j <= k
         /\ f + (((x + z) + j) - x) - 1 = (f + z - 1) + j
         /\ f <= (f + z - 1) + j
BY SMT

LEMMA PushMin ==
  ASSUME NEW f \in Nat \ {0}, NEW z \in Nat, NEW j \in 1 .. 4, NEW y \in Nat, y <= f
  PROVE  y <= (f + z - 1) + j
BY SMT

LEMMA PushAfter ==
  ASSUME NEW l \in Int, NEW i \in 1 .. l + 4
  PROVE  ~(l + 4 < i)
BY SMT

LEMMA FrameRange ==
  ASSUME NEW n \in Nat \ {0}, NEW m \in 1 .. n
  PROVE  /\ n \in 1 .. n /\ n \in Nat /\ n + 1 \in Nat /\ n \in m .. n
         /\ m \in m .. n /\ ~(n < n)
         /\ \A f \in m .. n : f # n => f \in m .. n - 1 /\ f \in 1 .. n - 1 /\ f + 1 \in m .. n /\ f < n
         /\ \A f \in m .. n : f # n + 1 /\ f \in 1 .. n /\ f \in Nat /\ f < n + 1
         /\ \A f, g \in m .. n + 1 : f < g => f \in m .. n
         /\ \A f \in m .. n + 1 : f \in m .. n \/ f = n + 1
         /\ \A f \in m .. (n + 1) - 1 : f \in m .. n
         /\ n # n + 1
BY SMT

(* A frame begins after the frames before it have ended. *)
FramesInOrder(A, n) ==
  \A f, g \in 1 .. n : f < g => A[f].first + A[f].size <= A[g].first

LEMMA FirstOrder ==
  ASSUME NEW n \in Nat, NEW A \in [1 .. n -> Frame], FramesInOrder(A, n),
         NEW f \in 1 .. n, NEW g \in 1 .. n, f <= g
  PROVE  A[f].first <= A[g].first
<1>1. PICK x \in Nat, y \in Nat, z \in Nat :
        x = A[f].first /\ y = A[f].size /\ z = A[g].first
  BY FrameFacts
<1>2. f = g \/ f < g
  BY SMT
<1>3. f < g => x + y <= z
  BY <1>1, Zenon DEF FramesInOrder
<1>4. \A i, j, k \in Nat : i + j <= k => i <= k
  BY SMT
<1>5. \A i \in Nat : i <= i
  BY SMT
<1>. QED  BY <1>1, <1>2, <1>3, <1>4, <1>5, Zenon

LEMMA LastFirst ==
  ASSUME NEW n \in Nat \ {0}, NEW A \in [1 .. n -> Frame], FramesInOrder(A, n)
  PROVE  \A f \in 1 .. n : A[f].first <= A[n].first
<1>1. n \in Nat /\ n \in 1 .. n /\ \A f \in 1 .. n : f <= n
  BY SMT
<1>. QED  BY <1>1, FirstOrder, Zenon

(* The frame on the line has k more bytes: G are the frames with them. *)
PushedFrames(A, n, G, l, k) ==
  /\ l \in {n, n + 1} /\ (l = n => k = 4)
  /\ \A f \in 1 .. n - 1 : G[f] = A[f]
  /\ G[n].first = A[n].first /\ G[n].size = A[n].size + k
  /\ l # n => G[l].size = 0 /\ G[l].first = G[n].first + G[n].size

LEMMA CardPush ==
  ASSUME NEW n \in Nat \ {0}, NEW l \in Nat, NEW A \in [1 .. n -> Frame],
         NEW G \in [1 .. l -> Frame], NEW k \in 1 .. 4, PushedFrames(A, n, G, l, k),
         A[n].size % 4 = 0, FramesInOrder(A, n),
         NEW s \in Seq(Nat), NEW m \in 1 .. n, NEW b \in Nat, NEW p \in [Nat -> Int],
         InCard(A, n, s, m, b, p), NEW e, e = A[n].first + A[n].size - 1,
         NEW t, Longer(t, s, e, k)
  PROVE  InCard(G, l, t, m, b, [p EXCEPT ![n + 1] = Len(s) + 4])
<1>. DEFINE h == [p EXCEPT ![n + 1] = Len(s) + 4]
<1>1. /\ n \in 1 .. n /\ n \in Nat /\ n + 1 \in Nat /\ n \in m .. n
      /\ m \in m .. n /\ ~(n < n)
      /\ \A f \in m .. n : f # n => f \in m .. n - 1 /\ f \in 1 .. n - 1 /\ f + 1 \in m .. n /\ f < n
      /\ \A f \in m .. n : f # n + 1 /\ f \in 1 .. n /\ f \in Nat /\ f < n + 1
      /\ \A f, g \in m .. n + 1 : f < g => f \in m .. n
      /\ \A f \in m .. n + 1 : f \in m .. n \/ f = n + 1
      /\ \A f \in m .. (n + 1) - 1 : f \in m .. n
      /\ n # n + 1
  BY FrameRange, Zenon
<1>2. PICK F \in Nat \ {0}, Z \in Nat, P \in Int :
        F = A[n].first /\ Z = A[n].size /\ P = p[n] /\ Z % 4 = 0
  <2>1. A[n] \in Frame /\ A[n].size \in Nat /\ A[n].first \in Nat \ {0} /\ p[n] \in Int
    BY <1>1, Zenon DEF Frame
  <2>. QED  BY <2>1
<1>3. PICK L \in Nat : L = Len(s) /\ L = P + Z
  <2>1. Len(s) \in Nat
    BY SMT
  <2>. QED  BY <1>2, <2>1, Zenon DEF InCard
<1>4. e \in Nat /\ e = F + Z - 1
  <2>1. F + Z - 1 \in Nat
    BY SMT
  <2>. QED  BY <1>2, <2>1
<1>5. /\ Len(t) = L + 4
      /\ \A i \in 1 .. L : t[i] = s[i]
      /\ \A j \in 1 .. 4 : t[L + j] = IF j <= k THEN e + j ELSE 0
  BY <1>3, Zenon DEF Longer
<1>6. /\ h[n + 1] = L + 4
      /\ \A f \in m .. n : h[f] = p[f] /\ p[f] \in Int
      /\ h[n] = P
  BY <1>1, <1>2, <1>3, Zenon
<1>. HIDE DEF h
<1>7. /\ G[n].first = F /\ G[n].size = Z + k /\ WordBytes(Z + k) = Z + 4
      /\ WordBytes(Z) = Z
      /\ \A f \in m .. n : f # n => G[f] = A[f]
      /\ l \in {n, n + 1} /\ (l = n => k = 4) /\ (l # n => G[l].size = 0)
  <2>1. WordBytes(Z + k) = Z + 4 /\ WordBytes(Z) = Z
    BY <1>2, PushArith, WordFacts, Zenon
  <2>. QED  BY <1>1, <1>2, <2>1, Zenon DEF PushedFrames
<1>8. ASSUME NEW f \in m .. n
      PROVE  A[f].size \in Nat /\ WordBytes(A[f].size) \in Nat /\ A[f].first \in Nat
  BY <1>1, FrameFacts, WordFacts, Zenon
<1>9. h[m] = 0 - b
  BY <1>1, <1>6, Zenon DEF InCard
<1>10. ASSUME NEW f \in m .. n, f # n
       PROVE  h[f + 1] = h[f] + WordBytes(G[f].size)
  BY <1>1, <1>6, <1>7, <1>10, Zenon DEF InCard
<1>11. L + 4 = P + WordBytes(G[n].size) /\ L + 4 = P + (Z + 4)
  <2>1. (P + Z) + 4 = P + (Z + 4)
    BY PushSum, 4 \in Nat
  <2>. QED  BY <1>3, <1>7, <2>1
<1>12. \A f \in m .. l - 1 : h[f + 1] = h[f] + WordBytes(G[f].size)
  <2>. TAKE f \in m .. l - 1
  <2>1. f \in m .. n /\ (f = n => l = n + 1)
    <3>1. l = n => f \in m .. n - 1 /\ f \in m .. n /\ f # n
      BY SMT
    <3>. QED  BY <1>1, <1>7, <3>1, Zenon
  <2>. QED  BY <1>6, <1>10, <1>11, <2>1, Zenon
<1>13. Len(t) = h[l] + G[l].size
  <2>1. CASE l = n
    BY <1>5, <1>6, <1>7, <1>11, <2>1
  <2>2. CASE l # n
    <3>1. (L + 4) + 0 = L + 4
      BY SMT
    <3>. QED  BY <1>5, <1>6, <1>7, <2>2, <3>1, Zenon
  <2>. QED  BY <2>1, <2>2
<1>14. ASSUME NEW f \in m .. n, f # n
       PROVE  h[f] + WordBytes(G[f].size) <= P
  <2>1. p[f] + WordBytes(A[f].size) <= p[n]
    BY <1>1, <1>14, Zenon DEF InCard
  <2>2. h[f] = p[f] /\ G[f] = A[f] /\ P = p[n]
    BY <1>2, <1>6, <1>7, <1>14, Zenon
  <2>. QED  BY <2>1, <2>2
<1>15. \A f, g \in m .. l : f < g => h[f] + WordBytes(G[f].size) <= h[g]
  <2>. SUFFICES ASSUME NEW f \in m .. l, NEW g \in m .. l, f < g
                PROVE  h[f] + WordBytes(G[f].size) <= h[g]
    OBVIOUS
  <2>1. CASE g \in m .. n
    <3>1. f \in m .. n /\ f # n
      BY <2>1, SMT
    <3>. QED  BY <1>6, <1>7, <2>1, <3>1, Zenon DEF InCard
  <2>2. CASE g \notin m .. n
    <3>1. g = n + 1 /\ f \in m .. n
      BY <1>1, <1>7, <2>2, Zenon
    <3>2. CASE f = n
      <4>1. h[f] + WordBytes(G[f].size) = h[g] /\ h[g] \in Nat
        <5>1. L + 4 \in Nat
          BY SMT
        <5>. QED  BY <1>6, <1>11, <3>1, <3>2, <5>1, Zenon
      <4>2. \A x \in Nat : x <= x
        BY SMT
      <4>. QED  BY <4>1, <4>2, Zenon
    <3>3. CASE f # n
      <4>1. PICK x \in Int, z \in Nat : x = h[f] /\ z = WordBytes(G[f].size) /\ x + z <= P
        BY <1>6, <1>7, <1>8, <1>14, <3>1, <3>3
      <4>2. x + z <= (P + Z) + 4
        BY <4>1, PushBelow
      <4>. QED  BY <1>3, <1>6, <3>1, <4>1, <4>2
    <3>. QED  BY <3>2, <3>3
  <2>. QED  BY <2>1, <2>2
<1>16. ASSUME NEW f \in m .. l, NEW i \in 1 .. Len(t), h[f] < i
       PROVE  FifoByte(G[f], t[i], i - h[f])
  <2>0. i \in 1 .. L + 4
    BY <1>5
  <2>1. CASE f \notin m .. n
    <3>1. f = n + 1
      BY <1>1, <1>7, <2>1, Zenon
    <3>2. ~(L + 4 < i)
      BY <2>0, PushAfter
    <3>. QED  BY <1>6, <1>16, <3>1, <3>2, Zenon
  <2>2. CASE f \in m .. n /\ i \in 1 .. L
    <3>1. t[i] = s[i] /\ h[f] = p[f] /\ FifoByte(A[f], s[i], i - p[f])
      BY <1>3, <1>5, <1>6, <1>16, <2>2, Zenon DEF InCard
    <3>2. CASE f # n
      BY <1>7, <2>2, <3>1, <3>2, Zenon
    <3>3. CASE f = n
      <4>1. /\ i - P <= Z /\ i - P <= Z + k
        BY <1>3, <2>2, PushOld, Zenon
      <4>2. s[i] = F + (i - P) - 1
        BY <1>2, <1>7, <3>1, <3>3, <4>1, Zenon DEF FifoByte, ByteAt
      <4>3. t[i] = ByteAt(G[n], i - P)
        BY <1>7, <3>1, <4>1, <4>2, Zenon DEF ByteAt
      <4>4. t[i] = 0 \/ G[n].first <= t[i]
        BY <1>2, <1>7, <3>1, <3>3, Zenon DEF FifoByte
      <4>. QED  BY <1>6, <3>3, <4>3, <4>4, Zenon DEF FifoByte
    <3>. QED  BY <3>2, <3>3
  <2>3. CASE f \in m .. n /\ i \notin 1 .. L
    <3>1. PICK j \in 1 .. 4 : i = L + j
      BY <2>0, <2>3, FifoPlaces, Zenon
    <3>2. t[i] = IF j <= k THEN e + j ELSE 0
      BY <1>5, <3>1, Zenon
    <3>3. CASE f = n
      <4>1. /\ ((P + Z) + j) - P <= Z + k <=> j <= k
            /\ F + (((P + Z) + j) - P) - 1 = (F + Z - 1) + j
            /\ F <= (F + Z - 1) + j
        BY PushNew
      <4>2. /\ i - P <= Z + k <=> j <= k
            /\ F + (i - P) - 1 = e + j
            /\ F <= e + j
        BY <1>3, <1>4, <3>1, <4>1
      <4>. QED  BY <1>6, <1>7, <3>2, <3>3, <4>2, Zenon DEF FifoByte, ByteAt
    <3>4. CASE f # n
      <4>1. PICK x \in Int, z \in Nat : x = h[f] /\ z = WordBytes(G[f].size) /\ x + z <= P
        <5>1. f \in m .. n /\ f # n
          BY <2>3, <3>4
        <5>2. h[f] \in Int /\ WordBytes(G[f].size) \in Nat
          BY <1>6, <1>7, <1>8, <5>1, Zenon
        <5>3. h[f] + WordBytes(G[f].size) <= P
          BY <1>14, <5>1
        <5>. QED  BY <5>2, <5>3
      <4>2. ~(i - x <= z)
        <5>1. ~(((P + Z) + j) - x <= z)
          BY <4>1, PushPast
        <5>. QED  BY <1>3, <3>1, <5>1
      <4>3. G[f].first <= e + j
        <5>1. PICK y \in Nat : y = A[f].first /\ y <= F
          BY <1>1, <1>2, <1>8, <2>3, LastFirst, Zenon
        <5>2. y <= (F + Z - 1) + j
          BY <5>1, PushMin
        <5>. QED  BY <1>4, <1>7, <2>3, <3>4, <5>1, <5>2
      <4>. QED  BY <3>2, <4>1, <4>2, <4>3, Zenon DEF FifoByte
    <3>. QED  BY <3>3, <3>4
  <2>. QED  BY <2>1, <2>2, <2>3
<1>. QED  BY <1>9, <1>12, <1>13, <1>15, <1>16, Zenon DEF InCard, h

LEMMA CardEmpty ==
  ASSUME NEW n \in Nat \ {0}, NEW A, A[n].size = 0, NEW p, p[n] = 0
  PROVE  InCard(A, n, <<>>, n, 0, p)
<1>1. /\ 0 = 0 - 0 /\ 0 = 0 + 0 /\ Len(<<>>) = 0
      /\ \A f \in n .. n - 1 : FALSE
      /\ \A f, g \in n .. n : ~(f < g)
      /\ \A i \in 1 .. 0 : FALSE
  BY SMT
<1>. QED  BY <1>1, Zenon DEF InCard

(* The byte count FIFO bc has the sizes of the frames from k on; when the    *)
(* tasklet has taken one, fs, it is that of the frame it moves.               *)
Sizes(A, n, bc, k) ==
  Len(bc) = n - k /\ \A i \in 1 .. Len(bc) : bc[i] = A[k + i - 1].size
SizesOK(A, n, fs, bc, m) ==
  /\ fs = 0 => Sizes(A, n, bc, m)
  /\ fs # 0 => m < n /\ fs = A[m].size /\ Sizes(A, n, bc, m + 1)

LEMMA SizesHead ==
  ASSUME NEW n \in Nat, NEW A, NEW bc \in Seq(Nat), NEW m \in 1 .. n, Sizes(A, n, bc, m),
         bc # <<>>
  PROVE  m < n /\ Head(bc) = A[m].size /\ Sizes(A, n, Tail(bc), m + 1)
<1>1. Len(bc) \in Nat /\ Len(bc) # 0
  BY SMT
<1>2. /\ Len(bc) = n - m
      /\ \A i \in 1 .. Len(bc) : bc[i] = A[m + i - 1].size
  BY DEF Sizes
<1>3. m < n /\ 1 \in 1 .. Len(bc) /\ m + 1 - 1 = m
      /\ Len(bc) - 1 = n - (m + 1)
      /\ \A i \in 1 .. Len(bc) - 1 : i + 1 \in 1 .. Len(bc) /\ m + (i + 1) - 1 = (m + 1) + i - 1
  BY <1>1, <1>2, SMT
<1>4. /\ Head(bc) = bc[1] /\ Len(Tail(bc)) = Len(bc) - 1
      /\ \A i \in 1 .. Len(bc) - 1 : Tail(bc)[i] = bc[i + 1]
  BY <1>1, SMT
<1>. QED  BY <1>2, <1>3, <1>4, Zenon DEF Sizes

LEMMA SizesMore ==
  ASSUME NEW n \in Nat, NEW A, NEW G, NEW bc \in Seq(Nat), NEW k \in 1 .. n,
         Sizes(A, n, bc, k), NEW z \in Nat, \A f \in 1 .. n - 1 : G[f] = A[f], G[n].size = z
  PROVE  Sizes(G, n + 1, Append(bc, z), k)
<1>. DEFINE t == Append(bc, z)
<1>1. /\ Len(bc) = n - k
      /\ \A i \in 1 .. Len(bc) : bc[i] = A[k + i - 1].size
  BY DEF Sizes
<1>2. /\ Len(bc) \in Nat /\ Len(t) = Len(bc) + 1
      /\ \A i \in 1 .. Len(bc) : t[i] = bc[i]
      /\ t[Len(bc) + 1] = z
  BY SMT
<1>. HIDE DEF t
<1>3. /\ Len(t) = (n + 1) - k
      /\ k + (Len(bc) + 1) - 1 = n
      /\ \A i \in 1 .. Len(bc) : k + i - 1 \in 1 .. n - 1
      /\ \A i \in 1 .. Len(bc) + 1 : i \in 1 .. Len(bc) \/ i = Len(bc) + 1
  BY <1>1, <1>2, SMT
<1>4. ASSUME NEW i \in 1 .. Len(t)
      PROVE  t[i] = G[k + i - 1].size
  <2>1. CASE i \in 1 .. Len(bc)
    BY <1>1, <1>2, <1>3, <2>1, Zenon
  <2>2. CASE i = Len(bc) + 1
    BY <1>2, <1>3, <2>2, Zenon
  <2>. QED  BY <1>2, <1>3, <1>4, <2>1, <2>2, Zenon
<1>. QED  BY <1>3, <1>4, Zenon DEF Sizes, t

-----------------------------------------------------------------------------
(* Which frames are held *)

LEMMA RingOnto ==
  ASSUME NEW u \in Position, NEW i \in Position
  PROVE  \E k \in 0 .. RxNum - 1 : RingAt(RxNum, u, k) = i
<1>1. CASE i >= u
  <2>1. i - u \in 0 .. RxNum - 1 /\ RingAt(RxNum, u, i - u) = i
    BY <1>1, SMT DEF RingAt
  <2>. QED  BY <2>1
<1>2. CASE ~(i >= u)
  <2>1. i + RxNum - u \in 0 .. RxNum - 1 /\ RingAt(RxNum, u, i + RxNum - u) = i
    BY <1>2, SMT DEF RingAt
  <2>. QED  BY <2>1
<1>. QED  BY <1>1, <1>2

LEMMA PartFrom ==
  ASSUME NEW s, NEW f \in Frame, NEW o \in Nat, Part(s, f, o), NEW i \in 1 .. Len(s)
  PROVE  s[i] = 0 \/ f.first <= s[i]
<1>1. f.first \in Nat /\ f.first > 0
  BY FrameFacts
<1>2. f.first <= f.first + (o + i) - 1
  BY <1>1, SMT
<1>. QED  BY <1>2, Zenon DEF Part, ByteAt

LEMMA InPlace ==
  ASSUME NEW q \in 0 .. RxNum, NEW k \in 0 .. RxNum - 1
  PROVE  k \in 0 .. RxNum /\ 0 \in 0 .. RxNum /\ 0 \in 0 .. q
         /\ (k \in 0 .. q - 1 \/ (k = q /\ q < RxNum) \/ k \in q + 1 .. RxNum - 1)
         /\ (k \in 0 .. q => k = 0 \/ 0 < k)
         /\ (k \in 0 .. q - 1 => k \in 0 .. q) /\ (k = q => k \in 0 .. q)
BY SMT

LEMMA ByteNat ==
  ASSUME NEW s \in Seq(Nat), NEW i \in 1 .. Len(s)
  PROVE  s[i] \in Nat
BY SMT

(* The ring holds no byte of a frame before the first one. *)
LEMMA RingFrom ==
  ASSUME NEW n \in Nat, NEW A \in [1 .. n -> Frame], FramesInOrder(A, n),
         NEW r \in [Position -> DescType], NEW u \in Position, NEW q \in 0 .. RxNum,
         NEW fr \in [0 .. RxNum -> Nat], NEW of \in [0 .. RxNum -> Nat], NEW b,
         InFrames(A, n, r, u, q, fr, of, b), NEW i \in Position, NEW j \in 1 .. Len(r[i].data)
  PROVE  r[i].data[j] = 0 \/ A[fr[0]].first <= r[i].data[j]
<1>. DEFINE d == r[i]
<1>1. PICK k \in 0 .. RxNum - 1 : RingAt(RxNum, u, k) = i
  BY RingOnto
<1>2. k \in 0 .. RxNum /\ 0 \in 0 .. RxNum /\ 0 \in 0 .. q
      /\ (k \in 0 .. q - 1 \/ (k = q /\ q < RxNum) \/ k \in q + 1 .. RxNum - 1)
      /\ (k \in 0 .. q => k = 0 \/ 0 < k)
      /\ (k \in 0 .. q - 1 => k \in 0 .. q) /\ (k = q => k \in 0 .. q)
  BY InPlace, Zenon
<1>3. ASSUME k \in 0 .. q
      PROVE  /\ A[fr[0]] \in Frame /\ A[fr[k]] \in Frame /\ A[fr[0]].first <= A[fr[k]].first
             /\ of[k] \in Nat
  <2>1. fr[0] \in 1 .. n /\ fr[k] \in 1 .. n
    BY <1>2, <1>3, Zenon DEF InFrames, InRange
  <2>2. fr[0] <= fr[k]
    <3>1. \A x \in 1 .. n : x <= x
      BY SMT
    <3>. QED  BY <1>2, <1>3, <2>1, <3>1, Zenon DEF InFrames, Ascending
  <2>. QED  BY <1>2, <2>1, <2>2, FirstOrder, Zenon
<1>4. ASSUME k \in 0 .. q, Part(d.data, A[fr[k]], of[k])
      PROVE  d.data[j] = 0 \/ A[fr[0]].first <= d.data[j]
  <2>1. d.data[j] = 0 \/ A[fr[k]].first <= d.data[j]
    BY <1>3, <1>4, PartFrom, Zenon
  <2>2. d.data[j] \in Nat
    <3>1. d.data \in Seq(Nat)
      BY DescFacts, Zenon
    <3>. QED  BY <3>1, ByteNat, Zenon
  <2>3. PICK x \in Nat, y \in Nat, z \in Nat :
          x = A[fr[0]].first /\ y = A[fr[k]].first /\ z = d.data[j]
    BY <1>3, <1>4, <2>2, FrameFacts
  <2>. QED  BY <1>3, <1>4, <2>1, <2>3, Below, Zenon
<1>5. CASE k \in 0 .. q - 1
  BY <1>1, <1>2, <1>4, <1>5, Zenon DEF InFrames, AllFilled, Filled
<1>6. CASE k = q /\ q < RxNum
  BY <1>1, <1>2, <1>4, <1>6, Zenon DEF InFrames, RestOK, Part1
<1>7. CASE k \in q + 1 .. RxNum - 1
  <2>1. d.data = <<>>
    BY <1>1, <1>7, Zenon DEF InFrames, RestOK, Unused
  <2>2. 1 .. Len(<<>>) = {}
    BY SMT
  <2>. QED  BY <2>1, <2>2
<1>. QED  BY <1>2, <1>5, <1>6, <1>7

LEMMA CardFrom ==
  ASSUME NEW n \in Nat, NEW A, NEW s \in Seq(Nat), NEW m \in 1 .. n, NEW b \in Nat, NEW p,
         InCard(A, n, s, m, b, p), NEW i \in 1 .. Len(s)
  PROVE  s[i] = 0 \/ A[m].first <= s[i]
<1>1. m \in m .. n /\ 0 - b < i
  BY SMT
<1>2. FifoByte(A[m], s[i], i - p[m])
  BY <1>1, Zenon DEF InCard
<1>. QED  BY <1>2, Zenon DEF FifoByte

(* The last byte of each frame from the first one on is held. *)
LastOf(f) == f.first + f.size - 1
InRing(r, z) == \E i \in Position : \E j \in 1 .. Len(r[i].data) : r[i].data[j] = z
InFifo(s, z) == \E j \in 1 .. Len(s) : s[j] = z
LastInRing(A, n, r, q, fr, b) ==
  \A f \in fr[0] .. n - 1 :
    f < fr[q] \/ (f = fr[q] /\ A[f].size <= b) => InRing(r, LastOf(A[f]))
LastInCard(A, n, s, m, b) ==
  \A f \in m .. n - 1 : A[f].size # 0 /\ (f = m => b < A[f].size) => InFifo(s, LastOf(A[f]))
LastInBoth(A, n, r, s, x) ==
  \A f \in 1 .. n - 1 :
    f \in x .. n - 1 <=> InRing(r, LastOf(A[f])) \/ InFifo(s, LastOf(A[f]))

LEMMA PartLast ==
  ASSUME NEW s, NEW f \in Frame, NEW o \in Nat, Part(s, f, o), Len(s) \in Nat, o < f.size,
         f.size <= o + Len(s)
  PROVE  \E j \in 1 .. Len(s) : s[j] = LastOf(f)
<1>1. PICK z \in Nat, l \in Nat : z = f.size /\ l = Len(s)
  BY FrameFacts
<1>2. PICK j \in 1 .. l : o + j = z
  <2>1. z - o \in 1 .. l /\ o + (z - o) = z
    BY <1>1, SMT
  <2>. QED  BY <2>1
<1>3. z <= z
  BY SMT
<1>4. s[j] = f.first + z - 1
  BY <1>1, <1>2, <1>3, Zenon DEF Part, ByteAt
<1>. QED  BY <1>1, <1>4, Zenon DEF LastOf

LEMMA CardEnd ==
  ASSUME NEW z \in Nat, NEW w \in Nat, NEW x \in Int, NEW y \in Int, NEW e \in Nat,
         z <= w, x + w <= y
  PROVE  x + z <= y + e
BY SMT

LEMMA CardPast ==
  ASSUME NEW z \in Nat, NEW x \in Int, NEW b \in Nat, NEW v \in Nat, b <= v,
         (0 - b) + v <= x, z > 0
  PROVE  x + z > 0
BY SMT

LEMMA CardPlace ==
  ASSUME NEW z \in Nat, NEW x \in Int, NEW l \in Nat, x + z <= l, x + z > 0, z > 0
  PROVE  x + z \in 1 .. l /\ x < x + z /\ (x + z) - x = z
BY SMT

LEMMA UpToNext ==
  ASSUME NEW x \in Nat, NEW y \in Nat, NEW f \in x .. y - 1
  PROVE  f < y /\ f \in Nat /\ \A z \in Nat : f < z => f \in x .. z - 1
BY SMT

LEMMA Finished ==
  ASSUME NEW q \in 0 .. RxNum, NEW k \in 0 .. q - 1
  PROVE  /\ k \in 0 .. RxNum - 1 /\ k \in 0 .. RxNum /\ k \in 0 .. q /\ k + 1 \in 0 .. q
         /\ q \in 0 .. q /\ 0 \in 0 .. q /\ k < q
BY SMT

LEMMA NotBoth ==
  ASSUME NEW x \in Nat, NEW y \in Nat, x < y, y <= x
  PROVE  FALSE
BY SMT

LEMMA CardLast ==
  ASSUME NEW n \in Nat, NEW A \in [1 .. n -> Frame], NEW s \in Seq(Nat), NEW m \in 1 .. n,
         NEW b \in Nat, NEW p \in [Nat -> Int], InCard(A, n, s, m, b, p),
         b <= WordBytes(A[m].size)
  PROVE  LastInCard(A, n, s, m, b)
<1>. SUFFICES ASSUME NEW f \in m .. n - 1, A[f].size # 0, f = m => b < A[f].size
              PROVE  \E j \in 1 .. Len(s) : s[j] = LastOf(A[f])
  BY Zenon DEF LastInCard, InFifo
<1>0. /\ f \in m .. n /\ n \in m .. n /\ m \in m .. n /\ f < n /\ (f # m => m < f)
      /\ f \in 1 .. n /\ n \in 1 .. n
      /\ f \in Nat /\ n \in Nat /\ m \in Nat
  BY SMT
<1>1. PICK z \in Nat, w \in Nat, x \in Int, y \in Int, l \in Nat, e \in Nat :
        /\ z = A[f].size /\ z > 0 /\ w = WordBytes(A[f].size) /\ z <= w
        /\ x = p[f] /\ y = p[n] /\ l = Len(s) /\ e = A[n].size
  <2>1. A[f] \in Frame /\ A[f].size \in Nat /\ A[n].size \in Nat
    BY <1>0, FrameFacts, Zenon
  <2>2. WordBytes(A[f].size) \in Nat /\ A[f].size <= WordBytes(A[f].size)
    BY <2>1, WordFacts, Zenon
  <2>3. p[f] \in Int /\ p[n] \in Int /\ Len(s) \in Nat
    BY <1>0, SMT
  <2>4. A[f].size > 0
    <3>1. \A i \in Nat : i # 0 => i > 0
      BY SMT
    <3>. QED  BY <2>1, <3>1, Zenon
  <2>. QED  BY <2>1, <2>2, <2>3, <2>4
<1>2. x + w <= y /\ l = y + e
  BY <1>0, <1>1, Zenon DEF InCard
<1>3. x + z > 0
  <2>1. CASE f = m
    <3>1. x = 0 - b /\ b < z
      BY <1>1, <2>1 DEF InCard
    <3>. QED  BY <3>1, SMT
  <2>2. CASE f # m
    <3>1. /\ p[m] + WordBytes(A[m].size) <= p[f] /\ p[m] = 0 - b
      BY <1>0, <2>2, Zenon DEF InCard
    <3>2. PICK v \in Nat : v = WordBytes(A[m].size) /\ b <= v
      BY FrameFacts, WordFacts, Zenon
    <3>3. (0 - b) + v <= x
      BY <1>1, <3>1, <3>2
    <3>. QED  BY <1>1, <3>2, <3>3, CardPast, Zenon
  <2>. QED  BY <2>1, <2>2
<1>4. PICK j \in 1 .. l : j = x + z /\ x < j /\ j - x = z
  <2>1. x + z \in 1 .. l /\ x < x + z /\ (x + z) - x = z
    <3>1. x + z <= y + e
      BY <1>1, <1>2, CardEnd, Zenon
    <3>2. x + z <= l
      BY <1>2, <3>1
    <3>. QED  BY <1>1, <1>3, <3>2, CardPlace, Zenon
  <2>. QED  BY <2>1
<1>5. FifoByte(A[f], s[j], z)
  BY <1>0, <1>1, <1>4, Zenon DEF InCard
<1>6. z <= z
  BY SMT
<1>7. s[j] = A[f].first + z - 1
  BY <1>1, <1>5, <1>6, Zenon DEF FifoByte, ByteAt
<1>. QED  BY <1>1, <1>7, Zenon DEF LastOf

LEMMA RingLast ==
  ASSUME NEW n \in Nat, NEW A \in [1 .. n -> Frame], NEW r \in [Position -> DescType],
         NEW u \in Position, NEW q \in 0 .. RxNum, NEW fr \in [0 .. RxNum -> Nat],
         NEW of \in [0 .. RxNum -> Nat], NEW b \in Nat, InFrames(A, n, r, u, q, fr, of, b)
  PROVE  LastInRing(A, n, r, q, fr, b)
<1>. SUFFICES ASSUME NEW f \in fr[0] .. n - 1, f < fr[q] \/ (f = fr[q] /\ A[f].size <= b)
              PROVE  \E i \in Position : \E j \in 1 .. Len(r[i].data) :
                       r[i].data[j] = LastOf(A[f])
  BY Zenon DEF LastInRing, InRing
<1>0. 0 \in 0 .. RxNum /\ q \in 0 .. RxNum /\ q \in 0 .. q
  BY SMT
<1>1. CASE f < fr[q]
  <2>1. f \in fr[0] .. fr[q] - 1
    <3>1. fr[0] \in Nat /\ fr[q] \in Nat
      BY <1>0
    <3>. QED  BY <1>1, <3>1, UpToNext
  <2>2. PICK k \in 0 .. q - 1 : fr[k] = f /\ r[RingAt(RxNum, u, k)].fe
    BY <2>1, Zenon DEF InFrames, Ended
  <2>3. k \in 0 .. RxNum - 1 /\ k \in 0 .. RxNum /\ k \in 0 .. q
    BY Finished
  <2>4. PICK i \in Position : i = RingAt(RxNum, u, k)
    BY <2>3, Places0, Zenon
  <2>5. f \in 1 .. n /\ f < n /\ of[k] \in Nat /\ of[k] < A[f].size
    <3>1. f < n
      <4>1. fr[0] \in Nat
        BY <1>0
      <4>. QED  BY <4>1, UpToNext
    <3>. QED  BY <2>2, <2>3, <3>1, Zenon DEF InFrames, InRange
  <2>6. Part(r[i].data, A[f], of[k]) /\ A[f].size <= of[k] + Len(r[i].data)
    BY <2>2, <2>4, Zenon DEF InFrames, AllFilled, Filled
  <2>7. Len(r[i].data) \in Nat /\ A[f] \in Frame
    BY <2>5, DescFacts, Zenon
  <2>. QED  BY <2>5, <2>6, <2>7, PartLast, Zenon
<1>2. CASE f = fr[q] /\ A[f].size <= b
  <2>1. f \in 1 .. n /\ f < n /\ of[q] \in Nat /\ of[q] < A[f].size
    <3>1. f < n
      <4>1. fr[0] \in Nat
        BY <1>0
      <4>. QED  BY <4>1, UpToNext
    <3>. QED  BY <1>0, <1>2, <3>1, Zenon DEF InFrames, InRange
  <2>2. A[f] \in Frame /\ A[f].size \in Nat
    BY <2>1, FrameFacts, Zenon
  <2>3. q < RxNum
    <3>. SUFFICES ASSUME q = RxNum PROVE FALSE
      BY SMT
    <3>1. b = of[q]
      BY Zenon DEF InFrames, RestOK
    <3>2. PICK x \in Nat, y \in Nat : x = of[q] /\ y = A[f].size /\ x < y /\ y <= x
      BY <1>2, <2>1, <2>2, <3>1
    <3>. QED  BY <3>2, NotBoth
  <2>4. PICK i \in Position : i = RingAt(RxNum, u, q)
    <3>1. q \in 0 .. RxNum - 1
      BY <2>3, OneMore
    <3>. QED  BY <3>1, Places0, Zenon
  <2>5. /\ Part(r[i].data, A[f], of[q]) /\ A[f].size <= of[q] + Len(r[i].data)
        /\ Len(r[i].data) \in Nat
    <3>1. Part1(r[i], A[f], of[q], b) /\ r[i].cnt \in Nat
      BY <1>2, <2>3, <2>4, DescFacts, Zenon DEF InFrames, RestOK
    <3>. QED  BY <1>2, <3>1, Zenon DEF Part1
  <2>. QED  BY <2>1, <2>2, <2>5, PartLast, Zenon
<1>. QED  BY <1>1, <1>2

-----------------------------------------------------------------------------
(* The invariant of the frame modes *)

(* The frames received and, last, what has arrived of the one on the line.   *)
Lines == Len(frames) + 1
Line ==
  [f \in 1 .. Lines |->
     IF f <= Len(frames) THEN frames[f]
     ELSE [first |-> arrived - incoming.done + 1, size |-> incoming.done]]

FramesOK ==
  /\ Line \in [1 .. Lines -> Frame] /\ FramesInOrder(Line, Lines)
  /\ \A f \in 1 .. Len(frames) : frames[f].size \in FrameSizes
  /\ incoming.done % 4 = 0 /\ (incoming.done = 0 \/ incoming.done < incoming.size)

(* Between its two reads the tasklet knows the size of the frame it moves,   *)
(* or that frame has ended no earlier than with the last word.               *)
RacedOK ==
  ipc = "copy" /\ rx_frame_size = 0 =>
    IF raced = 0 THEN bcfl = <<>>
    ELSE RaceWords # 0 /\ (bcfl # <<>> => Len(bcfl) = 1 /\ incoming.done = 0)

(* A reader has taken a part of a frame, all but the status.                 *)
Midway == \E r \in Readers : pc[r] = "move" \/ (pc[r] = "advance" /\ bytes_in_descs # 0)

(* It has taken the first c bytes of f. *)
Reading(f, c) ==
  /\ bytes_in_descs = f.size - c
  /\ filled_frame_size = Lesser(c, f.size - StatusBytes)
  /\ total_valid_data = f.size - StatusBytes - filled_frame_size
  /\ out = Run(f.first - 1, filled_frame_size)

(* Ring and card hold the frames from x on, and what a reader has not yet    *)
(* taken of x.                                                               *)
HoldsFrom(x) ==
  \E q \in 0 .. RxNum, fr \in [0 .. RxNum -> Nat], of \in [0 .. RxNum -> Nat],
     p \in [Nat -> Int] :
    /\ InRow(rx, fifo_rx_desc, Front, q) /\ fr[0] = x
    /\ InFrames(Line, Lines, rx, Front, q, fr, of, rx_bytes_in_frame)
    /\ InCard(Line, Lines, rxfifo, fr[q], rx_bytes_in_frame, p)
    /\ SizesOK(Line, Lines, rx_frame_size, bcfl, fr[q])
    /\ Midway => x < fr[q] /\ Reading(Line[x], of[0])
    /\ ~Midway => of[0] = 0

InQueue == FramesOK /\ RacedOK /\ \E x \in Nat : HoldsFrom(x)

QInv == IInv /\ (streaming => frames = <<>>) /\ (~streaming => InQueue)

LEMMA FrameTypes ==
  ASSUME IInv
  PROVE  /\ rx \in [Position -> DescType] /\ Front \in Position
         /\ user_rx_desc \in Position /\ fifo_rx_desc \in Position
         /\ rx_bytes_in_frame \in Nat /\ rx_frame_size \in Nat
         /\ rxfifo \in Seq(Nat) /\ bcfl \in Seq(Nat)
         /\ Len(frames) \in Nat /\ Lines \in Nat \ {0} /\ Lines = Len(frames) + 1
         /\ arrived \in Nat /\ incoming.done \in Nat /\ incoming.size \in Nat
         /\ incoming.done <= arrived
<1>1. /\ rx \in [Position -> DescType] /\ user_rx_desc \in Position
      /\ fifo_rx_desc \in Position /\ rx_bytes_in_frame \in Nat /\ rx_frame_size \in Nat
  BY Zenon DEF IInv, TypeOK, RingType
<1>2. Front \in Position
  BY FrontFacts
<1>3. /\ rxfifo \in Seq(Nat) /\ bcfl \in Seq(Nat) /\ incoming \in [size : Nat, done : Nat]
  BY Zenon DEF IInv, TypeOK, CardType
<1>4. arrived \in Nat /\ frames \in Seq([first : Nat, size : Nat])
  BY Zenon DEF IInv, TypeOK, GhostsType
<1>5. Len(frames) \in Nat
  BY <1>4
<1>6. Lines \in Nat \ {0}
  BY <1>5, SMT DEF Lines
<1>7. incoming.done \in Nat /\ incoming.size \in Nat
  BY <1>3
<1>8. incoming.done <= arrived
  BY Zenon DEF IInv, LineOK
<1>. QED  BY <1>1, <1>2, <1>3, <1>4, <1>5, <1>6, <1>7, <1>8, Zenon DEF Lines

LEMMA LinePlaces ==
  ASSUME NEW n \in Nat \ {0}, NEW l \in Nat, n = l + 1
  PROVE  /\ \A f \in 1 .. l : f \in 1 .. n /\ f \in 1 .. n - 1 /\ f <= l /\ f < n
         /\ \A f \in 1 .. n - 1 : f \in 1 .. l /\ f < n
         /\ \A f \in 1 .. n : f < n => f \in 1 .. l
         /\ \A f \in 1 .. n : f \in 1 .. l \/ f = n
         /\ n \in 1 .. n /\ ~(n <= l) /\ n - 1 = l /\ 1 .. n - 1 = 1 .. l
BY SMT

LEMMA LineFacts ==
  ASSUME IInv
  PROVE  /\ \A f \in 1 .. Len(frames) : f \in 1 .. Lines /\ f < Lines /\ Line[f] = frames[f]
         /\ Line[Lines] = [first |-> arrived - incoming.done + 1, size |-> incoming.done]
         /\ Lines \in 1 .. Lines
<1>1. PICK n \in Nat \ {0}, l \in Nat : n = Lines /\ l = Len(frames) /\ n = l + 1
  BY FrameTypes
<1>2. /\ \A f \in 1 .. l : f \in 1 .. n /\ f <= l /\ f < n
      /\ n \in 1 .. n /\ ~(n <= l)
  BY <1>1, LinePlaces, Zenon
<1>. QED  BY <1>1, <1>2, Zenon DEF Line

LEMMA Before ==
  ASSUME NEW a \in Nat, NEW s \in Nat, NEW x \in Nat, NEW b \in Nat, a > 0, s > 0,
         a + s <= x, b = 0 \/ x <= b
  PROVE  a + s - 1 # b
BY SMT

LEMMA FromFirst ==
  ASSUME NEW n \in Nat, NEW x \in 1 .. n, NEW m \in 1 .. n, x <= m, NEW f \in 1 .. n - 1
  PROVE  /\ f \in 1 .. n /\ f < n /\ (f < x \/ f \in x .. n - 1)
         /\ ~(f < m) => f \in m .. n - 1
         /\ f = m \/ f # m
BY SMT

(* The last byte of a frame is held if and only if it is not before the      *)
(* first one.                                                                *)
LEMMA LastHeld ==
  ASSUME NEW n \in Nat, NEW A \in [1 .. n -> Frame], FramesInOrder(A, n),
         \A f \in 1 .. n - 1 : A[f].size # 0,
         NEW r \in [Position -> DescType], NEW u \in Position, NEW q \in 0 .. RxNum,
         NEW fr \in [0 .. RxNum -> Nat], NEW of \in [0 .. RxNum -> Nat], NEW b \in Nat,
         InFrames(A, n, r, u, q, fr, of, b), NEW s \in Seq(Nat), NEW p \in [Nat -> Int],
         InCard(A, n, s, fr[q], b, p)
  PROVE  LastInBoth(A, n, r, s, fr[0])
<1>. SUFFICES ASSUME NEW f \in 1 .. n - 1
              PROVE  f \in fr[0] .. n - 1 <=> InRing(r, LastOf(A[f])) \/ InFifo(s, LastOf(A[f]))
  BY Zenon DEF LastInBoth
<1>0. 0 \in 0 .. q /\ q \in 0 .. q /\ (q = 0 \/ 0 < q)
  BY SMT
<1>1. PICK x \in 1 .. n, m \in 1 .. n : x = fr[0] /\ m = fr[q] /\ x <= m
  <2>1. fr[0] \in 1 .. n /\ fr[q] \in 1 .. n
    BY <1>0, Zenon DEF InFrames, InRange
  <2>2. fr[0] <= fr[q]
    <3>1. \A i \in 1 .. n : i <= i
      BY SMT
    <3>. QED  BY <1>0, <2>1, <3>1, Zenon DEF InFrames, Ascending
  <2>. QED  BY <2>1, <2>2
<1>2. /\ f \in 1 .. n /\ f < n /\ (f < x \/ f \in x .. n - 1)
      /\ ~(f < m) => f \in m .. n - 1
  BY <1>1, FromFirst, Zenon
<1>3. A[f] \in Frame /\ A[x] \in Frame /\ A[m] \in Frame /\ A[f].size # 0
  BY <1>2, Zenon
<1>4. ASSUME f \in x .. n - 1
      PROVE  InRing(r, LastOf(A[f])) \/ InFifo(s, LastOf(A[f]))
  <2>1. ASSUME f < m \/ (f = m /\ A[f].size <= b)
        PROVE  InRing(r, LastOf(A[f]))
    <3>1. f \in fr[0] .. n - 1 /\ (f < fr[q] \/ (f = fr[q] /\ A[f].size <= b))
      BY <1>1, <1>4, <2>1, Zenon
    <3>2. LastInRing(A, n, r, q, fr, b)
      BY RingLast, Zenon
    <3>. QED  BY <3>1, <3>2, Zenon DEF LastInRing, InRing
  <2>3. CASE ~(f < m) /\ (f = m => b < A[f].size)
    <3>1. b <= WordBytes(A[m].size)
      BY <1>1, Zenon DEF InFrames, RestOK
    <3>2. f \in m .. n - 1 /\ InCard(A, n, s, m, b, p)
      BY <1>1, <1>2, <2>3, Zenon
    <3>3. LastInCard(A, n, s, m, b)
      BY <3>1, <3>2, CardLast, Zenon
    <3>. QED  BY <1>3, <2>3, <3>2, <3>3, Zenon DEF LastInCard
  <2>4. A[f].size <= b \/ b < A[f].size
    <3>1. A[f].size \in Nat
      BY <1>3, FrameFacts, Zenon
    <3>2. \A i, j \in Nat : i <= j \/ j < i
      BY SMT
    <3>. QED  BY <3>1, <3>2, Zenon
  <2>. QED  BY <2>1, <2>3, <2>4, Zenon
<1>5. ASSUME f < x, NEW z \in Nat, z = 0 \/ A[x].first <= z
      PROVE  z # LastOf(A[f])
  <2>1. PICK a \in Nat, c \in Nat, y \in Nat :
          a = A[f].first /\ c = A[f].size /\ y = A[x].first /\ a > 0 /\ c # 0
    BY <1>3, FrameFacts, Zenon
  <2>2. a + c <= y
    BY <1>1, <1>2, <1>5, <2>1, Zenon DEF FramesInOrder
  <2>3. c > 0
    <3>1. \A i \in Nat : i # 0 => i > 0
      BY SMT
    <3>. QED  BY <2>1, <3>1, Zenon
  <2>4. z = 0 \/ y <= z
    BY <1>5, <2>1
  <2>. QED  BY <2>1, <2>2, <2>3, <2>4, Before, Zenon DEF LastOf
<1>6. ASSUME f < x, NEW i \in Position, NEW j \in 1 .. Len(r[i].data)
      PROVE  r[i].data[j] # LastOf(A[f])
  <2>1. r[i].data[j] \in Nat
    <3>1. r[i].data \in Seq(Nat)
      BY DescFacts, Zenon
    <3>. QED  BY <3>1, ByteNat, Zenon
  <2>2. r[i].data[j] = 0 \/ A[x].first <= r[i].data[j]
    BY <1>1, RingFrom, Zenon
  <2>. QED  BY <1>5, <1>6, <2>1, <2>2, Zenon
<1>7. ASSUME f < x, NEW j \in 1 .. Len(s)
      PROVE  s[j] # LastOf(A[f])
  <2>1. s[j] \in Nat
    BY ByteNat, Zenon
  <2>2. s[j] = 0 \/ A[m].first <= s[j]
    BY <1>1, CardFrom, Zenon
  <2>3. A[x].first <= A[m].first
    BY <1>1, FirstOrder, Zenon
  <2>4. s[j] = 0 \/ A[x].first <= s[j]
    <3>1. A[x].first \in Nat /\ A[m].first \in Nat
      BY <1>3, FrameFacts, Zenon
    <3>. QED  BY <2>1, <2>2, <2>3, <3>1, Below, Zenon
  <2>. QED  BY <1>5, <1>7, <2>1, <2>4, Zenon
<1>8. f < x => ~(f \in x .. n - 1)
  BY SMT
<1>. QED  BY <1>1, <1>2, <1>4, <1>6, <1>7, <1>8, Zenon DEF InRing, InFifo

LEMMA HeldIs ==
  ASSUME NEW z
  PROVE  z \in Held <=> InRing(rx, z) \/ InFifo(rxfifo, z)
<1>. DEFINE T(i) == {rx[i].data[j] : j \in 1 .. Len(rx[i].data)}
            U == {T(i) : i \in Position}
            F == {rxfifo[j] : j \in 1 .. Len(rxfifo)}
<1>1. z \in F <=> InFifo(rxfifo, z)
  BY Zenon DEF InFifo
<1>2. \A i \in Position : z \in T(i) <=> \E j \in 1 .. Len(rx[i].data) : rx[i].data[j] = z
  BY Zenon
<1>3. Held = F \cup UNION U
  BY Zenon DEF Held
<1>. HIDE DEF T, F
<1>4. z \in UNION U <=> \E i \in Position : z \in T(i)
  BY Zenon
<1>. QED  BY <1>1, <1>2, <1>3, <1>4, Zenon DEF InRing

LEMMA QueuedIs ==
  ASSUME IInv, FramesOK, NEW x, HoldsFrom(x)
  PROVE  x \in 1 .. Lines /\ Queued = x .. Len(frames)
<1>1. PICK q \in 0 .. RxNum, fr \in [0 .. RxNum -> Nat], of \in [0 .. RxNum -> Nat],
           p \in [Nat -> Int] :
        /\ fr[0] = x
        /\ InFrames(Line, Lines, rx, Front, q, fr, of, rx_bytes_in_frame)
        /\ InCard(Line, Lines, rxfifo, fr[q], rx_bytes_in_frame, p)
  BY Zenon DEF HoldsFrom
<1>2. /\ rx \in [Position -> DescType] /\ Front \in Position
      /\ rx_bytes_in_frame \in Nat /\ rxfifo \in Seq(Nat)
  BY FrameTypes
<1>3. PICK n \in Nat \ {0}, l \in Nat : n = Lines /\ l = Len(frames) /\ n = l + 1
  BY FrameTypes
<1>4. /\ \A f \in 1 .. l : f \in 1 .. n /\ f \in 1 .. n - 1
      /\ \A f \in 1 .. n - 1 : f \in 1 .. l
      /\ n - 1 = l
  BY <1>3, LinePlaces
<1>5. \A f \in 1 .. l : Line[f] = frames[f]
  BY <1>3, LineFacts, Zenon
<1>6. /\ Line \in [1 .. n -> Frame] /\ FramesInOrder(Line, n)
      /\ \A f \in 1 .. n - 1 : Line[f].size # 0
  <2>1. \A f \in 1 .. l : frames[f].size # 0
    BY <1>3, SizesAssumption, Zenon DEF FramesOK
  <2>. QED  BY <1>3, <1>4, <1>5, <2>1, Zenon DEF FramesOK
<1>7. \A f \in 1 .. l : LastByte(f) = LastOf(Line[f])
  BY <1>5, Zenon DEF LastByte, LastOf
<1>8. x \in 1 .. n
  <2>1. 0 \in 0 .. q
    BY SMT
  <2>. QED  BY <1>1, <1>3, <2>1, Zenon DEF InFrames, InRange
<1>9. ASSUME NEW f \in 1 .. l
      PROVE  f \in x .. l <=> LastByte(f) \in Held
  <2>1. f \in 1 .. n - 1
    BY <1>4
  <2>2. /\ InFrames(Line, n, rx, Front, q, fr, of, rx_bytes_in_frame)
        /\ InCard(Line, n, rxfifo, fr[q], rx_bytes_in_frame, p)
    BY <1>1, <1>3
  <2>3. LastInBoth(Line, n, rx, rxfifo, fr[0])
    BY <1>2, <1>6, <2>2, LastHeld, Zenon
  <2>4. f \in x .. l <=> InRing(rx, LastByte(f)) \/ InFifo(rxfifo, LastByte(f))
    BY <1>1, <1>4, <1>7, <2>1, <2>3, Zenon DEF LastInBoth
  <2>. QED  BY <2>4, HeldIs, Zenon
<1>10. x .. l \subseteq 1 .. l
  BY <1>8, SMT
<1>. QED  BY <1>3, <1>8, <1>9, <1>10, Zenon DEF Queued

-----------------------------------------------------------------------------
(* A word comes *)

LEMMA GrowArith ==
  ASSUME NEW n \in Nat \ {0}, NEW l \in {n, n + 1}, NEW f \in 1 .. l, NEW g \in 1 .. l, f < g
  PROVE  /\ f \in 1 .. n /\ n \in 1 .. n
         /\ g \in 1 .. n => f \in 1 .. n - 1 /\ (g \in 1 .. n - 1 \/ g = n)
         /\ ~(g \in 1 .. n) => g = l /\ l # n /\ (f = n \/ (f \in 1 .. n - 1 /\ f < n))
BY SMT

LEMMA SumOrder ==
  ASSUME NEW a \in Nat, NEW b \in Nat, NEW c \in Nat
  PROVE  a <= a /\ a <= a + b /\ (c <= a => c <= a + b)
BY SMT

LEMMA OrderGrows ==
  ASSUME NEW n \in Nat \ {0}, NEW l \in Nat, NEW A \in [1 .. n -> Frame],
         NEW G \in [1 .. l -> Frame], NEW k \in 1 .. 4, PushedFrames(A, n, G, l, k),
         FramesInOrder(A, n)
  PROVE  FramesInOrder(G, l)
<1>. SUFFICES ASSUME NEW f \in 1 .. l, NEW g \in 1 .. l, f < g
              PROVE  G[f].first + G[f].size <= G[g].first
  BY Zenon DEF FramesInOrder
<1>0. l \in {n, n + 1}
  BY Zenon DEF PushedFrames
<1>1. /\ f \in 1 .. n /\ n \in 1 .. n
      /\ g \in 1 .. n => f \in 1 .. n - 1 /\ (g \in 1 .. n - 1 \/ g = n)
      /\ ~(g \in 1 .. n) => g = l /\ l # n /\ (f = n \/ (f \in 1 .. n - 1 /\ f < n))
  BY <1>0, GrowArith
<1>2. /\ \A i \in 1 .. n - 1 : G[i] = A[i]
      /\ G[n].first = A[n].first
  BY Zenon DEF PushedFrames
<1>3. CASE g \in 1 .. n
  <2>1. A[f].first + A[f].size <= A[g].first
    BY <1>1, <1>3, Zenon DEF FramesInOrder
  <2>. QED  BY <1>1, <1>2, <1>3, <2>1, Zenon
<1>4. CASE ~(g \in 1 .. n)
  <2>0. n \in 1 .. l
    BY <1>0, SMT
  <2>1. PICK x \in Nat, y \in Nat : x = G[n].first /\ y = G[n].size
    BY <2>0, FrameFacts
  <2>2. G[g].first = x + y
    BY <1>1, <1>4, <2>1, Zenon DEF PushedFrames
  <2>3. CASE f = n
    <3>1. \A i \in Nat : i <= i
      BY SMT
    <3>2. x + y \in Nat
      BY SMT
    <3>. QED  BY <2>1, <2>2, <2>3, <3>1, <3>2, Zenon
  <2>4. CASE f \in 1 .. n - 1 /\ f < n
    <3>1. A[f].first + A[f].size <= x
      BY <1>1, <1>2, <2>1, <2>4, Zenon DEF FramesInOrder
    <3>2. PICK v \in Nat : v = A[f].first + A[f].size
      <4>1. PICK i \in Nat, j \in Nat : i = A[f].first /\ j = A[f].size
        BY <1>1, FrameFacts
      <4>2. i + j \in Nat
        BY SMT
      <4>. QED  BY <4>1, <4>2
    <3>3. v <= x + y
      BY <3>1, <3>2, SumOrder, Zenon
    <3>. QED  BY <1>2, <2>2, <2>4, <3>2, <3>3, Zenon
  <2>. QED  BY <1>1, <1>4, <2>3, <2>4, Zenon
<1>. QED  BY <1>3, <1>4

(* Of a frame of z bytes d have arrived, of a bytes in all, and k come.      *)
WordFits(z, d, a, k) ==
  /\ k = Lesser(4, z - d) /\ a + k \in Nat /\ d + k \in Nat
  /\ d + k <= z /\ (d + k # z => k = 4 /\ d + k < z)
  /\ (d + k # z => (d + k) % 4 = 0)
  /\ (a + k) - (d + k) + 1 = a - d + 1
  /\ a - d + 1 \in Nat \ {0} /\ (a - d + 1) + d - 1 = a
  /\ (d + k = z => (a + k) - z + 1 = a - d + 1 /\ (a + k) - 0 + 1 = (a - d + 1) + z)
  /\ (a + k) - 0 + 1 \in Nat \ {0}

LEMMA WordArith ==
  ASSUME NEW z \in Nat \ {0}, NEW d \in Nat, NEW a \in Nat, d <= a, d < z, d % 4 = 0
  PROVE  \E k \in 1 .. 4 : WordFits(z, d, a, k)
<1>1. Lesser(4, z - d) \in 1 .. 4
  BY SMT DEF Lesser
<1>2. PICK k \in 1 .. 4 : k = Lesser(4, z - d)
  BY <1>1
<1>3. d + k <= z /\ (d + k # z => k = 4)
  BY <1>2, SMT DEF Lesser
<1>4. /\ a + k \in Nat /\ d + k \in Nat
      /\ (d + k # z => d + k < z /\ (d + k) % 4 = 0)
      /\ (a + k) - (d + k) + 1 = a - d + 1
      /\ a - d + 1 \in Nat \ {0} /\ (a - d + 1) + d - 1 = a
      /\ (d + k = z => (a + k) - z + 1 = a - d + 1 /\ (a + k) - 0 + 1 = (a - d + 1) + z)
      /\ (a + k) - 0 + 1 \in Nat \ {0}
  BY <1>3, SMT
<1>. QED  BY <1>2, <1>3, <1>4, Zenon DEF WordFits

(* The frame on the line has k more bytes, and maybe it has ended.           *)
Comes(k) ==
  /\ PushedFrames(Line, Lines, Line', Lines', k)
  /\ Line'[Lines].size % 4 = 0 \/ Lines' # Lines
  /\ rxfifo' = rxfifo \o Word(arrived, k)
  /\ \/ /\ Lines' = Lines
        /\ UNCHANGED <<frames, bcfl>>
     \/ /\ Lines' = Lines + 1
        /\ frames' = Append(frames, Line'[Lines])
        /\ bcfl' = Append(bcfl, Line'[Lines].size)
        /\ incoming'.done = 0

LEMMA WordLine ==
  ASSUME IInv, FramesOK, NEW s \in FrameSizes, HwFrameWord(s)
  PROVE  /\ \E k \in 1 .. 4 : Comes(k)
         /\ FramesOK'
<1>1. PICK a \in Nat, d \in Nat, n \in Nat \ {0}, l \in Nat :
        /\ a = arrived /\ d = incoming.done /\ n = Lines /\ l = Len(frames) /\ n = l + 1
        /\ d <= a /\ d % 4 = 0
  BY FrameTypes DEF FramesOK
<1>2. PICK z \in Nat \ {0} : z = s
  BY SizesAssumption
<1>3. d < z
  <2>1. d = 0 \/ d < incoming.size
    BY <1>1, Zenon DEF FramesOK
  <2>2. incoming.size = z \/ d = 0
    BY <1>1, <1>2, SMT DEF HwFrameWord, NoFrame
  <2>3. d = 0 \/ d < z
    BY <2>1, <2>2
  <2>. QED  BY <2>3, SMT
<1>4a. PICK k \in 1 .. 4 : WordFits(z, d, a, k)
  BY <1>1, <1>3, WordArith, Zenon
<1>4. /\ k = Lesser(4, z - d) /\ a + k \in Nat /\ d + k \in Nat
      /\ d + k <= z /\ (d + k # z => k = 4 /\ d + k < z)
      /\ (d + k # z => (d + k) % 4 = 0)
      /\ (a + k) - (d + k) + 1 = a - d + 1
      /\ a - d + 1 \in Nat \ {0} /\ (a - d + 1) + d - 1 = a
      /\ (d + k = z => (a + k) - z + 1 = a - d + 1 /\ (a + k) - 0 + 1 = (a - d + 1) + z)
      /\ (a + k) - 0 + 1 \in Nat \ {0}
  BY <1>4a, Zenon DEF WordFits
<1>5. PICK x \in Nat \ {0} : x = a - d + 1
  BY <1>4
<1>6. /\ rxfifo' = rxfifo \o Word(arrived, k) /\ arrived' = a + k
      /\ IF d + k = z
           THEN /\ incoming' = NoFrame /\ bcfl' = Append(bcfl, z)
                /\ frames' = Append(frames, [first |-> x, size |-> z])
           ELSE /\ incoming' = [size |-> z, done |-> d + k]
                /\ UNCHANGED <<bcfl, frames>>
  <2>1. /\ rxfifo' = rxfifo \o Word(arrived, k) /\ arrived' = a + k
    BY <1>1, <1>2, <1>4, Zenon DEF HwFrameWord, Push, Word
  <2>2. IF d + k = z
          THEN /\ incoming' = NoFrame /\ bcfl' = Append(bcfl, z)
               /\ frames' = Append(frames, [first |-> (a + k) - z + 1, size |-> z])
          ELSE /\ incoming' = [size |-> z, done |-> d + k]
               /\ UNCHANGED <<bcfl, frames>>
    BY <1>1, <1>2, <1>4, <2>1, Zenon DEF HwFrameWord
  <2>. QED  BY <1>4, <1>5, <2>1, <2>2, Zenon
<1>7. /\ \A f \in 1 .. l : f \in 1 .. n /\ f \in 1 .. n - 1 /\ f <= l /\ f < n
      /\ \A f \in 1 .. l : Line[f] = frames[f]
      /\ \A f \in 1 .. n - 1 : f \in 1 .. l
      /\ \A f \in 1 .. n : f \in 1 .. l \/ f = n
      /\ n \in 1 .. n /\ ~(n <= l)
      /\ Line[n].first = x /\ Line[n].size = d
  <2>1. \A f \in 1 .. l : Line[f] = frames[f]
    BY <1>1, LineFacts, Zenon
  <2>2. Line[n] = [first |-> x, size |-> d]
    BY <1>1, <1>5, LineFacts
  <2>3. /\ \A f \in 1 .. l : f \in 1 .. n /\ f \in 1 .. n - 1 /\ f <= l /\ f < n
        /\ \A f \in 1 .. n - 1 : f \in 1 .. l
        /\ \A f \in 1 .. n : f \in 1 .. l \/ f = n
        /\ n \in 1 .. n /\ ~(n <= l)
    BY <1>1, LinePlaces
  <2>4. Line[n].first = x /\ Line[n].size = d
    BY <2>2, SMT
  <2>. QED  BY <2>1, <2>3, <2>4
<1>8. /\ Line \in [1 .. n -> Frame] /\ FramesInOrder(Line, n)
      /\ \A f \in 1 .. l : frames[f].size \in FrameSizes
  BY <1>1, Zenon DEF FramesOK
<1>9. CASE d + k = z
  <2>. DEFINE g == [first |-> x, size |-> z]
              h == [first |-> x + z, size |-> 0]
  <2>1. /\ Len(frames') = n /\ n + 1 \in Nat
        /\ \A f \in 1 .. l : frames'[f] = frames[f]
        /\ frames'[n] = g
    <3>1. frames \in Seq([first : Nat, size : Nat])
      BY Zenon DEF IInv, TypeOK, GhostsType
    <3>2. \A t \in Seq([first : Nat, size : Nat]), e \in [first : Nat, size : Nat] :
            Len(t) = l =>
              /\ Len(Append(t, e)) = l + 1
              /\ \A f \in 1 .. l : Append(t, e)[f] = t[f]
              /\ Append(t, e)[l + 1] = e
      BY SMT
    <3>3. n + 1 \in Nat /\ g \in [first : Nat, size : Nat]
      BY SMT
    <3>4. /\ Len(Append(frames, g)) = l + 1
          /\ \A f \in 1 .. l : Append(frames, g)[f] = frames[f]
          /\ Append(frames, g)[l + 1] = g
      BY <1>1, <3>1, <3>2, <3>3, Zenon
    <3>. QED  BY <1>1, <1>6, <1>9, <3>3, <3>4
  <2>2. /\ Lines' = n + 1
        /\ \A f \in 1 .. n + 1 : f \in 1 .. n \/ f = n + 1
        /\ \A f \in 1 .. n : f \in 1 .. n + 1 /\ f <= n
        /\ n + 1 \in 1 .. n + 1 /\ ~(n + 1 <= n) /\ n + 1 # n
    <3>1. Lines' = n + 1
      BY <2>1 DEF Lines
    <3>. QED  BY <3>1, SMT
  <2>3. /\ \A f \in 1 .. l : Line'[f] = frames[f]
        /\ Line'[n] = g /\ Line'[n + 1] = h
    <3>1. Line' = [f \in 1 .. n + 1 |-> IF f <= n THEN frames'[f]
                     ELSE [first |-> (a + k) - 0 + 1, size |-> 0]]
      <4>1. incoming'.done = 0
        BY <1>6, <1>9, SMT DEF NoFrame
      <4>. QED  BY <1>6, <2>1, <2>2, <4>1, Zenon DEF Line
    <3>2. (a + k) - 0 + 1 = x + z
      BY <1>4, <1>5, <1>9
    <3>. QED  BY <1>7, <2>1, <2>2, <3>1, <3>2, Zenon
  <2>4. g \in Frame /\ h \in Frame /\ g.first = x /\ g.size = z /\ h.first = x + z /\ h.size = 0
    BY SMT DEF Frame
  <2>. HIDE DEF g, h
  <2>5. PushedFrames(Line, n, Line', n + 1, k)
    BY <1>7, <1>9, <2>2, <2>3, <2>4, Zenon DEF PushedFrames
  <2>6. Line' \in [1 .. n + 1 -> Frame]
    <3>1. \A f \in 1 .. n + 1 : Line'[f] \in Frame
      BY <1>7, <1>8, <2>2, <2>3, <2>4, Zenon
    <3>2. Line' = [f \in 1 .. n + 1 |-> Line'[f]]
      BY <2>2, Zenon DEF Line
    <3>. QED  BY <3>1, <3>2, Zenon
  <2>7. FramesInOrder(Line', n + 1)
    BY <1>8, <2>1, <2>5, <2>6, OrderGrows, Zenon
  <2>8. \A f \in 1 .. Len(frames') : frames'[f].size \in FrameSizes
    <3>1. \A f \in 1 .. n : frames'[f].size \in FrameSizes
      <4>1. frames'[n].size \in FrameSizes
        BY <1>2, <2>1, <2>4
      <4>. QED  BY <1>7, <1>8, <2>1, <4>1, Zenon
    <3>. QED  BY <2>1, <3>1
  <2>9. incoming'.done = 0 /\ 0 % 4 = 0
    BY <1>6, <1>9, SMT DEF NoFrame
  <2>10. Comes(k)
    BY <1>1, <1>6, <1>9, <2>2, <2>3, <2>4, <2>5, <2>9, Zenon DEF Comes, g
  <2>. QED  BY <2>2, <2>6, <2>7, <2>8, <2>9, <2>10, Zenon DEF FramesOK
<1>10. CASE d + k # z
  <2>. DEFINE g == [first |-> x, size |-> d + k]
  <2>1. Lines' = n /\ frames' = frames /\ Len(frames') = l
    BY <1>1, <1>6, <1>10, Zenon DEF Lines
  <2>2. /\ \A f \in 1 .. l : Line'[f] = frames[f]
        /\ Line'[n] = g
    <3>1. Line' = [f \in 1 .. n |-> IF f <= l THEN frames[f]
                     ELSE [first |-> (a + k) - (d + k) + 1, size |-> d + k]]
      <4>1. incoming'.done = d + k
        BY <1>6, <1>10, SMT
      <4>. QED  BY <1>1, <1>6, <2>1, <4>1, Zenon DEF Line
    <3>. QED  BY <1>4, <1>5, <1>7, <3>1, Zenon
  <2>3. g \in Frame /\ g.first = x /\ g.size = d + k
    BY <1>4, SMT DEF Frame
  <2>. HIDE DEF g
  <2>4. PushedFrames(Line, n, Line', n, k) /\ k = 4
    BY <1>4, <1>7, <1>10, <2>2, <2>3, Zenon DEF PushedFrames
  <2>5. Line' \in [1 .. n -> Frame]
    <3>1. \A f \in 1 .. n : Line'[f] \in Frame
      BY <1>7, <1>8, <2>2, <2>3, Zenon
    <3>2. Line' = [f \in 1 .. n |-> Line'[f]]
      BY <2>1, Zenon DEF Line
    <3>. QED  BY <3>1, <3>2, Zenon
  <2>6. FramesInOrder(Line', n)
    <3>1. n \in Nat /\ PushedFrames(Line, n, Line', n, k)
      BY <2>4
    <3>2. Line \in [1 .. n -> Frame] /\ FramesInOrder(Line, n)
      BY <1>8
    <3>. QED  BY <2>5, <3>1, <3>2, OrderGrows, Zenon
  <2>7. incoming'.done = d + k /\ incoming'.size = z
    BY <1>6, <1>10, SMT
  <2>8. Comes(k)
    BY <1>1, <1>4, <1>6, <1>10, <2>1, <2>2, <2>3, <2>4, Zenon DEF Comes
  <2>. QED  BY <1>1, <1>4, <1>8, <1>10, <2>1, <2>5, <2>6, <2>7, <2>8, Zenon DEF FramesOK
<1>. QED  BY <1>9, <1>10

LEMMA SizesSame ==
  ASSUME NEW n \in Nat, NEW A, NEW G, NEW bc \in Seq(Nat), NEW j \in 1 .. n,
         Sizes(A, n, bc, j), \A f \in 1 .. n - 1 : G[f] = A[f]
  PROVE  Sizes(G, n, bc, j)
<1>1. Len(bc) \in Nat /\ Len(bc) = n - j
  BY DEF Sizes
<1>2. \A i \in 1 .. Len(bc) : j + i - 1 \in 1 .. n - 1
  BY <1>1, SMT
<1>. QED  BY <1>2, Zenon DEF Sizes

LEMMA SizesGrow ==
  ASSUME NEW n \in Nat \ {0}, NEW l, NEW A, NEW G, NEW k, PushedFrames(A, n, G, l, k),
         NEW bc \in Seq(Nat), NEW m \in 1 .. n, NEW fs, SizesOK(A, n, fs, bc, m),
         G[n].size \in Nat,
         NEW c, (l = n /\ c = bc) \/ (l = n + 1 /\ c = Append(bc, G[n].size))
  PROVE  SizesOK(G, l, fs, c, m)
<1>1. n \in Nat /\ \A f \in 1 .. n - 1 : G[f] = A[f]
  BY Zenon DEF PushedFrames
<1>2. ASSUME NEW j \in 1 .. n, Sizes(A, n, bc, j)
      PROVE  Sizes(G, l, c, j)
  <2>1. CASE l = n /\ c = bc
    <3>1. Sizes(G, n, bc, j)
      BY <1>1, <1>2, SizesSame, Zenon
    <3>. QED  BY <2>1, <3>1
  <2>2. CASE l = n + 1 /\ c = Append(bc, G[n].size)
    <3>1. PICK z \in Nat : z = G[n].size
      OBVIOUS
    <3>2. Sizes(G, n + 1, Append(bc, z), j)
      BY <1>1, <1>2, <3>1, SizesMore, Zenon
    <3>. QED  BY <2>2, <3>1, <3>2
  <2>. QED  BY <2>1, <2>2
<1>3. CASE fs = 0
  BY <1>2, <1>3, Zenon DEF SizesOK
<1>4. CASE fs # 0
  <2>1. m < n /\ fs = A[m].size /\ Sizes(A, n, bc, m + 1)
    BY <1>4, Zenon DEF SizesOK
  <2>2. m + 1 \in 1 .. n /\ m \in 1 .. n - 1
    BY <2>1, SMT
  <2>3. m < l
    <3>1. l \in {n, n + 1}
      BY Zenon DEF PushedFrames
    <3>. QED  BY <2>1, <3>1, SMT
  <2>. QED  BY <1>1, <1>2, <1>4, <2>1, <2>2, <2>3, Zenon DEF SizesOK
<1>. QED  BY <1>3, <1>4

LEMMA PushGrows ==
  ASSUME NEW n \in Nat \ {0}, NEW l \in Nat, NEW A \in [1 .. n -> Frame], NEW G,
         NEW k \in 1 .. 4, PushedFrames(A, n, G, l, k), A[n].size % 4 = 0
  PROVE  Grows(A, n, G, l)
<1>1. PICK z \in Nat, y \in Nat : z = A[n].size /\ y = G[n].size /\ y = z + k
  <2>1. n \in 1 .. n
    BY SMT
  <2>2. A[n].size \in Nat
    BY <2>1, FrameFacts, Zenon
  <2>3. \A i \in Nat, j \in 1 .. 4 : i + j \in Nat
    BY SMT
  <2>. QED  BY <2>2, <2>3, Zenon DEF PushedFrames
<1>2. \A i \in Nat, j \in 1 .. 4 : i <= i + j /\ i < i + j
  BY SMT
<1>3. A[n].size <= G[n].size /\ A[n].size < G[n].size
  BY <1>1, <1>2, Zenon
<1>. QED  BY <1>3, Zenon DEF Grows, PushedFrames

LEMMA CardGrows ==
  ASSUME NEW n \in Nat \ {0}, NEW l \in Nat, NEW A \in [1 .. n -> Frame],
         NEW G \in [1 .. l -> Frame], NEW k \in 1 .. 4, PushedFrames(A, n, G, l, k),
         A[n].size % 4 = 0, FramesInOrder(A, n),
         NEW s \in Seq(Nat), NEW m \in 1 .. n, NEW b \in Nat, NEW p \in [Nat -> Int],
         InCard(A, n, s, m, b, p), NEW e \in Nat, e = A[n].first + A[n].size - 1
  PROVE  InCard(G, l, s \o Word(e, k), m, b, [p EXCEPT ![n + 1] = Len(s) + 4])
<1>1. PICK t : t = s \o Word(e, k)
  OBVIOUS
<1>2. Longer(t, s, e, k)
  BY <1>1, WordConcat, Zenon
<1>3. InCard(G, l, t, m, b, [p EXCEPT ![n + 1] = Len(s) + 4])
  BY <1>2, CardPush, Zenon
<1>. QED  BY <1>1, <1>3

(* Where the tasklet is in the queue. *)
LEMMA FillPlace ==
  ASSUME NEW n \in Nat \ {0}, NEW A, NEW r, NEW u, NEW q \in 0 .. RxNum, NEW fr, NEW of, NEW b,
         InFrames(A, n, r, u, q, fr, of, b)
  PROVE  fr[q] \in 1 .. n /\ fr[0] \in 1 .. n /\ of[0] <= A[fr[0]].size
<1>1. q \in 0 .. q /\ 0 \in 0 .. q
  BY SMT
<1>. QED  BY <1>1, Zenon DEF InFrames, InRange

LEMMA FrameWordHolds ==
  ASSUME IInv, FramesOK, NEW x, HoldsFrom(x), NEW s \in FrameSizes, HwFrameWord(s)
  PROVE  HoldsFrom(x)' /\ FramesOK'
<1>1. PICK k \in 1 .. 4 : Comes(k)
  BY WordLine
<1>2. FramesOK'
  BY WordLine
<1>3. PICK q \in 0 .. RxNum, fr \in [0 .. RxNum -> Nat], of \in [0 .. RxNum -> Nat],
           p \in [Nat -> Int] :
        /\ InRow(rx, fifo_rx_desc, Front, q) /\ fr[0] = x
        /\ InFrames(Line, Lines, rx, Front, q, fr, of, rx_bytes_in_frame)
        /\ InCard(Line, Lines, rxfifo, fr[q], rx_bytes_in_frame, p)
        /\ SizesOK(Line, Lines, rx_frame_size, bcfl, fr[q])
        /\ Midway => x < fr[q] /\ Reading(Line[x], of[0])
        /\ ~Midway => of[0] = 0
  BY Zenon DEF HoldsFrom
<1>4a. PICK n \in Nat \ {0}, l \in Nat : n = Lines /\ l = Lines'
  <2>1. Lines' \in Nat
    <3>1. Lines + 1 \in Nat
      BY FrameTypes, SMT
    <3>. QED  BY <1>1, <3>1, FrameTypes, Zenon DEF Comes
  <2>. QED  BY <2>1, FrameTypes
<1>4b. PICK A, G : A = Line /\ G = Line'
  OBVIOUS
<1>4. n = Lines /\ l = Lines' /\ A = Line /\ G = Line'
  BY <1>4a, <1>4b
<1>5. /\ A \in [1 .. n -> Frame] /\ G \in [1 .. l -> Frame] /\ FramesInOrder(A, n)
      /\ PushedFrames(A, n, G, l, k)
  BY <1>1, <1>2, <1>4 DEF FramesOK, Comes
<1>6. PICK e \in Nat : e = arrived /\ e = A[n].first + A[n].size - 1 /\ A[n].size % 4 = 0
  <2>1. Line[Lines].first = arrived - incoming.done + 1 /\ Line[Lines].size = incoming.done
    <3>1. Line[Lines] = [first |-> arrived - incoming.done + 1, size |-> incoming.done]
      BY LineFacts, Zenon
    <3>2. \A a, b : [first |-> a, size |-> b].first = a /\ [first |-> a, size |-> b].size = b
      BY SMT
    <3>. QED  BY <3>1, <3>2
  <2>2. PICK a \in Nat, d \in Nat : a = arrived /\ d = incoming.done /\ d % 4 = 0
    BY FrameTypes DEF FramesOK
  <2>3. (a - d + 1) + d - 1 = a
    BY SMT
  <2>. QED  BY <1>4, <2>1, <2>2, <2>3
<1>7. PICK b \in Nat, c \in Seq(Nat), m \in 1 .. n :
        b = rx_bytes_in_frame /\ c = rxfifo /\ m = fr[q] /\ x \in 1 .. n
  <2>1. InFrames(A, n, rx, Front, q, fr, of, rx_bytes_in_frame)
    BY <1>3, <1>4
  <2>2. fr[q] \in 1 .. n /\ fr[0] \in 1 .. n
    BY <2>1, FillPlace, Zenon
  <2>. QED  BY <1>3, <2>2, FrameTypes
<1>8. UNCHANGED <<rx, user_rx_desc, fifo_rx_desc, rx_frame_size, rx_bytes_in_frame, pc,
                  bytes_in_descs, total_valid_data, filled_frame_size, out>>
  BY Zenon DEF HwFrameWord, ring, callers, locals
<1>9. Front' = Front /\ (Midway' <=> Midway)
  BY <1>8, Zenon DEF Front, Midway
<1>10. InFrames(G, l, rx, Front, q, fr, of, b)
  <2>1. Grows(A, n, G, l)
    BY <1>5, <1>6, PushGrows, Zenon
  <2>2. InFrames(A, n, rx, Front, q, fr, of, b) /\ rx \in [Position -> DescType]
        /\ Front \in Position
    BY <1>3, <1>4, <1>7, FrameTypes
  <2>. QED  BY <1>5, <2>1, <2>2, RingGrows, Zenon
<1>11. InCard(G, l, c \o Word(e, k), m, b, [p EXCEPT ![n + 1] = Len(c) + 4])
  <2>1. InCard(A, n, c, m, b, p)
    BY <1>3, <1>4, <1>7
  <2>. QED  BY <1>5, <1>6, <1>7, <2>1, CardGrows, Zenon
<1>12. PICK g \in [Nat -> Int] : InCard(G, l, rxfifo', m, b, g)
  <2>1. [p EXCEPT ![n + 1] = Len(c) + 4] \in [Nat -> Int]
    <3>1. Len(c) + 4 \in Int
      BY <1>7, SMT
    <3>. QED  BY <3>1, Zenon
  <2>2. rxfifo' = c \o Word(e, k)
    BY <1>1, <1>6, <1>7, Zenon DEF Comes
  <2>. QED  BY <1>11, <2>1, <2>2
<1>13. SizesOK(G, l, rx_frame_size, bcfl', m)
  <2>1. SizesOK(A, n, rx_frame_size, bcfl, m) /\ bcfl \in Seq(Nat)
    BY <1>3, <1>4, <1>7, FrameTypes
  <2>2. (l = n /\ bcfl' = bcfl) \/ (l = n + 1 /\ bcfl' = Append(bcfl, G[n].size))
    BY <1>1, <1>4, Zenon DEF Comes
  <2>3. G[n].size \in Nat
    <3>1. n \in 1 .. l
      BY <1>5, SMT DEF PushedFrames
    <3>. QED  BY <1>5, <3>1, FrameFacts, Zenon
  <2>. QED  BY <1>5, <2>1, <2>2, <2>3, SizesGrow, Zenon
<1>14. x < m => G[x] = A[x]
  <2>1. x < m => x \in 1 .. n - 1
    BY <1>7, SMT
  <2>. QED  BY <1>5, <2>1, Zenon DEF PushedFrames
<1>15. /\ Midway => x < m /\ Reading(Line[x], of[0])
  BY <1>3, <1>7
<1>16. HoldsFrom(x)'
  <2>0. Midway => Line'[x] = Line[x]
    BY <1>4, <1>14, <1>15
  <2>1. Midway' => x < m /\ Reading(Line[x], of[0])'
    BY <1>8, <1>9, <1>15, <2>0, Zenon DEF Reading
  <2>. QED  BY <1>3, <1>4, <1>7, <1>8, <1>9, <1>10, <1>12, <1>13, <2>1, Zenon DEF HoldsFrom
<1>. QED  BY <1>2, <1>16

LEMMA FrameWordRaced ==
  ASSUME FrameHypothesis, IInv, FramesOK, RacedOK, NEW s \in FrameSizes, HwFrameWord(s)
  PROVE  RacedOK'
<1>. SUFFICES ASSUME ipc' = "copy", rx_frame_size' = 0
              PROVE  raced' # 0 /\ RaceWords # 0
                     /\ (bcfl' # <<>> => Len(bcfl') = 1 /\ incoming'.done = 0)
  BY Zenon DEF RacedOK
<1>1. ipc = "copy" /\ rx_frame_size = 0 /\ raced < RaceWords /\ raced' = raced + 1
  BY Zenon DEF HwFrameWord, MayArrive, ring
<1>2. raced = 0 /\ RaceWords # 0 /\ raced' # 0
  <2>1. raced \in Nat
    BY Zenon DEF IInv, TypeOK, HandlersType
  <2>2. RaceWords = 0 \/ RaceWords = 1
    BY Zenon DEF FrameHypothesis
  <2>. QED  BY <1>1, <2>1, <2>2, SMT
<1>3. bcfl = <<>>
  BY <1>1, <1>2, Zenon DEF RacedOK
<1>4. PICK k \in 1 .. 4 : Comes(k)
  BY WordLine
<1>5. bcfl' = <<>> \/ (incoming'.done = 0 /\ \E z : bcfl' = Append(<<>>, z))
  BY <1>3, <1>4, Zenon DEF Comes
<1>6. \A z : Append(<<>>, z) = <<z>> /\ Len(<<z>>) = 1
  BY SMT
<1>. QED  BY <1>2, <1>5, <1>6, Zenon

-----------------------------------------------------------------------------
(* The steps that move no byte *)

KeepsHeld ==
  /\ UNCHANGED <<rx, fifo_rx_desc, rx_frame_size, rx_bytes_in_frame, rxfifo, bcfl, incoming,
                 arrived, frames>>
  /\ Front' = Front
KeepsRead ==
  /\ UNCHANGED <<bytes_in_descs, total_valid_data, filled_frame_size, out>>
  /\ Midway' <=> Midway

LEMMA LineSame ==
  ASSUME UNCHANGED <<incoming, arrived, frames>>
  PROVE  /\ Lines' = Lines /\ Line' = Line
         /\ FramesOK => FramesOK'
<1>1. Lines' = Lines
  BY Zenon DEF Lines
<1>2. Line' = Line
  BY <1>1, Zenon DEF Line
<1>. QED  BY <1>1, <1>2, Zenon DEF FramesOK

LEMMA FrameStill ==
  ASSUME NEW x, HoldsFrom(x), KeepsHeld, KeepsRead \/ ~(Midway \/ Midway')
  PROVE  HoldsFrom(x)'
<1>1. PICK q \in 0 .. RxNum, fr \in [0 .. RxNum -> Nat], of \in [0 .. RxNum -> Nat],
           p \in [Nat -> Int] :
        /\ InRow(rx, fifo_rx_desc, Front, q) /\ fr[0] = x
        /\ InFrames(Line, Lines, rx, Front, q, fr, of, rx_bytes_in_frame)
        /\ InCard(Line, Lines, rxfifo, fr[q], rx_bytes_in_frame, p)
        /\ SizesOK(Line, Lines, rx_frame_size, bcfl, fr[q])
        /\ Midway => x < fr[q] /\ Reading(Line[x], of[0])
        /\ ~Midway => of[0] = 0
  BY Zenon DEF HoldsFrom
<1>2. Lines' = Lines /\ Line' = Line
  BY LineSame, Zenon DEF KeepsHeld
<1>3. /\ Midway' => x < fr[q] /\ Reading(Line[x], of[0])'
      /\ ~Midway' => of[0] = 0
  <2>1. CASE KeepsRead
    BY <1>1, <1>2, <2>1, Zenon DEF KeepsRead, Reading
  <2>2. CASE ~(Midway \/ Midway')
    BY <1>1, <2>2, Zenon
  <2>. QED  BY <2>1, <2>2
<1>. QED  BY <1>1, <1>2, <1>3, Zenon DEF HoldsFrom, KeepsHeld

(* The tasklet takes the size of the frame that it moves. *)
LEMMA IframeHeadHolds ==
  ASSUME IInv, FramesOK, NEW x, HoldsFrom(x), IframeHead
  PROVE  HoldsFrom(x)' /\ RacedOK'
<1>1. PICK q \in 0 .. RxNum, fr \in [0 .. RxNum -> Nat], of \in [0 .. RxNum -> Nat],
           p \in [Nat -> Int] :
        /\ InRow(rx, fifo_rx_desc, Front, q) /\ fr[0] = x
        /\ InFrames(Line, Lines, rx, Front, q, fr, of, rx_bytes_in_frame)
        /\ InCard(Line, Lines, rxfifo, fr[q], rx_bytes_in_frame, p)
        /\ SizesOK(Line, Lines, rx_frame_size, bcfl, fr[q])
        /\ Midway => x < fr[q] /\ Reading(Line[x], of[0])
        /\ ~Midway => of[0] = 0
  BY Zenon DEF HoldsFrom
<1>2. /\ UNCHANGED <<rx, user_rx_desc, fifo_rx_desc, rx_bytes_in_frame, rxfifo, incoming,
                     arrived, frames, pc, bytes_in_descs, total_valid_data,
                     filled_frame_size, out>>
      /\ \/ UNCHANGED <<rx_frame_size, bcfl>> /\ ipc' = "ready"
         \/ /\ UNCHANGED <<rx_frame_size, bcfl>> /\ raced' = 0
            /\ rx_frame_size # 0 \/ bcfl = <<>>
         \/ /\ rx_frame_size = 0 /\ bcfl # <<>>
            /\ rx_frame_size' = Head(bcfl) /\ bcfl' = Tail(bcfl)
  BY Zenon DEF IframeHead, callers, locals, ghosts
<1>3. Lines' = Lines /\ Line' = Line /\ Front' = Front /\ (Midway' <=> Midway)
  <2>1. Lines' = Lines /\ Line' = Line
    BY <1>2, LineSame, Zenon
  <2>. QED  BY <1>2, <2>1, Zenon DEF Front, Midway
<1>4. CASE /\ UNCHANGED <<rx_frame_size, bcfl>>
           /\ ipc' = "ready" \/ (raced' = 0 /\ (rx_frame_size # 0 \/ bcfl = <<>>))
  <2>1. HoldsFrom(x)'
    BY <1>2, <1>3, <1>4, FrameStill, Zenon DEF KeepsHeld, KeepsRead
  <2>2. RacedOK'
    <3>1. "ready" # "copy"
      OBVIOUS
    <3>. QED  BY <1>4, <3>1, Zenon DEF RacedOK
  <2>. QED  BY <2>1, <2>2
<1>5. CASE /\ rx_frame_size = 0 /\ bcfl # <<>>
           /\ rx_frame_size' = Head(bcfl) /\ bcfl' = Tail(bcfl)
  <2>0. PICK n \in Nat \ {0} : n = Lines
    BY FrameTypes
  <2>1. PICK m \in 1 .. n : n = Lines /\ m = fr[q]
    <3>1. InFrames(Line, n, rx, Front, q, fr, of, rx_bytes_in_frame)
      BY <1>1, <2>0
    <3>. QED  BY <2>0, <3>1, FillPlace, Zenon
  <2>2. m < n /\ Head(bcfl) = Line[m].size /\ Sizes(Line, n, Tail(bcfl), m + 1)
    <3>1. Sizes(Line, n, bcfl, m) /\ bcfl \in Seq(Nat)
      BY <1>1, <1>5, <2>1, FrameTypes, Zenon DEF SizesOK
    <3>. QED  BY <1>5, <3>1, SizesHead, Zenon
  <2>3. Line[m].size # 0
    <3>1. m \in 1 .. Len(frames)
      BY <2>1, <2>2, FrameTypes, SMT
    <3>. QED  BY <3>1, LineFacts, SizesAssumption, Zenon DEF FramesOK
  <2>4. SizesOK(Line, n, rx_frame_size', bcfl', m) /\ rx_frame_size' # 0
    BY <1>5, <2>2, <2>3, Zenon DEF SizesOK
  <2>5. /\ Midway' => x < fr[q] /\ Reading(Line[x], of[0])'
        /\ ~Midway' => of[0] = 0
    BY <1>1, <1>2, <1>3, Zenon DEF Reading
  <2>6. HoldsFrom(x)'
    BY <1>1, <1>2, <1>3, <2>1, <2>4, <2>5, Zenon DEF HoldsFrom
  <2>. QED  BY <2>4, <2>6, Zenon DEF RacedOK
<1>. QED  BY <1>2, <1>4, <1>5

-----------------------------------------------------------------------------
(* A purge *)

LEMMA OrderSkip ==
  ASSUME NEW n \in Nat \ {0}, NEW A \in [1 .. n -> Frame], NEW G, FramesInOrder(A, n),
         \A f \in 1 .. n - 1 : G[f] = A[f], G[n].first \in Nat, A[n].first <= G[n].first
  PROVE  FramesInOrder(G, n)
<1>. SUFFICES ASSUME NEW f \in 1 .. n, NEW g \in 1 .. n, f < g
              PROVE  G[f].first + G[f].size <= G[g].first
  BY Zenon DEF FramesInOrder
<1>1. f \in 1 .. n - 1 /\ (g \in 1 .. n - 1 \/ g = n) /\ n \in 1 .. n
  BY SMT
<1>2. A[f].first + A[f].size <= A[g].first
  BY Zenon DEF FramesInOrder
<1>3. CASE g \in 1 .. n - 1
  BY <1>1, <1>2, <1>3, Zenon
<1>4. CASE g = n
  <2>1. PICK x \in Nat, y \in Nat, z \in Nat, v \in Nat :
          x = A[f].first + A[f].size /\ y = A[n].first /\ z = G[n].first /\ v = 0
    <3>1. PICK i \in Nat, j \in Nat : i = A[f].first /\ j = A[f].size
      BY FrameFacts
    <3>2. i + j \in Nat
      BY SMT
    <3>3. A[n].first \in Nat
      BY <1>1, FrameFacts, Zenon
    <3>. QED  BY <3>1, <3>2, <3>3
  <2>2. x <= z
    BY <1>2, <1>4, <2>1, Below, Zenon
  <2>. QED  BY <1>1, <1>4, <2>1, <2>2, Zenon
<1>. QED  BY <1>1, <1>3, <1>4

LEMMA FramePurge ==
  ASSUME FrameHypothesis, IInv, FramesOK, PurgeRx, NEW n, n = Lines
  PROVE  HoldsFrom(n)' /\ FramesOK' /\ RacedOK' /\ Lines' = n
<1>1. /\ rxfifo' = <<>> /\ bcfl' = <<>> /\ incoming' = NoFrame
      /\ rx' = [p \in Position |-> Free]
      /\ user_rx_desc' = 0 /\ fifo_rx_desc' = 0 /\ rx_frame_size' = 0 /\ rx_bytes_in_frame' = 0
      /\ UNCHANGED <<arrived, frames, pc, ipc>>
      /\ ipc \notin {"head", "copy"} /\ \A r \in Readers : pc[r] \notin {"move", "advance"}
  BY Zenon DEF PurgeRx, FrameHypothesis, callers, handlers, LockFree
<1>2. Front' = 0 /\ ~Midway'
  BY <1>1, Zenon DEF Front, Midway
<1>3. RacedOK'
  BY <1>1, Zenon DEF RacedOK
<1>4. incoming'.done = 0
  BY <1>1, SMT DEF NoFrame
<1>5. PICK a \in Nat, d \in Nat, l \in Nat :
        /\ a = arrived /\ d = incoming.done /\ l = Len(frames) /\ n = l + 1
        /\ d <= a /\ n \in Nat \ {0}
  BY FrameTypes
<1>6. /\ \A f \in 1 .. l : f \in 1 .. n /\ f \in 1 .. n - 1 /\ f <= l /\ f < n
      /\ \A f \in 1 .. n - 1 : f \in 1 .. l
      /\ \A f \in 1 .. n : f \in 1 .. l \/ f = n
      /\ n \in 1 .. n /\ ~(n <= l)
  BY <1>5, LinePlaces
<1>7. /\ \A f \in 1 .. l : Line[f] = frames[f]
      /\ Line[n] = [first |-> a - d + 1, size |-> d]
      /\ Line \in [1 .. n -> Frame] /\ FramesInOrder(Line, n)
  <2>1. \A f \in 1 .. l : Line[f] = frames[f]
    BY <1>5, LineFacts, Zenon
  <2>2. Line[n] = [first |-> a - d + 1, size |-> d]
    BY <1>5, LineFacts
  <2>. QED  BY <2>1, <2>2 DEF FramesOK
<1>8. Lines' = n /\ Len(frames') = l
  BY <1>1, <1>5, Zenon DEF Lines
<1>. DEFINE g == [first |-> a + 1, size |-> 0]
<1>9. /\ \A f \in 1 .. l : Line'[f] = frames[f]
      /\ Line'[n] = g
  <2>1. Line' = [f \in 1 .. n |-> IF f <= l THEN frames[f]
                   ELSE [first |-> a - 0 + 1, size |-> 0]]
    BY <1>1, <1>4, <1>5, <1>8, Zenon DEF Line
  <2>2. a - 0 + 1 = a + 1
    BY SMT
  <2>. QED  BY <1>6, <2>1, <2>2, Zenon
<1>10. /\ g \in Frame /\ g.first = a + 1 /\ g.size = 0 /\ g.first \in Nat
       /\ Line[n].first <= g.first
  <2>1. g \in Frame /\ g.first = a + 1 /\ g.size = 0 /\ g.first \in Nat
    BY SMT DEF Frame
  <2>2. Line[n].first = a - d + 1
    BY <1>7, SMT
  <2>3. a - d + 1 <= a + 1
    BY SMT
  <2>. QED  BY <2>1, <2>2, <2>3
<1>. HIDE DEF g
<1>11. Line' \in [1 .. n -> Frame] /\ FramesInOrder(Line', n)
  <2>1. \A f \in 1 .. n : Line'[f] \in Frame
    BY <1>6, <1>7, <1>9, <1>10, Zenon
  <2>2. Line' = [f \in 1 .. n |-> Line'[f]]
    BY <1>8, Zenon DEF Line
  <2>3. Line' \in [1 .. n -> Frame]
    BY <2>1, <2>2, Zenon
  <2>4. \A f \in 1 .. n - 1 : Line'[f] = Line[f]
    BY <1>6, <1>7, <1>9, Zenon
  <2>5. Line'[n].first \in Nat /\ Line[n].first <= Line'[n].first
    BY <1>9, <1>10
  <2>. QED  BY <1>5, <1>7, <2>3, <2>4, <2>5, OrderSkip, Zenon
<1>12. FramesOK'
  <2>1. \A f \in 1 .. Len(frames') : frames'[f].size \in FrameSizes
    BY <1>1, Zenon DEF FramesOK
  <2>2. 0 % 4 = 0
    BY SMT
  <2>. QED  BY <1>4, <1>8, <1>11, <2>1, <2>2, Zenon DEF FramesOK
<1>. DEFINE fr == [k \in 0 .. RxNum |-> n]
            of == [k \in 0 .. RxNum |-> 0]
            p == [k \in Nat |-> 0]
<1>13. /\ fr \in [0 .. RxNum -> Nat] /\ of \in [0 .. RxNum -> Nat] /\ p \in [Nat -> Int]
       /\ fr[0] = n /\ of[0] = 0 /\ p[n] = 0 /\ 0 \in 0 .. RxNum
  BY <1>5, SMT
<1>. HIDE DEF fr, of, p
<1>14. InFrames(Line', n, rx', 0, 0, fr, of, 0) /\ InRow(rx', 0, 0, 0)
  BY <1>1, <1>5, <1>11, <1>13, FramesEmpty, Zenon
<1>15. InCard(Line', n, <<>>, n, 0, p)
  <2>1. Line'[n].size = 0
    BY <1>9, <1>10
  <2>. QED  BY <1>5, <1>13, <2>1, CardEmpty, Zenon
<1>16. SizesOK(Line', n, 0, <<>>, n)
  <2>1. Len(<<>>) = n - n /\ \A i \in 1 .. Len(<<>>) : FALSE
    BY <1>5, SMT
  <2>. QED  BY <2>1, Zenon DEF SizesOK, Sizes
<1>17. HoldsFrom(n)'
  BY <1>1, <1>2, <1>8, <1>13, <1>14, <1>15, <1>16, Zenon DEF HoldsFrom
<1>. QED  BY <1>3, <1>8, <1>12, <1>17

-----------------------------------------------------------------------------
(* The tasklet moves bytes *)

LEMMA NumMinus ==
  ASSUME NEW b \in Nat, NEW i \in Nat
  PROVE  i - (0 - b) = b + i /\ (i > 0 => 0 - b < i)
BY SMT

FirstPlace(i, l, b, w) == i \in 1 .. l /\ i <= l /\ i > 0 /\ i \in Nat /\ b + i <= w

LEMMA InFirst ==
  ASSUME NEW k \in Nat, NEW l \in Nat, k <= l, NEW i \in 1 .. k, NEW b \in Nat, NEW w \in Nat,
         b + k <= w
  PROVE  FirstPlace(i, l, b, w)
BY SMT DEF FirstPlace

Takes(s, k, f, b) == \A i \in 1 .. k : Bytes(s, k)[i] = ByteAt(f, b + i)

(* The first bytes in the FIFO are the next ones of the frame. *)
LEMMA FifoTake ==
  ASSUME NEW n \in Nat, NEW A, NEW s \in Seq(Nat), NEW m \in 1 .. n,
         NEW b \in Nat, NEW p, InCard(A, n, s, m, b, p), NEW w \in Nat,
         w = WordBytes(A[m].size), NEW k \in Nat, k <= Len(s), b + k <= w
  PROVE  Takes(s, k, A[m], b)
<1>. SUFFICES ASSUME NEW i \in 1 .. k
              PROVE  Bytes(s, k)[i] = ByteAt(A[m], b + i)
  BY Zenon DEF Takes
<1>1. PICK l \in Nat : l = Len(s) /\ k <= l
  OBVIOUS
<1>2. i \in 1 .. l /\ i <= l /\ i > 0 /\ i \in Nat /\ b + i <= w
  <2>1. FirstPlace(i, l, b, w)
    BY <1>1, InFirst, Zenon
  <2>. QED  BY <2>1, Zenon DEF FirstPlace
<1>3. i - (0 - b) = b + i /\ 0 - b < i
  BY <1>2, NumMinus, Zenon
<1>4. m \in m .. n
  BY SMT
<1>5. FifoByte(A[m], s[i], b + i)
  BY <1>1, <1>2, <1>3, <1>4, Zenon DEF InCard
<1>6. Bytes(s, k)[i] = s[i]
  BY <1>1, <1>2, Zenon DEF Bytes
<1>. QED  BY <1>2, <1>5, <1>6, Zenon DEF FifoByte

LEMMA BytesLen ==
  ASSUME NEW s \in Seq(Nat), NEW k \in Nat
  PROVE  Bytes(s, k) \in Seq(Nat) /\ Len(Bytes(s, k)) = k
<1>1. Bytes(s, k) \in Seq(Nat)
  BY BytesType
<1>2. DOMAIN Bytes(s, k) = 1 .. k
  BY Zenon DEF Bytes
<1>3. \A t \in Seq(Nat) : DOMAIN t = 1 .. k => Len(t) = k
  BY SMT
<1>. QED  BY <1>1, <1>2, <1>3, Zenon

TakenPart(d, s, k, f, o) ==
  /\ Part(d.data \o Bytes(s, k), f, o)
  /\ Len(d.data \o Bytes(s, k)) = d.cnt + k

LEMMA TakePart ==
  ASSUME NEW n \in Nat, NEW A, NEW s \in Seq(Nat), NEW m \in 1 .. n,
         NEW b \in Nat, NEW p, InCard(A, n, s, m, b, p), NEW d \in DescType, NEW o \in Nat,
         Part1(d, A[m], o, b), NEW w \in Nat,
         w = WordBytes(A[m].size), NEW k \in Nat, k <= Len(s), b + k <= w
  PROVE  TakenPart(d, s, k, A[m], o)
<1>1. Bytes(s, k) \in Seq(Nat) /\ Len(Bytes(s, k)) = k
  BY BytesLen, Zenon
<1>2. Takes(s, k, A[m], b)
  BY FifoTake, Zenon
<1>3. d.data \in Seq(Nat) /\ Len(d.data) = d.cnt /\ b = o + d.cnt /\ Part(d.data, A[m], o)
  BY DescFacts, Zenon DEF Part1
<1>4. Part(d.data \o Bytes(s, k), A[m], o)
  <2>1. \A i \in 1 .. Len(Bytes(s, k)) : Bytes(s, k)[i] = ByteAt(A[m], o + Len(d.data) + i)
    BY <1>1, <1>2, <1>3 DEF Takes
  <2>. QED  BY <1>1, <1>3, <2>1, PartMore, Zenon
<1>5. \A t \in Seq(Nat), v \in Seq(Nat) : Len(t \o v) = Len(t) + Len(v)
  BY SMT
<1>6. Len(d.data \o Bytes(s, k)) = d.cnt + k
  BY <1>1, <1>3, <1>5
<1>. QED  BY <1>4, <1>6 DEF TakenPart

RestSum(b, w, l, z, y) ==
  /\ (0 - b) + w = w - b
  /\ (0 - b) + w <= y => w <= b + l
  /\ y = (0 - b) + w /\ z = 0 => w = b + l
  /\ y = 0 - b => z = b + l

LEMMA RestArith ==
  ASSUME NEW b \in Nat, NEW w \in Nat, NEW l \in Nat, NEW z \in Nat, NEW y \in Int,
         l = y + z
  PROVE  RestSum(b, w, l, z, y)
BY SMT DEF RestSum

(* The FIFO has the words of a frame that has ended. *)
RestWords(A, n, s, m, b, p, w) ==
  /\ m < n => w <= b + Len(s) /\ p[m + 1] = w - b
  /\ m < n /\ m + 1 = n /\ A[n].size = 0 => w = b + Len(s)
  /\ m = n => A[n].size = b + Len(s)
  /\ p[m] = 0 - b

LEMMA CardRest ==
  ASSUME NEW n \in Nat, NEW A \in [1 .. n -> Frame], NEW s \in Seq(Nat), NEW m \in 1 .. n,
         NEW b \in Nat, NEW p \in [Nat -> Int], InCard(A, n, s, m, b, p),
         NEW w \in Nat, w = WordBytes(A[m].size)
  PROVE  RestWords(A, n, s, m, b, p, w)
<1>1. PICK z \in Nat, l \in Nat, y \in Int : z = A[n].size /\ l = Len(s) /\ y = p[n]
  <2>1. n \in 1 .. n /\ n \in Nat
    BY SMT
  <2>2. A[n].size \in Nat /\ p[n] \in Int
    BY <2>1, FrameFacts, Zenon
  <2>3. Len(s) \in Nat
    OBVIOUS
  <2>. QED  BY <2>2, <2>3
<1>2. l = y + z /\ p[m] = 0 - b /\ RestSum(b, w, l, z, y)
  <2>1. l = y + z /\ p[m] = 0 - b
    BY <1>1, Zenon DEF InCard
  <2>. QED  BY <2>1, RestArith, Zenon
<1>3. CASE m < n
  <2>1. m \in m .. n - 1 /\ m \in m .. n /\ n \in m .. n
    BY <1>3, SMT
  <2>2. p[m + 1] = (0 - b) + w /\ (0 - b) + w <= y
    BY <1>1, <1>2, <1>3, <2>1, Zenon DEF InCard
  <2>3. (0 - b) + w = w - b /\ w <= b + l
    BY <1>2, <2>2, Zenon DEF RestSum
  <2>4. m + 1 = n /\ z = 0 => w = b + l
    <3>1. m + 1 = n => y = (0 - b) + w
      BY <1>1, <2>2
    <3>. QED  BY <1>2, <3>1, Zenon DEF RestSum
  <2>5. m # n
    BY <1>3, SMT
  <2>. QED  BY <1>1, <1>2, <2>2, <2>3, <2>4, <2>5 DEF RestWords
<1>4. CASE ~(m < n)
  <2>1. m = n
    BY <1>4, SMT
  <2>2. z = b + l
    <3>1. y = 0 - b
      BY <1>1, <1>2, <2>1
    <3>. QED  BY <1>2, <3>1, Zenon DEF RestSum
  <2>. QED  BY <1>1, <1>2, <1>4, <2>1, <2>2 DEF RestWords
<1>. QED  BY <1>3, <1>4

(* Of the n frames A, ring and card hold those from byte o of frame x on; the *)
(* tasklet has moved b bytes of frame m, its descriptor has those after y.    *)
HoldsAt(A, n, r, u, q, s, b, x, o, m, y) ==
  \E fr \in [0 .. RxNum -> Nat], of \in [0 .. RxNum -> Nat], p \in [Nat -> Int] :
    /\ fr[0] = x /\ of[0] = o /\ fr[q] = m /\ of[q] = y
    /\ InFrames(A, n, r, u, q, fr, of, b) /\ InCard(A, n, s, m, b, p)

AtPlace(A, n, d, s, b, m, y) ==
  /\ m \in 1 .. n /\ y \in Nat /\ y \in Fills /\ Part1(d, A[m], y, b)
  /\ b % 4 = 0 /\ b <= WordBytes(A[m].size)
  /\ m < n => WordBytes(A[m].size) <= b + Len(s)
  /\ m < n /\ m + 1 = n /\ A[n].size = 0 => WordBytes(A[m].size) = b + Len(s)
  /\ m = n => A[n].size = b + Len(s)

LEMMA AtFacts ==
  ASSUME NEW n \in Nat \ {0}, NEW A \in [1 .. n -> Frame], NEW r, NEW s \in Seq(Nat),
         NEW u \in Position, NEW q \in 0 .. RxNum, q < RxNum, NEW b \in Nat,
         NEW x, NEW o, NEW m, NEW y, HoldsAt(A, n, r, u, q, s, b, x, o, m, y),
         NEW f, f = RingAt(RxNum, u, q)
  PROVE  AtPlace(A, n, r[f], s, b, m, y)
<1>1. PICK fr \in [0 .. RxNum -> Nat], of \in [0 .. RxNum -> Nat], p \in [Nat -> Int] :
        /\ fr[q] = m /\ of[q] = y
        /\ InFrames(A, n, r, u, q, fr, of, b) /\ InCard(A, n, s, m, b, p)
  BY Zenon DEF HoldsAt
<1>2. m \in 1 .. n
  BY <1>1, FillPlace, Zenon
<1>3. y \in Nat
  BY <1>1
<1>4. /\ Part1(r[f], A[m], y, b) /\ b % 4 = 0 /\ b <= WordBytes(A[m].size) /\ y \in Fills
  BY <1>1, Zenon DEF InFrames, RestOK
<1>5. PICK w \in Nat : w = WordBytes(A[m].size)
  <2>1. A[m].size \in Nat
    BY <1>2, FrameFacts, Zenon
  <2>. QED  BY <2>1, WordFacts, Zenon
<1>6. /\ m < n => w <= b + Len(s)
      /\ m < n /\ m + 1 = n /\ A[n].size = 0 => w = b + Len(s)
      /\ m = n => A[n].size = b + Len(s)
  <2>1. n \in Nat
    OBVIOUS
  <2>2. RestWords(A, n, s, m, b, p, w)
    BY <1>1, <1>2, <1>5, <2>1, CardRest, Zenon
  <2>. QED  BY <2>2, Zenon DEF RestWords
<1>. QED  BY <1>2, <1>3, <1>4, <1>5, <1>6, Zenon DEF AtPlace

(* Descriptor e is d after the tasklet has moved the first k bytes of s.      *)
Moved(e, d, s, k) == e.data = d.data \o Bytes(s, k) /\ e.count = RxSize

(* It ends the frame. *)
EndNums(b, k, w, z, l) ==
  /\ k \in Nat /\ k <= l /\ b + k <= w /\ w - b \in 0 .. l /\ w = (w - b) + b
  /\ WordBytes(k) = w - b /\ z <= b + k

LEMMA EndArith ==
  ASSUME NEW b \in Nat, NEW w \in Nat, NEW z \in Nat, NEW l \in Nat, NEW t \in Nat,
         NEW k, k = Lesser(IF z > b THEN z - b ELSE 0, t), b + k >= z,
         b % 4 = 0, b <= w, w = WordBytes(z), w <= b + l
  PROVE  EndNums(b, k, w, z, l)
<1>1. k \in Nat /\ (z > b => k = z - b) /\ (~(z > b) => k = 0)
  BY SMT DEF Lesser
<1>2. z <= w /\ w < z + 4 /\ w % 4 = 0
  BY WordFacts
<1>3. WordBytes(k) = w - b
  <2>1. CASE z > b
    BY <1>1, <2>1, SMT DEF WordBytes
  <2>2. CASE ~(z > b)
    <3>1. w - b = 0
      BY <1>2, <2>2, SMT
    <3>2. WordBytes(0) = 0
      BY SMT DEF WordBytes
    <3>. QED  BY <1>1, <2>2, <3>1, <3>2
  <2>. QED  BY <2>1, <2>2
<1>4. k <= l /\ b + k <= w /\ w - b \in 0 .. l /\ w = (w - b) + b /\ z <= b + k
  BY <1>1, <1>2, SMT
<1>. QED  BY <1>1, <1>3, <1>4 DEF EndNums

FrameAfter(m, n) ==
  /\ m + 1 \in 1 .. n /\ m + 1 \in Nat /\ (m + 1 < n => m + 1 \in 1 .. n - 1)
  /\ m + 1 \in {m, m + 1}

LEMMA NextFrame ==
  ASSUME NEW n \in Nat \ {0}, NEW m \in 1 .. n, m < n
  PROVE  FrameAfter(m, n)
BY SMT DEF FrameAfter

LEMMA NextPlace ==
  ASSUME NEW q \in 0 .. RxNum, q < RxNum
  PROVE  q + 1 \in 0 .. RxNum /\ q + 1 # 0 /\ 0 \in 0 .. RxNum /\ 0 % 4 = 0
BY SMT

SumsTo(b, k, y, c) == b + k = y + (c + k)

LEMMA MovedSum ==
  ASSUME NEW b \in Nat, NEW y \in Nat, NEW c \in Nat, b = y + c, NEW k \in Nat
  PROVE  SumsTo(b, k, y, c)
BY SMT DEF SumsTo

LEMMA AboveZero ==
  ASSUME NEW z \in Nat
  PROVE  0 <= z /\ (z # 0 => 0 < z)
BY SMT

LEMMA PlacesLess ==
  ASSUME NEW s \in Seq(Nat), NEW v \in 0 .. Len(s), NEW p \in [Nat -> Int]
  PROVE  [i \in Nat |-> p[i] - v] \in [Nat -> Int]
<1>1. v \in Int
  BY SMT
<1>2. \A x \in Int : x - v \in Int
  BY <1>1, SMT
<1>. QED  BY <1>2, Zenon

LEMMA AtEnds ==
  ASSUME NEW n \in Nat \ {0}, NEW A \in [1 .. n -> Frame], \A g \in 1 .. n - 1 : A[g].size # 0,
         NEW r \in [Position -> DescType], NEW s \in Seq(Nat),
         NEW u \in Position, NEW q \in 0 .. RxNum, q < RxNum, NEW b \in Nat,
         NEW x, NEW o, NEW m, NEW y, HoldsAt(A, n, r, u, q, s, b, x, o, m, y), m < n,
         NEW f \in Position, f = RingAt(RxNum, u, q), NEW w \in Nat, w = WordBytes(A[m].size),
         NEW k, EndNums(b, k, w, A[m].size, Len(s)),
         NEW t, \A i \in Position \ {f} : t[i] = r[i], Moved(t[f], r[f], s, k),
         t[f].fe, t[f].cnt = A[m].size
  PROVE  HoldsAt(A, n, t, u, q + 1, Rest(s, w - b), 0, x, o, m + 1, 0)
<1>1. PICK fr \in [0 .. RxNum -> Nat], of \in [0 .. RxNum -> Nat], p \in [Nat -> Int] :
        /\ fr[0] = x /\ of[0] = o /\ fr[q] = m /\ of[q] = y
        /\ InFrames(A, n, r, u, q, fr, of, b) /\ InCard(A, n, s, m, b, p)
  BY Zenon DEF HoldsAt
<1>2. AtPlace(A, n, r[f], s, b, m, y)
  BY AtFacts, Zenon
<1>3. /\ m \in 1 .. n /\ y \in Nat /\ Part1(r[f], A[m], y, b) /\ r[f] \in DescType
      /\ k \in Nat /\ k <= Len(s) /\ b + k <= w /\ w - b \in 0 .. Len(s)
      /\ A[m].size <= b + k
  BY <1>2, Zenon DEF AtPlace, EndNums
<1>4. /\ Part(r[f].data \o Bytes(s, k), A[m], y)
      /\ Len(r[f].data \o Bytes(s, k)) = r[f].cnt + k
  <2>1. n \in Nat
    OBVIOUS
  <2>2. PICK d \in DescType : d = r[f] /\ Part1(d, A[m], y, b)
    BY <1>3
  <2>3. TakenPart(d, s, k, A[m], y)
    BY <1>1, <1>3, <2>1, <2>2, TakePart, Zenon
  <2>. QED  BY <2>2, <2>3, Zenon DEF TakenPart
<1>5. /\ m + 1 \in 1 .. n /\ m + 1 \in Nat /\ (m + 1 < n => m + 1 \in 1 .. n - 1)
      /\ m + 1 \in {m, m + 1} /\ 0 % 4 = 0 /\ q + 1 \in 0 .. RxNum /\ q + 1 # 0
      /\ 0 \in 0 .. RxNum
  <2>1. FrameAfter(m, n)
    BY <1>3, NextFrame, Zenon
  <2>2. q + 1 \in 0 .. RxNum /\ q + 1 # 0 /\ 0 \in 0 .. RxNum /\ 0 % 4 = 0
    BY NextPlace
  <2>. QED  BY <2>1, <2>2, Zenon DEF FrameAfter
<1>6. A[m].size <= y + Len(t[f].data)
  <2>1. PICK c \in Nat : c = r[f].cnt /\ b = y + c
    BY <1>3, DescFacts, Zenon DEF Part1
  <2>2. b + k = y + (c + k)
    <3>1. SumsTo(b, k, y, c)
      BY <1>3, <2>1, MovedSum, Zenon
    <3>. QED  BY <3>1 DEF SumsTo
  <2>. QED  BY <1>3, <1>4, <2>1, <2>2 DEF Moved
<1>7. Filled(t[f], A, m, y, m + 1, 0)
  BY <1>3, <1>4, <1>6, Zenon DEF Filled, Moved
<1>8. 0 \in Fills
  BY SMT DEF Fills
<1>9. 0 <= A[m + 1].size /\ (m + 1 < n => 0 < A[m + 1].size)
  <2>1. PICK z \in Nat : z = A[m + 1].size
    BY <1>5, FrameFacts, Zenon
  <2>2. m + 1 < n => z # 0
    BY <1>5, <2>1
  <2>3. 0 <= z /\ (z # 0 => 0 < z)
    BY AboveZero
  <2>. QED  BY <2>1, <2>2, <2>3
<1>. DEFINE h == [fr EXCEPT ![q + 1] = m + 1]
            g == [of EXCEPT ![q + 1] = 0]
<1>10. InFrames(A, n, t, u, q + 1, h, g, 0)
  <2>1. n \in Nat /\ 0 \in Nat /\ InFrames(A, n, r, u, q, fr, of, b)
        /\ Filled(t[f], A, fr[q], of[q], m + 1, 0)
    BY <1>1, <1>7
  <2>. QED  BY <1>5, <1>8, <1>9, <2>1, FramesFinish, Zenon
<1>11. /\ h \in [0 .. RxNum -> Nat] /\ g \in [0 .. RxNum -> Nat]
       /\ h[0] = x /\ g[0] = o /\ h[q + 1] = m + 1 /\ g[q + 1] = 0
  BY <1>1, <1>5, Zenon
<1>. HIDE DEF h, g
<1>12. InCard(A, n, Rest(s, w - b), m + 1, 0, [i \in Nat |-> p[i] - (w - b)])
  <2>1. PICK v \in 0 .. Len(s) : v = w - b
    BY <1>3
  <2>2. p[m + 1] = v - 0
    <3>1. RestWords(A, n, s, m, b, p, w)
      BY <1>1, <1>3, CardRest, Zenon
    <3>2. p[m + 1] = v
      BY <2>1, <3>1, Zenon DEF RestWords
    <3>. QED  BY <2>1, <3>2, SMT
  <2>3. n \in Nat /\ 0 \in Nat
    OBVIOUS
  <2>4. Dropped(A, n, s, v, m + 1, 0, p)
    BY <1>1, <1>3, <1>5, <2>2, <2>3, CardDrop, Zenon
  <2>. QED  BY <2>1, <2>4, Zenon DEF Dropped
<1>13. [i \in Nat |-> p[i] - (w - b)] \in [Nat -> Int]
  <2>1. PICK v \in 0 .. Len(s) : v = w - b
    BY <1>3
  <2>2. [i \in Nat |-> p[i] - v] \in [Nat -> Int]
    BY PlacesLess, Zenon
  <2>. QED  BY <2>1, <2>2
<1>. QED  BY <1>10, <1>11, <1>12, <1>13, Zenon DEF HoldsAt

(* The tasklet moves k bytes, whole words, of a frame of which there is more. *)
PartNums(b, k, w, l) ==
  /\ k \in Nat /\ k \in 0 .. l /\ k <= l /\ b + k <= w /\ WordBytes(k) = k
  /\ b + k \in Nat /\ (b + k) % 4 = 0

LEMMA MinusSum ==
  ASSUME NEW b \in Nat, NEW k \in Nat
  PROVE  0 - b = k - (b + k)
BY SMT

LEMMA CardTakes ==
  ASSUME NEW n \in Nat \ {0}, NEW A \in [1 .. n -> Frame], NEW s \in Seq(Nat), NEW m \in 1 .. n,
         NEW b \in Nat, NEW p \in [Nat -> Int], InCard(A, n, s, m, b, p),
         NEW k, NEW w, PartNums(b, k, w, Len(s)), NEW c, c = b + k
  PROVE  \E h \in [Nat -> Int] : InCard(A, n, Rest(s, k), m, c, h)
<1>1. k \in Nat /\ k \in 0 .. Len(s) /\ b + k \in Nat
  BY Zenon DEF PartNums
<1>2. n \in Nat /\ m \in {m, m + 1}
  OBVIOUS
<1>3. p[m] = k - c
  <2>1. p[m] = 0 - b
    BY Zenon DEF InCard
  <2>2. 0 - b = k - (b + k)
    BY <1>1, MinusSum
  <2>. QED  BY <2>1, <2>2
<1>4. Dropped(A, n, s, k, m, c, p)
  BY <1>1, <1>2, <1>3, CardDrop, Zenon
<1>5. [i \in Nat |-> p[i] - k] \in [Nat -> Int]
  BY <1>1, PlacesLess, Zenon
<1>. QED  BY <1>4, <1>5, Zenon DEF Dropped

LEMMA AtFill ==
  ASSUME NEW n \in Nat \ {0}, NEW A \in [1 .. n -> Frame],
         NEW r \in [Position -> DescType], NEW s \in Seq(Nat),
         NEW u \in Position, NEW q \in 0 .. RxNum, q < RxNum, NEW b \in Nat,
         NEW x, NEW o, NEW m, NEW y, HoldsAt(A, n, r, u, q, s, b, x, o, m, y),
         NEW f \in Position, f = RingAt(RxNum, u, q), NEW w \in Nat, w = WordBytes(A[m].size),
         NEW k, PartNums(b, k, w, Len(s)),
         NEW t, \A i \in Position \ {f} : t[i] = r[i], Moved(t[f], r[f], s, k),
         t[f].cnt = r[f].cnt + k, NEW c, c = b + k
  PROVE  HoldsAt(A, n, t, u, q, Rest(s, k), c, x, o, m, y)
<1>1. PICK fr \in [0 .. RxNum -> Nat], of \in [0 .. RxNum -> Nat], p \in [Nat -> Int] :
        /\ fr[0] = x /\ of[0] = o /\ fr[q] = m /\ of[q] = y
        /\ InFrames(A, n, r, u, q, fr, of, b) /\ InCard(A, n, s, m, b, p)
  BY Zenon DEF HoldsAt
<1>2. AtPlace(A, n, r[f], s, b, m, y)
  BY AtFacts, Zenon
<1>3. /\ m \in 1 .. n /\ y \in Nat /\ Part1(r[f], A[m], y, b) /\ r[f] \in DescType
      /\ k \in Nat /\ k <= Len(s) /\ b + k <= w /\ (b + k) % 4 = 0 /\ b + k \in Nat
  BY <1>2, Zenon DEF AtPlace, PartNums
<1>4. PICK d \in DescType : d = r[f] /\ Part1(d, A[m], y, b)
  BY <1>3
<1>5. TakenPart(d, s, k, A[m], y)
  <2>1. n \in Nat
    OBVIOUS
  <2>. QED  BY <1>1, <1>3, <1>4, <2>1, TakePart, Zenon
<1>6. Part1(t[f], A[m], y, c)
  <2>1. PICK v \in Nat : v = d.cnt /\ b = y + v
    BY <1>4, DescFacts, Zenon DEF Part1
  <2>2. SumsTo(b, k, y, v)
    BY <1>3, <2>1, MovedSum, Zenon
  <2>3. c = y + (v + k) /\ t[f].cnt = v + k
    BY <1>4, <2>1, <2>2 DEF SumsTo
  <2>4. /\ Part(t[f].data, A[m], y) /\ Len(t[f].data) = v + k /\ t[f].count = RxSize
    BY <1>4, <1>5, <2>1 DEF TakenPart, Moved
  <2>. QED  BY <2>3, <2>4 DEF Part1
<1>7. InFrames(A, n, t, u, q, fr, of, c)
  <2>1. n \in Nat /\ c % 4 = 0 /\ c <= WordBytes(A[fr[q]].size) /\ Part1(t[f], A[fr[q]], of[q], c)
    BY <1>1, <1>3, <1>6
  <2>. QED  BY <1>1, <2>1, FramesFill, Zenon
<1>8. PICK h \in [Nat -> Int] : InCard(A, n, Rest(s, k), m, c, h)
  BY <1>1, <1>3, CardTakes, Zenon
<1>. QED  BY <1>1, <1>7, <1>8, Zenon DEF HoldsAt

(* The next descriptor begins after byte c of the frame.                     *)
GoesOn(c, b, k, y, z, m, n) ==
  c = b + k /\ c = y + RxSize /\ c \in Fills /\ c <= z /\ (m < n => c < z)

LEMMA AtFull ==
  ASSUME NEW n \in Nat \ {0}, NEW A \in [1 .. n -> Frame],
         NEW r \in [Position -> DescType], NEW s \in Seq(Nat),
         NEW u \in Position, NEW q \in 0 .. RxNum, q < RxNum, NEW b \in Nat,
         NEW x, NEW o, NEW m, NEW y, HoldsAt(A, n, r, u, q, s, b, x, o, m, y),
         NEW f \in Position, f = RingAt(RxNum, u, q), NEW w \in Nat, w = WordBytes(A[m].size),
         NEW k, PartNums(b, k, w, Len(s)),
         NEW t, \A i \in Position \ {f} : t[i] = r[i], Moved(t[f], r[f], s, k),
         ~t[f].fe, r[f].cnt + k = RxSize, NEW c, GoesOn(c, b, k, y, A[m].size, m, n)
  PROVE  HoldsAt(A, n, t, u, q + 1, Rest(s, k), c, x, o, m, c)
<1>1. PICK fr \in [0 .. RxNum -> Nat], of \in [0 .. RxNum -> Nat], p \in [Nat -> Int] :
        /\ fr[0] = x /\ of[0] = o /\ fr[q] = m /\ of[q] = y
        /\ InFrames(A, n, r, u, q, fr, of, b) /\ InCard(A, n, s, m, b, p)
  BY Zenon DEF HoldsAt
<1>2. AtPlace(A, n, r[f], s, b, m, y)
  BY AtFacts, Zenon
<1>3. /\ m \in 1 .. n /\ y \in Nat /\ Part1(r[f], A[m], y, b) /\ r[f] \in DescType
      /\ k \in Nat /\ k <= Len(s) /\ b + k <= w /\ c % 4 = 0 /\ c \in Nat
      /\ c = b + k /\ c = y + RxSize /\ c \in Fills
      /\ c <= A[m].size /\ (m < n => c < A[m].size)
  BY <1>2, Zenon DEF AtPlace, PartNums, GoesOn
<1>4. PICK d \in DescType : d = r[f] /\ Part1(d, A[m], y, b)
  BY <1>3
<1>5. TakenPart(d, s, k, A[m], y)
  <2>1. n \in Nat
    OBVIOUS
  <2>. QED  BY <1>1, <1>3, <1>4, <2>1, TakePart, Zenon
<1>6. Filled(t[f], A, m, y, m, c)
  <2>1. Part(t[f].data, A[m], y) /\ Len(t[f].data) = RxSize /\ t[f].count = RxSize
    BY <1>4, <1>5 DEF TakenPart, Moved
  <2>. QED  BY <1>3, <2>1, Zenon DEF Filled
<1>7. q + 1 \in 0 .. RxNum /\ q + 1 # 0 /\ 0 \in 0 .. RxNum
  BY NextPlace
<1>8. m \in Nat
  BY <1>1
<1>. DEFINE h == [fr EXCEPT ![q + 1] = m]
            g == [of EXCEPT ![q + 1] = c]
<1>9. InFrames(A, n, t, u, q + 1, h, g, c)
  <2>1. n \in Nat /\ Filled(t[f], A, fr[q], of[q], m, c)
    BY <1>1, <1>6
  <2>. QED  BY <1>1, <1>3, <2>1, FramesFinish, Zenon
<1>10. /\ h \in [0 .. RxNum -> Nat] /\ g \in [0 .. RxNum -> Nat]
       /\ h[0] = x /\ g[0] = o /\ h[q + 1] = m /\ g[q + 1] = c
  BY <1>1, <1>3, <1>7, <1>8, Zenon
<1>. HIDE DEF h, g
<1>11. PICK e \in [Nat -> Int] : InCard(A, n, Rest(s, k), m, c, e)
  BY <1>1, <1>3, CardTakes, Zenon
<1>. QED  BY <1>9, <1>10, <1>11, Zenon DEF HoldsAt

LEMMA FillsFacts ==
  ASSUME RxSize % 4 = 0, NEW y \in Fills
  PROVE  y \in Nat /\ y % 4 = 0 /\ y + RxSize \in Fills
<1>1. PICK j \in Nat : y = RxSize * j
  BY Zenon DEF Fills
<1>2. PICK i \in Nat : RxSize = 4 * i
  <2>1. RxSize \div 4 \in Nat /\ RxSize = 4 * (RxSize \div 4)
    BY SMT
  <2>. QED  BY <2>1
<1>3. PICK t : t = i * j
  OBVIOUS
<1>4. t \in Nat /\ RxSize * j = 4 * t
  BY <1>2, <1>3, SMT
<1>5. y \in Nat /\ y % 4 = 0
  BY <1>1, <1>4, SMT
<1>6. y + RxSize = RxSize * (j + 1) /\ j + 1 \in Nat
  BY <1>1, SMT
<1>. QED  BY <1>5, <1>6, Zenon DEF Fills

(* The descriptor is full. *)
FullNums(b, k, y, c) == c + k = RxSize /\ b + k = y + RxSize

MidNums(b, k, w, l, y, c, z) ==
  PartNums(b, k, w, l) /\ FullNums(b, k, y, c) /\ b + k < z /\ b + k <= z

LEMMA MidArith ==
  ASSUME NEW b \in Nat, NEW w \in Nat, NEW z \in Nat, NEW l \in Nat, NEW y \in Nat, NEW c \in Nat,
         NEW k, k = Lesser(IF z > b THEN z - b ELSE 0, RxSize - c), ~(b + k >= z), c < RxSize,
         RxSize % 4 = 0, y % 4 = 0, b = y + c, b % 4 = 0, w = WordBytes(z), w <= b + l
  PROVE  MidNums(b, k, w, l, y, c, z)
<1>1. k = RxSize - c
  BY SMT DEF Lesser
<1>2. k \in Nat /\ k % 4 = 0 /\ b + k < z
  BY <1>1, SMT
<1>3. z <= w /\ w \in Nat
  BY WordFacts
<1>4. WordBytes(k) = k
  BY <1>2, WordFacts
<1>5. k \in 0 .. l /\ k <= l /\ b + k <= w /\ b + k \in Nat /\ (b + k) % 4 = 0
  BY <1>2, <1>3, SMT
<1>6. FullNums(b, k, y, c) /\ b + k <= z
  BY <1>1, <1>2, SMT DEF FullNums
<1>. QED  BY <1>2, <1>4, <1>5, <1>6 DEF PartNums, MidNums

LEMMA OpenArith ==
  ASSUME NEW b \in Nat, NEW w \in Nat, NEW l \in Nat, NEW y \in Nat, NEW c \in Nat,
         NEW k, k = Lesser(l, RxSize - c), c < RxSize,
         RxSize % 4 = 0, y % 4 = 0, b = y + c, b % 4 = 0, l % 4 = 0, b + l <= w
  PROVE  PartNums(b, k, w, l) /\ (c + k >= RxSize => FullNums(b, k, y, c)) /\ b + k <= b + l
<1>1. k \in {l, RxSize - c} /\ k <= l /\ k <= RxSize - c
  BY SMT DEF Lesser
<1>2. k \in Nat /\ k % 4 = 0
  BY <1>1, SMT
<1>3. WordBytes(k) = k
  BY <1>2, WordFacts
<1>4. k \in 0 .. l /\ k <= l /\ b + k <= w /\ b + k \in Nat /\ (b + k) % 4 = 0
      /\ b + k <= b + l
  BY <1>1, <1>2, SMT
<1>5. c + k >= RxSize => FullNums(b, k, y, c)
  BY <1>1, SMT DEF FullNums
<1>. QED  BY <1>2, <1>3, <1>4, <1>5 DEF PartNums

(* The words of a frame do not fill descriptors exactly: a full one is not   *)
(* at its end.                                                               *)
LEMMA NotAtEnd ==
  ASSUME NEW z \in Nat, NEW w \in Nat, w = WordBytes(z), NEW c \in Nat, c % 4 = 0, c <= w, c # w
  PROVE  c < z /\ c <= z
<1>1. w < z + 4 /\ w % 4 = 0
  BY WordFacts
<1>. QED  BY <1>1, SMT

Ends(k) == rx_frame_size > 0 /\ rx_bytes_in_frame + k >= rx_frame_size
FillsUp(d, k) == d.cnt + k >= RxSize
Copied(k, f, d) ==
  /\ rxfifo' = Rest(rxfifo, WordBytes(k)) /\ Moved(rx'[f], d, rxfifo, k)
  /\ \A i \in Position \ {f} : rx'[i] = rx[i]
  /\ rx'[f].cstop <=> FillsUp(d, k) \/ Ends(k)
  /\ rx'[f].fe <=> Ends(k)
  /\ rx'[f].cnt = IF Ends(k) THEN rx_frame_size ELSE IF FillsUp(d, k) THEN 0 ELSE d.cnt + k
  /\ rx_frame_size' = IF Ends(k) THEN 0 ELSE rx_frame_size
  /\ rx_bytes_in_frame' = IF Ends(k) THEN 0 ELSE rx_bytes_in_frame + k
  /\ fifo_rx_desc' = IF FillsUp(d, k) \/ Ends(k) THEN RingNext(RxNum, f) ELSE f
  /\ ipc' # "copy"
  /\ UNCHANGED <<user_rx_desc, pc, bcfl, incoming, arrived, frames, got>>

LEMMA CopyIs ==
  ASSUME IInv, IframeCopy, NEW k, k = ReceiveLength, NEW f, f = fifo_rx_desc,
         NEW d, d = rx[f], d.count = RxSize
  PROVE  Copied(k, f, d)
<1>. DEFINE ended == Ends(k)
            full == FillsUp(d, k)
            g == [cstop |-> full \/ ended, fe |-> ended,
                  cnt |-> IF ended THEN rx_frame_size ELSE IF full THEN 0 ELSE d.cnt + k,
                  count |-> IF full \/ ended THEN RxSize ELSE d.count,
                  data |-> d.data \o Bytes(rxfifo, k)]
<1>1. /\ rxfifo' = Rest(rxfifo, WordBytes(k)) /\ rx' = [rx EXCEPT ![f] = g]
      /\ rx_frame_size' = IF ended THEN 0 ELSE rx_frame_size
      /\ rx_bytes_in_frame' = IF ended THEN 0 ELSE rx_bytes_in_frame + k
      /\ fifo_rx_desc' = IF full \/ ended THEN RingNext(RxNum, f) ELSE f
      /\ ipc' = IF full \/ ended THEN "head" ELSE "ready"
      /\ UNCHANGED <<user_rx_desc, pc, bcfl, incoming, arrived, frames, got>>
  BY Zenon DEF IframeCopy, callers, ghosts, Ends, FillsUp
<1>. HIDE DEF ended, full
<1>2. /\ g.cstop <=> full \/ ended
      /\ g.fe <=> ended
      /\ g.cnt = IF ended THEN rx_frame_size ELSE IF full THEN 0 ELSE d.cnt + k
      /\ g.data = d.data \o Bytes(rxfifo, k)
      /\ g.count = IF full \/ ended THEN RxSize ELSE d.count
  BY Zenon
<1>. HIDE DEF g
<1>3. Moved(g, d, rxfifo, k)
  BY <1>2, Zenon DEF Moved
<1>4. rx \in [Position -> DescType] /\ f \in Position
  BY FrameTypes
<1>5. rx'[f] = g /\ \A i \in Position \ {f} : rx'[i] = rx[i]
  BY <1>1, <1>4, Zenon
<1>6. ipc' # "copy"
  BY <1>1
<1>. QED  BY <1>1, <1>2, <1>3, <1>5, <1>6, Zenon DEF Copied, ended, full

(* What the tasklet reads when it does not know the size of the frame.       *)
OpenAt(b, w, z, l, m, n) ==
  /\ l % 4 = 0 /\ b + l <= w
  /\ (m = n /\ z = b + l) \/ (m < n /\ w \notin Fills)

LEMMA OpenSum ==
  ASSUME NEW b \in Nat, NEW l \in Nat, NEW v \in Nat, v = b + l, b % 4 = 0, v % 4 = 0
  PROVE  l % 4 = 0
BY SMT

LEMMA OpenPlace ==
  ASSUME FrameHypothesis, IInv, FramesOK, RacedOK, ipc = "copy", rx_frame_size = 0,
         NEW n \in Nat \ {0}, n = Lines, NEW m, SizesOK(Line, n, rx_frame_size, bcfl, m),
         NEW d, NEW b \in Nat, NEW y, AtPlace(Line, n, d, rxfifo, b, m, y),
         NEW z \in Nat, z = Line[m].size, NEW w \in Nat, w = WordBytes(z),
         NEW l \in Nat, l = Len(rxfifo)
  PROVE  OpenAt(b, w, z, l, m, n)
<1>1. /\ m \in 1 .. n /\ b % 4 = 0
      /\ m < n /\ m + 1 = n /\ Line[n].size = 0 => w = b + l
      /\ m = n => Line[n].size = b + l
  BY Zenon DEF AtPlace
<1>2. Line[n].size = incoming.done
  BY LineFacts, SMT
<1>3. z <= w /\ w % 4 = 0
  BY WordFacts
<1>4. CASE m = n
  <2>1. z = b + l /\ z % 4 = 0
    BY <1>1, <1>2, <1>4 DEF FramesOK
  <2>2. l % 4 = 0
    BY <1>1, <2>1, OpenSum
  <2>. QED  BY <1>3, <1>4, <2>1, <2>2 DEF OpenAt
<1>5. CASE m # n
  <2>1. Len(bcfl) = n - m
    BY Zenon DEF SizesOK, Sizes
  <2>2. m < n /\ n - m # 0 /\ (n - m = 1 => m + 1 = n)
    BY <1>1, <1>5, SMT
  <2>3. bcfl # <<>>
    <3>1. Len(<<>>) = 0
      BY SMT
    <3>. QED  BY <2>1, <2>2, <3>1
  <2>4. RaceWords # 0 /\ Len(bcfl) = 1 /\ incoming.done = 0
    BY <2>3, Zenon DEF RacedOK
  <2>5. m + 1 = n /\ Line[n].size = 0
    BY <1>2, <2>1, <2>2, <2>4
  <2>6. w = b + l
    BY <1>1, <2>2, <2>5
  <2>7. l % 4 = 0
    BY <1>1, <1>3, <2>6, OpenSum
  <2>8. w \notin Fills
    <3>1. z \in FrameSizes
      <4>1. m \in 1 .. Len(frames)
        BY <1>1, <2>2, FrameTypes, SMT
      <4>. QED  BY <4>1, LineFacts, Zenon DEF FramesOK
    <3>. QED  BY <2>4, <3>1, Zenon DEF FrameHypothesis
  <2>9. b + l <= w
    <3>1. \A i \in Nat : i <= i
      BY SMT
    <3>. QED  BY <2>6, <3>1
  <2>. QED  BY <2>2, <2>7, <2>8, <2>9 DEF OpenAt
<1>. QED  BY <1>4, <1>5

(* What ring and card hold after the step.                                   *)
HoldsNext(A, n, u, q, x, o) ==
  \E m, y :
    /\ HoldsAt(A, n, rx', u, q, rxfifo', rx_bytes_in_frame', x, o, m, y)
    /\ SizesOK(A, n, rx_frame_size', bcfl', m)

LEMMA CopyOut ==
  ASSUME IInv, FramesOK, FrameHypothesis, RacedOK, IframeCopy,
         NEW n \in Nat \ {0}, n = Lines, NEW A \in [1 .. n -> Frame], A = Line,
         NEW q \in 0 .. RxNum, q < RxNum, NEW x, NEW o, NEW m, NEW y, NEW f \in Position,
         f = fifo_rx_desc, NEW u \in Position, u = Front, f = RingAt(RxNum, u, q),
         HoldsAt(A, n, rx, u, q, rxfifo, rx_bytes_in_frame, x, o, m, y),
         SizesOK(A, n, rx_frame_size, bcfl, m)
  PROVE  \E k :
           /\ Copied(k, f, rx[f])
           /\ IF FillsUp(rx[f], k) \/ Ends(k)
                THEN HoldsNext(A, n, u, q + 1, x, o)
                ELSE HoldsNext(A, n, u, q, x, o)
<1>1. PICK d \in DescType, s \in Seq(Nat), l \in Nat, b \in Nat, c \in Nat :
        /\ d = rx[f] /\ s = rxfifo /\ l = Len(s) /\ b = rx_bytes_in_frame /\ c = d.cnt
  <2>1. rx[f] \in DescType
    BY FrameTypes, Zenon
  <2>2. rx[f].cnt \in Nat
    BY <2>1, DescFacts, Zenon
  <2>3. rxfifo \in Seq(Nat) /\ rx_bytes_in_frame \in Nat
    BY FrameTypes
  <2>4. Len(rxfifo) \in Nat
    BY <2>3
  <2>. QED  BY <2>1, <2>2, <2>3, <2>4
<1>2. AtPlace(A, n, d, s, b, m, y)
  BY <1>1, AtFacts, Zenon
<1>3. /\ m \in 1 .. n /\ y \in Nat /\ y \in Fills /\ Part1(d, A[m], y, b)
      /\ b % 4 = 0 /\ b <= WordBytes(A[m].size)
      /\ m < n => WordBytes(A[m].size) <= b + l
  BY <1>1, <1>2, Zenon DEF AtPlace
<1>4. PICK z \in Nat, w \in Nat : z = A[m].size /\ w = WordBytes(z)
  <2>1. A[m].size \in Nat
    BY <1>3, FrameFacts, Zenon
  <2>. QED  BY <2>1, WordFacts, Zenon
<1>5. c < RxSize /\ d.count = RxSize /\ b = y + c
  <2>1. ~d.cstop /\ c < RxSize
    BY <1>1, Zenon DEF IframeCopy, IInv, DescsOK
  <2>. QED  BY <1>1, <1>3, <2>1 DEF Part1
<1>6. RxSize % 4 = 0 /\ y % 4 = 0 /\ y + RxSize \in Fills
  <2>1. RxSize % 4 = 0
    BY Zenon DEF FrameHypothesis
  <2>. QED  BY <1>3, <2>1, FillsFacts, Zenon
<1>7. PICK k \in Nat, fs \in Nat : k = ReceiveLength /\ fs = rx_frame_size
  <2>1. ReceiveLength \in Nat
    BY ReceiveFact DEF IInv, IframeCopy
  <2>. QED  BY <2>1, FrameTypes
<1>8. k = Lesser(IF fs = 0 THEN l ELSE IF fs > b THEN fs - b ELSE 0, RxSize - c)
  BY <1>1, <1>7, Zenon DEF ReceiveLength
<1>9. Copied(k, f, d)
  BY <1>1, <1>5, <1>7, CopyIs, Zenon
<1>10. /\ Ends(k) <=> fs > 0 /\ b + k >= fs
       /\ FillsUp(d, k) <=> c + k >= RxSize
  BY <1>1, <1>7, Zenon DEF Ends, FillsUp
<1>11. /\ rxfifo' = Rest(s, WordBytes(k)) /\ Moved(rx'[f], d, s, k)
       /\ \A i \in Position \ {f} : rx'[i] = rx[i]
       /\ bcfl' = bcfl
  BY <1>1, <1>9, Zenon DEF Copied
<1>0. /\ rx \in [Position -> DescType] /\ HoldsAt(A, n, rx, u, q, s, b, x, o, m, y)
      /\ Moved(rx'[f], rx[f], s, k) /\ w = WordBytes(A[m].size)
  BY <1>1, <1>4, <1>11, FrameTypes
<1>12. CASE Ends(k)
  <2>1. /\ fs # 0 /\ b + k >= fs /\ rx'[f].fe /\ rx'[f].cnt = fs
        /\ rx_frame_size' = 0 /\ rx_bytes_in_frame' = 0
    <3>1. fs > 0 => fs # 0
      BY SMT
    <3>. QED  BY <1>7, <1>9, <1>10, <1>12, <3>1, Zenon DEF Copied
  <2>2. m < n /\ fs = z /\ Sizes(A, n, bcfl, m + 1)
    BY <1>4, <1>7, <2>1, Zenon DEF SizesOK
  <2>3. EndNums(b, k, w, z, l)
    <3>1. RxSize - c \in Nat
      BY <1>5, SMT
    <3>2. PICK t \in Nat : t = RxSize - c
      BY <3>1
    <3>3. k = Lesser(IF z > b THEN z - b ELSE 0, t)
      BY <1>8, <2>1, <2>2, <3>2
    <3>4. b + k >= z /\ b <= w /\ w <= b + l
      BY <1>3, <1>4, <2>1, <2>2
    <3>. QED  BY <1>3, <1>4, <3>3, <3>4, EndArith, Zenon
  <2>4. \A g \in 1 .. n - 1 : A[g].size # 0
    <3>1. \A g \in 1 .. n - 1 : g \in 1 .. Len(frames)
      BY FrameTypes, LinePlaces, Zenon
    <3>. QED  BY <3>1, LineFacts, SizesAssumption, Zenon DEF FramesOK
  <2>5. HoldsAt(A, n, rx', u, q + 1, Rest(s, w - b), 0, x, o, m + 1, 0)
    <3>1. EndNums(b, k, w, A[m].size, Len(s)) /\ rx'[f].cnt = A[m].size
      BY <1>1, <1>4, <2>1, <2>2, <2>3
    <3>. QED  BY <1>0, <1>11, <2>1, <2>2, <2>4, <3>1, AtEnds, Zenon
  <2>6. rxfifo' = Rest(s, w - b)
    BY <1>11, <2>3 DEF EndNums
  <2>7. SizesOK(A, n, rx_frame_size', bcfl', m + 1)
    BY <1>11, <2>1, <2>2, Zenon DEF SizesOK
  <2>8. HoldsNext(A, n, u, q + 1, x, o)
    BY <2>1, <2>5, <2>6, <2>7, Zenon DEF HoldsNext
  <2>. QED  BY <1>1, <1>9, <1>12, <2>8, Zenon
<1>13. ASSUME ~Ends(k)
       PROVE  /\ PartNums(b, k, w, l)
              /\ FillsUp(d, k) => FullNums(b, k, y, c) /\ b + k <= z /\ (m < n => b + k < z)
  <2>1. CASE fs # 0
    <3>1. m < n /\ fs = z
      BY <1>4, <1>7, <2>1, Zenon DEF SizesOK
    <3>2. ~(b + k >= z)
      <4>1. fs # 0 => fs > 0
        BY SMT
      <4>. QED  BY <1>10, <1>13, <2>1, <3>1, <4>1
    <3>3. k = Lesser(IF z > b THEN z - b ELSE 0, RxSize - c) /\ w <= b + l
      BY <1>3, <1>4, <1>8, <2>1, <3>1
    <3>4. MidNums(b, k, w, l, y, c, z)
      BY <1>3, <1>4, <1>5, <1>6, <3>1, <3>2, <3>3, MidArith, Zenon
    <3>. QED  BY <3>4, Zenon DEF MidNums
  <2>2. CASE fs = 0
    <3>1. OpenAt(b, w, z, l, m, n)
      BY <1>1, <1>2, <1>4, <1>7, <2>2, OpenPlace, Zenon DEF IframeCopy
    <3>2. k = Lesser(l, RxSize - c)
      BY <1>8, <2>2
    <3>3. PartNums(b, k, w, l) /\ (FillsUp(d, k) => FullNums(b, k, y, c)) /\ b + k <= b + l
      BY <1>3, <1>5, <1>6, <1>10, <3>1, <3>2, OpenArith DEF OpenAt
    <3>4. ASSUME FillsUp(d, k), m < n, w \notin Fills
          PROVE  b + k < z /\ b + k <= z
      <4>1. b + k \in Nat /\ (b + k) % 4 = 0 /\ b + k <= w
        BY <3>3 DEF PartNums
      <4>2. b + k \in Fills
        BY <1>6, <3>3, <3>4 DEF FullNums
      <4>. QED  BY <1>4, <3>4, <4>1, <4>2, NotAtEnd
    <3>. QED  BY <3>1, <3>3, <3>4 DEF OpenAt
  <2>. QED  BY <2>1, <2>2
<1>14. ASSUME ~Ends(k)
       PROVE  /\ PartNums(b, k, w, Len(s)) /\ rxfifo' = Rest(s, k) /\ ~rx'[f].fe
              /\ rx_frame_size' = rx_frame_size /\ rx_bytes_in_frame' = b + k
              /\ ~FillsUp(d, k) => rx'[f].cnt = d.cnt + k
  <2>1. WordBytes(k) = k
    BY <1>13, <1>14 DEF PartNums
  <2>. QED  BY <1>1, <1>9, <1>11, <1>13, <1>14, <2>1, Zenon DEF Copied
<1>15. CASE ~Ends(k) /\ FillsUp(d, k)
  <2>1. PICK v : v = b + k
    OBVIOUS
  <2>2. v = y + RxSize /\ v \in Fills /\ v <= z /\ (m < n => v < z) /\ d.cnt + k = RxSize
    BY <1>1, <1>6, <1>13, <1>15, <2>1 DEF FullNums
  <2>3. HoldsAt(A, n, rx', u, q + 1, Rest(s, k), v, x, o, m, v)
    <3>1. GoesOn(v, b, k, y, A[m].size, m, n) /\ rx[f].cnt + k = RxSize
      BY <1>1, <1>4, <2>1, <2>2 DEF GoesOn
    <3>2. PartNums(b, k, w, Len(s)) /\ ~rx'[f].fe
      BY <1>14, <1>15
    <3>. QED  BY <1>0, <1>11, <3>1, <3>2, AtFull, Zenon
  <2>4. HoldsNext(A, n, u, q + 1, x, o)
    BY <1>11, <1>14, <1>15, <2>1, <2>3, Zenon DEF HoldsNext
  <2>. QED  BY <1>1, <1>9, <1>15, <2>4, Zenon
<1>16. CASE ~Ends(k) /\ ~FillsUp(d, k)
  <2>1. PICK v : v = b + k
    OBVIOUS
  <2>2. HoldsAt(A, n, rx', u, q, Rest(s, k), v, x, o, m, y)
    <3>1. rx'[f].cnt = rx[f].cnt + k
      BY <1>1, <1>14, <1>16
    <3>. QED  BY <1>0, <1>11, <1>14, <1>16, <2>1, <3>1, AtFill, Zenon
  <2>3. HoldsNext(A, n, u, q, x, o)
    BY <1>11, <1>14, <1>16, <2>1, <2>2, Zenon DEF HoldsNext
  <2>. QED  BY <1>1, <1>9, <1>16, <2>3, Zenon
<1>. QED  BY <1>12, <1>15, <1>16

(* A step after which ring and card hold the frames from x on, whole.        *)
LEMMA HoldsAgain ==
  ASSUME NEW x, NEW n, n = Lines, NEW A, A = Line, UNCHANGED <<incoming, arrived, frames>>,
         NEW q \in 0 .. RxNum, NEW u, Front' = u,
         InRow(rx', fifo_rx_desc', u, q), HoldsNext(A, n, u, q, x, 0), ~Midway'
  PROVE  HoldsFrom(x)'
<1>1. PICK m, y :
        /\ HoldsAt(A, n, rx', u, q, rxfifo', rx_bytes_in_frame', x, 0, m, y)
        /\ SizesOK(A, n, rx_frame_size', bcfl', m)
  BY Zenon DEF HoldsNext
<1>2. PICK fr \in [0 .. RxNum -> Nat], of \in [0 .. RxNum -> Nat], p \in [Nat -> Int] :
        /\ fr[0] = x /\ of[0] = 0 /\ fr[q] = m
        /\ InFrames(A, n, rx', u, q, fr, of, rx_bytes_in_frame')
        /\ InCard(A, n, rxfifo', m, rx_bytes_in_frame', p)
  BY <1>1, Zenon DEF HoldsAt
<1>3. Lines' = n /\ Line' = A
  BY LineSame
<1>. QED  BY <1>1, <1>2, <1>3, Zenon DEF HoldsFrom

LEMMA IframeCopyHolds ==
  ASSUME FrameHypothesis, IInv, FramesOK, RacedOK, NEW x, HoldsFrom(x), IframeCopy
  PROVE  HoldsFrom(x)' /\ RacedOK'
<1>1. ipc = "copy" /\ ~Midway
  <2>1. ipc = "copy"
    BY Zenon DEF IframeCopy
  <2>2. "copy" \in {"head", "copy"}
    OBVIOUS
  <2>3. \A r \in Readers : pc[r] \notin {"move", "advance"}
    BY <2>1, <2>2, Zenon DEF IInv, OneLock
  <2>. QED  BY <2>1, <2>3, Zenon DEF Midway
<1>2. PICK q \in 0 .. RxNum, fr \in [0 .. RxNum -> Nat], of \in [0 .. RxNum -> Nat],
           p \in [Nat -> Int] :
        /\ InRow(rx, fifo_rx_desc, Front, q) /\ fr[0] = x
        /\ InFrames(Line, Lines, rx, Front, q, fr, of, rx_bytes_in_frame)
        /\ InCard(Line, Lines, rxfifo, fr[q], rx_bytes_in_frame, p)
        /\ SizesOK(Line, Lines, rx_frame_size, bcfl, fr[q])
        /\ of[0] = 0
  BY <1>1, Zenon DEF HoldsFrom
<1>3. PICK A : A = Line
  OBVIOUS
<1>13. PICK n \in Nat \ {0}, u \in Position, f \in Position :
         n = Lines /\ u = Front /\ f = fifo_rx_desc
  BY FrameTypes
<1>4. /\ A \in [1 .. n -> Frame] /\ f = RingAt(RxNum, u, q)
      /\ InRow(rx, f, u, q) /\ rx \in [Position -> DescType]
  BY <1>2, <1>3, <1>13, FrameTypes DEF FramesOK, InRow
<1>5. ~rx[f].cstop
  BY <1>1, <1>13, Zenon DEF IInv, DescsOK
<1>6. q < RxNum
  <2>. SUFFICES ASSUME q = RxNum PROVE FALSE
    BY SMT
  <2>1. f = u /\ RingAt(RxNum, u, 0) = u /\ 0 \in 0 .. RxNum - 1 /\ 0 < q
    BY <1>4, RingFacts, SMT
  <2>. QED  BY <1>4, <1>5, <2>1, Zenon DEF InRow
<1>7. HoldsAt(A, n, rx, u, q, rxfifo, rx_bytes_in_frame, x, 0, fr[q], of[q])
      /\ SizesOK(A, n, rx_frame_size, bcfl, fr[q])
  BY <1>2, <1>3, <1>13, Zenon DEF HoldsAt
<1>8. PICK k :
        /\ Copied(k, f, rx[f])
        /\ IF FillsUp(rx[f], k) \/ Ends(k)
             THEN HoldsNext(A, n, u, q + 1, x, 0) ELSE HoldsNext(A, n, u, q, x, 0)
  BY <1>3, <1>13, <1>4, <1>6, <1>7, CopyOut, Zenon
<1>9. /\ UNCHANGED <<incoming, arrived, frames>> /\ ipc' # "copy"
      /\ Front' = u /\ ~Midway'
      /\ \A i \in Position \ {f} : rx'[i] = rx[i]
  <2>1. /\ UNCHANGED <<incoming, arrived, frames, user_rx_desc, pc>> /\ ipc' # "copy"
        /\ \A i \in Position \ {f} : rx'[i] = rx[i]
    BY <1>8, Zenon DEF Copied
  <2>2. bytes_in_descs' = bytes_in_descs
    BY Zenon DEF IframeCopy, locals
  <2>. QED  BY <1>1, <1>13, <2>1, <2>2, Zenon DEF Front, Midway
<1>10. RacedOK'
  BY <1>9, Zenon DEF RacedOK
<1>11. CASE FillsUp(rx[f], k) \/ Ends(k)
  <2>1. rx'[f].cstop /\ fifo_rx_desc' = RingNext(RxNum, f)
    BY <1>8, <1>11, Zenon DEF Copied
  <2>2. q + 1 \in 0 .. RxNum /\ InRow(rx', RingNext(RxNum, f), u, q + 1)
    BY <1>4, <1>5, <1>9, <2>1, Finish, Zenon
  <2>. QED  BY <1>3, <1>13, <1>8, <1>9, <1>10, <1>11, <2>1, <2>2, HoldsAgain, Zenon
<1>12. CASE ~(FillsUp(rx[f], k) \/ Ends(k))
  <2>1. ~rx'[f].cstop /\ fifo_rx_desc' = f
    BY <1>8, <1>12, Zenon DEF Copied
  <2>2. \A i \in Position : rx'[i].cstop <=> rx[i].cstop
    BY <1>5, <1>9, <2>1, Zenon
  <2>3. InRow(rx', f, u, q)
    BY <1>4, <2>2, Places0, Zenon DEF InRow
  <2>. QED  BY <1>3, <1>13, <1>8, <1>9, <1>10, <1>12, <2>1, <2>3, HoldsAgain, Zenon
<1>. QED  BY <1>11, <1>12

-----------------------------------------------------------------------------
(* A reader takes a frame up *)

LEMMA NoneBetween ==
  ASSUME NEW x \in Nat, NEW y \in Nat, NEW z \in Nat, x <= y, y < z
  PROVE  x \in x .. z - 1 /\ x < z /\ ~(y < x)
BY SMT

(* The first descriptor that ends a frame ends the first frame.              *)
FirstSize(u, A, n, x, m) == NextReadSize(u) = A[x].size /\ x < m /\ x \in 1 .. n

LEMMA ReadySize ==
  ASSUME NEW n \in Nat \ {0}, NEW A \in [1 .. n -> Frame], NEW u \in Position,
         NEW q \in 0 .. RxNum, NEW fr \in [0 .. RxNum -> Nat], NEW of \in [0 .. RxNum -> Nat],
         NEW b, InFrames(A, n, rx, u, q, fr, of, b), NEW f, InRow(rx, f, u, q), FrameReady(u),
         NEW x, x = fr[0]
  PROVE  FirstSize(u, A, n, x, fr[q])
<1>1. PICK k \in Position :
        EndsAt(u, k) /\ NextReadSize(u) = rx[RingAt(RxNum, u, k)].cnt
  BY Zenon DEF FrameReady, NextReadSize
<1>2. k \in 0 .. RxNum - 1 /\ rx[RingAt(RxNum, u, k)].cstop /\ rx[RingAt(RxNum, u, k)].fe
      /\ \A j \in 0 .. k - 1 : ~rx[RingAt(RxNum, u, j)].fe
  BY <1>1, Zenon DEF EndsAt
<1>3. k < q
  BY <1>2, Zenon DEF InRow
<1>4. k \in 0 .. q /\ k \in 0 .. q - 1 /\ q \in 0 .. q /\ 0 \in 0 .. q
      /\ 0 \in 0 .. RxNum /\ k \in 0 .. RxNum /\ (0 < k \/ 0 = k)
  BY <1>2, <1>3, SMT
<1>5. PICK v \in Nat, w \in Nat, y \in Nat : v = fr[0] /\ w = fr[k] /\ y = fr[q] /\ x = v
  BY <1>4
<1>6. v <= w /\ w < y
  <2>1. Ascending(rx, u, q, fr)
    BY Zenon DEF InFrames
  <2>2. w < y
    BY <1>2, <1>3, <1>4, <1>5, <2>1, Zenon DEF Ascending
  <2>3. 0 < k => v <= w
    BY <1>4, <1>5, <2>1, Zenon DEF Ascending
  <2>4. 0 = k => v <= w
    <3>1. \A i \in Nat : i <= i
      BY SMT
    <3>. QED  BY <1>5, <3>1
  <2>. QED  BY <1>4, <2>2, <2>3, <2>4
<1>7. v \in v .. y - 1 /\ v < y /\ ~(w < v)
  BY <1>6, NoneBetween
<1>8. PICK j \in 0 .. q - 1 : fr[j] = v /\ rx[RingAt(RxNum, u, j)].fe
  BY <1>5, <1>7, Zenon DEF InFrames, Ended
<1>9. j = k
  <2>1. j \in 0 .. q /\ (j = k \/ k < j \/ j \in 0 .. k - 1)
    BY <1>2, SMT
  <2>2. ~(j \in 0 .. k - 1)
    BY <1>2, <1>8
  <2>3. ~(k < j)
    <3>1. k < j => w < v
      BY <1>2, <1>4, <1>5, <1>8, <2>1, Zenon DEF InFrames, Ascending
    <3>. QED  BY <1>7, <3>1
  <2>. QED  BY <2>1, <2>2, <2>3
<1>10. rx[RingAt(RxNum, u, k)].cnt = A[x].size
  <2>1. PICK d : d = rx[RingAt(RxNum, u, k)]
    OBVIOUS
  <2>2. Filled(d, A, fr[k], of[k], fr[k + 1], of[k + 1])
    BY <1>4, <2>1, Zenon DEF InFrames, AllFilled
  <2>3. d.cnt = A[fr[k]].size
    BY <1>2, <2>1, <2>2, Zenon DEF Filled
  <2>. QED  BY <1>5, <1>8, <1>9, <2>1, <2>3
<1>11. x \in 1 .. n
  BY <1>4, Zenon DEF InFrames, InRange
<1>. QED  BY <1>1, <1>5, <1>7, <1>10, <1>11 DEF FirstSize

LEMMA PlanStart ==
  ASSUME NEW z \in Nat, z > StatusBytes
  PROVE  z = z - 0 /\ 0 = Lesser(0, z - StatusBytes) /\ z - StatusBytes = z - StatusBytes - 0
BY StatusFact, SMT DEF Lesser

LEMMA PlanReads ==
  ASSUME NEW f \in Frame, f.size > StatusBytes, Plan(f.size)
  PROVE  Reading(f, 0)'
<1>1. PICK z \in Nat : z = f.size /\ z > StatusBytes
  BY FrameFacts
<1>2. /\ bytes_in_descs' = z /\ total_valid_data' = z - StatusBytes
      /\ filled_frame_size' = 0 /\ out' = <<>>
  BY <1>1, Zenon DEF Plan
<1>3. z = z - 0 /\ 0 = Lesser(0, z - StatusBytes) /\ z - StatusBytes = z - StatusBytes - 0
  BY <1>1, PlanStart
<1>4. <<>> = Run(f.first - 1, 0)
  <2>1. PICK a \in Nat : a = f.first - 1
    <3>1. f.first - 1 \in Nat
      BY FrameFacts, SMT
    <3>. QED  BY <3>1
  <2>. QED  BY <2>1, RunEmpty
<1>. QED  BY <1>1, <1>2, <1>3, <1>4 DEF Reading

LEMMA FrameTakenUp ==
  ASSUME FrameHypothesis, IInv, FramesOK, NEW x, HoldsFrom(x), ~Midway, KeepsHeld,
         FrameReady(Front), Plan(NextReadSize(Front))
  PROVE  HoldsFrom(x)'
<1>1. PICK q \in 0 .. RxNum, fr \in [0 .. RxNum -> Nat], of \in [0 .. RxNum -> Nat],
           p \in [Nat -> Int] :
        /\ InRow(rx, fifo_rx_desc, Front, q) /\ fr[0] = x
        /\ InFrames(Line, Lines, rx, Front, q, fr, of, rx_bytes_in_frame)
        /\ InCard(Line, Lines, rxfifo, fr[q], rx_bytes_in_frame, p)
        /\ SizesOK(Line, Lines, rx_frame_size, bcfl, fr[q])
        /\ of[0] = 0
  BY Zenon DEF HoldsFrom
<1>2. PICK A : A = Line
  OBVIOUS
<1>3. PICK n \in Nat \ {0}, u \in Position : n = Lines /\ u = Front
  BY FrameTypes
<1>4. A \in [1 .. n -> Frame]
  BY <1>2, <1>3 DEF FramesOK
<1>5. NextReadSize(u) = A[x].size /\ x < fr[q] /\ x \in 1 .. n
  <2>1. /\ InFrames(A, n, rx, u, q, fr, of, rx_bytes_in_frame)
        /\ InRow(rx, fifo_rx_desc, u, q) /\ FrameReady(u)
    BY <1>1, <1>2, <1>3
  <2>2. FirstSize(u, A, n, x, fr[q])
    BY <1>1, <1>4, <2>1, ReadySize, Zenon
  <2>. QED  BY <2>2, Zenon DEF FirstSize
<1>6. A[x] \in Frame /\ A[x].size > StatusBytes
  <2>1. fr[q] \in 1 .. n
    <3>1. InFrames(A, n, rx, u, q, fr, of, rx_bytes_in_frame)
      BY <1>1, <1>2, <1>3
    <3>. QED  BY <3>1, FillPlace, Zenon
  <2>2. PICK m \in 1 .. n : m = fr[q] /\ x < m
    BY <1>5, <2>1
  <2>3. x \in 1 .. n - 1
    BY <1>5, <2>2, SMT
  <2>4. x \in 1 .. Len(frames)
    BY <1>3, <2>3, FrameTypes, LinePlaces, Zenon
  <2>5. A[x].size \in FrameSizes
    BY <1>2, <2>4, LineFacts, Zenon DEF FramesOK
  <2>. QED  BY <1>4, <1>5, <2>5, Zenon DEF FrameHypothesis
<1>7. Reading(A[x], of[0])'
  <2>1. PICK g : g = A[x] /\ g \in Frame /\ g.size > StatusBytes /\ Plan(g.size)
    BY <1>3, <1>5, <1>6
  <2>2. Reading(g, 0)'
    BY <2>1, PlanReads, Zenon
  <2>. QED  BY <1>1, <2>1, <2>2, Zenon DEF Reading
<1>8. Lines' = Lines /\ Line' = Line
  BY LineSame, Zenon DEF KeepsHeld
<1>9. Reading(Line[x], of[0])'
  BY <1>2, <1>7, <1>8, Zenon DEF Reading
<1>. QED  BY <1>1, <1>5, <1>8, <1>9, Zenon DEF HoldsFrom, KeepsHeld

(* The reader that holds the semaphore, before and after its step.           *)
LEMMA AtReader ==
  ASSUME IInv, NEW r \in Readers, pc[r] \in Holding
  PROVE  /\ Front = IF pc[r] = "advance" THEN RingNext(RxNum, user_rx_desc) ELSE user_rx_desc
         /\ Midway <=> pc[r] = "move" \/ (pc[r] = "advance" /\ bytes_in_descs # 0)
<1>1. \A p \in Readers : pc[p] \in Holding => p = r
  BY Zenon DEF IInv, OneReader
<1>2. "move" \in Holding /\ "advance" \in Holding
  BY Zenon DEF Holding
<1>. QED  BY <1>1, <1>2, Zenon DEF Front, Midway

LEMMA AfterReader ==
  ASSUME IInv, NEW r \in Readers, pc[r] \in Holding, NEW l, Goto(r, l)
  PROVE  /\ Front' = IF l = "advance" THEN RingNext(RxNum, user_rx_desc') ELSE user_rx_desc'
         /\ Midway' <=> l = "move" \/ (l = "advance" /\ bytes_in_descs' # 0)
<1>1. \A p \in Readers : pc[p] \in Holding => p = r
  BY Zenon DEF IInv, OneReader
<1>2. "move" \in Holding /\ "advance" \in Holding
  BY Zenon DEF Holding
<1>3. pc'[r] = l /\ \A p \in Readers : p # r => pc'[p] = pc[p]
  BY Zenon DEF Goto, IInv, TypeOK, CallersType
<1>. QED  BY <1>1, <1>2, <1>3, Zenon DEF Front, Midway

LEMMA FrameLockHolds ==
  ASSUME FrameHypothesis, IInv, FramesOK, NEW x, HoldsFrom(x),
         NEW r \in Readers, ReadFrameLock(r)
  PROVE  HoldsFrom(x)' /\ UNCHANGED <<frames, got>>
<1>1. pc[r] = "lock" /\ "lock" \in Holding /\ "lock" # "advance" /\ "lock" # "move"
  BY Zenon DEF ReadFrameLock, Holding
<1>2. Front = user_rx_desc /\ ~Midway
  BY <1>1, AtReader, Zenon
<1>3. UNCHANGED <<rx, user_rx_desc, fifo_rx_desc, rx_frame_size, rx_bytes_in_frame, rxfifo,
                  bcfl, incoming, arrived, frames, got>>
  BY Zenon DEF ReadFrameLock, ring, card, ghosts
<1>4. CASE /\ FrameReady(user_rx_desc) /\ Plan(NextReadSize(user_rx_desc))
           /\ Goto(r, "move")
  <2>1. Front' = user_rx_desc'
    BY <1>1, <1>4, AfterReader
  <2>2. KeepsHeld
    BY <1>2, <1>3, <2>1, Zenon DEF KeepsHeld
  <2>. QED  BY <1>2, <1>3, <1>4, <2>2, FrameTakenUp, Zenon
<1>5. CASE Goto(r, "up")
  <2>1. Front' = user_rx_desc' /\ ~Midway'
    BY <1>1, <1>5, AfterReader
  <2>2. KeepsHeld
    BY <1>2, <1>3, <2>1, Zenon DEF KeepsHeld
  <2>. QED  BY <1>2, <1>3, <2>1, <2>2, FrameStill, Zenon
<1>. QED  BY <1>4, <1>5, Zenon DEF ReadFrameLock

LEMMA FrameAdvanceHolds ==
  ASSUME FrameHypothesis, IInv, FramesOK, NEW x, HoldsFrom(x),
         NEW r \in Readers, ReadFrameAdvance(r)
  PROVE  HoldsFrom(x)' /\ UNCHANGED <<frames, got>>
<1>1. pc[r] = "advance" /\ "advance" \in Holding /\ "advance" # "move"
  BY Zenon DEF ReadFrameAdvance, Holding
<1>2. Front = RingNext(RxNum, user_rx_desc) /\ (Midway <=> bytes_in_descs # 0)
  BY <1>1, AtReader, Zenon
<1>3. /\ UNCHANGED <<rx, fifo_rx_desc, rx_frame_size, rx_bytes_in_frame, rxfifo,
                     bcfl, incoming, arrived, frames, got>>
      /\ user_rx_desc' = Front
  BY <1>2, Zenon DEF ReadFrameAdvance, ring, card, ghosts
<1>4. CASE bytes_in_descs # 0 /\ Goto(r, "move") /\ UNCHANGED locals
  <2>1. Front' = user_rx_desc' /\ Midway'
    BY <1>1, <1>4, AfterReader
  <2>2. KeepsHeld
    BY <1>3, <2>1, Zenon DEF KeepsHeld
  <2>3. KeepsRead
    BY <1>2, <1>4, <2>1, Zenon DEF KeepsRead, locals
  <2>. QED  BY <1>3, <2>2, <2>3, FrameStill, Zenon
<1>5. CASE /\ bytes_in_descs = 0 /\ FrameReady(Front) /\ Plan(NextReadSize(Front))
           /\ Goto(r, "move")
  <2>1. Front' = user_rx_desc'
    BY <1>1, <1>5, AfterReader
  <2>2. KeepsHeld /\ ~Midway
    BY <1>2, <1>3, <1>5, <2>1, Zenon DEF KeepsHeld
  <2>. QED  BY <1>3, <1>5, <2>2, FrameTakenUp, Zenon
<1>6. CASE bytes_in_descs = 0 /\ Goto(r, "up")
  <2>1. Front' = user_rx_desc' /\ ~Midway'
    BY <1>1, <1>6, AfterReader
  <2>2. KeepsHeld /\ ~Midway
    BY <1>2, <1>3, <1>6, <2>1, Zenon DEF KeepsHeld
  <2>. QED  BY <1>3, <2>1, <2>2, FrameStill, Zenon
<1>. QED  BY <1>2, <1>4, <1>5, <1>6, Zenon DEF ReadFrameAdvance

-----------------------------------------------------------------------------
(* A reader moves the bytes of a descriptor *)

(* Of a frame of s bytes, c of which have been moved, a reader of the rest   *)
(* but the last t has k bytes and takes e more.                              *)
Takings(s, c, t, k, e) ==
  k \in Nat /\ e \in Nat /\ (k = c \/ e = 0) /\ c + e <= s /\ k + e \in Nat

(* The descriptor ends the frame. *)
MoveEnds(s, c, t, k, e, v) ==
  Takings(s, c, t, k, e) /\ k + e = s - t /\ v = 0

LEMMA MoveEndArith ==
  ASSUME NEW s \in Nat, NEW c \in Nat, NEW t \in Nat, t < s, c < s,
         NEW k, k = Lesser(c, s - t), NEW e, e = Lesser(s - k, s - t - k),
         NEW v, v = IF s - k > s - c THEN 0 ELSE (s - c) - (s - k)
  PROVE  MoveEnds(s, c, t, k, e, v)
<1>1. (c <= s - t => k = c) /\ (~(c <= s - t) => k = s - t)
  BY SMT DEF Lesser
<1>2. k \in Nat
  BY <1>1, SMT
<1>3. e = s - t - k
  BY <1>2, SMT DEF Lesser
<1>4. v = 0
  BY <1>1, <1>2, SMT
<1>5. k + e = s - t /\ k + e \in Nat
  BY <1>2, <1>3, SMT
<1>6. e \in Nat
  BY <1>1, <1>2, <1>3, SMT
<1>7. (k = c \/ e = 0) /\ c + e <= s
  <2>1. CASE c <= s - t
    <3>1. k = c
      BY <1>1, <2>1
    <3>. QED  BY <3>1, <1>3, SMT
  <2>2. CASE ~(c <= s - t)
    <3>1. k = s - t
      BY <1>1, <2>2
    <3>. QED  BY <3>1, <1>3, SMT
  <2>. QED  BY <2>1, <2>2
<1>. QED  BY <1>2, <1>4, <1>5, <1>6, <1>7 DEF MoveEnds, Takings

(* It is full. *)
MoveMore(s, c, t, k, e, v, z) ==
  /\ Takings(s, c, t, k, e) /\ k + e = Lesser(c + z, s - t) /\ e <= z
  /\ s - t - k - e = s - t - (k + e)
  /\ v = s - (c + z) /\ v # 0

LEMMA MoveMoreArith ==
  ASSUME NEW s \in Nat, NEW c \in Nat, NEW t \in Nat, t < s, NEW z \in Nat, c + z < s,
         NEW k, k = Lesser(c, s - t), NEW e, e = Lesser(z, s - t - k),
         NEW v, v = IF z > s - c THEN 0 ELSE (s - c) - z
  PROVE  MoveMore(s, c, t, k, e, v, z)
<1>1. (c <= s - t => k = c) /\ (~(c <= s - t) => k = s - t)
  BY SMT DEF Lesser
<1>2. k \in Nat
  BY <1>1, SMT
<1>3. (z <= s - t - k => e = z) /\ (~(z <= s - t - k) => e = s - t - k)
  BY SMT DEF Lesser
<1>4. e \in Nat /\ e <= z /\ (k = c \/ e = 0) /\ c + e <= s /\ k + e \in Nat
  BY <1>1, <1>2, <1>3, SMT
<1>5. k + e = Lesser(c + z, s - t)
  BY <1>1, <1>3, SMT DEF Lesser
<1>6. v = s - (c + z) /\ v # 0 /\ s - t - k - e = s - t - (k + e)
  BY <1>2, <1>4, SMT
<1>. QED  BY <1>2, <1>4, <1>5, <1>6 DEF MoveMore, Takings

(* What the reader has of the frame goes on.                                 *)
TakesOn(a, k, s, e) == Run(a, k) \o Bytes(s, e) = Run(a, k + e)

LEMMA OutGoesOn ==
  ASSUME NEW f \in Frame, NEW c \in Nat, NEW k, NEW t, NEW e, Takings(f.size, c, t, k, e),
         NEW s \in Seq(Nat), Part(s, f, c), e <= Len(s), NEW a \in Nat, a = f.first - 1
  PROVE  TakesOn(a, k, s, e)
<1>1. /\ k \in Nat /\ e \in Nat /\ c + e <= f.size /\ (k = c \/ e = 0) /\ e \in 0 .. Len(s)
  BY SMT DEF Takings
<1>2. Bytes(s, e) = Run(a + c, e)
  BY <1>1, PartBytes
<1>3. CASE k = c
  <2>1. PICK m \in Nat : m = e
    BY <1>1
  <2>2. Run(a, c) \o Run(a + c, m) = Run(a, c + m)
    BY RunConcat
  <2>. QED  BY <1>2, <1>3, <2>1, <2>2 DEF TakesOn
<1>4. CASE e = 0
  <2>1. Bytes(s, e) = <<>>
    BY <1>1, <1>2, <1>4, RunEmpty, SMT
  <2>2. Run(a, k) \o <<>> = Run(a, k)
    <3>1. Run(a, k) \in Seq(Nat)
      BY <1>1, RunFacts
    <3>. QED  BY <3>1, ConcatEmptySeq
  <2>3. k + e = k
    BY <1>1, <1>4, SMT
  <2>. QED  BY <2>1, <2>2, <2>3 DEF TakesOn
<1>. QED  BY <1>1, <1>3, <1>4

(* The bytes of a frame tell which it is. *)
LEMMA FrameOfIs ==
  ASSUME FrameHypothesis, IInv, FramesOK, NEW x \in 1 .. Len(frames),
         NEW b, b = Run(frames[x].first - 1, frames[x].size - StatusBytes)
  PROVE  FrameOf(b) = x
<1>. DEFINE W(f) == [i \in 1 .. frames[f].size - StatusBytes |-> frames[f].first + i - 1]
<1>1. ASSUME NEW f \in 1 .. Len(frames)
      PROVE  /\ Line[f] = frames[f] /\ f \in 1 .. Lines
             /\ frames[f].first \in Nat /\ frames[f].size \in Nat
             /\ frames[f].size > StatusBytes
  <2>1. Line[f] = frames[f] /\ f \in 1 .. Lines
    BY LineFacts, Zenon
  <2>2. Line[f] \in Frame
    BY <2>1, Zenon DEF FramesOK
  <2>3. frames[f].size \in FrameSizes
    BY Zenon DEF FramesOK
  <2>. QED  BY <2>1, <2>2, <2>3, FrameFacts, Zenon DEF FrameHypothesis
<1>2. ASSUME NEW f \in 1 .. Len(frames)
      PROVE  /\ W(f) = Run(frames[f].first - 1, frames[f].size - StatusBytes)
             /\ DOMAIN W(f) = 1 .. frames[f].size - StatusBytes
             /\ 1 \in 1 .. frames[f].size - StatusBytes
             /\ W(f)[1] = frames[f].first
  <2>1. PICK a \in Nat, z \in Nat : a = frames[f].first /\ z = frames[f].size /\ z > StatusBytes
    BY <1>1
  <2>2. \A i \in 1 .. z - StatusBytes : a + i - 1 = (a - 1) + i
    BY <2>1, StatusFact, SMT
  <2>3. 1 \in 1 .. z - StatusBytes /\ a + 1 - 1 = a
    BY <2>1, StatusFact, SMT
  <2>. QED  BY <2>1, <2>2, <2>3, Zenon DEF Run
<1>3. ASSUME NEW f \in 1 .. Len(frames), NEW g \in 1 .. Len(frames), W(f) = W(g), f < g
      PROVE  FALSE
  <2>1. frames[f].first = frames[g].first
    BY <1>2, <1>3, Zenon
  <2>2. frames[f].first + frames[f].size <= frames[g].first
    BY <1>1, <1>3, Zenon DEF FramesOK, FramesInOrder
  <2>3. PICK a \in Nat, z \in Nat : a = frames[f].first /\ z = frames[f].size /\ z > StatusBytes
    BY <1>1
  <2>. QED  BY <2>1, <2>2, <2>3, StatusFact, SMT
<1>4. \A f \in 1 .. Len(frames) : W(f) = b => f = x
  <2>. SUFFICES ASSUME NEW f \in 1 .. Len(frames), W(f) = b PROVE f = x
    OBVIOUS
  <2>1. W(x) = b
    BY <1>2
  <2>2. ~(f < x) /\ ~(x < f)
    BY <1>3, <2>1
  <2>. QED  BY <2>2, SMT
<1>5. W(x) = b
  BY <1>2
<1>. QED  BY <1>4, <1>5, Zenon DEF FrameOf

(* What the first descriptor has of the first frame, when that is whole.     *)
FirstHolds(A, n, d, q, x, c, g, e, z) ==
  /\ 0 < q /\ Filled(d, A, x, c, g, e) /\ x \in 1 .. n /\ x < n /\ c < A[x].size
  /\ g <= z /\ (g < n => e < A[g].size)

LEMMA FirstOfRow ==
  ASSUME NEW n \in Nat \ {0}, NEW A, NEW r, NEW u \in Position, NEW q \in 0 .. RxNum,
         NEW fr \in [0 .. RxNum -> Nat], NEW of \in [0 .. RxNum -> Nat], NEW b,
         InFrames(A, n, r, u, q, fr, of, b), fr[0] < fr[q]
  PROVE  FirstHolds(A, n, r[u], q, fr[0], of[0], fr[1], of[1], fr[q])
<1>1. fr[q] \in 1 .. n /\ fr[0] \in 1 .. n
  BY FillPlace
<1>2. PICK x \in Nat, z \in Nat : x = fr[0] /\ z = fr[q] /\ x < z
  BY <1>1, SMT
<1>3. x < n
  BY <1>1, <1>2, SMT
<1>4. 0 < q
  <2>1. q # 0
    <3>1. ~(x < x)
      BY SMT
    <3>. QED  BY <1>2, <3>1
  <2>. QED  BY <2>1, SMT
<1>5. /\ 0 \in 0 .. q - 1 /\ 0 \in 0 .. q /\ 1 \in 0 .. q /\ q \in 0 .. q /\ 0 + 1 = 1
      /\ (1 < q \/ 1 = q) /\ 1 \in 0 .. RxNum
  BY <1>4, SMT
<1>6. RingAt(RxNum, u, 0) = u
  BY Places0
<1>7. Filled(r[u], A, fr[0], of[0], fr[1], of[1])
  BY <1>5, <1>6, Zenon DEF InFrames, AllFilled
<1>8. of[0] < A[fr[0]].size /\ (fr[1] < n => of[1] < A[fr[1]].size)
  BY <1>2, <1>3, <1>5, Zenon DEF InFrames, InRange
<1>9. fr[1] <= fr[q]
  <2>1. 1 < q => fr[1] <= fr[q]
    BY <1>5, Zenon DEF InFrames, Ascending
  <2>2. fr[1] <= fr[1]
    BY <1>5, SMT
  <2>. QED  BY <1>5, <2>1, <2>2
<1>. QED  BY <1>1, <1>2, <1>3, <1>4, <1>7, <1>8, <1>9, Zenon DEF FirstHolds

(* A reader takes p bytes of the frame, those at the status left out, from d. *)
MoveStep(d, p) ==
  LET e == Lesser(p, total_valid_data)
  IN /\ out' = out \o Bytes(d.data, e)
     /\ bytes_in_descs' = (IF p > bytes_in_descs THEN 0 ELSE bytes_in_descs - p)
     /\ total_valid_data' = total_valid_data - e
     /\ filled_frame_size' = filled_frame_size + e

MovesLast(f) == bytes_in_descs' = 0 /\ out' = Run(f.first - 1, f.size - StatusBytes)
MovesOn(f, c) == bytes_in_descs' # 0 /\ Reading(f, c)'

LEMMA EnoughData ==
  ASSUME NEW s \in Nat, NEW c \in Nat, NEW l \in Nat, s <= c + l, NEW e \in Nat, c + e <= s
  PROVE  e <= l
BY SMT

LEMMA MovedEnd ==
  ASSUME NEW f \in Frame, f.size > StatusBytes, NEW c \in Nat, c < f.size, Reading(f, c),
         NEW d \in DescType, Part(d.data, f, c), f.size <= c + Len(d.data),
         MoveStep(d, f.size - filled_frame_size)
  PROVE  MovesLast(f)
<1>1. PICK s \in Nat, t \in Nat, a \in Nat :
        s = f.size /\ t = StatusBytes /\ t < s /\ a = f.first - 1 /\ c < s
  <2>1. f.first - 1 \in Nat /\ f.size \in Nat /\ StatusBytes \in Nat /\ StatusBytes < f.size
    BY FrameFacts, StatusFact, SMT
  <2>. QED  BY <2>1
<1>2. PICK k, e, v : /\ k = Lesser(c, s - t) /\ e = Lesser(s - k, s - t - k)
                     /\ v = IF s - k > s - c THEN 0 ELSE (s - c) - (s - k)
  OBVIOUS
<1>3. MoveEnds(s, c, t, k, e, v)
  BY <1>1, <1>2, MoveEndArith
<1>4. /\ bytes_in_descs = s - c /\ filled_frame_size = k /\ total_valid_data = s - t - k
      /\ out = Run(a, k)
  BY <1>1, <1>2, Zenon DEF Reading
<1>5. out' = Run(a, k) \o Bytes(d.data, e) /\ bytes_in_descs' = v
  BY <1>1, <1>2, <1>4, Zenon DEF MoveStep
<1>6. e <= Len(d.data) /\ d.data \in Seq(Nat)
  <2>1. d.data \in Seq(Nat) /\ Len(d.data) \in Nat
    BY DescFacts
  <2>2. e \in Nat /\ c + e <= s
    BY <1>3, Zenon DEF MoveEnds, Takings
  <2>3. s <= c + Len(d.data)
    BY <1>1
  <2>. QED  BY <2>1, <2>2, <2>3, EnoughData
<1>7. Takings(f.size, c, t, k, e) /\ k + e = s - t /\ v = 0
  BY <1>1, <1>3, Zenon DEF MoveEnds
<1>8. Run(a, k) \o Bytes(d.data, e) = Run(a, k + e)
  <2>1. TakesOn(a, k, d.data, e)
    BY <1>1, <1>6, <1>7, OutGoesOn, Zenon
  <2>. QED  BY <2>1, Zenon DEF TakesOn
<1>. QED  BY <1>1, <1>5, <1>7, <1>8 DEF MovesLast

LEMMA MovedOn ==
  ASSUME NEW f \in Frame, f.size > StatusBytes, NEW c \in Nat, Reading(f, c),
         NEW d \in DescType, Part(d.data, f, c), c + RxSize < f.size, Len(d.data) = RxSize,
         MoveStep(d, RxSize)
  PROVE  MovesOn(f, c + RxSize)
<1>1. PICK s \in Nat, t \in Nat, a \in Nat, z \in Nat :
        /\ s = f.size /\ t = StatusBytes /\ t < s /\ a = f.first - 1
        /\ z = RxSize /\ c + z < s
  <2>1. f.first - 1 \in Nat /\ f.size \in Nat /\ StatusBytes \in Nat /\ StatusBytes < f.size
        /\ RxSize \in Nat
    BY FrameFacts, StatusFact, RxSizeAssumption, SMT
  <2>. QED  BY <2>1
<1>2. PICK k, e, v : /\ k = Lesser(c, s - t) /\ e = Lesser(z, s - t - k)
                     /\ v = IF z > s - c THEN 0 ELSE (s - c) - z
  OBVIOUS
<1>3. MoveMore(s, c, t, k, e, v, z)
  BY <1>1, <1>2, MoveMoreArith
<1>4. /\ bytes_in_descs = s - c /\ filled_frame_size = k /\ total_valid_data = s - t - k
      /\ out = Run(a, k)
  BY <1>1, <1>2, Zenon DEF Reading
<1>5. /\ out' = Run(a, k) \o Bytes(d.data, e) /\ bytes_in_descs' = v
      /\ total_valid_data' = s - t - k - e /\ filled_frame_size' = k + e
  BY <1>1, <1>2, <1>4, Zenon DEF MoveStep
<1>6. /\ Takings(f.size, c, t, k, e) /\ e <= Len(d.data) /\ d.data \in Seq(Nat)
      /\ k + e = Lesser(c + z, s - t) /\ s - t - k - e = s - t - (k + e)
      /\ v = s - (c + z) /\ v # 0
  <2>1. d.data \in Seq(Nat)
    BY DescFacts
  <2>. QED  BY <1>1, <1>3, <2>1, Zenon DEF MoveMore
<1>7. Run(a, k) \o Bytes(d.data, e) = Run(a, k + e)
  <2>1. TakesOn(a, k, d.data, e)
    BY <1>1, <1>6, OutGoesOn, Zenon
  <2>. QED  BY <2>1, Zenon DEF TakesOn
<1>8. /\ bytes_in_descs' = s - (c + z) /\ filled_frame_size' = Lesser(c + z, s - t)
      /\ total_valid_data' = s - t - filled_frame_size'
      /\ out' = Run(a, filled_frame_size')
  BY <1>5, <1>6, <1>7, Zenon
<1>. QED  BY <1>1, <1>5, <1>6, <1>8, Zenon DEF MovesOn, Reading

LEMMA NextPlaceIn ==
  \A k \in 0 .. RxNum : k < RxNum => k + 1 \in 0 .. RxNum
BY RxNumAssumption, SMT

LEMMA HeldAfterMove ==
  ASSUME IInv, FramesOK, NEW q \in 0 .. RxNum, 0 < q,
         NEW fr \in [0 .. RxNum -> Nat], NEW of \in [0 .. RxNum -> Nat], NEW p \in [Nat -> Int],
         NEW u, u = user_rx_desc, InRow(rx, fifo_rx_desc, u, q),
         InFrames(Line, Lines, rx, u, q, fr, of, rx_bytes_in_frame),
         InCard(Line, Lines, rxfifo, fr[q], rx_bytes_in_frame, p),
         SizesOK(Line, Lines, rx_frame_size, bcfl, fr[q]),
         rx[u].count = RxSize, rx' = [rx EXCEPT ![u] = [Free EXCEPT !.count = rx[u].count]],
         UNCHANGED <<fifo_rx_desc, rx_frame_size, rx_bytes_in_frame, rxfifo, bcfl, incoming,
                     arrived, frames>>,
         Front' = RingNext(RxNum, u), NEW x, x = fr[1],
         Midway' => x < fr[q] /\ Reading(Line[x], of[1])', ~Midway' => of[1] = 0
  PROVE  HoldsFrom(x)'
<1>1. /\ rx \in [Position -> DescType] /\ u \in Position /\ rx_bytes_in_frame \in Nat
      /\ Lines \in Nat
  BY FrameTypes
<1>2. Lines' = Lines /\ Line' = Line
  BY LineSame, Zenon
<1>3. /\ Unused(rx'[u]) /\ ~rx'[u].cstop /\ \A i \in Position \ {u} : rx'[i] = rx[i]
  <2>1. rx'[u] = [Free EXCEPT !.count = rx[u].count] /\ \A i \in Position \ {u} : rx'[i] = rx[i]
    BY <1>1, Zenon
  <2>2. \A c : Unused([Free EXCEPT !.count = c]) <=> c = RxSize
    BY SMT DEF Unused, Free
  <2>3. \A c : ~[Free EXCEPT !.count = c].cstop
    BY SMT DEF Free
  <2>. QED  BY <2>1, <2>2, <2>3
<1>4. rx[u].cstop
  <2>1. 0 \in 0 .. RxNum - 1 /\ RingAt(RxNum, u, 0) = u
    BY <1>1, RingFacts, SMT
  <2>. QED  BY <2>1, Zenon DEF InRow
<1>5. q - 1 \in 0 .. RxNum /\ InRow(rx', fifo_rx_desc, RingNext(RxNum, u), q - 1)
  <2>1. \A i \in Position \ {u} : rx'[i].cstop <=> rx[i].cstop
    BY <1>3
  <2>. QED  BY <1>1, <1>3, <1>4, <2>1, GiveBack, Zenon
<1>. DEFINE g == [k \in 0 .. RxNum |-> IF k < RxNum THEN fr[k + 1] ELSE 0]
            c == [k \in 0 .. RxNum |-> IF k < RxNum THEN of[k + 1] ELSE 0]
<1>6. /\ g \in [0 .. RxNum -> Nat] /\ c \in [0 .. RxNum -> Nat]
      /\ \A k \in 0 .. RxNum - 1 : g[k] = fr[k + 1] /\ c[k] = of[k + 1]
  <2>1. \A k \in 0 .. RxNum : k < RxNum => k + 1 \in 0 .. RxNum
    BY NextPlaceIn
  <2>2. \A k \in 0 .. RxNum : g[k] \in Nat /\ c[k] \in Nat
    BY <2>1
  <2>3. \A k \in 0 .. RxNum - 1 : k \in 0 .. RxNum /\ k < RxNum
    BY RxNumAssumption, SMT
  <2>. QED  BY <2>2, <2>3
<1>7. g[0] = fr[1] /\ c[0] = of[1] /\ g[q - 1] = fr[q]
  <2>1. 0 \in 0 .. RxNum - 1 /\ 0 + 1 = 1 /\ q - 1 \in 0 .. RxNum - 1 /\ (q - 1) + 1 = q
    BY RxNumAssumption, SMT
  <2>. QED  BY <1>6, <2>1
<1>. HIDE DEF g, c
<1>8. InFrames(Line, Lines, rx', RingNext(RxNum, u), q - 1, g, c, rx_bytes_in_frame)
  <2>1. PICK n \in Nat, b \in Nat : n = Lines /\ b = rx_bytes_in_frame
    BY <1>1
  <2>2. PICK A, r, s : A = Line /\ r = rx /\ s = rx'
    OBVIOUS
  <2>3. /\ InFrames(A, n, r, u, q, fr, of, b) /\ Unused(s[u]) /\ u \in Position
        /\ \A i \in Position \ {u} : s[i] = r[i]
    BY <1>1, <1>3, <2>1, <2>2
  <2>4. Given(s, r, u, fr, of, g, c)
    BY <1>6, <2>3, Zenon DEF Given
  <2>5. InFrames(A, n, s, RingNext(RxNum, u), q - 1, g, c, b)
    BY <2>3, <2>4, FramesGiveBack, Zenon
  <2>. QED  BY <2>1, <2>2, <2>5
<1>9. /\ InRow(rx', fifo_rx_desc', Front', q - 1) /\ g[0] = x
      /\ InFrames(Line', Lines', rx', Front', q - 1, g, c, rx_bytes_in_frame')
      /\ InCard(Line', Lines', rxfifo', g[q - 1], rx_bytes_in_frame', p)
      /\ SizesOK(Line', Lines', rx_frame_size', bcfl', g[q - 1])
      /\ Midway' => x < g[q - 1] /\ Reading(Line[x], c[0])'
      /\ ~Midway' => c[0] = 0
  BY <1>2, <1>5, <1>7, <1>8, Zenon
<1>. QED  BY <1>2, <1>5, <1>6, <1>9, Zenon DEF HoldsFrom

(* The first frame goes to its reader. *)
Delivers(x) ==
  /\ HoldsFrom(x + 1)' /\ frames' = frames /\ got' = Append(got, x) /\ x \in 1 .. Len(frames)

LEMMA FrameMoveHolds ==
  ASSUME FrameHypothesis, IInv, FramesOK, NEW x \in Nat, HoldsFrom(x),
         NEW r \in Readers, ReadFrameMove(r)
  PROVE  (HoldsFrom(x)' /\ UNCHANGED <<frames, got>>) \/ Delivers(x)
<1>1. pc[r] = "move" /\ "move" \in Holding /\ "move" # "advance"
  BY Zenon DEF ReadFrameMove, Holding
<1>2. Front = user_rx_desc /\ Midway
  BY <1>1, AtReader, Zenon
<1>3. PICK q \in 0 .. RxNum, fr \in [0 .. RxNum -> Nat], of \in [0 .. RxNum -> Nat],
           p \in [Nat -> Int] :
        /\ InRow(rx, fifo_rx_desc, user_rx_desc, q) /\ fr[0] = x
        /\ InFrames(Line, Lines, rx, user_rx_desc, q, fr, of, rx_bytes_in_frame)
        /\ InCard(Line, Lines, rxfifo, fr[q], rx_bytes_in_frame, p)
        /\ SizesOK(Line, Lines, rx_frame_size, bcfl, fr[q])
        /\ x < fr[q] /\ Reading(Line[x], of[0])
  BY <1>2, Zenon DEF HoldsFrom
<1>4. PICK n \in Nat \ {0}, u \in Position : n = Lines /\ u = user_rx_desc
  BY FrameTypes
<1>5. PICK A, d : A = Line /\ d = rx[u] /\ d \in DescType
  BY <1>4, FrameTypes
<1>6. PICK c \in Nat, g \in Nat, e \in Nat, z \in Nat :
        c = of[0] /\ g = fr[1] /\ e = of[1] /\ z = fr[q] /\ x < z
  <2>1. 0 \in 0 .. RxNum /\ 1 \in 0 .. RxNum
    BY RxNumAssumption, SMT
  <2>. QED  BY <1>3, <2>1
<1>7. FirstHolds(A, n, d, q, x, c, g, e, z)
  <2>1. InFrames(A, n, rx, u, q, fr, of, rx_bytes_in_frame) /\ fr[0] < fr[q]
    BY <1>3, <1>4, <1>5
  <2>2. FirstHolds(A, n, rx[u], q, fr[0], of[0], fr[1], of[1], fr[q])
    BY <2>1, FirstOfRow, Zenon
  <2>. QED  BY <1>3, <1>5, <1>6, <2>2
<1>8. /\ 0 < q /\ Filled(d, A, x, c, g, e) /\ x \in 1 .. n /\ x < n /\ c < A[x].size
      /\ g <= z /\ (g < n => e < A[g].size)
  BY <1>7, Zenon DEF FirstHolds
<1>9. x \in 1 .. Len(frames) /\ A[x] = frames[x]
  <2>1. x \in 1 .. Len(frames)
    BY <1>4, <1>8, LinePlaces, FrameTypes, Zenon
  <2>. QED  BY <1>5, <2>1, LineFacts
<1>10. PICK f \in Frame : f = A[x] /\ f.size > StatusBytes
  <2>1. A[x] \in Frame
    BY <1>4, <1>5, <1>8 DEF FramesOK
  <2>2. frames[x].size \in FrameSizes
    BY <1>9, Zenon DEF FramesOK
  <2>. QED  BY <1>9, <2>1, <2>2, Zenon DEF FrameHypothesis
<1>11. Part(d.data, f, c) /\ d.count = RxSize /\ c < f.size /\ Reading(f, c)
  BY <1>3, <1>5, <1>6, <1>8, <1>10, Zenon DEF Filled
<1>12. d.cstop
  <2>1. 0 \in 0 .. RxNum - 1 /\ RingAt(RxNum, u, 0) = u
    BY RingFacts, SMT
  <2>. QED  BY <1>3, <1>4, <1>5, <1>8, <2>1, Zenon DEF InRow
<1>13. /\ UNCHANGED <<user_rx_desc, fifo_rx_desc, rx_frame_size, rx_bytes_in_frame, rxfifo,
                      bcfl, incoming, arrived, frames>>
       /\ rx' = [rx EXCEPT ![u] = [Free EXCEPT !.count = d.count]]
       /\ Goto(r, "advance")
       /\ got' = IF bytes_in_descs' = 0 THEN Append(got, FrameOf(out')) ELSE got
  BY <1>4, <1>5, Zenon DEF ReadFrameMove, card
<1>14. MoveStep(d, IF d.fe THEN d.cnt - filled_frame_size ELSE d.count)
  BY <1>4, <1>5, <1>12, Zenon DEF ReadFrameMove, MoveStep
<1>15. Front' = RingNext(RxNum, u) /\ (Midway' <=> bytes_in_descs' # 0)
  <2>1. "advance" # "move"
    OBVIOUS
  <2>. QED  BY <1>1, <1>4, <1>13, <2>1, AfterReader
<1>16. ASSUME Midway' => g < z /\ Reading(Line[g], e)', ~Midway' => e = 0
       PROVE  HoldsFrom(g)'
  <2>1. /\ InRow(rx, fifo_rx_desc, u, q)
        /\ InFrames(Line, Lines, rx, u, q, fr, of, rx_bytes_in_frame)
        /\ rx[u].count = RxSize
        /\ rx' = [rx EXCEPT ![u] = [Free EXCEPT !.count = rx[u].count]]
    BY <1>3, <1>4, <1>5, <1>11, <1>13
  <2>2. /\ Midway' => g < fr[q] /\ Reading(Line[g], of[1])'
        /\ ~Midway' => of[1] = 0
    BY <1>6, <1>16
  <2>. QED  BY <1>3, <1>4, <1>6, <1>8, <1>13, <1>15, <2>1, <2>2, HeldAfterMove, Zenon
<1>17. CASE d.fe
  <2>1. g = x + 1 /\ e = 0 /\ d.cnt = f.size /\ f.size <= c + Len(d.data)
    BY <1>8, <1>10, <1>17, Zenon DEF Filled
  <2>2. MoveStep(d, f.size - filled_frame_size)
    BY <1>14, <1>17, <2>1
  <2>3. bytes_in_descs' = 0 /\ out' = Run(f.first - 1, f.size - StatusBytes)
    <3>1. MovesLast(f)
      BY <1>5, <1>10, <1>11, <2>1, <2>2, MovedEnd, Zenon
    <3>. QED  BY <3>1 DEF MovesLast
  <2>4. HoldsFrom(g)'
    BY <1>15, <1>16, <2>1, <2>3
  <2>5. FrameOf(out')  = x
    BY <1>9, <1>10, <2>3, FrameOfIs
  <2>. QED  BY <1>9, <1>13, <2>1, <2>3, <2>4, <2>5 DEF Delivers
<1>18. CASE ~d.fe
  <2>1. g = x /\ e = c + RxSize /\ Len(d.data) = RxSize /\ e < f.size
    BY <1>8, <1>10, <1>18, Zenon DEF Filled
  <2>2. MoveStep(d, RxSize) /\ c + RxSize < f.size
    BY <1>11, <1>14, <1>18, <2>1
  <2>3. bytes_in_descs' # 0 /\ Reading(f, c + RxSize)'
    <3>1. MovesOn(f, c + RxSize)
      BY <1>5, <1>10, <1>11, <2>1, <2>2, MovedOn, Zenon
    <3>. QED  BY <3>1 DEF MovesOn
  <2>4. Reading(Line[g], e)'
    <3>1. Line' = Line
      BY <1>13, LineSame, Zenon
    <3>. QED  BY <1>5, <1>10, <2>1, <2>3, <3>1, Zenon DEF Reading
  <2>5. HoldsFrom(g)'
    BY <1>6, <1>15, <1>16, <2>1, <2>3, <2>4
  <2>. QED  BY <1>13, <2>1, <2>3, <2>5
<1>. QED  BY <1>17, <1>18

-----------------------------------------------------------------------------
(* Every step of a port that receives frames *)

(* Nothing moves and no reader begins or ends a copy.                        *)
Quiet ==
  /\ UNCHANGED <<ring, locals, bcfl, rxfifo, incoming, arrived, frames, got>>
  /\ \A r \in Readers : /\ pc'[r] = "move" <=> pc[r] = "move"
                        /\ pc'[r] = "advance" <=> pc[r] = "advance"

LEMMA QuietHolds ==
  ASSUME NEW x, HoldsFrom(x), Quiet
  PROVE  HoldsFrom(x)' /\ UNCHANGED <<frames, got>>
<1>1. UNCHANGED <<rx, user_rx_desc, fifo_rx_desc, rx_frame_size, rx_bytes_in_frame, rxfifo,
                  bcfl, incoming, arrived, frames, got, bytes_in_descs, total_valid_data,
                  filled_frame_size, out>>
  BY Zenon DEF Quiet, ring, locals
<1>2. \A r \in Readers : /\ pc'[r] = "move" <=> pc[r] = "move"
                         /\ pc'[r] = "advance" <=> pc[r] = "advance"
  BY Zenon DEF Quiet
<1>3. Front' = Front
  BY <1>1, <1>2, Zenon DEF Front
<1>4. Midway' <=> Midway
  BY <1>1, <1>2, Zenon DEF Midway
<1>5. KeepsHeld /\ KeepsRead
  BY <1>1, <1>3, <1>4, Zenon DEF KeepsHeld, KeepsRead
<1>. QED  BY <1>1, <1>5, FrameStill, Zenon

LEMMA QuietReader ==
  ASSUME IInv, NEW r \in Readers,
         \/ ReadDown(r) \/ ReadCheck(r) \/ ReadWait(r) \/ ReadNoMemory(r) \/ ReadUp(r)
         \/ ReadSignal(r) \/ \E n \in BufSizes, nb \in NonblockFlags : ReadCall(r, n, nb)
  PROVE  Quiet
<1>1. /\ UNCHANGED <<ring, locals, bcfl, rxfifo, incoming, arrived, frames, got>>
      /\ pc[r] # "advance" /\ pc[r] # "move"
  BY Zenon DEF ReadDown, ReadCheck, ReadWait, ReadNoMemory, ReadUp, ReadSignal, ReadCall,
     card, ghosts
<1>2. \E l \in Places \ {"advance", "move"} : Goto(r, l)
  BY Zenon DEF ReadDown, ReadCheck, ReadWait, ReadNoMemory, ReadUp, ReadSignal, ReadCall,
     Return, Places
<1>3. \A p \in Readers : /\ pc'[p] = "move" <=> pc[p] = "move"
                         /\ pc'[p] = "advance" <=> pc[p] = "advance"
  BY <1>1, <1>2, Zenon DEF Goto, IInv, TypeOK, CallersType
<1>. QED  BY <1>1, <1>3, Zenon DEF Quiet

LEMMA QuietHandler ==
  ASSUME IInv, Isr \/ TimerHandler \/ IframeLock \/ IframeReady
  PROVE  Quiet /\ (ipc' = ipc \/ ipc' # "copy")
<1>1. /\ UNCHANGED <<ring, locals, bcfl, rxfifo, incoming, arrived, frames, got>>
      /\ ipc' = ipc \/ ipc' # "copy"
  BY Zenon DEF Isr, TimerHandler, IframeLock, IframeReady, card, ghosts
<1>2. \A p \in Readers : /\ pc'[p] = "move" <=> pc[p] = "move"
                         /\ pc'[p] = "advance" <=> pc[p] = "advance"
  BY Zenon DEF Isr, TimerHandler, IframeLock, IframeReady, callers
<1>. QED  BY <1>1, <1>2, Zenon DEF Quiet

(* What a step does to a port that holds the frames from x on.               *)
FrameStep(x) ==
  \/ HoldsFrom(x)' /\ UNCHANGED <<frames, got>>
  \/ HoldsFrom(x)' /\ Len(frames') = Len(frames) + 1 /\ got' = got
  \/ Delivers(x)
  \/ HoldsFrom(Lines)' /\ UNCHANGED <<frames, got>>

LEMMA RacedStill ==
  ASSUME RacedOK, ipc' = ipc \/ ipc' # "copy",
         UNCHANGED <<rx_frame_size, raced, bcfl, incoming>>
  PROVE  RacedOK'
BY Zenon DEF RacedOK

LEMMA FrameReaderStep ==
  ASSUME FrameHypothesis, IInv, FramesOK, RacedOK, ~streaming, NEW x \in Nat, HoldsFrom(x),
         NEW r \in Readers,
         \/ \E n \in BufSizes, nb \in NonblockFlags : ReadCall(r, n, nb)
         \/ ReadSignal(r) \/ ReaderStep(r)
  PROVE  FrameStep(x) /\ FramesOK' /\ RacedOK'
<1>1. ~(ReadStreamLock(r) \/ ReadStreamMove(r) \/ ReadStreamAdvance(r))
  BY Zenon DEF ReadStreamLock, ReadStreamMove, ReadStreamAdvance
<1>2. \/ ReadDown(r) \/ ReadCheck(r) \/ ReadWait(r) \/ ReadNoMemory(r) \/ ReadUp(r)
      \/ ReadSignal(r) \/ \E n \in BufSizes, nb \in NonblockFlags : ReadCall(r, n, nb)
      \/ ReadFrameLock(r) \/ ReadFrameMove(r) \/ ReadFrameAdvance(r)
  BY <1>1, Zenon DEF ReaderStep
<1>3. UNCHANGED <<rx_frame_size, raced, bcfl, incoming, ipc, arrived, frames>>
  BY <1>2, Zenon DEF ReadDown, ReadCheck, ReadWait, ReadNoMemory, ReadUp, ReadSignal, ReadCall,
     ReadFrameLock, ReadFrameMove, ReadFrameAdvance, ring, card, handlers, ghosts
<1>4. FramesOK' /\ RacedOK'
  BY <1>3, LineSame, RacedStill, Zenon
<1>5. (HoldsFrom(x)' /\ UNCHANGED <<frames, got>>) \/ Delivers(x)
  BY <1>2, QuietReader, QuietHolds, FrameLockHolds, FrameMoveHolds, FrameAdvanceHolds, Zenon
<1>. QED  BY <1>4, <1>5, Zenon DEF FrameStep

LEMMA FrameSteps ==
  ASSUME FrameHypothesis, IInv, FramesOK, RacedOK, ~streaming, NEW x \in Nat, HoldsFrom(x),
         Next
  PROVE  FrameStep(x) /\ FramesOK' /\ RacedOK'
<1>1. ASSUME NEW r \in Readers,
             \/ \E n \in BufSizes, nb \in NonblockFlags : ReadCall(r, n, nb)
             \/ ReadSignal(r) \/ ReaderStep(r)
      PROVE  FrameStep(x) /\ FramesOK' /\ RacedOK'
  BY <1>1, FrameReaderStep, Zenon
<1>2. CASE Isr \/ TimerHandler \/ IframeLock \/ IframeReady
  <2>1. Quiet /\ (ipc' = ipc \/ ipc' # "copy")
    BY <1>2, QuietHandler, Zenon
  <2>2. UNCHANGED <<rx_frame_size, raced, bcfl, incoming, arrived, frames>>
    BY <1>2, Zenon DEF Isr, TimerHandler, IframeLock, IframeReady, ring, card, ghosts
  <2>3. FramesOK' /\ RacedOK'
    BY <2>1, <2>2, LineSame, RacedStill, Zenon
  <2>. QED  BY <2>1, <2>3, QuietHolds, Zenon DEF FrameStep
<1>3. CASE IframeHead
  <2>1. UNCHANGED <<incoming, arrived, frames, got>>
    BY <1>3, Zenon DEF IframeHead, ghosts
  <2>2. HoldsFrom(x)' /\ RacedOK'
    BY <1>3, IframeHeadHolds, Zenon
  <2>. QED  BY <2>1, <2>2, LineSame, Zenon DEF FrameStep
<1>4. CASE IframeCopy
  <2>1. UNCHANGED <<incoming, arrived, frames, got>>
    BY <1>4, Zenon DEF IframeCopy, ghosts
  <2>2. HoldsFrom(x)' /\ RacedOK'
    BY <1>4, IframeCopyHolds, Zenon
  <2>. QED  BY <2>1, <2>2, LineSame, Zenon DEF FrameStep
<1>5. CASE PurgeRx
  <2>1. UNCHANGED <<frames, got>>
    BY <1>5, Zenon DEF PurgeRx
  <2>2. HoldsFrom(Lines)' /\ FramesOK' /\ RacedOK'
    <3>1. PICK n : n = Lines
      OBVIOUS
    <3>2. HoldsFrom(n)' /\ FramesOK' /\ RacedOK' /\ Lines' = n
      BY <1>5, <3>1, FramePurge
    <3>. QED  BY <3>1, <3>2
  <2>. QED  BY <2>1, <2>2, Zenon DEF FrameStep
<1>6. ASSUME NEW s \in FrameSizes, HwFrameWord(s)
      PROVE  FrameStep(x) /\ FramesOK' /\ RacedOK'
  <2>1. HoldsFrom(x)' /\ FramesOK' /\ RacedOK'
    BY <1>6, FrameWordHolds, FrameWordRaced, Zenon
  <2>2. got' = got
    BY <1>6, Zenon DEF HwFrameWord
  <2>3. frames' = frames \/ Len(frames') = Len(frames) + 1
    <3>1. frames \in Seq([first : Nat, size : Nat])
      BY Zenon DEF IInv, TypeOK, GhostsType
    <3>2. frames' = frames \/ \E f : frames' = Append(frames, f)
      BY <1>6, Zenon DEF HwFrameWord
    <3>3. \A f : Len(Append(frames, f)) = Len(frames) + 1
      BY <3>1, SMT
    <3>. QED  BY <3>2, <3>3
  <2>. QED  BY <2>1, <2>2, <2>3, Zenon DEF FrameStep
<1>7. ~HwStreamWord
  BY Zenon DEF HwStreamWord
<1>. QED  BY <1>1, <1>2, <1>3, <1>4, <1>5, <1>6, <1>7, Zenon DEF Next, Step, IframeStep

-----------------------------------------------------------------------------
(* The queue of frames *)

LEMMA InitQueue ==
  ASSUME Init
  PROVE  FramesOK /\ RacedOK /\ HoldsFrom(1)
<1>. USE DEF Init
<1>1. Front = 0 /\ ~Midway
  BY Zenon DEF Front, Midway
<1>2. incoming.done = 0 /\ incoming.size = 0 /\ Len(frames) = 0
  BY SMT DEF NoFrame
<1>3. Lines = 1
  BY <1>2, SMT DEF Lines
<1>4. Line = [f \in 1 .. 1 |-> [first |-> 1, size |-> 0]]
  <2>1. \A f \in 1 .. 1 : ~(f <= 0)
    BY SMT
  <2>2. 0 - 0 + 1 = 1
    BY SMT
  <2>. QED  BY <1>2, <1>3, <2>1, <2>2, Zenon DEF Line
<1>5. /\ Line \in [1 .. 1 -> Frame] /\ Line[1].size = 0 /\ 1 \in 1 .. 1
      /\ 1 \in Nat \ {0}
  BY <1>4, SMT DEF Frame
<1>6. FramesOK
  <2>1. FramesInOrder(Line, 1)
    <3>1. \A f, g \in 1 .. 1 : ~(f < g)
      BY SMT
    <3>. QED  BY <3>1, Zenon DEF FramesInOrder
  <2>2. \A f \in 1 .. Len(frames) : FALSE
    BY <1>2, SMT
  <2>3. 0 % 4 = 0
    BY SMT
  <2>. QED  BY <1>2, <1>3, <1>5, <2>1, <2>2, <2>3, Zenon DEF FramesOK
<1>7. RacedOK
  <2>1. "idle" # "copy"
    OBVIOUS
  <2>. QED  BY <2>1, Zenon DEF RacedOK
<1>. DEFINE fr == [k \in 0 .. RxNum |-> 1]
            of == [k \in 0 .. RxNum |-> 0]
            p == [k \in Nat |-> 0]
<1>8. /\ fr \in [0 .. RxNum -> Nat] /\ of \in [0 .. RxNum -> Nat] /\ p \in [Nat -> Int]
      /\ fr[0] = 1 /\ of[0] = 0 /\ p[1] = 0 /\ 0 \in 0 .. RxNum
  BY RxNumAssumption, SMT
<1>. HIDE DEF fr, of, p
<1>9. InFrames(Line, 1, rx, 0, 0, fr, of, 0) /\ InRow(rx, 0, 0, 0)
  BY <1>5, <1>8, FramesEmpty, Zenon
<1>10. InCard(Line, 1, <<>>, 1, 0, p)
  BY <1>5, <1>8, CardEmpty, Zenon
<1>11. SizesOK(Line, 1, 0, <<>>, 1)
  <2>1. Len(<<>>) = 1 - 1 /\ \A i \in 1 .. Len(<<>>) : FALSE
    BY SMT
  <2>. QED  BY <2>1, Zenon DEF SizesOK, Sizes
<1>12. HoldsFrom(1)
  BY <1>1, <1>3, <1>8, <1>9, <1>10, <1>11, Zenon DEF HoldsFrom
<1>. QED  BY <1>6, <1>7, <1>12

(* The frames in the ring and in the card are those from x on.               *)
QueueFrom(x) == x \in 1 .. Lines /\ Queued = x .. Len(frames)
QueueIs == ~streaming => \A x \in Nat : HoldsFrom(x) => QueueFrom(x)

LEMMA QueueFact == QInv => QueueIs
BY QueuedIs, Zenon DEF QInv, InQueue, QueueIs, QueueFrom

LEMMA FrameStutter ==
  ASSUME UNCHANGED vars, FramesOK, RacedOK, NEW x, HoldsFrom(x)
  PROVE  FrameStep(x) /\ FramesOK' /\ RacedOK'
<1>1. /\ Quiet /\ ipc' = ipc
      /\ UNCHANGED <<rx_frame_size, raced, bcfl, incoming, arrived, frames>>
  BY Zenon DEF vars, state, ring, callers, locals, handlers, card, ghosts, Quiet
<1>2. FramesOK' /\ RacedOK'
  BY <1>1, LineSame, RacedStill, Zenon
<1>. QED  BY <1>1, <1>2, QuietHolds, Zenon DEF FrameStep

LEMMA QueueStep ==
  ASSUME FrameHypothesis, QInv, [Next]_vars, ~streaming
  PROVE  FramesOK' /\ RacedOK' /\ \E x \in Nat : HoldsFrom(x) /\ FrameStep(x)
<1>1. PICK x \in Nat : IInv /\ FramesOK /\ RacedOK /\ HoldsFrom(x)
  BY Zenon DEF QInv, InQueue
<1>2. FrameStep(x) /\ FramesOK' /\ RacedOK'
  BY <1>1, FrameSteps, FrameStutter, Zenon
<1>. QED  BY <1>1, <1>2

(* No frame is received in the streaming modes.                              *)
LEMMA NoFrames ==
  ASSUME streaming, frames = <<>>, [Next]_vars
  PROVE  frames' = <<>>
<1>1. ~ \E s \in FrameSizes : HwFrameWord(s)
  BY Zenon DEF HwFrameWord
<1>2. UNCHANGED frames
  BY <1>1, Zenon
     DEF Next, Step, ReaderStep, IframeStep, vars, state, ghosts, ReadCall, ReadDown, ReadCheck,
         ReadWait, ReadNoMemory, ReadUp, ReadSignal, ReadFrameLock, ReadFrameMove,
         ReadFrameAdvance, ReadStreamLock, ReadStreamMove, ReadStreamAdvance, Isr,
         TimerHandler, IframeLock, IframeHead, IframeCopy, IframeReady, PurgeRx, HwStreamWord
<1>. QED  BY <1>2

LEMMA ModeKept == [Next]_vars => streaming' = streaming
BY Zenon DEF Next, vars

LEMMA QInvStep ==
  ASSUME FrameHypothesis, QInv, [Next]_vars
  PROVE  QInv'
<1>1. IInv' /\ streaming' = streaming
  BY Inductive, ModeKept, Zenon DEF QInv
<1>2. streaming => frames' = <<>>
  BY NoFrames, Zenon DEF QInv
<1>3. ASSUME ~streaming PROVE InQueue'
  <2>1. FramesOK' /\ RacedOK'
    BY <1>3, QueueStep, Zenon
  <2>2. PICK x \in Nat : FrameStep(x)
    BY <1>3, QueueStep, Zenon
  <2>3. \E y \in Nat : HoldsFrom(y)'
    <3>1. x + 1 \in Nat
      BY SMT
    <3>2. Lines \in Nat
      BY FrameTypes DEF QInv
    <3>3. frames' = frames => Lines' = Lines
      BY Zenon DEF Lines
    <3>. QED  BY <2>2, <3>1, <3>2, <3>3 DEF FrameStep, Delivers
  <2>. QED  BY <2>1, <2>3, Zenon DEF InQueue
<1>. QED  BY <1>1, <1>2, <1>3, Zenon DEF QInv

LEMMA SpanGrows ==
  ASSUME NEW l \in Nat, NEW x \in 1 .. l + 1
  PROVE  x .. (l + 1) = (x .. l) \cup {l + 1}
BY SMT

LEMMA SpanShrinks ==
  ASSUME NEW l \in Nat, NEW x \in 1 .. l
  PROVE  /\ x \in x .. l /\ \A g \in x .. l : x <= g
         /\ (x + 1) .. l = (x .. l) \ {x}
BY SMT

LEMMA SpanEmpty ==
  ASSUME NEW l \in Nat
  PROVE  (l + 1) .. l = {}
BY SMT

LEMMA FrameQueueStep ==
  ASSUME FrameHypothesis, QInv, QueueIs, QueueIs', [Next]_vars, ~streaming
  PROVE  [FrameQ!Next]_(FrameQ!vars)
<1>1. PICK x \in Nat : HoldsFrom(x) /\ FrameStep(x)
  BY QueueStep
<1>2. streaming' = streaming
  BY ModeKept
<1>3. QueueFrom(x) /\ \A y \in Nat : HoldsFrom(y)' => QueueFrom(y)'
  BY <1>1, <1>2, Zenon DEF QueueIs
<1>4. PICK l \in Nat : l = Len(frames) /\ Lines = l + 1
  BY FrameTypes DEF QInv
<1>5. x \in 1 .. l + 1 /\ Queued = x .. l
  BY <1>3, <1>4, Zenon DEF QueueFrom
<1>6. CASE HoldsFrom(x)' /\ UNCHANGED <<frames, got>>
  <2>1. Queued' = x .. l /\ Len(frames') = l
    BY <1>3, <1>4, <1>6, Zenon DEF QueueFrom
  <2>. QED  BY <1>2, <1>4, <1>5, <1>6, <2>1, Zenon DEF FrameQ!vars
<1>7. CASE HoldsFrom(x)' /\ Len(frames') = Len(frames) + 1 /\ got' = got
  <2>1. Queued' = x .. (l + 1) /\ Len(frames') = l + 1
    BY <1>3, <1>4, <1>7, Zenon DEF QueueFrom
  <2>2. Queued' = Queued \cup {Len(frames')}
    BY <1>5, <2>1, SpanGrows
  <2>. QED  BY <1>2, <1>7, <2>2, Zenon DEF FrameQ!Next, FrameQ!Accept
<1>8. CASE Delivers(x)
  <2>1. HoldsFrom(x + 1)' /\ frames' = frames /\ got' = Append(got, x) /\ x \in 1 .. l
    BY <1>4, <1>8, Zenon DEF Delivers
  <2>2. x + 1 \in Nat
    BY SMT
  <2>3. Queued' = (x + 1) .. l
    BY <1>3, <1>4, <2>1, <2>2, Zenon DEF QueueFrom
  <2>4. x \in Queued /\ (\A g \in Queued : x <= g) /\ Queued' = Queued \ {x}
    BY <1>5, <2>1, <2>3, SpanShrinks
  <2>. QED  BY <1>2, <2>1, <2>4, Zenon DEF FrameQ!Next, FrameQ!Deliver, FrameQ!Oldest
<1>9. CASE HoldsFrom(Lines)' /\ UNCHANGED <<frames, got>>
  <2>0. l + 1 \in Nat
    BY SMT
  <2>1. Lines' = l + 1 /\ Len(frames') = l
    BY <1>4, <1>9, Zenon DEF Lines
  <2>2. Queued' = (l + 1) .. l
    BY <1>3, <1>9, <2>0, <2>1, Zenon DEF QueueFrom
  <2>3. Queued' = {}
    BY <2>2, SpanEmpty
  <2>. QED  BY <1>2, <1>9, <2>3, Zenon DEF FrameQ!Next, FrameQ!Purge
<1>. QED  BY <1>1, <1>6, <1>7, <1>8, <1>9, Zenon DEF FrameStep

(* The ring, the receive FIFO with its byte counts, the tasklet, the readers *)
(* and the purges together are a queue of frames: each frame of the line is  *)
(* returned by a read whole, once and in the order of the line, unless a     *)
(* purge discards all that are queued, whatever the interleaving and the     *)
(* sizes of ring, descriptors, frames and buffers (io.c fscc_fifo_read_data, *)
(* fscc_user_read_frame, fscc_user_next_read_size, fscc_io_purge_rx).        *)
THEOREM ReceiveIsFrameQueue ==
  ASSUME FrameHypothesis
  PROVE  Spec => IsFrameQueue
<1>1. Init => QInv
  <2>. SUFFICES ASSUME Init PROVE QInv
    OBVIOUS
  <2>1. IInv /\ frames = <<>>
    BY InitHolds DEF Init
  <2>2. 1 \in Nat
    OBVIOUS
  <2>3. InQueue
    BY <2>2, InitQueue, Zenon DEF InQueue
  <2>. QED  BY <2>1, <2>3 DEF QInv
<1>2. QInv /\ [Next]_vars => QInv'
  BY QInvStep
<1>3. QInv => QueueIs
  BY QueueFact
<1>4. Init => FrameQ!Init
  <2>. SUFFICES ASSUME Init PROVE FrameQ!Init
    OBVIOUS
  <2>1. frames = <<>> /\ got = <<>>
    BY DEF Init
  <2>2. Len(frames) = 0 /\ 1 .. Len(frames) = {}
    BY <2>1, SMT
  <2>3. Queued = {}
    BY <2>2, Zenon DEF Queued
  <2>. QED  BY <2>1, <2>2, <2>3, Zenon DEF FrameQ!Init
<1>5. QInv /\ QInv' /\ QueueIs /\ QueueIs' /\ [Next]_vars => [FrameQ!Next]_(FrameQ!vars)
  <2>. SUFFICES ASSUME QInv, QInv', QueueIs, QueueIs', [Next]_vars
                PROVE  [FrameQ!Next]_(FrameQ!vars)
    OBVIOUS
  <2>1. CASE ~streaming
    BY <2>1, FrameQueueStep, Zenon
  <2>2. CASE streaming
    <3>1. streaming' = streaming /\ frames = <<>> /\ frames' = <<>>
      BY <2>2, ModeKept, NoFrames, Zenon DEF QInv
    <3>2. 1 .. Len(<<>>) = {}
      BY SMT
    <3>3. Queued = {} /\ Queued' = {}
      BY <3>1, <3>2, Zenon DEF Queued
    <3>. QED  BY <2>2, <3>1, <3>3, Zenon DEF FrameQ!vars
  <2>. QED  BY <2>1, <2>2
<1>. QED  BY <1>1, <1>2, <1>3, <1>4, <1>5, PTL DEF Spec, IsFrameQueue, FrameQ!Spec

(* What reads returned is frames before x, each once.                        *)
GotBefore(g, x) ==
  /\ \A i \in 1 .. Len(g) : g[i] \in 1 .. x - 1
  /\ \A i, j \in 1 .. Len(g) : i < j => g[i] < g[j]
RInv == QInv /\ (~streaming => \E x \in Nat : HoldsFrom(x) /\ GotBefore(got, x))

LEMMA GotLater ==
  ASSUME NEW g, NEW x \in Nat, GotBefore(g, x), NEW y \in Nat, x <= y
  PROVE  GotBefore(g, y)
<1>1. \A i \in 1 .. x - 1 : i \in 1 .. y - 1
  BY SMT
<1>. QED  BY <1>1, Zenon DEF GotBefore

LEMMA GotOneMore ==
  ASSUME NEW g \in Seq(Nat), NEW x \in Nat \ {0}, GotBefore(g, x)
  PROVE  GotBefore(Append(g, x), x + 1)
<1>. DEFINE h == Append(g, x)
<1>1. Len(g) \in Nat /\ Len(h) = Len(g) + 1 /\ h[Len(g) + 1] = x
      /\ \A i \in 1 .. Len(g) : h[i] = g[i]
  BY SMT
<1>. HIDE DEF h
<1>2. \A i \in 1 .. x - 1 : i \in 1 .. (x + 1) - 1 /\ i < x
  BY SMT
<1>3. x \in 1 .. (x + 1) - 1
  BY SMT
<1>4. \A i \in 1 .. Len(h) : i \in 1 .. Len(g) \/ i = Len(g) + 1
  BY <1>1, SMT
<1>5. \A i, j \in 1 .. Len(h) : i < j => i \in 1 .. Len(g)
  BY <1>1, SMT
<1>6. \A i \in 1 .. Len(h) : h[i] \in 1 .. (x + 1) - 1
  BY <1>1, <1>2, <1>3, <1>4, Zenon DEF GotBefore
<1>7. \A i, j \in 1 .. Len(h) : i < j => h[i] < h[j]
  BY <1>1, <1>2, <1>4, <1>5, Zenon DEF GotBefore
<1>. QED  BY <1>6, <1>7, Zenon DEF GotBefore, h

LEMMA RInvStep ==
  ASSUME FrameHypothesis, RInv, [Next]_vars
  PROVE  RInv'
<1>1. QInv' /\ streaming' = streaming
  BY QInvStep, ModeKept, Zenon DEF RInv
<1>2. ASSUME ~streaming
      PROVE  \E x \in Nat : HoldsFrom(x)' /\ GotBefore(got', x)
  <2>1. PICK x \in Nat : HoldsFrom(x) /\ GotBefore(got, x)
    BY <1>2, Zenon DEF RInv
  <2>2. IInv /\ FramesOK /\ RacedOK
    BY <1>2, Zenon DEF RInv, QInv, InQueue
  <2>3. FrameStep(x)
    BY <1>2, <2>1, <2>2, FrameSteps, FrameStutter, Zenon
  <2>4. x \in 1 .. Lines /\ Lines \in Nat /\ got \in Seq(Nat)
    BY <2>1, <2>2, QueuedIs, FrameTypes, Zenon DEF IInv, TypeOK, GhostsType
  <2>5. CASE HoldsFrom(x)' /\ got' = got
    BY <2>1, <2>5, Zenon
  <2>6. CASE Delivers(x)
    <3>1. x \in Nat \ {0} /\ x + 1 \in Nat
      BY <2>4, SMT
    <3>2. GotBefore(Append(got, x), x + 1)
      BY <2>1, <2>4, <3>1, GotOneMore
    <3>. QED  BY <2>6, <3>1, <3>2, Zenon DEF Delivers
  <2>7. CASE HoldsFrom(Lines)' /\ UNCHANGED <<frames, got>>
    <3>1. Lines' = Lines
      BY <2>7, Zenon DEF Lines
    <3>2. x <= Lines
      BY <2>4, SMT
    <3>3. GotBefore(got, Lines)
      BY <2>1, <2>4, <3>2, GotLater, Zenon
    <3>. QED  BY <2>4, <2>7, <3>1, <3>3, Zenon
  <2>. QED  BY <2>3, <2>5, <2>6, <2>7, Zenon DEF FrameStep
<1>. QED  BY <1>1, <1>2, Zenon DEF RInv

(* A read of a port that receives frames returns a frame of the line, and no *)
(* read returns it again: what the run rx_race refutes for a port that does  *)
(* not meet the hypothesis (io.c:687-699, the byte counts and the bytes in   *)
(* the FIFO are read one after the other).                                   *)
THEOREM FramesReadOnce ==
  ASSUME FrameHypothesis
  PROVE  Spec => [](~streaming => ReadOnce)
<1>1. Init => RInv
  <2>. SUFFICES ASSUME Init PROVE RInv
    OBVIOUS
  <2>1. IInv /\ frames = <<>> /\ got = <<>>
    BY InitHolds DEF Init
  <2>2. HoldsFrom(1) /\ InQueue /\ 1 \in Nat
    BY InitQueue DEF InQueue
  <2>3. GotBefore(got, 1)
    BY <2>1, SMT DEF GotBefore
  <2>. QED  BY <2>1, <2>2, <2>3 DEF RInv, QInv
<1>2. RInv /\ [Next]_vars => RInv'
  BY RInvStep
<1>3. RInv => (~streaming => ReadOnce)
  <2>1. \A n \in Nat : 0 \notin 1 .. n - 1
    BY SMT
  <2>. QED  BY <2>1, Zenon DEF RInv, GotBefore, ReadOnce
<1>. QED  BY <1>1, <1>2, <1>3, PTL DEF Spec

=============================================================================
