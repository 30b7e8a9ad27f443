---------------------------- MODULE TxQueueProofs ----------------------------
(***************************************************************************)
(* Proofs about TxFifo: that what leaves on the line is one frame, whole,   *)
(* and that the port is a queue of frames.  The transmit FIFO and the ring  *)
(* are one chain: the rest of the frame on the line, then whole frames of   *)
(* ascending numbers; the byte counts are those of the frames that have     *)
(* begun to enter the FIFO.                                                  *)
(***************************************************************************)
EXTENDS TxFifoProofs, SequenceTheorems

USE TxNumAssumption DEF Position

-----------------------------------------------------------------------------
(* The inductive invariant *)

(* The chain: what is in the FIFO, then what is in the ring from p on.      *)
Chain(fi, t, p) ==
  [k \in Nat |-> IF k < Len(fi) THEN fi[k + 1]
                 ELSE Chunk(t[RingAt(TxNum, p, k - Len(fi))])]

Ends(d, fr) == d.off + d.len = fr[d.frame]

Follows(d, e, fr) ==
  IF Ends(d, fr) THEN e.off = 0 /\ d.frame < e.frame
  ELSE e.frame = d.frame /\ e.off = d.off + d.len

Before(d, e) ==
  d.frame < e.frame \/ (d.frame = e.frame /\ d.off + d.len <= e.off)

(* A part of one of the frames; fr has the sizes of the frames.             *)
PartOf(d, fr) ==
  /\ d.frame \in 1 .. Len(fr) /\ d.off \in Nat /\ d.len \in Nat \ {0}
  /\ d.off + d.len <= fr[d.frame]

(* n chunks are the rest of a frame and then whole frames.                  *)
WholeFrames(c, fr, n) ==
  /\ \A k \in 0 .. n - 1 : PartOf(c[k], fr)
  /\ \A k \in 0 .. n - 2 : Follows(c[k], c[k + 1], fr)
  /\ \A k \in 0 .. n - 1 : \A j \in 0 .. k - 1 : Before(c[j], c[k])
  /\ n > 0 => Ends(c[n - 1], fr)

(* The frames s that left are in order and before those of the chain.       *)
InOrder(s, c, fr, n) ==
  \A i \in 1 .. Len(s) :
    /\ s[i] \in 1 .. Len(fr) /\ \A j \in 1 .. i - 1 : s[j] < s[i]
    /\ n > 0 => s[i] < c[0].frame

(* The line has the beginning of the frame whose rest comes first.          *)
Continued(l, d, n) ==
  IF l.bytes = 0 THEN l = NoLine /\ (n = 0 \/ d.off = 0)
  ELSE n > 0 /\ l.frames = {d.frame} /\ l.bytes = d.off

(* The chain goes on where the line is, and where what left has ended.      *)
GoesOn(c, fr, s, l, n) ==
  WholeFrames(c, fr, n) /\ InOrder(s, c, fr, n) /\ Continued(l, c[0], n)

(* The byte counts, with the one the tasklet has in hand.                   *)
Counts == IF opc = "copy" /\ frame_size # 0 THEN Append(bc, frame_size) ELSE bc

(* The frames that have begun to enter the FIFO and have not left.          *)
Begun(fi, l) == {fi[i].frame : i \in 1 .. Len(fi)} \cup l.frames

(* b are the sizes of the frames g, in their order.                         *)
Entries(g) == {g[k] : k \in 1 .. Len(g)}
SizesOf(g, b, fr) ==
  /\ Len(g) = Len(b)
  /\ \A k \in 1 .. Len(g) : b[k] = fr[g[k]] /\ \A j \in 1 .. k - 1 : g[j] < g[k]
StartedBy(b, fi, l, fr) ==
  \E g \in Seq(Nat) : SizesOf(g, b, fr) /\ Entries(g) = Begun(fi, l)

(* The first descriptor of a frame is marked and carries its size.         *)
Marked(t, fr) ==
  \A i \in Position :
    ~t[i].cstop => /\ t[i].frame \in 1 .. Len(fr)
                   /\ t[i].fe <=> t[i].off = 0
                   /\ t[i].fe => t[i].cnt = fr[t[i].frame]

Orderly(q) ==
  LET c == Chain(fifo, tx, fifo_tx_desc)
      n == Len(fifo) + q
  IN /\ InUse(q)
     /\ GoesOn(c, frames, sent, line, n)
     /\ StartedBy(Counts, fifo, line, frames)
     /\ Marked(tx, frames)

FramesOK == dropped \/ \E q \in 0 .. TxNum : Orderly(q)

FrameSizeReset == opc = "lock" => frame_size = 0

QInv == IInv /\ FrameSizeReset /\ FramesOK

-----------------------------------------------------------------------------
(* Two chains *)

(* They agree on the first n chunks. *)
Same(e, c, n) == \A k \in 0 .. n - 1 : e[k] = c[k]

(* The one is the other without its first of n chunks. *)
Shifted(e, c, n) == \A k \in 0 .. n - 2 : e[k] = c[k + 1]

-----------------------------------------------------------------------------
(* The parts of a frame *)

(* d describes the i-th part of frame f, of c bytes.                        *)
IsPart(d, c, i, f) ==
  /\ d.frame = f /\ ~d.cstop /\ (d.fe <=> i = 0) /\ (i = 0 => d.cnt = c)
  /\ d.off = i * TxSize /\ d.off \in Nat /\ d.len \in Nat \ {0}
  /\ d.off + d.len <= c
  /\ d.off = 0 <=> i = 0
  /\ IF i = Descs(c) - 1 THEN d.off + d.len = c
     ELSE d.off + d.len = (i + 1) * TxSize /\ d.off + d.len < c

LEMMA FilledPart ==
  ASSUME NEW c \in Nat \ {0}, NEW i \in Nat, i < Descs(c), NEW f \in Nat
  PROVE  IsPart(Filled(c, i, f), c, i, f)
<1>1. i * TxSize < c /\ i * TxSize \in Nat /\ (i + 1) * TxSize = i * TxSize + TxSize
  BY PartOfFrame, TxSizeAssumption, SMT
<1>2. PICK m \in Nat : m = i * TxSize
  BY <1>1
<1>3. i = 0 <=> m = 0
  <2>1. i = 0 => m = 0
    BY <1>2, TxSizeAssumption, SMT
  <2>2. ASSUME i >= 1 PROVE 1 * TxSize <= i * TxSize
    BY <2>2, Multiples, TxSizeAssumption
  <2>3. i = 0 \/ i >= 1
    BY SMT
  <2>. QED  BY <1>2, <2>1, <2>2, <2>3, TxSizeAssumption, SMT
<1>4. Filled(c, i, f) =
        LET n == IF c - m > TxSize THEN TxSize ELSE c - m
        IN [cstop |-> FALSE, fe |-> i = 0, cnt |-> IF i = 0 THEN c ELSE n,
            len |-> n, frame |-> f, off |-> m]
  BY <1>2 DEF Filled
<1>5. i = Descs(c) - 1 => c <= m + TxSize
  <2>1. Descs(c) \in Nat /\ c <= TxSize * Descs(c)
    BY DescsFact
  <2>2. i = Descs(c) - 1 => Descs(c) = i + 1
    BY <2>1, SMT
  <2>3. TxSize * (i + 1) = (i + 1) * TxSize
    BY TxSizeAssumption, SMT
  <2>. QED  BY <1>1, <1>2, <2>1, <2>2, <2>3, TxSizeAssumption, SMT
<1>6. i # Descs(c) - 1 => m + TxSize < c
  <2>1. ASSUME i # Descs(c) - 1 PROVE i + 1 \in Nat /\ i + 1 < Descs(c)
    BY <2>1, DescsFact, SMT
  <2>2. ASSUME i # Descs(c) - 1 PROVE (i + 1) * TxSize < c
    BY <2>1, <2>2, PartOfFrame
  <2>. QED  BY <1>1, <1>2, <2>2
<1>. DEFINE n == IF c - m > TxSize THEN TxSize ELSE c - m
            d == Filled(c, i, f)
<1>7. /\ n \in Nat \ {0} /\ m + n <= c /\ m + TxSize = (i + 1) * TxSize
      /\ IF i = Descs(c) - 1 THEN m + n = c ELSE m + n = m + TxSize /\ m + n < c
  BY <1>1, <1>2, <1>5, <1>6, TxSizeAssumption, SMT
<1>8. /\ d.frame = f /\ d.cstop = FALSE /\ d.fe = (i = 0) /\ (i = 0 => d.cnt = c)
      /\ d.off = m /\ d.len = n
  BY <1>4, SMT
<1>. HIDE DEF n
<1>. QED  BY <1>2, <1>3, <1>7, <1>8, Zenon DEF IsPart

(* The m chunks after the first n are the parts of frame f, of z bytes.     *)
Parts(e, n, m, z, f) ==
  \A k \in 0 .. m - 1 :
    /\ e[n + k].frame = f /\ e[n + k].off \in Nat /\ e[n + k].len \in Nat \ {0}
    /\ e[n + k].off + e[n + k].len <= z
    /\ k = 0 => e[n + k].off = 0
    /\ IF k = m - 1 THEN e[n + k].off + e[n + k].len = z
       ELSE /\ e[n + k].off + e[n + k].len < z
            /\ e[n + (k + 1)].off = e[n + k].off + e[n + k].len
    /\ \A j \in 0 .. k - 1 : e[n + j].off + e[n + j].len <= e[n + k].off

LEMMA FilledParts ==
  ASSUME NEW z \in Nat \ {0}, NEW n \in Nat, NEW f \in Nat, NEW e,
         \A k \in 0 .. Descs(z) - 1 : e[n + k] = Chunk(Filled(z, k, f))
  PROVE  Parts(e, n, Descs(z), z, f)
<1>. SUFFICES ASSUME NEW k \in 0 .. Descs(z) - 1
     PROVE /\ e[n + k].frame = f /\ e[n + k].off \in Nat /\ e[n + k].len \in Nat \ {0}
           /\ e[n + k].off + e[n + k].len <= z
           /\ k = 0 => e[n + k].off = 0
           /\ IF k = Descs(z) - 1 THEN e[n + k].off + e[n + k].len = z
              ELSE /\ e[n + k].off + e[n + k].len < z
                   /\ e[n + (k + 1)].off = e[n + k].off + e[n + k].len
           /\ \A j \in 0 .. k - 1 : e[n + j].off + e[n + j].len <= e[n + k].off
  BY Zenon DEF Parts
<1>1. Descs(z) \in Nat \ {0}
  BY DescsFact
<1>2. ASSUME NEW i \in 0 .. Descs(z) - 1
      PROVE  /\ i \in Nat /\ i < Descs(z)
             /\ e[n + i].frame = Filled(z, i, f).frame
             /\ e[n + i].off = Filled(z, i, f).off
             /\ e[n + i].len = Filled(z, i, f).len
  <2>1. i \in Nat /\ i < Descs(z)
    BY <1>1, SMT
  <2>2. e[n + i] = Chunk(Filled(z, i, f))
    BY Zenon
  <2>. QED  BY <2>1, <2>2, SMT DEF Chunk
<1>3. /\ e[n + k].frame = f /\ e[n + k].off = k * TxSize /\ e[n + k].off \in Nat
      /\ e[n + k].len \in Nat \ {0}
      /\ e[n + k].off + e[n + k].len <= z
      /\ k = 0 => e[n + k].off = 0
      /\ IF k = Descs(z) - 1 THEN e[n + k].off + e[n + k].len = z
         ELSE /\ e[n + k].off + e[n + k].len = (k + 1) * TxSize
              /\ e[n + k].off + e[n + k].len < z
  <2>1. k \in Nat /\ k < Descs(z)
    BY <1>2
  <2>2. IsPart(Filled(z, k, f), z, k, f)
    BY <2>1, FilledPart
  <2>3. k = 0 => k * TxSize = 0
    BY TxSizeAssumption, SMT
  <2>. QED  BY <1>2, <2>2, <2>3, Zenon DEF IsPart
<1>4. ASSUME k # Descs(z) - 1
      PROVE  e[n + (k + 1)].off = e[n + k].off + e[n + k].len
  <2>1. k + 1 \in 0 .. Descs(z) - 1 /\ k + 1 \in Nat /\ k + 1 < Descs(z)
    BY <1>1, <1>4, SMT
  <2>2. IsPart(Filled(z, k + 1, f), z, k + 1, f)
    BY <2>1, FilledPart
  <2>. QED  BY <1>2, <1>3, <1>4, <2>1, <2>2, Zenon DEF IsPart
<1>5. ASSUME NEW j \in 0 .. k - 1
      PROVE  e[n + j].off + e[n + j].len <= e[n + k].off
  <2>1. /\ j \in 0 .. Descs(z) - 1 /\ j \in Nat /\ j < Descs(z) /\ j # Descs(z) - 1
        /\ j + 1 \in Nat /\ j + 1 <= k /\ k \in Nat
    BY <1>1, SMT
  <2>2. IsPart(Filled(z, j, f), z, j, f)
    BY <2>1, FilledPart
  <2>3. (j + 1) * TxSize <= k * TxSize
    BY <2>1, Multiples, TxSizeAssumption
  <2>. QED  BY <1>2, <1>3, <2>1, <2>2, <2>3, Zenon DEF IsPart
<1>. QED  BY <1>3, <1>4, <1>5, Zenon

-----------------------------------------------------------------------------
(* The frames of the chain *)

(* Where two chains agree, all that is said of one is true of the other.    *)
LEMMA SameChain ==
  ASSUME NEW fr, NEW s, NEW l, NEW n \in Nat, NEW c, NEW e,
         Same(e, c, n),
         GoesOn(c, fr, s, l, n)
  PROVE  GoesOn(e, fr, s, l, n)
<1>. USE DEF Same, GoesOn
<1>1. /\ \A k \in 0 .. n - 2 : k \in 0 .. n - 1 /\ k + 1 \in 0 .. n - 1
      /\ \A k \in 0 .. n - 1 : \A j \in 0 .. k - 1 : j \in 0 .. n - 1
      /\ n > 0 => 0 \in 0 .. n - 1 /\ n - 1 \in 0 .. n - 1
      /\ n = 0 \/ n > 0
  BY SMT
<1>2. WholeFrames(e, fr, n)
  BY <1>1, Zenon DEF WholeFrames
<1>3. InOrder(s, e, fr, n)
  BY <1>1, Zenon DEF InOrder
<1>4. Continued(l, e[0], n)
  BY <1>1, Zenon DEF Continued
<1>. QED  BY <1>2, <1>3, <1>4

LEMMA LowestFirst ==
  ASSUME NEW fr, NEW n \in Nat, NEW c, WholeFrames(c, fr, n),
         NEW k \in 0 .. n - 1
  PROVE  c[0].frame <= c[k].frame /\ c[k].frame \in 1 .. Len(fr)
<1>1. 0 \in 0 .. n - 1 /\ (k = 0 \/ 0 \in 0 .. k - 1)
  BY SMT
<1>2. c[k].frame \in 1 .. Len(fr) /\ c[0].frame \in 1 .. Len(fr)
  BY <1>1, Zenon DEF WholeFrames, PartOf
<1>3. k = 0 \/ c[0].frame < c[k].frame \/ c[0].frame = c[k].frame
  BY <1>1, Zenon DEF WholeFrames, Before
<1>. QED  BY <1>2, <1>3, SMT

(* A new frame behind the chain.                                            *)
LEMMA FramesFill ==
  ASSUME NEW fr \in Seq(Nat), NEW n \in Nat, NEW m \in Nat \ {0}, NEW z \in Nat,
         NEW c, NEW e, WholeFrames(c, fr, n),
         Same(e, c, n),
         Parts(e, n, m, z, Len(fr) + 1)
  PROVE  WholeFrames(e, Append(fr, z), n + m)
<1>. USE DEF Same
<1>. DEFINE gr == Append(fr, z)
            f == Len(fr) + 1
<1>1. /\ Len(gr) = f /\ gr[f] = z /\ Len(fr) \in Nat /\ f \in 1 .. Len(gr)
      /\ \A i \in 1 .. Len(fr) : gr[i] = fr[i] /\ i \in 1 .. Len(gr) /\ i < f
  BY SMT
<1>. HIDE DEF gr, f
<1>2. ASSUME NEW k \in 0 .. n - 1
      PROVE  /\ PartOf(c[k], fr) /\ PartOf(e[k], gr) /\ e[k].frame < f
             /\ gr[e[k].frame] = fr[c[k].frame]
  BY <1>1, Zenon DEF WholeFrames, PartOf
<1>3. ASSUME NEW k \in 0 .. n + m - 1, k >= n
      PROVE  k - n \in 0 .. m - 1 /\ n + (k - n) = k
  BY <1>3, SMT
<1>4. ASSUME NEW k \in 0 .. m - 1
      PROVE  PartOf(e[n + k], gr) /\ e[n + k].frame = f
  BY <1>1, Zenon DEF Parts, PartOf, f
<1>5. \A k \in 0 .. n + m - 1 : k \in 0 .. n - 1 \/ k >= n
  BY SMT
<1>6. ASSUME NEW k \in 0 .. n + m - 1
      PROVE  PartOf(e[k], gr)
  <2>1. CASE k \in 0 .. n - 1
    BY <1>2, <2>1
  <2>2. CASE k >= n
    BY <1>3, <1>4, <2>2, Zenon
  <2>. QED  BY <1>5, <2>1, <2>2
<1>7. ASSUME NEW k \in 0 .. n + m - 2
      PROVE  Follows(e[k], e[k + 1], gr)
  <2>1. CASE k < n - 1
    <3>1. k \in 0 .. n - 2 /\ k \in 0 .. n - 1 /\ k + 1 \in 0 .. n - 1
      BY <2>1, SMT
    <3>2. Follows(c[k], c[k + 1], fr)
      BY <3>1, Zenon DEF WholeFrames
    <3>. QED  BY <1>2, <3>1, <3>2, Zenon DEF Follows, Ends
  <2>2. CASE k = n - 1
    <3>1. n > 0 /\ k \in 0 .. n - 1 /\ 0 \in 0 .. m - 1 /\ n + 0 = k + 1
      BY <2>2, SMT
    <3>2. Ends(c[k], fr)
      BY <2>2, <3>1, Zenon DEF WholeFrames
    <3>3. Ends(e[k], gr)
      BY <1>2, <3>1, <3>2, Zenon DEF Ends
    <3>4. e[k + 1].frame = f /\ e[k + 1].off = 0
      <4>1. e[n + 0].frame = f /\ e[n + 0].off = 0
        BY <3>1, Zenon DEF Parts, f
      <4>. QED  BY <3>1, <4>1
    <3>. QED  BY <1>2, <3>1, <3>3, <3>4, Zenon DEF Follows
  <2>3. CASE k > n - 1
    <3>1. /\ k - n \in 0 .. m - 1 /\ n + (k - n) = k /\ k - n # m - 1
          /\ (k - n) + 1 \in 0 .. m - 1 /\ n + ((k - n) + 1) = k + 1
      BY <2>3, SMT
    <3>2. /\ e[k].frame = f /\ e[k].off + e[k].len < z
          /\ e[k + 1].off = e[k].off + e[k].len
          /\ e[k].off \in Nat /\ e[k].len \in Nat
      <4>1. /\ e[n + (k - n)].frame = f
            /\ e[n + (k - n)].off + e[n + (k - n)].len < z
            /\ e[n + ((k - n) + 1)].off = e[n + (k - n)].off + e[n + (k - n)].len
            /\ e[n + (k - n)].off \in Nat /\ e[n + (k - n)].len \in Nat
        BY <3>1, Zenon DEF Parts, f
      <4>. QED  BY <3>1, <4>1
    <3>3. e[k + 1].frame = f
      <4>1. e[n + ((k - n) + 1)].frame = f
        BY <3>1, Zenon DEF Parts, f
      <4>. QED  BY <3>1, <4>1
    <3>4. e[k].off + e[k].len # z
      BY <3>2, SMT
    <3>. QED  BY <1>1, <3>2, <3>3, <3>4, Zenon DEF Follows, Ends
  <2>. QED  BY <2>1, <2>2, <2>3, SMT
<1>8. ASSUME NEW k \in 0 .. n + m - 1, NEW j \in 0 .. k - 1
      PROVE  Before(e[j], e[k])
  <2>1. CASE k \in 0 .. n - 1
    <3>1. j \in 0 .. n - 1
      BY <2>1, SMT
    <3>. QED  BY <2>1, <3>1, Zenon DEF WholeFrames
  <2>2. CASE k >= n /\ j \in 0 .. n - 1
    <3>1. e[k].frame = f
      BY <1>3, <1>4, <2>2, Zenon
    <3>. QED  BY <1>2, <2>2, <3>1, Zenon DEF Before
  <2>3. CASE k >= n /\ j >= n
    <3>1. /\ k - n \in 0 .. m - 1 /\ n + (k - n) = k
          /\ j - n \in 0 .. m - 1 /\ n + (j - n) = j /\ j - n \in 0 .. (k - n) - 1
      BY <2>3, SMT
    <3>2. /\ e[n + (k - n)].frame = f /\ e[n + (j - n)].frame = f
          /\ e[n + (j - n)].off + e[n + (j - n)].len <= e[n + (k - n)].off
      BY <3>1, Zenon DEF Parts, f
    <3>. QED  BY <3>1, <3>2, Zenon DEF Before
  <2>. QED
    <3>1. k \in 0 .. n - 1 \/ (k >= n /\ (j \in 0 .. n - 1 \/ j >= n))
      BY SMT
    <3>. QED  BY <2>1, <2>2, <2>3, <3>1
<1>9. Ends(e[n + m - 1], gr)
  <2>1. m - 1 \in 0 .. m - 1 /\ n + (m - 1) = n + m - 1
    BY SMT
  <2>2. e[n + (m - 1)].frame = f /\ e[n + (m - 1)].off + e[n + (m - 1)].len = z
    BY <2>1, Zenon DEF Parts, f
  <2>. QED  BY <1>1, <2>1, <2>2, Zenon DEF Ends
<1>10. WholeFrames(e, gr, n + m)
  <2>1. \A k \in 0 .. n + m - 1 : PartOf(e[k], gr)
    BY <1>6
  <2>2. \A k \in 0 .. n + m - 2 : Follows(e[k], e[k + 1], gr)
    BY <1>7
  <2>3. \A k \in 0 .. n + m - 1 : \A j \in 0 .. k - 1 : Before(e[j], e[k])
    BY <1>8
  <2>. QED  BY <1>9, <2>1, <2>2, <2>3 DEF WholeFrames
<1>. QED  BY <1>10 DEF gr

(* What left is still before what is in the chain.                          *)
LEMMA OrderFill ==
  ASSUME NEW fr \in Seq(Nat), NEW s \in Seq(Nat), NEW n \in Nat, NEW m \in Nat \ {0},
         NEW z \in Nat, NEW c, NEW e, InOrder(s, c, fr, n),
         Same(e, c, n),
         Parts(e, n, m, z, Len(fr) + 1)
  PROVE  InOrder(s, e, Append(fr, z), n + m)
<1>. USE DEF Same
<1>. DEFINE gr == Append(fr, z)
            f == Len(fr) + 1
<1>1. \A i \in 1 .. Len(fr) : i \in 1 .. Len(gr) /\ i < f
  BY SMT
<1>. HIDE DEF gr, f
<1>2. ASSUME NEW i \in 1 .. Len(s)
      PROVE  /\ s[i] \in 1 .. Len(gr) /\ \A j \in 1 .. i - 1 : s[j] < s[i]
             /\ s[i] < e[0].frame
  <2>1. /\ s[i] \in 1 .. Len(fr) /\ \A j \in 1 .. i - 1 : s[j] < s[i]
        /\ n > 0 => s[i] < c[0].frame
    BY Zenon DEF InOrder
  <2>2. CASE n = 0
    <3>1. 0 \in 0 .. m - 1 /\ n + 0 = 0
      BY <2>2, SMT
    <3>2. e[n + 0].frame = f
      BY <3>1, Zenon DEF Parts, f
    <3>. QED  BY <1>1, <2>1, <3>1, <3>2, Zenon
  <2>3. CASE n > 0
    <3>1. 0 \in 0 .. n - 1
      BY <2>3, SMT
    <3>. QED  BY <1>1, <2>1, <2>3, <3>1, Zenon
  <2>. QED  BY <2>2, <2>3, SMT
<1>3. InOrder(s, e, gr, n + m)
  BY <1>2, Zenon DEF InOrder
<1>. QED  BY <1>3 DEF gr

(* The first chunk leaves.                                                  *)
LEMMA FramesTake ==
  ASSUME NEW fr, NEW n \in Nat \ {0}, NEW c, NEW e, WholeFrames(c, fr, n),
         Shifted(e, c, n)
  PROVE  WholeFrames(e, fr, n - 1)
<1>. USE DEF Shifted
<1>1. ASSUME NEW k \in 0 .. n - 1 - 1
      PROVE  /\ k \in 0 .. n - 2 /\ k + 1 \in 0 .. n - 1
             /\ \A j \in 0 .. k - 1 : j \in 0 .. n - 2 /\ j + 1 \in 0 .. (k + 1) - 1
  BY SMT
<1>2. ASSUME NEW k \in 0 .. n - 1 - 2
      PROVE  k \in 0 .. n - 2 /\ k + 1 \in 0 .. n - 2
  BY SMT
<1>3. \A k \in 0 .. n - 1 - 1 : PartOf(e[k], fr)
  BY <1>1, Zenon DEF WholeFrames
<1>4. \A k \in 0 .. n - 1 - 2 : Follows(e[k], e[k + 1], fr)
  BY <1>2, Zenon DEF WholeFrames
<1>5. \A k \in 0 .. n - 1 - 1 : \A j \in 0 .. k - 1 : Before(e[j], e[k])
  BY <1>1, Zenon DEF WholeFrames
<1>6. ASSUME n - 1 > 0 PROVE Ends(e[n - 1 - 1], fr)
  <2>1. n > 0 /\ n - 1 - 1 \in 0 .. n - 2 /\ n - 1 - 1 + 1 = n - 1
    BY <1>6, SMT
  <2>. QED  BY <2>1, Zenon DEF WholeFrames
<1>. QED  BY <1>3, <1>4, <1>5, <1>6, Zenon DEF WholeFrames

(* What the second chunk is to the first.                                   *)
LEMMA SecondChunk ==
  ASSUME NEW fr \in Seq(Nat), NEW n \in Nat \ {0}, NEW c, NEW e, WholeFrames(c, fr, n),
         Shifted(e, c, n)
  PROVE  /\ n - 1 > 0 => /\ e[0] = c[1]
                         /\ Follows(c[0], e[0], fr) /\ e[0].frame \in 1 .. Len(fr)
         /\ ~(n - 1 > 0) => n - 1 = 0 /\ Ends(c[0], fr)
<1>. USE DEF Shifted
<1>1. /\ n - 1 > 0 => 0 \in 0 .. n - 2 /\ 0 + 1 = 1 /\ 1 \in 0 .. n - 1
      /\ ~(n - 1 > 0) => n - 1 = 0 /\ n > 0
  BY SMT
<1>. QED  BY <1>1, Zenon DEF WholeFrames, PartOf

LEMMA OrderTake ==
  ASSUME NEW fr \in Seq(Nat), NEW s \in Seq(Nat), NEW n \in Nat \ {0}, NEW c, NEW e,
         WholeFrames(c, fr, n), InOrder(s, c, fr, n),
         Shifted(e, c, n), NEW r,
         r = IF Ends(c[0], fr) THEN Append(s, c[0].frame) ELSE s
  PROVE  InOrder(r, e, fr, n - 1)
<1>. USE DEF Shifted
<1>1. 0 \in 0 .. n - 1 /\ n > 0
  BY SMT
<1>2. c[0].frame \in 1 .. Len(fr)
  BY <1>1, Zenon DEF WholeFrames, PartOf
<1>3. \A i \in 1 .. Len(s) : /\ s[i] \in 1 .. Len(fr) /\ s[i] < c[0].frame
                             /\ \A j \in 1 .. i - 1 : s[j] < s[i]
  BY <1>1, Zenon DEF InOrder
<1>4. CASE Ends(c[0], fr)
  <2>1. n - 1 > 0 => c[0].frame < e[0].frame /\ e[0].frame \in 1 .. Len(fr)
    BY <1>4, SecondChunk, Zenon DEF Follows
  <2>2. /\ Len(r) = Len(s) + 1 /\ Len(s) \in Nat /\ r[Len(s) + 1] = c[0].frame
        /\ \A i \in 1 .. Len(s) : r[i] = s[i]
    BY <1>2, <1>4, SMT
  <2>3. ASSUME NEW i \in 1 .. Len(r)
        PROVE  /\ r[i] \in 1 .. Len(fr) /\ \A j \in 1 .. i - 1 : r[j] < r[i]
               /\ n - 1 > 0 => r[i] < e[0].frame
    <3>1. CASE i \in 1 .. Len(s)
      <4>1. \A j \in 1 .. i - 1 : j \in 1 .. Len(s)
        BY <2>2, <3>1, SMT
      <4>2. r[i] = s[i] /\ r[i] \in 1 .. Len(fr) /\ \A j \in 1 .. i - 1 : r[j] < r[i]
        BY <2>2, <1>3, <3>1, <4>1, Zenon
      <4>3. s[i] < c[0].frame /\ s[i] \in 1 .. Len(fr)
        BY <1>3, <3>1
      <4>4. n - 1 > 0 => s[i] < e[0].frame
        <5>1. \A i1, i2, i3 \in 1 .. Len(fr) : i1 < i2 /\ i2 < i3 => i1 < i3
          BY ONLY fr \in Seq(Nat), SMT
        <5>. QED  BY <1>2, <2>1, <4>3, <5>1, Zenon
      <4>. QED  BY <4>2, <4>4, Zenon
    <3>2. CASE i = Len(s) + 1
      <4>1. \A j \in 1 .. i - 1 : j \in 1 .. Len(s)
        BY <2>2, <3>2, SMT
      <4>. QED  BY <1>2, <1>3, <2>1, <2>2, <3>2, <4>1, Zenon
    <3>. QED  BY <2>2, <3>1, <3>2, SMT
  <2>. QED  BY <2>3, Zenon DEF InOrder
<1>5. CASE ~Ends(c[0], fr)
  <2>1. n - 1 > 0 => e[0].frame = c[0].frame
    <3>1. n - 1 > 0 => Follows(c[0], e[0], fr)
      BY SecondChunk
    <3>. QED  BY <1>5, <3>1, Zenon DEF Follows
  <2>2. r = s
    BY <1>5
  <2>. QED  BY <1>3, <2>1, <2>2, Zenon DEF InOrder
<1>. QED  BY <1>4, <1>5

-----------------------------------------------------------------------------
(* The byte counts *)

LEMMA SizesAppend ==
  ASSUME NEW fr, NEW g \in Seq(Nat), NEW b \in Seq(Nat), SizesOf(g, b, fr),
         NEW f \in Nat, fr[f] \in Nat, \A x \in Entries(g) : x < f
  PROVE  /\ Append(g, f) \in Seq(Nat)
         /\ SizesOf(Append(g, f), Append(b, fr[f]), fr)
         /\ Entries(Append(g, f)) = Entries(g) \cup {f}
<1>. DEFINE h == Append(g, f)
            d == Append(b, fr[f])
<1>1. /\ h \in Seq(Nat) /\ Len(h) = Len(g) + 1 /\ Len(g) \in Nat /\ h[Len(g) + 1] = f
      /\ \A k \in 1 .. Len(g) : h[k] = g[k]
  BY SMT
<1>2. /\ Len(d) = Len(b) + 1 /\ d[Len(b) + 1] = fr[f]
      /\ \A k \in 1 .. Len(b) : d[k] = b[k]
  BY SMT
<1>3. Len(g) = Len(b)
  BY DEF SizesOf
<1>. HIDE DEF h, d
<1>4. /\ \A k \in 1 .. Len(h) : k \in 1 .. Len(g) \/ k = Len(g) + 1
      /\ \A k \in 1 .. Len(g) : k \in 1 .. Len(h)
      /\ \A k \in 1 .. Len(h) : \A j \in 1 .. k - 1 : j \in 1 .. Len(g)
      /\ Len(g) + 1 \in 1 .. Len(h)
  BY <1>1, SMT
<1>5. ASSUME NEW k \in 1 .. Len(h)
      PROVE  d[k] = fr[h[k]] /\ \A j \in 1 .. k - 1 : h[j] < h[k]
  <2>1. CASE k \in 1 .. Len(g)
    BY <1>1, <1>2, <1>3, <1>4, <2>1, Zenon DEF SizesOf
  <2>2. CASE k = Len(g) + 1
    BY <1>1, <1>2, <1>3, <1>4, <2>2, Zenon DEF Entries
  <2>. QED  BY <1>4, <2>1, <2>2
<1>6. Len(h) = Len(d)
  BY <1>1, <1>2, <1>3
<1>7. SizesOf(h, d, fr)
  BY <1>5, <1>6, Zenon DEF SizesOf
<1>8. Entries(h) = Entries(g) \cup {f}
  <2>1. ASSUME NEW x \in Entries(h) PROVE x \in Entries(g) \cup {f}
    <3>1. PICK k \in 1 .. Len(h) : x = h[k]
      BY Zenon DEF Entries
    <3>. QED  BY <1>1, <1>4, <3>1, Zenon DEF Entries
  <2>2. ASSUME NEW x \in Entries(g) PROVE x \in Entries(h)
    <3>1. PICK k \in 1 .. Len(g) : x = g[k]
      BY Zenon DEF Entries
    <3>2. h[k] = x /\ k \in 1 .. Len(h)
      BY <1>1, <1>4, <3>1
    <3>. QED  BY <3>2, Zenon DEF Entries
  <2>3. f \in Entries(h)
    BY <1>1, <1>4, Zenon DEF Entries
  <2>. QED  BY <2>1, <2>2, <2>3, Zenon
<1>. QED  BY <1>1, <1>7, <1>8 DEF h, d

LEMMA SizesFirst ==
  ASSUME NEW fr, NEW g \in Seq(Nat), NEW b \in Seq(Nat), SizesOf(g, b, fr), b # <<>>
  PROVE  /\ 1 \in 1 .. Len(g) /\ Head(b) = fr[g[1]] /\ g[1] \in Entries(g)
         /\ \A x \in Entries(g) : x = g[1] \/ g[1] < x
<1>1. /\ Len(g) = Len(b) /\ Len(b) \in Nat /\ Len(b) > 0 /\ Head(b) = b[1]
      /\ 1 \in 1 .. Len(g)
  BY SMT DEF SizesOf
<1>2. Head(b) = fr[g[1]]
  BY <1>1, Zenon DEF SizesOf
<1>3. g[1] \in Entries(g)
  BY <1>1, Zenon DEF Entries
<1>4. ASSUME NEW x \in Entries(g) PROVE x = g[1] \/ g[1] < x
  <2>1. PICK k \in 1 .. Len(g) : x = g[k]
    BY Zenon DEF Entries
  <2>2. k = 1 \/ 1 \in 1 .. k - 1
    BY <1>1, SMT
  <2>. QED  BY <2>1, <2>2, Zenon DEF SizesOf
<1>. QED  BY <1>1, <1>2, <1>3, <1>4

LEMMA SizesTail ==
  ASSUME NEW fr, NEW g \in Seq(Nat), NEW b \in Seq(Nat), SizesOf(g, b, fr), b # <<>>
  PROVE  /\ Tail(g) \in Seq(Nat)
         /\ SizesOf(Tail(g), Tail(b), fr)
         /\ Entries(Tail(g)) = Entries(g) \ {g[1]}
<1>1. /\ Len(g) = Len(b) /\ Len(b) \in Nat /\ Len(b) > 0 /\ g # <<>>
  BY SMT DEF SizesOf
<1>. DEFINE h == Tail(g)
            d == Tail(b)
<1>2. /\ h \in Seq(Nat) /\ Len(h) = Len(g) - 1 /\ Len(d) = Len(b) - 1
      /\ \A k \in 1 .. Len(g) - 1 : h[k] = g[k + 1] /\ d[k] = b[k + 1]
  BY <1>1, SMT
<1>. HIDE DEF h, d
<1>3. ASSUME NEW k \in 1 .. Len(h)
      PROVE  d[k] = fr[h[k]] /\ \A j \in 1 .. k - 1 : h[j] < h[k]
  <2>1. /\ k \in 1 .. Len(g) - 1 /\ k + 1 \in 1 .. Len(g)
        /\ \A j \in 1 .. k - 1 : j \in 1 .. Len(g) - 1 /\ j + 1 \in 1 .. (k + 1) - 1
    BY <1>1, <1>2, SMT
  <2>. QED  BY <1>2, <2>1, Zenon DEF SizesOf
<1>4. SizesOf(h, d, fr)
  BY <1>1, <1>2, <1>3, Zenon DEF SizesOf
<1>5. Entries(h) = Entries(g) \ {g[1]}
  <2>1. ASSUME NEW x \in Entries(h) PROVE x \in Entries(g) /\ x # g[1]
    <3>1. PICK k \in 1 .. Len(h) : x = h[k]
      BY Zenon DEF Entries
    <3>2. k \in 1 .. Len(g) - 1 /\ k + 1 \in 1 .. Len(g) /\ 1 \in 1 .. (k + 1) - 1
      BY <1>1, <1>2, SMT
    <3>3. x = g[k + 1] /\ g[1] < g[k + 1]
      BY <1>2, <3>1, <3>2, Zenon DEF SizesOf
    <3>4. 1 \in 1 .. Len(g)
      BY <1>1, SMT
    <3>5. g[1] \in Nat /\ g[k + 1] \in Nat
      BY <3>2, <3>4, SMT
    <3>6. x # g[1]
      BY <3>3, <3>5, SMT
    <3>. QED  BY <3>2, <3>3, <3>6, Zenon DEF Entries
  <2>2. ASSUME NEW x \in Entries(g), x # g[1] PROVE x \in Entries(h)
    <3>1. PICK k \in 1 .. Len(g) : x = g[k]
      BY Zenon DEF Entries
    <3>2. k # 1
      BY <2>2, <3>1
    <3>3. k - 1 \in 1 .. Len(h) /\ k - 1 \in 1 .. Len(g) - 1 /\ k - 1 + 1 = k
      BY <1>1, <1>2, <3>2, SMT
    <3>4. h[k - 1] = x
      BY <1>2, <3>1, <3>3, Zenon
    <3>. QED  BY <3>3, <3>4, Zenon DEF Entries
  <2>. QED  BY <2>1, <2>2, Zenon
<1>. QED  BY <1>2, <1>4, <1>5 DEF h, d

(* The chain c begins with what is in the FIFO.                             *)
Begins(c, fi, n) == Len(fi) <= n /\ \A i \in 1 .. Len(fi) : c[i - 1] = fi[i]

(* The frames that have begun are frames, and none is before the first.     *)
LEMMA BegunFacts ==
  ASSUME NEW fr \in Seq(Nat), NEW n \in Nat, NEW c, NEW fi \in Seq(ChunkType), NEW l,
         WholeFrames(c, fr, n), Continued(l, c[0], n), Begins(c, fi, n),
         NEW x \in Begun(fi, l)
  PROVE  /\ n > 0 /\ c[0].frame \in 1 .. Len(fr)
         /\ x \in 1 .. Len(fr) /\ c[0].frame <= x
<1>1. CASE x \in l.frames
  <2>1. l.bytes # 0
    BY <1>1, SMT DEF Continued, NoLine
  <2>2. n > 0 /\ x = c[0].frame
    BY <1>1, <2>1, Zenon DEF Continued
  <2>3. 0 \in 0 .. n - 1
    BY <2>2, SMT
  <2>. QED  BY <2>2, <2>3, LowestFirst
<1>2. CASE x \notin l.frames
  <2>1. PICK i \in 1 .. Len(fi) : x = fi[i].frame
    BY <1>2, Zenon DEF Begun
  <2>2. i - 1 \in 0 .. n - 1 /\ 0 \in 0 .. n - 1 /\ n > 0
    BY SMT DEF Begins
  <2>3. x = c[i - 1].frame
    BY <2>1, Zenon DEF Begins
  <2>. QED  BY <2>2, <2>3, LowestFirst
<1>. QED  BY <1>1, <1>2

LEMMA BegunAppend ==
  ASSUME NEW fi \in Seq(ChunkType), NEW d \in ChunkType, NEW l
  PROVE  Begun(Append(fi, d), l) = Begun(fi, l) \cup {d.frame}
<1>. DEFINE fj == Append(fi, d)
<1>1. /\ Len(fj) = Len(fi) + 1 /\ fj[Len(fi) + 1] = d
      /\ \A i \in 1 .. Len(fi) : fj[i] = fi[i] /\ i \in 1 .. Len(fj)
      /\ Len(fi) + 1 \in 1 .. Len(fj)
      /\ \A i \in 1 .. Len(fj) : i \in 1 .. Len(fi) \/ i = Len(fi) + 1
  BY SMT
<1>. HIDE DEF fj
<1>2. Begun(fj, l) = Begun(fi, l) \cup {d.frame}
  <2>1. ASSUME NEW x \in Begun(fj, l) PROVE x \in Begun(fi, l) \cup {d.frame}
    <3>. SUFFICES ASSUME x \notin l.frames PROVE x \in Begun(fi, l) \cup {d.frame}
      BY Zenon DEF Begun
    <3>1. PICK i \in 1 .. Len(fj) : x = fj[i].frame
      BY Zenon DEF Begun
    <3>. QED  BY <1>1, <3>1, Zenon DEF Begun
  <2>2. ASSUME NEW x \in Begun(fi, l) PROVE x \in Begun(fj, l)
    <3>. SUFFICES ASSUME x \notin l.frames PROVE x \in Begun(fj, l)
      BY Zenon DEF Begun
    <3>1. PICK i \in 1 .. Len(fi) : x = fi[i].frame
      BY Zenon DEF Begun
    <3>2. fj[i] = fi[i] /\ i \in 1 .. Len(fj)
      BY <1>1
    <3>. QED  BY <3>1, <3>2, Zenon DEF Begun
  <2>3. d.frame \in Begun(fj, l)
    BY <1>1, Zenon DEF Begun
  <2>. QED  BY <2>1, <2>2, <2>3, Zenon
<1>. QED  BY <1>2 DEF fj

LEMMA NatFacts ==
  /\ \A i \in Nat, j \in Nat \ {0} : ~(i + j <= 0)
  /\ \A i, j \in Nat : j <= i /\ (j = i \/ i < j) => i = j
  /\ \A i, j, k \in Nat, m \in Nat \ {0} : i + j <= k => ~(k + m <= i + j)
BY SMT

(* A chunk that begins a frame adds its size to the byte counts; another one *)
(* belongs to a frame that has begun.                                        *)
LEMMA StartedCopy ==
  ASSUME NEW fr \in Seq(Nat), NEW n \in Nat, NEW c, NEW fi \in Seq(ChunkType), NEW l,
         WholeFrames(c, fr, n), Continued(l, c[0], n), Begins(c, fi, n), Len(fi) < n,
         NEW d \in ChunkType, d = c[Len(fi)], NEW b \in Seq(Nat), StartedBy(b, fi, l, fr)
  PROVE  StartedBy(IF d.off = 0 THEN Append(b, fr[d.frame]) ELSE b, Append(fi, d), l, fr)
<1>1. PICK g \in Seq(Nat) : SizesOf(g, b, fr) /\ Entries(g) = Begun(fi, l)
  BY Zenon DEF StartedBy
<1>2. /\ Len(fi) \in Nat /\ Len(fi) \in 0 .. n - 1 /\ n > 0 /\ n # 0
      /\ Len(fi) = 0 \/ (0 \in 0 .. Len(fi) - 1 /\ Len(fi) \in 1 .. Len(fi)
                         /\ Len(fi) - 1 \in 0 .. n - 2 /\ Len(fi) - 1 + 1 = Len(fi))
      /\ \A i \in 1 .. Len(fi) : i - 1 \in 0 .. Len(fi) - 1 /\ i - 1 \in 0 .. n - 1
      /\ 0 \in 0 .. n - 1
  BY SMT
<1>3. PartOf(d, fr)
  BY <1>2, Zenon DEF WholeFrames
<1>4. d.frame \in 1 .. Len(fr) /\ d.frame \in Nat /\ fr[d.frame] \in Nat
  BY <1>3, SMTT(30) DEF PartOf
<1>5. CASE d.off = 0
  <2>1. ASSUME NEW k \in 0 .. Len(fi) - 1, k \in 0 .. n - 1
        PROVE  c[k].frame < d.frame
    <3>1. PartOf(c[k], fr) /\ Before(c[k], d)
      BY <1>2, <2>1, Zenon DEF WholeFrames
    <3>2. ~(c[k].off + c[k].len <= d.off)
      BY <1>5, <3>1, NatFacts, Zenon DEF PartOf
    <3>. QED  BY <3>1, <3>2, Zenon DEF Before
  <2>2. ASSUME NEW x \in Entries(g) PROVE x < d.frame
    <3>1. x \in Begun(fi, l)
      BY <1>1
    <3>2. CASE x \in l.frames
      <4>1. l.bytes # 0
        BY <3>2, SMT DEF Continued, NoLine
      <4>2. x = c[0].frame /\ l.bytes = c[0].off
        BY <3>2, <4>1, Zenon DEF Continued
      <4>3. Len(fi) # 0
        BY <1>5, <4>1, <4>2
      <4>. QED  BY <1>2, <2>1, <4>2, <4>3, Zenon
    <3>3. CASE x \notin l.frames
      <4>1. PICK i \in 1 .. Len(fi) : x = fi[i].frame
        BY <3>1, <3>3, Zenon DEF Begun
      <4>2. x = c[i - 1].frame
        BY <4>1, Zenon DEF Begins
      <4>. QED  BY <1>2, <2>1, <4>2, Zenon
    <3>. QED  BY <3>2, <3>3
  <2>3. /\ Append(g, d.frame) \in Seq(Nat)
        /\ SizesOf(Append(g, d.frame), Append(b, fr[d.frame]), fr)
        /\ Entries(Append(g, d.frame)) = Entries(g) \cup {d.frame}
    <3>1. \A x \in Entries(g) : x < d.frame
      BY <2>2
    <3>2. PICK f \in Nat : f = d.frame
      BY <1>4
    <3>3. fr[f] \in Nat /\ \A x \in Entries(g) : x < f
      BY <1>4, <3>1, <3>2
    <3>4. /\ Append(g, f) \in Seq(Nat)
          /\ SizesOf(Append(g, f), Append(b, fr[f]), fr)
          /\ Entries(Append(g, f)) = Entries(g) \cup {f}
      BY <1>1, <3>3, SizesAppend
    <3>. QED  BY <3>2, <3>4
  <2>4. Begun(Append(fi, d), l) = Begun(fi, l) \cup {d.frame}
    BY BegunAppend
  <2>. QED  BY <1>1, <1>5, <2>3, <2>4, Zenon DEF StartedBy
<1>6. CASE d.off # 0
  <2>1. d.frame \in Begun(fi, l)
    <3>1. CASE Len(fi) = 0
      <4>1. l.frames = {d.frame}
        BY <1>2, <1>6, <3>1, Zenon DEF Continued
      <4>. QED  BY <4>1, Zenon DEF Begun
    <3>2. CASE Len(fi) # 0
      <4>1. Follows(c[Len(fi) - 1], d, fr)
        BY <1>2, <3>2, Zenon DEF WholeFrames
      <4>2. d.frame = c[Len(fi) - 1].frame
        BY <1>6, <4>1, Zenon DEF Follows
      <4>3. c[Len(fi) - 1] = fi[Len(fi)]
        BY <1>2, <3>2, Zenon DEF Begins
      <4>. QED  BY <1>2, <3>2, <4>2, <4>3, Zenon DEF Begun
    <3>. QED  BY <3>1, <3>2
  <2>2. Begun(Append(fi, d), l) = Begun(fi, l)
    <3>1. Begun(Append(fi, d), l) = Begun(fi, l) \cup {d.frame}
      BY BegunAppend
    <3>. QED  BY <2>1, <3>1, SMT
  <2>. QED  BY <1>1, <1>6, <2>2, Zenon DEF StartedBy
<1>. QED  BY <1>5, <1>6

(* The card sends the first chunk: the first byte count is the size of its   *)
(* frame, and goes with the last chunk of it.                                *)
LEMMA StartedFirst ==
  ASSUME NEW fr \in Seq(Nat), NEW n \in Nat, NEW c, NEW l, NEW fi \in Seq(ChunkType),
         NEW b \in Seq(Nat), NEW g \in Seq(Nat), WholeFrames(c, fr, n),
         Continued(l, c[0], n), Begins(c, fi, n), fi # <<>>, b # <<>>,
         SizesOf(g, b, fr), Entries(g) = Begun(fi, l)
  PROVE  /\ g[1] = c[0].frame /\ Head(b) = fr[c[0].frame]
         /\ fi[1] = c[0] /\ c[0].frame \in Begun(fi, l)
         /\ l.frames \subseteq {c[0].frame} /\ PartOf(c[0], fr)
<1>1. Len(fi) \in Nat /\ 1 \in 1 .. Len(fi) /\ n > 0 /\ 1 - 1 = 0 /\ Len(fi) <= n
  BY SMT DEF Begins
<1>2. fi[1] = c[0]
  BY <1>1, Zenon DEF Begins
<1>3. l.frames \subseteq {c[0].frame} /\ PartOf(c[0], fr)
  <2>1. l.frames \subseteq {c[0].frame}
    BY SMT DEF Continued, NoLine
  <2>2. 0 \in 0 .. n - 1
    BY <1>1, SMT
  <2>. QED  BY <2>1, <2>2, Zenon DEF WholeFrames
<1>4. c[0].frame \in Begun(fi, l)
  BY <1>1, <1>2, Zenon DEF Begun
<1>5. g[1] = c[0].frame
  <2>1. g[1] \in Begun(fi, l) /\ (c[0].frame = g[1] \/ g[1] < c[0].frame)
    BY <1>4, SizesFirst
  <2>2. g[1] \in 1 .. Len(fr) /\ c[0].frame \in 1 .. Len(fr) /\ c[0].frame <= g[1]
    BY <1>4, <2>1, BegunFacts
  <2>3. g[1] \in Nat /\ c[0].frame \in Nat
    BY <2>2, SMTT(30)
  <2>. QED  BY <2>1, <2>2, <2>3, NatFacts, Zenon
<1>6. Head(b) = fr[c[0].frame]
  BY <1>4, <1>5, SizesFirst
<1>. QED  BY <1>2, <1>3, <1>4, <1>5, <1>6

(* The first byte count is the size of the frame that goes out.             *)
LEMMA StartedHead ==
  ASSUME NEW fr \in Seq(Nat), NEW n \in Nat, NEW c, NEW l, NEW fi \in Seq(ChunkType),
         NEW b \in Seq(Nat), WholeFrames(c, fr, n), Continued(l, c[0], n),
         Begins(c, fi, n), fi # <<>>, b # <<>>, StartedBy(b, fi, l, fr)
  PROVE  Head(b) = fr[c[0].frame]
<1>1. PICK g \in Seq(Nat) : SizesOf(g, b, fr) /\ Entries(g) = Begun(fi, l)
  BY Zenon DEF StartedBy
<1>. QED  BY <1>1, StartedFirst

(* The byte counts when a chunk is out, m what is on the line then.         *)
LEMMA StartedSend ==
  ASSUME NEW fr \in Seq(Nat), NEW n \in Nat, NEW c, NEW l, NEW m, NEW fi \in Seq(ChunkType),
         NEW b \in Seq(Nat), WholeFrames(c, fr, n), Continued(l, c[0], n),
         Begins(c, fi, n), fi # <<>>, b # <<>>, StartedBy(b, fi, l, fr),
         m.frames = IF Ends(c[0], fr) THEN {} ELSE {c[0].frame}
  PROVE  StartedBy(IF Ends(c[0], fr) THEN Tail(b) ELSE b, Tail(fi), m, fr)
<1>1. PICK g \in Seq(Nat) : SizesOf(g, b, fr) /\ Entries(g) = Begun(fi, l)
  BY Zenon DEF StartedBy
<1>2. /\ Len(fi) \in Nat /\ 1 \in 1 .. Len(fi) /\ n > 0 /\ 1 - 1 = 0 /\ Len(fi) <= n
      /\ Tail(fi) \in Seq(ChunkType) /\ Len(Tail(fi)) = Len(fi) - 1
      /\ \A i \in 1 .. Len(fi) - 1 : Tail(fi)[i] = fi[i + 1]
  BY SMT DEF Begins
<1>3. /\ g[1] = c[0].frame /\ Head(b) = fr[c[0].frame]
      /\ fi[1] = c[0] /\ c[0].frame \in Begun(fi, l)
      /\ l.frames \subseteq {c[0].frame} /\ PartOf(c[0], fr)
  BY <1>1, StartedFirst
(* The other chunks of the FIFO are those that remain. *)
<1>4. ASSUME NEW i \in 1 .. Len(Tail(fi))
      PROVE  /\ i \in 0 .. n - 1 /\ 0 \in 0 .. i - 1 /\ i + 1 \in 1 .. Len(fi)
             /\ Tail(fi)[i] = c[i] /\ Tail(fi)[i] = fi[i + 1]
  <2>1. i \in 1 .. Len(fi) - 1
    BY <1>2, SMT
  <2>2. i \in 0 .. n - 1 /\ 0 \in 0 .. i - 1 /\ i + 1 \in 1 .. Len(fi) /\ i + 1 - 1 = i
    BY <1>2, <2>1, SMT
  <2>3. \A j \in 1 .. Len(fi) : c[j - 1] = fi[j]
    BY DEF Begins
  <2>4. c[i + 1 - 1] = fi[i + 1]
    BY <2>2, <2>3
  <2>. QED  BY <1>2, <2>1, <2>2, <2>4
<1>5. ASSUME NEW x \in Begun(fi, l), x # c[0].frame
      PROVE  \E i \in 1 .. Len(Tail(fi)) : x = Tail(fi)[i].frame
  <2>1. PICK i \in 1 .. Len(fi) : x = fi[i].frame
    BY <1>3, <1>5, Zenon DEF Begun
  <2>2. i # 1
    BY <1>3, <1>5, <2>1
  <2>3. i - 1 \in 1 .. Len(Tail(fi)) /\ i - 1 \in 1 .. Len(fi) - 1 /\ i - 1 + 1 = i
    BY <1>2, <2>2, SMT
  <2>4. x = Tail(fi)[i - 1].frame
    BY <1>2, <2>1, <2>3
  <2>. QED  BY <2>3, <2>4
<1>6. CASE ~Ends(c[0], fr)
  <2>1. Begun(Tail(fi), m) = Begun(fi, l)
    <3>0. m.frames = {c[0].frame}
      BY <1>6
    <3>1. ASSUME NEW x \in Begun(Tail(fi), m) PROVE x \in Begun(fi, l)
      <4>1. x = c[0].frame \/ \E i \in 1 .. Len(Tail(fi)) : x = Tail(fi)[i].frame
        BY <3>0, Zenon DEF Begun
      <4>2. ASSUME NEW i \in 1 .. Len(Tail(fi)), x = Tail(fi)[i].frame
            PROVE  x \in Begun(fi, l)
        BY <1>4, <4>2, Zenon DEF Begun
      <4>. QED  BY <1>3, <4>1, <4>2
    <3>2. ASSUME NEW x \in Begun(fi, l) PROVE x \in Begun(Tail(fi), m)
      BY <1>5, <3>0, Zenon DEF Begun
    <3>. QED  BY <3>1, <3>2
  <2>. QED  BY <1>1, <1>3, <1>6, <2>1, Zenon DEF StartedBy
<1>7. CASE Ends(c[0], fr)
  <2>1. ASSUME NEW i \in 1 .. Len(Tail(fi)) PROVE Tail(fi)[i].frame # c[0].frame
    <3>1. Before(c[0], c[i]) /\ PartOf(c[i], fr)
      BY <1>4, Zenon DEF WholeFrames
    <3>2. CASE c[0].frame < c[i].frame
      <4>1. c[0].frame # c[i].frame
        BY <1>3, <3>1, <3>2, SMT DEF PartOf
      <4>. QED  BY <1>4, <4>1
    <3>3. CASE c[0].frame = c[i].frame /\ c[0].off + c[0].len <= c[i].off
      <4>1. c[i].off + c[i].len <= c[0].off + c[0].len
        BY <1>7, <3>1, <3>3, Zenon DEF PartOf, Ends
      <4>. QED  BY <1>3, <3>1, <3>3, <4>1, NatFacts, Zenon DEF PartOf
    <3>. QED  BY <3>1, <3>2, <3>3, Zenon DEF Before
  <2>2. Begun(Tail(fi), m) = Begun(fi, l) \ {c[0].frame}
    <3>0. m.frames = {}
      BY <1>7
    <3>1. ASSUME NEW x \in Begun(Tail(fi), m) PROVE x \in Begun(fi, l) /\ x # c[0].frame
      <4>1. PICK i \in 1 .. Len(Tail(fi)) : x = Tail(fi)[i].frame
        BY <3>0, Zenon DEF Begun
      <4>. QED  BY <1>4, <2>1, <4>1, Zenon DEF Begun
    <3>2. ASSUME NEW x \in Begun(fi, l), x # c[0].frame PROVE x \in Begun(Tail(fi), m)
      BY <1>5, <3>2, Zenon DEF Begun
    <3>. QED  BY <3>1, <3>2, Zenon
  <2>3. /\ Tail(g) \in Seq(Nat) /\ SizesOf(Tail(g), Tail(b), fr)
        /\ Entries(Tail(g)) = Entries(g) \ {g[1]}
    BY <1>1, SizesTail
  <2>. QED  BY <1>1, <1>3, <1>7, <2>2, <2>3, Zenon DEF StartedBy
<1>. QED  BY <1>6, <1>7

(* A new frame has a number of its own.                                     *)
LEMMA StartedFill ==
  ASSUME NEW fr \in Seq(Nat), NEW n \in Nat, NEW c, NEW fi \in Seq(ChunkType), NEW l,
         WholeFrames(c, fr, n), Continued(l, c[0], n), Begins(c, fi, n),
         NEW b \in Seq(Nat), StartedBy(b, fi, l, fr), NEW z \in Nat
  PROVE  StartedBy(b, fi, l, Append(fr, z))
<1>1. PICK g \in Seq(Nat) : SizesOf(g, b, fr) /\ Entries(g) = Begun(fi, l)
  BY Zenon DEF StartedBy
<1>2. \A i \in 1 .. Len(fr) : Append(fr, z)[i] = fr[i]
  BY SMT
<1>3. ASSUME NEW k \in 1 .. Len(g) PROVE g[k] \in 1 .. Len(fr)
  <2>1. g[k] \in Begun(fi, l)
    BY <1>1, Zenon DEF Entries
  <2>. QED  BY <2>1, BegunFacts
<1>4. SizesOf(g, b, Append(fr, z))
  BY <1>1, <1>2, <1>3, Zenon DEF SizesOf
<1>. QED  BY <1>1, <1>4, Zenon DEF StartedBy

-----------------------------------------------------------------------------
(* The chain and the ring *)

(* q descriptors of t from p on are in use, and u follows them.             *)
InRow(t, u, p, q) ==
  /\ u = RingAt(TxNum, p, q)
  /\ \A k \in 0 .. TxNum - 1 : ~t[RingAt(TxNum, p, k)].cstop <=> k < q

LEMMA RingFacts ==
  ASSUME NEW p \in Position
  PROVE  /\ 0 \in 0 .. TxNum - 1
         /\ RingAt(TxNum, p, 0) = p
         /\ RingNext(TxNum, p) \in Position
         /\ \A k \in 0 .. TxNum : RingAt(TxNum, p, k) \in Position
         /\ \A k \in 0 .. TxNum - 1 :
              RingAt(TxNum, RingNext(TxNum, p), k) = RingAt(TxNum, p, k + 1)
         /\ RingAt(TxNum, p, TxNum) = p
         /\ \A k \in 1 .. TxNum - 1 : RingAt(TxNum, p, k) # p
         /\ \A i \in Position : /\ RingOffset(TxNum, p, i) \in 0 .. TxNum - 1
                                /\ RingAt(TxNum, p, RingOffset(TxNum, p, i)) = i
BY TxNumAssumption, SMT DEF RingAt, RingNext, RingOffset

LEMMA RingSums ==
  ASSUME NEW p \in Position, NEW q \in 0 .. TxNum
  PROVE  /\ \A n \in 0 .. TxNum - q :
              RingAt(TxNum, RingAt(TxNum, p, q), n) = RingAt(TxNum, p, q + n)
         /\ \A k \in 0 .. q - 1 :
              RingOffset(TxNum, RingAt(TxNum, p, q), RingAt(TxNum, p, k)) = TxNum - q + k
         /\ \A k \in q .. TxNum - 1 :
              RingOffset(TxNum, RingAt(TxNum, p, q), RingAt(TxNum, p, k)) = k - q
BY TxNumAssumption, SMT DEF RingAt, RingOffset

LEMMA ChainFifo ==
  ASSUME NEW fi \in Seq(ChunkType), NEW t, NEW p, NEW k \in 0 .. Len(fi) - 1
  PROVE  Chain(fi, t, p)[k] = fi[k + 1]
<1>1. k \in Nat /\ k < Len(fi)
  BY SMT
<1>. QED  BY <1>1, Zenon DEF Chain

LEMMA ChainRing ==
  ASSUME NEW fi \in Seq(ChunkType), NEW t, NEW p, NEW j \in Nat
  PROVE  Chain(fi, t, p)[Len(fi) + j] = Chunk(t[RingAt(TxNum, p, j)])
<1>. DEFINE k == Len(fi) + j
<1>1. k \in Nat /\ ~(k < Len(fi)) /\ k - Len(fi) = j
  BY SMT
<1>. HIDE DEF k
<1>2. Chain(fi, t, p)[k] = Chunk(t[RingAt(TxNum, p, k - Len(fi))])
  BY <1>1, Zenon DEF Chain
<1>3. Chain(fi, t, p)[k] = Chunk(t[RingAt(TxNum, p, j)])
  BY <1>1, <1>2
<1>. QED  BY <1>3 DEF k

LEMMA ChainBegins ==
  ASSUME NEW fi \in Seq(ChunkType), NEW t, NEW p, NEW q \in 0 .. TxNum
  PROVE  Begins(Chain(fi, t, p), fi, Len(fi) + q) /\ Len(fi) + q \in Nat
<1>1. Len(fi) \in Nat /\ Len(fi) <= Len(fi) + q /\ Len(fi) + q \in Nat
  BY TxNumAssumption, SMT
<1>2. ASSUME NEW i \in 1 .. Len(fi) PROVE Chain(fi, t, p)[i - 1] = fi[i]
  <2>1. i - 1 \in 0 .. Len(fi) - 1 /\ i - 1 + 1 = i
    BY <1>1, SMT
  <2>2. Chain(fi, t, p)[i - 1] = fi[i - 1 + 1]
    BY <2>1, ChainFifo
  <2>. QED  BY <2>1, <2>2
<1>. QED  BY <1>1, <1>2, Zenon DEF Begins

(* The descriptor at p has become free. *)
Taken(s, t, p) == s[p].cstop /\ \A i \in Position \ {p} : s[i] = t[i]

(* A descriptor goes from the ring to the FIFO: the chain stays as it is.   *)
LEMMA ChainCopy ==
  ASSUME NEW fi \in Seq(ChunkType), NEW t \in [Position -> DescType], NEW u,
         NEW p \in Position, NEW q \in 0 .. TxNum, InRow(t, u, p, q), ~t[p].cstop,
         NEW s, Taken(s, t, p)
  PROVE  /\ q > 0 /\ q - 1 \in 0 .. TxNum
         /\ InRow(s, u, RingNext(TxNum, p), q - 1)
         /\ Chain(fi, t, p)[Len(fi)] = Chunk(t[p])
         /\ Same(Chain(Append(fi, Chunk(t[p])), s, RingNext(TxNum, p)), Chain(fi, t, p),
                 Len(fi) + q)
<1>. USE DEF Same
<1>. DEFINE r == RingNext(TxNum, p)
            fj == Append(fi, Chunk(t[p]))
<1>1. /\ RingAt(TxNum, p, 0) = p /\ 0 \in 0 .. TxNum - 1 /\ 0 \in Nat
      /\ r \in Position /\ TxNum - 1 \in 0 .. TxNum - 1
      /\ \A k \in 0 .. TxNum - 1 : RingAt(TxNum, r, k) = RingAt(TxNum, p, k + 1)
      /\ RingAt(TxNum, p, TxNum) = p /\ TxNum - 1 + 1 = TxNum
  BY RingFacts, TxNumAssumption, SMT
<1>2. q > 0 /\ q - 1 \in 0 .. TxNum /\ q - 1 \in 0 .. TxNum - 1 /\ q - 1 + 1 = q
  <2>1. 0 < q
    BY <1>1, Zenon DEF InRow
  <2>. QED  BY <2>1, TxNumAssumption, SMT
<1>3. /\ s[p].cstop
      /\ \A k \in 1 .. TxNum - 1 : s[RingAt(TxNum, p, k)] = t[RingAt(TxNum, p, k)]
  <2>1. s[p].cstop /\ \A i \in Position \ {p} : s[i] = t[i]
    BY Zenon DEF Taken
  <2>3. \A k \in 1 .. TxNum - 1 : RingAt(TxNum, p, k) \in Position \ {p}
    <3>1. \A k \in 1 .. TxNum - 1 : k \in 0 .. TxNum
      BY SMT
    <3>. QED  BY <3>1, RingFacts
  <2>. QED  BY <2>1, <2>3
<1>4. InRow(s, u, r, q - 1)
  <2>1. u = RingAt(TxNum, r, q - 1)
    BY <1>1, <1>2, Zenon DEF InRow
  <2>2. ASSUME NEW k \in 0 .. TxNum - 1
        PROVE  ~s[RingAt(TxNum, r, k)].cstop <=> k < q - 1
    <3>1. CASE k = TxNum - 1
      <4>1. ~(k < q - 1)
        BY <3>1, SMT
      <4>. QED  BY <1>1, <1>3, <3>1, <4>1, Zenon
    <3>2. CASE k # TxNum - 1
      <4>1. k + 1 \in 1 .. TxNum - 1 /\ k + 1 \in 0 .. TxNum - 1 /\ (k + 1 < q <=> k < q - 1)
        BY <3>2, SMT
      <4>. QED  BY <1>1, <1>3, <4>1, Zenon DEF InRow
    <3>. QED  BY <3>1, <3>2
  <2>. QED  BY <2>1, <2>2, Zenon DEF InRow
<1>5. Chain(fi, t, p)[Len(fi)] = Chunk(t[p])
  <2>1. Len(fi) + 0 = Len(fi)
    BY SMT
  <2>2. Chain(fi, t, p)[Len(fi) + 0] = Chunk(t[RingAt(TxNum, p, 0)])
    BY <1>1, ChainRing
  <2>. QED  BY <1>1, <2>1, <2>2
<1>6. ASSUME NEW k \in 0 .. Len(fi) + q - 1
      PROVE  Chain(fj, s, r)[k] = Chain(fi, t, p)[k]
  <2>0. Chunk(t[p]) \in ChunkType
    <3>1. t[p] \in DescType
      OBVIOUS
    <3>. QED  BY <3>1, SMT DEF Chunk, ChunkType, DescType
  <2>1. /\ fj \in Seq(ChunkType) /\ Len(fj) = Len(fi) + 1 /\ fj[Len(fi) + 1] = Chunk(t[p])
        /\ Len(fi) \in Nat /\ \A i \in 1 .. Len(fi) : fj[i] = fi[i]
    BY <2>0, SMT
  <2>. HIDE DEF fj
  <2>2. CASE k < Len(fi)
    <3>1. k \in 0 .. Len(fi) - 1 /\ k \in 0 .. Len(fj) - 1 /\ k + 1 \in 1 .. Len(fi)
      BY <2>1, <2>2, SMT
    <3>2. Chain(fi, t, p)[k] = fi[k + 1] /\ Chain(fj, s, r)[k] = fj[k + 1]
      BY <2>1, <3>1, ChainFifo
    <3>. QED  BY <2>1, <3>1, <3>2
  <2>3. CASE k = Len(fi)
    <3>1. k \in 0 .. Len(fj) - 1
      BY <2>1, <2>3, SMT
    <3>2. Chain(fj, s, r)[k] = fj[k + 1]
      BY <2>1, <3>1, ChainFifo, SMTT(30)
    <3>. QED  BY <1>5, <2>1, <2>3, <3>2
  <2>4. CASE k > Len(fi)
    <3>1. PICK j \in 1 .. TxNum - 1 : k = Len(fi) + j
      <4>1. k - Len(fi) \in 1 .. TxNum - 1 /\ k = Len(fi) + (k - Len(fi))
        BY <2>1, <2>4, SMT
      <4>. QED  BY <4>1
    <3>2. /\ j \in Nat /\ j - 1 \in Nat /\ k = Len(fj) + (j - 1)
          /\ j - 1 \in 0 .. TxNum - 1 /\ j - 1 + 1 = j
      BY <2>1, <3>1, SMT
    <3>3. Chain(fi, t, p)[Len(fi) + j] = Chunk(t[RingAt(TxNum, p, j)])
      <4>1. fi \in Seq(ChunkType) /\ j \in Nat
        BY <3>2
      <4>. QED  BY ONLY <4>1, ChainRing, Zenon
    <3>4. Chain(fj, s, r)[Len(fj) + (j - 1)] = Chunk(s[RingAt(TxNum, r, j - 1)])
      <4>1. PICK i \in Nat : i = j - 1
        BY <3>2
      <4>2. fj \in Seq(ChunkType)
        BY <2>1
      <4>3. Chain(fj, s, r)[Len(fj) + i] = Chunk(s[RingAt(TxNum, r, i)])
        BY ONLY i \in Nat, <4>2, ChainRing, ZenonT(60)
      <4>. QED  BY <4>1, <4>3
    <3>5. RingAt(TxNum, r, j - 1) = RingAt(TxNum, p, j)
      <4>1. RingAt(TxNum, r, j - 1) = RingAt(TxNum, p, j - 1 + 1)
        BY <1>1, <3>2
      <4>. QED  BY <3>2, <4>1
    <3>6. s[RingAt(TxNum, p, j)] = t[RingAt(TxNum, p, j)]
      BY <1>3
    <3>. QED  BY <3>1, <3>2, <3>3, <3>4, <3>5, <3>6, Zenon
  <2>. QED  BY <2>1, <2>2, <2>3, <2>4, SMT
<1>. QED  BY <1>2, <1>4, <1>5, <1>6

(* s is t with the first m parts of frame f, of z bytes, stored from u on.   *)
Stored(s, t, u, m, z, f) ==
  s = [i \in Position |-> IF RingOffset(TxNum, u, i) < m
                          THEN Filled(z, RingOffset(TxNum, u, i), f) ELSE t[i]]


(* A frame of z bytes is stored behind the chain.                           *)
LEMMA ChainFill ==
  ASSUME NEW fi \in Seq(ChunkType), NEW t \in [Position -> DescType], NEW u,
         NEW p \in Position, NEW q \in 0 .. TxNum, InRow(t, u, p, q),
         NEW m \in 0 .. TxNum - q, NEW z, NEW f, NEW s,
         Stored(s, t, u, m, z, f)
  PROVE  /\ q + m \in 0 .. TxNum
         /\ InRow(s, RingAt(TxNum, u, m), p, q + m)
         /\ Same(Chain(fi, s, p), Chain(fi, t, p), Len(fi) + q)
         /\ \A k \in 0 .. m - 1 :
              Chain(fi, s, p)[Len(fi) + q + k] = Chunk(Filled(z, k, f))
<1>. USE DEF Same
<1>1. /\ q + m \in 0 .. TxNum /\ u = RingAt(TxNum, p, q) /\ Len(fi) \in Nat
      /\ RingAt(TxNum, u, m) = RingAt(TxNum, p, q + m)
  BY RingSums, SMT DEF InRow
<1>2. ASSUME NEW k \in 0 .. q - 1
      PROVE  s[RingAt(TxNum, p, k)] = t[RingAt(TxNum, p, k)]
  <2>1. RingOffset(TxNum, u, RingAt(TxNum, p, k)) = TxNum - q + k
    BY <1>1, RingSums
  <2>2. k \in 0 .. TxNum /\ ~(TxNum - q + k < m)
    BY SMT
  <2>3. RingAt(TxNum, p, k) \in Position
    BY <2>2, RingFacts
  <2>. QED  BY <2>1, <2>2, <2>3, Zenon DEF Stored
<1>3. ASSUME NEW k \in q .. TxNum - 1
      PROVE  /\ k < q + m => s[RingAt(TxNum, p, k)] = Filled(z, k - q, f)
             /\ ~(k < q + m) => s[RingAt(TxNum, p, k)] = t[RingAt(TxNum, p, k)]
  <2>1. RingOffset(TxNum, u, RingAt(TxNum, p, k)) = k - q
    BY <1>1, RingSums
  <2>2. k \in 0 .. TxNum /\ (k - q < m <=> k < q + m)
    BY SMT
  <2>3. RingAt(TxNum, p, k) \in Position
    BY <2>2, RingFacts
  <2>. QED  BY <2>1, <2>2, <2>3, Zenon DEF Stored
<1>4. ASSUME NEW k \in 0 .. TxNum - 1
      PROVE  ~s[RingAt(TxNum, p, k)].cstop <=> k < q + m
  <2>1. CASE k < q
    <3>1. k \in 0 .. q - 1 /\ k < q + m
      BY <2>1, SMT
    <3>. QED  BY <1>2, <2>1, <3>1, Zenon DEF InRow
  <2>2. CASE ~(k < q) /\ k < q + m
    <3>1. k \in q .. TxNum - 1
      BY <2>2, SMT
    <3>2. s[RingAt(TxNum, p, k)] = Filled(z, k - q, f)
      BY <1>3, <2>2, <3>1
    <3>. QED  BY <2>2, <3>2, SMT DEF Filled
  <2>3. CASE ~(k < q) /\ ~(k < q + m)
    <3>1. k \in q .. TxNum - 1
      BY <2>3, SMT
    <3>. QED  BY <1>3, <2>3, <3>1, Zenon DEF InRow
  <2>. QED  BY <2>1, <2>2, <2>3
<1>5. InRow(s, RingAt(TxNum, u, m), p, q + m)
  BY <1>1, <1>4, Zenon DEF InRow
<1>6. ASSUME NEW k \in 0 .. Len(fi) + q - 1
      PROVE  Chain(fi, s, p)[k] = Chain(fi, t, p)[k]
  <2>1. CASE k < Len(fi)
    <3>1. k \in 0 .. Len(fi) - 1
      BY <1>1, <2>1, SMT
    <3>2. Chain(fi, t, p)[k] = fi[k + 1] /\ Chain(fi, s, p)[k] = fi[k + 1]
      BY <3>1, ChainFifo
    <3>. QED  BY <3>2
  <2>2. CASE k >= Len(fi)
    <3>1. k - Len(fi) \in 0 .. q - 1 /\ k - Len(fi) \in Nat /\ k = Len(fi) + (k - Len(fi))
      BY <1>1, <2>2, SMT
    <3>2. PICK j \in 0 .. q - 1 : j \in Nat /\ k = Len(fi) + j
      BY <3>1
    <3>3. Chain(fi, t, p)[Len(fi) + j] = Chunk(t[RingAt(TxNum, p, j)])
      BY <3>2, ChainRing
    <3>4. Chain(fi, s, p)[Len(fi) + j] = Chunk(s[RingAt(TxNum, p, j)])
      BY <3>2, ChainRing
    <3>5. s[RingAt(TxNum, p, j)] = t[RingAt(TxNum, p, j)]
      BY <1>2
    <3>. QED  BY <3>2, <3>3, <3>4, <3>5, Zenon
  <2>. QED  BY <1>1, <2>1, <2>2, SMT
<1>7. ASSUME NEW k \in 0 .. m - 1
      PROVE  Chain(fi, s, p)[Len(fi) + q + k] = Chunk(Filled(z, k, f))
  <2>1. /\ q + k \in Nat /\ Len(fi) + (q + k) = Len(fi) + q + k
        /\ q + k \in q .. TxNum - 1 /\ q + k < q + m /\ q + k - q = k
    BY <1>1, SMT
  <2>2. Chain(fi, s, p)[Len(fi) + (q + k)] = Chunk(s[RingAt(TxNum, p, q + k)])
    BY <2>1, ChainRing
  <2>3. s[RingAt(TxNum, p, q + k)] = Filled(z, q + k - q, f)
    <3>1. PICK j \in q .. TxNum - 1 : j = q + k
      BY <2>1
    <3>2. j < q + m => s[RingAt(TxNum, p, j)] = Filled(z, j - q, f)
      BY <1>3
    <3>. QED  BY <2>1, <3>1, <3>2
  <2>. QED  BY <2>1, <2>2, <2>3
<1>. QED  BY <1>1, <1>5, <1>6, <1>7

(* The first of the FIFO leaves.                                            *)
LEMMA ChainSend ==
  ASSUME NEW t, NEW p, NEW q \in 0 .. TxNum, NEW fi \in Seq(ChunkType), fi # <<>>
  PROVE  /\ Len(fi) + q \in Nat \ {0} /\ Len(Tail(fi)) + q = Len(fi) + q - 1
         /\ Chain(fi, t, p)[0] = Head(fi)
         /\ Shifted(Chain(Tail(fi), t, p), Chain(fi, t, p), Len(fi) + q)
<1>. USE DEF Shifted
<1>1. /\ Len(fi) \in Nat \ {0} /\ Tail(fi) \in Seq(ChunkType)
      /\ Len(Tail(fi)) = Len(fi) - 1 /\ 0 \in 0 .. Len(fi) - 1
      /\ Head(fi) = fi[0 + 1]
      /\ \A i \in 1 .. Len(fi) - 1 : Tail(fi)[i] = fi[i + 1]
  BY SMT
<1>2. Len(fi) + q \in Nat \ {0} /\ Len(Tail(fi)) + q = Len(fi) + q - 1
  BY <1>1, TxNumAssumption, SMT
<1>3. Chain(fi, t, p)[0] = Head(fi)
  BY <1>1, ChainFifo
<1>. DEFINE rest == Tail(fi)
<1>4. ASSUME NEW k \in 0 .. Len(fi) + q - 2
      PROVE  Chain(rest, t, p)[k] = Chain(fi, t, p)[k + 1]
  <2>0. /\ rest \in Seq(ChunkType) /\ Len(rest) = Len(fi) - 1
        /\ \A i \in 1 .. Len(fi) - 1 : rest[i] = fi[i + 1]
    BY <1>1
  <2>. HIDE DEF rest
  <2>1. CASE k < Len(fi) - 1
    <3>1. /\ k \in 0 .. Len(rest) - 1 /\ k + 1 \in 0 .. Len(fi) - 1
          /\ k + 1 \in 1 .. Len(fi) - 1
      BY <1>1, <2>0, <2>1, SMT
    <3>2. Chain(rest, t, p)[k] = rest[k + 1]
      BY <2>0, <3>1, ChainFifo
    <3>3. Chain(fi, t, p)[k + 1] = fi[k + 1 + 1]
      <4>1. PICK j \in 0 .. Len(fi) - 1 : j = k + 1
        BY <3>1
      <4>2. Chain(fi, t, p)[j] = fi[j + 1]
        BY ChainFifo
      <4>. QED  BY <4>1, <4>2
    <3>. QED  BY <1>1, <2>0, <3>1, <3>2, <3>3
  <2>2. CASE k >= Len(fi) - 1
    <3>1. /\ k - (Len(fi) - 1) \in Nat /\ k = Len(rest) + (k - (Len(fi) - 1))
          /\ k + 1 = Len(fi) + (k - (Len(fi) - 1))
      BY <1>1, <2>0, <2>2, SMT
    <3>2. PICK j \in Nat : k = Len(rest) + j /\ k + 1 = Len(fi) + j
      BY <3>1
    <3>3. Chain(rest, t, p)[Len(rest) + j] = Chunk(t[RingAt(TxNum, p, j)])
      <4>1. rest \in Seq(ChunkType)
        BY <2>0
      <4>. QED  BY ONLY <4>1, j \in Nat, ChainRing, ZenonT(60)
    <3>4. Chain(fi, t, p)[Len(fi) + j] = Chunk(t[RingAt(TxNum, p, j)])
      BY ChainRing
    <3>. QED  BY <3>2, <3>3, <3>4, Zenon
  <2>. QED  BY <1>1, <2>0, <2>1, <2>2, SMT
<1>. QED  BY <1>2, <1>3, <1>4 DEF rest

-----------------------------------------------------------------------------
(* What is queued *)

QueuedIn(fi, t) ==
  {fi[i].frame : i \in 1 .. Len(fi)} \cup
  {t[i].frame : i \in {j \in Position : ~t[j].cstop}}

FramesOf(c, n) == {c[k].frame : k \in 0 .. n - 1}

(* The frames of the chain are those that are queued.                       *)
LEMMA QueuedFact ==
  ASSUME NEW fi \in Seq(ChunkType), NEW t \in [Position -> DescType], NEW u,
         NEW p \in Position, NEW q \in 0 .. TxNum, InRow(t, u, p, q)
  PROVE  QueuedIn(fi, t) = FramesOf(Chain(fi, t, p), Len(fi) + q)
<1>. DEFINE c == Chain(fi, t, p)
            n == Len(fi) + q
<1>1. ASSUME NEW i \in 1 .. Len(fi)
      PROVE  fi[i].frame \in FramesOf(c, n)
  <2>1. i - 1 \in 0 .. n - 1 /\ i - 1 \in 0 .. Len(fi) - 1 /\ i - 1 + 1 = i
    BY SMT
  <2>2. c[i - 1] = fi[i - 1 + 1]
    BY <2>1, ChainFifo
  <2>. HIDE DEF c, n
  <2>. QED  BY <2>1, <2>2, Zenon DEF FramesOf
<1>2. ASSUME NEW j \in Nat
      PROVE  c[Len(fi) + j].frame = t[RingAt(TxNum, p, j)].frame
  <2>1. c[Len(fi) + j] = Chunk(t[RingAt(TxNum, p, j)])
    BY ONLY fi \in Seq(ChunkType), j \in Nat, ChainRing, Zenon
  <2>. HIDE DEF c, n
  <2>. QED  BY <2>1, SMT DEF Chunk
<1>3. ASSUME NEW i \in Position, ~t[i].cstop
      PROVE  t[i].frame \in FramesOf(c, n)
  <2>1. PICK j \in 0 .. TxNum - 1 : RingAt(TxNum, p, j) = i
    <3>1. /\ RingOffset(TxNum, p, i) \in 0 .. TxNum - 1
          /\ RingAt(TxNum, p, RingOffset(TxNum, p, i)) = i
      BY RingFacts
    <3>. QED  BY <3>1
  <2>2. j < q
    BY <1>3, <2>1, Zenon DEF InRow
  <2>3. j \in Nat /\ Len(fi) + j \in 0 .. n - 1
    BY <2>2, SMT
  <2>4. c[Len(fi) + j].frame = t[i].frame
    BY <1>2, <2>1, <2>3
  <2>. HIDE DEF c, n
  <2>. QED  BY <2>3, <2>4, Zenon DEF FramesOf
<1>4. ASSUME NEW k \in 0 .. n - 1
      PROVE  c[k].frame \in QueuedIn(fi, t)
  <2>1. CASE k < Len(fi)
    <3>1. k \in 0 .. Len(fi) - 1 /\ k + 1 \in 1 .. Len(fi)
      BY <2>1, SMT
    <3>2. c[k] = fi[k + 1]
      BY <3>1, ChainFifo
    <3>. HIDE DEF c, n
    <3>. QED  BY <3>1, <3>2, Zenon DEF QueuedIn
  <2>2. CASE k >= Len(fi)
    <3>1. k - Len(fi) \in 0 .. q - 1 /\ k = Len(fi) + (k - Len(fi))
      BY <2>2, SMT
    <3>2. PICK j \in 0 .. q - 1 : k = Len(fi) + j
      BY <3>1
    <3>3. j \in Nat /\ j < q /\ j \in 0 .. TxNum - 1 /\ j \in 0 .. TxNum
      BY SMT
    <3>4. RingAt(TxNum, p, j) \in Position
      BY <3>3, RingFacts
    <3>5. ~t[RingAt(TxNum, p, j)].cstop
      BY <3>3, Zenon DEF InRow
    <3>6. c[k].frame = t[RingAt(TxNum, p, j)].frame
      BY <1>2, <3>2, <3>3
    <3>. HIDE DEF c, n
    <3>. QED  BY <3>4, <3>5, <3>6, Zenon DEF QueuedIn
  <2>. QED  BY <2>1, <2>2, SMT
<1>. HIDE DEF c, n
<1>5. QueuedIn(fi, t) = FramesOf(c, n)
  <2>1. ASSUME NEW x \in QueuedIn(fi, t) PROVE x \in FramesOf(c, n)
    BY <1>1, <1>3, Zenon DEF QueuedIn
  <2>2. ASSUME NEW x \in FramesOf(c, n) PROVE x \in QueuedIn(fi, t)
    <3>1. PICK k \in 0 .. n - 1 : x = c[k].frame
      BY Zenon DEF FramesOf
    <3>. QED  BY <1>4, <3>1
  <2>. QED  BY <2>1, <2>2
<1>. QED  BY <1>5 DEF c, n

LEMMA FramesFilled ==
  ASSUME NEW n \in Nat, NEW m \in Nat \ {0}, NEW z, NEW f, NEW c, NEW e,
         Same(e, c, n), Parts(e, n, m, z, f), NEW r, r = n + m
  PROVE  FramesOf(e, r) = FramesOf(c, n) \cup {f}
<1>. USE DEF Same
<1>1. ASSUME NEW k \in 0 .. r - 1 PROVE e[k].frame \in FramesOf(c, n) \cup {f}
  <2>1. CASE k < n
    <3>1. k \in 0 .. n - 1
      BY <2>1, SMT
    <3>. QED  BY <3>1, Zenon DEF FramesOf
  <2>2. CASE k >= n
    <3>1. k - n \in 0 .. m - 1 /\ n + (k - n) = k
      BY <2>2, SMT
    <3>2. e[n + (k - n)].frame = f
      BY <3>1, Zenon DEF Parts
    <3>. QED  BY <3>1, <3>2
  <2>. QED  BY <2>1, <2>2, SMT
<1>2. ASSUME NEW k \in 0 .. n - 1 PROVE c[k].frame \in FramesOf(e, r)
  <2>1. k \in 0 .. r - 1
    BY SMT
  <2>. QED  BY <2>1, Zenon DEF FramesOf
<1>3. f \in FramesOf(e, r)
  <2>1. 0 \in 0 .. m - 1 /\ n + 0 \in 0 .. r - 1
    BY SMT
  <2>2. e[n + 0].frame = f
    BY <2>1, Zenon DEF Parts
  <2>. QED  BY <2>1, <2>2, Zenon DEF FramesOf
<1>4. ASSUME NEW x \in FramesOf(e, r) PROVE x \in FramesOf(c, n) \cup {f}
  <2>1. PICK k \in 0 .. r - 1 : x = e[k].frame
    BY Zenon DEF FramesOf
  <2>. QED  BY <1>1, <2>1
<1>5. ASSUME NEW x \in FramesOf(c, n) PROVE x \in FramesOf(e, r)
  <2>1. PICK k \in 0 .. n - 1 : x = c[k].frame
    BY Zenon DEF FramesOf
  <2>. QED  BY <1>2, <2>1
<1>. QED  BY <1>3, <1>4, <1>5, Zenon

(* A frame leaves the queue with its last chunk, and not before.            *)
LEMMA FramesTaken ==
  ASSUME NEW fr \in Seq(Nat), NEW n \in Nat \ {0}, NEW c, NEW e, WholeFrames(c, fr, n),
         Shifted(e, c, n)
  PROVE  /\ c[0].frame \in FramesOf(c, n)
         /\ \A x \in FramesOf(c, n) : c[0].frame <= x
         /\ FramesOf(e, n - 1) = IF Ends(c[0], fr) THEN FramesOf(c, n) \ {c[0].frame}
                                 ELSE FramesOf(c, n)
<1>. USE DEF Shifted
<1>1. /\ 0 \in 0 .. n - 1
      /\ \A k \in 0 .. n - 1 : k = 0 \/ (k - 1 \in 0 .. n - 2 /\ k - 1 + 1 = k)
      /\ \A k \in 0 .. n - 2 : k + 1 \in 0 .. n - 1 /\ 0 \in 0 .. (k + 1) - 1
      /\ n - 1 - 1 = n - 2
  BY SMT
<1>2. c[0].frame \in FramesOf(c, n) /\ PartOf(c[0], fr)
  BY <1>1, Zenon DEF FramesOf, WholeFrames
<1>3. ASSUME NEW x \in FramesOf(c, n) PROVE c[0].frame <= x
  <2>1. PICK k \in 0 .. n - 1 : x = c[k].frame
    BY Zenon DEF FramesOf
  <2>. QED  BY <2>1, LowestFirst
<1>4. ASSUME NEW x \in FramesOf(e, n - 1) PROVE x \in FramesOf(c, n)
  <2>1. PICK k \in 0 .. n - 2 : x = e[k].frame
    BY <1>1, Zenon DEF FramesOf
  <2>2. k + 1 \in 0 .. n - 1 /\ x = c[k + 1].frame
    BY <1>1, <2>1
  <2>. QED  BY <2>2, Zenon DEF FramesOf
<1>5. ASSUME NEW x \in FramesOf(c, n), x # c[0].frame PROVE x \in FramesOf(e, n - 1)
  <2>1. PICK k \in 0 .. n - 1 : x = c[k].frame
    BY Zenon DEF FramesOf
  <2>2. k - 1 \in 0 .. n - 2 /\ k - 1 + 1 = k
    BY <1>1, <1>5, <2>1
  <2>3. e[k - 1].frame = x
    BY <2>1, <2>2
  <2>. QED  BY <1>1, <2>2, <2>3, Zenon DEF FramesOf
<1>6. CASE Ends(c[0], fr)
  <2>1. ASSUME NEW x \in FramesOf(e, n - 1) PROVE x # c[0].frame
    <3>1. PICK k \in 0 .. n - 2 : x = e[k].frame
      BY <1>1, Zenon DEF FramesOf
    <3>2. e[k] = c[k + 1] /\ PartOf(c[k + 1], fr) /\ Before(c[0], c[k + 1])
      BY <1>1, Zenon DEF WholeFrames
    <3>3. CASE c[0].frame < c[k + 1].frame
      <4>1. c[0].frame # c[k + 1].frame
        BY <1>2, <3>2, <3>3, SMT DEF PartOf
      <4>. QED  BY <3>1, <3>2, <4>1
    <3>4. CASE c[0].frame = c[k + 1].frame /\ c[0].off + c[0].len <= c[k + 1].off
      <4>1. c[k + 1].off + c[k + 1].len <= c[0].off + c[0].len
        BY <1>6, <3>2, <3>4, Zenon DEF PartOf, Ends
      <4>. QED  BY <1>2, <3>2, <3>4, <4>1, NatFacts, Zenon DEF PartOf
    <3>. QED  BY <3>2, <3>3, <3>4, Zenon DEF Before
  <2>2. FramesOf(e, n - 1) = FramesOf(c, n) \ {c[0].frame}
    BY <1>4, <1>5, <2>1, Zenon
  <2>. QED  BY <1>2, <1>3, <1>6, <2>2, Zenon
<1>7. CASE ~Ends(c[0], fr)
  <2>1. n - 1 > 0 /\ Follows(c[0], e[0], fr)
    BY <1>7, SecondChunk
  <2>2. 0 \in 0 .. n - 1 - 1 /\ e[0].frame = c[0].frame
    BY <1>7, <2>1, SMT DEF Follows
  <2>3. c[0].frame \in FramesOf(e, n - 1)
    BY <2>2, Zenon DEF FramesOf
  <2>4. FramesOf(e, n - 1) = FramesOf(c, n)
    BY <1>4, <1>5, <2>3, Zenon
  <2>. QED  BY <1>2, <1>3, <1>7, <2>4, Zenon
<1>. QED  BY <1>6, <1>7

-----------------------------------------------------------------------------
(* The steps *)

LEMMA StateType ==
  ASSUME TypeOK
  PROVE  /\ fifo \in Seq(ChunkType) /\ tx \in [Position -> DescType]
         /\ fifo_tx_desc \in Position /\ user_tx_desc \in Position
         /\ bc \in Seq(Nat) /\ frame_size \in Nat /\ Counts \in Seq(Nat)
         /\ frames \in Seq(Nat) /\ sent \in Seq(Nat)
<1>. USE DEF TypeOK, RingType, CardType, OframeType, GhostsType
<1>1. bc \in Seq(Nat) /\ frame_size \in Nat
  BY Zenon
<1>2. Append(bc, frame_size) \in Seq(Nat)
  BY <1>1, SMT
<1>3. Counts \in Seq(Nat)
  BY <1>1, <1>2, Zenon DEF Counts
<1>. QED  BY <1>3, Zenon

(* The chain before and after a step. *)
Now == Chain(fifo, tx, fifo_tx_desc)

(* Orderly, in the terms of the lemmas above. *)
LEMMA OrderlyParts ==
  ASSUME NEW q \in 0 .. TxNum
  PROVE  Orderly(q) <=>
           /\ InRow(tx, user_tx_desc, fifo_tx_desc, q)
           /\ GoesOn(Now, frames, sent, line, Len(fifo) + q)
           /\ StartedBy(Counts, fifo, line, frames)
           /\ Marked(tx, frames)
BY Zenon DEF Orderly, InUse, InRow, Now

LEMMA QueuedNow ==
  ASSUME TypeOK, NEW q \in 0 .. TxNum, Orderly(q)
  PROVE  Queued = FramesOf(Now, Len(fifo) + q)
<1>1. QueuedIn(fifo, tx) = FramesOf(Now, Len(fifo) + q)
  BY StateType, OrderlyParts, QueuedFact, ZenonT(60) DEF Now
<1>. QED  BY <1>1 DEF QueuedIn, Queued

(* A step that leaves the chain, the frames and the byte counts alone.      *)
LEMMA OrderlyKept ==
  ASSUME NEW q \in 0 .. TxNum, Orderly(q), Counts' = Counts,
         UNCHANGED <<ring, fifo, line, frames, sent>>
  PROVE  Orderly(q)' /\ Queued' = Queued
<1>1. UNCHANGED <<tx, user_tx_desc, fifo_tx_desc>>
  BY DEF ring
<1>. QED  BY <1>1, Zenon DEF Orderly, InUse, Queued

(* The tasklet copies a descriptor (io.c:630-650).                          *)
LEMMA CopyStep ==
  ASSUME IInv, NEW q \in 0 .. TxNum, Orderly(q), OframeCopy
  PROVE  q - 1 \in 0 .. TxNum /\ Orderly(q - 1)' /\ Queued' = Queued
<1>. DEFINE d == tx[fifo_tx_desc]
            n == Len(fifo) + q
            c == Now
            e == Now'
<1>1. TypeOK /\ TypeOK'
  <2>1. [Next]_vars
    BY DEF Next, OframeStep
  <2>. QED  BY <2>1, TypeStep DEF IInv
<1>2. /\ fifo \in Seq(ChunkType) /\ tx \in [Position -> DescType]
      /\ fifo_tx_desc \in Position /\ bc \in Seq(Nat) /\ frame_size \in Nat
      /\ Counts \in Seq(Nat) /\ frames \in Seq(Nat) /\ sent \in Seq(Nat)
  BY <1>1, StateType
<1>3. /\ ~d.cstop /\ opc = "copy" /\ opc' = "copy" /\ (d.fe => frame_size = 0)
      /\ frame_size' = IF d.fe THEN d.cnt ELSE frame_size
      /\ fifo' = Append(fifo, Chunk(d))
      /\ tx' = [tx EXCEPT ![fifo_tx_desc] = Empty]
      /\ fifo_tx_desc' = RingNext(TxNum, fifo_tx_desc)
      /\ UNCHANGED <<user_tx_desc, bc, line, frames, sent>>
  BY Zenon DEF OframeCopy, Stop, ghosts
<1>4. /\ InRow(tx, user_tx_desc, fifo_tx_desc, q)
      /\ GoesOn(c, frames, sent, line, n)
      /\ StartedBy(Counts, fifo, line, frames)
      /\ Marked(tx, frames)
  BY OrderlyParts
<1>5. /\ q > 0 /\ q - 1 \in 0 .. TxNum
      /\ InRow(tx', user_tx_desc, RingNext(TxNum, fifo_tx_desc), q - 1)
      /\ c[Len(fifo)] = Chunk(d)
      /\ Same(e, c, n)
  <2>1. Taken(tx', tx, fifo_tx_desc)
    <3>1. Empty.cstop
      BY SMT DEF Empty
    <3>. QED  BY <1>2, <1>3, <3>1, Zenon DEF Taken
  <2>2. /\ q > 0 /\ q - 1 \in 0 .. TxNum
        /\ InRow(tx', user_tx_desc, RingNext(TxNum, fifo_tx_desc), q - 1)
        /\ Chain(fifo, tx, fifo_tx_desc)[Len(fifo)] = Chunk(d)
        /\ Same(Chain(Append(fifo, Chunk(d)), tx', RingNext(TxNum, fifo_tx_desc)),
                Chain(fifo, tx, fifo_tx_desc), Len(fifo) + q)
    <3>1. /\ fifo \in Seq(ChunkType) /\ tx \in [Position -> DescType]
          /\ fifo_tx_desc \in Position /\ InRow(tx, user_tx_desc, fifo_tx_desc, q)
          /\ ~tx[fifo_tx_desc].cstop
      BY <1>2, <1>3, <1>4
    <3>. QED  BY ONLY <3>1, <2>1, q \in 0 .. TxNum, ChainCopy, Zenon
  <2>. QED  BY <1>3, <2>2, Zenon DEF Now
<1>6. /\ Chunk(d) \in ChunkType /\ d \in DescType /\ Chunk(d).off = d.off
      /\ Chunk(d).frame = d.frame /\ Chunk(d).len = d.len
  <2>1. d \in DescType
    BY <1>2
  <2>. QED  BY <2>1, SMT DEF Chunk, ChunkType, DescType
<1>7. Len(fifo') + (q - 1) = n /\ n \in Nat /\ Len(fifo) < n /\ Len(fifo) \in 0 .. n - 1
  BY <1>2, <1>3, <1>5, <1>6, SMT
<1>8. Begins(c, fifo, n)
  BY <1>2, ChainBegins DEF Now
<1>. HIDE DEF n, c, e
<1>9. GoesOn(e, frames, sent, line, n)
  BY <1>4, <1>5, <1>7, SameChain
<1>10. PartOf(Chunk(d), frames)
  BY <1>4, <1>5, <1>7, Zenon DEF GoesOn, WholeFrames
<1>11. d.frame \in 1 .. Len(frames) /\ frames[d.frame] # 0
  <2>1. d.off + d.len # 0 /\ frames[d.frame] \in Nat /\ d.off + d.len <= frames[d.frame]
        /\ d.frame \in 1 .. Len(frames) /\ d.off \in Nat /\ d.len \in Nat \ {0}
    <3>1. /\ d.frame \in 1 .. Len(frames) /\ d.off \in Nat /\ d.len \in Nat \ {0}
          /\ d.off + d.len <= frames[d.frame]
      BY <1>6, <1>10, Zenon DEF PartOf
    <3>2. frames[d.frame] \in Nat
      BY <1>2, <3>1, SMTT(30)
    <3>. HIDE DEF d
    <3>3. d.off + d.len # 0
      BY <3>1, SMT
    <3>. QED  BY <3>1, <3>2, <3>3
  <2>. HIDE DEF d
  <2>. QED  BY <2>1, SMT
<1>12. (d.fe <=> d.off = 0) /\ (d.fe => d.cnt = frames[d.frame])
  BY <1>2, <1>3, <1>4, Zenon DEF Marked
<1>13. Counts' = IF d.off = 0 THEN Append(Counts, frames[d.frame]) ELSE Counts
  <2>1. CASE d.fe
    <3>1. Counts = bc /\ frame_size' = frames[d.frame]
      BY <1>3, <1>12, <2>1, Zenon DEF Counts
    <3>2. Counts' = Append(bc, frame_size')
      BY <1>3, <1>11, <3>1, Zenon DEF Counts
    <3>. QED  BY <1>12, <2>1, <3>1, <3>2, Zenon
  <2>2. CASE ~d.fe
    BY <1>3, <1>12, <2>2, Zenon DEF Counts
  <2>. QED  BY <2>1, <2>2
<1>14. StartedBy(Counts', fifo', line, frames)
  <2>1. StartedBy(IF Chunk(d).off = 0 THEN Append(Counts, frames[Chunk(d).frame]) ELSE Counts,
                  Append(fifo, Chunk(d)), line, frames)
    <3>. DEFINE x == Chunk(d)
    <3>1. x \in ChunkType /\ x = c[Len(fifo)]
      BY <1>5, <1>6
    <3>. HIDE DEF x, d
    <3>2. StartedBy(IF x.off = 0 THEN Append(Counts, frames[x.frame]) ELSE Counts,
                    Append(fifo, x), line, frames)
      BY <1>2, <1>4, <1>7, <1>8, <3>1, StartedCopy DEF GoesOn
    <3>. QED  BY <3>2 DEF x
  <2>. QED  BY <1>3, <1>6, <1>13, <2>1, Zenon
<1>15. Marked(tx', frames)
  <2>1. tx'[fifo_tx_desc] = Empty /\ \A i \in Position \ {fifo_tx_desc} : tx'[i] = tx[i]
    BY <1>2, <1>3, Zenon
  <2>2. Empty.cstop
    BY SMT DEF Empty
  <2>. QED  BY <1>4, <2>1, <2>2, Zenon DEF Marked
<1>16. Orderly(q - 1)'
  <2>1. /\ InRow(tx', user_tx_desc', fifo_tx_desc', q - 1)
        /\ GoesOn(e, frames', sent', line', Len(fifo') + (q - 1))
        /\ StartedBy(Counts', fifo', line', frames')
        /\ Marked(tx', frames')
    BY <1>3, <1>5, <1>7, <1>9, <1>14, <1>15, Zenon
  <2>. QED  BY <2>1, Zenon DEF Orderly, InUse, InRow, Now, e
<1>17. Queued' = Queued
  <2>1. Queued = FramesOf(c, n)
    BY <1>1, QueuedNow DEF c, n
  <2>2. QueuedIn(fifo', tx') = FramesOf(e, Len(fifo') + (q - 1))
    <3>1. /\ fifo' \in Seq(ChunkType) /\ tx' \in [Position -> DescType]
          /\ fifo_tx_desc' \in Position
      BY <1>1, Zenon DEF TypeOK, CardType, RingType
    <3>2. InRow(tx', user_tx_desc', fifo_tx_desc', q - 1)
      BY <1>3, <1>5, Zenon
    <3>. QED  BY <1>5, <3>1, <3>2, QueuedFact DEF e, Now
  <2>3. FramesOf(e, n) = FramesOf(c, n)
    BY <1>5, Zenon DEF FramesOf, Same
  <2>. QED  BY <1>7, <2>1, <2>2, <2>3, Zenon DEF Queued, QueuedIn
<1>. QED  BY <1>5, <1>16, <1>17

(* With the line at c[0], the bytes that are out after it.                  *)
LEMMA LineFacts ==
  ASSUME NEW l, NEW c, NEW fr \in Seq(Nat), NEW n \in Nat \ {0}, WholeFrames(c, fr, n),
         Continued(l, c[0], n)
  PROVE  /\ PartOf(c[0], fr) /\ fr[c[0].frame] \in Nat
         /\ l.bytes + c[0].len = c[0].off + c[0].len
         /\ l.frames \cup {c[0].frame} = {c[0].frame}
         /\ c[0].off + c[0].len \in Nat \ {0}
<1>1. PartOf(c[0], fr)
  <2>1. 0 \in 0 .. n - 1
    BY SMT
  <2>. QED  BY <2>1, Zenon DEF WholeFrames
<1>2. c[0].frame \in 1 .. Len(fr) /\ c[0].off \in Nat /\ c[0].len \in Nat \ {0}
  BY <1>1, Zenon DEF PartOf
<1>3. fr[c[0].frame] \in Nat
  BY <1>2
<1>4. l.bytes = c[0].off /\ l.frames \subseteq {c[0].frame}
  BY SMT DEF Continued, NoLine
<1>5. c[0].off + c[0].len \in Nat \ {0}
  BY <1>2, SMTT(30)
<1>. QED  BY <1>1, <1>3, <1>4, <1>5, Zenon

(* The line after the first chunk is out. *)
LEMMA ContinuedTake ==
  ASSUME NEW fr \in Seq(Nat), NEW n \in Nat \ {0}, NEW c, NEW e, WholeFrames(c, fr, n),
         Shifted(e, c, n), NEW l,
         l = IF Ends(c[0], fr) THEN NoLine
             ELSE [bytes |-> c[0].off + c[0].len, frames |-> {c[0].frame}]
  PROVE  Continued(l, e[0], n - 1)
<1>1. /\ n - 1 > 0 => Follows(c[0], e[0], fr)
      /\ ~(n - 1 > 0) => n - 1 = 0 /\ Ends(c[0], fr)
  BY SecondChunk
<1>2. CASE Ends(c[0], fr)
  <2>1. l = NoLine /\ l.bytes = 0
    BY <1>2, SMT DEF NoLine
  <2>. QED  BY <1>1, <1>2, <2>1, Zenon DEF Continued, Follows
<1>3. CASE ~Ends(c[0], fr)
  <2>1. 0 \in 0 .. n - 1
    BY SMT
  <2>2. PartOf(c[0], fr)
    BY <2>1, Zenon DEF WholeFrames
  <2>3. c[0].off + c[0].len # 0
    BY <2>2, SMT DEF PartOf
  <2>4. l.bytes = c[0].off + c[0].len /\ l.frames = {c[0].frame}
    BY <1>3
  <2>5. n - 1 > 0 /\ e[0].frame = c[0].frame /\ e[0].off = c[0].off + c[0].len
    BY <1>1, <1>3, Zenon DEF Follows
  <2>. QED  BY <2>3, <2>4, <2>5, Zenon DEF Continued
<1>. QED  BY <1>2, <1>3

(* The card sends a chunk: nothing but the end of a frame is seen, which is *)
(* then the oldest that was queued, and whole.                               *)
LEMMA SendStep ==
  ASSUME IInv, NEW q \in 0 .. TxNum, Orderly(q), NEW trigger \in BOOLEAN, HwSend(trigger)
  PROVE  /\ Orderly(q)'
         /\ UNCHANGED frames
         /\ \/ Queued' = Queued /\ sent' = sent
            \/ \E f \in Queued : /\ \A g \in Queued : f <= g
                                 /\ Queued' = Queued \ {f}
                                 /\ sent' = Append(sent, f)
<1>. DEFINE n == Len(fifo) + q
            c == Now
            e == Now'
            f == c[0].frame
            ends == Ends(c[0], frames)
<1>1. TypeOK /\ TypeOK'
  <2>1. [Next]_vars
    BY DEF Next
  <2>. QED  BY <2>1, TypeStep DEF IInv
<1>2. /\ fifo \in Seq(ChunkType) /\ tx \in [Position -> DescType]
      /\ fifo_tx_desc \in Position /\ bc \in Seq(Nat) /\ frame_size \in Nat
      /\ Counts \in Seq(Nat) /\ frames \in Seq(Nat) /\ sent \in Seq(Nat)
  BY <1>1, StateType
<1>3. /\ fifo # <<>> /\ bc # <<>> /\ fifo' = Tail(fifo)
      /\ UNCHANGED <<tx, user_tx_desc, fifo_tx_desc, opc, frame_size, frames>>
  BY Zenon DEF HwSend, ring, oframe
<1>4. /\ InRow(tx, user_tx_desc, fifo_tx_desc, q)
      /\ GoesOn(c, frames, sent, line, n)
      /\ StartedBy(Counts, fifo, line, frames)
      /\ Marked(tx, frames)
  BY OrderlyParts
<1>5. /\ n \in Nat \ {0} /\ Len(fifo') + q = n - 1
      /\ c[0] = Head(fifo) /\ Shifted(e, c, n)
  <2>1. /\ Len(fifo) + q \in Nat \ {0} /\ Len(Tail(fifo)) + q = Len(fifo) + q - 1
        /\ Chain(fifo, tx, fifo_tx_desc)[0] = Head(fifo)
        /\ Shifted(Chain(Tail(fifo), tx, fifo_tx_desc), Chain(fifo, tx, fifo_tx_desc),
                   Len(fifo) + q)
    <3>1. fifo \in Seq(ChunkType) /\ fifo # <<>>
      BY <1>2, <1>3
    <3>. QED  BY <3>1, ChainSend, Zenon
  <2>2. e = Chain(Tail(fifo), tx, fifo_tx_desc)
    BY <1>3 DEF Now
  <2>3. c = Chain(fifo, tx, fifo_tx_desc)
    BY DEF Now
  <2>4. Len(fifo') = Len(Tail(fifo))
    BY <1>3
  <2>. QED  BY <2>1, <2>2, <2>3, <2>4, SMT
<1>6. Begins(c, fifo, n)
  BY <1>2, ChainBegins DEF Now
<1>. HIDE DEF n, c, e
<1>7. /\ PartOf(c[0], frames) /\ frames[f] \in Nat
      /\ line.bytes + c[0].len = c[0].off + c[0].len
      /\ line.frames \cup {f} = {f}
      /\ c[0].off + c[0].len \in Nat \ {0}
  BY <1>2, <1>4, <1>5, LineFacts DEF GoesOn
<1>8. Counts # <<>> /\ Head(Counts) = Head(bc)
      /\ Counts' = IF bc' = bc THEN Counts ELSE IF bc' = Tail(bc) THEN Tail(Counts) ELSE Counts'
  <2>1. Append(bc, frame_size) # <<>> /\ Head(Append(bc, frame_size)) = Head(bc)
        /\ Tail(Append(bc, frame_size)) = Append(Tail(bc), frame_size)
    <3>1. Append(bc, frame_size) # <<>>
      <4>1. Len(Append(bc, frame_size)) = Len(bc) + 1 /\ Len(bc) \in Nat
        BY <1>2, AppendProperties
      <4>2. Len(bc) + 1 # 0
        BY <4>1, SMT
      <4>3. Len(<<>>) = 0
        BY SMT
      <4>. QED  BY <4>1, <4>2, <4>3, Zenon
    <3>. QED  BY <1>2, <1>3, <3>1, HeadTailAppend
  <2>2. CASE opc = "copy" /\ frame_size # 0
    <3>1. Counts = Append(bc, frame_size) /\ Counts' = Append(bc', frame_size)
      BY <1>3, <2>2, Zenon DEF Counts
    <3>. QED  BY <2>1, <3>1, Zenon
  <2>3. CASE ~(opc = "copy" /\ frame_size # 0)
    <3>1. Counts = bc /\ Counts' = bc'
      BY <1>3, <2>3, Zenon DEF Counts
    <3>. QED  BY <1>3, <3>1, Zenon
  <2>. QED  BY <2>2, <2>3
<1>9. Head(bc) = frames[f]
  <2>1. n \in Nat /\ WholeFrames(c, frames, n) /\ Continued(line, c[0], n)
    BY <1>4, <1>5 DEF GoesOn
  <2>2. Head(Counts) = frames[c[0].frame]
    <3>1. /\ frames \in Seq(Nat) /\ fifo \in Seq(ChunkType) /\ fifo # <<>>
          /\ Counts \in Seq(Nat) /\ Counts # <<>> /\ StartedBy(Counts, fifo, line, frames)
          /\ Begins(c, fifo, n)
      BY <1>2, <1>3, <1>4, <1>6, <1>8
    <3>. HIDE DEF f, ends
    <3>. QED  BY ONLY <2>1, <3>1, StartedHead, Zenon
  <2>. QED  BY <1>8, <2>2
<1>10. c[0].off + c[0].len < frames[f] \/ ends
  <2>1. c[0].off + c[0].len <= frames[f]
    BY <1>7, Zenon DEF PartOf
  <2>2. \A i, j \in Nat : i <= j => i < j \/ i = j
    BY SMT
  <2>. QED  BY <1>7, <2>1, <2>2, Zenon DEF Ends
<1>11. /\ ends => /\ line' = NoLine /\ bc' = Tail(bc) /\ sent' = Append(sent, f)
       /\ ~ends => /\ line' = [bytes |-> c[0].off + c[0].len, frames |-> {f}]
                   /\ UNCHANGED <<bc, sent>>
  <2>. DEFINE b == c[0].off + c[0].len
              of == line.frames \cup {f}
              intact == of = {f} /\ b = frames[f]
  <2>1. IF b < Head(bc)
          THEN line' = [bytes |-> b, frames |-> of] /\ UNCHANGED <<bc, sent>>
          ELSE /\ line' = NoLine
               /\ bc' = Tail(bc)
               /\ sent' = Append(sent, IF intact THEN f ELSE 0)
    <3>1. c[0] = Head(fifo) /\ line.bytes + c[0].len = b
      BY <1>5, <1>7
    <3>. QED  BY <3>1, Zenon DEF HwSend
  <2>2. ends <=> b = frames[f]
    BY DEF Ends
  <2>3. b = frames[f] => ~(b < frames[f])
    BY <1>7, SMT
  <2>. HIDE DEF b, ends, f
  <2>4. ends => intact /\ ~(b < Head(bc))
    BY <1>7, <1>9, <2>2, <2>3, Zenon
  <2>5. ~ends => b < Head(bc)
    BY <1>9, <1>10, Zenon DEF b
  <2>. QED  BY <1>7, <2>1, <2>4, <2>5, Zenon DEF b
<1>. HIDE DEF ends, f
<1>12. WholeFrames(e, frames, n - 1)
  BY <1>4, <1>5, FramesTake DEF GoesOn
<1>13. InOrder(sent', e, frames, n - 1)
  <2>1. sent' = IF ends THEN Append(sent, f) ELSE sent
    BY <1>11
  <2>. QED  BY <1>2, <1>4, <1>5, <2>1, OrderTake DEF GoesOn, ends, f
<1>14. Continued(line', e[0], n - 1)
  <2>1. line' = IF ends THEN NoLine ELSE [bytes |-> c[0].off + c[0].len, frames |-> {f}]
    BY <1>11
  <2>. QED  BY <1>2, <1>4, <1>5, <2>1, ContinuedTake DEF GoesOn, ends, f
<1>15. StartedBy(Counts', fifo', line', frames)
  <2>1. line'.frames = IF ends THEN {} ELSE {f}
    <3>1. NoLine.frames = {}
      BY SMT DEF NoLine
    <3>2. [bytes |-> c[0].off + c[0].len, frames |-> {f}].frames = {f}
      BY Zenon
    <3>. QED  BY <1>11, <3>1, <3>2, Zenon
  <2>2. Counts' = IF ends THEN Tail(Counts) ELSE Counts
    <3>1. Tail(bc) # bc
      <4>1. Len(Tail(bc)) = Len(bc) - 1 /\ Len(bc) \in Nat
        BY <1>2, <1>3, SMT
      <4>2. Len(Tail(bc)) # Len(bc)
        BY <4>1, SMT
      <4>. QED  BY <4>2
    <3>. QED  BY <1>8, <1>11, <3>1, Zenon
  <2>3. StartedBy(IF ends THEN Tail(Counts) ELSE Counts, Tail(fifo), line', frames)
    <3>1. n \in Nat
      BY <1>5
    <3>. QED  BY <1>2, <1>3, <1>4, <1>6, <1>8, <2>1, <3>1, StartedSend DEF GoesOn, ends, f
  <2>. QED  BY <1>3, <2>2, <2>3
<1>16. Orderly(q)'
  <2>1. /\ InRow(tx', user_tx_desc', fifo_tx_desc', q)
        /\ GoesOn(e, frames', sent', line', Len(fifo') + q)
        /\ StartedBy(Counts', fifo', line', frames')
        /\ Marked(tx', frames')
    BY <1>3, <1>4, <1>5, <1>12, <1>13, <1>14, <1>15, Zenon DEF GoesOn
  <2>. QED  BY <2>1, Zenon DEF Orderly, InUse, InRow, Now, e
<1>17. Queued = FramesOf(c, n)
  BY <1>1, QueuedNow DEF c, n
<1>18. Queued' = FramesOf(e, n - 1)
  <2>1. /\ fifo' \in Seq(ChunkType) /\ tx' \in [Position -> DescType]
        /\ fifo_tx_desc' \in Position
    BY <1>1, Zenon DEF TypeOK, CardType, RingType
  <2>2. InRow(tx', user_tx_desc', fifo_tx_desc', q)
    BY <1>3, <1>4, Zenon
  <2>3. QueuedIn(fifo', tx') = FramesOf(e, Len(fifo') + q)
    BY <2>1, <2>2, QueuedFact DEF e, Now
  <2>. QED  BY <1>5, <2>3, Zenon DEF Queued, QueuedIn
<1>19. /\ f \in FramesOf(c, n) /\ \A x \in FramesOf(c, n) : f <= x
       /\ FramesOf(e, n - 1) = IF ends THEN FramesOf(c, n) \ {f} ELSE FramesOf(c, n)
  <2>1. WholeFrames(c, frames, n)
    BY <1>4 DEF GoesOn
  <2>2. /\ c[0].frame \in FramesOf(c, n) /\ \A x \in FramesOf(c, n) : c[0].frame <= x
        /\ FramesOf(e, n - 1) = IF Ends(c[0], frames) THEN FramesOf(c, n) \ {c[0].frame}
                                ELSE FramesOf(c, n)
    <3>1. frames \in Seq(Nat) /\ n \in Nat \ {0} /\ Shifted(e, c, n)
      BY <1>2, <1>5
    <3>. QED  BY ONLY <2>1, <3>1, FramesTaken, Zenon
  <2>. QED  BY <2>2 DEF ends, f
<1>. QED  BY <1>3, <1>11, <1>16, <1>17, <1>18, <1>19, Zenon


(* The descriptors after a frame is stored: the first m after u are parts   *)
(* of it.                                                                    *)
LEMMA MarkedFill ==
  ASSUME NEW fr \in Seq(Nat), NEW z \in Nat \ {0}, NEW u \in Position, NEW t, NEW s,
         Marked(t, fr),
         Stored(s, t, u, Descs(z), z, Len(fr) + 1)
  PROVE  Marked(s, Append(fr, z))
<1>. DEFINE gr == Append(fr, z)
            f == Len(fr) + 1
<1>1. /\ Len(fr) \in Nat /\ f \in Nat /\ f \in 1 .. Len(gr) /\ gr[f] = z
      /\ \A i \in 1 .. Len(fr) : i \in 1 .. Len(gr) /\ gr[i] = fr[i]
  BY SMT
<1>. HIDE DEF gr, f
<1>2. SUFFICES ASSUME NEW i \in Position, ~s[i].cstop
      PROVE  /\ s[i].frame \in 1 .. Len(gr)
             /\ s[i].fe <=> s[i].off = 0
             /\ s[i].fe => s[i].cnt = gr[s[i].frame]
  BY Zenon DEF Marked, gr
<1>3. PICK k \in Nat : k = RingOffset(TxNum, u, i)
  <2>1. RingOffset(TxNum, u, i) \in Nat
    BY SMT DEF RingOffset
  <2>. QED  BY <2>1
<1>4. s[i] = IF k < Descs(z) THEN Filled(z, k, f) ELSE t[i]
  BY <1>3, Zenon DEF f, Stored
<1>5. CASE k < Descs(z)
  <2>1. IsPart(Filled(z, k, f), z, k, f)
    BY <1>1, <1>5, FilledPart
  <2>. QED  BY <1>1, <1>4, <1>5, <2>1, Zenon DEF IsPart
<1>6. CASE ~(k < Descs(z))
  <2>1. s[i] = t[i]
    BY <1>4, <1>6
  <2>. QED  BY <1>1, <1>2, <2>1, Zenon DEF Marked
<1>. QED  BY <1>5, <1>6

(* The line, when a frame is stored. *)
LEMMA ContinuedFill ==
  ASSUME NEW l, NEW c, NEW e, NEW n \in Nat, NEW m \in Nat \ {0}, NEW z, NEW f,
         Same(e, c, n), Parts(e, n, m, z, f), Continued(l, c[0], n)
  PROVE  Continued(l, e[0], n + m)
<1>1. n + m > 0
  BY SMT
<1>2. CASE n > 0
  <2>1. 0 \in 0 .. n - 1
    BY <1>2, SMT
  <2>2. e[0] = c[0] /\ n # 0
    BY <1>2, <2>1, SMT DEF Same
  <2>. QED  BY <1>1, <2>2, Zenon DEF Continued
<1>3. CASE n = 0
  <2>1. 0 \in 0 .. m - 1 /\ n + 0 = 0 /\ ~(n > 0)
    BY <1>3, SMT
  <2>2. e[n + 0].off = 0
    BY <2>1, Zenon DEF Parts
  <2>3. l.bytes = 0 /\ l = NoLine
    BY <2>1, Zenon DEF Continued
  <2>. QED  BY <2>1, <2>2, <2>3, Zenon DEF Continued
<1>4. n > 0 \/ n = 0
  BY SMT
<1>. QED  BY <1>2, <1>3, <1>4

(* The chain, when a frame is stored. *)
LEMMA GoesOnFill ==
  ASSUME NEW fr \in Seq(Nat), NEW s \in Seq(Nat), NEW l, NEW n \in Nat,
         NEW m \in Nat \ {0}, NEW z \in Nat, NEW c, NEW e, GoesOn(c, fr, s, l, n),
         Same(e, c, n), Parts(e, n, m, z, Len(fr) + 1)
  PROVE  GoesOn(e, Append(fr, z), s, l, n + m)
<1>1. WholeFrames(c, fr, n) /\ InOrder(s, c, fr, n) /\ Continued(l, c[0], n)
  BY DEF GoesOn
<1>2. WholeFrames(e, Append(fr, z), n + m)
  BY <1>1, FramesFill
<1>3. InOrder(s, e, Append(fr, z), n + m)
  BY <1>1, OrderFill
<1>4. Continued(l, e[0], n + m)
  BY <1>1, ContinuedFill
<1>. QED  BY <1>2, <1>3, <1>4 DEF GoesOn

(* write() stores a frame (io.c:770-800): it joins the queue.               *)
LEMMA FillStep ==
  ASSUME IInv, NEW q \in 0 .. TxNum, Orderly(q), NEW w \in Writers, WriteFrame(w)
  PROVE  /\ \E r \in 0 .. TxNum : Orderly(r)'
         /\ Queued' = Queued \cup {Len(frames) + 1}
         /\ Len(frames') = Len(frames) + 1
         /\ UNCHANGED sent
<1>0. PICK z, m : z = count[w] /\ m = Descs(z)
  OBVIOUS
<1>. DEFINE f == Len(frames) + 1
            n == Len(fifo) + q
            c == Now
            e == Now'
<1>1. TypeOK /\ TypeOK'
  <2>1. [Next]_vars
    BY DEF Next, WriterStep
  <2>. QED  BY <2>1, TypeStep DEF IInv
<1>2. /\ fifo \in Seq(ChunkType) /\ tx \in [Position -> DescType]
      /\ fifo_tx_desc \in Position /\ user_tx_desc \in Position
      /\ Counts \in Seq(Nat) /\ frames \in Seq(Nat) /\ sent \in Seq(Nat)
  BY <1>1, StateType
<1>3. /\ InRow(tx, user_tx_desc, fifo_tx_desc, q)
      /\ GoesOn(c, frames, sent, line, n)
      /\ StartedBy(Counts, fifo, line, frames)
      /\ Marked(tx, frames) /\ InUse(q)
  BY OrderlyParts DEF Orderly
<1>4. /\ z \in Nat \ {0} /\ m \in Nat \ {0} /\ m <= FreeRun /\ m \in 0 .. TxNum - q
  <2>1. pc[w] = "write"
    BY Zenon DEF WriteFrame
  <2>2. z \in Nat \ {0}
    BY <1>0, <2>1, Zenon DEF IInv, CallFits
  <2>3. m <= FreeRun
    BY <1>0, <2>1, WriteFrameComplete
  <2>4. m \in Nat \ {0}
    BY <1>0, <2>2, DescsFact
  <2>5. FreeRun \in 0 .. TxNum /\ FreeRun <= TxNum - q
    BY <1>1, <1>3, FreeRunFact
  <2>6. m \in 0 .. TxNum - q
    BY <2>3, <2>4, <2>5, SMT
  <2>. QED  BY <2>2, <2>3, <2>4, <2>6
<1>5. /\ Stored(tx', tx, user_tx_desc, m, z, f)
      /\ user_tx_desc' = RingAt(TxNum, user_tx_desc, m)
      /\ frames' = Append(frames, z)
      /\ UNCHANGED <<fifo_tx_desc, fifo, line, sent, opc, frame_size, bc>>
  BY <1>0, <1>4, Zenon DEF WriteFrame, oframe, card, Stored
<1>6. Counts' = Counts
  BY <1>5, Zenon DEF Counts
<1>7. Begins(c, fifo, n)
  BY <1>2, ChainBegins DEF Now
<1>8. e = Chain(fifo, tx', fifo_tx_desc) /\ c = Chain(fifo, tx, fifo_tx_desc)
  BY <1>5 DEF Now
<1>9. n \in Nat /\ f \in Nat
  BY <1>2, SMT
<1>. HIDE DEF c, e
<1>10. /\ q + m \in 0 .. TxNum
       /\ InRow(tx', user_tx_desc', fifo_tx_desc, q + m)
       /\ Same(e, c, n)
       /\ \A k \in 0 .. m - 1 : e[n + k] = Chunk(Filled(z, k, f))
  <2>1. PICK s : s = tx'
    OBVIOUS
  <2>2. Stored(s, tx, user_tx_desc, m, z, f)
    BY <1>5, <2>1
  <2>3. /\ q + m \in 0 .. TxNum
        /\ InRow(s, RingAt(TxNum, user_tx_desc, m), fifo_tx_desc, q + m)
        /\ Same(Chain(fifo, s, fifo_tx_desc), Chain(fifo, tx, fifo_tx_desc), Len(fifo) + q)
        /\ \A k \in 0 .. m - 1 :
             Chain(fifo, s, fifo_tx_desc)[Len(fifo) + q + k] = Chunk(Filled(z, k, f))
    <3>. HIDE DEF f, n
    <3>1. /\ fifo \in Seq(ChunkType) /\ tx \in [Position -> DescType]
          /\ fifo_tx_desc \in Position /\ InRow(tx, user_tx_desc, fifo_tx_desc, q)
          /\ m \in 0 .. TxNum - q
      BY <1>2, <1>3, <1>4
    <3>. QED  BY q \in 0 .. TxNum, <2>2, <3>1, ChainFill, SMT
  <2>. QED  BY <1>5, <1>8, <2>1, <2>3, Zenon
<1>. HIDE DEF n
<1>11. Parts(e, n, m, z, f)
  BY <1>0, <1>4, <1>9, <1>10, FilledParts, Zenon
<1>. HIDE DEF f
<1>12. GoesOn(e, frames', sent, line, n + m)
  BY <1>2, <1>3, <1>4, <1>5, <1>9, <1>10, <1>11, GoesOnFill, Zenon DEF f
<1>13. StartedBy(Counts, fifo, line, frames')
  BY <1>2, <1>3, <1>4, <1>5, <1>7, <1>9, StartedFill, Zenon DEF GoesOn
<1>14. Marked(tx', frames')
  BY <1>0, <1>2, <1>3, <1>4, <1>5, MarkedFill, Zenon DEF f
<1>15. Len(fifo') + (q + m) = n + m
  BY <1>2, <1>4, <1>5, SMT DEF n
<1>16. Orderly(q + m)'
  <2>1. /\ InRow(tx', user_tx_desc', fifo_tx_desc', q + m)
        /\ GoesOn(e, frames', sent', line', Len(fifo') + (q + m))
        /\ StartedBy(Counts', fifo', line', frames')
        /\ Marked(tx', frames')
    BY <1>5, <1>6, <1>10, <1>12, <1>13, <1>14, <1>15, Zenon
  <2>. QED  BY <2>1, Zenon DEF Orderly, InUse, InRow, Now, e
<1>17. Queued' = Queued \cup {f}
  <2>1. Queued = FramesOf(c, n)
    BY <1>1, QueuedNow DEF c, n
  <2>2. QueuedIn(fifo', tx') = FramesOf(e, Len(fifo') + (q + m))
    <3>1. /\ fifo' \in Seq(ChunkType) /\ tx' \in [Position -> DescType]
          /\ fifo_tx_desc' \in Position
      BY <1>1, Zenon DEF TypeOK, CardType, RingType
    <3>2. InRow(tx', user_tx_desc', fifo_tx_desc', q + m)
      BY <1>5, <1>10, Zenon
    <3>. QED  BY <1>10, <3>1, <3>2, QueuedFact DEF e, Now
  <2>3. PICK r : r = n + m
    OBVIOUS
  <2>4. FramesOf(e, r) = FramesOf(c, n) \cup {f}
    BY <1>4, <1>9, <1>10, <1>11, <2>3, FramesFilled
  <2>. QED  BY <1>15, <2>1, <2>2, <2>3, <2>4, Zenon DEF Queued, QueuedIn
<1>18. Len(frames') = Len(frames) + 1
  BY <1>2, <1>4, <1>5, SMT
<1>. QED  BY <1>5, <1>10, <1>16, <1>17, <1>18 DEF f


(* A ring and a card in which nothing is left. *)
LEMMA NothingLeft ==
  ASSUME NEW fr, NEW t, t = [i \in Position |-> Empty]
  PROVE  /\ InRow(t, 0, 0, 0) /\ Marked(t, fr)
         /\ StartedBy(<<>>, <<>>, NoLine, fr) /\ QueuedIn(<<>>, t) = {}
<1>1. \A i \in Position : t[i].cstop
  <2>1. Empty.cstop
    BY SMT DEF Empty
  <2>. QED  BY <2>1, Zenon
<1>2. InRow(t, 0, 0, 0)
  <2>1. 0 = RingAt(TxNum, 0, 0) /\ \A k \in 0 .. TxNum - 1 : ~(k < 0)
    BY SMT DEF RingAt
  <2>2. \A k \in 0 .. TxNum - 1 : RingAt(TxNum, 0, k) \in Position
    BY SMT DEF RingAt
  <2>. QED  BY <1>1, <2>1, <2>2, Zenon DEF InRow
<1>3. Marked(t, fr)
  BY <1>1, Zenon DEF Marked
<1>4. 1 .. Len(<<>>) = {} /\ <<>> \in Seq(Nat) /\ NoLine.frames = {}
  BY SMT DEF NoLine
<1>5. StartedBy(<<>>, <<>>, NoLine, fr)
  <2>1. SizesOf(<<>>, <<>>, fr) /\ Entries(<<>>) = {} /\ Begun(<<>>, NoLine) = {}
    BY <1>4, Zenon DEF SizesOf, Entries, Begun
  <2>. QED  BY <1>4, <2>1, Zenon DEF StartedBy
<1>6. QueuedIn(<<>>, t) = {}
  BY <1>1, <1>4, Zenon DEF QueuedIn
<1>. QED  BY <1>2, <1>3, <1>5, <1>6

LEMMA NothingGoesOn ==
  ASSUME NEW c, NEW fr, NEW s, NEW n, InOrder(s, c, fr, n), NEW e
  PROVE  GoesOn(e, fr, s, NoLine, 0)
<1>1. WholeFrames(e, fr, 0)
  BY SMT DEF WholeFrames
<1>2. InOrder(s, e, fr, 0)
  <2>1. ~(0 > 0)
    BY SMT
  <2>. QED  BY <2>1, Zenon DEF InOrder
<1>3. Continued(NoLine, e[0], 0)
  BY SMT DEF Continued, NoLine
<1>. QED  BY <1>1, <1>2, <1>3 DEF GoesOn

(* A purge that finds a clock empties the queue (io.c:286-298).             *)
LEMMA PurgeStep ==
  ASSUME IInv, NEW q \in 0 .. TxNum, Orderly(q), PurgeTx, ~dropped'
  PROVE  /\ 0 \in 0 .. TxNum /\ Orderly(0)'
         /\ Queued' = {} /\ UNCHANGED <<frames, sent>>
<1>1. /\ fifo' = <<>> /\ bc' = <<>> /\ line' = NoLine
      /\ tx' = [i \in Position |-> Empty] /\ user_tx_desc' = 0 /\ fifo_tx_desc' = 0
      /\ UNCHANGED <<frames, sent, opc>> /\ opc # "copy"
  BY Zenon DEF PurgeTx, LockFree, oframe
<1>2. Counts' = <<>>
  BY <1>1, Zenon DEF Counts
<1>3. PICK t, fr, s : t = tx' /\ fr = frames /\ s = sent
  OBVIOUS
<1>4. /\ InRow(t, 0, 0, 0) /\ Marked(t, fr)
      /\ StartedBy(<<>>, <<>>, NoLine, fr) /\ QueuedIn(<<>>, t) = {}
  <2>1. t = [i \in Position |-> Empty]
    BY <1>1, <1>3
  <2>. QED  BY <2>1, NothingLeft
<1>5. GoesOn(Now', fr, s, NoLine, 0)
  <2>1. InOrder(s, Now, fr, Len(fifo) + q)
    BY <1>3, OrderlyParts DEF GoesOn
  <2>2. PICK e : e = Now'
    OBVIOUS
  <2>3. GoesOn(e, fr, s, NoLine, 0)
    BY <2>1, NothingGoesOn
  <2>. QED  BY <2>2, <2>3
<1>6. Len(fifo') + 0 = 0
  BY <1>1, SMT
<1>7. Orderly(0)'
  <2>1. /\ InRow(tx', user_tx_desc', fifo_tx_desc', 0)
        /\ GoesOn(Now', frames', sent', line', Len(fifo') + 0)
        /\ StartedBy(Counts', fifo', line', frames')
        /\ Marked(tx', frames')
    BY <1>1, <1>2, <1>3, <1>4, <1>5, <1>6, Zenon
  <2>. QED  BY <2>1, Zenon DEF Orderly, InUse, InRow, Now
<1>8. Queued' = {}
  BY <1>1, <1>3, <1>4, Zenon DEF Queued, QueuedIn
<1>9. 0 \in 0 .. TxNum
  BY SMT
<1>. QED  BY <1>1, <1>7, <1>8, <1>9

(* What a step can do to the queue. *)
Entered ==
  /\ Queued' = Queued \cup {Len(frames) + 1} /\ Len(frames') = Len(frames) + 1
  /\ UNCHANGED sent
Left ==
  \E f \in Queued : /\ \A g \in Queued : f <= g
                    /\ Queued' = Queued \ {f} /\ sent' = Append(sent, f)
                    /\ UNCHANGED frames
Purged == Queued' = {} /\ UNCHANGED <<frames, sent>>
Moved == Queued' = Queued /\ UNCHANGED <<frames, sent>>

LEMMA DroppedStays == ASSUME [Next]_vars, dropped PROVE dropped'
BY Zenon
   DEF Next, vars, ghosts, WriterStep, OframeStep, WriteCall, WriteSignal, WriteDown,
       WriteCheck, WriteWait, WriteClock, WriteFrame, WriteNoMemory, WriteUp,
       WriteSchedule, OframeTfcnt, OframeTxcnt, OframeLock, OframeCopy, OframeUnlock,
       OframeTransmit, PurgeTx, Isr, HwSend, ClockChange

(* The tasklet resets the size of the frame it started before the loop.     *)
LEMMA FrameSizeStep ==
  ASSUME FrameSizeReset, [Next]_vars
  PROVE  FrameSizeReset'
<1>1. CASE OframeTxcnt
  BY <1>1, Zenon DEF FrameSizeReset, OframeTxcnt
<1>2. CASE OframeLock \/ OframeCopy \/ OframeUnlock \/ OframeTransmit
  BY <1>2, Zenon DEF FrameSizeReset, OframeLock, OframeCopy, OframeUnlock, OframeTransmit
<1>3. CASE OframeTfcnt
  BY <1>3, Zenon DEF FrameSizeReset, OframeTfcnt
<1>4. ASSUME UNCHANGED <<opc, frame_size>> PROVE FrameSizeReset'
  BY <1>4, Zenon DEF FrameSizeReset
<1>5. ASSUME ~OframeStep PROVE UNCHANGED <<opc, frame_size>>
  BY <1>5, Zenon
     DEF Next, vars, oframe, WriterStep, WriteCall, WriteSignal, WriteDown,
         WriteCheck, WriteWait, WriteClock, WriteFrame, WriteNoMemory, WriteUp,
         WriteSchedule, PurgeTx, Isr, HwSend, ClockChange
<1>. QED  BY <1>1, <1>2, <1>3, <1>4, <1>5, Zenon DEF OframeStep

(* The steps that leave the chain alone. *)
LEMMA RestStep ==
  ASSUME IInv, FrameSizeReset, [Next]_vars, ~OframeCopy, ~PurgeTx,
         \A w \in Writers : ~WriteFrame(w), \A b \in BOOLEAN : ~HwSend(b)
  PROVE  /\ Counts' = Counts
         /\ UNCHANGED <<ring, fifo, line, frames, sent>>
<1>1. CASE OframeLock
  BY <1>1, Zenon DEF OframeLock, card, ghosts, Counts, FrameSizeReset
<1>2. CASE OframeUnlock
  BY <1>2, Zenon DEF OframeUnlock, ghosts, Counts
<1>3. ASSUME OframeTfcnt \/ OframeTxcnt \/ OframeTransmit
      PROVE  /\ UNCHANGED <<ring, fifo, line, frames, sent, bc>>
             /\ opc # "copy" /\ opc' # "copy"
  BY <1>3, Zenon DEF OframeTfcnt, OframeTxcnt, OframeTransmit, card, ghosts
<1>4. CASE OframeTfcnt \/ OframeTxcnt \/ OframeTransmit
  BY <1>3, <1>4, Zenon DEF Counts
<1>5. ASSUME ~OframeStep
      PROVE  UNCHANGED <<ring, fifo, line, frames, sent, bc, opc, frame_size>>
  BY <1>5, Zenon
     DEF Next, vars, oframe, card, ghosts, WriterStep, WriteCall, WriteSignal,
         WriteDown, WriteCheck, WriteWait, WriteClock, WriteNoMemory, WriteUp,
         WriteSchedule, Isr, ClockChange
<1>6. CASE ~OframeStep
  BY <1>5, <1>6, Zenon DEF Counts
<1>. QED  BY <1>1, <1>2, <1>4, <1>6, Zenon DEF OframeStep

LEMMA QueueStep ==
  ASSUME QInv, [Next]_vars, ~dropped'
  PROVE  /\ \E q \in 0 .. TxNum : Orderly(q)'
         /\ Entered \/ Left \/ Purged \/ Moved
<1>. USE DEF Entered, Left, Purged, Moved
<1>1. IInv /\ FrameSizeReset
  BY DEF QInv
<1>2. PICK q \in 0 .. TxNum : Orderly(q)
  BY DroppedStays DEF QInv, FramesOK
<1>3. ASSUME NEW w \in Writers, WriteFrame(w)
      PROVE  (\E r \in 0 .. TxNum : Orderly(r)') /\ Entered
  BY <1>1, <1>2, <1>3, FillStep
<1>4. CASE OframeCopy
  <2>1. PICK r \in 0 .. TxNum : r = q - 1
    BY <1>1, <1>2, <1>4, CopyStep
  <2>2. Orderly(r)' /\ Queued' = Queued
    BY <1>1, <1>2, <1>4, <2>1, CopyStep
  <2>3. UNCHANGED <<frames, sent>>
    BY <1>4, Zenon DEF OframeCopy, ghosts
  <2>. QED  BY <2>2, <2>3
<1>5. CASE PurgeTx
  BY <1>1, <1>2, <1>5, PurgeStep
<1>6. ASSUME NEW b \in BOOLEAN, HwSend(b)
      PROVE  Orderly(q)' /\ (Left \/ Moved)
  BY <1>1, <1>2, <1>6, SendStep
<1>7. CASE ~OframeCopy /\ ~PurgeTx /\ (\A w \in Writers : ~WriteFrame(w))
           /\ (\A b \in BOOLEAN : ~HwSend(b))
  <2>1. Counts' = Counts /\ UNCHANGED <<ring, fifo, line, frames, sent>>
    BY <1>1, <1>7, RestStep
  <2>2. Orderly(q)' /\ Queued' = Queued
    BY <1>2, <2>1, OrderlyKept
  <2>. QED  BY <2>1, <2>2
<1>. QED  BY <1>2, <1>3, <1>4, <1>5, <1>6, <1>7, Zenon


-----------------------------------------------------------------------------
(* The theorems *)

LEMMA InitQInv == Init => QInv
<1>. SUFFICES ASSUME Init PROVE QInv
  OBVIOUS
<1>1. IInv
  BY InitIInv
<1>2. FrameSizeReset
  BY Zenon DEF Init, FrameSizeReset
<1>3. /\ fifo = <<>> /\ bc = <<>> /\ line = NoLine /\ frames = <<>> /\ sent = <<>>
      /\ tx = [i \in Position |-> Empty] /\ user_tx_desc = 0 /\ fifo_tx_desc = 0
      /\ opc = "idle"
  BY DEF Init
<1>4. /\ InRow(tx, 0, 0, 0) /\ Marked(tx, frames)
      /\ StartedBy(<<>>, <<>>, NoLine, frames)
  BY <1>3, NothingLeft
<1>5. GoesOn(Now, frames, sent, NoLine, 0)
  <2>1. InOrder(sent, Now, frames, 0)
    BY <1>3, SMT DEF InOrder
  <2>. QED  BY <2>1, NothingGoesOn
<1>6. Counts = <<>> /\ Len(fifo) + 0 = 0 /\ 0 \in 0 .. TxNum
  <2>1. opc # "copy"
    BY <1>3
  <2>2. Counts = <<>>
    BY <1>3, <2>1, Zenon DEF Counts
  <2>. QED  BY <1>3, <2>2, SMT
<1>7. Orderly(0)
  BY <1>3, <1>4, <1>5, <1>6, OrderlyParts, Zenon
<1>. QED  BY <1>1, <1>2, <1>6, <1>7, Zenon DEF QInv, FramesOK

LEMMA QInductive == ASSUME QInv, [Next]_vars PROVE QInv'
<1>1. IInv'
  BY Inductive DEF QInv
<1>2. FrameSizeReset'
  BY FrameSizeStep DEF QInv
<1>3. FramesOK'
  <2>1. ASSUME ~dropped' PROVE \E q \in 0 .. TxNum : Orderly(q)'
    BY <2>1, QueueStep
  <2>. QED  BY <2>1, Zenon DEF FramesOK
<1>. QED  BY <1>1, <1>2, <1>3 DEF QInv

LEMMA QInvariance == Spec => []QInv
BY InitQInv, QInductive, PTL DEF Spec

(* Every frame that leaves on the line is one frame that was written, whole: *)
(* whichever writers, purges and losses of the clock come between the        *)
(* descriptors, the FIFO and the byte counts (io.c fscc_user_write_frame,    *)
(* fscc_fifo_write_data, fscc_io_purge_tx), unless a purge's reset of the    *)
(* card was dropped.                                                          *)
THEOREM FramesSentWhole == Spec => []SentIntact
<1>1. ASSUME QInv PROVE SentIntact
  <2>1. CASE dropped
    BY <2>1 DEF SentIntact
  <2>2. CASE ~dropped
    <3>1. PICK q \in 0 .. TxNum : Orderly(q)
      BY <1>1, <2>2 DEF QInv, FramesOK
    <3>2. InOrder(sent, Now, frames, Len(fifo) + q)
      BY <3>1, OrderlyParts DEF GoesOn
    <3>3. \A i \in 1 .. Len(sent) : sent[i] \in 1 .. Len(frames)
      BY <3>2, Zenon DEF InOrder
    <3>4. 0 \notin 1 .. Len(frames)
      BY SMT
    <3>. QED  BY <3>3, <3>4, Zenon DEF SentIntact
  <2>. QED  BY <2>1, <2>2
<1>. QED  BY <1>1, QInvariance, PTL

(* The clock is always there, or is not waited for: no reset is dropped.    *)
ClockHypothesis == IgnoreTimeout \/ ~ClockLoss
ClockInv == ~dropped /\ (ClockLoss \/ clock)

LEMMA ClockKept ==
  ASSUME ClockHypothesis, TypeOK
  PROVE  /\ Init => ClockInv
         /\ ClockInv /\ [Next]_vars => ClockInv'
<1>1. Init => ClockInv
  BY Zenon DEF Init, ClockInv
<1>2. ASSUME ClockInv, [Next]_vars PROVE ClockInv'
  <2>1. CASE PurgeTx
    <3>1. ClockSeen
      BY <1>2 DEF ClockHypothesis, ClockInv, ClockSeen
    <3>2. UNCHANGED <<dropped, clock>>
      BY <2>1, <3>1, Zenon DEF PurgeTx
    <3>. QED  BY <1>2, <3>2 DEF ClockInv
  <2>2. CASE ClockChange
    BY <1>2, <2>2, Zenon DEF ClockChange, ClockInv, ghosts
  <2>3. ASSUME ~PurgeTx, ~ClockChange PROVE UNCHANGED <<dropped, clock>>
    BY <1>2, <2>3, Zenon
       DEF Next, vars, card, ghosts, WriterStep, OframeStep, WriteCall, WriteSignal,
           WriteDown, WriteCheck, WriteWait, WriteClock, WriteFrame, WriteNoMemory,
           WriteUp, WriteSchedule, OframeTfcnt, OframeTxcnt, OframeLock, OframeCopy,
           OframeUnlock, OframeTransmit, Isr, HwSend
  <2>4. CASE ~PurgeTx /\ ~ClockChange
    BY <1>2, <2>3, <2>4 DEF ClockInv
  <2>. QED  BY <2>1, <2>2, <2>4
<1>. QED  BY <1>1, <1>2

(* With a transmit clock, the writers, the ring, the tasklet, the FIFO with *)
(* its byte counts and the line together are a queue of frames: each frame   *)
(* stored leaves whole, once and in the order of the writes, unless a purge  *)
(* discards all of them (main.c fscc_write, io.c:610-690, 770-800, 280-300).  *)
THEOREM TransmitIsFrameQueue ==
  ASSUME ClockHypothesis
  PROVE  Spec => IsFrameQueue
<1>1. Init => FrameQ!Init
  <2>. SUFFICES ASSUME Init PROVE FrameQ!Init
    OBVIOUS
  <2>1. fifo = <<>> /\ tx = [i \in Position |-> Empty] /\ frames = <<>> /\ sent = <<>>
    BY DEF Init
  <2>2. QueuedIn(<<>>, tx) = {}
    BY <2>1, NothingLeft
  <2>3. Queued = {}
    BY <2>1, <2>2, Zenon DEF Queued, QueuedIn
  <2>4. Len(frames) = 0
    BY <2>1, SMT
  <2>. QED  BY <2>1, <2>3, <2>4 DEF FrameQ!Init
<1>2. QInv /\ ClockInv' /\ [Next]_vars => [FrameQ!Next]_(FrameQ!vars)
  <2>. SUFFICES ASSUME QInv, ClockInv', [Next]_vars
                PROVE  [FrameQ!Next]_(FrameQ!vars)
    OBVIOUS
  <2>1. Entered \/ Left \/ Purged \/ Moved
    BY QueueStep DEF ClockInv
  <2>2. CASE Entered
    BY <2>2, Zenon DEF Entered, FrameQ!Next, FrameQ!Accept
  <2>3. CASE Left
    BY <2>3, Zenon DEF Left, FrameQ!Next, FrameQ!Deliver, FrameQ!Oldest
  <2>4. CASE Purged
    BY <2>4, Zenon DEF Purged, FrameQ!Next, FrameQ!Purge
  <2>5. CASE Moved
    BY <2>5, Zenon DEF Moved, FrameQ!vars
  <2>. QED  BY <2>1, <2>2, <2>3, <2>4, <2>5
<1>3. QInv => TypeOK
  BY DEF QInv, IInv
<1>4. TypeOK /\ Init => ClockInv
  BY ClockKept
<1>5. TypeOK /\ ClockInv /\ [Next]_vars => ClockInv'
  BY ClockKept
<1>. QED  BY <1>1, <1>2, <1>3, <1>4, <1>5, QInvariance, PTL
          DEF Spec, IsFrameQueue, FrameQ!Spec

=============================================================================
