----------------------------- MODULE TxDmaProofs -----------------------------
(***************************************************************************)
(* Proofs about TxDma, for any number of writers, any ring and any frames: *)
(* the types, that no frame is left behind an engine that stands still,    *)
(* and that frames leave whole and in order.                               *)
(***************************************************************************)
EXTENDS TxDma, FiniteSetTheorems, TLAPS

USE DmaAssumption DEF Position

-----------------------------------------------------------------------------
(* Positions *)

LEMMA RingFacts ==
  ASSUME NEW i \in Position
  PROVE  /\ RingAt(TxNum, i, 0) = i
         /\ RingAt(TxNum, i, TxNum) = i
         /\ RingNext(TxNum, i) \in Position
         /\ \A k \in 0 .. TxNum : RingAt(TxNum, i, k) \in Position
         /\ \A k \in 1 .. TxNum - 1 : RingAt(TxNum, i, k) # i
         /\ \A k \in 0 .. TxNum - 1 :
              RingAt(TxNum, RingNext(TxNum, i), k) = RingAt(TxNum, i, k + 1)
         /\ \A j \in Position : /\ RingOffset(TxNum, i, j) \in 0 .. TxNum - 1
                                /\ RingAt(TxNum, i, RingOffset(TxNum, i, j)) = j
BY SMT DEF RingAt, RingNext, RingOffset

LEMMA RingSums ==
  ASSUME NEW i \in Position, NEW q \in 0 .. TxNum
  PROVE  /\ \A n \in 0 .. TxNum - q :
              RingAt(TxNum, RingAt(TxNum, i, q), n) = RingAt(TxNum, i, q + n)
         /\ \A k \in 0 .. q - 1 :
              RingOffset(TxNum, RingAt(TxNum, i, q), RingAt(TxNum, i, k)) = TxNum - q + k
         /\ \A k \in q .. TxNum - 1 :
              RingOffset(TxNum, RingAt(TxNum, i, q), RingAt(TxNum, i, k)) = k - q
BY SMT DEF RingAt, RingOffset

-----------------------------------------------------------------------------
(* The inductive invariant *)

(* Nobody but one writer is between down and up of write_semaphore, and what *)
(* it starts the engine for is a frame, while the engine stands still.       *)
Holding == {"clock", "write", "probe", "base", "go", "up"}
OneWriter ==
  /\ \A v, w \in Writers : pc[v] \in Holding /\ pc[w] \in Holding => v = w
  /\ write_sem = 1 => \A w \in Writers : pc[w] \notin Holding
StartOK ==
  \A w \in Writers :
    /\ pc[w] \in {"base", "go"} => ~running
    /\ pc[w] \in {"probe", "base", "go"} => mine[w] # 0
NeedOK == \A w \in Writers : pc[w] # "idle" => need[w] \in 1 .. TxNum

(* Of the descriptors t, q in use lie from p on and u follows them.          *)
InRow(t, u, p, q) ==
  /\ u = RingAt(TxNum, p, q)
  /\ \A k \in 0 .. TxNum - 1 : t[RingAt(TxNum, p, k)] # Free <=> k < q

(* The engine is at the first of them; a writer that may still find it       *)
(* stopped will send it there, and no start is left over for later.          *)
Settled(p, q) ==
  /\ InRow(tx, user_tx_desc, p, q)
  /\ running => cur = p
  /\ ~running /\ ppc # "clear" =>
       \A w \in Writers : pc[w] \in {"probe", "base", "go"} => q = 0 \/ start_desc[w] = p
  /\ \A w \in Writers : pc[w] = "go" => q = 0 \/ dtdb = start_desc[w]
  /\ ppc = "clear" => ~running
  /\ ppc = "base" => q = 0

(* The descriptors in use, the k-th in c[k], are the rest of a frame and then *)
(* whole frames of ascending numbers; fr holds their lengths.                *)
RowOf(t, p) == [k \in 0 .. TxNum - 1 |-> t[RingAt(TxNum, p, k)]]
Follows(d, e, fr) ==
  IF d.part = fr[d.frame] THEN e.part = 1 /\ d.frame < e.frame
  ELSE e.frame = d.frame /\ e.part = d.part + 1
WholeFrames(c, fr, q) ==
  /\ \A k \in 0 .. q - 1 : /\ c[k].frame \in 1 .. Len(fr)
                           /\ c[k].part \in 1 .. fr[c[k].frame]
  /\ \A k \in 0 .. q - 2 : Follows(c[k], c[k + 1], fr)
  /\ q > 0 => c[q - 1].part = fr[c[q - 1].frame]

(* The frames s that left are in order and before the ones in the ring.      *)
InOrder(s, c, fr, q) ==
  \A i \in 1 .. Len(s) :
    /\ s[i] \in 1 .. Len(fr) /\ \A j \in 1 .. i - 1 : s[j] < s[i]
    /\ q > 0 => s[i] < c[0].frame

(* The engine begins a frame with its first part and goes on with the next.  *)
Continued(l, d, q) ==
  IF l = Free THEN q = 0 \/ d.part = 1
  ELSE q > 0 /\ d.frame = l.frame /\ d.part = l.part + 1

Orderly(p, q) ==
  /\ WholeFrames(RowOf(tx, p), frames, q)
  /\ InOrder(sent, RowOf(tx, p), frames, q)
  /\ IF ppc = "clear" THEN line = Free ELSE Continued(line, RowOf(tx, p)[0], q)

(* The room that a writer found is still there. *)
Fits(q) == \A w \in Writers : pc[w] \in {"clock", "write"} => need[w] <= TxNum - q

(* A reset that was dropped spoils the frames, not the ring.                 *)
Row(p, q) == Settled(p, q) /\ Fits(q) /\ (dropped \/ Orderly(p, q))

RingSettled == stale \/ \E p \in Position, q \in 0 .. TxNum : Row(p, q)

IInv == TypeOK /\ OneWriter /\ StartOK /\ NeedOK /\ RingSettled /\ NothingStranded

FreeSet == {k \in Position : \A j \in 0 .. k : tx[RingAt(TxNum, user_tx_desc, j)] = Free}

LEMMA FreeRunType == FreeRun \in 0 .. TxNum
<1>1. IsFiniteSet(0 .. TxNum - 1) /\ Cardinality(0 .. TxNum - 1) = TxNum
  BY FS_Interval, SMT
<1>2. FreeSet \in SUBSET (0 .. TxNum - 1)
  BY DEF FreeSet
<1>3. IsFiniteSet(FreeSet) /\ Cardinality(FreeSet) <= TxNum
  BY <1>1, <1>2, FS_Subset
<1>4. Cardinality(FreeSet) \in Nat
  BY <1>3, FS_CardinalityType
<1>5. FreeRun = Cardinality(FreeSet)
  BY DEF FreeRun, FreeSet
<1>. QED  BY <1>3, <1>4, <1>5, SMT

(* When q descriptors in a row are in use, a writer finds the others.        *)
LEMMA FreeRunFact ==
  ASSUME NEW p \in Position, NEW q \in 0 .. TxNum, InRow(tx, user_tx_desc, p, q)
  PROVE  FreeRun = TxNum - q
<1>1. ASSUME NEW j \in 0 .. TxNum - q - 1
      PROVE  tx[RingAt(TxNum, user_tx_desc, j)] = Free
  <2>1. q + j \in 0 .. TxNum - 1 /\ ~(q + j < q) /\ j \in 0 .. TxNum - q
    BY SMT
  <2>2. RingAt(TxNum, user_tx_desc, j) = RingAt(TxNum, p, q + j)
    BY <2>1, RingSums, Zenon DEF InRow
  <2>. QED  BY <2>1, <2>2, Zenon DEF InRow
<1>2. ASSUME q > 0
      PROVE  tx[RingAt(TxNum, user_tx_desc, TxNum - q)] # Free
  <2>1. 0 \in 0 .. TxNum - 1 /\ TxNum - q \in 0 .. TxNum - q /\ q + (TxNum - q) = TxNum
    BY SMT
  <2>2. RingAt(TxNum, user_tx_desc, TxNum - q) = RingAt(TxNum, p, q + (TxNum - q))
    BY <2>1, RingSums, Zenon DEF InRow
  <2>3. RingAt(TxNum, p, q + (TxNum - q)) = RingAt(TxNum, p, 0)
    BY <2>1, RingFacts
  <2>. QED  BY <1>2, <2>1, <2>2, <2>3, Zenon DEF InRow
<1>3. FreeSet = 0 .. TxNum - q - 1
  <2>1. ASSUME NEW k \in FreeSet PROVE k \in 0 .. TxNum - q - 1
    <3>. SUFFICES ASSUME k > TxNum - q - 1 PROVE FALSE
      BY SMT DEF FreeSet
    <3>1. q > 0 /\ TxNum - q \in 0 .. k
      BY SMT DEF FreeSet
    <3>. QED  BY <1>2, <3>1, Zenon DEF FreeSet
  <2>2. ASSUME NEW k \in 0 .. TxNum - q - 1 PROVE k \in FreeSet
    <3>1. k \in Position /\ 0 .. k \subseteq 0 .. TxNum - q - 1
      BY SMT
    <3>. QED  BY <1>1, <3>1, Zenon DEF FreeSet
  <2>. QED  BY <2>1, <2>2
<1>4. Cardinality(0 .. TxNum - q - 1) = TxNum - q
  BY FS_Interval, SMT
<1>5. FreeRun = Cardinality(FreeSet)
  BY DEF FreeRun, FreeSet
<1>. QED  BY <1>3, <1>4, <1>5

LEMMA EmptyFact ==
  ASSUME NEW t, NEW u, NEW p \in Position, InRow(t, u, p, 0)
  PROVE  u = p /\ \A i \in Position : t[i] = Free
<1>1. u = p
  BY RingFacts DEF InRow
<1>2. ASSUME NEW i \in Position PROVE t[i] = Free
  <2>1. /\ RingOffset(TxNum, p, i) \in 0 .. TxNum - 1
        /\ RingAt(TxNum, p, RingOffset(TxNum, p, i)) = i
    BY SMT DEF RingAt, RingOffset
  <2>2. ~(RingOffset(TxNum, p, i) < 0)
    BY <2>1, SMT
  <2>. QED  BY <2>1, <2>2, Zenon DEF InRow
<1>. QED  BY <1>1, <1>2

LEMMA AllFree ==
  ASSUME NEW t, NEW p \in Position, \A i \in Position : t[i] = Free
  PROVE  InRow(t, p, p, 0)
<1>1. \A k \in 0 .. TxNum - 1 : RingAt(TxNum, p, k) \in Position /\ ~(k < 0)
  BY SMT DEF RingAt
<1>. QED  BY <1>1, RingFacts, Zenon DEF InRow

-----------------------------------------------------------------------------
(* The frames in the row *)

LEMMA PartFacts ==
  ASSUME NEW f \in Nat, NEW k \in Nat
  PROVE  /\ Part(f, k) \in Descriptor /\ Part(f, k).frame = f /\ Part(f, k).part = k
         /\ \A d \in Descriptor : d = Part(f, k) <=> d.frame = f /\ d.part = k
BY SMT DEF Part, Descriptor

(* A new frame behind the row.                                               *)
LEMMA FramesFill ==
  ASSUME NEW fr \in Seq(Nat), NEW s \in Seq(Nat), NEW q \in Nat, NEW n \in Nat \ {0},
         NEW c, NEW e, WholeFrames(c, fr, q), InOrder(s, c, fr, q),
         \A k \in 0 .. q - 1 : e[k] = c[k],
         \A k \in 0 .. n - 1 : e[q + k].frame = Len(fr) + 1 /\ e[q + k].part = k + 1
  PROVE  /\ WholeFrames(e, Append(fr, n), q + n)
         /\ InOrder(s, e, Append(fr, n), q + n)
<1>. DEFINE gr == Append(fr, n)
<1>1. /\ Len(gr) = Len(fr) + 1 /\ gr[Len(fr) + 1] = n /\ Len(fr) \in Nat
      /\ \A i \in 1 .. Len(fr) : gr[i] = fr[i]
  BY SMT
<1>. HIDE DEF gr
<1>2. ASSUME NEW k \in 0 .. q + n - 1
      PROVE  e[k].frame \in 1 .. Len(gr) /\ e[k].part \in 1 .. gr[e[k].frame]
  <2>1. CASE k < q
    <3>1. k \in 0 .. q - 1
      BY <2>1, SMT
    <3>2. c[k].frame \in 1 .. Len(fr) /\ c[k].part \in 1 .. fr[c[k].frame]
      BY <3>1, Zenon DEF WholeFrames
    <3>3. gr[c[k].frame] = fr[c[k].frame] /\ c[k].frame \in 1 .. Len(gr)
      BY <1>1, <3>2, SMT
    <3>. QED  BY <3>1, <3>2, <3>3, Zenon
  <2>2. CASE k >= q
    <3>1. k - q \in 0 .. n - 1 /\ q + (k - q) = k
      BY <2>2, SMT
    <3>2. e[k].frame = Len(fr) + 1 /\ e[k].part = (k - q) + 1
      BY <3>1, Zenon
    <3>. QED  BY <1>1, <3>1, <3>2, SMT
  <2>. QED  BY <2>1, <2>2, SMT
<1>3. ASSUME NEW k \in 0 .. q + n - 2
      PROVE  Follows(e[k], e[k + 1], gr)
  <2>1. CASE k < q - 1
    <3>1. k \in 0 .. q - 2 /\ k \in 0 .. q - 1 /\ k + 1 \in 0 .. q - 1
      BY <2>1, SMT
    <3>2. c[k].frame \in 1 .. Len(fr) /\ Follows(c[k], c[k + 1], fr)
      BY <3>1, Zenon DEF WholeFrames
    <3>3. gr[c[k].frame] = fr[c[k].frame]
      BY <1>1, <3>2
    <3>. QED  BY <3>1, <3>2, <3>3, Zenon DEF Follows
  <2>2. CASE k = q - 1
    <3>1. q > 0 /\ k \in 0 .. q - 1 /\ 0 \in 0 .. n - 1 /\ q + 0 = k + 1
      BY <2>2, SMT
    <3>2. c[k].frame \in 1 .. Len(fr) /\ c[k].part = fr[c[k].frame]
      BY <2>2, <3>1, Zenon DEF WholeFrames
    <3>3. e[k] = c[k] /\ gr[c[k].frame] = fr[c[k].frame]
      BY <1>1, <3>1, <3>2
    <3>4. e[k + 1].frame = Len(fr) + 1 /\ e[k + 1].part = 0 + 1
      BY <3>1, Zenon
    <3>5. c[k].frame < Len(fr) + 1 /\ 0 + 1 = 1
      BY <1>1, <3>2, SMT
    <3>. QED  BY <3>2, <3>3, <3>4, <3>5, Zenon DEF Follows
  <2>3. CASE k > q - 1
    <3>1. /\ k - q \in 0 .. n - 1 /\ q + (k - q) = k
          /\ k + 1 - q \in 0 .. n - 1 /\ q + (k + 1 - q) = k + 1
          /\ (k - q) + 1 # n /\ (k + 1 - q) + 1 = (k - q) + 1 + 1
      BY <2>3, SMT
    <3>2. e[k].frame = Len(fr) + 1 /\ e[k].part = (k - q) + 1
      BY <3>1, Zenon
    <3>3. e[k + 1].frame = Len(fr) + 1 /\ e[k + 1].part = (k + 1 - q) + 1
      BY <3>1, Zenon
    <3>. QED  BY <1>1, <3>1, <3>2, <3>3, Zenon DEF Follows
  <2>. QED  BY <2>1, <2>2, <2>3, SMT
<1>4. e[q + n - 1].part = gr[e[q + n - 1].frame]
  <2>1. n - 1 \in 0 .. n - 1 /\ q + (n - 1) = q + n - 1 /\ (n - 1) + 1 = n
    BY SMT
  <2>. QED  BY <1>1, <2>1
<1>5. ASSUME NEW i \in 1 .. Len(s)
      PROVE  /\ s[i] \in 1 .. Len(gr) /\ \A j \in 1 .. i - 1 : s[j] < s[i]
             /\ s[i] < e[0].frame
  <2>1. /\ s[i] \in 1 .. Len(fr) /\ \A j \in 1 .. i - 1 : s[j] < s[i]
        /\ q > 0 => s[i] < c[0].frame
    BY Zenon DEF InOrder
  <2>2. CASE q = 0
    <3>1. 0 \in 0 .. n - 1 /\ q + 0 = 0
      BY <2>2, SMT
    <3>2. e[0].frame = Len(fr) + 1
      BY <3>1, Zenon
    <3>. QED  BY <1>1, <2>1, <3>2, SMT
  <2>3. CASE q > 0
    <3>1. 0 \in 0 .. q - 1
      BY <2>3, SMT
    <3>. QED  BY <1>1, <2>1, <2>3, <3>1, SMT
  <2>. QED  BY <2>2, <2>3, SMT
<1>6. WholeFrames(e, gr, q + n)
  <2>1. \A k \in 0 .. q + n - 1 : /\ e[k].frame \in 1 .. Len(gr)
                                 /\ e[k].part \in 1 .. gr[e[k].frame]
    BY <1>2
  <2>2. \A k \in 0 .. q + n - 2 : Follows(e[k], e[k + 1], gr)
    BY <1>3
  <2>. QED  BY <1>4, <2>1, <2>2 DEF WholeFrames
<1>7. InOrder(s, e, gr, q + n)
  BY <1>5, Zenon DEF InOrder
<1>. QED  BY <1>6, <1>7 DEF gr

(* The first part is sent; with the last one its frame has left.             *)
LEMMA FramesTake ==
  ASSUME NEW fr \in Seq(Nat), NEW s \in Seq(Nat), NEW q \in Nat \ {0},
         NEW c, NEW e, NEW r \in Seq(Nat), NEW l,
         c[0] # Free, WholeFrames(c, fr, q), InOrder(s, c, fr, q),
         \A k \in 0 .. q - 2 : e[k] = c[k + 1],
         IF c[0].part = fr[c[0].frame] THEN l = Free /\ r = Append(s, c[0].frame)
                                      ELSE l = c[0] /\ r = s
  PROVE  /\ WholeFrames(e, fr, q - 1)
         /\ InOrder(r, e, fr, q - 1)
         /\ Continued(l, e[0], q - 1)
<1>1. /\ 0 \in 0 .. q - 1 /\ 0 + 1 = 1
      /\ q - 1 > 0 => 0 \in 0 .. q - 2
      /\ q - 1 = 0 => q - 1 = 0
  BY SMT
<1>2. c[0].frame \in 1 .. Len(fr)
  BY <1>1, Zenon DEF WholeFrames
<1>3. q - 1 > 0 => Follows(c[0], e[0], fr)
  BY <1>1, Zenon DEF WholeFrames
<1>4. q - 1 = 0 => c[0].part = fr[c[0].frame]
  <2>1. q > 0
    BY SMT
  <2>. QED  BY <2>1, Zenon DEF WholeFrames
<1>5. q - 1 > 0 \/ q - 1 = 0
  BY SMT
<1>6. WholeFrames(e, fr, q - 1)
  <2>1. ASSUME NEW k \in 0 .. q - 1 - 1
        PROVE  e[k].frame \in 1 .. Len(fr) /\ e[k].part \in 1 .. fr[e[k].frame]
    <3>1. k \in 0 .. q - 2 /\ k + 1 \in 0 .. q - 1
      BY SMT
    <3>. QED  BY <3>1, Zenon DEF WholeFrames
  <2>2. ASSUME NEW k \in 0 .. q - 1 - 2
        PROVE  Follows(e[k], e[k + 1], fr)
    <3>1. k \in 0 .. q - 2 /\ k + 1 \in 0 .. q - 2
      BY SMT
    <3>. QED  BY <3>1, Zenon DEF WholeFrames
  <2>3. ASSUME q - 1 > 0
        PROVE  e[q - 1 - 1].part = fr[e[q - 1 - 1].frame]
    <3>1. q > 0 /\ q - 1 - 1 \in 0 .. q - 2 /\ q - 1 - 1 + 1 = q - 1
      BY <2>3, SMT
    <3>. QED  BY <3>1, Zenon DEF WholeFrames
  <2>. QED  BY <2>1, <2>2, <2>3, Zenon DEF WholeFrames
<1>7. CASE c[0].part = fr[c[0].frame]
  <2>1. l = Free /\ r = Append(s, c[0].frame)
    BY <1>7
  <2>2. q - 1 > 0 => e[0].part = 1 /\ c[0].frame < e[0].frame
    BY <1>3, <1>7, Zenon DEF Follows
  <2>3. Continued(l, e[0], q - 1)
    BY <1>5, <2>1, <2>2, Zenon DEF Continued
  <2>4. /\ Len(r) = Len(s) + 1 /\ Len(s) \in Nat /\ r[Len(s) + 1] = c[0].frame
        /\ \A i \in 1 .. Len(s) : r[i] = s[i]
    BY <1>2, <2>1, SMT
  <2>5. \A i \in 1 .. Len(s) : /\ s[i] \in 1 .. Len(fr) /\ s[i] < c[0].frame
                               /\ \A j \in 1 .. i - 1 : s[j] < s[i]
    <3>1. q > 0
      BY SMT
    <3>. QED  BY <3>1, Zenon DEF InOrder
  <2>6. ASSUME NEW i \in 1 .. Len(r)
        PROVE  /\ r[i] \in 1 .. Len(fr) /\ \A j \in 1 .. i - 1 : r[j] < r[i]
               /\ q - 1 > 0 => r[i] < e[0].frame
    <3>1. CASE i \in 1 .. Len(s)
      <4>1. \A j \in 1 .. i - 1 : j \in 1 .. Len(s)
        BY <2>4, <3>1, SMT
      <4>2. r[i] = s[i] /\ r[i] \in 1 .. Len(fr) /\ \A j \in 1 .. i - 1 : r[j] < r[i]
        BY <2>4, <2>5, <3>1, <4>1, Zenon
      <4>3. s[i] < c[0].frame
        BY <2>5, <3>1
      <4>4. ASSUME q - 1 > 0 PROVE s[i] < e[0].frame
        <5>1. 0 \in 0 .. q - 1 - 1
          BY <4>4, SMT
        <5>2. e[0].frame \in 1 .. Len(fr) /\ s[i] \in 1 .. Len(fr)
          BY <1>6, <2>5, <3>1, <5>1, Zenon DEF WholeFrames
        <5>3. c[0].frame < e[0].frame
          BY <2>2, <4>4
        <5>4. \A x, y, z \in 1 .. Len(fr) : x < y /\ y < z => x < z
          BY SMT
        <5>. QED  BY <1>2, <4>3, <5>2, <5>3, <5>4, Zenon
      <4>. QED  BY <4>2, <4>4, Zenon
    <3>2. CASE i = Len(s) + 1
      <4>1. \A j \in 1 .. i - 1 : j \in 1 .. Len(s)
        BY <2>4, <3>2, SMT
      <4>2. r[i] = c[0].frame
        BY <2>4, <3>2
      <4>3. \A j \in 1 .. i - 1 : r[j] < r[i]
        BY <2>4, <2>5, <4>1, <4>2, Zenon
      <4>. QED  BY <1>2, <2>2, <4>2, <4>3, Zenon
    <3>. QED  BY <2>4, <3>1, <3>2, SMT
  <2>7. InOrder(r, e, fr, q - 1)
    BY <2>6, Zenon DEF InOrder
  <2>. QED  BY <1>6, <2>3, <2>7
<1>8. CASE c[0].part # fr[c[0].frame]
  <2>1. l = c[0] /\ r = s
    BY <1>8
  <2>2. q - 1 > 0
    BY <1>4, <1>5, <1>8
  <2>3. e[0].frame = c[0].frame /\ e[0].part = c[0].part + 1
    BY <1>3, <1>8, <2>2, Zenon DEF Follows
  <2>4. Continued(l, e[0], q - 1)
    BY <2>1, <2>2, <2>3, Zenon DEF Continued
  <2>5. q > 0
    BY SMT
  <2>6. InOrder(r, e, fr, q - 1)
    BY <2>1, <2>3, <2>5, Zenon DEF InOrder
  <2>. QED  BY <1>6, <2>4, <2>6
<1>. QED  BY <1>7, <1>8

LEMMA InitHolds == Init => IInv
<1>. SUFFICES ASSUME Init PROVE IInv
  OBVIOUS
<1>. USE DEF Init
<1>1. TypeOK
  <2>1. Free \in Descriptor /\ <<>> \in Seq(Nat)
    BY PartFacts, SMT DEF Free
  <2>2. 0 \in Position /\ 0 \in Nat
    BY SMT
  <2>. QED  BY <2>1, <2>2, Zenon DEF TypeOK
<1>2. OneWriter /\ StartOK /\ NeedOK
  BY Zenon DEF OneWriter, StartOK, NeedOK, Holding
<1>3. RingSettled
  <2>1. 0 \in Position /\ 0 \in 0 .. TxNum
    BY SMT
  <2>2. InRow(tx, user_tx_desc, 0, 0)
    BY <2>1, AllFree, Zenon
  <2>3. ~(0 > 0) /\ 0 - 1 = -1 /\ 0 .. -1 = {} /\ 0 .. 0 - 2 = {} /\ Len(<<>>) = 0 /\ 1 .. 0 = {}
    BY SMT
  <2>4. \A c : WholeFrames(c, <<>>, 0) /\ InOrder(<<>>, c, <<>>, 0) /\ Continued(Free, c[0], 0)
    BY <2>3, Zenon DEF WholeFrames, InOrder, Continued
  <2>5. Orderly(0, 0)
    BY <2>4, Zenon DEF Orderly
  <2>. QED  BY <2>1, <2>2, <2>5, Zenon DEF RingSettled, Row, Fits, Settled
<1>4. NothingStranded
  BY Zenon DEF NothingStranded
<1>. QED  BY <1>1, <1>2, <1>3, <1>4 DEF IInv

-----------------------------------------------------------------------------
(* Types are preserved *)

LEMMA TypeStep ==
  ASSUME IInv, [Next]_vars
  PROVE  TypeOK'
<1>. USE DEF IInv, TypeOK, Goto
<1>0. Free \in Descriptor /\ Joined \in Descriptor /\ 0 \in Position /\ 0 \in Nat
  BY PartFacts, SMT DEF Free, Joined
<1>1. ASSUME NEW w \in Writers, NEW n \in Lengths, WriteCall(w, n)
      PROVE  TypeOK'
  <2>1. n \in Nat /\ calls' \in Nat
    BY <1>1, SMT DEF WriteCall
  <2>. QED  BY <1>1, <2>1, Zenon DEF WriteCall, ring, engine
<1>2. ASSUME NEW w \in Writers, WriteDown(w)
      PROVE  TypeOK'
  BY <1>2, Zenon DEF WriteDown, ring, engine, ghosts
<1>11. ASSUME NEW w \in Writers, WriteClock(w)
      PROVE  TypeOK'
  BY <1>11, Zenon DEF WriteClock, ring, engine, ghosts
<1>3. ASSUME NEW w \in Writers, WriteFrame(w)
      PROVE  TypeOK'
  <2>. DEFINE n == IF need[w] <= FreeRun THEN need[w] ELSE FreeRun
              f == Len(frames) + 1
  <2>1. n \in 0 .. TxNum /\ f \in Nat
    BY FreeRunType, SMT
  <2>2. user_tx_desc' \in Position
    BY <1>3, <2>1, RingFacts, Zenon DEF WriteFrame
  <2>3. frames' \in Seq(Nat)
    BY <1>3, SMT DEF WriteFrame
  <2>. HIDE DEF n, f
  <2>4. mine' \in [Writers -> Nat]
    BY <1>3, <2>1, Zenon DEF WriteFrame, f
  <2>5. tx' \in [Position -> Descriptor]
    <3>1. ASSUME NEW i \in Position
          PROVE  Part(f, RingOffset(TxNum, user_tx_desc, i) + 1) \in Descriptor
      <4>1. RingOffset(TxNum, user_tx_desc, i) \in 0 .. TxNum - 1
        BY RingFacts, Zenon
      <4>2. RingOffset(TxNum, user_tx_desc, i) + 1 \in Nat
        BY <4>1, SMT
      <4>. QED  BY <2>1, <4>2, PartFacts
    <3>. QED  BY <1>3, <3>1, Zenon DEF WriteFrame, n, f
  <2>. QED  BY <1>3, <2>2, <2>3, <2>4, <2>5, Zenon DEF WriteFrame, engine
<1>4. ASSUME NEW w \in Writers, Probe(w) \/ SetBase(w) \/ Go(w) \/ WriteUp(w)
      PROVE  TypeOK'
  <2>1. CASE Probe(w) \/ WriteUp(w)
    BY <2>1, Zenon DEF Probe, WriteUp, ring, engine, ghosts
  <2>2. CASE SetBase(w)
    BY <2>2, Zenon DEF SetBase, ring, ghosts
  <2>3. CASE Go(w)
    BY <2>3, Zenon DEF Go, ring
  <2>. QED  BY <1>4, <2>1, <2>2, <2>3
<1>5. CASE PurgeStop \/ PurgeClear \/ PurgeBase
  <2>1. CASE PurgeStop
    <3>1. purges' \in Nat /\ line.frame \in Nat
      BY <2>1, SMT DEF PurgeStop, Descriptor
    <3>2. purged' \subseteq Nat /\ line' \in Descriptor /\ dropped' \in BOOLEAN
      BY <1>0, <2>1, <3>1, Zenon DEF PurgeStop
    <3>. QED  BY <1>0, <2>1, <3>1, <3>2, Zenon DEF PurgeStop, ring, callers
  <2>2. CASE PurgeClear
    <3>1. \A i \in Position : tx[i].frame \in Nat
      BY SMT DEF Descriptor
    <3>2. purged' \subseteq Nat
      BY <2>2, <3>1, Zenon DEF PurgeClear
    <3>. QED  BY <1>0, <2>2, <3>2, Zenon DEF PurgeClear, callers, engine
  <2>3. CASE PurgeBase
    BY <1>0, <2>3, Zenon DEF PurgeBase, ring, callers, ghosts
  <2>. QED  BY <1>5, <2>1, <2>2, <2>3
<1>6. CASE EngineTake
  <2>1. tx[cur] \in Descriptor /\ tx[cur].frame \in Nat
    BY SMT DEF Descriptor
  <2>2. \A m \in Nat : Append(sent, m) \in Seq(Nat)
    BY SMT
  <2>4. sent' \in Seq(Nat)
    BY <1>0, <1>6, <2>1, <2>2, Zenon DEF EngineTake
  <2>5. line' \in Descriptor
    BY <1>0, <1>6, <2>1, Zenon DEF EngineTake
  <2>6. tx' \in [Position -> Descriptor] /\ cur' \in Position
    BY <1>0, <1>6, RingFacts, Zenon DEF EngineTake
  <2>. QED  BY <1>6, <2>4, <2>5, <2>6, Zenon DEF EngineTake, callers
<1>7. CASE EngineStop
  BY <1>7, Zenon DEF EngineStop, ring, callers, ghosts
<1>8. CASE ClockChange
  BY <1>8, Zenon DEF ClockChange, ring, callers, engine, ghosts
<1>9. CASE UNCHANGED vars
  BY <1>9, Zenon DEF vars, ring, callers, engine, ghosts
<1>. QED
  BY <1>1, <1>2, <1>3, <1>4, <1>5, <1>6, <1>7, <1>8, <1>9, <1>11, Zenon DEF Next, WriterStep

-----------------------------------------------------------------------------
(* The semaphore and the start of the engine *)

LEMMA OneWriterStep ==
  ASSUME IInv, [Next]_vars
  PROVE  OneWriter'
<1>. USE DEF IInv, TypeOK, OneWriter, Holding, Goto
<1>1. ASSUME NEW w \in Writers, NEW l \in Holding, pc[w] \in Holding, Goto(w, l),
             UNCHANGED write_sem
      PROVE  OneWriter'
  <2>1. write_sem = 0
    BY <1>1, SMT
  <2>2. write_sem' # 1
    BY <1>1, <2>1, SMT
  <2>. QED  BY <1>1, <2>2, Zenon
<1>2. ASSUME NEW w \in Writers, WriteFrame(w) \/ Probe(w) \/ SetBase(w) \/ Go(w)
      PROVE  OneWriter'
  <2>1. pc[w] \in Holding /\ UNCHANGED write_sem
    BY <1>2, Zenon DEF WriteFrame, Probe, SetBase, Go
  <2>2. \E l \in Holding : Goto(w, l)
    BY <1>2, Zenon DEF WriteFrame, Probe, SetBase, Go
  <2>. QED  BY <1>1, <2>1, <2>2, Zenon
<1>3. ASSUME NEW w \in Writers, WriteUp(w)
      PROVE  OneWriter'
  BY <1>3, Zenon DEF WriteUp
<1>4. ASSUME NEW w \in Writers, WriteDown(w)
      PROVE  OneWriter'
  <2>1. CASE Goto(w, "idle") /\ UNCHANGED write_sem
    BY <1>4, <2>1, Zenon DEF WriteDown
  <2>2. CASE Goto(w, "clock") /\ write_sem' = 0
    <3>1. write_sem' # 1
      BY <2>2, SMT
    <3>. QED  BY <1>4, <2>2, <3>1, Zenon DEF WriteDown
  <2>. QED  BY <1>4, <2>1, <2>2, Zenon DEF WriteDown
<1>5. ASSUME NEW w \in Writers, NEW n, WriteCall(w, n)
      PROVE  OneWriter'
  BY <1>5, Zenon DEF WriteCall
<1>6. CASE UNCHANGED callers
  BY <1>6, Zenon DEF callers
<1>7. ASSUME NEW w \in Writers, WriteClock(w)
      PROVE  OneWriter'
  <2>1. CASE Goto(w, "write")
    BY <1>1, <1>7, <2>1, Zenon DEF WriteClock
  <2>2. CASE Goto(w, "idle")
    BY <1>7, <2>2, Zenon DEF WriteClock
  <2>. QED  BY <1>7, <2>1, <2>2, Zenon DEF WriteClock
<1>. QED
  BY <1>2, <1>3, <1>4, <1>5, <1>6, <1>7, Zenon
  DEF Next, WriterStep, PurgeStop, PurgeClear, PurgeBase, EngineTake, EngineStop,
      ClockChange, vars

LEMMA StartStep ==
  ASSUME IInv, [Next]_vars
  PROVE  StartOK'
<1>. USE DEF IInv, TypeOK, StartOK, Goto
<1>1. ASSUME NEW w \in Writers, WriteFrame(w)
      PROVE  StartOK'
  <2>1. Len(frames) + 1 # 0
    BY SMT
  <2>2. UNCHANGED running
    BY <1>1, Zenon DEF WriteFrame, engine
  <2>. QED  BY <1>1, <2>1, <2>2, Zenon DEF WriteFrame
<1>2. ASSUME NEW w \in Writers, Probe(w)
      PROVE  StartOK'
  BY <1>2, Zenon DEF Probe, TxRunning, engine
<1>3. ASSUME NEW w \in Writers, SetBase(w)
      PROVE  StartOK'
  BY <1>3, Zenon DEF SetBase
<1>4. ASSUME NEW w \in Writers, Go(w)
      PROVE  StartOK'
  <2>1. \A v \in Writers : pc'[v] \notin {"probe", "base", "go"}
    BY <1>4, Zenon DEF Go, OneWriter, Holding
  <2>. QED  BY <2>1, Zenon
<1>5. ASSUME NEW w \in Writers, WriteDown(w) \/ WriteClock(w) \/ WriteUp(w)
      PROVE  StartOK'
  BY <1>5, Zenon DEF WriteDown, WriteClock, WriteUp, engine
<1>6. ASSUME NEW w \in Writers, NEW n, WriteCall(w, n)
      PROVE  StartOK'
  BY <1>6, Zenon DEF WriteCall, engine
<1>7. CASE UNCHANGED callers /\ (running' = running \/ running' = FALSE)
  BY <1>7, Zenon DEF callers
<1>. QED
  BY <1>1, <1>2, <1>3, <1>4, <1>5, <1>6, <1>7, Zenon
  DEF Next, WriterStep, PurgeStop, PurgeClear, PurgeBase, EngineTake, EngineStop,
      ClockChange, vars, engine

LEMMA NeedStep ==
  ASSUME IInv, [Next]_vars
  PROVE  NeedOK'
<1>. USE DEF IInv, TypeOK, NeedOK, Goto
<1>1. ASSUME NEW w \in Writers, NEW n \in Lengths, WriteCall(w, n)
      PROVE  NeedOK'
  BY <1>1, Zenon DEF WriteCall
<1>2. ASSUME NEW w \in Writers, WriterStep(w)
      PROVE  NeedOK'
  <2>1. pc[w] # "idle" /\ UNCHANGED need
    BY <1>2, Zenon DEF WriterStep, WriteDown, WriteClock, WriteFrame, Probe, SetBase, Go,
                       WriteUp
  <2>2. \A v \in Writers \ {w} : pc'[v] = pc[v]
    BY <1>2, Zenon DEF WriterStep, WriteDown, WriteClock, WriteFrame, Probe, SetBase, Go,
                       WriteUp
  <2>. QED  BY <2>1, <2>2, Zenon
<1>3. CASE UNCHANGED callers
  BY <1>3, Zenon DEF callers
<1>. QED
  BY <1>1, <1>2, <1>3, Zenon
  DEF Next, PurgeStop, PurgeClear, PurgeBase, EngineTake, EngineStop, ClockChange, vars

-----------------------------------------------------------------------------
(* The row of descriptors in use *)

(* The ring s is t with a frame f of n descriptors from u on, or t without    *)
(* the descriptor at p.                                                      *)
Filled(s, t, u, n, f) ==
  \A i \in Position :
    s[i] = IF RingOffset(TxNum, u, i) < n
             THEN Part(f, RingOffset(TxNum, u, i) + 1) ELSE t[i]
Taken(s, t, p) == t[p] # Free /\ s[p] = Free /\ \A i \in Position \ {p} : s[i] = t[i]

(* The row from p on of s, with the new frame behind it; without its first.   *)
Grown(s, t, p, q, n, f) ==
  /\ \A k \in 0 .. q - 1 : RowOf(s, p)[k] = RowOf(t, p)[k]
  /\ \A k \in 0 .. n - 1 : RowOf(s, p)[q + k] = Part(f, k + 1)
Shifted(s, t, p, q) ==
  \A k \in 0 .. q - 2 : RowOf(s, RingNext(TxNum, p))[k] = RowOf(t, p)[k + 1]

(* A writer fills n of the free descriptors.                                 *)
LEMMA Fill ==
  ASSUME NEW t, NEW u, NEW s, NEW f \in Nat \ {0}, NEW p \in Position, NEW q \in 0 .. TxNum,
         NEW n \in 0 .. TxNum - q, InRow(t, u, p, q),
         Filled(s, t, u, n, f)
  PROVE  /\ q + n \in 0 .. TxNum /\ InRow(s, RingAt(TxNum, u, n), p, q + n)
         /\ Grown(s, t, p, q, n, f)
<1>. USE DEF Filled, Grown
<1>1. q + n \in 0 .. TxNum /\ RingAt(TxNum, u, n) = RingAt(TxNum, p, q + n)
  BY RingSums, SMT DEF InRow
<1>2. ASSUME NEW k \in 0 .. TxNum - 1
      PROVE  s[RingAt(TxNum, p, k)] # Free <=> k < q + n
  <2>1. RingAt(TxNum, p, k) \in Position
    BY SMT DEF RingAt
  <2>0. \A j \in Nat : Part(f, j) # Free
    BY PartFacts, SMT DEF Free
  <2>2. CASE k < q
    <3>1. RingOffset(TxNum, u, RingAt(TxNum, p, k)) = TxNum - q + k
      BY <2>2, RingSums, SMT DEF InRow
    <3>2. ~(TxNum - q + k < n) /\ k < q + n
      BY <2>2, SMT
    <3>. QED  BY <2>1, <2>2, <3>1, <3>2, Zenon DEF InRow
  <2>3. CASE k >= q
    <3>1. RingOffset(TxNum, u, RingAt(TxNum, p, k)) = k - q
      BY <2>3, RingSums, SMT DEF InRow
    <3>2. (k - q < n <=> k < q + n) /\ k - q + 1 \in Nat
      BY <2>3, SMT
    <3>3. ~(k < q)
      BY <2>3, SMT
    <3>. QED  BY <2>0, <2>1, <3>1, <3>2, <3>3, Zenon DEF InRow
  <2>. QED  BY <2>2, <2>3, SMT
<1>3. ASSUME NEW k \in 0 .. q - 1
      PROVE  RowOf(s, p)[k] = RowOf(t, p)[k]
  <2>1. k \in 0 .. TxNum - 1 /\ RingAt(TxNum, p, k) \in Position
    BY SMT DEF RingAt
  <2>2. RingOffset(TxNum, u, RingAt(TxNum, p, k)) = TxNum - q + k
    BY RingSums, SMT DEF InRow
  <2>3. ~(TxNum - q + k < n)
    BY SMT
  <2>. QED  BY <2>1, <2>2, <2>3, Zenon DEF RowOf
<1>4. ASSUME NEW k \in 0 .. n - 1
      PROVE  RowOf(s, p)[q + k] = Part(f, k + 1)
  <2>1. /\ q + k \in 0 .. TxNum - 1 /\ q + k \in q .. TxNum - 1
        /\ q + k - q = k /\ k < n
    BY SMT
  <2>2. RingAt(TxNum, p, q + k) \in Position
    BY <2>1, SMT DEF RingAt
  <2>3. RingOffset(TxNum, u, RingAt(TxNum, p, q + k)) = q + k - q
    BY <2>1, RingSums, SMT DEF InRow
  <2>. QED  BY <2>1, <2>2, <2>3, Zenon DEF RowOf
<1>. QED  BY <1>1, <1>2, <1>3, <1>4, Zenon DEF InRow

(* The engine gives the first one back.                                      *)
LEMMA Take ==
  ASSUME NEW t, NEW u, NEW s, NEW p \in Position, NEW q \in 0 .. TxNum, InRow(t, u, p, q),
         Taken(s, t, p)
  PROVE  /\ q # 0 /\ q - 1 \in 0 .. TxNum /\ InRow(s, u, RingNext(TxNum, p), q - 1)
         /\ Shifted(s, t, p, q)
<1>. USE DEF Taken, Shifted
<1>1. 0 \in 0 .. TxNum - 1 /\ RingAt(TxNum, p, 0) = p
  BY RingFacts, SMT
<1>2. 0 < q
  BY <1>1, Zenon DEF InRow
<1>3. q # 0 /\ q - 1 \in 0 .. TxNum - 1 /\ q - 1 \in 0 .. TxNum /\ (q - 1) + 1 = q
  BY <1>2, SMT
<1>4. u = RingAt(TxNum, RingNext(TxNum, p), q - 1)
  <2>1. RingAt(TxNum, RingNext(TxNum, p), q - 1) = RingAt(TxNum, p, (q - 1) + 1)
    BY <1>3, RingFacts
  <2>. QED  BY <1>3, <2>1 DEF InRow
<1>5. ASSUME NEW k \in 0 .. TxNum - 1
      PROVE  s[RingAt(TxNum, RingNext(TxNum, p), k)] # Free <=> k < q - 1
  <2>1. RingAt(TxNum, RingNext(TxNum, p), k) = RingAt(TxNum, p, k + 1)
    BY RingFacts
  <2>2. CASE k + 1 = TxNum
    <3>1. RingAt(TxNum, p, k + 1) = p
      BY <2>2, RingFacts
    <3>2. ~(k < q - 1)
      BY <2>2, SMT
    <3>. QED  BY <2>1, <3>1, <3>2, Zenon
  <2>3. CASE k + 1 # TxNum
    <3>1. k + 1 \in 0 .. TxNum - 1 /\ k + 1 \in 1 .. TxNum - 1 /\ k + 1 \in 0 .. TxNum
      BY <2>3, SMT
    <3>2. RingAt(TxNum, p, k + 1) \in Position \ {p}
      BY <3>1, RingFacts, Zenon
    <3>3. s[RingAt(TxNum, p, k + 1)] # Free <=> k + 1 < q
      BY <3>1, <3>2, Zenon DEF InRow
    <3>4. k + 1 < q <=> k < q - 1
      BY SMT
    <3>. QED  BY <2>1, <3>3, <3>4, Zenon
  <2>. QED  BY <2>2, <2>3
<1>6. ASSUME NEW k \in 0 .. q - 2
      PROVE  RowOf(s, RingNext(TxNum, p))[k] = RowOf(t, p)[k + 1]
  <2>1. /\ k \in 0 .. TxNum - 1 /\ k + 1 \in 0 .. TxNum - 1 /\ k + 1 \in 1 .. TxNum - 1
        /\ k + 1 \in 0 .. TxNum
    BY SMT
  <2>2. RingAt(TxNum, RingNext(TxNum, p), k) = RingAt(TxNum, p, k + 1)
    BY <2>1, RingFacts
  <2>3. RingAt(TxNum, p, k + 1) \in Position \ {p}
    BY <2>1, RingFacts, Zenon
  <2>. QED  BY <2>1, <2>2, <2>3, Zenon DEF RowOf
<1>. QED  BY <1>3, <1>4, <1>5, <1>6, Zenon DEF InRow

LEMMA FirstFree ==
  ASSUME NEW t, NEW u, NEW p \in Position, NEW q \in 0 .. TxNum, InRow(t, u, p, q),
         t[p] = Free
  PROVE  q = 0
<1>1. 0 \in 0 .. TxNum - 1 /\ RingAt(TxNum, p, 0) = p
  BY RingFacts, SMT
<1>2. ~(0 < q)
  BY <1>1, Zenon DEF InRow
<1>. QED  BY <1>2, SMT

(* A step that leaves the ring, the engine and what was sent.                *)
LEMMA OrderlyKept ==
  ASSUME NEW p \in Position, NEW q \in 0 .. TxNum, Orderly(p, q),
         UNCHANGED <<tx, frames, sent, line, ppc>>
  PROVE  Orderly(p, q)'
BY Zenon DEF Orderly

(* What a row of no descriptor has to satisfy.                               *)
LEMMA NoFrames ==
  ASSUME NEW c, NEW e, NEW fr, NEW s, NEW q, InOrder(s, c, fr, q)
  PROVE  WholeFrames(e, fr, 0) /\ InOrder(s, e, fr, 0) /\ Continued(Free, e[0], 0)
<1>1. ~(0 > 0) /\ 0 .. 0 - 1 = {} /\ 0 .. 0 - 2 = {}
  BY SMT
<1>. QED  BY <1>1, Zenon DEF WholeFrames, InOrder, Continued

LEMMA SettledStep ==
  ASSUME IInv, [Next]_vars
  PROVE  RingSettled'
<1>. SUFFICES ASSUME ~stale'
              PROVE  \E p \in Position, q \in 0 .. TxNum : Row(p, q)'
  BY Zenon DEF RingSettled
<1>. USE DEF IInv, TypeOK, Goto
<1>1. ~stale
  BY Zenon DEF Next, WriterStep, WriteCall, WriteDown, WriteClock, WriteFrame, Probe, SetBase,
     Go, WriteUp, PurgeStop, PurgeClear, PurgeBase, EngineTake, EngineStop, ClockChange, vars,
     ghosts
<1>2. PICK p \in Position, q \in 0 .. TxNum : Row(p, q)
  BY <1>1, Zenon DEF RingSettled
<1>18. Settled(p, q) /\ Fits(q)
  BY <1>2 DEF Row
<1>19. dropped' \/ Orderly(p, q)
  BY <1>2, Zenon DEF Row, Next, WriterStep, WriteCall, WriteDown, WriteClock, WriteFrame,
     Probe, SetBase, Go, WriteUp, PurgeStop, PurgeClear, PurgeBase, EngineTake, EngineStop,
     ClockChange, vars, ghosts
<1>3. 0 \in Position /\ 0 \in 0 .. TxNum
  BY SMT
<1>4. ASSUME NEW w \in Writers, NEW l, l \notin {"probe", "base", "go"}, Goto(w, l),
             UNCHANGED <<ring, start_desc, ppc, engine>>
      PROVE  Settled(p, q)'
  BY <1>18, <1>4, Zenon DEF Settled, ring, engine
<1>5. ASSUME NEW w \in Writers, WriteDown(w) \/ WriteClock(w) \/ WriteUp(w)
      PROVE  Row(p, q)'
  <2>1. UNCHANGED <<ring, start_desc, ppc, engine, need, frames, sent>>
    BY <1>5, Zenon DEF WriteDown, WriteClock, WriteUp, ghosts
  <2>2. Goto(w, "clock") \/ Goto(w, "write") \/ Goto(w, "idle")
    BY <1>5, Zenon DEF WriteDown, WriteClock, WriteUp
  <2>3. Settled(p, q)'
    BY <1>4, <2>1, <2>2, Zenon
  <2>4. pc'[w] \in {"clock", "write"} => need[w] <= TxNum - q
    <3>1. FreeRun = TxNum - q
      BY <1>18, FreeRunFact, Zenon DEF Settled
    <3>. QED  BY <1>5, <1>18, <3>1, Zenon DEF WriteDown, WriteClock, WriteUp, Fits
  <2>5. \A v \in Writers \ {w} : pc'[v] = pc[v]
    BY <2>2, Zenon
  <2>6. Fits(q)'
    BY <1>18, <2>1, <2>4, <2>5, Zenon DEF Fits
  <2>7. dropped' \/ Orderly(p, q)'
    BY <1>19, <2>1, OrderlyKept, Zenon DEF ring, engine
  <2>. QED  BY <2>3, <2>6, <2>7, Zenon DEF Row
<1>6. ASSUME NEW w \in Writers, NEW n, WriteCall(w, n)
      PROVE  Row(p, q)'
  <2>1. Settled(p, q)'
    BY <1>4, <1>6, Zenon DEF WriteCall
  <2>2. Fits(q)'
    BY <1>6, <1>18, Zenon DEF WriteCall, Fits
  <2>3. dropped' \/ Orderly(p, q)'
    BY <1>6, <1>19, OrderlyKept, Zenon DEF WriteCall, ring, engine
  <2>. QED  BY <2>1, <2>2, <2>3, Zenon DEF Row
<1>7. ASSUME NEW w \in Writers, WriteFrame(w)
      PROVE  \E r \in 0 .. TxNum : Row(p, r)'
  <2>. DEFINE n == IF need[w] <= FreeRun THEN need[w] ELSE FreeRun
              f == Len(frames) + 1
  <2>1. f \in Nat \ {0}
    BY SMT
  <2>2. n = need[w] /\ n \in 0 .. TxNum - q /\ n \in Nat \ {0}
    <3>1. FreeRun = TxNum - q
      BY <1>18, FreeRunFact, Zenon DEF Settled
    <3>2. need[w] \in 1 .. TxNum /\ need[w] <= TxNum - q
      BY <1>18, <1>7, Zenon DEF Fits, NeedOK, WriteFrame
    <3>. QED  BY <3>1, <3>2, SMT
  <2>. HIDE DEF n, f
  <2>3. PICK m \in 0 .. TxNum - q, g \in Nat \ {0} : m = n /\ g = f
    BY <2>1, <2>2
  <2>4. /\ tx' = [i \in Position |->
                    IF RingOffset(TxNum, user_tx_desc, i) < n
                      THEN Part(f, RingOffset(TxNum, user_tx_desc, i) + 1) ELSE tx[i]]
        /\ user_tx_desc' = RingAt(TxNum, user_tx_desc, n)
        /\ start_desc' = [start_desc EXCEPT ![w] = user_tx_desc]
        /\ ppc = "idle" /\ UNCHANGED <<ppc, engine, need, sent>>
        /\ pc[w] = "write" /\ Goto(w, "probe")
    BY <1>7, Zenon DEF WriteFrame, n, f
  <2>5. /\ q + m \in 0 .. TxNum /\ InRow(tx', user_tx_desc', p, q + m)
        /\ \A k \in 0 .. q - 1 : RowOf(tx', p)[k] = RowOf(tx, p)[k]
        /\ \A k \in 0 .. m - 1 : RowOf(tx', p)[q + k] = Part(g, k + 1)
    <3>1. Filled(tx', tx, user_tx_desc, m, g)
      BY <2>4, <2>3, Zenon DEF Filled
    <3>2. InRow(tx, user_tx_desc, p, q)
      BY <1>18 DEF Settled
    <3>3. /\ q + m \in 0 .. TxNum /\ InRow(tx', RingAt(TxNum, user_tx_desc, m), p, q + m)
          /\ Grown(tx', tx, p, q, m, g)
      BY <3>1, <3>2, Fill, Zenon
    <3>. QED  BY <2>4, <2>3, <3>3, Zenon DEF Grown
  <2>6. \A v \in Writers \ {w} : pc'[v] \notin Holding
    BY <2>4, Zenon DEF OneWriter, Holding
  <2>7. ~running => start_desc'[w] = p
    <3>. SUFFICES ASSUME ~running PROVE user_tx_desc = p
      BY <2>4, Zenon
    <3>1. \A v \in Writers : pc[v] \notin {"probe", "base", "go"}
      BY <2>4, Zenon DEF OneWriter, Holding
    <3>2. \A i \in Position : tx[i] = Free
      BY <1>1, <2>4, <3>1, Zenon DEF NothingStranded
    <3>3. q = 0
      BY <1>18, <3>2, FirstFree, Zenon DEF Settled
    <3>. QED  BY <1>18, <3>3, EmptyFact, Zenon DEF Settled
  <2>8. Settled(p, q + m)'
    BY <1>18, <2>4, <2>5, <2>6, <2>7, Zenon DEF Settled, Holding, engine
  <2>9. frames' = Append(frames, m)
    BY <1>7, <2>2, <2>3, Zenon DEF WriteFrame
  <2>10. \A k \in 0 .. m - 1 : /\ RowOf(tx', p)[q + k].frame = Len(frames) + 1
                             /\ RowOf(tx', p)[q + k].part = k + 1
    <3>. SUFFICES ASSUME NEW k \in 0 .. m - 1
                  PROVE  Part(g, k + 1).frame = g /\ Part(g, k + 1).part = k + 1
      BY <2>5, <2>3 DEF f
    <3>1. k + 1 \in Nat /\ g \in Nat
      BY SMT
    <3>. QED  BY <3>1, PartFacts
  <2>11. ASSUME Orderly(p, q)
         PROVE  /\ WholeFrames(RowOf(tx', p), frames', q + m)
                /\ InOrder(sent', RowOf(tx', p), frames', q + m)
    <3>1. WholeFrames(RowOf(tx, p), frames, q) /\ InOrder(sent, RowOf(tx, p), frames, q)
      BY <2>11 DEF Orderly
    <3>2. q \in Nat /\ sent' = sent
      BY <2>4, SMT
    <3>. QED  BY <2>2, <2>5, <2>9, <2>10, <2>3, <3>1, <3>2, FramesFill
  <2>12. ASSUME Orderly(p, q) PROVE Continued(line, RowOf(tx', p)[0], q + m)
    <3>1. Continued(line, RowOf(tx, p)[0], q)
      BY <2>4, <2>12, Zenon DEF Orderly
    <3>2. CASE q = 0
      <4>1. line = Free
        BY <3>1, <3>2, SMT DEF Continued
      <4>2. 0 \in 0 .. m - 1 /\ q + 0 = 0 /\ 0 + 1 = 1
        BY <2>2, <2>3, <3>2, SMT
      <4>3. RowOf(tx', p)[0].part = 1
        BY <2>10, <4>2, Zenon
      <4>. QED  BY <4>1, <4>3, Zenon DEF Continued
    <3>3. CASE q > 0
      <4>1. 0 \in 0 .. q - 1 /\ q # 0 /\ q + m > 0
        BY <2>2, <2>3, <3>3, SMT
      <4>. QED  BY <2>5, <3>1, <3>3, <4>1, Zenon DEF Continued
    <3>. QED  BY <3>2, <3>3, SMT
  <2>13. Fits(q + m)'
    BY <2>4, <2>6, Zenon DEF Fits, Holding
  <2>14. ASSUME Orderly(p, q) PROVE Orderly(p, q + m)'
    <3>1. line' = line /\ ppc' # "clear"
      BY <2>4, Zenon DEF engine
    <3>. QED  BY <2>11, <2>12, <2>14, <3>1, Zenon DEF Orderly
  <2>. QED  BY <1>19, <2>5, <2>8, <2>13, <2>14, Zenon DEF Row
<1>8. ASSUME NEW w \in Writers, Probe(w) \/ SetBase(w) \/ Go(w)
       PROVE  Fits(q)' /\ (dropped' \/ Orderly(p, q)')
  <2>1. UNCHANGED <<tx, frames, sent, line, ppc, need>> /\ pc'[w] \notin {"clock", "write"}
    BY <1>8, Zenon DEF Probe, SetBase, Go, ring, engine, ghosts
  <2>2. Fits(q)'
    BY <1>8, <1>18, <2>1, Zenon DEF Probe, SetBase, Go, Fits
  <2>3. dropped' \/ Orderly(p, q)'
    BY <1>19, <2>1, OrderlyKept, Zenon
  <2>. QED  BY <2>2, <2>3
<1>9. ASSUME NEW w \in Writers, Probe(w)
      PROVE  Settled(p, q)'
  BY <1>18, <1>9, Zenon DEF Probe, Settled, TxRunning, ring, engine
<1>10. ASSUME NEW w \in Writers, SetBase(w)
      PROVE  Settled(p, q)'
  <2>1. \A v \in Writers \ {w} : pc'[v] # "go"
    BY <1>10, Zenon DEF SetBase, OneWriter, Holding
  <2>. QED  BY <1>18, <1>10, <2>1, Zenon DEF SetBase, Settled, ring
<1>11. ASSUME NEW w \in Writers, Go(w)
       PROVE  Settled(p, q)'
  <2>1. ppc = "idle" /\ tx[dtdb].frame = mine[w] /\ mine[w] # 0 /\ ~running
    BY <1>11, Zenon DEF Go, StartOK
  <2>2. q # 0
    <3>. SUFFICES ASSUME q = 0 PROVE FALSE
      OBVIOUS
    <3>1. InRow(tx, user_tx_desc, p, 0)
      BY <1>18 DEF Settled
    <3>2. tx[dtdb] = Free
      BY <3>1, EmptyFact, Zenon
    <3>3. Free.frame = 0
      BY PartFacts DEF Free
    <3>. QED  BY <2>1, <3>2, <3>3, Zenon
  <2>3. dtdb = p
    BY <1>18, <1>11, <2>1, <2>2, Zenon DEF Go, Settled
  <2>4. \A v \in Writers : pc'[v] # "go"
    BY <1>11, Zenon DEF Go, OneWriter, Holding
  <2>. QED  BY <1>18, <1>11, <2>1, <2>3, <2>4, Zenon DEF Go, Settled, ring
<1>12. CASE PurgeStop
  <2>1. Settled(p, q)'
    BY <1>18, <1>12, Zenon DEF PurgeStop, Settled, ring, callers
  <2>2. Fits(q)'
    BY <1>18, <1>12, Zenon DEF PurgeStop, Fits, callers
  <2>3. ASSUME ~dropped' PROVE line' = Free
    BY <1>12, <2>3, Zenon DEF PurgeStop
  <2>4. dropped' \/ Orderly(p, q)'
    BY <1>19, <1>12, <2>3, Zenon DEF PurgeStop, Orderly, ring
  <2>. QED  BY <2>1, <2>2, <2>4, Zenon DEF Row
<1>13. CASE PurgeClear
  <2>1. \A i \in Position : tx'[i] = Free
    BY <1>13, Zenon DEF PurgeClear
  <2>2. InRow(tx', user_tx_desc', 0, 0)
    BY <1>3, <1>13, <2>1, AllFree, Zenon DEF PurgeClear
  <2>3. ~running' /\ ppc' = "base"
    BY <1>18, <1>13, Zenon DEF PurgeClear, Settled, engine
  <2>4. Settled(0, 0)'
    BY <2>2, <2>3, Zenon DEF Settled
  <2>5. UNCHANGED <<frames, sent, line, callers>>
    BY <1>13, Zenon DEF PurgeClear, engine
  <2>6. Fits(0)'
    <3>1. \A m \in 1 .. TxNum : m <= TxNum - 0
      BY SMT
    <3>. QED  BY <2>5, <3>1, Zenon DEF NeedOK, Fits, callers
  <2>7. ASSUME Orderly(p, q) PROVE Orderly(0, 0)'
    <3>1. line' = Free
      BY <1>13, <2>5, <2>7, Zenon DEF PurgeClear, Orderly
    <3>. QED  BY <2>3, <2>5, <2>7, <3>1, NoFrames, Zenon DEF Orderly
  <2>. QED  BY <1>3, <1>19, <2>4, <2>6, <2>7, Zenon DEF Row
<1>14. CASE PurgeBase
  <2>1. Settled(p, q)'
    BY <1>18, <1>14, Zenon DEF PurgeBase, Settled, ring, callers
  <2>2. Fits(q)'
    BY <1>18, <1>14, Zenon DEF PurgeBase, Fits, callers
  <2>3. dropped' \/ Orderly(p, q)'
    <3>1. UNCHANGED <<tx, frames, sent, line>> /\ ppc # "clear" /\ ppc' # "clear"
      BY <1>14, Zenon DEF PurgeBase, ring, ghosts
    <3>. QED  BY <1>19, <3>1, Zenon DEF Orderly
  <2>. QED  BY <2>1, <2>2, <2>3, Zenon DEF Row
<1>15. CASE EngineTake
  <2>1. running /\ cur = p /\ tx[p] # Free /\ ppc # "clear"
    BY <1>18, <1>15, Zenon DEF EngineTake, Settled
  <2>2. /\ tx'[p] = Free /\ \A i \in Position \ {p} : tx'[i] = tx[i]
        /\ cur' = RingNext(TxNum, p)
        /\ UNCHANGED <<user_tx_desc, callers, ppc, running, dtdb, frames>>
    BY <1>15, <2>1, Zenon DEF EngineTake
  <2>3. /\ q # 0 /\ q - 1 \in 0 .. TxNum
        /\ InRow(tx', user_tx_desc', RingNext(TxNum, p), q - 1)
        /\ \A k \in 0 .. q - 2 : RowOf(tx', RingNext(TxNum, p))[k] = RowOf(tx, p)[k + 1]
    <3>1. InRow(tx, user_tx_desc, p, q) /\ user_tx_desc' = user_tx_desc
      BY <1>18, <2>2 DEF Settled
    <3>2. Taken(tx', tx, p)
      BY <2>1, <2>2 DEF Taken
    <3>3. /\ q # 0 /\ q - 1 \in 0 .. TxNum
          /\ InRow(tx', user_tx_desc, RingNext(TxNum, p), q - 1)
          /\ Shifted(tx', tx, p, q)
      BY <3>1, <3>2, Take, Zenon
    <3>. QED  BY <3>1, <3>3, Zenon DEF Shifted
  <2>4. RingNext(TxNum, p) \in Position
    BY RingFacts
  <2>5. Settled(RingNext(TxNum, p), q - 1)'
    BY <1>18, <2>1, <2>2, <2>3, Zenon DEF Settled, callers
  <2>6. Fits(q - 1)'
    <3>1. \A m \in Nat : m <= TxNum - q => m <= TxNum - (q - 1)
      BY SMT
    <3>. QED  BY <1>18, <2>2, <3>1, Zenon DEF Fits, callers
  <2>7. ASSUME Orderly(p, q) PROVE Orderly(RingNext(TxNum, p), q - 1)'
    <3>. DEFINE d == RowOf(tx, p)[0]
    <3>1. d = tx[p] /\ d \in Descriptor /\ d # Free
      <4>1. 0 \in 0 .. TxNum - 1 /\ RingAt(TxNum, p, 0) = p
        BY RingFacts, SMT
      <4>. QED  BY <2>1, <4>1, Zenon DEF RowOf
    <3>2. Continued(line, d, q)
      BY <2>1, <2>7, Zenon DEF Orderly
    <3>3. d.frame \in Nat /\ line.frame \in Nat /\ line.part + 1 \in Nat /\ 1 \in Nat
      BY <3>1, SMT DEF Descriptor
    <3>4. d = IF line = Free THEN Part(d.frame, 1) ELSE Part(line.frame, line.part + 1)
      <4>1. \A x \in Descriptor :
              /\ x = Part(d.frame, 1) <=> x.frame = d.frame /\ x.part = 1
              /\ x = Part(line.frame, line.part + 1)
                   <=> x.frame = line.frame /\ x.part = line.part + 1
        <5>. HIDE DEF d
        <5>. QED  BY <3>3, PartFacts
      <4>2. CASE line = Free
        BY <2>3, <3>1, <3>2, <4>1, <4>2, Zenon DEF Continued
      <4>3. CASE line # Free
        BY <3>1, <3>2, <4>1, <4>3, Zenon DEF Continued
      <4>. QED  BY <4>2, <4>3
    <3>5. IF d.part = frames[d.frame] THEN line' = Free /\ sent' = Append(sent, d.frame)
                                     ELSE line' = d /\ sent' = sent
      <4>. HIDE DEF d
      <4>. QED  BY <1>15, <2>1, <3>1, <3>4, Zenon DEF EngineTake
    <3>6. sent' \in Seq(Nat)
      BY TypeStep, Zenon
    <3>7. /\ WholeFrames(RowOf(tx', RingNext(TxNum, p)), frames, q - 1)
          /\ InOrder(sent', RowOf(tx', RingNext(TxNum, p)), frames, q - 1)
          /\ Continued(line', RowOf(tx', RingNext(TxNum, p))[0], q - 1)
      <4>1. WholeFrames(RowOf(tx, p), frames, q) /\ InOrder(sent, RowOf(tx, p), frames, q)
        BY <2>7 DEF Orderly
      <4>2. q \in Nat \ {0}
        BY <2>3, SMT
      <4>. QED  BY <2>3, <3>1, <3>5, <3>6, <4>1, <4>2, FramesTake
    <3>. QED  BY <2>1, <2>2, <3>7, Zenon DEF Orderly
  <2>. QED  BY <1>19, <2>3, <2>4, <2>5, <2>6, <2>7, Zenon DEF Row
<1>16. CASE EngineStop
  <2>1. q = 0
    BY <1>18, <1>16, FirstFree, Zenon DEF EngineStop, Settled
  <2>2. Settled(p, q)'
    BY <1>18, <1>16, <2>1, Zenon DEF EngineStop, Settled, ring, callers
  <2>3. Fits(q)'
    BY <1>18, <1>16, Zenon DEF EngineStop, Fits, callers
  <2>4. dropped' \/ Orderly(p, q)'
    BY <1>19, <1>16, OrderlyKept, Zenon DEF EngineStop, ring, ghosts
  <2>. QED  BY <2>2, <2>3, <2>4, Zenon DEF Row
<1>17. CASE ClockChange \/ UNCHANGED vars
  <2>1. UNCHANGED <<ring, callers, ppc, engine, frames, sent>>
    BY <1>17, Zenon DEF ClockChange, vars, ghosts
  <2>2. Settled(p, q)' /\ Fits(q)'
    BY <1>18, <2>1, Zenon DEF Settled, Fits, ring, callers, engine
  <2>3. dropped' \/ Orderly(p, q)'
    BY <1>19, <2>1, OrderlyKept, Zenon DEF ring, engine
  <2>. QED  BY <2>2, <2>3, Zenon DEF Row
<1>20. ASSUME NEW w \in Writers, Probe(w) \/ SetBase(w) \/ Go(w)
       PROVE  Row(p, q)'
  BY <1>8, <1>9, <1>10, <1>11, <1>20, Zenon DEF Row
<1>. QED
  BY <1>2, <1>5, <1>6, <1>7, <1>12, <1>13, <1>14, <1>15, <1>16, <1>17, <1>20,
     Zenon DEF Next, WriterStep

LEMMA StrandedStep ==
  ASSUME IInv, [Next]_vars
  PROVE  NothingStranded'
<1>. USE DEF IInv, TypeOK, NothingStranded, Goto
<1>1. ASSUME NEW w \in Writers, WriteFrame(w)
      PROVE  NothingStranded'
  BY <1>1, Zenon DEF WriteFrame
<1>2. ASSUME NEW w \in Writers, Probe(w)
      PROVE  NothingStranded'
  BY <1>2, Zenon DEF Probe, TxRunning, engine
<1>3. ASSUME NEW w \in Writers, SetBase(w) \/ Go(w)
      PROVE  NothingStranded'
  BY <1>3, Zenon DEF SetBase, Go
<1>4. ASSUME NEW w \in Writers, NEW l, pc[w] \notin {"probe", "base", "go"}, Goto(w, l),
             UNCHANGED <<tx, ppc, running, stale>>
      PROVE  NothingStranded'
  BY <1>4, Zenon
<1>5. ASSUME NEW w \in Writers, WriteDown(w) \/ WriteClock(w) \/ WriteUp(w)
      PROVE  NothingStranded'
  <2>1. pc[w] \notin {"probe", "base", "go"} /\ UNCHANGED <<tx, ppc, running, stale>>
    BY <1>5, Zenon DEF WriteDown, WriteClock, WriteUp, ring, engine, ghosts
  <2>2. \E l : Goto(w, l)
    BY <1>5, Zenon DEF WriteDown, WriteClock, WriteUp
  <2>. QED  BY <1>4, <2>1, <2>2, Zenon
<1>6. ASSUME NEW w \in Writers, NEW n, WriteCall(w, n)
      PROVE  NothingStranded'
  BY <1>4, <1>6, Zenon DEF WriteCall, ring, engine
<1>7. CASE PurgeStop \/ PurgeClear \/ PurgeBase
  BY <1>7, Zenon DEF PurgeStop, PurgeClear, PurgeBase, ring, callers, engine, ghosts
<1>8. CASE EngineTake
  BY <1>8, Zenon DEF EngineTake
<1>9. CASE EngineStop
  <2>1. CASE stale
    BY <1>9, <2>1, Zenon DEF EngineStop, ghosts
  <2>2. CASE ~stale
    <3>1. PICK p \in Position, q \in 0 .. TxNum : Settled(p, q)
      BY <2>2, Zenon DEF RingSettled, Row
    <3>2. q = 0
      BY <1>9, <3>1, FirstFree, Zenon DEF EngineStop, Settled
    <3>3. \A i \in Position : tx[i] = Free
      BY <3>1, <3>2, EmptyFact, Zenon DEF Settled
    <3>. QED  BY <1>9, <3>3, Zenon DEF EngineStop, ring
  <2>. QED  BY <2>1, <2>2
<1>10. CASE ClockChange \/ UNCHANGED vars
  BY <1>10, Zenon DEF ClockChange, vars, ring, callers, engine, ghosts
<1>. QED
  BY <1>1, <1>2, <1>3, <1>5, <1>6, <1>7, <1>8, <1>9, <1>10, Zenon DEF Next, WriterStep

-----------------------------------------------------------------------------
(* The theorems *)

LEMMA Invariance == Spec => []IInv
<1>1. IInv /\ [Next]_vars => IInv'
  BY TypeStep, OneWriterStep, StartStep, NeedStep, SettledStep, StrandedStep, Zenon DEF IInv
<1>. QED  BY InitHolds, <1>1, PTL DEF Spec

(* DMA types: every variable of the DMA path keeps its type, also when the    *)
(* engine was started for a frame that had left.                              *)
THEOREM DmaTypeCorrect == Spec => []TypeOK
<1>1. IInv => TypeOK
  BY DEF IInv
<1>. QED  BY <1>1, Invariance, PTL

(* The test of DSTAR outside the spinlock: whatever the ring, the frames and  *)
(* the purges, an engine that stands still has nothing behind it, up to a     *)
(* start for a frame that has left.                                           *)
THEOREM NoFrameStranded == Spec => []NothingStranded
<1>1. IInv => NothingStranded
  BY DEF IInv
<1>. QED  BY <1>1, Invariance, PTL

(* Frames leave whole, once and in the order of the writes, whatever the ring,*)
(* the frames, the purges and the clock, up to a start for a frame that has   *)
(* left and to a purge whose reset of the card, in the middle of a frame, was *)
(* dropped for want of a clock.                                               *)
THEOREM LeaveInOrder == Spec => []SentInOrder
<1>1. IInv => SentInOrder
  <2>. SUFFICES ASSUME IInv, ~stale, ~dropped, NEW i \in 1 .. Len(sent)
                PROVE  sent[i] # 0 /\ \A j \in 1 .. i - 1 : sent[j] < sent[i]
    BY Zenon DEF SentInOrder
  <2>1. sent[i] \in 1 .. Len(frames) /\ \A j \in 1 .. i - 1 : sent[j] < sent[i]
    BY Zenon DEF IInv, RingSettled, Row, Orderly, InOrder
  <2>2. sent[i] # 0
    BY <2>1, SMT
  <2>. QED  BY <2>1, <2>2
<1>. QED  BY <1>1, Invariance, PTL

==============================================================================
