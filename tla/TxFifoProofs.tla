----------------------------- MODULE TxFifoProofs -----------------------------
EXTENDS TxFifo, TLAPS

USE DEF Position

-------------------------------------------------------------------------------
(* Arithmetic of sizes. *)

LEMMA Multiples ==
  ASSUME NEW a \in Nat, NEW b \in Nat, NEW t \in Nat, a <= b
  PROVE  a * t <= b * t
<1>1. PICK d \in Nat : b = a + d
  BY b = a + (b - a), b - a \in Nat
<1>2. b * t = a * t + d * t
  BY <1>1, SMT
<1>3. a * t \in Nat /\ d * t \in Nat /\ b * t \in Nat
  BY SMT
<1>. QED  BY <1>2, <1>3, SMT

LEMMA DescsFact ==
  ASSUME NEW c \in Nat \ {0}
  PROVE  /\ Descs(c) \in Nat \ {0}
         /\ c <= TxSize * Descs(c)
         /\ TxSize * Descs(c) < c + TxSize
  BY TxSizeAssumption, SMT DEF Descs

LEMMA DescsLeast ==
  ASSUME NEW c \in Nat \ {0}, NEW q \in Nat, c <= TxSize * q
  PROVE  Descs(c) <= q
<1>. SUFFICES ASSUME q + 1 <= Descs(c) PROVE FALSE
  BY DescsFact, SMT
<1>1. q + 1 \in Nat /\ Descs(c) \in Nat /\ TxSize \in Nat
  BY DescsFact, TxSizeAssumption, SMT
<1>2. (q + 1) * TxSize <= Descs(c) * TxSize
  BY <1>1, Multiples, Zenon
<1>. QED  BY <1>1, <1>2, DescsFact, TxSizeAssumption, SMT

LEMMA PartOfFrame ==
  ASSUME NEW c \in Nat \ {0}, NEW i \in Nat, i < Descs(c)
  PROVE  i * TxSize < c
<1>1. i + 1 \in Nat /\ Descs(c) \in Nat /\ TxSize \in Nat /\ i + 1 <= Descs(c)
  BY DescsFact, TxSizeAssumption, SMT
<1>2. (i + 1) * TxSize <= Descs(c) * TxSize
  BY <1>1, Multiples, Zenon
<1>. QED  BY <1>1, <1>2, DescsFact, TxSizeAssumption, SMT

LEMMA FifoSizes ==
  ASSUME NEW n \in Nat
  PROVE  /\ WordBytes(n) \in Nat /\ SizeInFifo(n) \in Nat
         /\ WordBytes(n) <= SizeInFifo(n)
  BY SMT DEF WordBytes, SizeInFifo

-------------------------------------------------------------------------------
(* The ring. *)

(* q descriptors from fifo_tx_desc on are in use. *)
InUse(q) ==
  /\ user_tx_desc = RingAt(TxNum, fifo_tx_desc, q)
  /\ \A k \in 0 .. TxNum - 1 :
       ~tx[RingAt(TxNum, fifo_tx_desc, k)].cstop <=> k < q

IsFreeRun(q) ==
  /\ \A k \in 0 .. q - 1 : tx[RingAt(TxNum, user_tx_desc, k)].cstop
  /\ q < TxNum => ~tx[RingAt(TxNum, user_tx_desc, q)].cstop

LEMMA FreeRunFact ==
  ASSUME TypeOK, NEW q \in 0 .. TxNum, InUse(q)
  PROVE  FreeRun \in 0 .. TxNum /\ IsFreeRun(FreeRun) /\ FreeRun <= TxNum - q
<1>1. TxNum - q \in 0 .. TxNum /\ IsFreeRun(TxNum - q)
  <2>1. ASSUME NEW k \in 0 .. TxNum - q - 1
        PROVE  tx[RingAt(TxNum, user_tx_desc, k)].cstop
    <3>1. k + q \in 0 .. TxNum - 1 /\ ~(k + q < q)
      BY TxNumAssumption, SMT
    <3>2. RingAt(TxNum, user_tx_desc, k) = RingAt(TxNum, fifo_tx_desc, k + q)
      BY TxNumAssumption, SMT DEF TypeOK, RingType, InUse, RingAt
    <3>. QED  BY <3>1, <3>2, SMT DEF InUse
  <2>2. ASSUME TxNum - q < TxNum
        PROVE  ~tx[RingAt(TxNum, user_tx_desc, TxNum - q)].cstop
    <3>1. 0 \in 0 .. TxNum - 1 /\ 0 < q
      BY <2>2, TxNumAssumption, SMT
    <3>2. RingAt(TxNum, user_tx_desc, TxNum - q) = RingAt(TxNum, fifo_tx_desc, 0)
      BY <2>2, TxNumAssumption, SMT DEF TypeOK, RingType, InUse, RingAt
    <3>. QED  BY <3>1, <3>2, SMT DEF InUse
  <2>. QED  BY <2>1, <2>2, TxNumAssumption, SMT DEF IsFreeRun
<1>2. FreeRun \in 0 .. TxNum /\ IsFreeRun(FreeRun)
  BY <1>1, Zenon DEF FreeRun, IsFreeRun
<1>3. FreeRun <= TxNum - q
  <2>. SUFFICES ASSUME FreeRun > TxNum - q PROVE FALSE
    BY <1>2, TxNumAssumption, SMT
  <2>1. TxNum - q \in 0 .. FreeRun - 1 /\ TxNum - q < TxNum
    BY <1>2, TxNumAssumption, SMT
  <2>. QED  BY <1>1, <1>2, <2>1, SMT DEF IsFreeRun
<1>. QED  BY <1>2, <1>3

-------------------------------------------------------------------------------
(* The inductive invariant. *)

(* A call under way is for a frame that fits the ring. *)
CallFits ==
  \A w \in Writers :
    pc[w] # "idle" => count[w] \in Nat \ {0} /\ count[w] <= TxSize * TxNum

(* Nobody but one writer is between down and up of write_semaphore. *)
OneWriter ==
  /\ \A v, w \in Writers : pc[v] \in Holding /\ pc[w] \in Holding => v = w
  /\ write_sem = 1 => \A w \in Writers : pc[w] \notin Holding

(* The descriptors a writer counted stay free until it has filled them. *)
Room(c) == \A k \in 0 .. Descs(c) - 1 : tx[RingAt(TxNum, user_tx_desc, k)].cstop
RoomReserved == \A w \in Writers : pc[w] \in {"clock", "write"} => Room(count[w])

(* What the tasklet read of the card before it took the lock is at least as *)
(* cautious as what it would read now.                                       *)
ReadsCautious ==
  /\ opc \in {"lock", "copy"} => fifo_space \in Nat /\ txcnt + fifo_space < FifoSize
  /\ opc \in {"txcnt", "lock", "copy"} => Len(bc) <= MaxTfcnt

IInv ==
  /\ TypeOK /\ RingInUse
  /\ CallFits /\ OneWriter /\ RoomReserved /\ RefusedForSizeOnly
  /\ FifoNotOverrun /\ ByteCountsNotOverrun /\ ReadsCautious

LEMMA InitIInv == Init => IInv
<1>. SUFFICES ASSUME Init PROVE IInv
  OBVIOUS
<1>. USE TxNumAssumption, FifoSizeAssumption, MaxTfcntAssumption DEF Init
<1>1. TypeOK
  <2>1. RingType
    BY SMT DEF RingType, DescType, Empty
  <2>2. CallersType
    BY SMT DEF CallersType, Locations, Results
  <2>3. OframeType
    BY SMT DEF OframeType
  <2>4. CardType
    BY SMT DEF CardType, NoLine
  <2>5. GhostsType
    BY SMT DEF GhostsType
  <2>6. FlagsType
    BY Zenon DEF FlagsType
  <2>. QED  BY <2>1, <2>2, <2>3, <2>4, <2>5, <2>6 DEF TypeOK
<1>2. RingInUse
  <2>1. InUse(0) /\ 0 \in 0 .. TxNum
    BY SMT DEF InUse, RingAt, Empty
  <2>. QED  BY <2>1 DEF RingInUse, InUse
<1>3. CallFits /\ OneWriter /\ RoomReserved /\ RefusedForSizeOnly
  BY SMT DEF CallFits, OneWriter, Holding, RoomReserved, RefusedForSizeOnly
<1>4. FifoNotOverrun /\ ByteCountsNotOverrun /\ ReadsCautious
  BY SMT DEF FifoNotOverrun, ByteCountsNotOverrun, ReadsCautious
<1>. QED  BY <1>1, <1>2, <1>3, <1>4 DEF IInv

-------------------------------------------------------------------------------
(* Type correctness is preserved. *)

(* What the ring invariant tells a writer about the descriptors it fills.   *)
LEMMA FilledType ==
  ASSUME NEW c \in Nat \ {0}, NEW i \in Nat, i < Descs(c), NEW f \in Nat
  PROVE  Filled(c, i, f) \in DescType
<1>1. i * TxSize < c /\ i * TxSize \in Nat
  BY PartOfFrame, TxSizeAssumption, SMT
<1>2. PICK m \in Nat : m = i * TxSize
  BY <1>1
<1>3. c - m \in Nat /\ TxSize \in Nat
  BY <1>1, <1>2, TxSizeAssumption, SMT
<1>4. Filled(c, i, f) =
        LET n == IF c - m > TxSize THEN TxSize ELSE c - m
        IN [cstop |-> FALSE, fe |-> i = 0, cnt |-> IF i = 0 THEN c ELSE n,
            len |-> n, frame |-> f, off |-> m]
  BY <1>2 DEF Filled
<1>. QED  BY <1>3, <1>4, SMT DEF DescType

LEMMA RingTypeStep ==
  ASSUME IInv, [Next]_vars
  PROVE  RingType'
<1>. USE TxNumAssumption DEF IInv, TypeOK, RingType
<1>1. ASSUME NEW w \in Writers, WriteFrame(w)
      PROVE  RingType'
  <2>1. PICK q \in 0 .. TxNum : InUse(q)
    BY DEF RingInUse, InUse
  <2>2. FreeRun \in 0 .. TxNum
    BY <2>1, FreeRunFact
  <2>3. count[w] \in Nat \ {0} /\ Descs(count[w]) \in Nat
    BY <1>1, DescsFact, SMT DEF WriteFrame, CallFits
  <2>. DEFINE n == IF Descs(count[w]) <= FreeRun THEN Descs(count[w]) ELSE FreeRun
              f == Len(frames) + 1
              off(i) == RingOffset(TxNum, user_tx_desc, i)
  <2>4. n \in 0 .. TxNum /\ n <= Descs(count[w]) /\ f \in Nat
    BY <2>2, <2>3, SMT DEF GhostsType
  <2>5. user_tx_desc' \in Position /\ fifo_tx_desc' \in Position
    BY <1>1, <2>4, SMT DEF WriteFrame, RingAt
  <2>6. ASSUME NEW i \in Position
        PROVE  (IF off(i) < n THEN Filled(count[w], off(i), f) ELSE tx[i]) \in DescType
    <3>1. off(i) \in Nat
      BY SMT DEF RingOffset
    <3>2. CASE off(i) < n
      <4>1. off(i) < Descs(count[w])
        BY <2>3, <2>4, <3>1, <3>2, SMT
      <4>. QED  BY <2>3, <2>4, <3>1, <3>2, <4>1, FilledType
    <3>3. CASE ~(off(i) < n)
      BY <3>3
    <3>. QED  BY <3>2, <3>3
  <2>7. tx' \in [Position -> DescType]
    BY <1>1, <2>6, Zenon DEF WriteFrame
  <2>. QED  BY <2>5, <2>7
<1>2. CASE OframeCopy
  <2>1. Empty \in DescType
    BY SMT DEF Empty, DescType
  <2>. QED  BY <1>2, <2>1, SMT DEF OframeCopy, RingNext
<1>3. CASE PurgeTx
  <2>1. Empty \in DescType
    BY SMT DEF Empty, DescType
  <2>. QED  BY <1>3, <2>1, SMT DEF PurgeTx
<1>4. ASSUME ring' = ring PROVE RingType'
  BY <1>4 DEF ring
<1>. QED
  BY <1>1, <1>2, <1>3, <1>4
     DEF Next, WriterStep, OframeStep, vars, WriteCall, WriteSignal, WriteDown,
         WriteCheck, WriteWait, WriteClock, WriteNoMemory, WriteUp, WriteSchedule,
         OframeTfcnt, OframeTxcnt, OframeLock, OframeUnlock, OframeTransmit, Isr,
         HwSend, ClockChange

LEMMA CallersTypeStep ==
  ASSUME IInv, [Next]_vars
  PROVE  CallersType'
<1>. USE DEF IInv, TypeOK, CallersType, Locations, Results
<1>1. ASSUME NEW w \in Writers, NEW c \in Sizes, NEW nb \in NonblockFlags,
             WriteCall(w, c, nb)
      PROVE  CallersType'
  <2>1. c \in Nat /\ nb \in BOOLEAN
    BY SizesAssumption, NonblockAssumption
  <2>2. nonblock' \in [Writers -> BOOLEAN]
    BY <1>1, <2>1, Zenon DEF WriteCall
  <2>. QED  BY <1>1, <2>1, <2>2, SMT DEF WriteCall, Return, Goto
<1>2. ASSUME NEW w \in Writers, WriteSignal(w) \/ WriterStep(w)
      PROVE  CallersType'
  <2>. USE DEF Return, Goto
  <2>1. CASE WriteSignal(w)
    BY <2>1, SMT DEF WriteSignal
  <2>2. CASE WriteDown(w)
    BY <2>2, SMT DEF WriteDown
  <2>3. CASE WriteCheck(w)
    BY <2>3, SMT DEF WriteCheck
  <2>4. CASE WriteWait(w)
    BY <2>4, SMT DEF WriteWait
  <2>5. CASE WriteClock(w)
    BY <2>5, SMT DEF WriteClock
  <2>6. CASE WriteFrame(w)
    BY <2>6, SMT DEF WriteFrame
  <2>7. CASE WriteNoMemory(w)
    BY <2>7, SMT DEF WriteNoMemory
  <2>8. CASE WriteUp(w)
    BY <2>8, SMT DEF WriteUp
  <2>9. CASE WriteSchedule(w)
    BY <2>9, SMT DEF WriteSchedule
  <2>. QED
    BY <1>2, <2>1, <2>2, <2>3, <2>4, <2>5, <2>6, <2>7, <2>8, <2>9 DEF WriterStep
<1>3. CASE PurgeTx
  BY <1>3, SMT DEF PurgeTx
<1>4. ASSUME callers' = callers PROVE CallersType'
  BY <1>4 DEF callers
<1>. QED
  BY <1>1, <1>2, <1>3, <1>4
     DEF Next, OframeStep, vars, OframeTfcnt, OframeTxcnt, OframeLock, OframeCopy,
         OframeUnlock, OframeTransmit, Isr, HwSend, ClockChange

LEMMA OframeTypeStep ==
  ASSUME IInv, [Next]_vars
  PROVE  OframeType'
<1>. USE DEF IInv, TypeOK, OframeType
<1>1. CASE OframeStep
  <2>1. CASE OframeCopy
    <3>1. tx[fifo_tx_desc] \in DescType
      BY SMT DEF RingType
    <3>2. SizeInFifo(tx[fifo_tx_desc].len) \in Nat /\ tx[fifo_tx_desc].cnt \in Nat
      BY <3>1, FifoSizes, SMT DEF DescType
    <3>. QED  BY <2>1, <3>2, SMT DEF OframeCopy
  <2>2. CASE OframeTfcnt
    BY <2>2, SMT DEF OframeTfcnt, CardType
  <2>3. CASE OframeTxcnt
    BY <2>3, FifoSizeAssumption, SMT DEF OframeTxcnt, CardType
  <2>. QED
    BY <1>1, <2>1, <2>2, <2>3, SMT
       DEF OframeStep, OframeLock, OframeUnlock, OframeTransmit
<1>2. ASSUME UNCHANGED <<opc, tfcnt, fifo_space, frame_size, written>>
      PROVE  OframeType'
  BY <1>2
<1>. QED
  BY <1>1, <1>2
     DEF Next, WriterStep, vars, oframe, WriteCall, WriteSignal, WriteDown, WriteCheck,
         WriteWait, WriteClock, WriteFrame, WriteNoMemory, WriteUp, WriteSchedule,
         PurgeTx, Isr, HwSend, ClockChange

LEMMA CardTypeStep ==
  ASSUME IInv, [Next]_vars
  PROVE  CardType'
<1>. USE DEF IInv, TypeOK, CardType
<1>1. CASE OframeCopy
  <2>1. tx[fifo_tx_desc] \in DescType
    BY SMT DEF RingType
  <2>2. WordBytes(tx[fifo_tx_desc].len) \in Nat
    <3>1. tx[fifo_tx_desc].len \in Nat
      BY <2>1, SMT DEF DescType
    <3>. QED  BY <3>1, FifoSizes
  <2>3. Chunk(tx[fifo_tx_desc]) \in ChunkType
    BY <2>1, SMT DEF Chunk, DescType, ChunkType
  <2>. QED  BY <1>1, <2>2, <2>3, SMT DEF OframeCopy
<1>2. CASE OframeUnlock
  <2>1. bc' \in Seq(Nat)
    BY <1>2, SMT DEF OframeUnlock, OframeType
  <2>. QED  BY <1>2, <2>1 DEF OframeUnlock
<1>3. CASE PurgeTx
  <2>1. \/ fifo' = <<>> /\ txcnt' = 0 /\ bc' = <<>> /\ line' = NoLine
        \/ fifo' = fifo /\ txcnt' = txcnt /\ bc' = bc /\ line' = line
    BY <1>3, Zenon DEF PurgeTx
  <2>2. <<>> \in Seq(ChunkType) /\ <<>> \in Seq(Nat) /\ 0 \in Nat
        /\ NoLine \in [bytes : Nat, frames : SUBSET Nat]
    BY SMT DEF NoLine
  <2>. QED  BY <2>1, <2>2, Zenon
<1>4. ASSUME NEW trigger \in BOOLEAN, HwSend(trigger)
      PROVE  CardType'
  <2>1. Head(fifo) \in ChunkType /\ Tail(fifo) \in Seq(ChunkType)
    BY <1>4, SMT DEF HwSend
  <2>2. Head(bc) \in Nat /\ Tail(bc) \in Seq(Nat)
    BY <1>4, SMT DEF HwSend
  <2>3. Head(fifo).len \in Nat /\ Head(fifo).frame \in Nat
    BY <2>1, SMT DEF ChunkType
  <2>4. WordBytes(Head(fifo).len) \in Nat
    BY <2>3, FifoSizes
  <2>5. txcnt' \in Nat
    BY <1>4, <2>4, SMT DEF HwSend
  <2>6. line' \in [bytes : Nat, frames : SUBSET Nat]
    <3>1. line' = NoLine \/
          line' = [bytes |-> line.bytes + Head(fifo).len,
                   frames |-> line.frames \cup {Head(fifo).frame}]
      BY <1>4, Zenon DEF HwSend
    <3>2. NoLine \in [bytes : Nat, frames : SUBSET Nat]
      BY SMT DEF NoLine
    <3>3. line.bytes + Head(fifo).len \in Nat
          /\ line.frames \cup {Head(fifo).frame} \in SUBSET Nat
      BY <2>3, SMT
    <3>. QED  BY <3>1, <3>2, <3>3, SMT
  <2>7. fifo' = Tail(fifo) /\ bc' \in {bc, Tail(bc)}
    BY <1>4, Zenon DEF HwSend
  <2>. QED  BY <2>1, <2>2, <2>5, <2>6, <2>7
<1>5. ASSUME fifo' = fifo, txcnt' = txcnt, bc' = bc, line' = line PROVE CardType'
  BY <1>5, Zenon
<1>. QED
  BY <1>1, <1>2, <1>3, <1>4, <1>5
     DEF Next, WriterStep, OframeStep, vars, card, WriteCall, WriteSignal, WriteDown,
         WriteCheck, WriteWait, WriteClock, WriteFrame, WriteNoMemory, WriteUp,
         WriteSchedule, OframeTfcnt, OframeTxcnt, OframeLock, OframeTransmit, Isr,
         ClockChange

LEMMA FlagsTypeStep ==
  ASSUME IInv, [Next]_vars
  PROVE  FlagsType'
<1>. USE DEF IInv, TypeOK, FlagsType
<1>1. osched' \in BOOLEAN
  BY Zenon DEF Next, WriterStep, OframeStep, vars, oframe, WriteCall, WriteSignal,
       WriteDown, WriteCheck, WriteWait, WriteClock, WriteFrame, WriteNoMemory,
       WriteUp, WriteSchedule, OframeTfcnt, OframeTxcnt, OframeLock, OframeCopy,
       OframeUnlock, OframeTransmit, PurgeTx, Isr, HwSend, ClockChange
<1>2. going' \in BOOLEAN /\ irq' \in BOOLEAN /\ clock' \in BOOLEAN
  BY ZenonT(60) DEF Next, WriterStep, OframeStep, vars, card, WriteCall, WriteSignal,
       WriteDown, WriteCheck, WriteWait, WriteClock, WriteFrame, WriteNoMemory,
       WriteUp, WriteSchedule, OframeTfcnt, OframeTxcnt, OframeLock, OframeCopy,
       OframeUnlock, OframeTransmit, PurgeTx, Isr, HwSend, ClockChange
<1>3. dropped' \in BOOLEAN
  BY Zenon DEF Next, WriterStep, OframeStep, vars, ghosts, WriteCall, WriteSignal,
       WriteDown, WriteCheck, WriteWait, WriteClock, WriteFrame, WriteNoMemory,
       WriteUp, WriteSchedule, OframeTfcnt, OframeTxcnt, OframeLock, OframeCopy,
       OframeUnlock, OframeTransmit, PurgeTx, Isr, HwSend, ClockChange
<1>. QED  BY <1>1, <1>2, <1>3

LEMMA GhostsTypeStep ==
  ASSUME IInv, [Next]_vars
  PROVE  GhostsType'
<1>. USE DEF IInv, TypeOK, GhostsType
<1>1. ASSUME NEW w \in Writers, NEW c \in Sizes, NEW nb \in NonblockFlags,
             WriteCall(w, c, nb)
      PROVE  GhostsType'
  BY <1>1, SMT DEF WriteCall
<1>2. ASSUME NEW w \in Writers, WriteFrame(w)
      PROVE  GhostsType'
  BY <1>2, SMT DEF WriteFrame, CallersType
<1>3. CASE PurgeTx
  BY <1>3, SMT DEF PurgeTx
<1>4. ASSUME NEW trigger \in BOOLEAN, HwSend(trigger)
      PROVE  GhostsType'
  <2>1. Head(fifo).frame \in Nat
    <3>1. Head(fifo) \in ChunkType
      BY <1>4, SMT DEF HwSend, CardType
    <3>. QED  BY <3>1, SMT DEF ChunkType
  <2>2. sent' = sent \/ sent' = Append(sent, Head(fifo).frame) \/ sent' = Append(sent, 0)
    BY <1>4, Zenon DEF HwSend
  <2>3. sent' \in Seq(Nat)
    <3>1. ASSUME NEW x \in Nat PROVE Append(sent, x) \in Seq(Nat)
      BY SMT
    <3>. QED  BY <2>1, <2>2, <3>1
  <2>. QED  BY <1>4, <2>3, Zenon DEF HwSend
<1>5. ASSUME ghosts' = ghosts PROVE GhostsType'
  BY <1>5, Zenon DEF ghosts
<1>. QED
  BY <1>1, <1>2, <1>3, <1>4, <1>5
     DEF Next, WriterStep, OframeStep, vars, WriteSignal, WriteDown, WriteCheck,
         WriteWait, WriteClock, WriteNoMemory, WriteUp, WriteSchedule, OframeTfcnt,
         OframeTxcnt, OframeLock, OframeCopy, OframeUnlock, OframeTransmit, Isr,
         ClockChange

LEMMA TypeStep == ASSUME IInv, [Next]_vars PROVE TypeOK'
BY RingTypeStep, CallersTypeStep, OframeTypeStep, CardTypeStep, FlagsTypeStep,
   GhostsTypeStep DEF TypeOK

-------------------------------------------------------------------------------
(* The ring invariant is preserved. *)

LEMMA WriteFrameRing ==
  ASSUME IInv, NEW w \in Writers, WriteFrame(w)
  PROVE  RingInUse'
<1>. USE TxNumAssumption DEF IInv, TypeOK, RingType
<1>1. PICK q \in 0 .. TxNum : InUse(q)
  BY DEF RingInUse, InUse
<1>2. FreeRun \in 0 .. TxNum /\ IsFreeRun(FreeRun) /\ FreeRun <= TxNum - q
  BY <1>1, FreeRunFact
<1>3. count[w] \in Nat \ {0} /\ Descs(count[w]) \in Nat
  BY DescsFact, SMT DEF WriteFrame, CallFits
<1>. DEFINE n == IF Descs(count[w]) <= FreeRun THEN Descs(count[w]) ELSE FreeRun
            f == Len(frames) + 1
            off(i) == RingOffset(TxNum, user_tx_desc, i)
<1>4. n \in 0 .. TxNum - q
  BY <1>1, <1>2, <1>3, SMT
<1>5. /\ fifo_tx_desc' = fifo_tx_desc
      /\ user_tx_desc' = RingAt(TxNum, user_tx_desc, n)
      /\ tx' = [i \in Position |->
                  IF off(i) < n THEN Filled(count[w], off(i), f) ELSE tx[i]]
  BY Zenon DEF WriteFrame
<1>. HIDE DEF n, f
<1>6. user_tx_desc' = RingAt(TxNum, fifo_tx_desc', q + n)
  BY <1>1, <1>4, <1>5, SMT DEF InUse, RingAt
<1>7. ASSUME NEW k \in 0 .. TxNum - 1
      PROVE  ~tx'[RingAt(TxNum, fifo_tx_desc', k)].cstop <=> k < q + n
  <2>. DEFINE p == RingAt(TxNum, fifo_tx_desc, k)
  <2>1. p \in Position
    BY SMT DEF RingAt
  <2>2. off(p) = IF k >= q THEN k - q ELSE k - q + TxNum
    BY <1>1, SMT DEF InUse, RingAt, RingOffset
  <2>3. CASE off(p) < n
    <3>1. tx'[p] = Filled(count[w], off(p), f)
      BY <1>5, <2>1, <2>3, Zenon
    <3>2. ~tx'[p].cstop
      BY <3>1, SMT DEF Filled
    <3>3. k < q + n
      BY <1>1, <1>4, <2>2, <2>3, SMT
    <3>. QED  BY <1>5, <3>2, <3>3
  <2>4. CASE ~(off(p) < n)
    <3>1. tx'[p] = tx[p]
      BY <1>5, <2>1, <2>4, Zenon
    <3>2. ~tx[p].cstop <=> k < q
      BY <1>1 DEF InUse
    <3>3. k < q <=> k < q + n
      BY <1>1, <1>4, <2>2, <2>4, SMT
    <3>. QED  BY <1>5, <3>1, <3>2, <3>3
  <2>. QED  BY <2>3, <2>4
<1>8. q + n \in 0 .. TxNum
  BY <1>1, <1>4, SMT
<1>. QED  BY <1>6, <1>7, <1>8 DEF RingInUse

LEMMA OframeCopyRing ==
  ASSUME IInv, OframeCopy
  PROVE  RingInUse'
<1>. USE TxNumAssumption DEF IInv, TypeOK, RingType
<1>1. PICK q \in 0 .. TxNum : InUse(q)
  BY DEF RingInUse, InUse
<1>2. /\ fifo_tx_desc' = RingAt(TxNum, fifo_tx_desc, 1)
      /\ user_tx_desc' = user_tx_desc
      /\ tx' = [tx EXCEPT ![fifo_tx_desc] = Empty]
      /\ ~tx[fifo_tx_desc].cstop
  BY SMT DEF OframeCopy, Stop, RingNext, RingAt
<1>3. q > 0
  <2>1. RingAt(TxNum, fifo_tx_desc, 0) = fifo_tx_desc /\ 0 \in 0 .. TxNum - 1
    BY SMT DEF RingAt
  <2>. QED  BY <1>1, <1>2, <2>1, SMT DEF InUse
<1>4. user_tx_desc' = RingAt(TxNum, fifo_tx_desc', q - 1)
  BY <1>1, <1>2, <1>3, SMT DEF InUse, RingAt
<1>5. ASSUME NEW k \in 0 .. TxNum - 1
      PROVE  ~tx'[RingAt(TxNum, fifo_tx_desc', k)].cstop <=> k < q - 1
  <2>1. CASE k = TxNum - 1
    <3>1. RingAt(TxNum, fifo_tx_desc', k) = fifo_tx_desc
      BY <1>2, <2>1, SMT DEF RingAt
    <3>2. tx'[fifo_tx_desc].cstop
      BY <1>2, SMT DEF Empty
    <3>. QED  BY <1>1, <2>1, <3>1, <3>2, SMT
  <2>2. CASE k # TxNum - 1
    <3>1. k + 1 \in 0 .. TxNum - 1
      BY <2>2, SMT
    <3>2. RingAt(TxNum, fifo_tx_desc', k) = RingAt(TxNum, fifo_tx_desc, k + 1)
          /\ RingAt(TxNum, fifo_tx_desc, k + 1) # fifo_tx_desc
          /\ RingAt(TxNum, fifo_tx_desc, k + 1) \in Position
      BY <1>2, <2>2, SMT DEF RingAt
    <3>3. tx'[RingAt(TxNum, fifo_tx_desc, k + 1)] = tx[RingAt(TxNum, fifo_tx_desc, k + 1)]
      BY <1>2, <3>2, SMT
    <3>4. ~tx[RingAt(TxNum, fifo_tx_desc, k + 1)].cstop <=> k + 1 < q
      BY <1>1, <3>1 DEF InUse
    <3>5. k + 1 < q <=> k < q - 1
      BY <1>1, SMT
    <3>. QED  BY <3>2, <3>3, <3>4, <3>5, Zenon
  <2>. QED  BY <2>1, <2>2
<1>6. q - 1 \in 0 .. TxNum
  BY <1>1, <1>3, SMT
<1>. QED  BY <1>4, <1>5, <1>6 DEF RingInUse

LEMMA PurgeTxRing == ASSUME PurgeTx PROVE RingInUse'
<1>1. /\ 0 \in 0 .. TxNum
      /\ user_tx_desc' = RingAt(TxNum, fifo_tx_desc', 0)
      /\ \A k \in 0 .. TxNum - 1 :
           ~tx'[RingAt(TxNum, fifo_tx_desc', k)].cstop <=> k < 0
  BY TxNumAssumption, SMT DEF PurgeTx, RingAt, Empty
<1>. QED  BY <1>1, Zenon DEF RingInUse

LEMMA RingStep == ASSUME IInv, [Next]_vars PROVE RingInUse'
<1>1. ASSUME ring' = ring PROVE RingInUse'
  BY <1>1 DEF ring, RingInUse, IInv
<1>. QED
  BY <1>1, WriteFrameRing, OframeCopyRing, PurgeTxRing
     DEF Next, WriterStep, OframeStep, vars, WriteCall, WriteSignal, WriteDown,
         WriteCheck, WriteWait, WriteClock, WriteNoMemory, WriteUp, WriteSchedule,
         OframeTfcnt, OframeTxcnt, OframeLock, OframeUnlock, OframeTransmit, Isr,
         HwSend, ClockChange

-------------------------------------------------------------------------------
(* The invariant of the writers is preserved. *)

LEMMA CallFitsStep == ASSUME IInv, [Next]_vars PROVE CallFits'
<1>. USE DEF IInv, TypeOK, CallersType, CallFits
<1>1. ASSUME NEW w \in Writers, NEW c \in Sizes, NEW nb \in NonblockFlags,
             WriteCall(w, c, nb)
      PROVE  CallFits'
  <2>1. c \in Nat \ {0}
    BY SizesAssumption
  <2>. QED
    BY <1>1, <2>1, TxSizeAssumption, TxNumAssumption, SMT DEF WriteCall, Return, Goto
<1>2. ASSUME NEW w \in Writers, pc[w] # "idle", count' = count,
             NEW l, pc' = [pc EXCEPT ![w] = l]
      PROVE  CallFits'
  BY <1>2, SMT
<1>3. CASE PurgeTx
  BY <1>3, SMT DEF PurgeTx
<1>4. ASSUME callers' = callers PROVE CallFits'
  BY <1>4, SMT DEF callers
<1>5. ASSUME NEW w \in Writers, WriteSignal(w) \/ WriterStep(w)
      PROVE  CallFits'
  <2>1. pc[w] # "idle" /\ count' = count
    BY <1>5 DEF WriterStep, WriteSignal, WriteDown, WriteCheck, WriteWait, WriteClock,
                WriteFrame, WriteNoMemory, WriteUp, WriteSchedule
  <2>2. \E l : pc' = [pc EXCEPT ![w] = l]
    BY <1>5, Zenon
       DEF WriterStep, WriteSignal, WriteDown, WriteCheck, WriteWait, WriteClock,
           WriteFrame, WriteNoMemory, WriteUp, WriteSchedule, Return, Goto
  <2>. QED  BY <2>1, <2>2, <1>2
<1>. QED
  BY <1>1, <1>3, <1>4, <1>5
     DEF Next, OframeStep, vars, OframeTfcnt, OframeTxcnt, OframeLock, OframeCopy,
         OframeUnlock, OframeTransmit, Isr, HwSend, ClockChange

LEMMA OneWriterStep == ASSUME IInv, [Next]_vars PROVE OneWriter'
<1>. USE DEF IInv, TypeOK, CallersType, OneWriter, Holding
<1>1. ASSUME NEW w \in Writers, NEW c \in Sizes, NEW nb \in NonblockFlags,
             WriteCall(w, c, nb)
      PROVE  OneWriter'
  BY <1>1, SMT DEF WriteCall, Return, Goto
<1>2. ASSUME NEW w \in Writers, WriteSignal(w) \/ WriterStep(w)
      PROVE  OneWriter'
  <2>. USE DEF Return, Goto
  <2>1. CASE WriteSignal(w)
    BY <2>1, SMT DEF WriteSignal
  <2>2. CASE WriteDown(w)
    BY <2>2, SMT DEF WriteDown
  <2>3. CASE WriteCheck(w)
    BY <2>3, SMT DEF WriteCheck
  <2>4. CASE WriteWait(w)
    BY <2>4, SMT DEF WriteWait
  <2>5. CASE WriteClock(w)
    BY <2>5, SMT DEF WriteClock
  <2>6. CASE WriteFrame(w)
    BY <2>6, SMT DEF WriteFrame
  <2>7. CASE WriteNoMemory(w)
    BY <2>7, SMT DEF WriteNoMemory
  <2>8. CASE WriteUp(w)
    BY <2>8, SMT DEF WriteUp
  <2>9. CASE WriteSchedule(w)
    BY <2>9, SMT DEF WriteSchedule
  <2>. QED
    BY <1>2, <2>1, <2>2, <2>3, <2>4, <2>5, <2>6, <2>7, <2>8, <2>9 DEF WriterStep
<1>3. CASE PurgeTx
  BY <1>3, SMT DEF PurgeTx
<1>4. ASSUME callers' = callers PROVE OneWriter'
  BY <1>4, SMT DEF callers
<1>. QED
  BY <1>1, <1>2, <1>3, <1>4
     DEF Next, OframeStep, vars, OframeTfcnt, OframeTxcnt, OframeLock, OframeCopy,
         OframeUnlock, OframeTransmit, Isr, HwSend, ClockChange

(* The free descriptors that hold a frame are within the ring. *)
LEMMA RoomInRing ==
  ASSUME IInv, NEW w \in Writers, pc[w] # "idle", NEW k \in 0 .. Descs(count[w]) - 1
  PROVE  k \in 0 .. TxNum - 1 /\ RingAt(TxNum, user_tx_desc, k) \in Position
                              /\ RingAt(TxNum, 0, k) \in Position
<1>1. count[w] \in Nat \ {0} /\ count[w] <= TxSize * TxNum
  BY DEF IInv, CallFits
<1>2. Descs(count[w]) \in Nat /\ Descs(count[w]) <= TxNum
  BY <1>1, DescsFact, DescsLeast, TxNumAssumption
<1>. QED  BY <1>2, TxNumAssumption, SMT DEF IInv, TypeOK, RingType, RingAt

LEMMA RoomReservedStep == ASSUME IInv, [Next]_vars PROVE RoomReserved'
<1>. USE DEF IInv, TypeOK, CallersType
<1>. DEFINE Reserving(v) == pc[v] \in {"clock", "write"}
(* The callers and the ring that a step leaves alone. *)
<1>1. ASSUME user_tx_desc' = user_tx_desc, count' = count,
             \A i \in Position : tx[i].cstop => tx'[i].cstop,
             \A v \in Writers : Reserving(v)' => Reserving(v)
      PROVE  RoomReserved'
  <2>. SUFFICES ASSUME NEW v \in Writers, Reserving(v)',
                       NEW k \in 0 .. Descs(count[v]) - 1
                PROVE  tx'[RingAt(TxNum, user_tx_desc, k)].cstop
    BY <1>1, Zenon DEF RoomReserved, Room
  <2>1. Reserving(v) /\ pc[v] # "idle"
    BY <1>1, SMT
  <2>2. tx[RingAt(TxNum, user_tx_desc, k)].cstop
    BY <2>1 DEF RoomReserved, Room
  <2>3. RingAt(TxNum, user_tx_desc, k) \in Position
    BY <2>1, RoomInRing
  <2>. QED  BY <1>1, <2>2, <2>3
<1>2. ASSUME NEW w \in Writers, WriteCheck(w), Reserving(w)'
      PROVE  Room(count[w])
  <2>1. count[w] <= TxSpace
    BY <1>2, SMT DEF WriteCheck, Return, Goto
  <2>2. PICK q \in 0 .. TxNum : InUse(q)
    BY DEF RingInUse, InUse
  <2>3. FreeRun \in 0 .. TxNum /\ IsFreeRun(FreeRun)
    BY <2>2, FreeRunFact
  <2>4. count[w] \in Nat \ {0} /\ FreeRun \in Nat
    BY <1>2, <2>3, TxNumAssumption, SMT DEF CallFits, WriteCheck
  <2>5. Descs(count[w]) \in Nat /\ Descs(count[w]) <= FreeRun
    BY <2>1, <2>4, DescsFact, DescsLeast DEF TxSpace
  <2>. QED  BY <2>3, <2>5, SMT DEF IsFreeRun, Room
<1>3. ASSUME NEW w \in Writers, WriteCheck(w)
      PROVE  RoomReserved'
  <2>. SUFFICES ASSUME NEW v \in Writers, Reserving(v)'
                PROVE  Room(count[v])'
    BY DEF RoomReserved
  <2>1. /\ tx' = tx /\ user_tx_desc' = user_tx_desc /\ count' = count
        /\ v = w \/ pc'[v] = pc[v]
    BY <1>3, SMT DEF WriteCheck, ring, Return, Goto
  <2>2. Room(count[v])
    BY <1>2, <1>3, <2>1 DEF RoomReserved
  <2>. QED  BY <2>1, <2>2 DEF Room
<1>4. ASSUME NEW w \in Writers, WriteFrame(w)
      PROVE  RoomReserved'
  <2>1. \A v \in Writers : ~Reserving(v)'
    BY <1>4, SMT DEF WriteFrame, Goto, OneWriter, Holding
  <2>. QED  BY <2>1 DEF RoomReserved
<1>5. CASE PurgeTx
  <2>1. /\ \A i \in Position : tx'[i].cstop
        /\ user_tx_desc' = 0 /\ count' = count
        /\ \A v \in Writers : Reserving(v)' => pc[v] # "idle"
    BY <1>5, SMT DEF PurgeTx, Empty
  <2>. SUFFICES ASSUME NEW v \in Writers, Reserving(v)',
                       NEW k \in 0 .. Descs(count[v]) - 1
                PROVE  tx'[RingAt(TxNum, 0, k)].cstop
    BY <2>1, Zenon DEF RoomReserved, Room
  <2>. QED  BY <2>1, RoomInRing
<1>6. ASSUME NEW w \in Writers, NEW c \in Sizes, NEW nb \in NonblockFlags,
             WriteCall(w, c, nb)
      PROVE  RoomReserved'
  <2>. SUFFICES ASSUME NEW v \in Writers, Reserving(v)'
                PROVE  Room(count[v])'
    BY DEF RoomReserved
  <2>1. /\ tx' = tx /\ user_tx_desc' = user_tx_desc
        /\ Reserving(v) /\ count'[v] = count[v]
    BY <1>6, SMT DEF WriteCall, ring, Return, Goto
  <2>. QED  BY <2>1 DEF Room, RoomReserved
<1>7. ASSUME NEW w \in Writers,
             \/ WriteSignal(w) \/ WriteDown(w) \/ WriteWait(w) \/ WriteClock(w)
             \/ WriteNoMemory(w) \/ WriteUp(w) \/ WriteSchedule(w)
      PROVE  RoomReserved'
  <2>1. /\ ring' = ring /\ count' = count
        /\ \A v \in Writers : Reserving(v)' => Reserving(v)
    BY <1>7, SMT DEF WriteSignal, WriteDown, WriteWait, WriteClock, WriteNoMemory,
                     WriteUp, WriteSchedule, Return, Goto
  <2>. QED  BY <1>1, <2>1 DEF ring
<1>8. CASE OframeCopy
  <2>1. /\ user_tx_desc' = user_tx_desc /\ count' = count /\ pc' = pc
        /\ tx' = [tx EXCEPT ![fifo_tx_desc] = Empty]
    BY <1>8 DEF OframeCopy, callers
  <2>2. \A i \in Position : tx[i].cstop => tx'[i].cstop
    BY <2>1, SMT DEF RingType, Empty
  <2>. QED  BY <1>1, <2>1, <2>2
<1>9. ASSUME ring' = ring, callers' = callers
      PROVE  RoomReserved'
  BY <1>1, <1>9, Zenon DEF ring, callers
<1>. QED
  BY <1>3, <1>4, <1>5, <1>6, <1>7, <1>8, <1>9
     DEF Next, WriterStep, OframeStep, vars, OframeTfcnt, OframeTxcnt, OframeLock,
         OframeUnlock, OframeTransmit, Isr, HwSend, ClockChange

-------------------------------------------------------------------------------
(* The results of the calls and the bounds of the card's FIFOs. *)

(* fscc_user_write_frame never meets a descriptor that is in use. *)
LEMMA WriteFrameComplete ==
  ASSUME IInv, NEW w \in Writers, pc[w] = "write"
  PROVE  Descs(count[w]) <= FreeRun
<1>1. PICK q \in 0 .. TxNum : InUse(q)
  BY DEF IInv, RingInUse, InUse
<1>2. FreeRun \in 0 .. TxNum /\ IsFreeRun(FreeRun)
  BY <1>1, FreeRunFact DEF IInv
<1>3. count[w] \in Nat \ {0} /\ count[w] <= TxSize * TxNum /\ Room(count[w])
  BY DEF IInv, CallFits, RoomReserved
<1>4. Descs(count[w]) \in Nat /\ Descs(count[w]) <= TxNum
  BY <1>3, DescsFact, DescsLeast, TxNumAssumption
<1>. SUFFICES ASSUME FreeRun < Descs(count[w]) PROVE FALSE
  BY <1>2, <1>4, SMT
<1>5. FreeRun \in 0 .. Descs(count[w]) - 1 /\ FreeRun < TxNum
  BY <1>2, <1>4, TxNumAssumption, SMT
<1>. QED  BY <1>2, <1>3, <1>5 DEF IsFreeRun, Room

LEMMA RefusedStep == ASSUME IInv, [Next]_vars PROVE RefusedForSizeOnly'
<1>. USE DEF IInv, TypeOK, CallersType, RefusedForSizeOnly
<1>1. ASSUME NEW w \in Writers, NEW c \in Sizes, NEW nb \in NonblockFlags,
             WriteCall(w, c, nb)
      PROVE  RefusedForSizeOnly'
  <2>1. c \in Nat
    BY SizesAssumption
  <2>. QED  BY <1>1, <2>1, SMT DEF WriteCall, Return, Goto
<1>2. ASSUME NEW w \in Writers, WriteFrame(w)
      PROVE  RefusedForSizeOnly'
  <2>1. Descs(count[w]) <= FreeRun
    BY <1>2, WriteFrameComplete DEF WriteFrame
  <2>2. ret' = [ret EXCEPT ![w] = "count"] /\ count' = count
    <3>1. Descs(count[w]) \in Nat
      BY <1>2, DescsFact, SMT DEF WriteFrame, CallFits
    <3>2. /\ (IF Descs(count[w]) <= FreeRun THEN Descs(count[w]) ELSE FreeRun)
               = Descs(count[w])
          /\ ~(Descs(count[w]) < Descs(count[w]))
      BY <2>1, <3>1, SMT
    <3>. QED  BY <1>2, <2>1, <3>2, Zenon DEF WriteFrame
  <2>. QED  BY <2>2, SMT
<1>3. ASSUME NEW w \in Writers,
             NEW r \in {"none", "count", "EAGAIN", "ETIMEDOUT", "ERESTARTSYS"},
             ret' = ret \/ ret' = [ret EXCEPT ![w] = r], count' = count
      PROVE  RefusedForSizeOnly'
  BY <1>3, SMT
<1>4. ASSUME NEW w \in Writers,
             \/ WriteSignal(w) \/ WriteDown(w) \/ WriteCheck(w) \/ WriteWait(w)
             \/ WriteClock(w) \/ WriteNoMemory(w) \/ WriteUp(w) \/ WriteSchedule(w)
      PROVE  RefusedForSizeOnly'
  <2>1. /\ count' = count
        /\ \/ ret' = ret
           \/ \E r \in {"none", "count", "EAGAIN", "ETIMEDOUT", "ERESTARTSYS"} :
                ret' = [ret EXCEPT ![w] = r]
    BY <1>4, Zenon
       DEF WriteSignal, WriteDown, WriteCheck, WriteWait, WriteClock, WriteNoMemory,
           WriteUp, WriteSchedule, Return
  <2>. QED  BY <1>3, <2>1
<1>5. ASSUME ret' = ret, count' = count PROVE RefusedForSizeOnly'
  BY <1>5, Zenon
<1>. QED
  BY <1>1, <1>2, <1>4, <1>5
     DEF Next, WriterStep, OframeStep, vars, callers, OframeTfcnt, OframeTxcnt,
         OframeLock, OframeCopy, OframeUnlock, OframeTransmit, PurgeTx, Isr, HwSend,
         ClockChange

CardInv == FifoNotOverrun /\ ByteCountsNotOverrun /\ ReadsCautious

LEMMA LowerSum ==
  ASSUME NEW a \in Nat, NEW b \in Nat, NEW c \in Nat, NEW d \in Nat,
         b <= a, a + c < d
  PROVE  b + c < d
BY SMT

LEMMA CardStep == ASSUME IInv, [Next]_vars PROVE CardInv'
<1>. USE FifoSizeAssumption, MaxTfcntAssumption
     DEF IInv, TypeOK, OframeType, CardType, CardInv, FifoNotOverrun,
         ByteCountsNotOverrun, ReadsCautious
<1>1. CASE OframeTfcnt
  BY <1>1, SMT DEF OframeTfcnt, card
<1>2. CASE OframeTxcnt
  <2>. DEFINE space == FifoSize - txcnt - 1
  <2>1. /\ txcnt' = txcnt /\ bc' = bc /\ opc = "txcnt"
        /\ \/ opc' = "idle"
           \/ opc' = "lock" /\ ~(space < 0) /\ fifo_space' = space - (space % 4)
    BY <1>2, Zenon DEF OframeTxcnt, card
  <2>2. CASE opc' = "idle"
    BY <2>1, <2>2, SMT
  <2>3. CASE opc' = "lock"
    <3>1. space \in Nat /\ fifo_space' = space - (space % 4)
      BY <2>1, <2>3, SMT
    <3>2. fifo_space' \in Nat /\ fifo_space' <= space
      BY <3>1, SMT
    <3>. QED  BY <2>1, <2>3, <3>2, SMT
  <2>. QED  BY <2>1, <2>2, <2>3
<1>3. CASE OframeLock
  BY <1>3, SMT DEF OframeLock, card
<1>4. CASE OframeCopy
  <2>1. tx[fifo_tx_desc].len \in Nat
    <3>1. tx[fifo_tx_desc] \in DescType
      BY SMT DEF RingType
    <3>. QED  BY <3>1, SMT DEF DescType
  <2>. DEFINE s == SizeInFifo(tx[fifo_tx_desc].len)
              b == WordBytes(tx[fifo_tx_desc].len)
  <2>2. s \in Nat /\ b \in Nat /\ b <= s
    BY <2>1, FifoSizes
  <2>3. /\ opc = "copy" /\ opc' = "copy" /\ ~(fifo_space < s)
        /\ txcnt' = txcnt + b /\ fifo_space' = fifo_space - s /\ bc' = bc
    BY <1>4, Zenon DEF OframeCopy, Stop
  <2>. HIDE DEF s, b
  <2>4. fifo_space \in Nat /\ txcnt + fifo_space < FifoSize /\ Len(bc) <= MaxTfcnt
    BY <2>3, SMT
  <2>5. fifo_space' \in Nat /\ txcnt' + fifo_space' < FifoSize /\ txcnt' < FifoSize
    BY <2>2, <2>3, <2>4, SMT
  <2>. QED  BY <2>3, <2>4, <2>5, SMT
<1>5. CASE OframeUnlock
  <2>1. bc' = bc \/ bc' = Append(bc, frame_size)
    BY <1>5, Zenon DEF OframeUnlock
  <2>2. Len(bc') <= Len(bc) + 1
    BY <2>1, SMT
  <2>3. opc = "copy" /\ opc' \in {"transmit", "idle"} /\ txcnt' = txcnt
    BY <1>5, SMT DEF OframeUnlock
  <2>4. bc' \in Seq(Nat)
    BY <2>1, SMT
  <2>. QED  BY <2>2, <2>3, <2>4, SMT
<1>6. CASE OframeTransmit
  BY <1>6, SMT DEF OframeTransmit
<1>7. CASE PurgeTx
  <2>1. \/ txcnt' = 0 /\ bc' = <<>>
        \/ txcnt' = txcnt /\ bc' = bc
    BY <1>7, Zenon DEF PurgeTx
  <2>2. opc' = opc /\ fifo_space' = fifo_space
    BY <1>7 DEF PurgeTx, oframe
  <2>. QED  BY <2>1, <2>2, SMT
<1>8. ASSUME NEW trigger \in BOOLEAN, HwSend(trigger)
      PROVE  CardInv'
  <2>1. Head(fifo).len \in Nat
    <3>1. Head(fifo) \in ChunkType
      BY <1>8, SMT DEF HwSend
    <3>. QED  BY <3>1, SMT DEF ChunkType
  <2>2. WordBytes(Head(fifo).len) \in Nat
    BY <2>1, FifoSizes
  <2>3. txcnt' \in Nat /\ txcnt' <= txcnt
    BY <1>8, <2>2, SMT DEF HwSend
  <2>4. bc # <<>> /\ bc' \in {bc, Tail(bc)}
    BY <1>8, Zenon DEF HwSend
  <2>5. Len(bc') <= Len(bc) /\ bc' \in Seq(Nat)
    <3>1. Tail(bc) \in Seq(Nat) /\ Len(Tail(bc)) = Len(bc) - 1 /\ Len(bc) \in Nat
      BY <2>4, SMT
    <3>2. CASE bc' = bc
      BY <3>1, <3>2, SMT
    <3>3. CASE bc' = Tail(bc)
      <4>1. Len(bc) - 1 <= Len(bc)
        BY <3>1, SMT
      <4>. QED  BY <3>1, <3>3, <4>1
    <3>. QED  BY <2>4, <3>2, <3>3
  <2>6. opc' = opc /\ fifo_space' = fifo_space
    BY <1>8 DEF HwSend, oframe
  <2>7. Len(bc') \in Nat /\ Len(bc) \in Nat
    BY <2>5, SMT
  <2>8. txcnt' < FifoSize /\ Len(bc') <= MaxTfcnt + 1
    BY <2>3, <2>5, <2>7, SMT
  <2>9. ASSUME opc \in {"lock", "copy"}
        PROVE  fifo_space' \in Nat /\ txcnt' + fifo_space' < FifoSize
    <3>1. fifo_space \in Nat /\ txcnt + fifo_space < FifoSize
      BY <2>9
    <3>2. txcnt \in Nat /\ FifoSize \in Nat
      BY Zenon
    <3>3. txcnt' + fifo_space < FifoSize
      BY ONLY <3>1, <3>2, <2>3, LowerSum, Zenon
    <3>. QED  BY ONLY <3>1, <3>3, <2>6, Zenon
  <2>10. ASSUME opc \in {"txcnt", "lock", "copy"}
         PROVE  Len(bc') <= MaxTfcnt
    <3>1. Len(bc) <= MaxTfcnt
      BY <2>10
    <3>. QED  BY <3>1, <2>5, <2>7, SMT
  <2>. QED  BY <2>6, <2>8, <2>9, <2>10, Zenon
<1>9. ASSUME opc' = opc, fifo_space' = fifo_space, txcnt' = txcnt, bc' = bc
      PROVE  CardInv'
  BY <1>9, Zenon
<1>. QED
  BY <1>1, <1>2, <1>3, <1>4, <1>5, <1>6, <1>7, <1>8, <1>9
     DEF Next, WriterStep, OframeStep, vars, oframe, card, WriteCall, WriteSignal,
         WriteDown, WriteCheck, WriteWait, WriteClock, WriteFrame, WriteNoMemory,
         WriteUp, WriteSchedule, Isr, ClockChange

-------------------------------------------------------------------------------
LEMMA Inductive == ASSUME IInv, [Next]_vars PROVE IInv'
BY TypeStep, RingStep, CallFitsStep, OneWriterStep, RoomReservedStep, RefusedStep,
   CardStep DEF IInv, CardInv

LEMMA Invariance == Spec => []IInv
BY InitIInv, Inductive, PTL DEF Spec

(* Every variable keeps its type, for any number of writers, any ring and   *)
(* FIFO size, and with or without a transmit clock.                          *)
THEOREM TypeCorrect == Spec => []TypeOK
<1>1. IInv => TypeOK
  BY DEF IInv
<1>. QED  BY <1>1, Invariance, PTL

(* The descriptors in use stay consecutive between the tasklet's index and   *)
(* the writers' (io.c fscc_user_write_frame, fscc_fifo_write_data,           *)
(* fscc_io_purge_tx).                                                        *)
THEOREM RingConsistent == Spec => []RingInUse
<1>1. IInv => RingInUse
  BY DEF IInv
<1>. QED  BY <1>1, Invariance, PTL

(* The space a writer counts without the spinlock is still there when it    *)
(* fills the descriptors: fscc_write returns ENOBUFS only for a frame larger *)
(* than the memory cap (main.c:136, 157-172, io.c:784-788).                  *)
THEOREM NoSpuriousRefusal == Spec => []RefusedForSizeOnly
<1>1. IInv => RefusedForSizeOnly
  BY DEF IInv
<1>. QED  BY <1>1, Invariance, PTL

(* The transmit FIFO never holds more than it has room for, from one read   *)
(* of TXCNT before the lock (io.c:623-637).                                  *)
THEOREM NoFifoOverrun == Spec => []FifoNotOverrun
<1>1. IInv => FifoNotOverrun
  BY DEF IInv
<1>. QED  BY <1>1, Invariance, PTL

(* Nor the byte count FIFO, from one read of TFCNT (io.c:619-621).          *)
THEOREM NoByteCountOverrun == Spec => []ByteCountsNotOverrun
<1>1. IInv => ByteCountsNotOverrun
  BY DEF IInv
<1>. QED  BY <1>1, Invariance, PTL

===============================================================================
