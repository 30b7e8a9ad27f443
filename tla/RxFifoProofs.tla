---------------------------- MODULE RxFifoProofs ----------------------------
(***************************************************************************)
(* Proofs about RxFifo, for any number of readers, any ring and any frames *)
(* on the line: the types, and that the finished descriptors stay in a row *)
(* between the readers' index and the tasklet's.                           *)
(***************************************************************************)
EXTENDS RxFifo, TLAPS

USE RxNumAssumption, RxSizeAssumption DEF Position

-----------------------------------------------------------------------------
(* Positions *)

LEMMA RingFacts ==
  ASSUME NEW i \in Position
  PROVE  /\ RingAt(RxNum, i, 0) = i
         /\ RingNext(RxNum, i) \in Position
         /\ RingNext(RxNum, i) = RingAt(RxNum, i, 1)
         /\ \A k \in 0 .. RxNum : RingAt(RxNum, i, k) \in Position
         /\ \A k \in 1 .. RxNum - 1 : RingAt(RxNum, i, k) # i
         /\ RingAt(RxNum, i, RxNum) = i
         /\ \A k \in 0 .. RxNum - 1 :
              RingAt(RxNum, RingNext(RxNum, i), k) = RingAt(RxNum, i, k + 1)
         /\ \A k \in 0 .. RxNum - 1 :
              RingNext(RxNum, RingAt(RxNum, i, k)) = RingAt(RxNum, i, k + 1)
BY SMT DEF RingAt, RingNext

LEMMA RingInjective ==
  ASSUME NEW i \in Position, NEW j \in 0 .. RxNum - 1, NEW k \in 0 .. RxNum - 1, j # k
  PROVE  RingAt(RxNum, i, j) # RingAt(RxNum, i, k)
BY SMT DEF RingAt

LEMMA Words ==
  ASSUME NEW n \in Nat
  PROVE  WordBytes(n) \in Nat
BY SMT DEF WordBytes

-----------------------------------------------------------------------------
(* The inductive invariant *)

(* Nobody but one reader is between down and up of read_semaphore, and its   *)
(* loop and the tasklet's exclude each other.                                *)
Holding == {"check", "lock", "move", "advance", "up"}
OneReader ==
  /\ \A q, r \in Readers : pc[q] \in Holding /\ pc[r] \in Holding => q = r
  /\ read_sem = 1 => \A r \in Readers : pc[r] \notin Holding
OneLock ==
  ipc \in {"head", "copy"} => \A r \in Readers : pc[r] \notin {"move", "advance"}

(* A descriptor ends a frame only when it is finished, and has room until    *)
(* then; the tasklet fills one that is not.                                  *)
DescsOK ==
  /\ \A p \in Position : /\ rx[p].fe => rx[p].cstop
                         /\ ~rx[p].cstop => rx[p].cnt < RxSize
  /\ ipc = "copy" => ~rx[fifo_rx_desc].cstop

(* A stream reader has room for what it has been given.                      *)
RoomLeft ==
  streaming => \A r \in Readers :
    pc[r] \in {"move", "advance"} => out_length \in Nat /\ out_length <= buf[r]

(* What a frame reader still wants of its frame lies in finished descriptors *)
(* up to the one that ends the frame.                                        *)
Front == IF \E r \in Readers : pc[r] = "advance"
            THEN RingNext(RxNum, user_rx_desc) ELSE user_rx_desc
PlanFrom(u) ==
  \E k \in Position :
    EndsAt(u, k) /\ filled_frame_size + bytes_in_descs <= rx[RingAt(RxNum, u, k)].cnt
PlanOK ==
  ~streaming => \A r \in Readers :
    /\ pc[r] = "move" => PlanFrom(user_rx_desc)
    /\ pc[r] = "advance" /\ bytes_in_descs # 0 => PlanFrom(RingNext(RxNum, user_rx_desc))

(* The frame on the line.                                                    *)
LineOK == incoming.done <= incoming.size /\ incoming.done <= arrived

(* Of the descriptors r, q finished ones lie from u on and f follows them.   *)
InRow(r, f, u, q) ==
  /\ f = RingAt(RxNum, u, q)
  /\ \A k \in 0 .. RxNum - 1 : r[RingAt(RxNum, u, k)].cstop <=> k < q

IInv ==
  /\ TypeOK /\ OneReader /\ OneLock /\ DescsOK /\ RoomLeft /\ PlanOK /\ LineOK
  /\ FinishedInRow

LEMMA RowFact ==
  FinishedInRow <=> \E q \in 0 .. RxNum : InRow(rx, fifo_rx_desc, Front, q)
BY Zenon DEF FinishedInRow, InRow, Front

LEMMA FreeIsDesc == Free \in DescType /\ ~Free.cstop /\ ~Free.fe /\ Free.cnt = 0
BY SMT DEF Free, DescType

LEMMA InitHolds == Init => IInv
<1>. SUFFICES ASSUME Init PROVE IInv
  OBVIOUS
<1>. USE DEF Init
<1>1. TypeOK
  <2>1. RingType
    BY FreeIsDesc, SMT DEF RingType
  <2>2. CallersType
    BY Zenon DEF CallersType, Places, Results
  <2>3. LocalsType
    BY SMT DEF LocalsType
  <2>4. HandlersType
    BY Zenon DEF HandlersType
  <2>5. CardType
    <3>1. NoFrame \in [size : Nat, done : Nat]
      BY SMT DEF NoFrame
    <3>2. <<>> \in Seq(Nat)
      BY SMT
    <3>. QED  BY <3>1, <3>2, Zenon DEF CardType
  <2>6. GhostsType
    BY SMT DEF GhostsType
  <2>7. streaming \in BOOLEAN
    BY FlagsAssumption
  <2>. QED  BY <2>1, <2>2, <2>3, <2>4, <2>5, <2>6, <2>7 DEF TypeOK
<1>2. OneReader /\ OneLock /\ RoomLeft /\ PlanOK
  BY Zenon DEF OneReader, OneLock, RoomLeft, PlanOK, Holding
<1>3. DescsOK
  BY FreeIsDesc, SMT DEF DescsOK
<1>4. LineOK
  BY SMT DEF LineOK, NoFrame
<1>5. FinishedInRow
  <2>1. Front = 0
    BY Zenon DEF Front
  <2>2. 0 \in 0 .. RxNum /\ InRow(rx, fifo_rx_desc, 0, 0)
    BY FreeIsDesc, SMT DEF InRow, RingAt
  <2>. QED  BY <2>1, <2>2, RowFact
<1>. QED  BY <1>1, <1>2, <1>3, <1>4, <1>5 DEF IInv

-----------------------------------------------------------------------------
(* Sequences of bytes *)

LEMMA BytesType ==
  ASSUME NEW s \in Seq(Nat), NEW n \in Int
  PROVE  Bytes(s, n) \in Seq(Nat)
<1>1. PICK m \in Nat : 1 .. n = 1 .. m
  <2>1. CASE n >= 0
    BY <2>1
  <2>2. CASE n < 0
    <3>1. 1 .. n = 1 .. 0
      BY <2>2, SMT
    <3>. QED  BY <3>1
  <2>. QED  BY <2>1, <2>2, SMT
<1>2. Bytes(s, n) = [i \in 1 .. m |-> IF i <= Len(s) THEN s[i] ELSE 0]
  BY <1>1 DEF Bytes
<1>3. \A i \in 1 .. m : (IF i <= Len(s) THEN s[i] ELSE 0) \in Nat
  BY SMT
<1>. QED  BY <1>2, <1>3, SMT

LEMMA RestType ==
  ASSUME NEW s \in Seq(Nat), NEW n \in Nat
  PROVE  Rest(s, n) \in Seq(Nat)
BY SMT DEF Rest

LEMMA FrameOfType ==
  ASSUME NEW b, GhostsType
  PROVE  FrameOf(b) \in Nat
<1>. DEFINE whole(f) == b = [i \in 1 .. frames[f].size - StatusBytes |->
                               frames[f].first + i - 1]
<1>1. CASE \E f \in 1 .. Len(frames) : whole(f)
  <2>1. (CHOOSE f \in 1 .. Len(frames) : whole(f)) \in 1 .. Len(frames)
    BY <1>1, Zenon
  <2>2. Len(frames) \in Nat
    BY SMT DEF GhostsType
  <2>3. FrameOf(b) \in 1 .. Len(frames)
    BY <1>1, <2>1, Zenon DEF FrameOf
  <2>. QED  BY <2>2, <2>3, SMT
<1>2. CASE ~\E f \in 1 .. Len(frames) : whole(f)
  <2>1. FrameOf(b) = 0
    BY <1>2, Zenon DEF FrameOf
  <2>. QED  BY <2>1
<1>. QED  BY <1>1, <1>2

LEMMA StatusFact == StatusBytes \in {0, 2}
BY SMT DEF StatusBytes

(* A frame that is ready ends in a finished descriptor, which has its size.  *)
LEMMA NextFrameFact ==
  ASSUME RingType, NEW u \in Position, FrameReady(u)
  PROVE  /\ NextReadSize(u) \in Nat
         /\ \E k \in Position : EndsAt(u, k) /\ NextReadSize(u) = rx[RingAt(RxNum, u, k)].cnt
<1>. DEFINE k == CHOOSE k \in Position : EndsAt(u, k)
<1>1. k \in Position /\ EndsAt(u, k)
  BY Zenon DEF FrameReady
<1>2. NextReadSize(u) = rx[RingAt(RxNum, u, k)].cnt
  BY Zenon DEF NextReadSize
<1>3. RingAt(RxNum, u, k) \in Position
  BY <1>1, SMT DEF RingAt
<1>4. rx[RingAt(RxNum, u, k)] \in DescType
  BY <1>3, Zenon DEF RingType
<1>5. NextReadSize(u) \in Nat
  BY <1>2, <1>4, SMT DEF DescType
<1>. QED  BY <1>1, <1>2, <1>5, Zenon

(* What an iteration of the tasklet moves.                                   *)
LEMMA ReceiveFact ==
  ASSUME TypeOK, DescsOK, ipc = "copy"
  PROVE  /\ ReceiveLength \in Nat
         /\ ReceiveLength <= RxSize - rx[fifo_rx_desc].cnt
<1>1. rx[fifo_rx_desc] \in DescType /\ rx[fifo_rx_desc].cnt < RxSize
  BY Zenon DEF TypeOK, RingType, DescsOK
<1>2. Len(rxfifo) \in Nat
  BY SMT DEF TypeOK, CardType
<1>3. rx_frame_size \in Nat /\ rx_bytes_in_frame \in Nat
  BY DEF TypeOK, RingType
<1>. QED  BY <1>1, <1>2, <1>3, SMT DEF ReceiveLength, Lesser, DescType

-----------------------------------------------------------------------------
(* Types are preserved *)

LEMMA RingTypeStep ==
  ASSUME IInv, Next
  PROVE  RingType'
<1>. USE DEF IInv, TypeOK, RingType
<1>0. Free \in DescType
  BY FreeIsDesc
<1>1. ASSUME NEW r \in Readers, ReadFrameMove(r)
      PROVE  RingType'
  <2>1. rx[user_rx_desc].count \in Nat
    BY SMT DEF DescType
  <2>2. [Free EXCEPT !.count = rx[user_rx_desc].count] \in DescType
    BY <1>0, <2>1, Zenon DEF DescType
  <2>3. rx' = [rx EXCEPT ![user_rx_desc] = [Free EXCEPT !.count = rx[user_rx_desc].count]]
        /\ UNCHANGED <<user_rx_desc, fifo_rx_desc, rx_frame_size, rx_bytes_in_frame>>
    BY <1>1, Zenon DEF ReadFrameMove
  <2>. QED  BY <2>2, <2>3, Zenon
<1>2. ASSUME NEW r \in Readers, ReadStreamMove(r)
      PROVE  RingType'
  <2>. DEFINE d == rx[user_rx_desc]
              n == Lesser(buf[r] - out_length, d.count)
              e == IF n = d.count THEN Free
                   ELSE [d EXCEPT !.data = Rest(d.data, n), !.count = d.count - n]
  <2>1. d \in DescType /\ d.data \in Seq(Nat) /\ d.count \in Nat
    BY SMT DEF DescType
  <2>2. buf[r] - out_length \in Nat
    BY <1>2, SMT DEF RoomLeft, ReadStreamMove, CallersType
  <2>3. n \in Nat /\ n <= d.count
    BY <2>1, <2>2, SMT DEF Lesser
  <2>4. Rest(d.data, n) \in Seq(Nat)
    BY <2>1, <2>3, RestType, Zenon
  <2>5. d.count - n \in Nat
    BY <2>1, <2>3, SMT
  <2>6. e \in DescType
    <3>. HIDE DEF n
    <3>. QED  BY <1>0, <2>1, <2>4, <2>5, Zenon DEF DescType
  <2>7. UNCHANGED <<user_rx_desc, fifo_rx_desc, rx_frame_size, rx_bytes_in_frame>>
    BY <1>2, Zenon DEF ReadStreamMove
  <2>8. rx' = rx \/ rx' = [rx EXCEPT ![user_rx_desc] = e]
    BY <1>2, Zenon DEF ReadStreamMove
  <2>. QED  BY <2>6, <2>7, <2>8, Zenon
<1>3. ASSUME NEW r \in Readers, ReadFrameAdvance(r) \/ ReadStreamAdvance(r)
      PROVE  RingType'
  BY <1>3, RingFacts, Zenon DEF ReadFrameAdvance, ReadStreamAdvance
<1>4. ASSUME IframeHead
      PROVE  RingType'
  <2>1. rx_frame_size' \in Nat
    BY <1>4, SMT DEF IframeHead, CardType
  <2>. QED  BY <1>4, <2>1, Zenon DEF IframeHead
<1>5. ASSUME IframeCopy
      PROVE  RingType'
  <2>. DEFINE d == rx[fifo_rx_desc]
              n == ReceiveLength
              full == d.cnt + n >= RxSize
              ended == rx_frame_size > 0 /\ rx_bytes_in_frame + n >= rx_frame_size
              finished == full \/ ended
              e == [cstop |-> finished, fe |-> ended,
                    cnt |-> IF ended THEN rx_frame_size
                            ELSE IF full THEN 0 ELSE d.cnt + n,
                    count |-> IF finished THEN RxSize ELSE d.count,
                    data |-> d.data \o Bytes(rxfifo, n)]
  <2>1. n \in Nat
    BY <1>5, ReceiveFact DEF IframeCopy
  <2>2. d \in DescType
    BY Zenon
  <2>3. d.data \o Bytes(rxfifo, n) \in Seq(Nat)
    BY <2>1, <2>2, BytesType, SMTT(30) DEF DescType, CardType
  <2>4. e \in DescType
    <3>. HIDE DEF n
    <3>1. e.cnt \in Nat /\ e.count \in Nat
      BY <2>1, <2>2, SMT DEF DescType
    <3>. QED  BY <2>3, <3>1, Zenon DEF DescType
  <2>5. rx' = [rx EXCEPT ![fifo_rx_desc] = e]
    BY <1>5, Zenon DEF IframeCopy
  <2>6. rx_frame_size' \in Nat /\ rx_bytes_in_frame' \in Nat
    BY <1>5, <2>1, SMT DEF IframeCopy
  <2>7. fifo_rx_desc' \in Position /\ user_rx_desc' \in Position
    BY <1>5, RingFacts, Zenon DEF IframeCopy
  <2>. QED  BY <2>4, <2>5, <2>6, <2>7, Zenon
<1>6. ASSUME PurgeRx
      PROVE  RingType'
  BY <1>0, <1>6, SMT DEF PurgeRx
<1>7. CASE UNCHANGED ring
  BY <1>7, Zenon DEF ring
<1>. QED
  BY <1>1, <1>2, <1>3, <1>4, <1>5, <1>6, <1>7, Zenon
  DEF Next, Step, ReaderStep, IframeStep, ReadCall, ReadSignal, ReadDown, ReadCheck,
      ReadWait, ReadNoMemory, ReadUp, ReadFrameLock, ReadStreamLock, Isr,
      TimerHandler, IframeLock, IframeReady, HwFrameWord, HwStreamWord


LEMMA CallersTypeStep ==
  ASSUME IInv, Next
  PROVE  CallersType'
<1>. USE DEF IInv, TypeOK, CallersType, Places, Results, Goto, Return
<1>1. ASSUME NEW r \in Readers, NEW n \in BufSizes, NEW nb \in NonblockFlags,
             ReadCall(r, n, nb)
      PROVE  CallersType'
  <2>1. n \in Nat /\ nb \in BOOLEAN
    BY SizesAssumption, FlagsAssumption, Zenon
  <2>. QED  BY <1>1, <2>1, Zenon DEF ReadCall
<1>2. ASSUME NEW r \in Readers, ReadSignal(r) \/ ReadDown(r) \/ ReadCheck(r) \/ ReadWait(r)
      PROVE  CallersType'
  BY <1>2, Zenon DEF ReadSignal, ReadDown, ReadCheck, ReadWait
<1>3. ASSUME NEW r \in Readers, ReadNoMemory(r) \/ ReadUp(r)
      PROVE  CallersType'
  BY <1>3, Zenon DEF ReadNoMemory, ReadUp
<1>4. ASSUME NEW r \in Readers, ReadFrameLock(r) \/ ReadFrameMove(r) \/ ReadFrameAdvance(r)
      PROVE  CallersType'
  <2>1. CASE ReadFrameLock(r)
    BY <2>1, Zenon DEF ReadFrameLock
  <2>2. CASE ReadFrameMove(r)
    BY <2>2, Zenon DEF ReadFrameMove
  <2>3. CASE ReadFrameAdvance(r)
    <3>1. \/ Goto(r, "move") /\ UNCHANGED ret
          \/ Goto(r, "up") /\ ret' = [ret EXCEPT ![r] = "bytes"]
      BY <2>3, Zenon DEF ReadFrameAdvance
    <3>. QED  BY <2>3, <3>1, Zenon DEF ReadFrameAdvance
  <2>. QED  BY <1>4, <2>1, <2>2, <2>3
<1>5. ASSUME NEW r \in Readers,
             ReadStreamLock(r) \/ ReadStreamMove(r) \/ ReadStreamAdvance(r)
      PROVE  CallersType'
  BY <1>5, Zenon DEF ReadStreamLock, ReadStreamMove, ReadStreamAdvance
<1>6. ASSUME IframeReady
      PROVE  CallersType'
  BY <1>6, Zenon DEF IframeReady
<1>7. CASE UNCHANGED callers
  BY <1>7, Zenon DEF callers
<1>. QED
  BY <1>1, <1>2, <1>3, <1>4, <1>5, <1>6, <1>7, Zenon
  DEF Next, Step, ReaderStep, IframeStep, Isr, TimerHandler, IframeLock, IframeHead,
      IframeCopy, PurgeRx, HwFrameWord, HwStreamWord

LEMMA LocalsTypeStep ==
  ASSUME IInv, Next
  PROVE  LocalsType'
<1>. USE DEF IInv, TypeOK, LocalsType
<1>1. ASSUME NEW u \in Position, RingType, FrameReady(u), Plan(NextReadSize(u)),
             out_length' \in Int
      PROVE  LocalsType'
  BY <1>1, NextFrameFact, StatusFact, SMT DEF Plan
<1>2. ASSUME NEW r \in Readers, ReadFrameLock(r)
      PROVE  LocalsType'
  <2>1. CASE UNCHANGED locals
    BY <2>1, Zenon DEF locals
  <2>2. CASE FrameReady(user_rx_desc) /\ Plan(NextReadSize(user_rx_desc)) /\ out_length' = 0
    BY <1>1, <2>2, SMT DEF RingType
  <2>. QED  BY <1>2, <2>1, <2>2, Zenon DEF ReadFrameLock
<1>3. ASSUME NEW r \in Readers, ReadFrameMove(r)
      PROVE  LocalsType'
  <2>. DEFINE d == rx[user_rx_desc]
              planned == IF d.fe /\ d.cstop THEN d.cnt - filled_frame_size ELSE d.count
              real == Lesser(planned, total_valid_data)
  <2>1. d.cnt \in Nat /\ d.count \in Nat /\ d.data \in Seq(Nat)
    BY SMT DEF RingType, DescType
  <2>2. planned \in Int
    BY <2>1, SMT
  <2>3. real \in Int
    BY <2>2, SMT DEF Lesser
  <2>4. Bytes(d.data, real) \in Seq(Nat)
    BY <2>1, <2>3, BytesType, Zenon
  <2>. HIDE DEF planned, real
  <2>5. /\ out' = out \o Bytes(d.data, real)
        /\ bytes_in_descs' = IF planned > bytes_in_descs THEN 0 ELSE bytes_in_descs - planned
        /\ total_valid_data' = total_valid_data - real
        /\ filled_frame_size' = filled_frame_size + real
        /\ out_length' = out_length + real + (IF bytes_in_descs' = 0 THEN TimestampSize ELSE 0)
    BY <1>3, Zenon DEF ReadFrameMove, planned, real
  <2>6. bytes_in_descs' \in Nat
    BY <2>2, <2>5, SMT
  <2>7. total_valid_data' \in Int /\ filled_frame_size' \in Int /\ out_length' \in Int
    BY <2>3, <2>5, SizesAssumption, SMT
  <2>8. out' \in Seq(Nat)
    BY <2>4, <2>5, SMT
  <2>. QED  BY <2>6, <2>7, <2>8
<1>4. ASSUME NEW r \in Readers, ReadFrameAdvance(r)
      PROVE  LocalsType'
  <2>1. CASE UNCHANGED locals
    BY <2>1, Zenon DEF locals
  <2>. DEFINE u == RingNext(RxNum, user_rx_desc)
  <2>2. CASE FrameReady(u) /\ Plan(NextReadSize(u)) /\ UNCHANGED out_length
    BY <1>1, <2>2, RingFacts, SMTT(30) DEF RingType
  <2>. QED  BY <1>4, <2>1, <2>2, Zenon DEF ReadFrameAdvance
<1>5. ASSUME NEW r \in Readers, ReadStreamLock(r)
      PROVE  LocalsType'
  BY <1>5, SMT DEF ReadStreamLock
<1>6. ASSUME NEW r \in Readers, ReadStreamMove(r)
      PROVE  LocalsType'
  <2>. DEFINE n == Lesser(buf[r] - out_length, rx[user_rx_desc].count)
  <2>1. n \in Int
    BY SMT DEF CallersType, RingType, DescType, Lesser
  <2>. HIDE DEF n
  <2>2. out_length' = out_length \/ out_length' = out_length + n
    BY <1>6, Zenon DEF ReadStreamMove, n
  <2>3. out_length' \in Int
    BY <2>1, <2>2, SMT
  <2>. QED  BY <1>6, <2>3, Zenon DEF ReadStreamMove
<1>7. CASE UNCHANGED locals
  BY <1>7, Zenon DEF locals
<1>. QED
  BY <1>2, <1>3, <1>4, <1>5, <1>6, <1>7, Zenon
  DEF Next, Step, ReaderStep, IframeStep, ReadCall, ReadSignal, ReadDown, ReadCheck,
      ReadWait, ReadNoMemory, ReadUp, ReadStreamAdvance, Isr, TimerHandler, IframeLock,
      IframeHead, IframeCopy, IframeReady, PurgeRx, HwFrameWord, HwStreamWord

LEMMA HandlersTypeStep ==
  ASSUME IInv, Next
  PROVE  HandlersType'
<1>. USE DEF IInv, TypeOK, HandlersType
<1>1. CASE Isr \/ TimerHandler \/ IframeStep
  <2>1. raced' \in Nat
    BY <1>1, SMT DEF Isr, TimerHandler, IframeStep, IframeLock, IframeHead, IframeCopy,
       IframeReady
  <2>. QED
    BY <1>1, <2>1, Zenon DEF Isr, TimerHandler, IframeStep, IframeLock, IframeHead,
       IframeCopy, IframeReady
<1>2. CASE UNCHANGED <<timer, isched, ipc>> /\ MayArrive
  BY <1>2, SMT DEF MayArrive
<1>3. CASE UNCHANGED handlers
  BY <1>3, Zenon DEF handlers
<1>. QED
  BY <1>1, <1>2, <1>3, Zenon
  DEF Next, Step, ReaderStep, ReadCall, ReadSignal, ReadDown, ReadCheck, ReadWait,
      ReadNoMemory, ReadUp, ReadFrameLock, ReadFrameMove, ReadFrameAdvance,
      ReadStreamLock, ReadStreamMove, ReadStreamAdvance, PurgeRx, HwFrameWord,
      HwStreamWord

LEMMA PushType ==
  ASSUME CardType, GhostsType, NEW n \in Nat, Push(n)
  PROVE  rxfifo' \in Seq(Nat) /\ arrived' \in Nat
<1>. DEFINE w == [i \in 1 .. 4 |-> IF i <= n THEN arrived + i ELSE 0]
<1>1. w \in Seq(Nat)
  BY SMT DEF GhostsType
<1>2. rxfifo' = rxfifo \o w
  BY DEF Push
<1>3. rxfifo' \in Seq(Nat)
  <2>. HIDE DEF w
  <2>. QED  BY <1>1, <1>2, SMT DEF CardType
<1>4. arrived' \in Nat
  BY SMT DEF Push, GhostsType
<1>. QED  BY <1>3, <1>4

(* The word that comes belongs to the frame on the line.                     *)
LEMMA FrameWordFact ==
  ASSUME IInv, NEW s \in FrameSizes, HwFrameWord(s)
  PROVE  LET n == Lesser(4, s - incoming.done)
         IN /\ s \in Nat /\ incoming.done \in Nat
            /\ incoming.done <= s /\ incoming.done <= arrived
            /\ n \in Nat /\ n <= s - incoming.done
<1>1. s \in Nat \ {0}
  BY SizesAssumption
<1>2. incoming.done \in Nat /\ incoming.done <= incoming.size /\ incoming.done <= arrived
  BY SMT DEF IInv, TypeOK, CardType, LineOK
<1>3. incoming.size = s \/ incoming.done = 0
  BY SMT DEF HwFrameWord, NoFrame
<1>. QED  BY <1>1, <1>2, <1>3, SMT DEF Lesser

LEMMA CardTypeStep ==
  ASSUME IInv, Next
  PROVE  CardType'
<1>. USE DEF IInv, TypeOK, CardType
<1>0. NoFrame \in [size : Nat, done : Nat] /\ <<>> \in Seq(Nat)
  BY SMT DEF NoFrame
<1>1. CASE Isr
  BY <1>1, Zenon DEF Isr
<1>2. CASE IframeHead
  <2>1. CASE UNCHANGED bcfl
    BY <1>2, <2>1, Zenon DEF IframeHead
  <2>2. CASE bcfl # <<>> /\ bcfl' = Tail(bcfl)
    <3>1. bcfl' \in Seq(Nat)
      BY <2>2, SMT
    <3>. QED  BY <1>2, <3>1, Zenon DEF IframeHead
  <2>. QED  BY <1>2, <2>1, <2>2, Zenon DEF IframeHead
<1>3. CASE IframeCopy
  <2>1. WordBytes(ReceiveLength) \in Nat
    BY <1>3, ReceiveFact, Words DEF IframeCopy
  <2>2. rxfifo' \in Seq(Nat)
    BY <1>3, <2>1, RestType, Zenon DEF IframeCopy
  <2>. QED  BY <1>3, <2>2, Zenon DEF IframeCopy
<1>4. CASE PurgeRx
  BY <1>0, <1>4, Zenon DEF PurgeRx
<1>5. ASSUME NEW s \in FrameSizes, HwFrameWord(s)
      PROVE  CardType'
  <2>. DEFINE n == Lesser(4, s - incoming.done)
  <2>1. n \in Nat /\ s \in Nat /\ incoming.done \in Nat
    BY <1>5, FrameWordFact, Zenon
  <2>. HIDE DEF n
  <2>2. rxfifo' \in Seq(Nat)
    BY <1>5, <2>1, PushType, Zenon DEF HwFrameWord, n
  <2>3. Append(bcfl, s) \in Seq(Nat)
    BY <2>1, SMT
  <2>4. [size |-> s, done |-> incoming.done + n] \in [size : Nat, done : Nat]
    BY <2>1, SMT
  <2>5. /\ bcfl' = bcfl \/ bcfl' = Append(bcfl, s)
        /\ incoming' = NoFrame \/ incoming' = [size |-> s, done |-> incoming.done + n]
        /\ irq' \in BOOLEAN
    BY <1>5, Zenon DEF HwFrameWord, n
  <2>. QED  BY <1>0, <2>2, <2>3, <2>4, <2>5, Zenon
<1>6. CASE HwStreamWord
  <2>1. rxfifo' \in Seq(Nat)
    <3>1. 4 \in Nat
      OBVIOUS
    <3>. QED  BY <1>6, <3>1, PushType, Zenon DEF HwStreamWord
  <2>2. irq' \in BOOLEAN
    BY <1>6, Zenon DEF HwStreamWord
  <2>. QED  BY <1>6, <2>1, <2>2, Zenon DEF HwStreamWord
<1>7. CASE UNCHANGED card
  BY <1>7, Zenon DEF card
<1>. QED
  BY <1>1, <1>2, <1>3, <1>4, <1>5, <1>6, <1>7, Zenon
  DEF Next, Step, ReaderStep, IframeStep, ReadCall, ReadSignal, ReadDown, ReadCheck,
      ReadWait, ReadNoMemory, ReadUp, ReadFrameLock, ReadFrameMove, ReadFrameAdvance,
      ReadStreamLock, ReadStreamMove, ReadStreamAdvance, TimerHandler, IframeLock,
      IframeReady

LEMMA GhostsTypeStep ==
  ASSUME IInv, Next
  PROVE  GhostsType'
<1>. USE DEF IInv, TypeOK, GhostsType
<1>1. ASSUME NEW r \in Readers, NEW n, NEW nb, ReadCall(r, n, nb)
      PROVE  GhostsType'
  <2>1. reads' \in Nat
    BY <1>1, SMT DEF ReadCall
  <2>. QED  BY <1>1, <2>1, Zenon DEF ReadCall
<1>2. ASSUME NEW r \in Readers, ReadFrameMove(r)
      PROVE  GhostsType'
  <2>1. FrameOf(out') \in Nat
    BY FrameOfType
  <2>2. Append(got, FrameOf(out')) \in Seq(Nat)
    BY <2>1, SMT
  <2>3. got' = Append(got, FrameOf(out')) \/ got' = got
    BY <1>2, Zenon DEF ReadFrameMove
  <2>. QED  BY <1>2, <2>2, <2>3, Zenon DEF ReadFrameMove
<1>3. ASSUME NEW r \in Readers, ReadStreamMove(r)
      PROVE  GhostsType'
  <2>. DEFINE d == rx[user_rx_desc]
              n == Lesser(buf[r] - out_length, d.count)
  <2>1. n \in Int /\ d.data \in Seq(Nat)
    BY SMT DEF CallersType, LocalsType, RingType, DescType, Lesser
  <2>. HIDE DEF n
  <2>2. Bytes(d.data, n) \in Seq(Nat)
    BY <2>1, BytesType, Zenon
  <2>3. got \o Bytes(d.data, n) \in Seq(Nat)
    BY <2>2, SMT
  <2>4. got' = got \/ got' = got \o Bytes(d.data, n)
    BY <1>3, Zenon DEF ReadStreamMove, n
  <2>. QED  BY <1>3, <2>3, <2>4, Zenon DEF ReadStreamMove
<1>4. CASE PurgeRx
  BY <1>4, Zenon DEF PurgeRx
<1>5. ASSUME NEW s \in FrameSizes, HwFrameWord(s)
      PROVE  GhostsType'
  <2>. DEFINE n == Lesser(4, s - incoming.done)
              f == [first |-> arrived' - s + 1, size |-> s]
  <2>1. /\ n \in Nat /\ s \in Nat /\ incoming.done \in Nat
        /\ incoming.done <= arrived
    BY <1>5, FrameWordFact, Zenon
  <2>. HIDE DEF n
  <2>2. arrived' \in Nat /\ arrived' = arrived + n
    BY <1>5, <2>1, PushType, Zenon DEF HwFrameWord, Push, n
  <2>3. UNCHANGED frames \/ (incoming.done + n = s /\ frames' = Append(frames, f))
    BY <1>5, Zenon DEF HwFrameWord, n
  <2>4. CASE incoming.done + n = s /\ frames' = Append(frames, f)
    <3>1. arrived' - s + 1 \in Nat
      BY <2>1, <2>2, <2>4, SMT
    <3>2. f \in [first : Nat, size : Nat]
      BY <2>1, <3>1, SMT
    <3>. HIDE DEF f
    <3>3. frames' \in Seq([first : Nat, size : Nat])
      BY <2>4, <3>2, SMT
    <3>. QED  BY <1>5, <2>2, <3>3, Zenon DEF HwFrameWord
  <2>5. CASE UNCHANGED frames
    BY <1>5, <2>2, <2>5, Zenon DEF HwFrameWord
  <2>. QED  BY <2>3, <2>4, <2>5
<1>6. CASE HwStreamWord
  <2>1. arrived' \in Nat
    BY <1>6, SMT DEF HwStreamWord, Push
  <2>. QED  BY <1>6, <2>1, Zenon DEF HwStreamWord
<1>7. CASE UNCHANGED ghosts
  BY <1>7, Zenon DEF ghosts
<1>. QED
  BY <1>1, <1>2, <1>3, <1>4, <1>5, <1>6, <1>7, Zenon
  DEF Next, Step, ReaderStep, IframeStep, ReadSignal, ReadDown, ReadCheck,
      ReadWait, ReadNoMemory, ReadUp, ReadFrameLock, ReadFrameAdvance,
      ReadStreamLock, ReadStreamAdvance, Isr, TimerHandler, IframeLock,
      IframeHead, IframeCopy, IframeReady

LEMMA TypeStep ==
  ASSUME IInv, Next
  PROVE  TypeOK'
<1>1. streaming' \in BOOLEAN
  BY DEF IInv, TypeOK, Next
<1>. QED
  BY <1>1, RingTypeStep, CallersTypeStep, LocalsTypeStep, HandlersTypeStep, CardTypeStep,
     GhostsTypeStep, Zenon DEF TypeOK


-----------------------------------------------------------------------------
(* Locks *)

LEMMA OneReaderStep ==
  ASSUME IInv, Next
  PROVE  OneReader'
<1>. USE DEF IInv, TypeOK, CallersType, OneReader, Holding, Goto, Return
<1>1. ASSUME NEW r \in Readers, NEW l, pc[r] \in Holding, Goto(r, l),
             read_sem' = 1 => l \notin Holding
      PROVE  OneReader'
  BY <1>1, Zenon
<1>2. ASSUME NEW r \in Readers, NEW l, pc[r] \notin Holding, l \notin Holding, Goto(r, l),
             UNCHANGED read_sem
      PROVE  OneReader'
  BY <1>2, Zenon
<1>3. ASSUME NEW r \in Readers, ReadDown(r)
      PROVE  OneReader'
  BY <1>3, SMT DEF ReadDown
<1>4. ASSUME NEW r \in Readers, ReadSignal(r) \/ ReadWait(r)
      PROVE  OneReader'
  <2>1. pc[r] \notin Holding /\ UNCHANGED read_sem
    BY <1>4, Zenon DEF ReadSignal, ReadWait
  <2>2. \E l \in {"idle", "down", "asleep"} : Goto(r, l)
    BY <1>4, Zenon DEF ReadSignal, ReadWait
  <2>. QED  BY <1>2, <2>1, <2>2, Zenon
<1>5. ASSUME NEW r \in Readers, NEW n, NEW nb, ReadCall(r, n, nb)
      PROVE  OneReader'
  BY <1>2, <1>5, Zenon DEF ReadCall
<1>6. ASSUME NEW r \in Readers, ReadCheck(r) \/ ReadUp(r)
      PROVE  OneReader'
  <2>1. pc[r] \in Holding
    BY <1>6, Zenon DEF ReadCheck, ReadUp
  <2>2. \/ Goto(r, "lock") /\ UNCHANGED read_sem
        \/ Goto(r, "idle") \/ Goto(r, "wait")
    BY <1>6, Zenon DEF ReadCheck, ReadUp
  <2>3. read_sem = 0
    BY <2>1, SMT
  <2>. QED  BY <1>1, <2>1, <2>2, <2>3, SMT
<1>7. ASSUME NEW r \in Readers, pc[r] \in Holding, NEW l, Goto(r, l), UNCHANGED read_sem
      PROVE  OneReader'
  <2>1. read_sem = 0
    BY <1>7, SMT
  <2>. QED  BY <1>1, <1>7, <2>1, SMT
<1>8. ASSUME NEW r \in Readers, ReadNoMemory(r) \/ ReadFrameLock(r) \/ ReadFrameMove(r)
      PROVE  OneReader'
  <2>1. \E l \in Places : Goto(r, l)
    BY <1>8, Zenon DEF ReadNoMemory, ReadFrameLock, ReadFrameMove, Places
  <2>2. pc[r] \in Holding /\ UNCHANGED read_sem
    BY <1>8, Zenon DEF ReadNoMemory, ReadFrameLock, ReadFrameMove
  <2>. QED  BY <1>7, <2>1, <2>2, Zenon
<1>9. ASSUME NEW r \in Readers, ReadFrameAdvance(r)
      PROVE  OneReader'
  <2>1. Goto(r, "move") \/ Goto(r, "up")
    BY <1>9, Zenon DEF ReadFrameAdvance
  <2>2. pc[r] \in Holding /\ UNCHANGED read_sem
    BY <1>9, Zenon DEF ReadFrameAdvance
  <2>. QED  BY <1>7, <2>1, <2>2, Zenon
<1>10. ASSUME NEW r \in Readers, ReadStreamLock(r) \/ ReadStreamMove(r) \/ ReadStreamAdvance(r)
       PROVE  OneReader'
  <2>1. \E l \in Places : Goto(r, l)
    BY <1>10, Zenon DEF ReadStreamLock, ReadStreamMove, ReadStreamAdvance, Places
  <2>2. pc[r] \in Holding /\ UNCHANGED read_sem
    BY <1>10, Zenon DEF ReadStreamLock, ReadStreamMove, ReadStreamAdvance
  <2>. QED  BY <1>7, <2>1, <2>2, Zenon
<1>11. CASE IframeReady
  <2>1. \A r \in Readers : pc'[r] \in Holding => pc[r] \in Holding
    BY <1>11, Zenon DEF IframeReady
  <2>. QED  BY <1>11, <2>1, Zenon DEF IframeReady
<1>12. CASE UNCHANGED callers
  BY <1>12, Zenon DEF callers
<1>. QED
  BY <1>3, <1>4, <1>5, <1>6, <1>8, <1>9, <1>10, <1>11, <1>12, Zenon
  DEF Next, Step, ReaderStep, IframeStep, Isr, TimerHandler, IframeLock, IframeHead,
      IframeCopy, PurgeRx, HwFrameWord, HwStreamWord

LEMMA OneLockStep ==
  ASSUME IInv, Next
  PROVE  OneLock'
<1>. USE DEF IInv, TypeOK, CallersType, OneLock, Goto, Return
<1>1. ASSUME NEW r \in Readers, NEW l, Goto(r, l), UNCHANGED ipc,
             l \in {"move", "advance"} => ipc \notin {"head", "copy"}
      PROVE  OneLock'
  BY <1>1, Zenon
<1>2. ASSUME NEW r \in Readers,
             \/ ReadSignal(r) \/ ReadDown(r) \/ ReadCheck(r) \/ ReadWait(r)
             \/ ReadNoMemory(r) \/ ReadUp(r)
      PROVE  OneLock'
  <2>1. UNCHANGED ipc
    BY <1>2, Zenon DEF ReadSignal, ReadDown, ReadCheck, ReadWait, ReadNoMemory, ReadUp, handlers
  <2>2. \E l \in {"idle", "check", "lock", "wait", "down", "asleep", "up"} : Goto(r, l)
    BY <1>2, Zenon DEF ReadSignal, ReadDown, ReadCheck, ReadWait, ReadNoMemory, ReadUp
  <2>. QED  BY <1>1, <2>1, <2>2, Zenon
<1>3. ASSUME NEW r \in Readers, NEW n, NEW nb, ReadCall(r, n, nb)
      PROVE  OneLock'
  BY <1>1, <1>3, Zenon DEF ReadCall, handlers
<1>4. ASSUME NEW r \in Readers, ReadFrameLock(r) \/ ReadStreamLock(r)
      PROVE  OneLock'
  <2>1. UNCHANGED ipc /\ ipc \notin {"head", "copy"}
    BY <1>4, Zenon DEF ReadFrameLock, ReadStreamLock, LockFree, handlers
  <2>2. Goto(r, "move") \/ Goto(r, "up")
    BY <1>4, Zenon DEF ReadFrameLock, ReadStreamLock
  <2>. QED  BY <1>1, <2>1, <2>2, Zenon
<1>5. ASSUME NEW r \in Readers,
             \/ ReadFrameMove(r) \/ ReadFrameAdvance(r)
             \/ ReadStreamMove(r) \/ ReadStreamAdvance(r)
      PROVE  OneLock'
  <2>1. UNCHANGED ipc /\ pc[r] \in {"move", "advance"}
    BY <1>5, Zenon DEF ReadFrameMove, ReadFrameAdvance, ReadStreamMove, ReadStreamAdvance, handlers
  <2>2. Goto(r, "move") \/ Goto(r, "up") \/ Goto(r, "advance")
    BY <1>5, Zenon DEF ReadFrameMove, ReadFrameAdvance, ReadStreamMove, ReadStreamAdvance
  <2>. QED  BY <1>1, <2>1, <2>2, Zenon
<1>6. CASE IframeStep
  BY <1>6, Zenon DEF IframeStep, IframeLock, IframeHead, IframeCopy, IframeReady, LockFree,
     callers
<1>7. CASE UNCHANGED <<callers, ipc>>
  BY <1>7, Zenon DEF callers
<1>. QED
  BY <1>2, <1>3, <1>4, <1>5, <1>6, <1>7, Zenon
  DEF Next, Step, ReaderStep, Isr, TimerHandler, PurgeRx, HwFrameWord, HwStreamWord,
      handlers

-----------------------------------------------------------------------------
(* Descriptors, the room of a stream reader and the line *)

LEMMA DescsStep ==
  ASSUME IInv, Next
  PROVE  DescsOK'
<1>. USE DEF IInv, TypeOK, RingType, DescsOK
<1>. DEFINE Fine(d) == (d.fe => d.cstop) /\ (~d.cstop => d.cnt < RxSize)
<1>0. Fine(Free)
  BY FreeIsDesc, SMT
<1>1. ASSUME NEW p \in Position, NEW e, rx' = [rx EXCEPT ![p] = e], Fine(e), ipc' # "copy"
      PROVE  DescsOK'
  BY <1>1, Zenon
<1>2. ASSUME NEW r \in Readers, ReadFrameMove(r)
      PROVE  DescsOK'
  <2>. DEFINE e == [Free EXCEPT !.count = rx[user_rx_desc].count]
  <2>1. Fine(e)
    BY <1>0, SMT DEF Free
  <2>2. ipc' # "copy"
    BY <1>2, Zenon DEF ReadFrameMove, OneLock, handlers
  <2>3. rx' = [rx EXCEPT ![user_rx_desc] = e]
    BY <1>2, Zenon DEF ReadFrameMove
  <2>. QED  BY <1>1, <2>1, <2>2, <2>3, Zenon
<1>3. ASSUME NEW r \in Readers, ReadStreamMove(r)
      PROVE  DescsOK'
  <2>. DEFINE d == rx[user_rx_desc]
              n == Lesser(buf[r] - out_length, d.count)
              e == [d EXCEPT !.data = Rest(d.data, n), !.count = d.count - n]
  <2>1. d \in DescType /\ Fine(d)
    BY Zenon
  <2>2. Fine(e)
    BY <2>1, Zenon DEF DescType
  <2>3. ipc' # "copy"
    BY <1>3, Zenon DEF ReadStreamMove, OneLock, handlers
  <2>4. \/ rx' = rx
        \/ rx' = [rx EXCEPT ![user_rx_desc] = Free]
        \/ rx' = [rx EXCEPT ![user_rx_desc] = e]
    BY <1>3, Zenon DEF ReadStreamMove
  <2>5. CASE rx' = rx
    BY <2>3, <2>5, Zenon
  <2>. QED  BY <1>0, <1>1, <2>2, <2>3, <2>4, <2>5, Zenon
<1>4. CASE IframeHead
  BY <1>4, Zenon DEF IframeHead
<1>5. CASE IframeCopy
  <2>. DEFINE d == rx[fifo_rx_desc]
              n == ReceiveLength
              full == d.cnt + n >= RxSize
              ended == rx_frame_size > 0 /\ rx_bytes_in_frame + n >= rx_frame_size
              finished == full \/ ended
              e == [cstop |-> finished, fe |-> ended,
                    cnt |-> IF ended THEN rx_frame_size
                            ELSE IF full THEN 0 ELSE d.cnt + n,
                    count |-> IF finished THEN RxSize ELSE d.count,
                    data |-> d.data \o Bytes(rxfifo, n)]
  <2>1. n \in Nat /\ d.cnt \in Nat
    BY <1>5, ReceiveFact, SMT DEF IframeCopy, DescType
  <2>2. e.cstop = finished /\ e.fe = ended
        /\ e.cnt = (IF ended THEN rx_frame_size ELSE IF full THEN 0 ELSE d.cnt + n)
    BY Zenon
  <2>3. Fine(e)
    <3>1. e.fe => e.cstop
      BY <2>2, Zenon
    <3>2. ~finished => d.cnt + n < RxSize
      BY <2>1, SMT
    <3>. QED  BY <2>2, <3>1, <3>2, Zenon
  <2>4. rx' = [rx EXCEPT ![fifo_rx_desc] = e] /\ ipc' # "copy"
    BY <1>5, Zenon DEF IframeCopy
  <2>. QED  BY <1>1, <2>3, <2>4, Zenon
<1>6. CASE PurgeRx
  BY <1>0, <1>6, Zenon DEF PurgeRx, LockFree, handlers
<1>7. CASE rx' = rx /\ fifo_rx_desc' = fifo_rx_desc /\ (ipc' = ipc \/ ipc' # "copy")
  BY <1>7, Zenon
<1>. QED
  BY <1>2, <1>3, <1>4, <1>5, <1>6, <1>7, Zenon
  DEF Next, Step, ReaderStep, IframeStep, ReadCall, ReadSignal, ReadDown, ReadCheck,
      ReadWait, ReadNoMemory, ReadUp, ReadFrameLock, ReadFrameAdvance, ReadStreamLock,
      ReadStreamAdvance, Isr, TimerHandler, IframeLock, IframeReady, HwFrameWord,
      HwStreamWord, ring, handlers

LEMMA RoomStep ==
  ASSUME IInv, Next
  PROVE  RoomLeft'
<1>. SUFFICES ASSUME streaming, NEW r \in Readers, pc'[r] \in {"move", "advance"}
              PROVE  (out_length \in Nat /\ out_length <= buf[r])'
  BY Zenon DEF RoomLeft, Next
<1>. USE DEF IInv, TypeOK, CallersType, RoomLeft, Goto, Return
<1>1. CASE ReadStreamLock(r)
  BY <1>1, SMT DEF ReadStreamLock
<1>2. CASE ReadStreamMove(r)
  <2>. DEFINE n == Lesser(buf[r] - out_length, rx[user_rx_desc].count)
  <2>1. rx[user_rx_desc].count \in Nat /\ buf[r] \in Nat
    BY SMT DEF RingType, DescType
  <2>2. out_length \in Nat /\ out_length <= buf[r]
    BY <1>2, Zenon DEF ReadStreamMove
  <2>3. n \in Nat /\ out_length + n <= buf[r]
    BY <2>1, <2>2, SMT DEF Lesser
  <2>4. (out_length' = out_length \/ out_length' = out_length + n) /\ UNCHANGED buf
    BY <1>2, Zenon DEF ReadStreamMove
  <2>. QED  BY <2>2, <2>3, <2>4, SMT
<1>3. CASE ReadStreamAdvance(r)
  BY <1>3, Zenon DEF ReadStreamAdvance, locals
<1>4. ASSUME NEW q \in Readers, ReadStreamLock(q) \/ ReadStreamMove(q), q # r
      PROVE  FALSE
  <2>1. pc[q] \in Holding /\ pc[r] = pc'[r]
    BY <1>4, ZenonT(60) DEF ReadStreamLock, ReadStreamMove, Holding
  <2>2. pc[r] \in Holding
    BY <2>1, Zenon DEF Holding
  <2>. QED  BY <1>4, <2>1, <2>2, Zenon DEF OneReader
<1>5. CASE pc[r] = pc'[r] /\ UNCHANGED <<out_length, buf>>
  BY <1>5, Zenon
<1>6. ASSUME NEW q \in Readers,
             \/ ReadDown(q) \/ ReadCheck(q) \/ ReadWait(q) \/ ReadNoMemory(q) \/ ReadUp(q)
             \/ ReadSignal(q)
      PROVE  pc[r] = pc'[r] /\ UNCHANGED <<out_length, buf>>
  BY <1>6, Zenon DEF ReadDown, ReadCheck, ReadWait, ReadNoMemory, ReadUp, ReadSignal, locals
<1>7. ASSUME NEW q \in Readers, ReadStreamAdvance(q), q # r
      PROVE  pc[r] = pc'[r] /\ UNCHANGED <<out_length, buf>>
  BY <1>7, Zenon DEF ReadStreamAdvance, locals
<1>8. ASSUME NEW q \in Readers, NEW n, NEW nb, ReadCall(q, n, nb)
      PROVE  pc[r] = pc'[r] /\ buf'[r] = buf[r] /\ UNCHANGED out_length
  <2>1. q # r
    BY <1>8, Zenon DEF ReadCall
  <2>. QED  BY <1>8, <2>1, Zenon DEF ReadCall, locals
<1>9. CASE IframeReady
  BY <1>9, Zenon DEF IframeReady, locals
<1>10. CASE UNCHANGED <<callers, locals>>
  BY <1>10, Zenon DEF callers, locals
<1>11. ASSUME NEW q \in Readers, ReaderStep(q)
       PROVE  (out_length \in Nat /\ out_length <= buf[r])'
  <2>1. ~ReadFrameLock(q) /\ ~ReadFrameMove(q) /\ ~ReadFrameAdvance(q)
    BY Zenon DEF ReadFrameLock, ReadFrameMove, ReadFrameAdvance
  <2>. QED  BY <1>1, <1>2, <1>3, <1>4, <1>5, <1>6, <1>7, <1>11, <2>1, Zenon DEF ReaderStep
<1>12. ASSUME NEW q \in Readers, NEW n, NEW nb, ReadCall(q, n, nb)
       PROVE  (out_length \in Nat /\ out_length <= buf[r])'
  BY <1>8, <1>12, Zenon
<1>. QED
  BY <1>5, <1>6, <1>9, <1>10, <1>11, <1>12, Zenon
  DEF Next, Step, IframeStep, Isr, TimerHandler, IframeLock, IframeHead, IframeCopy,
      PurgeRx, HwFrameWord, HwStreamWord

LEMMA LineStep ==
  ASSUME IInv, Next
  PROVE  LineOK'
<1>. USE DEF IInv, TypeOK, LineOK
<1>1. ASSUME NEW s \in FrameSizes, HwFrameWord(s)
      PROVE  LineOK'
  <2>. DEFINE n == Lesser(4, s - incoming.done)
  <2>1. /\ s \in Nat /\ incoming.done \in Nat /\ arrived \in Nat
        /\ incoming.done <= arrived
        /\ n \in Nat /\ n <= s - incoming.done
    BY <1>1, FrameWordFact, Zenon DEF GhostsType
  <2>2. \/ incoming' = NoFrame
        \/ incoming' = [size |-> s, done |-> incoming.done + n]
    BY <1>1, Zenon DEF HwFrameWord
  <2>3. arrived' = arrived + n
    BY <1>1, Zenon DEF HwFrameWord, Push
  <2>. HIDE DEF n
  <2>. QED  BY <2>1, <2>2, <2>3, SMT DEF NoFrame
<1>2. CASE HwStreamWord
  BY <1>2, SMT DEF HwStreamWord, Push, CardType, GhostsType
<1>3. CASE PurgeRx
  BY <1>3, SMT DEF PurgeRx, NoFrame, GhostsType
<1>4. CASE UNCHANGED <<incoming, arrived>>
  BY <1>4, Zenon
<1>. HIDE DEF IInv, TypeOK, LineOK
<1>. QED
  BY <1>1, <1>2, <1>3, <1>4, Zenon
  DEF Next, Step, ReaderStep, IframeStep, ReadCall, ReadSignal, ReadDown, ReadCheck,
      ReadWait, ReadNoMemory, ReadUp, ReadFrameLock, ReadFrameMove, ReadFrameAdvance,
      ReadStreamLock, ReadStreamMove, ReadStreamAdvance, Isr, TimerHandler, IframeLock,
      IframeHead, IframeCopy, IframeReady, card, ghosts


-----------------------------------------------------------------------------
(* The plan of a frame reader *)

LEMMA PlanStep ==
  ASSUME IInv, Next
  PROVE  PlanOK'
<1>. SUFFICES ASSUME ~streaming, NEW r \in Readers, pc'[r] \in {"move", "advance"}
              PROVE  /\ (pc[r] = "move" => PlanFrom(user_rx_desc))'
                     /\ (pc[r] = "advance" /\ bytes_in_descs # 0
                           => PlanFrom(RingNext(RxNum, user_rx_desc)))'
  BY Zenon DEF PlanOK, Next
<1>. USE DEF IInv, TypeOK, CallersType, Goto, Return
<1>1. ASSUME NEW u \in Position, FrameReady(u), Plan(NextReadSize(u)), rx' = rx,
             user_rx_desc' = u, pc'[r] = "move"
      PROVE  PlanFrom(user_rx_desc)'
  <2>1. PICK k \in Position : EndsAt(u, k) /\ NextReadSize(u) = rx[RingAt(RxNum, u, k)].cnt
    BY <1>1, NextFrameFact
  <2>2. NextReadSize(u) \in Nat
    BY <1>1, NextFrameFact
  <2>3. filled_frame_size' + bytes_in_descs' = NextReadSize(u)
    BY <1>1, <2>2, SMT DEF Plan
  <2>4. filled_frame_size' + bytes_in_descs' <= rx'[RingAt(RxNum, u, k)].cnt
    BY <1>1, <2>1, <2>2, <2>3, SMT
  <2>. QED  BY <1>1, <2>1, <2>4, Zenon DEF PlanFrom, EndsAt
<1>2. CASE ReadFrameLock(r)
  <2>1. pc'[r] = "move"
    BY <1>2, Zenon DEF ReadFrameLock
  <2>2. FrameReady(user_rx_desc) /\ Plan(NextReadSize(user_rx_desc)) /\ UNCHANGED ring
    BY <1>2, <2>1, Zenon DEF ReadFrameLock
  <2>. QED  BY <1>1, <2>1, <2>2, Zenon DEF ring, RingType
<1>3. CASE ReadFrameMove(r)
  <2>. DEFINE d == rx[user_rx_desc]
              planned == IF d.fe /\ d.cstop THEN d.cnt - filled_frame_size ELSE d.count
              real == Lesser(planned, total_valid_data)
              e == [Free EXCEPT !.count = d.count]
  <2>1. pc'[r] = "advance"
    BY <1>3, Zenon DEF ReadFrameMove
  <2>. SUFFICES ASSUME bytes_in_descs' # 0
                PROVE  PlanFrom(RingNext(RxNum, user_rx_desc))'
    BY <2>1, Zenon
  <2>2. PICK k \in Position :
          /\ EndsAt(user_rx_desc, k)
          /\ filled_frame_size + bytes_in_descs <= rx[RingAt(RxNum, user_rx_desc, k)].cnt
    BY <1>3, Zenon DEF ReadFrameMove, PlanOK, PlanFrom
  <2>3. d.cnt \in Nat /\ d.count \in Nat /\ user_rx_desc \in Position
    BY SMT DEF RingType, DescType
  <2>4. planned \in Int /\ real \in Int /\ real <= planned
    BY <2>3, SMT DEF LocalsType, Lesser
  <2>. HIDE DEF real, planned
  <2>5. /\ bytes_in_descs' = IF planned > bytes_in_descs THEN 0 ELSE bytes_in_descs - planned
        /\ filled_frame_size' = filled_frame_size + real
        /\ rx' = [rx EXCEPT ![user_rx_desc] = e]
        /\ user_rx_desc' = user_rx_desc
    BY <1>3, Zenon DEF ReadFrameMove, planned, real
  <2>6. bytes_in_descs' = bytes_in_descs - planned /\ planned < bytes_in_descs
    BY <2>4, <2>5, SMT DEF LocalsType
  <2>7. k # 0
    <3>. SUFFICES ASSUME k = 0 PROVE FALSE
      OBVIOUS
    <3>1. RingAt(RxNum, user_rx_desc, k) = user_rx_desc
      BY <2>3, RingFacts
    <3>2. planned = d.cnt - filled_frame_size
      BY <2>2, <3>1, Zenon DEF EndsAt, planned
    <3>. QED  BY <2>2, <2>3, <2>6, <3>1, <3>2, SMT DEF LocalsType
  <2>8. k - 1 \in Position /\ k - 1 \in 0 .. RxNum - 1 /\ (k - 1) + 1 = k
    BY <2>7, SMT
  <2>. DEFINE v == RingNext(RxNum, user_rx_desc)
  <2>9. ASSUME NEW j \in 0 .. RxNum - 1, j + 1 <= k
        PROVE  /\ RingAt(RxNum, v, j) = RingAt(RxNum, user_rx_desc, j + 1)
               /\ rx'[RingAt(RxNum, v, j)] = rx[RingAt(RxNum, user_rx_desc, j + 1)]
    <3>1. RingAt(RxNum, v, j) = RingAt(RxNum, user_rx_desc, j + 1)
      BY <2>3, RingFacts
    <3>2. j + 1 \in 1 .. RxNum - 1 /\ j + 1 \in 0 .. RxNum
      BY <2>9, SMT
    <3>3. /\ RingAt(RxNum, user_rx_desc, j + 1) # user_rx_desc
          /\ RingAt(RxNum, user_rx_desc, j + 1) \in Position
      BY <2>3, <3>2, RingFacts
    <3>. QED  BY <2>5, <3>1, <3>3, Zenon DEF RingType
  <2>10. rx'[RingAt(RxNum, v, k - 1)] = rx[RingAt(RxNum, user_rx_desc, k)]
    BY <2>8, <2>9, SMT
  <2>11. ASSUME NEW j \in 0 .. (k - 1) - 1
         PROVE  /\ rx'[RingAt(RxNum, v, j)].cstop
                /\ ~rx'[RingAt(RxNum, v, j)].fe
    <3>1. j \in 0 .. RxNum - 1 /\ j + 1 <= k /\ j + 1 \in 0 .. k - 1
      BY <2>2, <2>8, SMT
    <3>. QED  BY <2>2, <2>9, <3>1, Zenon DEF EndsAt
  <2>12. filled_frame_size' + bytes_in_descs' <= rx'[RingAt(RxNum, v, k - 1)].cnt
    <3>1. RingAt(RxNum, user_rx_desc, k) \in Position
      BY <2>2, <2>3, RingFacts, SMT
    <3>2. rx[RingAt(RxNum, user_rx_desc, k)].cnt \in Nat
      BY <3>1, SMTT(30) DEF RingType, DescType
    <3>3. filled_frame_size + real + (bytes_in_descs - planned)
            <= filled_frame_size + bytes_in_descs
      BY <2>4, SMT DEF LocalsType
    <3>4. filled_frame_size' + bytes_in_descs' <= filled_frame_size + bytes_in_descs
      BY <2>5, <2>6, <3>3
    <3>5. /\ filled_frame_size' + bytes_in_descs' \in Int
          /\ filled_frame_size + bytes_in_descs \in Int
      BY <2>4, <2>5, <2>6, SMT DEF LocalsType
    <3>6. \A a, b \in Int, c \in Nat : a <= b /\ b <= c => a <= c
      BY SMT
    <3>7. filled_frame_size' + bytes_in_descs' <= rx[RingAt(RxNum, user_rx_desc, k)].cnt
      BY <2>2, <3>2, <3>4, <3>5, <3>6, Zenon
    <3>. QED  BY <2>10, <3>7, Zenon
  <2>. QED
    BY <2>2, <2>5, <2>8, <2>10, <2>11, <2>12, Zenon DEF PlanFrom, EndsAt
<1>4. CASE ReadFrameAdvance(r)
  <2>. DEFINE u == RingNext(RxNum, user_rx_desc)
  <2>1. pc'[r] = "move" /\ user_rx_desc' = u /\ rx' = rx /\ u \in Position
    BY <1>4, RingFacts, Zenon DEF ReadFrameAdvance, RingType
  <2>2. CASE bytes_in_descs # 0
    <3>1. PlanFrom(u) /\ UNCHANGED locals
      BY <1>4, <2>2, Zenon DEF ReadFrameAdvance, PlanOK
    <3>2. filled_frame_size' = filled_frame_size /\ bytes_in_descs' = bytes_in_descs
      BY <3>1, Zenon DEF locals
    <3>. HIDE DEF u
    <3>3. PlanFrom(user_rx_desc)'
      BY <2>1, <3>1, <3>2, Zenon DEF PlanFrom, EndsAt
    <3>. QED  BY <2>1, <3>3, Zenon
  <2>3. CASE bytes_in_descs = 0
    <3>1. FrameReady(u) /\ Plan(NextReadSize(u))
      BY <1>4, <2>1, <2>3, Zenon DEF ReadFrameAdvance
    <3>. QED  BY <1>1, <2>1, <3>1, Zenon
  <2>. QED  BY <2>2, <2>3
<1>5. CASE pc[r] = pc'[r] /\ UNCHANGED <<ring, locals>>
  BY <1>5, Zenon DEF PlanOK, PlanFrom, EndsAt, ring, locals
<1>6. ASSUME NEW q \in Readers, q # r,
             ReadFrameLock(q) \/ ReadFrameMove(q) \/ ReadFrameAdvance(q)
      PROVE  FALSE
  <2>1. pc[q] \in Holding /\ pc[r] = pc'[r]
    <3>1. CASE ReadFrameLock(q)
      BY <1>6, <3>1, Zenon DEF ReadFrameLock, Holding
    <3>2. CASE ReadFrameMove(q)
      BY <1>6, <3>2, Zenon DEF ReadFrameMove, Holding
    <3>3. CASE ReadFrameAdvance(q)
      BY <1>6, <3>3, Zenon DEF ReadFrameAdvance, Holding
    <3>. QED  BY <1>6, <3>1, <3>2, <3>3
  <2>2. pc[r] \in Holding
    BY <2>1, Zenon DEF Holding
  <2>. QED  BY <1>6, <2>1, <2>2, Zenon DEF OneReader
<1>7. ASSUME NEW q \in Readers,
             \/ ReadDown(q) \/ ReadCheck(q) \/ ReadWait(q) \/ ReadNoMemory(q) \/ ReadUp(q)
             \/ ReadSignal(q)
      PROVE  pc[r] = pc'[r] /\ UNCHANGED <<ring, locals>>
  BY <1>7, Zenon DEF ReadDown, ReadCheck, ReadWait, ReadNoMemory, ReadUp, ReadSignal
<1>8. ASSUME NEW q \in Readers, ReaderStep(q)
      PROVE  \/ pc[r] = pc'[r] /\ UNCHANGED <<ring, locals>>
             \/ ReadFrameLock(r) \/ ReadFrameMove(r) \/ ReadFrameAdvance(r)
  <2>1. ~ReadStreamLock(q) /\ ~ReadStreamMove(q) /\ ~ReadStreamAdvance(q)
    BY Zenon DEF ReadStreamLock, ReadStreamMove, ReadStreamAdvance
  <2>. QED  BY <1>6, <1>7, <1>8, <2>1, Zenon DEF ReaderStep
<1>9. ASSUME NEW q \in Readers, NEW n, NEW nb, ReadCall(q, n, nb)
      PROVE  pc[r] = pc'[r] /\ UNCHANGED <<ring, locals>>
  BY <1>9, Zenon DEF ReadCall
<1>10. CASE IframeHead \/ IframeCopy \/ PurgeRx
  <2>1. pc[r] \notin {"move", "advance"}
    BY <1>10, Zenon DEF IframeHead, IframeCopy, PurgeRx, LockFree, OneLock
  <2>. QED  BY <1>10, <2>1, Zenon DEF IframeHead, IframeCopy, PurgeRx, callers
<1>11. CASE IframeReady
  <2>1. pc[r] = pc'[r] /\ UNCHANGED <<ring, locals>>
    BY <1>11, Zenon DEF IframeReady
  <2>. QED  BY <1>5, <2>1
<1>12. CASE UNCHANGED <<ring, callers, locals>>
  BY <1>5, <1>12, Zenon DEF callers
<1>. QED
  BY <1>2, <1>3, <1>4, <1>5, <1>7, <1>8, <1>9, <1>10, <1>11, <1>12, Zenon
  DEF Next, Step, IframeStep, Isr, TimerHandler, IframeLock, HwFrameWord, HwStreamWord

-----------------------------------------------------------------------------
(* The row of finished descriptors *)

LEMMA GiveBack ==
  ASSUME NEW r, NEW s, NEW f, NEW u \in Position, NEW q \in 0 .. RxNum, InRow(r, f, u, q),
         r[u].cstop, ~s[u].cstop,
         \A p \in Position \ {u} : s[p].cstop <=> r[p].cstop
  PROVE  q - 1 \in 0 .. RxNum /\ InRow(s, f, RingNext(RxNum, u), q - 1)
<1>1. 0 \in 0 .. RxNum - 1 /\ RingAt(RxNum, u, 0) = u
  BY RingFacts, SMT
<1>2. 0 < q
  BY <1>1, Zenon DEF InRow
<1>3. q - 1 \in 0 .. RxNum - 1 /\ q - 1 \in 0 .. RxNum /\ (q - 1) + 1 = q
  BY <1>2, SMT
<1>4. f = RingAt(RxNum, RingNext(RxNum, u), q - 1)
  <2>1. RingAt(RxNum, RingNext(RxNum, u), q - 1) = RingAt(RxNum, u, (q - 1) + 1)
    BY <1>3, RingFacts
  <2>. QED  BY <1>3, <2>1 DEF InRow
<1>5. ASSUME NEW k \in 0 .. RxNum - 1
      PROVE  s[RingAt(RxNum, RingNext(RxNum, u), k)].cstop <=> k < q - 1
  <2>1. RingAt(RxNum, RingNext(RxNum, u), k) = RingAt(RxNum, u, k + 1)
    BY RingFacts
  <2>2. CASE k + 1 = RxNum
    <3>1. RingAt(RxNum, u, k + 1) = u
      BY <2>2, RingFacts
    <3>2. ~(k < q - 1)
      BY <2>2, SMT
    <3>. QED  BY <2>1, <3>1, <3>2, Zenon
  <2>3. CASE k + 1 # RxNum
    <3>1. k + 1 \in 0 .. RxNum - 1 /\ k + 1 \in 1 .. RxNum - 1 /\ k + 1 \in 0 .. RxNum
      BY <2>3, SMT
    <3>2. RingAt(RxNum, u, k + 1) \in Position \ {u}
      BY <3>1, RingFacts, Zenon
    <3>3. s[RingAt(RxNum, u, k + 1)].cstop <=> k + 1 < q
      BY <3>1, <3>2, Zenon DEF InRow
    <3>4. k + 1 < q <=> k < q - 1
      BY SMT
    <3>. QED  BY <2>1, <3>3, <3>4, Zenon
  <2>. QED  BY <2>2, <2>3
<1>. QED  BY <1>3, <1>4, <1>5, Zenon DEF InRow

LEMMA Finish ==
  ASSUME NEW r, NEW s, NEW f, NEW u \in Position, NEW q \in 0 .. RxNum, InRow(r, f, u, q),
         ~r[f].cstop, s[f].cstop,
         \A p \in Position \ {f} : s[p].cstop <=> r[p].cstop
  PROVE  q + 1 \in 0 .. RxNum /\ InRow(s, RingNext(RxNum, f), u, q + 1)
<1>1. 0 \in 0 .. RxNum - 1 /\ RingAt(RxNum, u, 0) = u
  BY RingFacts, SMT
<1>2. q # RxNum
  <2>. SUFFICES ASSUME q = RxNum PROVE FALSE
    OBVIOUS
  <2>1. f = u /\ 0 < q
    BY RingFacts, SMT DEF InRow
  <2>. QED  BY <1>1, <2>1, Zenon DEF InRow
<1>3. q \in 0 .. RxNum - 1 /\ q + 1 \in 0 .. RxNum /\ q < q + 1
  BY <1>2, SMT
<1>4. RingNext(RxNum, f) = RingAt(RxNum, u, q + 1)
  BY <1>3, RingFacts, ZenonT(60) DEF InRow
<1>5. ASSUME NEW k \in 0 .. RxNum - 1
      PROVE  s[RingAt(RxNum, u, k)].cstop <=> k < q + 1
  <2>1. CASE k = q
    BY <1>3, <2>1, Zenon DEF InRow
  <2>2. CASE k # q
    <3>1. RingAt(RxNum, u, k) # f
      BY <1>3, <2>2, RingInjective, Zenon DEF InRow
    <3>2. k \in 0 .. RxNum
      BY SMT
    <3>3. RingAt(RxNum, u, k) \in Position \ {f}
      BY <3>1, <3>2, RingFacts, Zenon
    <3>4. s[RingAt(RxNum, u, k)].cstop <=> k < q
      BY <3>3, Zenon DEF InRow
    <3>5. k < q <=> k < q + 1
      BY <2>2, SMT
    <3>. QED  BY <3>4, <3>5, Zenon
  <2>. QED  BY <2>1, <2>2
<1>. QED  BY <1>3, <1>4, <1>5, Zenon DEF InRow

LEMMA RowStep ==
  ASSUME IInv, Next
  PROVE  FinishedInRow'
<1>. USE DEF IInv, TypeOK, CallersType, RingType, Goto, Return
<1>1. FinishedInRow' <=> \E q \in 0 .. RxNum : InRow(rx', fifo_rx_desc', Front', q)
  BY Zenon DEF FinishedInRow, InRow, Front
<1>2. PICK q \in 0 .. RxNum : InRow(rx, fifo_rx_desc, Front, q)
  BY RowFact
<1>3. Front \in Position
  BY RingFacts, Zenon DEF Front
<1>4. ASSUME Front' = Front, fifo_rx_desc' = fifo_rx_desc,
             \A p \in Position : rx'[p].cstop <=> rx[p].cstop
      PROVE  FinishedInRow'
  <2>1. \A k \in 0 .. RxNum - 1 : RingAt(RxNum, Front, k) \in Position
    BY <1>3, SMT DEF RingAt
  <2>2. InRow(rx', fifo_rx_desc', Front', q)
    BY <1>2, <1>4, <2>1, Zenon DEF InRow
  <2>. QED  BY <1>1, <2>2, Zenon
<1>5. ASSUME NEW r \in Readers, pc[r] \in Holding, pc[r] # "advance"
      PROVE  Front = user_rx_desc
  BY <1>5, Zenon DEF Front, OneReader, Holding
<1>6. ASSUME UNCHANGED user_rx_desc,
             \A r \in Readers : pc'[r] = "advance" <=> pc[r] = "advance"
      PROVE  Front' = Front
  BY <1>6, Zenon DEF Front
<1>7. ASSUME NEW r \in Readers, pc[r] = "move", Goto(r, "advance"),
             rx[user_rx_desc].cstop, NEW e, ~e.cstop,
             rx' = [rx EXCEPT ![user_rx_desc] = e],
             UNCHANGED <<user_rx_desc, fifo_rx_desc>>
      PROVE  FinishedInRow'
  <2>1. Front = user_rx_desc
    BY <1>5, <1>7, Zenon DEF Holding
  <2>2. Front' = RingNext(RxNum, user_rx_desc)
    BY <1>7, Zenon DEF Front
  <2>3. ~rx'[user_rx_desc].cstop
    BY <1>7, Zenon
  <2>4. \A p \in Position \ {user_rx_desc} : rx'[p].cstop <=> rx[p].cstop
    BY <1>7, Zenon
  <2>5. InRow(rx, fifo_rx_desc, user_rx_desc, q)
    BY <1>2, <2>1
  <2>6. q - 1 \in 0 .. RxNum
        /\ InRow(rx', fifo_rx_desc, RingNext(RxNum, user_rx_desc), q - 1)
    BY <1>7, <2>3, <2>4, <2>5, GiveBack
  <2>. QED  BY <1>1, <1>7, <2>2, <2>6, Zenon
<1>8. ASSUME NEW r \in Readers, ReadFrameMove(r)
      PROVE  FinishedInRow'
  <2>. DEFINE e == [Free EXCEPT !.count = rx[user_rx_desc].count]
  <2>1. ~e.cstop
    BY Zenon DEF Free
  <2>2. PICK k \in Position : EndsAt(user_rx_desc, k)
    BY <1>8, Zenon DEF ReadFrameMove, PlanOK, PlanFrom
  <2>3. RingAt(RxNum, user_rx_desc, 0) = user_rx_desc
    BY RingFacts
  <2>4. k = 0 \/ 0 \in 0 .. k - 1
    BY SMT
  <2>5. rx[user_rx_desc].cstop
    BY <2>2, <2>3, <2>4, Zenon DEF EndsAt
  <2>6. /\ rx' = [rx EXCEPT ![user_rx_desc] = e]
        /\ UNCHANGED <<user_rx_desc, fifo_rx_desc>>
        /\ pc[r] = "move" /\ Goto(r, "advance")
    BY <1>8, Zenon DEF ReadFrameMove
  <2>. QED  BY <1>7, <2>1, <2>5, <2>6, Zenon
<1>9. ASSUME NEW r \in Readers, ReadStreamMove(r)
      PROVE  FinishedInRow'
  <2>. DEFINE d == rx[user_rx_desc]
              n == Lesser(buf[r] - out_length, d.count)
              e == [d EXCEPT !.data = Rest(d.data, n), !.count = d.count - n]
  <2>1. d \in DescType /\ (d.fe => d.cstop)
    BY Zenon DEF DescsOK
  <2>2. e.cstop <=> d.cstop
    BY <2>1, Zenon DEF DescType
  <2>3. pc[r] = "move" /\ UNCHANGED <<user_rx_desc, fifo_rx_desc>>
    BY <1>9, Zenon DEF ReadStreamMove
  <2>4. \/ rx' = rx /\ Goto(r, "up")
        \/ rx' = [rx EXCEPT ![user_rx_desc] = e] /\ Goto(r, "up")
        \/ d.cstop /\ rx' = [rx EXCEPT ![user_rx_desc] = Free] /\ Goto(r, "advance")
    BY <1>9, <2>1, Zenon DEF ReadStreamMove
  <2>5. CASE Goto(r, "up") /\ (rx' = rx \/ rx' = [rx EXCEPT ![user_rx_desc] = e])
    <3>1. Front' = Front
      BY <1>6, <2>3, <2>5, Zenon
    <3>2. \A p \in Position : rx'[p].cstop <=> rx[p].cstop
      BY <2>2, <2>5, Zenon
    <3>. QED  BY <1>4, <2>3, <3>1, <3>2, Zenon
  <2>6. CASE d.cstop /\ rx' = [rx EXCEPT ![user_rx_desc] = Free] /\ Goto(r, "advance")
    <3>1. ~Free.cstop
      BY FreeIsDesc
    <3>. QED  BY <1>7, <2>3, <2>6, <3>1, Zenon
  <2>. QED  BY <2>4, <2>5, <2>6
<1>10. ASSUME NEW r \in Readers, ReadFrameAdvance(r) \/ ReadStreamAdvance(r)
       PROVE  FinishedInRow'
  <2>1. /\ pc[r] = "advance" /\ UNCHANGED <<rx, fifo_rx_desc>>
        /\ user_rx_desc' = RingNext(RxNum, user_rx_desc)
    BY <1>10, Zenon DEF ReadFrameAdvance, ReadStreamAdvance
  <2>2. Goto(r, "move") \/ Goto(r, "up")
    BY <1>10, Zenon DEF ReadFrameAdvance, ReadStreamAdvance
  <2>3. Front = user_rx_desc'
    BY <2>1, Zenon DEF Front
  <2>4. \A p \in Readers : pc'[p] # "advance"
    BY <2>1, <2>2, Zenon DEF OneReader, Holding
  <2>5. Front' = user_rx_desc'
    BY <2>4, Zenon DEF Front
  <2>. QED  BY <1>4, <2>1, <2>3, <2>5, Zenon
<1>11. CASE IframeCopy
  <2>. DEFINE d == rx[fifo_rx_desc]
              n == ReceiveLength
              full == d.cnt + n >= RxSize
              ended == rx_frame_size > 0 /\ rx_bytes_in_frame + n >= rx_frame_size
              finished == full \/ ended
              e == [cstop |-> finished, fe |-> ended,
                    cnt |-> IF ended THEN rx_frame_size
                            ELSE IF full THEN 0 ELSE d.cnt + n,
                    count |-> IF finished THEN RxSize ELSE d.count,
                    data |-> d.data \o Bytes(rxfifo, n)]
  <2>1. ~d.cstop
    BY <1>11, Zenon DEF IframeCopy, DescsOK
  <2>2. /\ rx' = [rx EXCEPT ![fifo_rx_desc] = e]
        /\ fifo_rx_desc' = IF finished THEN RingNext(RxNum, fifo_rx_desc) ELSE fifo_rx_desc
        /\ UNCHANGED user_rx_desc /\ pc' = pc
    BY <1>11, Zenon DEF IframeCopy, callers
  <2>3. e.cstop <=> finished
    BY Zenon
  <2>4. Front' = Front
    BY <1>6, <2>2, Zenon
  <2>. HIDE DEF e, finished
  <2>5. \A p \in Position \ {fifo_rx_desc} : rx'[p].cstop <=> rx[p].cstop
    BY <2>2, Zenon
  <2>6. rx'[fifo_rx_desc].cstop <=> finished
    BY <2>2, <2>3, Zenon
  <2>7. CASE finished
    <3>1. q + 1 \in 0 .. RxNum
          /\ InRow(rx', RingNext(RxNum, fifo_rx_desc), Front, q + 1)
      BY <1>2, <1>3, <2>1, <2>5, <2>6, <2>7, Finish
    <3>. QED  BY <1>1, <2>2, <2>4, <2>7, <3>1, Zenon
  <2>8. CASE ~finished
    <3>1. \A p \in Position : rx'[p].cstop <=> rx[p].cstop
      BY <2>1, <2>5, <2>6, <2>8, Zenon
    <3>. QED  BY <1>4, <2>2, <2>4, <2>8, <3>1, Zenon
  <2>. QED  BY <2>7, <2>8
<1>12. CASE PurgeRx
  <2>1. pc' = pc /\ user_rx_desc' = 0 /\ fifo_rx_desc' = 0
        /\ rx' = [i \in Position |-> Free]
    BY <1>12, Zenon DEF PurgeRx, callers
  <2>2. Front' = 0
    BY <1>12, <2>1, Zenon DEF PurgeRx, LockFree, Front
  <2>3. 0 \in 0 .. RxNum /\ InRow(rx', 0, 0, 0)
    BY <2>1, FreeIsDesc, SMT DEF InRow, RingAt
  <2>. QED  BY <1>1, <2>1, <2>2, <2>3, Zenon
<1>13. CASE IframeHead \/ IframeReady
  <2>1. UNCHANGED <<rx, user_rx_desc, fifo_rx_desc>>
    BY <1>13, Zenon DEF IframeHead, IframeReady, ring
  <2>2. \A r \in Readers : pc'[r] = "advance" <=> pc[r] = "advance"
    BY <1>13, Zenon DEF IframeHead, IframeReady, callers
  <2>3. Front' = Front
    BY <1>6, <2>1, <2>2, Zenon
  <2>. QED  BY <1>4, <2>1, <2>3, Zenon
<1>14. ASSUME NEW r \in Readers,
              \/ ReadDown(r) \/ ReadCheck(r) \/ ReadWait(r) \/ ReadNoMemory(r) \/ ReadUp(r)
              \/ ReadSignal(r) \/ ReadFrameLock(r) \/ ReadStreamLock(r)
       PROVE  FinishedInRow'
  <2>1. UNCHANGED <<rx, user_rx_desc, fifo_rx_desc>> /\ pc[r] # "advance"
    BY <1>14, Zenon DEF ReadDown, ReadCheck, ReadWait, ReadNoMemory, ReadUp, ReadSignal,
       ReadFrameLock, ReadStreamLock, ring
  <2>2. \E l \in Places \ {"advance"} : Goto(r, l)
    BY <1>14, Zenon DEF ReadDown, ReadCheck, ReadWait, ReadNoMemory, ReadUp, ReadSignal,
       ReadFrameLock, ReadStreamLock, Places
  <2>3. Front' = Front
    BY <1>6, <2>1, <2>2, Zenon
  <2>. QED  BY <1>4, <2>1, <2>3, Zenon
<1>15. ASSUME NEW r \in Readers, NEW n, NEW nb, ReadCall(r, n, nb)
       PROVE  FinishedInRow'
  <2>1. UNCHANGED <<rx, user_rx_desc, fifo_rx_desc>> /\ pc[r] = "idle" /\ Goto(r, "down")
    BY <1>15, Zenon DEF ReadCall, ring
  <2>2. Front' = Front
    BY <1>6, <2>1, Zenon
  <2>. QED  BY <1>4, <2>1, <2>2, Zenon
<1>16. CASE UNCHANGED <<ring, callers>>
  <2>1. UNCHANGED <<rx, user_rx_desc, fifo_rx_desc, pc>>
    BY <1>16, Zenon DEF ring, callers
  <2>2. Front' = Front
    BY <1>6, <2>1, Zenon
  <2>. QED  BY <1>4, <2>1, <2>2, Zenon
<1>. QED
  BY <1>8, <1>9, <1>10, <1>11, <1>12, <1>13, <1>14, <1>15, <1>16, Zenon
  DEF Next, Step, ReaderStep, IframeStep, Isr, TimerHandler, IframeLock, HwFrameWord,
      HwStreamWord

-----------------------------------------------------------------------------
(* The theorems *)

LEMMA Inductive ==
  ASSUME IInv, [Next]_vars
  PROVE  IInv'
<1>1. CASE Next
  BY <1>1, TypeStep, OneReaderStep, OneLockStep, DescsStep, RoomStep, PlanStep, LineStep,
     RowStep, Zenon DEF IInv
<1>2. CASE UNCHANGED vars
  <2>. USE <1>2 DEF IInv, vars, state, ring, callers, locals, handlers, card, ghosts
  <2>1. TypeOK'
    BY Zenon DEF TypeOK, RingType, CallersType, LocalsType, HandlersType, CardType, GhostsType
  <2>2. OneReader' /\ OneLock' /\ DescsOK' /\ RoomLeft' /\ LineOK'
    BY Zenon DEF OneReader, OneLock, DescsOK, RoomLeft, LineOK
  <2>3. PlanOK'
    BY Zenon DEF PlanOK, PlanFrom, EndsAt
  <2>4. FinishedInRow'
    BY Zenon DEF FinishedInRow
  <2>. QED  BY <2>1, <2>2, <2>3, <2>4
<1>. QED  BY <1>1, <1>2

LEMMA Invariance == Spec => []IInv
BY InitHolds, Inductive, PTL DEF Spec

(* Receive types: every variable of the receive path keeps its type; what a  *)
(* read still has to take from the ring is never less than nothing.          *)
THEOREM ReceiveTypeCorrect == Spec => []TypeOK
<1>1. IInv => TypeOK
  BY DEF IInv
<1>. QED  BY <1>1, Invariance, PTL

(* The two loops over the receive ring: whatever the frames, the buffers and *)
(* the size of the ring, the finished descriptors lie in a row from the      *)
(* readers' index to the tasklet's.                                          *)
THEOREM FinishedStayInRow == Spec => []FinishedInRow
<1>1. IInv => FinishedInRow
  BY DEF IInv
<1>. QED  BY <1>1, Invariance, PTL

=============================================================================
