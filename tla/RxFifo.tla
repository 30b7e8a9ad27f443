-------------------------------- MODULE RxFifo --------------------------------
(***************************************************************************)
(* The receive path of a port in FIFO (non-DMA) mode.                       *)
(*                                                                          *)
(* The card puts received bytes, as 32-bit words, in its receive FIFO and,  *)
(* at the end of a frame, the size of the frame in its byte count FIFO.  It *)
(* interrupts; the interrupt handler schedules the iframe tasklet and arms  *)
(* a one-shot timer that schedules it again (isr.c).  The tasklet moves     *)
(* data from the FIFO into a ring of RxNum descriptors and wakes read()     *)
(* callers (io.c fscc_fifo_read_data).  read() takes whole frames, or in    *)
(* the streaming modes bytes, out of the ring (io.c fscc_user_read_frame,   *)
(* fscc_user_read_stream).  A purge resets the ring and the card.           *)
(*                                                                          *)
(* A byte is its number on the line, 0 what fills the last word of a frame  *)
(* or was never received.  Timestamps are left out.                         *)
(***************************************************************************)
EXTENDS Integers, Sequences, FiniteSets, Ring

CONSTANTS
  Readers,       \* processes that call read()
  RxNum,         \* memory.RxNum: descriptors in the ring
  RxSize,        \* memory.RxSize: bytes in a descriptor
  Streamings,    \* the values fscc_port_is_streaming may have
  AppendStatus,  \* append_status: keep the two status bytes of a frame
  TimestampSize, \* what append_timestamp adds to a frame; 0 when it is off
  RxMultiple,    \* rx_multiple: a read may return several frames
  FrameSizes,    \* the sizes of the frames on the line, status included
  BufSizes,      \* the sizes of the buffers read() is given
  NonblockFlags, \* whether a reader may have set O_NONBLOCK
  RxTrigger,     \* the bytes in the FIFO from which the card interrupts
  RaceWords,     \* words that may arrive between the tasklet's two reads
  RresSeen,      \* whether the receive reset command reaches the card
  MaxBytes,      \* bound on the bytes on the line, in frames
  MaxStream,     \* and in the streaming modes
  MaxReads,      \* bound on the number of read() calls
  MaxPurges      \* bound on the number of purges

ASSUME RxNumAssumption == RxNum \in Nat \ {0}
ASSUME RxSizeAssumption == RxSize \in Nat \ {0}
ASSUME FlagsAssumption ==
  /\ Streamings \subseteq BOOLEAN /\ AppendStatus \in BOOLEAN /\ RxMultiple \in BOOLEAN
  /\ NonblockFlags \subseteq BOOLEAN /\ RresSeen \subseteq BOOLEAN
ASSUME SizesAssumption ==
  /\ FrameSizes \subseteq Nat \ {0} /\ BufSizes \subseteq Nat \ {0}
  /\ TimestampSize \in Nat /\ RxTrigger \in Nat
ASSUME BoundsAssumption ==
  /\ RaceWords \in Nat /\ MaxBytes \in Nat /\ MaxStream \in Nat
  /\ MaxReads \in Nat /\ MaxPurges \in Nat

VARIABLES
  streaming,         \* fscc_port_is_streaming: the mode bits of CCR0
  (* the driver's receive ring, under board_rx_spinlock *)
  rx,                \* rx_descriptors
  user_rx_desc,      \* next descriptor a reader empties
  fifo_rx_desc,      \* next descriptor the tasklet fills
  rx_frame_size,     \* size of the frame being moved; 0 when not known yet
  rx_bytes_in_frame, \* how much of it has been moved
  (* read() callers *)
  read_sem,          \* read_semaphore: 1 when free
  pc, buf, nonblock, ret,
  bytes_in_descs, total_valid_data, filled_frame_size, \* locals of the reader
  out,               \*   that is inside: bytes of the current frame,
  out_length,        \*   bytes moved in all
  (* interrupt handler, timer and the iframe tasklet *)
  timer, isched, ipc,
  raced,             \* words that arrived since the tasklet looked at RFCNT
  (* the card *)
  rxfifo,            \* the bytes in the receive FIFO, a multiple of 4
  bcfl,              \* the sizes of the complete frames: RFCNT is its length
  incoming,          \* the frame on the line: its size and the bytes received
  irq,
  (* ghosts *)
  arrived,           \* bytes received
  frames,            \* the frames received: their first byte and their size
  got,               \* what read() returned: frames, 0 for one that is none;
                     \*   in the streaming modes bytes
  cuts,              \* the values of arrived at the purges
  reads

ring == <<rx, user_rx_desc, fifo_rx_desc, rx_frame_size, rx_bytes_in_frame>>
locals == <<bytes_in_descs, total_valid_data, filled_frame_size, out, out_length>>
callers == <<read_sem, pc, buf, nonblock, ret>>
handlers == <<timer, isched, ipc, raced>>
card == <<rxfifo, bcfl, incoming, irq>>
ghosts == <<arrived, frames, got, cuts, reads>>
state == <<ring, callers, locals, handlers, card, ghosts>>
vars == <<streaming, state>>

-------------------------------------------------------------------------------
Position == 0 .. RxNum - 1

Lesser(a, b) == IF a <= b THEN a ELSE b

Free == [cstop |-> FALSE, fe |-> FALSE, cnt |-> 0, count |-> RxSize, data |-> <<>>]

(* The first n of the bytes s; past their end, whatever is there. *)
Bytes(s, n) == [i \in 1 .. n |-> IF i <= Len(s) THEN s[i] ELSE 0]

(* What is left of s after its first n bytes. *)
Rest(s, n) == SubSeq(s, n + 1, Len(s))

(* Bytes read from or put into the FIFO as whole words. *)
WordBytes(n) == 4 * ((n + 3) \div 4)

(* fscc_user_next_read_size from descriptor u: the first k descriptors are  *)
(* full, the next one ends a frame and its CNT is the size of the frame.     *)
EndsAt(u, k) ==
  /\ rx[RingAt(RxNum, u, k)].cstop /\ rx[RingAt(RxNum, u, k)].fe
  /\ \A j \in 0 .. k - 1 :
       rx[RingAt(RxNum, u, j)].cstop /\ ~rx[RingAt(RxNum, u, j)].fe

(* Mutation: only the first descriptor is looked at. *)
FrameReadyFirstOnly(u) == EndsAt(u, 0)

FrameReady(u) == \E k \in Position : EndsAt(u, k)
NextReadSize(u) ==
  rx[RingAt(RxNum, u, CHOOSE k \in Position : EndsAt(u, k))].cnt

(* fscc_io_user_read_ready; a finished descriptor always has data. *)
ReadReady ==
  IF streaming THEN rx[user_rx_desc].cstop ELSE FrameReady(user_rx_desc)

(* Mutation: readers do not take the lock. *)
LockFreeOfTasklet == ipc \notin {"head", "copy"}

(* board_rx_spinlock is held in the tasklet's and the reader's loops. *)
LockFree == ipc \notin {"head", "copy"} /\ \A r \in Readers : pc[r] \notin {"move", "advance"}

NoFrame == [size |-> 0, done |-> 0]

Init ==
  /\ streaming \in Streamings
  /\ rx = [i \in Position |-> Free]
  /\ user_rx_desc = 0 /\ fifo_rx_desc = 0
  /\ rx_frame_size = 0 /\ rx_bytes_in_frame = 0
  /\ read_sem = 1
  /\ pc = [r \in Readers |-> "idle"]
  /\ buf = [r \in Readers |-> 0]
  /\ nonblock = [r \in Readers |-> FALSE]
  /\ ret = [r \in Readers |-> "none"]
  /\ bytes_in_descs = 0 /\ total_valid_data = 0 /\ filled_frame_size = 0
  /\ out = <<>> /\ out_length = 0
  /\ timer = FALSE /\ isched = FALSE /\ ipc = "idle" /\ raced = 0
  /\ rxfifo = <<>> /\ bcfl = <<>> /\ incoming = NoFrame /\ irq = FALSE
  /\ arrived = 0 /\ frames = <<>> /\ got = <<>> /\ cuts = {} /\ reads = 0

-------------------------------------------------------------------------------
(* read() up to the copy *)

Goto(r, l) == pc' = [pc EXCEPT ![r] = l]
Return(r, v) == Goto(r, "idle") /\ ret' = [ret EXCEPT ![r] = v]

ReadCall(r, n, nb) ==
  /\ pc[r] = "idle" /\ reads < MaxReads
  /\ reads' = reads + 1
  /\ buf' = [buf EXCEPT ![r] = n]
  /\ nonblock' = [nonblock EXCEPT ![r] = nb]
  /\ ret' = [ret EXCEPT ![r] = "none"]
  /\ Goto(r, "down")
  /\ UNCHANGED <<ring, read_sem, locals, handlers, card, arrived, frames, got, cuts>>

ReadDown(r) ==
  /\ pc[r] = "down" /\ read_sem = 1
  /\ read_sem' = 0
  /\ Goto(r, "check")
  /\ UNCHANGED <<ring, buf, nonblock, ret, locals, handlers, card, ghosts>>

ReadSignal(r) ==
  /\ pc[r] \in {"down", "wait", "asleep"}
  /\ Return(r, "ERESTARTSYS")
  /\ UNCHANGED <<ring, read_sem, buf, nonblock, locals, handlers, card, ghosts>>

(* The test of the while loop; it takes no spinlock. *)
ReadCheck(r) ==
  /\ pc[r] = "check"
  /\ IF ReadReady
       THEN Goto(r, "lock") /\ UNCHANGED <<read_sem, ret>>
       ELSE /\ read_sem' = 1
            /\ IF nonblock[r]
                 THEN Return(r, "EAGAIN")
                 ELSE Goto(r, "wait") /\ UNCHANGED ret
  /\ UNCHANGED <<ring, buf, nonblock, locals, handlers, card, ghosts>>

(* wait_event_interruptible(input_queue, ready): test, then sleep. *)
ReadWait(r) ==
  /\ pc[r] = "wait"
  /\ Goto(r, IF ReadReady THEN "down" ELSE "asleep")
  /\ UNCHANGED <<ring, read_sem, buf, nonblock, ret, locals, handlers, card, ghosts>>

(* kzalloc fails: the result is 0 bytes. *)
ReadNoMemory(r) ==
  /\ pc[r] = "lock"
  /\ ret' = [ret EXCEPT ![r] = "bytes"]
  /\ Goto(r, "up")
  /\ UNCHANGED <<ring, read_sem, buf, nonblock, locals, handlers, card, ghosts>>

ReadUp(r) ==
  /\ pc[r] = "up"
  /\ read_sem' = 1
  /\ Goto(r, "idle")
  /\ UNCHANGED <<ring, buf, nonblock, ret, locals, handlers, card, ghosts>>

-------------------------------------------------------------------------------
(* fscc_user_read_frame *)

StatusBytes == IF AppendStatus THEN 0 ELSE 2

(* buffer_requirement is unsigned: a frame shorter than its status needs    *)
(* more than any buffer.                                                     *)
Fits(n, room) ==
  LET need == n - StatusBytes + TimestampSize IN need >= 0 /\ need <= room

(* The size of the next frame becomes the loop's plan. *)
Plan(n) ==
  /\ bytes_in_descs' = n
  /\ total_valid_data' = n - StatusBytes
  /\ filled_frame_size' = 0
  /\ out' = <<>>

ReadFrameLock(r) ==
  /\ pc[r] = "lock" /\ LockFree /\ ~streaming
  /\ IF FrameReady(user_rx_desc) /\ Fits(NextReadSize(user_rx_desc), buf[r])
       THEN /\ Plan(NextReadSize(user_rx_desc))
            /\ out_length' = 0
            /\ Goto(r, "move") /\ UNCHANGED ret
       ELSE /\ ret' = [ret EXCEPT ![r] = "ENOBUFS"]
            /\ Goto(r, "up") /\ UNCHANGED locals
  /\ UNCHANGED <<ring, read_sem, buf, nonblock, handlers, card, ghosts>>

(* The frame whose bytes, but for the status, are b; 0 when there is none. *)
FrameOf(b) ==
  LET whole(f) == b = [i \in 1 .. frames[f].size - StatusBytes |->
                         frames[f].first + i - 1]
  IN IF \E f \in 1 .. Len(frames) : whole(f)
       THEN CHOOSE f \in 1 .. Len(frames) : whole(f) ELSE 0

(* One descriptor is copied and given back to the tasklet. *)
ReadFrameMove(r) ==
  LET d == rx[user_rx_desc]
      planned == IF d.fe /\ d.cstop THEN d.cnt - filled_frame_size ELSE d.count
      real == Lesser(planned, total_valid_data)
      left == IF planned > bytes_in_descs THEN 0 ELSE bytes_in_descs - planned
  IN /\ pc[r] = "move" /\ ~streaming
     /\ out' = out \o Bytes(d.data, real)
     /\ bytes_in_descs' = left
     /\ total_valid_data' = total_valid_data - real
     /\ filled_frame_size' = filled_frame_size + real
     /\ out_length' = out_length + real + (IF left = 0 THEN TimestampSize ELSE 0)
     /\ rx' = [rx EXCEPT ![user_rx_desc] = [Free EXCEPT !.count = d.count]]
     /\ got' = IF left = 0 THEN Append(got, FrameOf(out')) ELSE got
     /\ Goto(r, "advance")
     /\ UNCHANGED <<user_rx_desc, fifo_rx_desc, rx_frame_size, rx_bytes_in_frame,
                    read_sem, buf, nonblock, ret, handlers, card, arrived,
                    frames, cuts, reads>>

(* The index moves; after a whole frame the next one is taken if it fits.   *)
ReadFrameAdvance(r) ==
  LET u == RingNext(RxNum, user_rx_desc)
      another == /\ RxMultiple /\ FrameReady(u)
                 /\ Fits(NextReadSize(u), buf[r] - out_length)
  IN /\ pc[r] = "advance" /\ ~streaming
     /\ user_rx_desc' = u
     /\ CASE bytes_in_descs # 0 ->
               Goto(r, "move") /\ UNCHANGED <<ret, locals>>
          [] bytes_in_descs = 0 /\ another ->
               Plan(NextReadSize(u)) /\ Goto(r, "move")
               /\ UNCHANGED <<ret, out_length>>
          [] OTHER ->
               /\ Goto(r, "up") /\ ret' = [ret EXCEPT ![r] = "bytes"]
               /\ UNCHANGED locals
     /\ UNCHANGED <<rx, fifo_rx_desc, rx_frame_size, rx_bytes_in_frame, read_sem,
                    buf, nonblock, handlers, card, ghosts>>

-------------------------------------------------------------------------------
(* fscc_user_read_stream *)

ReadStreamLock(r) ==
  /\ pc[r] = "lock" /\ LockFree /\ streaming
  /\ out_length' = 0
  /\ Goto(r, "move")
  /\ UNCHANGED <<ring, read_sem, buf, nonblock, ret, bytes_in_descs,
                 total_valid_data, filled_frame_size, out, handlers, card, ghosts>>

(* A descriptor that is not finished, or that the buffer does not exhaust,   *)
(* ends the loop; in the second case its data moves to its front.            *)
ReadStreamMove(r) ==
  LET d == rx[user_rx_desc]
      n == Lesser(buf[r] - out_length, d.count)
  IN /\ pc[r] = "move" /\ streaming
     /\ IF ~d.cstop /\ ~d.fe
          THEN UNCHANGED <<rx, got, out_length>>
          ELSE /\ got' = got \o Bytes(d.data, n)
               /\ out_length' = out_length + n
               /\ rx' = [rx EXCEPT ![user_rx_desc] =
                           IF n = d.count THEN Free
                           ELSE [d EXCEPT !.data = Rest(d.data, n),
                                          !.count = d.count - n]]
     /\ IF (d.cstop \/ d.fe) /\ n = d.count
          THEN Goto(r, "advance") /\ UNCHANGED ret
          ELSE Goto(r, "up") /\ ret' = [ret EXCEPT ![r] = "bytes"]
     /\ UNCHANGED <<user_rx_desc, fifo_rx_desc, rx_frame_size, rx_bytes_in_frame,
                    read_sem, buf, nonblock, bytes_in_descs, total_valid_data,
                    filled_frame_size, out, handlers, card, arrived, frames,
                    cuts, reads>>

ReadStreamAdvance(r) ==
  /\ pc[r] = "advance" /\ streaming
  /\ user_rx_desc' = RingNext(RxNum, user_rx_desc)
  /\ Goto(r, "move")
  /\ UNCHANGED <<rx, fifo_rx_desc, rx_frame_size, rx_bytes_in_frame, read_sem,
                 buf, nonblock, ret, locals, handlers, card, ghosts>>

ReaderStep(r) ==
  \/ ReadDown(r) \/ ReadCheck(r) \/ ReadWait(r) \/ ReadNoMemory(r) \/ ReadUp(r)
  \/ ReadFrameLock(r) \/ ReadFrameMove(r) \/ ReadFrameAdvance(r)
  \/ ReadStreamLock(r) \/ ReadStreamMove(r) \/ ReadStreamAdvance(r)

-------------------------------------------------------------------------------
(* fscc_isr, the receive causes, the timer and the iframe tasklet *)

(* Reading the status clears it; the timer is restarted. *)
Isr ==
  /\ irq
  /\ irq' = FALSE
  /\ isched' = TRUE
  /\ timer' = TRUE
  /\ UNCHANGED <<ring, callers, locals, ipc, raced, rxfifo, bcfl, incoming, ghosts>>

(* timer_handler, 250 ms after the last interrupt; it does not rearm. *)
TimerHandler ==
  /\ timer
  /\ timer' = FALSE
  /\ isched' = TRUE
  /\ UNCHANGED <<ring, callers, locals, ipc, raced, card, ghosts>>

(* fscc_fifo_read_data takes the lock. *)
IframeLock ==
  /\ ipc = "idle" /\ isched /\ LockFree
  /\ isched' = FALSE
  /\ ipc' = "head"
  /\ UNCHANGED <<ring, callers, locals, timer, raced, card, ghosts>>

(* One iteration, first half: RFCNT and the size of a complete frame. *)
IframeHead ==
  /\ ipc = "head"
  /\ IF rx[fifo_rx_desc].cstop
       THEN ipc' = "ready" /\ UNCHANGED <<raced, rx_frame_size, bcfl>>
       ELSE /\ ipc' = "copy"
            /\ raced' = 0
            /\ IF rx_frame_size = 0 /\ bcfl # <<>>
                 THEN rx_frame_size' = Head(bcfl) /\ bcfl' = Tail(bcfl)
                 ELSE UNCHANGED <<rx_frame_size, bcfl>>
  /\ UNCHANGED <<rx, user_rx_desc, fifo_rx_desc, rx_bytes_in_frame, callers,
                 locals, timer, isched, rxfifo, incoming, irq, ghosts>>

(* Mutations: what has been moved of the frame, or what the descriptor holds, *)
(* is not subtracted.                                                        *)
ReceiveLengthWholeFrame ==
  LET wanted == IF rx_frame_size = 0 THEN Len(rxfifo) ELSE rx_frame_size
  IN Lesser(wanted, RxSize - rx[fifo_rx_desc].cnt)
ReceiveLengthWholeDesc ==
  LET wanted ==
        IF rx_frame_size = 0 THEN Len(rxfifo) ELSE rx_frame_size - rx_bytes_in_frame
  IN Lesser(wanted, RxSize)

(* What the iteration moves: the rest of the frame when its size is known,   *)
(* else the whole words RXCNT counts; at most the room in the descriptor.    *)
ReceiveLength ==
  LET wanted ==
        IF rx_frame_size = 0 THEN Len(rxfifo)
        ELSE IF rx_frame_size > rx_bytes_in_frame
               THEN rx_frame_size - rx_bytes_in_frame ELSE 0
  IN Lesser(wanted, RxSize - rx[fifo_rx_desc].cnt)

(* Second half: the data, and the state of the descriptor. *)
IframeCopy ==
  LET d == rx[fifo_rx_desc]
      n == ReceiveLength
      moved == rx_bytes_in_frame + n
      full == d.cnt + n >= RxSize
      ended == rx_frame_size > 0 /\ moved >= rx_frame_size
      finished == full \/ ended
  IN /\ ipc = "copy"
     /\ rxfifo' = Rest(rxfifo, WordBytes(n))
     /\ rx' = [rx EXCEPT ![fifo_rx_desc] =
                 [cstop |-> finished, fe |-> ended,
                  cnt |-> IF ended THEN rx_frame_size
                          ELSE IF full THEN 0 ELSE d.cnt + n,
                  count |-> IF finished THEN RxSize ELSE d.count,
                  data |-> d.data \o Bytes(rxfifo, n)]]
     /\ rx_frame_size' = IF ended THEN 0 ELSE rx_frame_size
     /\ rx_bytes_in_frame' = IF ended THEN 0 ELSE moved
     /\ fifo_rx_desc' = IF finished THEN RingNext(RxNum, fifo_rx_desc)
                        ELSE fifo_rx_desc
     /\ ipc' = IF finished THEN "head" ELSE "ready"
     /\ UNCHANGED <<user_rx_desc, callers, locals, timer, isched, raced, bcfl,
                    incoming, irq, ghosts>>

(* iframe_worker, unlocked: wake the readers when there is something to read. *)
IframeReady ==
  /\ ipc = "ready"
  /\ ipc' = "idle"
  /\ pc' = [r \in Readers |-> IF pc[r] = "asleep" /\ ReadReady THEN "wait" ELSE pc[r]]
  /\ UNCHANGED <<ring, read_sem, buf, nonblock, ret, locals, timer, isched, raced,
                 card, ghosts>>

IframeStep == IframeLock \/ IframeHead \/ IframeCopy \/ IframeReady

(* fscc_io_purge_rx; the reset command reaches the card when there is a clock. *)
PurgeRx ==
  /\ LockFree /\ Cardinality(cuts) < MaxPurges
  /\ \E seen \in RresSeen :
       IF seen THEN rxfifo' = <<>> /\ bcfl' = <<>> /\ incoming' = NoFrame
               ELSE UNCHANGED <<rxfifo, bcfl, incoming>>
  /\ rx' = [i \in Position |-> Free]
  /\ user_rx_desc' = 0 /\ fifo_rx_desc' = 0
  /\ rx_frame_size' = 0 /\ rx_bytes_in_frame' = 0
  /\ cuts' = cuts \cup {arrived}
  /\ UNCHANGED <<callers, locals, handlers, irq, arrived, frames, got, reads>>

-------------------------------------------------------------------------------
(* The card (external) *)

(* The line may deliver RaceWords words while the tasklet is between its     *)
(* reads of RFCNT and of RXCNT.                                              *)
MayArrive ==
  /\ ipc = "copy" => raced < RaceWords
  /\ raced' = IF ipc = "copy" THEN raced + 1 ELSE raced

Push(n) ==
  /\ rxfifo' = rxfifo \o [i \in 1 .. 4 |-> IF i <= n THEN arrived + i ELSE 0]
  /\ arrived' = arrived + n

(* The next word of a frame of s bytes; with the last one its size.          *)
HwFrameWord(s) ==
  LET done == incoming.done
      n == Lesser(4, s - done)
      last == done + n = s
  IN /\ ~streaming /\ MayArrive
     /\ incoming.size = s \/ (incoming = NoFrame /\ arrived + s <= MaxBytes)
     /\ Push(n)
     /\ IF last
          THEN /\ incoming' = NoFrame
               /\ bcfl' = Append(bcfl, s)
               /\ frames' = Append(frames, [first |-> arrived' - s + 1, size |-> s])
          ELSE /\ incoming' = [size |-> s, done |-> done + n]
               /\ UNCHANGED <<bcfl, frames>>
     /\ irq' = (irq \/ last \/ Len(rxfifo') >= RxTrigger)
     /\ UNCHANGED <<ring, callers, locals, timer, isched, ipc, got, cuts, reads>>

HwStreamWord ==
  /\ streaming /\ MayArrive
  /\ arrived + 4 <= MaxStream
  /\ Push(4)
  /\ irq' = (irq \/ Len(rxfifo') >= RxTrigger)
  /\ UNCHANGED <<ring, callers, locals, timer, isched, ipc, bcfl, incoming, frames,
                 got, cuts, reads>>

-------------------------------------------------------------------------------
Step ==
  \/ \E r \in Readers :
       \/ \E n \in BufSizes, nb \in NonblockFlags : ReadCall(r, n, nb)
       \/ ReadSignal(r)
       \/ ReaderStep(r)
  \/ Isr \/ TimerHandler
  \/ IframeStep
  \/ PurgeRx
  \/ \E s \in FrameSizes : HwFrameWord(s)
  \/ HwStreamWord

(* The mode is chosen before the port is used. *)
Next == Step /\ UNCHANGED streaming

Spec == Init /\ [][Next]_vars

(* Interrupts, timers, tasklets and readers are served; semaphores are        *)
(* granted in the order of arrival.  The line owes nobody a byte.             *)
Fairness ==
  /\ \A r \in Readers : WF_state(ReaderStep(r)) /\ SF_state(ReadDown(r))
  /\ WF_state(Isr) /\ WF_state(TimerHandler)
  /\ SF_state(IframeLock) /\ WF_state(IframeStep)

FairSpec == Spec /\ Fairness

-------------------------------------------------------------------------------
(* Properties *)

DescType == [cstop : BOOLEAN, fe : BOOLEAN, cnt : Nat, count : Nat, data : Seq(Nat)]
Places == {"idle", "down", "check", "wait", "asleep", "lock", "move", "advance", "up"}
Results == {"none", "bytes", "ENOBUFS", "EAGAIN", "ERESTARTSYS"}

RingType ==
  /\ rx \in [Position -> DescType]
  /\ user_rx_desc \in Position /\ fifo_rx_desc \in Position
  /\ rx_frame_size \in Nat /\ rx_bytes_in_frame \in Nat
CallersType ==
  /\ read_sem \in {0, 1}
  /\ pc \in [Readers -> Places] /\ ret \in [Readers -> Results]
  /\ buf \in [Readers -> Nat] /\ nonblock \in [Readers -> BOOLEAN]
LocalsType ==
  /\ bytes_in_descs \in Nat /\ total_valid_data \in Int
  /\ filled_frame_size \in Int /\ out \in Seq(Nat) /\ out_length \in Int
HandlersType ==
  /\ timer \in BOOLEAN /\ isched \in BOOLEAN /\ raced \in Nat
  /\ ipc \in {"idle", "head", "copy", "ready"}
CardType ==
  /\ rxfifo \in Seq(Nat) /\ bcfl \in Seq(Nat)
  /\ incoming \in [size : Nat, done : Nat] /\ irq \in BOOLEAN
GhostsType ==
  /\ arrived \in Nat /\ frames \in Seq([first : Nat, size : Nat])
  /\ got \in Seq(Nat) /\ cuts \subseteq Nat /\ reads \in Nat

(* Every variable has its type; a read never plans less than no bytes.       *)
TypeOK ==
  /\ streaming \in BOOLEAN
  /\ RingType /\ CallersType /\ LocalsType /\ HandlersType /\ CardType /\ GhostsType

(* The finished descriptors are consecutive from user_rx_desc up to          *)
(* fifo_rx_desc, which readers and the tasklet move under the same lock but  *)
(* in loops of their own.  While a reader has given a descriptor back and    *)
(* not yet moved its index, that descriptor is the one before the segment.   *)
FinishedInRow ==
  LET u == IF \E r \in Readers : pc[r] = "advance"
             THEN RingNext(RxNum, user_rx_desc) ELSE user_rx_desc
  IN \E q \in 0 .. RxNum :
       /\ fifo_rx_desc = RingAt(RxNum, u, q)
       /\ \A k \in 0 .. RxNum - 1 : rx[RingAt(RxNum, u, k)].cstop <=> k < q

(* Received frames that have not been read: their last byte is in the card   *)
(* or in a descriptor.                                                       *)
LastByte(f) == frames[f].first + frames[f].size - 1
Held ==
  {rxfifo[i] : i \in 1 .. Len(rxfifo)} \cup
  UNION {{rx[p].data[i] : i \in 1 .. Len(rx[p].data)} : p \in Position}
Queued == {f \in 1 .. Len(frames) : LastByte(f) \in Held}

FrameQ == INSTANCE FrameQueue
            WITH accepted <- Len(frames), queued <- Queued,
                 delivered <- IF streaming THEN <<>> ELSE got

(* Every frame on the line is returned by a read whole, once and in order,   *)
(* or is discarded by a purge together with all others.                      *)
IsFrameQueue == FrameQ!Spec

(* In the streaming modes reads return the bytes of the line in order, and   *)
(* leave bytes out only at a purge: from a byte that had been received when  *)
(* the port was purged to a later one.                                       *)
StreamInOrder ==
  streaming => \A i \in 1 .. Len(got) - 1 :
    \/ got[i + 1] = got[i] + 1
    \/ \E c \in cuts : got[i] <= c /\ got[i + 1] = c + 1

(* A reader that sleeps is woken when a frame is complete, whether the frame *)
(* is in the ring or still in the card.                                      *)
ReaderServed ==
  \A r \in Readers : (pc[r] = "asleep" /\ Queued # {}) ~> (pc[r] # "asleep")

(* A frame that a read returns is a frame the line delivered, and none is    *)
(* returned again.                                                           *)
ReadOnce ==
  /\ \A i \in 1 .. Len(got) : got[i] # 0
  /\ \A i, j \in 1 .. Len(got) : i < j => got[i] < got[j]

===============================================================================
