-------------------------------- MODULE TxFifo --------------------------------
(***************************************************************************)
(* The transmit path of a port in FIFO (non-DMA) mode.                      *)
(*                                                                          *)
(* write() callers store frames in a ring of TxNum descriptors (main.c      *)
(* fscc_write, io.c fscc_user_write_frame).  The oframe tasklet moves the   *)
(* descriptors into the card's transmit FIFO, at most one frame start per   *)
(* run, writes the size of the frame it started to the byte count FIFO and  *)
(* issues the transmit command (io.c fscc_fifo_write_data).  The card sends *)
(* the FIFO to the line and interrupts; the interrupt handler schedules the *)
(* tasklet again.  A purge resets the ring and the card.                    *)
(*                                                                          *)
(* The data bytes are left out.  Instead, a descriptor carries two ghosts, *)
(* the number of its frame and where in the frame it begins, so that what   *)
(* leaves on the line can be compared with what was written.                *)
(***************************************************************************)
EXTENDS Integers, Sequences, FiniteSets, Ring

CONSTANTS
  Writers,      \* processes that call write()
  TxNum,        \* memory.TxNum: descriptors in the ring
  TxSize,       \* memory.TxSize: bytes in a descriptor
  FifoSize,     \* TX_FIFO_SIZE: bytes in the card's transmit FIFO
  MaxTfcnt,     \* 254: the frame count above which the tasklet gives up
  Sizes,        \* the sizes of the frames that are written
  NonblockFlags,\* whether a writer may have set O_NONBLOCK
  MaxCalls,     \* bound on the number of write() calls
  MaxPurges,    \* bound on the number of purges
  IgnoreTimeout,\* the ignore_timeout setting
  ClockLoss     \* whether the transmit clock may come and go

ASSUME TxNumAssumption == TxNum \in Nat \ {0}
ASSUME TxSizeAssumption == TxSize \in Nat \ {0}
ASSUME FifoSizeAssumption == FifoSize \in Nat \ {0}
ASSUME MaxTfcntAssumption == MaxTfcnt \in Nat
ASSUME SizesAssumption == Sizes \subseteq Nat \ {0}
ASSUME NonblockAssumption == NonblockFlags \subseteq BOOLEAN
ASSUME BoundsAssumption == MaxCalls \in Nat /\ MaxPurges \in Nat
ASSUME FlagsAssumption == IgnoreTimeout \in BOOLEAN /\ ClockLoss \in BOOLEAN

VARIABLES
  (* the driver's transmit ring: board_tx_spinlock protects the writes *)
  tx,           \* tx_descriptors
  user_tx_desc, \* next descriptor a writer fills
  fifo_tx_desc, \* next descriptor the tasklet empties
  (* write() callers *)
  write_sem,    \* write_semaphore: 1 when free
  pc,           \* where each writer is
  count,        \* the size each writer passed
  nonblock,     \* O_NONBLOCK of each writer
  ret,          \* what each writer's last call returned
  (* the send_oframe tasklet, fscc_fifo_write_data *)
  osched,       \* scheduled
  opc,          \* where it is
  tfcnt, fifo_space, frame_size, written,   \* its locals
  (* the card *)
  fifo,         \* what is in the transmit FIFO, one entry per descriptor
  txcnt,        \* the bytes it occupies
  bc,           \* byte count FIFO: sizes of the frames started, not yet sent
  going,        \* a transmit command is being executed
  line,         \* what has been sent of the current frame
  irq,          \* TFT, TDU or ALLS is set in the interrupt status
  clock,        \* a transmit clock is present (STAR.CE clear)
  (* ghosts *)
  frames,       \* the sizes of the frames stored in the ring, in order
  sent,         \* the frames that left, in order; 0 for one that is not intact
  dropped,      \* a purge's reset was dropped for want of a clock
  calls, purges

ring == <<tx, user_tx_desc, fifo_tx_desc>>
callers == <<write_sem, pc, count, nonblock, ret>>
oframe == <<osched, opc, tfcnt, fifo_space, frame_size, written>>
card == <<fifo, txcnt, bc, going, line, irq, clock>>
ghosts == <<frames, sent, dropped, calls, purges>>
vars == <<ring, callers, oframe, card, ghosts>>

-------------------------------------------------------------------------------
(* Descriptors and sizes. *)

Empty == [cstop |-> TRUE, fe |-> FALSE, cnt |-> 0, len |-> 0, frame |-> 0, off |-> 0]

(* What of a descriptor goes into the FIFO. *)
Chunk(d) == [frame |-> d.frame, len |-> d.len, off |-> d.off]

Position == 0 .. TxNum - 1

(* Descriptors a frame of c bytes takes. *)
Descs(c) == (c + TxSize - 1) \div TxSize

(* The descriptors the loop of fscc_user_get_tx_space counts: those free in  *)
(* a row from user_tx_desc.                                                  *)
FreeRun ==
  CHOOSE q \in 0 .. TxNum :
    /\ \A k \in 0 .. q - 1 : tx[RingAt(TxNum, user_tx_desc, k)].cstop
    /\ q < TxNum => ~tx[RingAt(TxNum, user_tx_desc, q)].cstop

(* Mutation: the memory cap instead of the space left. *)
TxSpaceIsCap == TxSize * TxNum

TxSpace == TxSize * FreeRun

(* What the tasklet takes a descriptor of n bytes to occupy in the FIFO, and *)
(* what it does occupy, as 32-bit words.                                     *)
SizeInFifo(n) == n + (4 - (n % 4))
WordBytes(n) == 4 * ((n + 3) \div 4)

-------------------------------------------------------------------------------
NoLine == [bytes |-> 0, frames |-> {}]

Init ==
  /\ tx = [i \in Position |-> Empty]
  /\ user_tx_desc = 0 /\ fifo_tx_desc = 0
  /\ write_sem = 1
  /\ pc = [w \in Writers |-> "idle"]
  /\ count = [w \in Writers |-> 0]
  /\ nonblock = [w \in Writers |-> FALSE]
  /\ ret = [w \in Writers |-> "none"]
  /\ osched = FALSE /\ opc = "idle"
  /\ tfcnt = 0 /\ fifo_space = 0 /\ frame_size = 0 /\ written = 0
  /\ fifo = <<>> /\ txcnt = 0 /\ bc = <<>>
  /\ going = FALSE /\ line = NoLine /\ irq = FALSE /\ clock = TRUE
  /\ frames = <<>> /\ sent = <<>> /\ dropped = FALSE /\ calls = 0 /\ purges = 0

ClockSeen == clock \/ IgnoreTimeout    \* ignore_timeout, or not timed out

(* board_tx_spinlock is held exactly in the tasklet's copy loop; the other   *)
(* holders take and release it within one action.                            *)
LockFree == opc # "copy"

-------------------------------------------------------------------------------
(* write() *)

Return(w, r) ==
  /\ pc' = [pc EXCEPT ![w] = "idle"]
  /\ ret' = [ret EXCEPT ![w] = r]

Goto(w, l) == pc' = [pc EXCEPT ![w] = l]

(* The size check, before the semaphore. *)
WriteCall(w, c, nb) ==
  /\ pc[w] = "idle" /\ calls < MaxCalls
  /\ calls' = calls + 1
  /\ count' = [count EXCEPT ![w] = c]
  /\ nonblock' = [nonblock EXCEPT ![w] = nb]
  /\ IF c > TxSize * TxNum
       THEN Return(w, "ENOBUFS")
       ELSE Goto(w, "down") /\ ret' = [ret EXCEPT ![w] = "none"]
  /\ UNCHANGED <<ring, write_sem, oframe, card, frames, sent, dropped, purges>>

(* down_interruptible(&write_semaphore) *)
WriteDown(w) ==
  /\ pc[w] = "down" /\ write_sem = 1
  /\ write_sem' = 0
  /\ Goto(w, "check")
  /\ UNCHANGED <<ring, count, nonblock, ret, oframe, card, ghosts>>

(* A signal ends down_interruptible and wait_event_interruptible. *)
WriteSignal(w) ==
  /\ pc[w] \in {"down", "wait", "asleep"}
  /\ Return(w, "ERESTARTSYS")
  /\ UNCHANGED <<ring, write_sem, count, nonblock, oframe, card, ghosts>>

(* The test of the while loop; it takes no spinlock. *)
WriteCheck(w) ==
  /\ pc[w] = "check"
  /\ IF count[w] <= TxSpace
       THEN Goto(w, "clock") /\ UNCHANGED <<write_sem, ret>>
       ELSE /\ write_sem' = 1
            /\ IF nonblock[w]
                 THEN Return(w, "EAGAIN")
                 ELSE Goto(w, "wait") /\ UNCHANGED ret
  /\ UNCHANGED <<ring, count, nonblock, oframe, card, ghosts>>

(* wait_event_interruptible(output_queue, count <= space): on the queue,    *)
(* test, then sleep.                                                         *)
WriteWait(w) ==
  /\ pc[w] = "wait"
  /\ Goto(w, IF count[w] <= TxSpace THEN "down" ELSE "asleep")
  /\ UNCHANGED <<ring, write_sem, count, nonblock, ret, oframe, card, ghosts>>

(* fscc_port_timed_out.  The early return does not release the semaphore.    *)
WriteClock(w) ==
  /\ pc[w] = "clock"
  /\ IF ClockSeen
       THEN Goto(w, "write") /\ UNCHANGED ret
       ELSE Return(w, "ETIMEDOUT")
  /\ UNCHANGED <<ring, write_sem, count, nonblock, oframe, card, ghosts>>

(* The i-th descriptor of a frame of c bytes, as fscc_user_write_frame fills *)
(* it: FE and the whole size on the first, its own size on the others.       *)
Filled(c, i, f) ==
  LET n == IF c - i * TxSize > TxSize THEN TxSize ELSE c - i * TxSize
  IN [cstop |-> FALSE, fe |-> i = 0, cnt |-> IF i = 0 THEN c ELSE n,
      len |-> n, frame |-> f, off |-> i * TxSize]

(* fscc_user_write_frame, the loop under board_tx_spinlock: it stops with    *)
(* ENOBUFS at a descriptor that is not free.                                 *)
WriteFrame(w) ==
  LET need == Descs(count[w])
      n == IF need <= FreeRun THEN need ELSE FreeRun
      f == Len(frames) + 1
      off(i) == RingOffset(TxNum, user_tx_desc, i)
  IN /\ pc[w] = "write" /\ LockFree
     /\ tx' = [i \in Position |->
                 IF off(i) < n THEN Filled(count[w], off(i), f) ELSE tx[i]]
     /\ user_tx_desc' = RingAt(TxNum, user_tx_desc, n)
     /\ frames' = Append(frames, count[w])
     /\ ret' = [ret EXCEPT ![w] = IF n < need THEN "ENOBUFS" ELSE "count"]
     /\ Goto(w, "up")
     /\ UNCHANGED <<fifo_tx_desc, write_sem, count, nonblock, oframe, card,
                    sent, dropped, calls, purges>>

(* kzalloc fails: nothing is stored, and the result is 0, not an error.      *)
WriteNoMemory(w) ==
  /\ pc[w] = "write"
  /\ ret' = [ret EXCEPT ![w] = "count"]
  /\ Goto(w, "up")
  /\ UNCHANGED <<ring, write_sem, count, nonblock, oframe, card, ghosts>>

WriteUp(w) ==
  /\ pc[w] = "up"
  /\ write_sem' = 1
  /\ Goto(w, IF ret[w] = "count" THEN "schedule" ELSE "idle")
  /\ UNCHANGED <<ring, count, nonblock, ret, oframe, card, ghosts>>

WriteSchedule(w) ==
  /\ pc[w] = "schedule"
  /\ osched' = TRUE
  /\ Goto(w, "idle")
  /\ UNCHANGED <<ring, write_sem, count, nonblock, ret, opc, tfcnt, fifo_space,
                 frame_size, written, card, ghosts>>

WriterStep(w) ==
  \/ WriteDown(w) \/ WriteCheck(w) \/ WriteWait(w) \/ WriteClock(w)
  \/ WriteFrame(w) \/ WriteNoMemory(w) \/ WriteUp(w) \/ WriteSchedule(w)

-------------------------------------------------------------------------------
(* The oframe tasklet: fscc_io_transmit_frame *)

(* Mutation: the limit on the frame count is off by one. *)
OframeTfcntOffByOne ==
  /\ opc = "idle" /\ osched
  /\ osched' = FALSE
  /\ IF Len(bc) > MaxTfcnt + 1
       THEN UNCHANGED <<opc, tfcnt>>
       ELSE opc' = "txcnt" /\ tfcnt' = Len(bc)
  /\ UNCHANGED <<ring, callers, fifo_space, frame_size, written, card, ghosts>>

(* TFCNT is read first, before the lock. *)
OframeTfcnt ==
  /\ opc = "idle" /\ osched
  /\ osched' = FALSE
  /\ IF Len(bc) > MaxTfcnt
       THEN UNCHANGED <<opc, tfcnt>>
       ELSE opc' = "txcnt" /\ tfcnt' = Len(bc)
  /\ UNCHANGED <<ring, callers, fifo_space, frame_size, written, card, ghosts>>

(* Mutation: the whole FIFO is taken to be free. *)
OframeTxcntIgnoresLevel ==
  /\ opc = "txcnt" /\ opc' = "lock"
  /\ fifo_space' = FifoSize - 1 - ((FifoSize - 1) % 4)
  /\ frame_size' = 0 /\ written' = 0
  /\ UNCHANGED <<ring, callers, osched, tfcnt, card, ghosts>>

(* TXCNT: the space rounded down to words, unsigned: a count that reaches    *)
(* the size of the FIFO wraps above it and ends the run.                     *)
OframeTxcnt ==
  LET space == FifoSize - txcnt - 1
  IN /\ opc = "txcnt"
     /\ IF space < 0
          THEN opc' = "idle" /\ UNCHANGED <<fifo_space, frame_size, written>>
          ELSE /\ opc' = "lock"
               /\ fifo_space' = space - (space % 4)
               /\ frame_size' = 0
               /\ written' = 0
     /\ UNCHANGED <<ring, callers, osched, tfcnt, card, ghosts>>

OframeLock ==
  /\ opc = "lock"
  /\ opc' = "copy"
  /\ UNCHANGED <<ring, callers, osched, tfcnt, fifo_space, frame_size, written,
                 card, ghosts>>

(* Mutation: several frames may start in one run. *)
StopLate(d) == d.cstop \/ fifo_space < SizeInFifo(d.len)

(* The break conditions of the copy loop at descriptor d. *)
Stop(d) ==
  \/ d.cstop
  \/ fifo_space < SizeInFifo(d.len)
  \/ d.fe /\ (tfcnt > MaxTfcnt + 1 \/ frame_size # 0)

(* Mutation: the descriptor keeps its control word. *)
OframeCopyNotFreed ==
  LET d == tx[fifo_tx_desc]
  IN /\ opc = "copy" /\ written < TxNum /\ ~Stop(d)
     /\ frame_size' = IF d.fe THEN d.cnt ELSE frame_size
     /\ fifo' = Append(fifo, Chunk(d))
     /\ txcnt' = txcnt + WordBytes(d.len)
     /\ fifo_space' = fifo_space - SizeInFifo(d.len)
     /\ fifo_tx_desc' = RingNext(TxNum, fifo_tx_desc)
     /\ written' = written + 1
     /\ UNCHANGED <<tx, user_tx_desc, callers, osched, opc, tfcnt, bc, going, line,
                    irq, clock, ghosts>>

(* One iteration: a descriptor goes to the FIFO and becomes free. *)
OframeCopy ==
  LET d == tx[fifo_tx_desc]
  IN /\ opc = "copy" /\ written < TxNum /\ ~Stop(d)
     /\ frame_size' = IF d.fe THEN d.cnt ELSE frame_size
     /\ fifo' = Append(fifo, Chunk(d))
     /\ txcnt' = txcnt + WordBytes(d.len)
     /\ fifo_space' = fifo_space - SizeInFifo(d.len)
     /\ tx' = [tx EXCEPT ![fifo_tx_desc] = Empty]
     /\ fifo_tx_desc' = RingNext(TxNum, fifo_tx_desc)
     /\ written' = written + 1
     /\ UNCHANGED <<user_tx_desc, callers, osched, opc, tfcnt, bc, going, line,
                    irq, clock, ghosts>>

(* The loop ends: the byte count of the frame that was started, unlock. *)
OframeUnlock ==
  /\ opc = "copy" /\ (written = TxNum \/ Stop(tx[fifo_tx_desc]))
  /\ bc' = IF frame_size # 0 THEN Append(bc, frame_size) ELSE bc
  /\ opc' = IF written # 0 THEN "transmit" ELSE "idle"
  /\ UNCHANGED <<ring, callers, osched, tfcnt, fifo_space, frame_size, written,
                 fifo, txcnt, going, line, irq, clock, ghosts>>

(* fscc_io_execute_transmit: fscc_port_set_register drops a command when    *)
(* there is no clock.  With nothing in the card the command does nothing.    *)
OframeTransmit ==
  /\ opc = "transmit"
  /\ going' = (going \/ (ClockSeen /\ bc # <<>>))
  /\ opc' = "idle"
  /\ UNCHANGED <<ring, callers, osched, tfcnt, fifo_space, frame_size, written,
                 fifo, txcnt, bc, line, irq, clock, ghosts>>

OframeStep ==
  \/ OframeTfcnt \/ OframeTxcnt \/ OframeLock \/ OframeCopy \/ OframeUnlock
  \/ OframeTransmit

-------------------------------------------------------------------------------
(* Mutation: the card is not reset. *)
PurgeTxNoReset ==
  /\ LockFree /\ purges < MaxPurges
  /\ purges' = purges + 1
  /\ tx' = [i \in Position |-> Empty]
  /\ user_tx_desc' = 0 /\ fifo_tx_desc' = 0
  /\ pc' = [w \in Writers |-> IF pc[w] = "asleep" THEN "wait" ELSE pc[w]]
  /\ UNCHANGED <<write_sem, count, nonblock, ret, oframe, card, frames,
                 sent, dropped, calls>>

(* fscc_io_purge_tx: the transmit reset is a command, dropped when there is *)
(* no clock; the ring is reset either way, and 1 is returned.                *)
PurgeTx ==
  /\ LockFree /\ purges < MaxPurges
  /\ purges' = purges + 1
  /\ IF ClockSeen
       THEN fifo' = <<>> /\ txcnt' = 0 /\ bc' = <<>> /\ going' = FALSE
            /\ line' = NoLine /\ UNCHANGED dropped
       ELSE dropped' = TRUE /\ UNCHANGED <<fifo, txcnt, bc, going, line>>
  /\ tx' = [i \in Position |-> Empty]
  /\ user_tx_desc' = 0 /\ fifo_tx_desc' = 0
  /\ pc' = [w \in Writers |-> IF pc[w] = "asleep" THEN "wait" ELSE pc[w]]
  /\ UNCHANGED <<write_sem, count, nonblock, ret, oframe, irq, clock, frames,
                 sent, calls>>

(* Mutation: the interrupt handler does not schedule the tasklet. *)
IsrNoTasklet ==
  /\ irq
  /\ irq' = FALSE
  /\ UNCHANGED <<ring, callers, oframe, fifo, txcnt, bc, going, line, clock, ghosts>>

(* fscc_isr, the transmit causes: reading the status clears it. *)
Isr ==
  /\ irq
  /\ irq' = FALSE
  /\ osched' = TRUE
  /\ UNCHANGED <<ring, callers, opc, tfcnt, fifo_space, frame_size, written,
                 fifo, txcnt, bc, going, line, clock, ghosts>>

-------------------------------------------------------------------------------
(* The card (external) *)

(* One FIFO entry goes out.  The frame ends when its byte count is reached;  *)
(* it is intact when it consists of all bytes of one frame.  The card        *)
(* interrupts when the FIFO runs empty, and may at its trigger level.        *)
HwSend(trigger) ==
  LET c == Head(fifo)
      bytes == line.bytes + c.len
      of == line.frames \cup {c.frame}
      intact == of = {c.frame} /\ bytes = frames[c.frame]
  IN /\ going /\ clock /\ fifo # <<>> /\ bc # <<>>
     /\ fifo' = Tail(fifo)
     /\ txcnt' = IF txcnt > WordBytes(c.len) THEN txcnt - WordBytes(c.len) ELSE 0
     /\ IF bytes < Head(bc)
          THEN /\ line' = [bytes |-> bytes, frames |-> of]
               /\ UNCHANGED <<bc, sent>>
          ELSE /\ line' = NoLine
               /\ bc' = Tail(bc)
               /\ sent' = Append(sent, IF intact THEN c.frame ELSE 0)
     /\ going' = (bc' # <<>>)
     /\ irq' = (irq \/ trigger \/ fifo' = <<>>)
     /\ UNCHANGED <<ring, callers, oframe, clock, frames, dropped, calls, purges>>

ClockChange ==
  /\ ClockLoss
  /\ clock' = ~clock
  /\ UNCHANGED <<ring, callers, oframe, fifo, txcnt, bc, going, line, irq, ghosts>>

-------------------------------------------------------------------------------
Next ==
  \/ \E w \in Writers :
       \/ \E c \in Sizes, nb \in NonblockFlags : WriteCall(w, c, nb)
       \/ WriteSignal(w)
       \/ WriterStep(w)
  \/ OframeStep
  \/ PurgeTx
  \/ Isr
  \/ \E trigger \in BOOLEAN : HwSend(trigger)
  \/ ClockChange

Spec == Init /\ [][Next]_vars

(* Writers and the tasklet are scheduled, semaphores are granted in the      *)
(* order of arrival, an interrupt is served, the card sends what it has.     *)
Fairness ==
  /\ \A w \in Writers : WF_vars(WriterStep(w)) /\ SF_vars(WriteDown(w))
  /\ WF_vars(OframeStep)
  /\ WF_vars(Isr)
  /\ WF_vars(\E trigger \in BOOLEAN : HwSend(trigger))

FairSpec == Spec /\ Fairness

-------------------------------------------------------------------------------
(* Properties *)

Locations == {"idle", "down", "check", "wait", "asleep", "clock", "write", "up",
              "schedule"}
Holding == {"check", "clock", "write", "up"}   \* inside write_semaphore

DescType ==
  [cstop : BOOLEAN, fe : BOOLEAN, cnt : Nat, len : Nat, frame : Nat, off : Nat]
ChunkType == [frame : Nat, len : Nat, off : Nat]
Results == {"none", "count", "ENOBUFS", "EAGAIN", "ETIMEDOUT", "ERESTARTSYS"}

RingType ==
  /\ tx \in [Position -> DescType]
  /\ user_tx_desc \in Position /\ fifo_tx_desc \in Position

CallersType ==
  /\ write_sem \in {0, 1}
  /\ pc \in [Writers -> Locations]
  /\ count \in [Writers -> Nat]
  /\ nonblock \in [Writers -> BOOLEAN]
  /\ ret \in [Writers -> Results]

OframeType ==
  /\ opc \in {"idle", "txcnt", "lock", "copy", "transmit"}
  /\ tfcnt \in Nat /\ fifo_space \in Int /\ frame_size \in Nat /\ written \in Nat

CardType ==
  /\ fifo \in Seq(ChunkType) /\ txcnt \in Nat /\ bc \in Seq(Nat)
  /\ line \in [bytes : Nat, frames : SUBSET Nat]

FlagsType ==
  osched \in BOOLEAN /\ going \in BOOLEAN /\ irq \in BOOLEAN /\ clock \in BOOLEAN
  /\ dropped \in BOOLEAN

GhostsType ==
  /\ frames \in Seq(Nat) /\ sent \in Seq(Nat)
  /\ calls \in Nat /\ purges \in Nat

TypeOK ==
  RingType /\ CallersType /\ OframeType /\ CardType /\ FlagsType /\ GhostsType

(* The descriptors in use are consecutive: fifo_tx_desc is the oldest of    *)
(* them and user_tx_desc comes right after the newest.  Writers and the      *)
(* tasklet each move their own index and mark descriptors; a purge moves     *)
(* both (io.c:290-298).                                                      *)
RingInUse ==
  \E q \in 0 .. TxNum :
    /\ user_tx_desc = RingAt(TxNum, fifo_tx_desc, q)
    /\ \A k \in 0 .. TxNum - 1 :
         ~tx[RingAt(TxNum, fifo_tx_desc, k)].cstop <=> k < q

(* A write is refused with ENOBUFS only for its size, never because the     *)
(* descriptors that fscc_user_get_tx_space counted without a lock were gone  *)
(* when fscc_user_write_frame filled them (main.c:136, docs/write.md).       *)
RefusedForSizeOnly ==
  \A w \in Writers : ret[w] = "ENOBUFS" => count[w] > TxSize * TxNum

(* The tasklet never puts more into the transmit FIFO than it holds, though *)
(* it reads TXCNT before it takes the lock and never again (io.c:623).       *)
FifoNotOverrun == txcnt < FifoSize

(* Nor into the byte count FIFO, whose level it reads once (io.c:619).      *)
ByteCountsNotOverrun == Len(bc) <= MaxTfcnt + 1

(* A frame on the line is one frame that was written, whole, however the     *)
(* clock comes and goes and whatever was purged before it, unless a purge    *)
(* found no clock: that one clears the ring and not the card (io.c:286).     *)
SentIntact == dropped \/ \A i \in 1 .. Len(sent) : sent[i] # 0

(* The frames that were stored and have not been sent or purged. *)
Queued ==
  {fifo[i].frame : i \in 1 .. Len(fifo)} \cup
  {tx[i].frame : i \in {j \in Position : ~tx[j].cstop}}

FrameQ == INSTANCE FrameQueue
            WITH accepted <- Len(frames), queued <- Queued, delivered <- sent

(* Every frame stored in the ring goes out whole, once and in the order of  *)
(* the writes, or is discarded by a purge together with all others, though  *)
(* data, byte counts and commands go to the card in separate steps           *)
(* (io.c:610-690).                                                           *)
IsFrameQueue == FrameQ!Spec

(* A frame that is stored does go out, or is purged, although a run of the  *)
(* tasklet starts at most one frame and only the card's interrupts and later *)
(* writes start another run (io.c:638).                                      *)
FramesLeave == FrameQ!Live

(* A writer that sleeps on output_queue is woken when there is room for its *)
(* frame (main.c:168).                                                       *)
SpaceWakesWriter ==
  \A w \in Writers :
    (pc[w] = "asleep" /\ count[w] <= TxSpace) ~> (pc[w] # "asleep")

(* A call that waits for write_semaphore does not wait for ever: the calls   *)
(* inside release it (main.c:160-183).                                       *)
WriteAnswers ==
  \A w \in Writers : (pc[w] = "down") ~> (pc[w] # "down")

===============================================================================
