-------------------------------- MODULE TxDma --------------------------------
(***************************************************************************)
(* The transmit path of a port in DMA mode.                                *)
(*                                                                         *)
(* write() fills descriptors of the ring under board_tx_spinlock, as in    *)
(* FIFO mode; then, without the spinlock but still inside write_semaphore, *)
(* it reads DSTAR and, when the engine stands still, gives it the first    *)
(* descriptor of the frame (DTDB) and the command to go (io.c              *)
(* fscc_user_write_frame).  No tasklet and no interrupt takes part: an     *)
(* engine that runs is relied on to come to the new descriptors itself.    *)
(* A purge stops and resets the engine, resets the card's transmitter and  *)
(* clears the ring.  Commands to the card are dropped when there is no     *)
(* clock, those to the engine are not.                                     *)
(*                                                                         *)
(* The engine is external.  It takes the descriptors in order as the card  *)
(* sends, marks each CSTOP (free) when the card has it and stops, visibly  *)
(* in DSTAR, when it comes to one that is free.  A frame is its number,    *)
(* its size the number of its descriptors, and a descriptor one part of a  *)
(* frame.                                                                  *)
(***************************************************************************)
EXTENDS Integers, Sequences, FiniteSets, Ring

CONSTANTS
  Writers,      \* processes that call write()
  TxNum,        \* memory.TxNum: descriptors in the ring
  Lengths,      \* descriptors of the frames that are written
  MaxCalls,     \* bound on the number of write() calls
  MaxPurges,    \* bound on the number of purges
  IgnoreTimeout,\* the port's ignore_timeout flag
  ClockLoss     \* whether the transmit clock may come and go

ASSUME DmaAssumption ==
  /\ TxNum \in Nat \ {0}
  /\ Lengths \subseteq 1 .. TxNum
  /\ MaxCalls \in Nat /\ MaxPurges \in Nat

ASSUME FlagsAssumption == IgnoreTimeout \in BOOLEAN /\ ClockLoss \in BOOLEAN

VARIABLES
  tx,           \* tx_descriptors: the frame in each and which of its parts;
                \*   Free when CSTOP is set
  user_tx_desc, \* next descriptor a writer fills
  write_sem,    \* write_semaphore: 1 when free
  pc, need,     \* where each writer is, the descriptors its frame takes
  start_desc,   \* each writer's local
  mine,         \* ghost: the frame the writer stored
  ppc,          \* where the purge is; it holds board_tx_spinlock unless idle
  running, cur, \* the engine: DSTAR, the descriptor it is at
  dtdb,         \* DTDB, where the next start begins
  line,         \* the last part the card was given, of a frame not finished
  clock,        \* a transmit clock is present (STAR.CE clear)
  (* ghosts *)
  frames,       \* the lengths of the frames stored in the ring, in order
  sent,         \* the frames that left, in order; 0 for one that is not whole
  purged,       \* the frames discarded by a purge
  stale,        \* the engine was started for a frame already sent or purged
  dropped,      \* a purge's reset was dropped and left part of a frame in the card
  calls, purges

ring == <<tx, user_tx_desc>>
callers == <<write_sem, pc, need, start_desc, mine>>
engine == <<running, cur, dtdb, line>>
ghosts == <<frames, sent, purged, stale, dropped, calls, purges>>
vars == <<ring, callers, ppc, engine, clock, ghosts>>

Descriptor == [frame : Nat, part : Nat]
Part(f, k) == [frame |-> f, part |-> k]
Free == Part(0, 0)
Joined == Part(0, 1)     \* the bytes of several frames run together
Position == 0 .. TxNum - 1

(* The free descriptors in a row that a writer finds. *)
FreeRun ==
  Cardinality({k \in Position :
                 \A j \in 0 .. k : tx[RingAt(TxNum, user_tx_desc, j)] = Free})

Init ==
  /\ tx = [i \in Position |-> Free] /\ user_tx_desc = 0
  /\ write_sem = 1
  /\ pc = [w \in Writers |-> "idle"]
  /\ need = [w \in Writers |-> 0]
  /\ start_desc = [w \in Writers |-> 0]
  /\ mine = [w \in Writers |-> 0]
  /\ ppc = "idle"
  /\ running = FALSE /\ cur = 0 /\ dtdb = 0 /\ line = Free
  /\ clock = TRUE
  /\ frames = <<>> /\ sent = <<>> /\ purged = {} /\ stale = FALSE /\ dropped = FALSE
  /\ calls = 0 /\ purges = 0

ClockSeen == clock \/ IgnoreTimeout    \* ignore_timeout, or not timed out

-----------------------------------------------------------------------------
(* write().  A caller without room gives up: waiting for room is the same  *)
(* code in both modes and part of TxFifo.                                  *)

Goto(w, l) == pc' = [pc EXCEPT ![w] = l]

WriteCall(w, n) ==
  /\ pc[w] = "idle" /\ calls < MaxCalls
  /\ calls' = calls + 1
  /\ need' = [need EXCEPT ![w] = n]
  /\ Goto(w, "down")
  /\ UNCHANGED <<ring, write_sem, start_desc, mine, ppc, engine, clock,
                 frames, sent, purged, stale, dropped, purges>>

WriteDown(w) ==
  /\ pc[w] = "down" /\ write_sem = 1
  /\ IF need[w] <= FreeRun
       THEN write_sem' = 0 /\ Goto(w, "clock")
       ELSE Goto(w, "idle") /\ UNCHANGED write_sem
  /\ UNCHANGED <<ring, need, start_desc, mine, ppc, engine, clock, ghosts>>

(* Without a clock -ETIMEDOUT is returned, and write_semaphore stays down.  *)
WriteClock(w) ==
  /\ pc[w] = "clock"
  /\ Goto(w, IF ClockSeen THEN "write" ELSE "idle")
  /\ UNCHANGED <<ring, write_sem, need, start_desc, mine, ppc, engine, clock, ghosts>>

(* The loop under board_tx_spinlock; start_desc is its first descriptor.   *)
WriteFrame(w) ==
  LET n == IF need[w] <= FreeRun THEN need[w] ELSE FreeRun
      f == Len(frames) + 1
  IN /\ pc[w] = "write" /\ ppc = "idle"
     /\ tx' = [i \in Position |->
                 LET k == RingOffset(TxNum, user_tx_desc, i)
                 IN IF k < n THEN Part(f, k + 1) ELSE tx[i]]
     /\ start_desc' = [start_desc EXCEPT ![w] = user_tx_desc]
     /\ user_tx_desc' = RingAt(TxNum, user_tx_desc, n)
     /\ mine' = [mine EXCEPT ![w] = f]
     /\ frames' = Append(frames, need[w])
     /\ Goto(w, "probe")
     /\ UNCHANGED <<write_sem, need, ppc, engine, clock,
                    sent, purged, stale, dropped, calls, purges>>

(* Mutation: the bit of DSTAR is read the wrong way round. *)
TxRunningInverted == ~running

(* fscc_dma_is_tx_running *)
TxRunning == running

Probe(w) ==
  /\ pc[w] = "probe"
  /\ Goto(w, IF TxRunning THEN "up" ELSE "base")
  /\ UNCHANGED <<ring, write_sem, need, start_desc, mine, ppc, engine, clock, ghosts>>

(* Mutation: the engine is given the first descriptor of the ring. *)
SetBaseFirst(w) ==
  /\ pc[w] = "base"
  /\ dtdb' = 0
  /\ Goto(w, "go")
  /\ UNCHANGED <<ring, write_sem, need, start_desc, mine, ppc, running, cur, line,
                 clock, ghosts>>

SetBase(w) ==
  /\ pc[w] = "base"
  /\ dtdb' = start_desc[w]
  /\ Goto(w, "go")
  /\ UNCHANGED <<ring, write_sem, need, start_desc, mine, ppc, running, cur, line,
                 clock, ghosts>>

(* fscc_io_execute_transmit(port, 1): DMACCR takes it without a clock too. *)
Go(w) ==
  /\ pc[w] = "go"
  /\ running' = TRUE /\ cur' = dtdb
  /\ stale' = (stale \/ ppc # "idle" \/ tx[dtdb].frame # mine[w])
  /\ Goto(w, "up")
  /\ UNCHANGED <<ring, write_sem, need, start_desc, mine, ppc, dtdb, line, clock,
                 frames, sent, purged, dropped, calls, purges>>

WriteUp(w) ==
  /\ pc[w] = "up"
  /\ write_sem' = 1
  /\ Goto(w, "idle")
  /\ UNCHANGED <<ring, need, start_desc, mine, ppc, engine, clock, ghosts>>

WriterStep(w) ==
  WriteDown(w) \/ WriteClock(w) \/ WriteFrame(w)
    \/ Probe(w) \/ SetBase(w) \/ Go(w) \/ WriteUp(w)

-----------------------------------------------------------------------------
(* fscc_io_purge_tx, under board_tx_spinlock *)

(* Mutation: the engine is not stopped. *)
PurgeStopNot ==
  /\ ppc = "idle" /\ purges < MaxPurges
  /\ purges' = purges + 1
  /\ ppc' = "clear"
  /\ UNCHANGED <<ring, callers, engine, clock, frames, sent, purged, stale, dropped, calls>>

(* STOP_T, RST_T and TRES.  A frame half taken is cut off, unless there is  *)
(* no clock: TRES is then dropped and the card keeps what it was given.     *)
PurgeStop ==
  /\ ppc = "idle" /\ purges < MaxPurges
  /\ purges' = purges + 1
  /\ ppc' = "clear"
  /\ running' = FALSE
  /\ IF ClockSeen
       THEN /\ line' = Free /\ purged' = purged \cup ({line.frame} \ {0})
            /\ UNCHANGED dropped
       ELSE dropped' = (dropped \/ line # Free) /\ UNCHANGED <<line, purged>>
  /\ UNCHANGED <<ring, callers, cur, dtdb, clock, frames, sent, stale, calls>>

PurgeClear ==
  /\ ppc = "clear"
  /\ ppc' = "base"
  /\ purged' = purged \cup ({tx[i].frame : i \in Position} \ {0})
  /\ tx' = [i \in Position |-> Free] /\ user_tx_desc' = 0
  /\ UNCHANGED <<callers, engine, clock, frames, sent, stale, dropped, calls, purges>>

PurgeBase ==
  /\ ppc = "base"
  /\ ppc' = "idle"
  /\ dtdb' = 0
  /\ UNCHANGED <<ring, callers, running, cur, line, clock, ghosts>>

-----------------------------------------------------------------------------
(* The engine (external) *)

(* It takes the descriptor it is at.  A frame that does not begin in an     *)
(* empty card, or does not go on with its next part, runs together with     *)
(* what the card has; so does all that follows, until the next reset.       *)
EngineTake ==
  LET d == tx[cur]
      whole == d = IF line = Free THEN Part(d.frame, 1) ELSE Part(line.frame, line.part + 1)
      last == d.part = frames[d.frame]
  IN /\ running /\ clock /\ d # Free
     /\ tx' = [tx EXCEPT ![cur] = Free]
     /\ cur' = RingNext(TxNum, cur)
     /\ line' = IF ~whole THEN Joined ELSE IF last THEN Free ELSE d
     /\ sent' = IF last THEN Append(sent, IF whole THEN d.frame ELSE 0) ELSE sent
     /\ UNCHANGED <<user_tx_desc, callers, ppc, running, dtdb, clock,
                    frames, purged, stale, dropped, calls, purges>>

EngineStop ==
  /\ running /\ tx[cur] = Free
  /\ running' = FALSE
  /\ UNCHANGED <<ring, callers, ppc, cur, dtdb, line, clock, ghosts>>

ClockChange ==
  /\ ClockLoss
  /\ clock' = ~clock
  /\ UNCHANGED <<ring, callers, ppc, engine, ghosts>>

-----------------------------------------------------------------------------
Next ==
  \/ \E w \in Writers : (\E n \in Lengths : WriteCall(w, n)) \/ WriterStep(w)
  \/ PurgeStop \/ PurgeClear \/ PurgeBase
  \/ EngineTake \/ EngineStop
  \/ ClockChange

Spec == Init /\ [][Next]_vars

(* The callers and the purge are scheduled, the semaphore is granted in the *)
(* order of arrival, the engine works while it runs; what it takes it takes *)
(* when there is a clock again.                                             *)
Fairness ==
  /\ \A w \in Writers : WF_vars(WriterStep(w)) /\ SF_vars(WriteDown(w))
  /\ WF_vars(PurgeClear) /\ WF_vars(PurgeBase)
  /\ SF_vars(EngineTake) /\ WF_vars(EngineStop)

FairSpec == Spec /\ Fairness

-----------------------------------------------------------------------------
(* Properties *)

TypeOK ==
  /\ tx \in [Position -> Descriptor] /\ user_tx_desc \in Position
  /\ write_sem \in {0, 1}
  /\ pc \in [Writers -> {"idle", "down", "clock", "write", "probe", "base", "go", "up"}]
  /\ need \in [Writers -> Nat] /\ mine \in [Writers -> Nat]
  /\ start_desc \in [Writers -> Position]
  /\ ppc \in {"idle", "clear", "base"}
  /\ running \in BOOLEAN /\ cur \in Position /\ dtdb \in Position
  /\ line \in Descriptor /\ clock \in BOOLEAN
  /\ frames \in Seq(Nat) /\ sent \in Seq(Nat) /\ purged \subseteq Nat
  /\ stale \in BOOLEAN /\ dropped \in BOOLEAN /\ calls \in Nat /\ purges \in Nat

(* An engine that stands still leaves nothing in the ring, except what a     *)
(* writer is still going to start it for or a purge is about to clear: the   *)
(* test of DSTAR outside the spinlock (io.c:823) loses no frame.  A start    *)
(* for a frame that has left meanwhile voids this: the engine the next       *)
(* writer finds running is about to stop, elsewhere in the ring.             *)
NothingStranded ==
  stale \/ running \/ ppc = "clear"
    \/ (\E w \in Writers : pc[w] \in {"probe", "base", "go"})
    \/ \A i \in Position : tx[i] = Free

(* Frames leave whole, once and in the order of the writes, whatever is       *)
(* purged between them (io.c:284-303) and however the clock comes and goes.   *)
(* Not so after a purge without a clock that cuts a frame off: its TRES is    *)
(* dropped (port.c:368-371), nobody looks at the result (io.c:286), and the   *)
(* bytes the card keeps join the next frame.  A purge without a clock that    *)
(* finds no frame half taken does no harm.                                    *)
SentInOrder ==
  stale \/ dropped
    \/ \A i \in 1 .. Len(sent) : sent[i] # 0 /\ \A j \in 1 .. i - 1 : sent[j] < sent[i]

(* A frame that is stored is sent or purged if the clock keeps coming back,   *)
(* also when a writer that met no clock has left write_semaphore down         *)
(* (main.c:177-180).                                                          *)
FrameLeaves ==
  []<>clock =>
    \A f \in 1 .. MaxCalls :
      (f <= Len(frames)) ~>
        (f \in purged \/ stale \/ dropped \/ \E i \in 1 .. Len(sent) : sent[i] = f)

=============================================================================
