------------------------------- MODULE Registers -------------------------------
(***************************************************************************)
(* The registers of a card with two ports, and the copy each port keeps of  *)
(* what it wrote (register_storage), which the driver reads for the mode of *)
(* the port and replays when the card resumes.                              *)
(*                                                                          *)
(* Registers are written by FSCC_SET_REGISTERS under the lock of the port,  *)
(* and without a lock by sysfs, by the oframe tasklet and by resume.  FCR   *)
(* belongs to the card: both ports write it, and fscc_port_set_clock_bits   *)
(* drives the pins of the clock generator through it.                       *)
(*                                                                          *)
(* CCR0 and BGR stand for the registers that hold settings, STAR for the    *)
(* read-only ones.  A setting is a small number; FCR is four times one,     *)
(* plus the clock pins of the ports.  Commands and byte counts act on the   *)
(* FIFOs, which are TxFifo's and RxFifo's: here only their copy is kept.    *)
(***************************************************************************)
EXTENDS Integers, Sequences

CONSTANTS
  Callers,     \* processes, and the oframe tasklets, that write registers
  Settings,    \* the values of a setting
  UserFields,  \* what processes set with FSCC_SET_REGISTERS
  SysfsFields, \* what they set through sysfs
  FcrPorts,    \* the ports that processes set FCR of
  ClockPorts,  \* the ports whose clock they set
  MaxCalls,    \* bound on the number of calls
  MaxResumes   \* bound on the number of times the card is suspended

Ports == {0, 1}

Plain == {"CCR0", "BGR"}

(* struct fscc_registers, in its order.  BCFL is in reserved1.              *)
Fields == <<"BCFL", "CMDR", "STAR", "CCR0", "BGR", "FCR", "DMACCR">>
Field == {Fields[i] : i \in 1 .. Len(Fields)}

ReadOnly == {"STAR"}

(* The registers a write can go to: BAR 0 of a port has FSTEL and FSTEW     *)
(* after the last register of the structure, FCR is in BAR 2.               *)
Target == {"BCFL", "CMDR", "CCR0", "BGR", "FCR", "FSTEL", "FSTEW"}

(* The fields that end in FCR, the register of the card. *)
SharedFields == {"FCR", "DMACCR"}

ASSUME SettingsAssumption == 0 \in Settings /\ Settings \subseteq Nat
ASSUME FieldsAssumption == UserFields \subseteq Field /\ SysfsFields \subseteq Target
ASSUME PortsAssumption == FcrPorts \subseteq Ports /\ ClockPorts \subseteq Ports
ASSUME BoundsAssumption == MaxCalls \in Nat /\ MaxResumes \in Nat

VARIABLES
  reg,      \* the card: the settings of each port, and FSTEL and FSTEW
  fcr,      \*   FCR
  storage,  \* register_storage of each port; -1 what was never written
  lock,     \* board_settings_spinlock of each port: who holds it
  pc,       \* where each caller, and the power management, is
  at,       \* the port of its call
  todo,     \* the writes it has still to do, numbered
  seen,     \* FCR as fscc_port_set_clock_bits, or using_async, read it
  power,    \* whether the card is on, not suspended
  calls, resumes,
  want,     \* history: the settings that were last written
  wantFcr,  \*   and FCR
  crossed   \*   the last write of FCR, or a clock sequence after it, began
            \*   during a sequence that no lock kept apart from it

PM == "pm"
Nobody == "nobody"
Procs == Callers \cup {PM}

ASSUME CallersAssumption == PM \notin Callers /\ Nobody \notin Callers

card == <<reg, fcr>>
local == <<at, todo, seen>>
bounds == <<calls, resumes>>
history == <<want, wantFcr, crossed>>
vars == <<card, storage, lock, pc, local, power, bounds, history>>

-------------------------------------------------------------------------------
Value(f, v) == IF f \in {"FCR", "DMACCR", "FSTEL", "FSTEW"} THEN 4 * v ELSE v

Pin(p) == p + 1
WithoutPins(f) == 4 * (f \div 4)

FcrValues == {f \in Nat : f \div 4 \in Settings}

(* The entry of register_storage that fscc_port_set_register writes: the    *)
(* offset in BAR 0 divided by four, also past the registers of BAR 0.        *)
Slot(t) ==
  CASE t = "FSTEL" -> "FCR"
    [] t = "FSTEW" -> "DMACCR"
    [] OTHER -> t

(* fscc_port_set_registers: the writes it does for a structure, numbered    *)
(* in the order of its fields, those of the second port after the first's.  *)
(* Everything past the registers of BAR 0 goes to FCR.                       *)
TargetOf(f) == IF f = "DMACCR" THEN "FCR" ELSE f

WriteOf(p, i, v) ==
  [order |-> Len(Fields) * p + i, port |-> p, target |-> TargetOf(Fields[i]), value |-> v]

(* Mutation: fields that were left at -1 are written. *)
WritesUnset(p, regs) ==
  {WriteOf(p, i, regs[Fields[i]]) : i \in {j \in 1 .. Len(Fields) : Fields[j] \notin ReadOnly}}

Writes(p, regs) ==
  LET given == {i \in 1 .. Len(Fields) : Fields[i] \notin ReadOnly /\ regs[Fields[i]] >= 0}
  IN {WriteOf(p, i, regs[Fields[i]]) : i \in given}

(* w is the write that c does next. *)
IsNext(c, w) == w \in todo[c] /\ \A v \in todo[c] : w.order <= v.order

(* The registers when the card gets power. *)
ResetRegs == [r \in Plain \cup {"FSTEL", "FSTEW"} |-> 0]

(* After fscc_port_new: the defaults are set, the purges gave a command. *)
Init ==
  /\ reg = [p \in Ports |-> ResetRegs]
  /\ fcr = 0
  /\ storage = [p \in Ports |->
       [f \in Field |-> IF f \in {"BCFL", "STAR", "DMACCR"} THEN -1 ELSE 0]]
  /\ lock = [p \in Ports |-> Nobody]
  /\ pc = [c \in Procs |-> "idle"]
  /\ at = [c \in Procs |-> 0]
  /\ todo = [c \in Procs |-> {}]
  /\ seen = [c \in Procs |-> 0]
  /\ power = TRUE
  /\ calls = 0 /\ resumes = 0
  /\ want = [p \in Ports |-> [r \in Plain |-> 0]]
  /\ wantFcr = 0 /\ crossed = FALSE

Goto(c, l) == pc' = [pc EXCEPT ![c] = l]

(* A call begins; processes are frozen until the card has resumed. *)
Begin(c, p) ==
  /\ pc[c] = "idle" /\ pc[PM] = "idle" /\ power /\ calls < MaxCalls
  /\ calls' = calls + 1
  /\ at' = [at EXCEPT ![c] = p]

(* A clock sequence is under way that c's lock does not keep out: it is of  *)
(* the other port, or c writes without the lock.                            *)
Crosses(c) ==
  \E d \in Callers \ {c} : pc[d] = "shift" /\ (at[d] # at[c] \/ lock[at[c]] # c)

CrossesClock(c) ==
  \E d \in Callers \ {c} : pc[d] = "shift" /\ at[d] # at[c]

TakeLock(c) == lock[at[c]] = Nobody /\ lock' = [lock EXCEPT ![at[c]] = c]

(* The call is over, what it has kept is gone. *)
Leave(c) ==
  /\ Goto(c, "idle")
  /\ at' = [at EXCEPT ![c] = 0]
  /\ seen' = [seen EXCEPT ![c] = 0]

-------------------------------------------------------------------------------
(* FSCC_SET_REGISTERS *)

Ioctl(c, p, fs, v) ==
  LET regs == [f \in Field |-> IF f \in fs THEN Value(f, v) ELSE -1]
  IN /\ fs \cap SharedFields # {} => p \in FcrPorts
     /\ Begin(c, p)
     /\ todo' = [todo EXCEPT ![c] = Writes(p, regs)]
     /\ Goto(c, "lock")
     /\ UNCHANGED <<card, storage, lock, seen, power, resumes, history>>

(* Mutation: the lock is not taken. *)
IoctlLockNotTaken(c) ==
  /\ pc[c] = "lock"
  /\ Goto(c, "write")
  /\ UNCHANGED <<card, storage, lock, local, power, bounds, history>>

IoctlLock(c) ==
  /\ pc[c] = "lock"
  /\ TakeLock(c)
  /\ Goto(c, "write")
  /\ UNCHANGED <<card, storage, local, power, bounds, history>>

(* The end of any call that writes registers; the port is locked by         *)
(* FSCC_SET_REGISTERS only.                                                 *)
Finish(c) ==
  /\ pc[c] = "write" /\ todo[c] = {}
  /\ lock' = [lock EXCEPT ![at[c]] = IF @ = c THEN Nobody ELSE @]
  /\ Leave(c)
  /\ UNCHANGED <<card, storage, todo, power, bounds, history>>

(* The other callers of fscc_port_set_register, without the lock: a sysfs   *)
(* attribute, and the oframe tasklet with a byte count and a command.       *)
Sysfs(c, p, t, v) ==
  /\ Begin(c, p)
  /\ todo' = [todo EXCEPT ![c] =
       {[order |-> 0, port |-> p, target |-> t, value |-> Value(t, v)]}]
  /\ Goto(c, "write")
  /\ UNCHANGED <<card, storage, lock, seen, power, resumes, history>>

Oframe(c, p) ==
  /\ Begin(c, p)
  /\ todo' = [todo EXCEPT ![c] = {WriteOf(p, 1, 1), WriteOf(p, 2, 1)}]
  /\ Goto(c, "write")
  /\ UNCHANGED <<card, storage, lock, seen, power, resumes, history>>

-------------------------------------------------------------------------------
(* fscc_port_set_register *)

(* A command without a clock is dropped. *)
Dropped(c) ==
  /\ pc[c] = "write"
  /\ \E w \in todo[c] :
       /\ IsNext(c, w) /\ w.target = "CMDR"
       /\ todo' = [todo EXCEPT ![c] = @ \ {w}]
  /\ UNCHANGED <<card, storage, lock, pc, at, seen, power, bounds, history>>

(* The card is written, then the copy. *)
SetCard(c) ==
  /\ pc[c] = "write"
  /\ \E w \in todo[c] :
       /\ IsNext(c, w)
       /\ fcr' = IF w.target = "FCR" THEN w.value ELSE fcr
       /\ reg' = IF w.target \in DOMAIN reg[w.port]
                   THEN [reg EXCEPT ![w.port][w.target] = w.value] ELSE reg
       /\ want' = IF w.target \in Plain /\ c # PM
                    THEN [want EXCEPT ![w.port][w.target] = w.value] ELSE want
       /\ wantFcr' = IF w.target = "FCR" /\ c # PM THEN w.value ELSE wantFcr
       /\ crossed' = IF w.target = "FCR" THEN Crosses(c) ELSE crossed
  /\ Goto(c, "store")
  /\ UNCHANGED <<storage, lock, local, power, bounds>>

SetStore(c) ==
  /\ pc[c] = "store"
  /\ \E w \in todo[c] :
       /\ IsNext(c, w)
       /\ storage' = [storage EXCEPT ![w.port][Slot(w.target)] = w.value]
       /\ todo' = [todo EXCEPT ![c] = @ \ {w}]
  /\ Goto(c, "write")
  /\ UNCHANGED <<card, lock, at, seen, power, bounds, history>>

-------------------------------------------------------------------------------
(* fscc_port_set_clock_bits: FCR without pins, then with and without the    *)
(* pins of the port, any number of times, then as it was.  It is written    *)
(* past fscc_port_set_register, so there is no copy.                        *)
ClockCall(c, p) ==
  /\ Begin(c, p)
  /\ Goto(c, "clock")
  /\ UNCHANGED <<card, storage, lock, todo, seen, power, resumes, history>>

(* Mutation: the lock is not taken. *)
ClockLockNotTaken(c) ==
  /\ pc[c] = "clock"
  /\ seen' = [seen EXCEPT ![c] = fcr]
  /\ crossed' = (crossed \/ CrossesClock(c))
  /\ Goto(c, "shift")
  /\ UNCHANGED <<card, storage, lock, at, todo, power, bounds, want, wantFcr>>

ClockLock(c) ==
  /\ pc[c] = "clock"
  /\ TakeLock(c)
  /\ seen' = [seen EXCEPT ![c] = fcr]
  /\ crossed' = (crossed \/ CrossesClock(c))
  /\ Goto(c, "shift")
  /\ UNCHANGED <<card, storage, at, todo, power, bounds, want, wantFcr>>

ClockShift(c) ==
  /\ pc[c] = "shift"
  /\ \E pin \in {0, Pin(at[c])} : fcr' = WithoutPins(seen[c]) + pin
  /\ UNCHANGED <<reg, storage, lock, pc, local, power, bounds, history>>

ClockRestore(c) ==
  /\ pc[c] = "shift"
  /\ fcr' = seen[c]
  /\ lock' = [lock EXCEPT ![at[c]] = IF @ = c THEN Nobody ELSE @]
  /\ Leave(c)
  /\ UNCHANGED <<reg, storage, todo, power, bounds, history>>

(* fscc_port_using_async, at the beginning of read() and write(), refreshes *)
(* the copy of FCR.                                                         *)
AsyncRead(c, p) ==
  /\ Begin(c, p)
  /\ seen' = [seen EXCEPT ![c] = fcr]
  /\ Goto(c, "async")
  /\ UNCHANGED <<card, storage, lock, todo, power, resumes, history>>

AsyncStore(c) ==
  /\ pc[c] = "async"
  /\ storage' = [storage EXCEPT ![at[c]]["FCR"] = seen[c]]
  /\ Leave(c)
  /\ UNCHANGED <<card, lock, todo, power, bounds, history>>

-------------------------------------------------------------------------------
(* fscc_suspend reads the registers whose copy is FSCC_UPDATE_VALUE, which  *)
(* none is.  The card may lose its registers with its power.                *)
Suspend ==
  /\ power /\ resumes < MaxResumes
  /\ \A c \in Procs : pc[c] = "idle"
  /\ resumes' = resumes + 1
  /\ power' = FALSE
  /\ \E lost \in BOOLEAN :
       /\ reg' = IF lost THEN [p \in Ports |-> ResetRegs] ELSE reg
       /\ fcr' = IF lost THEN 0 ELSE fcr
  /\ UNCHANGED <<storage, lock, pc, local, calls, history>>

(* Mutation: only the first port is resumed. *)
ResumeFirstPort ==
  /\ ~power
  /\ power' = TRUE
  /\ todo' = [todo EXCEPT ![PM] = Writes(0, storage[0])]
  /\ Goto(PM, "write")
  /\ UNCHANGED <<card, storage, lock, at, seen, bounds, history>>

(* Every port, one after the other, replays its copy as it was. *)
Resume ==
  /\ ~power
  /\ power' = TRUE
  /\ todo' = [todo EXCEPT ![PM] = Writes(0, storage[0]) \cup Writes(1, storage[1])]
  /\ Goto(PM, "write")
  /\ UNCHANGED <<card, storage, lock, at, seen, bounds, history>>

-------------------------------------------------------------------------------
Call(c) ==
  \E p \in Ports :
    \/ \E fs \in SUBSET UserFields, v \in Settings : Ioctl(c, p, fs, v)
    \/ \E t \in SysfsFields, v \in Settings : Sysfs(c, p, t, v)
    \/ Oframe(c, p)
    \/ p \in ClockPorts /\ ClockCall(c, p)
    \/ AsyncRead(c, p)

Step(c) ==
  \/ IoctlLock(c) \/ Finish(c)
  \/ Dropped(c) \/ SetCard(c) \/ SetStore(c)
  \/ ClockLock(c) \/ ClockShift(c) \/ ClockRestore(c)
  \/ AsyncStore(c)

Next ==
  \/ \E c \in Callers : Call(c)
  \/ \E c \in Procs : Step(c)
  \/ Suspend \/ Resume

Spec == Init /\ [][Next]_vars

-------------------------------------------------------------------------------
(* The registers, their copies and the locks have their types; what was    *)
(* never set stays out of the card (port.c 446).                            *)
TypeOK ==
  /\ reg \in [Ports -> [Plain \cup {"FSTEL", "FSTEW"} -> Nat]]
  /\ fcr \in FcrValues
  /\ storage \in [Ports -> [Field -> Int]]
  /\ \A p \in Ports :
       storage[p]["FCR"] \in FcrValues /\ storage[p]["STAR"] = -1
  /\ lock \in [Ports -> Callers \cup {Nobody}]
  /\ pc \in [Procs -> {"idle", "lock", "write", "store", "clock", "shift", "async"}]
  /\ at \in [Procs -> Ports]
  /\ \A c \in Procs : \A w \in todo[c] :
       /\ w.port \in Ports /\ w.target \in Target
       /\ w.order \in Nat /\ w.value \in Nat
  /\ seen \in [Procs -> FcrValues]
  /\ power \in BOOLEAN

Writing(c) == pc[c] \in {"write", "store"}

(* Between calls the card has, and the copy that decides the mode of a port *)
(* says, what was last written to each setting: two calls of                *)
(* FSCC_SET_REGISTERS for the same port never leave one's value in the card *)
(* and the other's in the copy (main.c 248-250), and a resume brings every  *)
(* setting of both ports back after a loss of power (port.c 536).           *)
SettingsKept ==
  \A p \in Ports :
    (power /\ ~Writing(PM) /\ \A c \in Callers : Writing(c) => at[c] # p)
      => \A r \in Plain : reg[p][r] = want[p][r] /\ storage[p][r] = want[p][r]

(* board_settings_spinlock is of a port (port.h 123), FCR of the card.  What *)
(* that lock gives: when nobody writes FCR or sets a clock, and before any  *)
(* resume, FCR is what was last written to it, by either port and after any *)
(* clock sequences, unless that write, or a sequence after it, fell into a  *)
(* sequence of the other port, or was sysfs's, which takes no lock.  Such   *)
(* an overlap does undo writes (port.c 587), until FCR is written again.    *)
FcrKept ==
  (resumes = 0 /\ \A c \in Callers : pc[c] # "shift" /\ ~Writing(c))
    => crossed \/ fcr = wantFcr
===============================================================================
