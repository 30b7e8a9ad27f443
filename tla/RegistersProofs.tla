---------------------------- MODULE RegistersProofs ----------------------------
(***************************************************************************)
(* Proofs about Registers, for any number of callers, settings, calls and  *)
(* resumes.  The types hold as they stand, and so does what the lock of a   *)
(* port gives FCR, for writes and clock sequences of both ports and sysfs.  *)
(* That settings are kept needs that sysfs writes none of them (it has no   *)
(* lock): without this hypothesis the code does not keep them.              *)
(***************************************************************************)
EXTENDS Registers, TLAPS

WriteType == [order : Nat, port : Ports, target : Target, value : Nat]

(* The registers whose values are four times a setting. *)
Shifted == {"FCR", "FSTEL", "FSTEW"}

(* What every list of writes is made of; no two writes have one number.    *)
GoodWrites(ws) ==
  /\ ws \subseteq WriteType
  /\ \A w \in ws : w.target \in Shifted => w.value \in FcrValues
  /\ \A v, w \in ws : v.order = w.order => v = w

(* A structure of registers that can be written. *)
GoodRegs(regs) ==
  /\ \A f \in Field : regs[f] \in Int
  /\ regs["FCR"] \in FcrValues \cup {-1}
  /\ regs["DMACCR"] \in FcrValues \cup {-1}

Typed ==
  /\ reg \in [Ports -> [Plain \cup {"FSTEL", "FSTEW"} -> Nat]]
  /\ fcr \in FcrValues
  /\ storage \in [Ports -> [Field -> Int]]
  /\ \A p \in Ports :
       /\ storage[p]["FCR"] \in FcrValues /\ storage[p]["STAR"] = -1
       /\ storage[p]["DMACCR"] \in FcrValues \cup {-1}
  /\ lock \in [Ports -> Callers \cup {Nobody}]
  /\ pc \in [Procs -> {"idle", "lock", "write", "store", "clock", "shift", "async"}]
  /\ pc[PM] \in {"idle", "write", "store"}
  /\ at \in [Procs -> Ports]
  /\ todo \in [Procs -> SUBSET WriteType]
  /\ seen \in [Procs -> FcrValues]
  /\ power \in BOOLEAN
  /\ want \in [Ports -> [Plain -> Nat]]
  /\ resumes \in Nat

TodoOK ==
  \A c \in Procs :
    GoodWrites(todo[c]) /\ (todo[c] # {} => pc[c] \in {"lock", "write", "store"})

TypeInv == Typed /\ TodoOK

(* Processes are frozen while the card is off and while it resumes.        *)
FrozenOK ==
  /\ ~power => pc[PM] = "idle"
  /\ ~power \/ pc[PM] # "idle" => \A c \in Callers : pc[c] = "idle"

(* A caller writes settings of the port of its call, whose lock it has.    *)
PlainLocked ==
  \A c \in Callers : \A w \in todo[c] :
    w.target \in Plain =>
      w.port = at[c] /\ (Writing(c) => lock[at[c]] = c)

Storing(c, w) == pc[c] = "store" /\ IsNext(c, w)

(* Between the card and the copy, a caller's setting is the one wanted; the *)
(* writes of a resume are of nothing else.                                  *)
StoringWanted ==
  /\ \A c \in Callers : \A w \in todo[c] :
       Storing(c, w) /\ w.target \in Plain => w.value = want[w.port][w.target]
  /\ \A w \in todo[PM] :
       w.target \in Plain =>
         /\ w.value = want[w.port][w.target]
         /\ Storing(PM, w) => reg[w.port][w.target] = w.value

CopyKept ==
  \A p \in Ports, r \in Plain :
    \/ storage[p][r] = want[p][r]
    \/ \E c \in Callers : \E w \in todo[c] :
         Storing(c, w) /\ w.port = p /\ w.target = r

CardKept ==
  power => \A p \in Ports, r \in Plain :
    \/ reg[p][r] = want[p][r]
    \/ \E w \in todo[PM] : w.port = p /\ w.target = r

SettingsOK == FrozenOK /\ PlainLocked /\ StoringWanted /\ CopyKept /\ CardKept

SettingsInv == TypeInv /\ SettingsOK

(* A clock sequence is under the lock of its port.                         *)
FcrLocked ==
  /\ resumes = 0 => power /\ pc[PM] = "idle"
  /\ \A c \in Callers : pc[c] = "shift" => lock[at[c]] = c

(* Without overlaps, at most one sequence changes what was last written,   *)
(* and it holds that value.                                                *)
ClockKeeps ==
  resumes = 0 /\ ~crossed =>
    /\ \A c \in Callers : pc[c] = "shift" => seen[c] = wantFcr
    /\ (\A c \in Callers : pc[c] # "shift") => fcr = wantFcr

FcrOK == FcrLocked /\ ClockKeeps

FcrInv == TypeInv /\ FcrOK

SettingsHypothesis == SysfsFields \cap Plain = {}

-------------------------------------------------------------------------------
(***************************************************************************)
(* The fields of a structure, and where writes go.                         *)
(***************************************************************************)
LEMMA FieldFacts ==
  /\ Len(Fields) = 7
  /\ \A i \in 1 .. 7 :
       /\ Fields[i] \in Field
       /\ Fields[i] \notin ReadOnly => TargetOf(Fields[i]) \in Target
       /\ TargetOf(Fields[i]) \in Shifted => Fields[i] \in SharedFields
<1>1. Len(Fields) = 7
  BY DEF Fields
<1>2. ASSUME NEW i \in 1 .. 7
      PROVE  /\ Fields[i] \in Field
             /\ Fields[i] \notin ReadOnly => TargetOf(Fields[i]) \in Target
             /\ TargetOf(Fields[i]) \in Shifted => Fields[i] \in SharedFields
  <2>1. Fields[i] \in Field
    BY <1>1 DEF Field
  <2>2. Fields[i] \in {"BCFL", "CMDR", "STAR", "CCR0", "BGR", "FCR", "DMACCR"}
    BY DEF Fields
  <2> QED
    BY <2>1, <2>2 DEF ReadOnly, TargetOf, Target, Shifted, SharedFields
<1> QED
  BY <1>1, <1>2

LEMMA SlotFacts ==
  ASSUME NEW t \in Target
  PROVE  /\ Slot(t) \in Field \ {"STAR"}
         /\ t \in Plain \/ Slot(t) \in Plain => Slot(t) = t
         /\ Slot(t) \in {"FCR", "DMACCR"} => t \in Shifted
<1>1. Field = {"BCFL", "CMDR", "STAR", "CCR0", "BGR", "FCR", "DMACCR"}
  BY DEF Field, Fields
<1> QED
  BY <1>1 DEF Slot, Target, Plain, Shifted

LEMMA FcrValueFacts ==
  /\ 0 \in FcrValues
  /\ \A v \in Settings : 4 * v \in FcrValues
  /\ FcrValues \subseteq Nat
  /\ \A f \in FcrValues, pin \in 0 .. 3 : WithoutPins(f) + pin \in FcrValues
<1>1. ASSUME NEW v \in Settings, NEW pin \in 0 .. 3
      PROVE  4 * v + pin \in FcrValues /\ 4 * v \in FcrValues
  <2>1. (4 * v + pin) \div 4 = v /\ (4 * v) \div 4 = v /\ 4 * v \in Nat /\ 4 * v + pin \in Nat
    BY SettingsAssumption
  <2> QED
    BY <2>1 DEF FcrValues
<1>2. ASSUME NEW f \in FcrValues, NEW pin \in 0 .. 3
      PROVE  WithoutPins(f) + pin \in FcrValues
  BY <1>1 DEF WithoutPins, FcrValues
<1>3. 0 \in FcrValues
  BY SettingsAssumption DEF FcrValues
<1>4. FcrValues \subseteq Nat
  BY DEF FcrValues
<1> QED
  BY <1>1, <1>2, <1>3, <1>4

(***************************************************************************)
(* fscc_port_set_registers writes every setting that is given, as it is    *)
(* given, in the port it is called for.                                    *)
(***************************************************************************)
LEMMA WritesGood ==
  ASSUME NEW p \in Ports, NEW regs, GoodRegs(regs)
  PROVE  /\ GoodWrites(Writes(p, regs))
         /\ \A w \in Writes(p, regs) : w.port = p /\ w.order \in 7 * p + 1 .. 7 * p + 7
<1>1. ASSUME NEW w \in Writes(p, regs)
      PROVE  \E i \in 1 .. 7 : /\ w = WriteOf(p, i, regs[Fields[i]])
                               /\ Fields[i] \notin ReadOnly /\ regs[Fields[i]] >= 0
  BY <1>1, FieldFacts DEF Writes
<1>2. ASSUME NEW i \in 1 .. 7, Fields[i] \notin ReadOnly, regs[Fields[i]] >= 0
      PROVE  /\ WriteOf(p, i, regs[Fields[i]]) \in WriteType
             /\ WriteOf(p, i, regs[Fields[i]]).port = p
             /\ WriteOf(p, i, regs[Fields[i]]).order = 7 * p + i
             /\ WriteOf(p, i, regs[Fields[i]]).target = TargetOf(Fields[i])
             /\ WriteOf(p, i, regs[Fields[i]]).value = regs[Fields[i]]
  BY <1>2, FieldFacts DEF WriteOf, WriteType, GoodRegs, Ports
<1>3. ASSUME NEW w \in Writes(p, regs)
      PROVE  /\ w \in WriteType /\ w.port = p /\ w.order \in 7 * p + 1 .. 7 * p + 7
             /\ w.target \in Shifted => w.value \in FcrValues
  <2>1. PICK i \in 1 .. 7 : /\ w = WriteOf(p, i, regs[Fields[i]])
                            /\ Fields[i] \notin ReadOnly /\ regs[Fields[i]] >= 0
    BY <1>1
  <2>2. /\ w \in WriteType /\ w.port = p /\ w.order = 7 * p + i
        /\ w.target = TargetOf(Fields[i]) /\ w.value = regs[Fields[i]]
    BY <1>2, <2>1
  <2>3. w.target \in Shifted => w.value \in FcrValues
    BY <2>1, <2>2, FieldFacts DEF SharedFields, GoodRegs
  <2> QED
    BY <2>2, <2>3 DEF Ports
<1>4. ASSUME NEW v \in Writes(p, regs), NEW w \in Writes(p, regs), v.order = w.order
      PROVE  v = w
  <2>1. PICK i \in 1 .. 7 : /\ v = WriteOf(p, i, regs[Fields[i]])
                            /\ Fields[i] \notin ReadOnly /\ regs[Fields[i]] >= 0
    BY <1>1
  <2>2. PICK j \in 1 .. 7 : /\ w = WriteOf(p, j, regs[Fields[j]])
                            /\ Fields[j] \notin ReadOnly /\ regs[Fields[j]] >= 0
    BY <1>1
  <2>3. 7 * p + i = 7 * p + j
    BY <1>2, <1>4, <2>1, <2>2
  <2> QED
    BY <2>1, <2>2, <2>3 DEF Ports
<1> QED
  BY <1>3, <1>4 DEF GoodWrites

LEMMA WritesPlain ==
  ASSUME NEW p \in Ports, NEW regs, GoodRegs(regs), NEW r \in Plain
  PROVE  /\ \A w \in Writes(p, regs) : w.target = r => w.value = regs[r]
         /\ regs[r] >= 0 => \E w \in Writes(p, regs) : w.port = p /\ w.target = r
<1>1. ASSUME NEW w \in Writes(p, regs), w.target = r
      PROVE  w.value = regs[r]
  <2>1. PICK i \in 1 .. 7 : w = WriteOf(p, i, regs[Fields[i]])
    BY FieldFacts DEF Writes
  <2>2. TargetOf(Fields[i]) = r /\ w.value = regs[Fields[i]]
    BY <1>1, <2>1 DEF WriteOf
  <2> QED
    BY <2>2 DEF TargetOf, Plain
<1>2. ASSUME regs[r] >= 0
      PROVE  \E w \in Writes(p, regs) : w.port = p /\ w.target = r
  <2>1. PICK i \in 1 .. 7 : Fields[i] = r
    <3>1. r = Fields[4] \/ r = Fields[5]
      BY DEF Plain, Fields
    <3> QED
      BY <3>1
  <2>2. WriteOf(p, i, regs[Fields[i]]) \in Writes(p, regs)
    BY <1>2, <2>1, FieldFacts DEF Writes, ReadOnly, Plain
  <2>3. /\ WriteOf(p, i, regs[Fields[i]]).port = p
        /\ WriteOf(p, i, regs[Fields[i]]).target = r
    BY <2>1 DEF WriteOf, TargetOf, Plain
  <2> QED
    BY <2>2, <2>3
<1> QED
  BY <1>1, <1>2

(***************************************************************************)
(* The next write is one; taking it leaves writes.                         *)
(***************************************************************************)
LEMMA NextUnique ==
  ASSUME NEW c \in Procs, GoodWrites(todo[c]), NEW v, NEW w, IsNext(c, v), IsNext(c, w)
  PROVE  v = w
BY DEF IsNext, GoodWrites, WriteType

LEMMA NextTyped ==
  ASSUME TypeInv, NEW c \in Procs, NEW w \in todo[c]
  PROVE  /\ w \in WriteType /\ w.port \in Ports /\ w.target \in Target /\ w.value \in Nat
         /\ w.target \in Shifted => w.value \in FcrValues
         /\ GoodWrites(todo[c]) /\ GoodWrites(todo[c] \ {w})
BY DEF TypeInv, TodoOK, GoodWrites, WriteType

-------------------------------------------------------------------------------
(***************************************************************************)
(* The types are inductive.                                                *)
(***************************************************************************)
LEMMA TypeInit == Init => TypeInv
<1> SUFFICES ASSUME Init PROVE TypeInv
  OBVIOUS
<1>1. Field = {"BCFL", "CMDR", "STAR", "CCR0", "BGR", "FCR", "DMACCR"}
  BY DEF Field, Fields
<1>2. \A p \in Ports : /\ storage[p]["FCR"] = 0 /\ storage[p]["STAR"] = -1
                       /\ storage[p]["DMACCR"] = -1
  BY <1>1 DEF Init
<1>3. storage \in [Ports -> [Field -> Int]]
  BY <1>1 DEF Init
<1> QED
  BY <1>2, <1>3, FcrValueFacts
  DEF Init, TypeInv, Typed, TodoOK, ResetRegs, Procs, Nobody, Ports, Plain, GoodWrites

(* A step of c replaces what c has to do. *)
LEMMA TodoStep ==
  ASSUME TypeInv, NEW c \in Procs, NEW l, NEW ws,
         GoodWrites(ws), ws # {} => l \in {"lock", "write", "store"},
         pc' = [pc EXCEPT ![c] = l], todo' = [todo EXCEPT ![c] = ws]
  PROVE  TodoOK' /\ todo' \in [Procs -> SUBSET WriteType]
<1>1. /\ pc \in [Procs -> {"idle", "lock", "write", "store", "clock", "shift", "async"}]
      /\ todo \in [Procs -> SUBSET WriteType]
  BY DEF TypeInv, Typed
<1>2. ASSUME NEW d \in Procs
      PROVE  GoodWrites(todo'[d]) /\ (todo'[d] # {} => pc'[d] \in {"lock", "write", "store"})
  <2>1. CASE d = c
    BY <2>1, <1>1
  <2>2. CASE d # c
    <3>1. todo'[d] = todo[d] /\ pc'[d] = pc[d]
      BY <2>2, <1>1
    <3> QED
      BY <3>1 DEF TypeInv, TodoOK
  <2> QED
    BY <2>1, <2>2
<1>3. todo' \in [Procs -> SUBSET WriteType]
  BY <1>1 DEF GoodWrites
<1> QED
  BY <1>2, <1>3 DEF TodoOK

(* What begins with a call: the caller's own state only. *)
LEMMA TypeCall ==
  ASSUME TypeInv, NEW c \in Callers, Call(c)
  PROVE  TypeInv'
<1> USE DEF card, local, bounds, history
<1>0. c \in Procs /\ c # PM /\ PM \in Procs
  BY CallersAssumption DEF Procs
<1> PICK p \in Ports :
      \/ \E fs \in SUBSET UserFields, v \in Settings : Ioctl(c, p, fs, v)
      \/ \E t \in SysfsFields, v \in Settings : Sysfs(c, p, t, v)
      \/ Oframe(c, p)
      \/ p \in ClockPorts /\ ClockCall(c, p)
      \/ AsyncRead(c, p)
  BY DEF Call
<1>1. ASSUME NEW fs \in SUBSET UserFields, NEW v \in Settings, Ioctl(c, p, fs, v)
      PROVE  TypeInv'
  <2> DEFINE regs == [f \in Field |-> IF f \in fs THEN Value(f, v) ELSE -1]
  <2>1. GoodRegs(regs)
    <3>1. "FCR" \in Field /\ "DMACCR" \in Field
      BY FieldFacts DEF Fields
    <3>2. \A f \in Field : Value(f, v) \in Nat
      BY SettingsAssumption DEF Value
    <3> QED
      BY <3>1, <3>2, FcrValueFacts DEF Value, GoodRegs
  <2>2. /\ todo' = [todo EXCEPT ![c] = Writes(p, regs)]
        /\ pc' = [pc EXCEPT ![c] = "lock"] /\ at' = [at EXCEPT ![c] = p]
        /\ UNCHANGED <<reg, fcr, storage, lock, seen, power, resumes, want, wantFcr>>
    BY <1>1 DEF Ioctl, Goto, Begin
  <2> HIDE DEF regs
  <2>3. GoodWrites(Writes(p, regs))
    BY <2>1, WritesGood
  <2>4. TodoOK' /\ todo' \in [Procs -> SUBSET WriteType]
    BY <2>2, <2>3, <1>0, TodoStep
  <2>5. Typed'
    BY <2>2, <2>4, <1>0 DEF TypeInv, Typed
  <2> QED
    BY <2>4, <2>5 DEF TypeInv
<1>2. ASSUME NEW t \in SysfsFields, NEW v \in Settings, Sysfs(c, p, t, v)
      PROVE  TypeInv'
  <2> DEFINE ws == {[order |-> 0, port |-> p, target |-> t, value |-> Value(t, v)]}
  <2>1. /\ t \in Target /\ Value(t, v) \in Nat
        /\ t \in Shifted => Value(t, v) \in FcrValues
    BY FieldsAssumption, SettingsAssumption, FcrValueFacts DEF Value, Shifted
  <2>2. GoodWrites(ws)
    BY <2>1 DEF GoodWrites, WriteType
  <2>3. /\ todo' = [todo EXCEPT ![c] = ws]
        /\ pc' = [pc EXCEPT ![c] = "write"] /\ at' = [at EXCEPT ![c] = p]
        /\ UNCHANGED <<reg, fcr, storage, lock, seen, power, resumes, want, wantFcr>>
    BY <1>2 DEF Sysfs, Goto, Begin
  <2> HIDE DEF ws
  <2>4. TodoOK' /\ todo' \in [Procs -> SUBSET WriteType]
    BY <2>2, <2>3, <1>0, TodoStep
  <2>5. Typed'
    BY <2>3, <2>4, <1>0 DEF TypeInv, Typed
  <2> QED
    BY <2>4, <2>5 DEF TypeInv
<1>3. ASSUME Oframe(c, p) PROVE TypeInv'
  <2> DEFINE ws == {WriteOf(p, 1, 1), WriteOf(p, 2, 1)}
  <2>1. Fields[1] = "BCFL" /\ Fields[2] = "CMDR"
    BY DEF Fields
  <2>2. GoodWrites(ws)
    BY <2>1, FieldFacts DEF GoodWrites, WriteType, WriteOf, TargetOf, Target, Shifted, Ports
  <2>3. /\ todo' = [todo EXCEPT ![c] = ws]
        /\ pc' = [pc EXCEPT ![c] = "write"] /\ at' = [at EXCEPT ![c] = p]
        /\ UNCHANGED <<reg, fcr, storage, lock, seen, power, resumes, want, wantFcr>>
    BY <1>3 DEF Oframe, Goto, Begin
  <2> HIDE DEF ws
  <2>4. TodoOK' /\ todo' \in [Procs -> SUBSET WriteType]
    BY <2>2, <2>3, <1>0, TodoStep
  <2>5. Typed'
    BY <2>3, <2>4, <1>0 DEF TypeInv, Typed
  <2> QED
    BY <2>4, <2>5 DEF TypeInv
<1>4. ASSUME \/ ClockCall(c, p)
             \/ AsyncRead(c, p)
      PROVE  TypeInv'
  <2>1. PICK l \in {"clock", "async"} :
          /\ pc' = [pc EXCEPT ![c] = l] /\ at' = [at EXCEPT ![c] = p]
          /\ UNCHANGED <<reg, fcr, storage, lock, todo, power, resumes, want, wantFcr>>
    BY <1>4 DEF ClockCall, AsyncRead, Begin, Goto
  <2>2. seen' \in [Procs -> FcrValues]
    BY <1>4, <1>0 DEF ClockCall, AsyncRead, TypeInv, Typed
  <2>3. todo[c] = {}
    BY <1>4, <1>0 DEF ClockCall, AsyncRead, Begin, TypeInv, TodoOK
  <2>4. todo' = [todo EXCEPT ![c] = {}]
    BY <2>1, <2>3, <1>0 DEF TypeInv, Typed
  <2>5. GoodWrites({})
    BY DEF GoodWrites
  <2>6. TodoOK' /\ todo' \in [Procs -> SUBSET WriteType]
    BY <2>1, <2>4, <2>5, <1>0, TodoStep
  <2>7. Typed'
    BY <2>1, <2>2, <2>6, <1>0 DEF TypeInv, Typed
  <2> QED
    BY <2>6, <2>7 DEF TypeInv
<1> QED
  BY <1>1, <1>2, <1>3, <1>4

(* The steps of a call, and of a resume. *)
LEMMA TypeStep ==
  ASSUME TypeInv, NEW c \in Procs, Step(c)
  PROVE  TypeInv'
<1> USE DEF card, local, bounds, history
<1>0. /\ pc[PM] \in {"idle", "write", "store"} /\ PM \in Procs
      /\ c # PM => c \in Callers
  BY DEF TypeInv, Typed, Procs
<1>e. GoodWrites({})
  BY DEF GoodWrites
(* A step that leaves the writes alone. *)
<1>s. ASSUME NEW l, pc' = [pc EXCEPT ![c] = l], UNCHANGED todo,
             todo[c] # {} => l \in {"lock", "write", "store"}
      PROVE  TodoOK' /\ todo' \in [Procs -> SUBSET WriteType]
  <2>1. todo' = [todo EXCEPT ![c] = todo[c]]
    BY <1>s DEF TypeInv, Typed
  <2>2. GoodWrites(todo[c])
    BY DEF TypeInv, TodoOK
  <2> QED
    BY <1>s, <2>1, <2>2, TodoStep
<1>1. CASE IoctlLock(c)
  <2>1. TodoOK' /\ todo' \in [Procs -> SUBSET WriteType]
    BY <1>1, <1>s DEF IoctlLock, Goto
  <2>2. Typed'
    BY <1>1, <1>0, <2>1 DEF IoctlLock, TakeLock, Goto, TypeInv, Typed
  <2> QED
    BY <2>1, <2>2 DEF TypeInv
<1>2. CASE Finish(c)
  <2>1. TodoOK' /\ todo' \in [Procs -> SUBSET WriteType]
    BY <1>2, <1>s DEF Finish, Leave, Goto
  <2>2. Typed'
    BY <1>2, <1>0, <2>1, FcrValueFacts DEF Finish, Leave, Goto, TypeInv, Typed, Ports
  <2> QED
    BY <2>1, <2>2 DEF TypeInv
<1>3. CASE Dropped(c)
  <2>1. PICK w \in todo[c] : todo' = [todo EXCEPT ![c] = @ \ {w}]
    BY <1>3 DEF Dropped
  <2>2. GoodWrites(todo[c] \ {w})
    BY NextTyped
  <2>3. pc' = [pc EXCEPT ![c] = "write"]
    BY <1>3 DEF Dropped, TypeInv, Typed
  <2>4. TodoOK' /\ todo' \in [Procs -> SUBSET WriteType]
    BY <2>1, <2>2, <2>3, TodoStep
  <2>5. Typed'
    BY <1>3, <1>0, <2>4 DEF Dropped, TypeInv, Typed
  <2> QED
    BY <2>4, <2>5 DEF TypeInv
<1>4. CASE SetCard(c)
  <2>1. TodoOK' /\ todo' \in [Procs -> SUBSET WriteType]
    BY <1>4, <1>s DEF SetCard, Goto
  <2>2. PICK w \in todo[c] :
          /\ fcr' = IF w.target = "FCR" THEN w.value ELSE fcr
          /\ reg' = IF w.target \in DOMAIN reg[w.port]
                      THEN [reg EXCEPT ![w.port][w.target] = w.value] ELSE reg
          /\ want' = IF w.target \in Plain /\ c # PM
                       THEN [want EXCEPT ![w.port][w.target] = w.value] ELSE want
    BY <1>4 DEF SetCard
  <2>3. /\ w.port \in Ports /\ w.target \in Target /\ w.value \in Nat
        /\ w.target \in Shifted => w.value \in FcrValues
    BY NextTyped
  <2>4. fcr' \in FcrValues
    BY <2>2, <2>3 DEF Shifted, TypeInv, Typed
  <2>5. reg' \in [Ports -> [Plain \cup {"FSTEL", "FSTEW"} -> Nat]]
    BY <2>2, <2>3 DEF TypeInv, Typed
  <2>6. want' \in [Ports -> [Plain -> Nat]]
    BY <2>2, <2>3 DEF TypeInv, Typed
  <2>7. Typed'
    BY <1>4, <1>0, <2>1, <2>4, <2>5, <2>6 DEF SetCard, Goto, TypeInv, Typed
  <2> QED
    BY <2>1, <2>7 DEF TypeInv
<1>5. CASE SetStore(c)
  <2>1. PICK w \in todo[c] :
          /\ storage' = [storage EXCEPT ![w.port][Slot(w.target)] = w.value]
          /\ todo' = [todo EXCEPT ![c] = @ \ {w}]
    BY <1>5 DEF SetStore
  <2>2. /\ w.port \in Ports /\ w.target \in Target /\ w.value \in Nat
        /\ w.target \in Shifted => w.value \in FcrValues
        /\ GoodWrites(todo[c] \ {w})
    BY NextTyped
  <2>3. TodoOK' /\ todo' \in [Procs -> SUBSET WriteType]
    BY <1>5, <2>1, <2>2, TodoStep DEF SetStore, Goto
  <2> DEFINE s == Slot(w.target)
  <2>4. /\ s \in Field \ {"STAR"}
        /\ s \in {"FCR", "DMACCR"} => w.value \in FcrValues
    BY <2>2, SlotFacts
  <2>5. storage' = [storage EXCEPT ![w.port][s] = w.value]
    BY <2>1
  <2> HIDE DEF s
  <2>6. storage' \in [Ports -> [Field -> Int]]
    BY <2>2, <2>4, <2>5 DEF TypeInv, Typed
  <2>7. \A p \in Ports :
          /\ storage'[p]["FCR"] \in FcrValues /\ storage'[p]["STAR"] = -1
          /\ storage'[p]["DMACCR"] \in FcrValues \cup {-1}
    <3>1. {"FCR", "STAR", "DMACCR"} \subseteq Field
      BY FieldFacts DEF Fields
    <3>2. \A p \in Ports, f \in Field :
            storage'[p][f] = IF p = w.port /\ f = s THEN w.value ELSE storage[p][f]
      BY <2>2, <2>4, <2>5 DEF TypeInv, Typed
    <3> QED
      BY <2>4, <3>1, <3>2 DEF TypeInv, Typed
  <2>8. Typed'
    BY <1>5, <1>0, <2>3, <2>6, <2>7 DEF SetStore, Goto, TypeInv, Typed
  <2> QED
    BY <2>3, <2>8 DEF TypeInv
<1>6. CASE ClockLock(c)
  <2>0. todo[c] = {}
    BY <1>6 DEF ClockLock, TypeInv, TodoOK
  <2>1. TodoOK' /\ todo' \in [Procs -> SUBSET WriteType]
    BY <1>6, <1>s, <2>0 DEF ClockLock, Goto
  <2>2. Typed'
    BY <1>6, <1>0, <2>1 DEF ClockLock, TakeLock, Goto, TypeInv, Typed
  <2> QED
    BY <2>1, <2>2 DEF TypeInv
<1>7. CASE ClockShift(c)
  <2>1. PICK pin \in {0, Pin(at[c])} : fcr' = WithoutPins(seen[c]) + pin
    BY <1>7 DEF ClockShift
  <2>2. pin \in 0 .. 3 /\ seen[c] \in FcrValues
    BY DEF Pin, Ports, TypeInv, Typed
  <2>3. fcr' \in FcrValues
    BY <2>1, <2>2, FcrValueFacts
  <2> QED
    BY <1>7, <2>3 DEF ClockShift, TypeInv, Typed, TodoOK
<1>8. CASE ClockRestore(c)
  <2>0. todo[c] = {}
    BY <1>8 DEF ClockRestore, TypeInv, TodoOK
  <2>1. TodoOK' /\ todo' \in [Procs -> SUBSET WriteType]
    BY <1>8, <1>s, <2>0 DEF ClockRestore, Leave, Goto
  <2>2. Typed'
    BY <1>8, <1>0, <2>1, FcrValueFacts DEF ClockRestore, Leave, Goto, TypeInv, Typed, Ports
  <2> QED
    BY <2>1, <2>2 DEF TypeInv
<1>9. CASE AsyncStore(c)
  <2>0. todo[c] = {}
    BY <1>9 DEF AsyncStore, TypeInv, TodoOK
  <2>1. TodoOK' /\ todo' \in [Procs -> SUBSET WriteType]
    BY <1>9, <1>s, <2>0 DEF AsyncStore, Leave, Goto
  <2>2. at[c] \in Ports /\ seen[c] \in FcrValues /\ seen[c] \in Nat
    <3>1. at[c] \in Ports /\ seen[c] \in FcrValues
      BY DEF TypeInv, Typed
    <3> QED
      BY <3>1, FcrValueFacts
  <2>3. {"FCR", "STAR", "DMACCR"} \subseteq Field
    BY FieldFacts DEF Fields
  <2>4. storage' = [storage EXCEPT ![at[c]]["FCR"] = seen[c]]
    BY <1>9 DEF AsyncStore
  <2>5. storage' \in [Ports -> [Field -> Int]]
    BY <2>2, <2>3, <2>4 DEF TypeInv, Typed
  <2>6. \A p \in Ports :
          /\ storage'[p]["FCR"] \in FcrValues /\ storage'[p]["STAR"] = -1
          /\ storage'[p]["DMACCR"] \in FcrValues \cup {-1}
    BY <2>2, <2>3, <2>4 DEF TypeInv, Typed
  <2>7. Typed'
    BY <1>9, <1>0, <2>1, <2>5, <2>6, FcrValueFacts
    DEF AsyncStore, Leave, Goto, TypeInv, Typed, Ports
  <2> QED
    BY <2>1, <2>7 DEF TypeInv
<1> QED
  BY <1>1, <1>2, <1>3, <1>4, <1>5, <1>6, <1>7, <1>8, <1>9 DEF Step

(***************************************************************************)
(* A resume writes what the copies of both ports hold.                     *)
(***************************************************************************)
LEMMA CopiesGood ==
  ASSUME TypeInv, NEW p \in Ports
  PROVE  GoodRegs(storage[p])
BY FcrValueFacts DEF TypeInv, Typed, GoodRegs

LEMMA ReplayGood ==
  ASSUME TypeInv
  PROVE  GoodWrites(Writes(0, storage[0]) \cup Writes(1, storage[1]))
<1>1. 0 \in Ports /\ 1 \in Ports
  BY DEF Ports
<1>2. /\ GoodWrites(Writes(0, storage[0]))
      /\ \A w \in Writes(0, storage[0]) : w.order \in 1 .. 7
  BY <1>1, CopiesGood, WritesGood
<1>3. /\ GoodWrites(Writes(1, storage[1]))
      /\ \A w \in Writes(1, storage[1]) : w.order \in 8 .. 14
  BY <1>1, CopiesGood, WritesGood
<1> QED
  BY <1>2, <1>3 DEF GoodWrites

LEMMA TypeHolds == TypeInv /\ [Next]_vars => TypeInv'
<1> USE DEF card, local, bounds, history
<1> SUFFICES ASSUME TypeInv, [Next]_vars PROVE TypeInv'
  OBVIOUS
<1>1. ASSUME NEW c \in Callers, Call(c) PROVE TypeInv'
  BY <1>1, TypeCall
<1>2. ASSUME NEW c \in Procs, Step(c) PROVE TypeInv'
  BY <1>2, TypeStep
<1>3. CASE Suspend
  <2>1. PICK lost \in BOOLEAN :
          /\ reg' = IF lost THEN [p \in Ports |-> ResetRegs] ELSE reg
          /\ fcr' = IF lost THEN 0 ELSE fcr
    BY <1>3 DEF Suspend
  <2>a. /\ power' \in BOOLEAN /\ resumes' = resumes + 1
        /\ UNCHANGED <<storage, lock, pc, at, todo, seen, want>>
    BY <1>3 DEF Suspend
  <2>b. reg' \in [Ports -> [Plain \cup {"FSTEL", "FSTEW"} -> Nat]]
    BY <2>1 DEF ResetRegs, TypeInv, Typed
  <2>c. fcr' \in FcrValues
    BY <2>1, FcrValueFacts DEF TypeInv, Typed
  <2>2. resumes' \in Nat
    BY <2>a DEF TypeInv, Typed
  <2>3. Typed'
    BY <2>a, <2>b, <2>c, <2>2, Zenon DEF TypeInv, Typed
  <2>4. TodoOK'
    BY <1>3 DEF Suspend, TypeInv, TodoOK
  <2> QED
    BY <2>3, <2>4 DEF TypeInv
<1>4. CASE Resume
  <2>0. PM \in Procs
    BY DEF Procs
  <2>1. GoodWrites(Writes(0, storage[0]) \cup Writes(1, storage[1]))
    BY ReplayGood
  <2>2. TodoOK' /\ todo' \in [Procs -> SUBSET WriteType]
    BY <1>4, <2>0, <2>1, TodoStep DEF Resume, Goto
  <2>3. Typed'
    BY <1>4, <2>0, <2>2 DEF Resume, Goto, TypeInv, Typed
  <2> QED
    BY <2>2, <2>3 DEF TypeInv
<1>5. CASE UNCHANGED vars
  BY <1>5 DEF vars, TypeInv, Typed, TodoOK
<1> QED
  BY <1>1, <1>2, <1>3, <1>4, <1>5 DEF Next

(***************************************************************************)
(* The types, and that what was never set stays out of the card.           *)
(***************************************************************************)
THEOREM RegistersTypeCorrect == Spec => []TypeOK
<1>1. TypeInv => TypeOK
  BY DEF TypeInv, Typed, TodoOK, GoodWrites, WriteType, TypeOK
<1> QED
  BY <1>1, TypeInit, TypeHolds, PTL DEF Spec

-------------------------------------------------------------------------------
(***************************************************************************)
(* Settings.  A caller is in a call, so no resume is under way.            *)
(***************************************************************************)
LEMMA CallerAlone ==
  ASSUME TypeInv, FrozenOK, NEW c \in Callers, pc[c] # "idle"
  PROVE  power /\ pc[PM] = "idle" /\ todo[PM] = {}
BY DEF TypeInv, Typed, TodoOK, FrozenOK, Procs

LEMMA SettingsInit == Init => SettingsInv
<1> SUFFICES ASSUME Init PROVE SettingsInv
  OBVIOUS
<1>1. TypeInv
  BY TypeInit
<1>2. Plain \subseteq Field /\ Plain \cap {"BCFL", "STAR", "DMACCR"} = {}
  BY FieldFacts DEF Plain, Field, Fields
<1>3. CopyKept
  BY <1>2 DEF Init, CopyKept
<1>4. CardKept
  BY DEF Init, CardKept, ResetRegs
<1>5. FrozenOK /\ PlainLocked /\ StoringWanted
  BY DEF Init, FrozenOK, PlainLocked, StoringWanted, Procs
<1> QED
  BY <1>1, <1>3, <1>4, <1>5 DEF SettingsInv, SettingsOK

(* A step of c, a caller, that writes no setting: c goes on to l, with the *)
(* writes of ws to do in p.                                                 *)
QuietStep(c, l, p, ws) ==
  /\ c # PM /\ pc[c] # "store" /\ l # "store"
  /\ pc[c] # "idle" \/ (power /\ pc[PM] = "idle")
  /\ pc' = [pc EXCEPT ![c] = l] /\ todo' = [todo EXCEPT ![c] = ws]
  /\ at' = [at EXCEPT ![c] = p]
  /\ \A w \in ws : w.target \in Plain => w.port = p /\ (l = "write" => lock'[p] = c)
  /\ \A d \in Callers \ {c} : lock[at[d]] = d => lock'[at[d]] = d
  /\ UNCHANGED <<reg, want, power>>
  /\ \A q \in Ports, r \in Plain : storage'[q][r] = storage[q][r]

LEMMA SettingsQuiet ==
  ASSUME SettingsInv, NEW c \in Callers, NEW l, NEW p, NEW ws,
         QuietStep(c, l, p, ws)
  PROVE  SettingsOK'
<1> USE DEF QuietStep
<1>1. /\ \A d \in Procs \ {c} : pc'[d] = pc[d] /\ todo'[d] = todo[d] /\ at'[d] = at[d]
      /\ pc'[c] = l /\ todo'[c] = ws /\ at'[c] = p
      /\ c \in Procs /\ PM \in Procs \ {c} /\ Callers \subseteq Procs
  BY DEF SettingsInv, TypeInv, Typed, Procs
<1>2. power /\ pc[PM] = "idle"
  BY CallerAlone DEF SettingsInv, SettingsOK
<1>3. \A d \in Procs : \A w : Storing(d, w)' <=> (d # c /\ Storing(d, w))
  BY <1>1 DEF Storing, IsNext
<1>4. \A d \in Procs : \A w : Storing(d, w) => d # c
  BY DEF Storing
<1>5. FrozenOK'
  BY <1>1, <1>2 DEF FrozenOK
<1>6. PlainLocked'
  BY <1>1 DEF SettingsInv, SettingsOK, PlainLocked, Writing
<1>7. StoringWanted'
  BY <1>1, <1>3 DEF SettingsInv, SettingsOK, StoringWanted
<1>8. CopyKept'
  <2> SUFFICES ASSUME NEW q \in Ports, NEW r \in Plain, storage[q][r] # want[q][r]
               PROVE  \E d \in Callers : \E w \in todo'[d] :
                        Storing(d, w)' /\ w.port = q /\ w.target = r
    BY DEF CopyKept
  <2>1. PICK d \in Callers : \E w \in todo[d] :
          Storing(d, w) /\ w.port = q /\ w.target = r
    BY DEF SettingsInv, SettingsOK, CopyKept
  <2>2. PICK w \in todo[d] : Storing(d, w) /\ w.port = q /\ w.target = r
    BY <2>1
  <2>3. w \in todo'[d] /\ Storing(d, w)'
    BY <1>1, <1>3, <1>4, <2>2
  <2> QED
    BY <2>2, <2>3
<1>9. CardKept'
  BY <1>1 DEF SettingsInv, SettingsOK, CardKept
<1> QED
  BY <1>5, <1>6, <1>7, <1>8, <1>9 DEF SettingsOK

LEMMA SettingsCall ==
  ASSUME SettingsHypothesis, SettingsInv, NEW c \in Callers, Call(c)
  PROVE  SettingsInv'
<1> USE DEF card, local, bounds, history
<1>0. TypeInv' /\ TypeInv
  BY TypeCall DEF SettingsInv
<1>1. PICK p \in Ports :
      \/ \E fs \in SUBSET UserFields, v \in Settings : Ioctl(c, p, fs, v)
      \/ \E t \in SysfsFields, v \in Settings : Sysfs(c, p, t, v)
      \/ Oframe(c, p)
      \/ p \in ClockPorts /\ ClockCall(c, p)
      \/ AsyncRead(c, p)
  BY DEF Call
<1>2. /\ pc[c] = "idle" /\ pc[PM] = "idle" /\ power /\ at' = [at EXCEPT ![c] = p]
      /\ UNCHANGED <<reg, want, power, storage, lock>>
  BY <1>1 DEF Ioctl, Sysfs, Oframe, ClockCall, AsyncRead, Begin
<1>3. c # PM /\ c \in Procs /\ todo[c] = {} /\ todo = [todo EXCEPT ![c] = {}]
  BY <1>0, <1>2, CallersAssumption DEF TypeInv, Typed, TodoOK, Procs
<1>4. ASSUME NEW fs \in SUBSET UserFields, NEW v \in Settings, Ioctl(c, p, fs, v)
      PROVE  SettingsOK'
  <2> DEFINE regs == [f \in Field |-> IF f \in fs THEN Value(f, v) ELSE -1]
  <2>1. pc' = [pc EXCEPT ![c] = "lock"] /\ todo' = [todo EXCEPT ![c] = Writes(p, regs)]
    BY <1>4 DEF Ioctl, Goto
  <2> HIDE DEF regs
  <2>2. ASSUME NEW w \in Writes(p, regs) PROVE w.port = p
    <3>1. PICK i : w = WriteOf(p, i, regs[Fields[i]])
      BY DEF Writes
    <3> QED
      BY <3>1 DEF WriteOf
  <2>3. QuietStep(c, "lock", p, Writes(p, regs))
    BY <1>2, <1>3, <2>1, <2>2 DEF QuietStep
  <2> QED
    BY <2>3, SettingsQuiet
<1>5. ASSUME NEW t \in SysfsFields, NEW v \in Settings, Sysfs(c, p, t, v)
      PROVE  SettingsOK'
  <2> DEFINE w == [order |-> 0, port |-> p, target |-> t, value |-> Value(t, v)]
  <2>1. pc' = [pc EXCEPT ![c] = "write"] /\ todo' = [todo EXCEPT ![c] = {w}]
    BY <1>5 DEF Sysfs, Goto
  <2>2. w.target \notin Plain
    BY DEF SettingsHypothesis
  <2> HIDE DEF w
  <2>3. QuietStep(c, "write", p, {w})
    BY <1>2, <1>3, <2>1, <2>2 DEF QuietStep
  <2> QED
    BY <2>3, SettingsQuiet
<1>6. ASSUME Oframe(c, p) PROVE SettingsOK'
  <2> DEFINE ws == {WriteOf(p, 1, 1), WriteOf(p, 2, 1)}
  <2>1. pc' = [pc EXCEPT ![c] = "write"] /\ todo' = [todo EXCEPT ![c] = ws]
    BY <1>6 DEF Oframe, Goto
  <2>2. \A w \in ws : w.target \notin Plain
    BY DEF WriteOf, TargetOf, Fields, Plain
  <2> HIDE DEF ws
  <2>3. QuietStep(c, "write", p, ws)
    BY <1>2, <1>3, <2>1, <2>2 DEF QuietStep
  <2> QED
    BY <2>3, SettingsQuiet
<1>7. ASSUME ClockCall(c, p) PROVE SettingsOK'
  <2>1. QuietStep(c, "clock", p, {})
    BY <1>2, <1>3, <1>7 DEF ClockCall, Goto, QuietStep
  <2> QED
    BY <2>1, SettingsQuiet
<1>8. ASSUME AsyncRead(c, p) PROVE SettingsOK'
  <2>1. QuietStep(c, "async", p, {})
    BY <1>2, <1>3, <1>8 DEF AsyncRead, Goto, QuietStep
  <2> QED
    BY <2>1, SettingsQuiet
<1> QED
  BY <1>0, <1>1, <1>4, <1>5, <1>6, <1>7, <1>8 DEF SettingsInv

(* A caller that writes nothing, and gives its lock up or not.             *)
LEMMA SettingsLocks ==
  ASSUME SettingsInv, NEW c \in Procs,
         \/ IoctlLock(c) \/ Finish(c)
         \/ ClockLock(c) \/ ClockRestore(c) \/ AsyncStore(c)
  PROVE  SettingsOK'
<1> USE DEF card, local, bounds, history
<1>0. TypeInv /\ TypeInv'
  BY TypeStep DEF SettingsInv, Step
<1>1. CASE c = PM
  <2>1. Finish(c)
    BY <1>0, <1>1 DEF TypeInv, Typed, IoctlLock, ClockLock, ClockRestore, AsyncStore
  <2>2. /\ pc[PM] = "write" /\ todo[PM] = {}
        /\ pc' = [pc EXCEPT ![PM] = "idle"] /\ at' = [at EXCEPT ![PM] = 0]
        /\ UNCHANGED <<reg, want, power, storage, todo>>
    BY <1>1, <2>1 DEF Finish, Leave, Goto
  <2>3. \A d \in Callers : d # PM /\ pc'[d] = pc[d] /\ at'[d] = at[d] /\ lock'[at[d]] = lock[at[d]]
    BY <1>0, <1>1, <2>1, <2>2, CallersAssumption DEF Finish, TypeInv, Typed, Procs
  <2>4. pc'[PM] = "idle" /\ power
    BY <1>0, <1>1, <2>2 DEF TypeInv, Typed, Procs, SettingsInv, SettingsOK, FrozenOK
  <2>5. \A d \in Callers : \A w : Storing(d, w)' <=> Storing(d, w)
    BY <2>2, <2>3 DEF Storing, IsNext
  <2>6. FrozenOK'
    BY <2>2, <2>4 DEF FrozenOK
  <2>7. PlainLocked'
    BY <2>2, <2>3 DEF SettingsInv, SettingsOK, PlainLocked, Writing
  <2>8. StoringWanted'
    BY <2>2, <2>5 DEF SettingsInv, SettingsOK, StoringWanted
  <2>9. CopyKept'
    BY <2>2, <2>5 DEF SettingsInv, SettingsOK, CopyKept
  <2>10. CardKept'
    BY <2>2 DEF SettingsInv, SettingsOK, CardKept
  <2> QED
    BY <2>6, <2>7, <2>8, <2>9, <2>10 DEF SettingsOK
<1>2. CASE c # PM
  <2>0. c \in Callers
    BY <1>2 DEF Procs
  <2>1. /\ pc \in [Procs -> {"idle", "lock", "write", "store", "clock", "shift", "async"}]
        /\ at \in [Procs -> Ports] /\ todo \in [Procs -> SUBSET WriteType]
        /\ lock \in [Ports -> Callers \cup {Nobody}]
        /\ storage \in [Ports -> [Field -> Int]]
        /\ Nobody \notin Callers /\ Callers \subseteq Procs
    BY <1>0, CallersAssumption DEF TypeInv, Typed, Procs
  <2>2. at = [at EXCEPT ![c] = at[c]] /\ todo = [todo EXCEPT ![c] = todo[c]]
    BY <2>1
  <2>3. CASE IoctlLock(c)
    <3>1. QuietStep(c, "write", at[c], todo[c])
      <4>1. \A w \in todo[c] : w.target \in Plain => w.port = at[c]
        BY <2>0 DEF SettingsInv, SettingsOK, PlainLocked
      <4>2. lock'[at[c]] = c /\ \A d \in Callers : lock[at[d]] = d => lock'[at[d]] = d
        BY <2>1, <2>3 DEF IoctlLock, TakeLock
      <4> QED
        BY <1>2, <2>2, <2>3, <4>1, <4>2 DEF IoctlLock, Goto, QuietStep
    <3> QED
      BY <2>0, <3>1, SettingsQuiet
  <2>4. CASE Finish(c)
    <3>1. QuietStep(c, "idle", 0, {})
      <4>1. \A d \in Callers \ {c} : lock[at[d]] = d => lock'[at[d]] = d
        BY <2>1, <2>4 DEF Finish
      <4> QED
        BY <1>2, <2>2, <2>4, <4>1 DEF Finish, Leave, Goto, QuietStep
    <3> QED
      BY <2>0, <3>1, SettingsQuiet
  <2>5. CASE ClockLock(c)
    <3>1. QuietStep(c, "shift", at[c], {})
      <4>1. \A d \in Callers : lock[at[d]] = d => lock'[at[d]] = d
        BY <2>1, <2>5 DEF ClockLock, TakeLock
      <4>2. todo[c] = {}
        BY <1>0, <2>5 DEF ClockLock, TypeInv, TodoOK
      <4> QED
        BY <1>2, <2>2, <2>5, <4>1, <4>2 DEF ClockLock, Goto, QuietStep
    <3> QED
      BY <2>0, <3>1, SettingsQuiet
  <2>6. CASE ClockRestore(c)
    <3>1. QuietStep(c, "idle", 0, {})
      <4>1. \A d \in Callers \ {c} : lock[at[d]] = d => lock'[at[d]] = d
        BY <2>1, <2>6 DEF ClockRestore
      <4>2. todo[c] = {}
        BY <1>0, <2>6 DEF ClockRestore, TypeInv, TodoOK
      <4> QED
        BY <1>2, <2>2, <2>6, <4>1, <4>2 DEF ClockRestore, Leave, Goto, QuietStep
    <3> QED
      BY <2>0, <3>1, SettingsQuiet
  <2>7. CASE AsyncStore(c)
    <3>1. QuietStep(c, "idle", 0, {})
      <4>1. \A q \in Ports, r \in Plain : storage'[q][r] = storage[q][r]
        BY <2>1, <2>7 DEF AsyncStore, Plain
      <4>2. todo[c] = {}
        BY <1>0, <2>7 DEF AsyncStore, TypeInv, TodoOK
      <4> QED
        BY <1>2, <2>2, <2>7, <4>1, <4>2 DEF AsyncStore, Leave, Goto, QuietStep
    <3> QED
      BY <2>0, <3>1, SettingsQuiet
  <2> QED
    BY <2>3, <2>4, <2>5, <2>6, <2>7
<1> QED
  BY <1>1, <1>2

LEMMA SettingsDropped ==
  ASSUME SettingsInv, NEW c \in Procs, Dropped(c)
  PROVE  SettingsOK'
<1> USE DEF card, local, bounds, history
<1>0. TypeInv
  BY DEF SettingsInv
<1>1. PICK w \in todo[c] : w.target = "CMDR" /\ todo' = [todo EXCEPT ![c] = @ \ {w}]
  BY DEF Dropped
<1>2. /\ pc[c] = "write"
      /\ UNCHANGED <<reg, storage, lock, pc, at, power, want>>
  BY DEF Dropped
<1>3. /\ \A d \in Procs : todo'[d] \subseteq todo[d]
      /\ \A d \in Procs \ {c} : todo'[d] = todo[d]
      /\ \A d \in Procs : \A v \in todo[d] : v.target \in Plain => v \in todo'[d]
      /\ PM \in Procs /\ Callers \subseteq Procs
  BY <1>0, <1>1 DEF TypeInv, Typed, Procs, Plain
<1>4. \A d \in Procs : \A v : Storing(d, v)' <=> Storing(d, v)
  BY <1>2, <1>3 DEF Storing, IsNext
<1>5. FrozenOK'
  BY <1>2 DEF SettingsInv, SettingsOK, FrozenOK
<1>6. PlainLocked'
  BY <1>2, <1>3 DEF SettingsInv, SettingsOK, PlainLocked, Writing
<1>7. StoringWanted'
  BY <1>2, <1>3, <1>4 DEF SettingsInv, SettingsOK, StoringWanted
<1>8. CopyKept'
  BY <1>2, <1>3, <1>4 DEF SettingsInv, SettingsOK, CopyKept
<1>9. CardKept'
  BY <1>2, <1>3 DEF SettingsInv, SettingsOK, CardKept
<1> QED
  BY <1>5, <1>6, <1>7, <1>8, <1>9 DEF SettingsOK

LEMMA SettingsSetCard ==
  ASSUME SettingsInv, NEW c \in Procs, SetCard(c)
  PROVE  SettingsOK'
<1> USE DEF card, local, bounds, history
<1>0. TypeInv
  BY DEF SettingsInv
<1>1. PICK w \in todo[c] :
        /\ IsNext(c, w)
        /\ reg' = IF w.target \in DOMAIN reg[w.port]
                    THEN [reg EXCEPT ![w.port][w.target] = w.value] ELSE reg
        /\ want' = IF w.target \in Plain /\ c # PM
                     THEN [want EXCEPT ![w.port][w.target] = w.value] ELSE want
  BY DEF SetCard
<1>2. /\ pc[c] = "write" /\ pc' = [pc EXCEPT ![c] = "store"]
      /\ UNCHANGED <<storage, lock, at, todo, power>>
  BY DEF SetCard, Goto
<1>3. w.port \in Ports /\ w.target \in Target /\ w.value \in Nat /\ GoodWrites(todo[c])
  BY <1>0, NextTyped
<1>4. /\ \A d \in Procs \ {c} : pc'[d] = pc[d]
      /\ pc'[c] = "store"
      /\ PM \in Procs /\ Callers \subseteq Procs /\ PM \notin Callers
  BY <1>0, <1>2, CallersAssumption DEF TypeInv, Typed, Procs
<1>5. \A q \in Ports, r \in Plain :
        /\ reg'[q][r] = IF w.port = q /\ w.target = r THEN w.value ELSE reg[q][r]
        /\ want'[q][r] =
             IF w.port = q /\ w.target = r /\ c # PM THEN w.value ELSE want[q][r]
  BY <1>0, <1>1, <1>3 DEF TypeInv, Typed
<1>6. /\ \A d \in Procs \ {c} : \A v : Storing(d, v)' <=> Storing(d, v)
      /\ \A v \in todo[c] : Storing(c, v)' <=> v = w
      /\ \A v : ~Storing(c, v)
  BY <1>1, <1>2, <1>3, <1>4, NextUnique DEF Storing, IsNext
<1>7. FrozenOK'
  BY <1>2, <1>4 DEF SettingsInv, SettingsOK, FrozenOK
<1>8. PlainLocked'
  BY <1>2, <1>4 DEF SettingsInv, SettingsOK, PlainLocked, Writing
<1>9. StoringWanted'
  <2>1. ASSUME NEW d \in Callers, NEW v \in todo[d], Storing(d, v)', v.target \in Plain
        PROVE  v.value = want'[v.port][v.target]
    <3>0. v.port \in Ports
      BY <1>0, <1>4, NextTyped
    <3>1. CASE d = c
      BY <1>4, <1>5, <1>6, <2>1, <3>0, <3>1
    <3>2. CASE d # c
      <4>1. Storing(d, v) /\ v.value = want[v.port][v.target]
        BY <1>4, <1>6, <2>1, <3>2 DEF SettingsInv, SettingsOK, StoringWanted
      <4>2. CASE w.target \in Plain /\ c # PM
        <5>1. w.port = at[c] /\ lock[at[c]] = c
          BY <1>2, <4>2 DEF SettingsInv, SettingsOK, PlainLocked, Writing, Procs
        <5>2. v.port = at[d] /\ lock[at[d]] = d
          BY <2>1, <4>1 DEF SettingsInv, SettingsOK, PlainLocked, Writing, Storing
        <5> QED
          BY <1>5, <2>1, <3>0, <3>2, <4>1, <5>1, <5>2
      <4>3. CASE ~(w.target \in Plain /\ c # PM)
        BY <1>5, <2>1, <3>0, <4>1, <4>3
      <4> QED
        BY <4>2, <4>3
    <3> QED
      BY <3>1, <3>2
  <2>2. ASSUME NEW v \in todo[PM], v.target \in Plain
        PROVE  /\ v.value = want'[v.port][v.target]
               /\ Storing(PM, v)' => reg'[v.port][v.target] = v.value
    <3>1. c = PM
      <4>1. todo[PM] # {}
        BY <2>2
      <4> QED
        BY <1>0, <1>2, <4>1, CallerAlone DEF SettingsInv, SettingsOK, Procs
    <3>2. v.port \in Ports /\ v.value = want[v.port][v.target]
      BY <1>0, <1>4, <2>2, NextTyped DEF SettingsInv, SettingsOK, StoringWanted
    <3> QED
      BY <1>5, <1>6, <2>2, <3>1, <3>2
  <2> QED
    BY <1>2, <2>1, <2>2 DEF StoringWanted
<1>10. CopyKept'
  <2> SUFFICES ASSUME NEW q \in Ports, NEW r \in Plain, storage'[q][r] # want'[q][r]
               PROVE  \E d \in Callers : \E v \in todo'[d] :
                        Storing(d, v)' /\ v.port = q /\ v.target = r
    BY DEF CopyKept
  <2>1. CASE w.port = q /\ w.target = r /\ c # PM
    BY <1>2, <1>6, <2>1 DEF Procs
  <2>2. CASE ~(w.port = q /\ w.target = r /\ c # PM)
    <3>1. storage[q][r] # want[q][r]
      BY <1>2, <1>5, <2>2
    <3>2. PICK d \in Callers : \E v \in todo[d] :
            Storing(d, v) /\ v.port = q /\ v.target = r
      BY <3>1 DEF SettingsInv, SettingsOK, CopyKept
    <3>3. d # c
      BY <1>6, <3>2
    <3> QED
      BY <1>2, <1>4, <1>6, <3>2, <3>3
  <2> QED
    BY <2>1, <2>2
<1>11. CardKept'
  <2> SUFFICES ASSUME NEW q \in Ports, NEW r \in Plain, power, reg'[q][r] # want'[q][r]
               PROVE  \E v \in todo'[PM] : v.port = q /\ v.target = r
    BY <1>2 DEF CardKept
  <2>1. CASE w.port = q /\ w.target = r
    <3>1. c = PM
      BY <1>5, <2>1
    <3> QED
      BY <1>2, <2>1, <3>1
  <2>2. CASE ~(w.port = q /\ w.target = r)
    BY <1>2, <1>5, <2>2 DEF SettingsInv, SettingsOK, CardKept
  <2> QED
    BY <2>1, <2>2
<1> QED
  BY <1>7, <1>8, <1>9, <1>10, <1>11 DEF SettingsOK

LEMMA SettingsSetStore ==
  ASSUME SettingsInv, NEW c \in Procs, SetStore(c)
  PROVE  SettingsOK'
<1> USE DEF card, local, bounds, history
<1>0. TypeInv
  BY DEF SettingsInv
<1>1. PICK w \in todo[c] :
        /\ IsNext(c, w)
        /\ storage' = [storage EXCEPT ![w.port][Slot(w.target)] = w.value]
        /\ todo' = [todo EXCEPT ![c] = @ \ {w}]
  BY DEF SetStore
<1>2. /\ pc[c] = "store" /\ pc' = [pc EXCEPT ![c] = "write"]
      /\ UNCHANGED <<reg, lock, at, power, want>>
  BY DEF SetStore, Goto
<1>3. w.port \in Ports /\ w.target \in Target /\ w.value \in Nat /\ GoodWrites(todo[c])
  BY <1>0, NextTyped
<1>4. /\ \A d \in Procs \ {c} : pc'[d] = pc[d] /\ todo'[d] = todo[d]
      /\ pc'[c] = "write" /\ todo'[c] = todo[c] \ {w}
      /\ PM \in Procs /\ Callers \subseteq Procs /\ PM \notin Callers
  BY <1>0, <1>1, <1>2, CallersAssumption DEF TypeInv, Typed, Procs
<1>5. \A q \in Ports, r \in Plain :
        storage'[q][r] = IF w.port = q /\ w.target = r THEN w.value ELSE storage[q][r]
  <2>1. Plain \subseteq Field /\ Slot(w.target) \in Field
    BY <1>3, SlotFacts DEF Plain, Field, Fields
  <2>2. \A r \in Plain : Slot(w.target) = r <=> w.target = r
    BY <1>3, SlotFacts
  <2>3. \A q \in Ports, f \in Field :
          storage'[q][f] = IF w.port = q /\ Slot(w.target) = f THEN w.value ELSE storage[q][f]
    BY <1>0, <1>1, <1>3, <2>1 DEF TypeInv, Typed
  <2> QED
    BY <2>1, <2>2, <2>3
<1>6. /\ \A d \in Procs \ {c} : \A v : Storing(d, v)' <=> Storing(d, v)
      /\ \A v : ~Storing(c, v)'
      /\ Storing(c, w) /\ \A v : Storing(c, v) => v = w
  BY <1>1, <1>2, <1>3, <1>4, NextUnique DEF Storing, IsNext
<1>7. w.target \in Plain => w.value = want[w.port][w.target]
  BY <1>6 DEF SettingsInv, SettingsOK, StoringWanted, Procs
<1>8. FrozenOK'
  BY <1>2, <1>4 DEF SettingsInv, SettingsOK, FrozenOK
<1>9. PlainLocked'
  BY <1>2, <1>4 DEF SettingsInv, SettingsOK, PlainLocked, Writing
<1>10. StoringWanted'
  BY <1>2, <1>4, <1>6 DEF SettingsInv, SettingsOK, StoringWanted
<1>11. CopyKept'
  <2> SUFFICES ASSUME NEW q \in Ports, NEW r \in Plain, storage'[q][r] # want'[q][r]
               PROVE  \E d \in Callers : \E v \in todo'[d] :
                        Storing(d, v)' /\ v.port = q /\ v.target = r
    BY DEF CopyKept
  <2>1. ~(w.port = q /\ w.target = r) /\ storage[q][r] # want[q][r]
    BY <1>2, <1>5, <1>7
  <2>2. PICK d \in Callers : \E v \in todo[d] :
          Storing(d, v) /\ v.port = q /\ v.target = r
    BY <2>1 DEF SettingsInv, SettingsOK, CopyKept
  <2>3. d # c
    BY <1>6, <2>1, <2>2
  <2> QED
    BY <1>4, <1>6, <2>2, <2>3
<1>12. CardKept'
  <2> SUFFICES ASSUME NEW q \in Ports, NEW r \in Plain, power, reg[q][r] # want[q][r]
               PROVE  \E v \in todo'[PM] : v.port = q /\ v.target = r
    BY <1>2 DEF CardKept
  <2>1. PICK v \in todo[PM] : v.port = q /\ v.target = r
    BY DEF SettingsInv, SettingsOK, CardKept
  <2>2. c = PM => v # w
    BY <1>6, <1>7, <2>1 DEF SettingsInv, SettingsOK, StoringWanted
  <2> QED
    BY <1>4, <2>1, <2>2
<1> QED
  BY <1>8, <1>9, <1>10, <1>11, <1>12 DEF SettingsOK

LEMMA SettingsResume ==
  ASSUME SettingsInv, Resume
  PROVE  SettingsOK'
<1> USE DEF card, local, bounds, history
<1>0. TypeInv
  BY DEF SettingsInv
<1> DEFINE ws == Writes(0, storage[0]) \cup Writes(1, storage[1])
<1>1. /\ ~power /\ power' = TRUE /\ pc[PM] = "idle"
      /\ pc' = [pc EXCEPT ![PM] = "write"] /\ todo' = [todo EXCEPT ![PM] = ws]
      /\ UNCHANGED <<reg, storage, lock, at, want>>
  BY DEF Resume, Goto, SettingsInv, SettingsOK, FrozenOK
<1>2. \A q \in Ports, r \in Plain :
        storage[q][r] = want[q][r] /\ storage[q][r] \in Nat
  <2>1. \A c \in Callers : pc[c] = "idle"
    BY <1>1 DEF SettingsInv, SettingsOK, FrozenOK
  <2>2. \A c \in Callers : \A w : ~Storing(c, w)
    BY <2>1 DEF Storing
  <2> QED
    BY <1>0, <2>2 DEF SettingsInv, SettingsOK, CopyKept, TypeInv, Typed
<1>3. \A q \in Ports : /\ \A w \in Writes(q, storage[q]) : w.port = q
                       /\ Writes(q, storage[q]) \subseteq ws
  BY <1>0, CopiesGood, WritesGood DEF Ports
<1>4. \A w \in ws : w.target \in Plain => w.value = want[w.port][w.target]
  <2> SUFFICES ASSUME NEW w \in ws, w.target \in Plain
               PROVE  w.value = want[w.port][w.target]
    OBVIOUS
  <2>1. PICK q \in Ports : w \in Writes(q, storage[q])
    BY DEF Ports
  <2>2. w.value = storage[q][w.target]
    BY <1>0, <2>1, CopiesGood, WritesPlain
  <2> QED
    BY <1>2, <1>3, <2>1, <2>2
<1>5. \A q \in Ports, r \in Plain : \E w \in ws : w.port = q /\ w.target = r
  <2> SUFFICES ASSUME NEW q \in Ports, NEW r \in Plain
               PROVE  \E w \in ws : w.port = q /\ w.target = r
    OBVIOUS
  <2>1. PICK w \in Writes(q, storage[q]) : w.port = q /\ w.target = r
    BY <1>0, <1>2, CopiesGood, WritesPlain
  <2> QED
    BY <1>3, <2>1
<1> HIDE DEF ws
<1>6. /\ \A d \in Callers : pc'[d] = pc[d] /\ todo'[d] = todo[d]
      /\ pc'[PM] = "write" /\ todo'[PM] = ws
      /\ \A d \in Callers : \A v : Storing(d, v)' <=> Storing(d, v)
      /\ \A v : ~Storing(PM, v)'
  BY <1>0, <1>1, CallersAssumption DEF TypeInv, Typed, Procs, Storing, IsNext
<1>7. FrozenOK'
  BY <1>1, <1>6 DEF SettingsInv, SettingsOK, FrozenOK
<1>8. PlainLocked'
  BY <1>1, <1>6 DEF SettingsInv, SettingsOK, PlainLocked, Writing
<1>9. StoringWanted'
  BY <1>1, <1>4, <1>6 DEF SettingsInv, SettingsOK, StoringWanted
<1>10. CopyKept'
  BY <1>1, <1>2 DEF CopyKept
<1>11. CardKept'
  BY <1>5, <1>6 DEF CardKept
<1> QED
  BY <1>7, <1>8, <1>9, <1>10, <1>11 DEF SettingsOK

LEMMA SettingsStep ==
  ASSUME SettingsHypothesis
  PROVE  SettingsInv /\ [Next]_vars => SettingsInv'
<1> USE DEF card, local, bounds, history
<1> SUFFICES ASSUME SettingsInv, [Next]_vars PROVE SettingsInv'
  OBVIOUS
<1>0. TypeInv'
  BY TypeHolds DEF SettingsInv
<1>1. ASSUME NEW c \in Callers, Call(c) PROVE SettingsInv'
  BY <1>1, SettingsCall
<1>2. ASSUME NEW c \in Procs, Step(c) PROVE SettingsOK'
  <2>1. CASE ClockShift(c)
    BY <2>1
    DEF ClockShift, SettingsInv, SettingsOK, FrozenOK, PlainLocked, StoringWanted, CopyKept,
        CardKept, Writing, Storing, IsNext
  <2> QED
    BY <1>2, <2>1, SettingsLocks, SettingsDropped, SettingsSetCard, SettingsSetStore DEF Step
<1>3. ASSUME Suspend PROVE SettingsOK'
  <2>1. /\ ~power' /\ \A c \in Procs : pc[c] = "idle"
        /\ UNCHANGED <<storage, lock, pc, at, todo, want>>
    BY <1>3 DEF Suspend
  <2>2. \A c \in Procs : \A w : ~Storing(c, w) /\ ~Storing(c, w)'
    BY <2>1 DEF Storing
  <2>3. PM \in Procs /\ Callers \subseteq Procs
    BY DEF Procs
  <2>4. FrozenOK' /\ CardKept'
    BY <2>1, <2>3 DEF FrozenOK, CardKept
  <2>5. PlainLocked'
    BY <2>1 DEF SettingsInv, SettingsOK, PlainLocked, Writing
  <2>6. todo[PM] = {}
    BY <2>1, <2>3 DEF SettingsInv, TypeInv, TodoOK
  <2>7. StoringWanted' /\ CopyKept'
    BY <2>1, <2>2, <2>3, <2>6 DEF SettingsInv, SettingsOK, StoringWanted, CopyKept
  <2> QED
    BY <2>4, <2>5, <2>7 DEF SettingsOK
<1>4. ASSUME Resume PROVE SettingsOK'
  BY <1>4, SettingsResume
<1>5. ASSUME UNCHANGED vars PROVE SettingsOK'
  <2>1. UNCHANGED <<reg, storage, lock, pc, at, todo, power, want>>
    BY <1>5 DEF vars
  <2>2. \A c, w : Storing(c, w)' <=> Storing(c, w)
    BY <2>1 DEF Storing, IsNext
  <2>3. FrozenOK' /\ PlainLocked' /\ CardKept'
    BY <2>1 DEF SettingsInv, SettingsOK, FrozenOK, PlainLocked, CardKept, Writing
  <2>4. StoringWanted' /\ CopyKept'
    BY <2>1, <2>2 DEF SettingsInv, SettingsOK, StoringWanted, CopyKept
  <2> QED
    BY <2>3, <2>4 DEF SettingsOK
<1> QED
  BY <1>0, <1>1, <1>2, <1>3, <1>4, <1>5 DEF Next, SettingsInv

(***************************************************************************)
(* When sysfs writes no setting, between calls the card and the copy have  *)
(* what was last written, also after a loss of power and a resume          *)
(* (main.c 248-250, port.c 536).                                           *)
(***************************************************************************)
THEOREM SettingsAreKept ==
  ASSUME SettingsHypothesis
  PROVE  Spec => []SettingsKept
<1>1. SettingsInv => SettingsKept
  <2> SUFFICES ASSUME SettingsInv, NEW p \in Ports, NEW r \in Plain,
                      power, ~Writing(PM), \A c \in Callers : Writing(c) => at[c] # p
               PROVE  reg[p][r] = want[p][r] /\ storage[p][r] = want[p][r]
    BY DEF SettingsKept
  <2>1. todo[PM] = {}
    BY DEF SettingsInv, TypeInv, Typed, TodoOK, Writing, Procs
  <2>2. \A c \in Callers : \A w \in todo[c] :
          ~(Storing(c, w) /\ w.port = p /\ w.target = r)
    BY DEF SettingsInv, SettingsOK, PlainLocked, Storing, Writing
  <2> QED
    BY <2>1, <2>2 DEF SettingsInv, SettingsOK, CopyKept, CardKept
<1> QED
  BY <1>1, SettingsInit, SettingsStep, PTL DEF Spec

-------------------------------------------------------------------------------
(***************************************************************************)
(* The feature control register.                                           *)
(***************************************************************************)

(* A step of c, a caller, that neither writes FCR nor holds its pins: c     *)
(* goes on to l, in a call for p.                                           *)
FcrQuietStep(c, l, p) ==
  /\ pc[c] # "shift" /\ l # "shift"
  /\ pc' = [pc EXCEPT ![c] = l] /\ at' = [at EXCEPT ![c] = p]
  /\ \A d \in Callers \ {c} : (lock[at[d]] = d => lock'[at[d]] = d) /\ seen'[d] = seen[d]
  /\ UNCHANGED <<fcr, power, resumes, wantFcr, crossed>>

LEMMA FcrQuiet ==
  ASSUME FcrInv, NEW c \in Callers, NEW l, NEW p, FcrQuietStep(c, l, p)
  PROVE  FcrOK'
<1> USE DEF FcrQuietStep
<1>1. /\ \A d \in Callers \ {c} : pc'[d] = pc[d] /\ at'[d] = at[d]
      /\ pc'[c] = l /\ at'[c] = p /\ pc'[PM] = pc[PM]
  BY CallersAssumption DEF FcrInv, TypeInv, Typed, Procs
<1>2. FcrLocked'
  BY <1>1 DEF FcrInv, FcrOK, FcrLocked, Writing
<1>3. ClockKeeps'
  BY <1>1 DEF FcrInv, FcrOK, ClockKeeps
<1> QED
  BY <1>2, <1>3 DEF FcrOK

LEMMA FcrCall ==
  ASSUME FcrInv, NEW c \in Callers, Call(c)
  PROVE  FcrOK'
<1> USE DEF card, local, bounds, history
<1>1. PICK p \in Ports :
      \/ \E fs \in SUBSET UserFields, v \in Settings : Ioctl(c, p, fs, v)
      \/ \E t \in SysfsFields, v \in Settings : Sysfs(c, p, t, v)
      \/ Oframe(c, p) \/ ClockCall(c, p) \/ AsyncRead(c, p)
  BY DEF Call
<1>2. /\ pc[c] = "idle" /\ at' = [at EXCEPT ![c] = p]
      /\ UNCHANGED <<fcr, power, lock, resumes, wantFcr, crossed>>
  BY <1>1 DEF Ioctl, Sysfs, Oframe, ClockCall, AsyncRead, Begin
<1>3. PICK l \in {"lock", "write", "clock", "async"} : pc' = [pc EXCEPT ![c] = l]
  BY <1>1 DEF Ioctl, Sysfs, Oframe, ClockCall, AsyncRead, Goto
<1>4. \A d \in Callers \ {c} : seen'[d] = seen[d]
  <2>1. seen' = seen \/ \E x : seen' = [seen EXCEPT ![c] = x]
    BY <1>1 DEF Ioctl, Sysfs, Oframe, ClockCall, AsyncRead
  <2> QED
    BY <2>1 DEF FcrInv, TypeInv, Typed, Procs
<1>5. FcrQuietStep(c, l, p)
  BY <1>2, <1>3, <1>4 DEF FcrQuietStep
<1> QED
  BY <1>5, FcrQuiet

(* A resume is under way: that FCR is kept is no longer said.              *)
LEMMA FcrResuming ==
  ASSUME FcrInv, Step(PM)
  PROVE  FcrOK'
<1> USE DEF card, local, bounds, history
<1>1. \/ Finish(PM) \/ Dropped(PM) \/ SetCard(PM) \/ SetStore(PM)
  BY DEF Step, FcrInv, TypeInv, Typed, IoctlLock, ClockLock, ClockShift, ClockRestore, AsyncStore
<1>2. pc[PM] # "idle" /\ UNCHANGED resumes
  BY <1>1 DEF Finish, Dropped, SetCard, SetStore
<1>3. resumes' # 0
  BY <1>2 DEF FcrInv, FcrOK, FcrLocked
<1>4. \A d \in Callers : pc'[d] = pc[d] /\ at'[d] = at[d] /\ lock'[at[d]] = lock[at[d]]
  <2>0. /\ pc \in [Procs -> {"idle", "lock", "write", "store", "clock", "shift", "async"}]
        /\ at \in [Procs -> Ports]
        /\ lock \in [Ports -> Callers \cup {Nobody}] /\ PM \notin Callers
        /\ Callers \subseteq Procs /\ PM # Nobody
    BY CallersAssumption DEF FcrInv, TypeInv, Typed, Procs, PM, Nobody
  <2>1. CASE Finish(PM)
    BY <2>0, <2>1 DEF Finish, Leave, Goto
  <2>2. CASE Dropped(PM)
    BY <2>0, <2>2 DEF Dropped
  <2>3. CASE SetCard(PM)
    BY <2>0, <2>3 DEF SetCard, Goto
  <2>4. CASE SetStore(PM)
    BY <2>0, <2>4 DEF SetStore, Goto
  <2> QED
    BY <1>1, <2>1, <2>2, <2>3, <2>4
<1>5. FcrLocked'
  BY <1>3, <1>4 DEF FcrInv, FcrOK, FcrLocked, Writing
<1> QED
  BY <1>3, <1>5 DEF FcrOK, ClockKeeps

LEMMA FcrCalls ==
  ASSUME FcrInv, NEW c \in Callers,
         \/ IoctlLock(c) \/ Finish(c) \/ Dropped(c) \/ SetStore(c) \/ AsyncStore(c)
  PROVE  FcrOK'
<1> USE DEF card, local, bounds, history
<1>1. /\ pc \in [Procs -> {"idle", "lock", "write", "store", "clock", "shift", "async"}]
      /\ at \in [Procs -> Ports]
      /\ lock \in [Ports -> Callers \cup {Nobody}] /\ seen \in [Procs -> FcrValues]
      /\ Nobody \notin Callers /\ Callers \subseteq Procs
  BY CallersAssumption DEF FcrInv, TypeInv, Typed, Procs
<1>2. at = [at EXCEPT ![c] = at[c]] /\ pc = [pc EXCEPT ![c] = pc[c]]
  BY <1>1
<1>3. \A d \in Callers \ {c} : seen'[d] = seen[d]
  BY <1>1 DEF IoctlLock, Finish, Dropped, SetStore, AsyncStore, Leave
<1>4. CASE IoctlLock(c)
  <2>1. \A d \in Callers : lock[at[d]] = d => lock'[at[d]] = d
    BY <1>1, <1>4 DEF IoctlLock, TakeLock
  <2>2. FcrQuietStep(c, "write", at[c])
    BY <1>2, <1>3, <1>4, <2>1 DEF IoctlLock, Goto, FcrQuietStep
  <2> QED
    BY <2>2, FcrQuiet
<1>5. CASE Finish(c)
  <2>1. \A d \in Callers \ {c} : lock[at[d]] = d => lock'[at[d]] = d
    BY <1>1, <1>5 DEF Finish
  <2>2. FcrQuietStep(c, "idle", 0)
    BY <1>3, <1>5, <2>1 DEF Finish, Leave, Goto, FcrQuietStep
  <2> QED
    BY <2>2, FcrQuiet
<1>6. CASE Dropped(c) \/ SetStore(c)
  <2>1. /\ pc[c] # "shift" /\ pc' = [pc EXCEPT ![c] = "write"]
        /\ UNCHANGED <<fcr, lock, at, power, resumes, wantFcr, crossed>>
    BY <1>2, <1>6 DEF Dropped, SetStore, Goto
  <2>2. FcrQuietStep(c, "write", at[c])
    BY <1>2, <1>3, <2>1 DEF FcrQuietStep
  <2> QED
    BY <2>2, FcrQuiet
<1>7. CASE AsyncStore(c)
  <2>1. FcrQuietStep(c, "idle", 0)
    BY <1>3, <1>7 DEF AsyncStore, Leave, Goto, FcrQuietStep
  <2> QED
    BY <2>1, FcrQuiet
<1> QED
  BY <1>4, <1>5, <1>6, <1>7

(* FCR is written: the write stands, unless it falls into a sequence.      *)
LEMMA FcrWritten ==
  ASSUME FcrInv, NEW c \in Callers, SetCard(c)
  PROVE  FcrOK'
<1> USE DEF card, local, bounds, history
<1>1. PICK w \in todo[c] :
        /\ fcr' = IF w.target = "FCR" THEN w.value ELSE fcr
        /\ wantFcr' = IF w.target = "FCR" /\ c # PM THEN w.value ELSE wantFcr
        /\ crossed' = IF w.target = "FCR" THEN Crosses(c) ELSE crossed
  BY DEF SetCard
<1>2. /\ pc[c] = "write" /\ pc' = [pc EXCEPT ![c] = "store"]
      /\ UNCHANGED <<lock, at, seen, power, resumes>>
  BY DEF SetCard, Goto
<1>3. /\ \A d \in Callers \ {c} : pc'[d] = pc[d]
      /\ pc'[c] = "store" /\ pc'[PM] = pc[PM] /\ c # PM
  BY <1>2, CallersAssumption DEF FcrInv, TypeInv, Typed, Procs
<1>4. FcrLocked'
  BY <1>2, <1>3 DEF FcrInv, FcrOK, FcrLocked
<1>5. CASE w.target = "FCR"
  <2>1. ASSUME ~Crosses(c), NEW d \in Callers PROVE pc'[d] # "shift"
    <3>1. pc[d] = "shift" => lock[at[d]] = d
      BY DEF FcrInv, FcrOK, FcrLocked
    <3>2. d # c => pc[d] # "shift"
      BY <2>1, <3>1 DEF Crosses
    <3> QED
      BY <1>3, <3>2
  <2>2. fcr' = wantFcr' /\ (crossed' <=> Crosses(c))
    BY <1>1, <1>3, <1>5
  <2>3. ClockKeeps'
    BY <2>1, <2>2 DEF ClockKeeps
  <2> QED
    BY <1>4, <2>3 DEF FcrOK
<1>6. CASE w.target # "FCR"
  <2>1. fcr' = fcr /\ wantFcr' = wantFcr /\ crossed' = crossed
    BY <1>1, <1>6
  <2>2. ClockKeeps'
    BY <1>2, <1>3, <2>1 DEF FcrInv, FcrOK, ClockKeeps
  <2> QED
    BY <1>4, <2>2 DEF FcrOK
<1> QED
  BY <1>5, <1>6

(* The pins: a caller holds them alone, and has what FCR was, unless its   *)
(* sequence falls into another's.                                          *)
LEMMA FcrClocked ==
  ASSUME FcrInv, NEW c \in Callers,
         ClockLock(c) \/ ClockShift(c) \/ ClockRestore(c)
  PROVE  FcrOK'
<1> USE DEF card, local, bounds, history
<1>1. /\ pc \in [Procs -> {"idle", "lock", "write", "store", "clock", "shift", "async"}]
      /\ at \in [Procs -> Ports]
      /\ lock \in [Ports -> Callers \cup {Nobody}] /\ seen \in [Procs -> FcrValues]
      /\ Nobody \notin Callers /\ Callers \subseteq Procs /\ PM \in Procs \ Callers
  BY CallersAssumption DEF FcrInv, TypeInv, Typed, Procs
<1>2. UNCHANGED <<power, resumes, wantFcr>>
  BY DEF ClockLock, ClockShift, ClockRestore
<1>3. \A d \in Callers : pc[d] = "shift" => lock[at[d]] = d
  BY DEF FcrInv, FcrOK, FcrLocked
<1>7. CASE ClockLock(c)
  <2>1. /\ pc[c] = "clock" /\ lock[at[c]] = Nobody
        /\ lock' = [lock EXCEPT ![at[c]] = c] /\ seen' = [seen EXCEPT ![c] = fcr]
        /\ pc' = [pc EXCEPT ![c] = "shift"] /\ UNCHANGED <<at, fcr>>
        /\ ~crossed' => ~crossed /\ ~CrossesClock(c)
    BY <1>7 DEF ClockLock, TakeLock, Goto
  <2>2. ASSUME ~CrossesClock(c), NEW d \in Callers PROVE pc[d] # "shift"
    <3>1. pc[d] = "shift" => lock[at[d]] = d
      BY <1>3
    <3>2. pc[d] = "shift" => at[d] = at[c]
      BY <2>2 DEF CrossesClock
    <3> QED
      BY <1>1, <2>1, <3>1, <3>2
  <2>3. /\ \A d \in Callers \ {c} : pc'[d] = pc[d] /\ (lock[at[d]] = d => lock'[at[d]] = d)
        /\ pc'[c] = "shift" /\ lock'[at[c]] = c /\ seen'[c] = fcr /\ pc'[PM] = pc[PM]
    BY <1>1, <2>1
  <2>4. FcrLocked'
    BY <1>2, <2>1, <2>3 DEF FcrInv, FcrOK, FcrLocked
  <2>5. ClockKeeps'
    BY <1>2, <2>1, <2>2, <2>3 DEF FcrInv, FcrOK, ClockKeeps
  <2> QED
    BY <2>4, <2>5 DEF FcrOK
<1>8. CASE ClockShift(c)
  <2>1. pc[c] = "shift" /\ UNCHANGED <<lock, pc, at, seen, crossed>>
    BY <1>8 DEF ClockShift
  <2>2. FcrLocked'
    BY <1>2, <2>1 DEF FcrInv, FcrOK, FcrLocked
  <2>3. ClockKeeps'
    BY <1>2, <2>1 DEF FcrInv, FcrOK, ClockKeeps
  <2> QED
    BY <2>2, <2>3 DEF FcrOK
<1>9. CASE ClockRestore(c)
  <2>1. /\ pc[c] = "shift" /\ fcr' = seen[c]
        /\ lock' = [lock EXCEPT ![at[c]] = IF @ = c THEN Nobody ELSE @]
        /\ pc' = [pc EXCEPT ![c] = "idle"] /\ at' = [at EXCEPT ![c] = 0]
        /\ seen' = [seen EXCEPT ![c] = 0] /\ crossed' = crossed
    BY <1>9 DEF ClockRestore, Leave, Goto
  <2>2. /\ \A d \in Callers \ {c} :
              /\ pc'[d] = pc[d] /\ at'[d] = at[d] /\ seen'[d] = seen[d]
              /\ lock[at[d]] = d => lock'[at[d]] = d
        /\ pc'[c] = "idle" /\ pc'[PM] = pc[PM]
    BY <1>1, <2>1
  <2>3. FcrLocked'
    BY <1>2, <2>2 DEF FcrInv, FcrOK, FcrLocked
  <2>4. ClockKeeps'
    BY <1>2, <2>1, <2>2 DEF FcrInv, FcrOK, ClockKeeps
  <2> QED
    BY <2>3, <2>4 DEF FcrOK
<1> QED
  BY <1>7, <1>8, <1>9

LEMMA FcrStep == FcrInv /\ [Next]_vars => FcrInv'
<1> USE DEF card, local, bounds, history
<1> SUFFICES ASSUME FcrInv, [Next]_vars PROVE FcrInv'
  OBVIOUS
<1>0. TypeInv'
  BY TypeHolds DEF FcrInv
<1>1. ASSUME NEW c \in Callers, Call(c) PROVE FcrOK'
  BY <1>1, FcrCall
<1>2. ASSUME NEW c \in Procs, Step(c) PROVE FcrOK'
  <2>1. CASE c = PM
    BY <1>2, <2>1, FcrResuming
  <2>2. CASE c \in Callers
    BY <1>2, <2>2, FcrCalls, FcrWritten, FcrClocked DEF Step
  <2> QED
    BY <2>1, <2>2 DEF Procs
<1>3. ASSUME Suspend \/ Resume PROVE FcrOK'
  <2>1. /\ resumes' # 0 /\ UNCHANGED <<lock, at>>
        /\ \A d \in Callers : pc'[d] = pc[d]
    <3>1. CASE Suspend
      BY <3>1 DEF Suspend, FcrInv, TypeInv, Typed
    <3>2. CASE Resume
      <4>1. resumes # 0
        BY <3>2 DEF Resume, FcrInv, FcrOK, FcrLocked
      <4> QED
        BY <3>2, <4>1, CallersAssumption DEF Resume, Goto, FcrInv, TypeInv, Typed, Procs
    <3> QED
      BY <1>3, <3>1, <3>2
  <2>2. FcrLocked'
    BY <2>1 DEF FcrInv, FcrOK, FcrLocked
  <2> QED
    BY <2>1, <2>2 DEF FcrOK, ClockKeeps
<1>4. ASSUME UNCHANGED vars PROVE FcrOK'
  <2>1. UNCHANGED <<fcr, lock, pc, at, seen, power, resumes, wantFcr, crossed>>
    BY <1>4 DEF vars
  <2> QED
    BY <2>1 DEF FcrInv, FcrOK, FcrLocked, ClockKeeps
<1> QED
  BY <1>0, <1>1, <1>2, <1>3, <1>4 DEF Next, FcrInv, FcrOK

LEMMA FcrInit == Init => FcrInv
<1> SUFFICES ASSUME Init PROVE FcrInv
  OBVIOUS
<1>1. TypeInv
  BY TypeInit
<1> QED
  BY <1>1 DEF Init, FcrInv, FcrOK, FcrLocked, ClockKeeps, Procs

(***************************************************************************)
(* Both ports and sysfs write FCR and set the clock.  Between calls, and    *)
(* before any resume, FCR is what was last written to it, whatever clock    *)
(* sequences ran since, unless that write or one of them fell into a        *)
(* sequence that the lock of its port does not keep out (port.c 587).       *)
(***************************************************************************)
THEOREM FcrIsKept == Spec => []FcrKept
<1>1. FcrInv => FcrKept
  BY DEF FcrInv, FcrOK, ClockKeeps, FcrKept
<1> QED
  BY <1>1, FcrInit, FcrStep, PTL DEF Spec
===============================================================================
