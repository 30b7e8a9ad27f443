--------------------------- MODULE LifecycleProofs ---------------------------
(***************************************************************************)
(* Proofs about Lifecycle, for any number of cards, interrupts and files.  *)
(* The inductive invariant says where the thread of control is, what the   *)
(* lists hold then, what every port and every card consists of, also those *)
(* that are gone or were never complete, and that a port which is in no    *)
(* list is quiet.                                                          *)
(***************************************************************************)
EXTENDS Lifecycle, TLAPS

Creating == {"irq", "sysfs", "work", "frames", "list"}
Deleting == {"stop", "destroy", "free_irq", "free"}
Working == Creating \cup Deleting
AtCard == Working \cup {"port", "delete"}

ControlOK ==
  /\ step \in {"register", "scan", "card", "port"} \cup Creating => phase = "loading"
  /\ step \in {"delete"} \cup Deleting => phase \in {"removing", "exiting"}
  /\ step = "exit" => phase = "exiting"
  /\ step = "none" => phase \in {"unloaded", "loaded"}
  /\ step = "over" => phase \in {"unloaded", "failed"}
  /\ step \in AtCard \cup {"card"} => card \in Cards
  /\ step \in Working => chan \in Channels
  /\ step = "register" => card = 0
  /\ phase = "unloaded" /\ step = "none" => card = 0
  /\ phase = "unloaded" => registered = {}

ListsOK ==
  /\ fscc_cards \subseteq present
  /\ step \in {"card", "port"} \cup Creating => card \in present
  /\ step \in AtCard => card \notin fscc_cards
  /\ phase = "loading" => \A c \in fscc_cards : c < card
  /\ phase = "unloaded" \/ step = "register" => fscc_cards = {}
  /\ \A p \in ports : p[1] \in fscc_cards \/ (step \in AtCard /\ p[1] = card)
  /\ step \in Working => Port \notin ports
  /\ step \in {"port"} \cup Creating => \A p \in ports : p[1] = card => p[2] < chan

(* What the port in hand consists of at each step. *)
Held ==
  CASE step = "irq" -> {"memory", "device", "cdev"}
    [] step = "sysfs" -> {"memory", "device", "cdev", "irq"}
    [] step = "work" -> {"memory", "device", "cdev", "irq", "sysfs"}
    [] step = "frames" -> {"memory", "device", "cdev", "irq", "sysfs", "work"}
    [] step \in {"list", "stop", "destroy"} -> Parts
    [] step = "free_irq" -> Parts \ {"frames"}
    [] OTHER -> Parts \ {"frames", "irq"}

(* A port whose creation has not begun. *)
Fresh(p) ==
  \/ phase = "unloaded" /\ step = "none"
  \/ phase = "loading" /\
       \/ p[1] > card
       \/ p[1] = card /\ step \in {"register", "scan", "card"}
       \/ p[1] = card /\ step = "port" /\ p[2] >= chan
       \/ p[1] = card /\ step \in Creating /\ p[2] > chan

ResOK ==
  /\ \A p \in ports : res[p] = Parts
  /\ step \in Working => res[Port] = Held
  /\ \A p \in Ports : Fresh(p) => res[p] = {}

HandlerOK ==
  \A p \in Ports : handler[p] # "idle" => {"memory", "work", "irq"} \subseteq res[p]

Live(p) == p \in ports \/ (step = "stop" /\ p = Port)

Quiet(p) ==
  handler[p] = "idle" /\ ~tasklet[p] /\ ~running[p] /\ timer[p] = {} /\ file[p] = "closed"

QuietOK == \A p \in Ports \ (late \cup early) : Live(p) \/ Quiet(p)

ReleasedOK ==
  \A p \in Ports \ abandoned : res[p] # {} => p \in ports \/ (step \in Working /\ p = Port)

(* Nothing comes back to a port that was abandoned. *)
AbandonedOK ==
  \A p \in abandoned :
    /\ {"memory", "device", "cdev"} \subseteq res[p]
    /\ p \notin ports /\ ~(step \in Working /\ p = Port)

(* A card that is complete, one whose creation has not begun, and what is   *)
(* left of one that was deleted.                                            *)
InUse(c) == c \in fscc_cards \/ (step \in AtCard /\ c = card)

Unmade(c) ==
  \/ phase = "unloaded" /\ step = "none"
  \/ phase = "loading" /\ (c > card \/ (c = card /\ step \in {"register", "scan"}))

Remains == {{}, Mappings, Mappings \cup {"enabled"}}

CardsOK ==
  \A c \in Cards :
    /\ InUse(c) => own[c] = CardParts /\ c \notin lost
    /\ step = "card" /\ c = card => own[c] = {"enabled"} /\ c \notin lost
    /\ Unmade(c) => own[c] = {}
    /\ c \in lost => "enabled" \in own[c]
    /\ c \in lost \/ InUse(c) \/ (step = "card" /\ c = card) \/ own[c] \in Remains

IInv ==
  /\ TypeOK /\ ControlOK /\ ListsOK /\ ResOK /\ HandlerOK /\ QuietOK
  /\ ReleasedOK /\ AbandonedOK /\ CardsOK

(***************************************************************************)
(* Ports are pairs.                                                        *)
(***************************************************************************)
LEMMA PairOfPort ==
  ASSUME NEW p \in Ports
  PROVE  p[1] \in Cards /\ p[2] \in Channels /\ p = <<p[1], p[2]>>
BY DEF Ports

LEMMA PortInHand ==
  /\ Port[1] = card /\ Port[2] = chan
  /\ card \in Cards /\ chan \in Channels => Port \in Ports
BY DEF Port, Ports

(***************************************************************************)
(* What a card has after some of its steps, after all, and when deleted.   *)
(***************************************************************************)
LEMMA CardFacts ==
  /\ CardParts = {"enabled", "memory", "region0", "region2", "bar0", "bar1", "bar2"}
  /\ \A n \in 1 .. 6 :
       /\ {CardSteps[i] : i \in 1 .. n} \subseteq CardParts
       /\ "enabled" \in {CardSteps[i] : i \in 1 .. n}
<1>1. \A i \in 1 .. 7 : CardSteps[i] =
        IF i = 1 THEN "enabled" ELSE IF i = 2 THEN "memory" ELSE
        IF i = 3 THEN "region0" ELSE IF i = 4 THEN "region2" ELSE
        IF i = 5 THEN "bar0" ELSE IF i = 6 THEN "bar1" ELSE "bar2"
  BY DEF CardSteps
<1>2. CardParts = {"enabled", "memory", "region0", "region2", "bar0", "bar1", "bar2"}
  BY <1>1 DEF CardParts
<1>3. ASSUME NEW n \in 1 .. 6
      PROVE  /\ {CardSteps[i] : i \in 1 .. n} \subseteq CardParts
             /\ "enabled" \in {CardSteps[i] : i \in 1 .. n}
  BY <1>1 DEF CardParts
<1> QED
  BY <1>2, <1>3

(***************************************************************************)
(* A step about one card k leaves what is said of the others alone.        *)
(***************************************************************************)
LEMMA CardsFrame ==
  ASSUME CardsOK, NEW k \in Cards, step' # "card",
         \A c \in Cards \ {k} :
           /\ own'[c] = own[c] /\ (InUse(c)' <=> InUse(c)) /\ (Unmade(c)' => Unmade(c))
           /\ (c \in lost' <=> c \in lost) /\ ~(step = "card" /\ c = card),
         InUse(k)' => own'[k] = CardParts /\ k \notin lost',
         Unmade(k)' => own'[k] = {},
         k \in lost' => "enabled" \in own'[k],
         k \in lost' \/ InUse(k)' \/ own'[k] \in Remains
  PROVE  CardsOK'
<1> SUFFICES ASSUME NEW c \in Cards
             PROVE  /\ InUse(c)' => own'[c] = CardParts /\ c \notin lost'
                    /\ Unmade(c)' => own'[c] = {}
                    /\ c \in lost' => "enabled" \in own'[c]
                    /\ c \in lost' \/ InUse(c)' \/ own'[c] \in Remains
  BY DEF CardsOK
<1>1. CASE c = k
  BY <1>1
<1>2. CASE c # k
  BY <1>2 DEF CardsOK
<1> QED
  BY <1>1, <1>2

LEMMA InitHolds == Init => IInv
<1> SUFFICES ASSUME Init PROVE IInv
  OBVIOUS
<1> USE BoundsAssumption DEF Init
<1>1. TypeOK
  BY DEF TypeOK, Cards, Channels, Ports, Parts, Services
<1>2. ControlOK
  BY DEF ControlOK, AtCard, Working, Creating, Deleting
<1>3. ListsOK
  BY DEF ListsOK, AtCard, Working, Creating, Deleting
<1>4. ResOK /\ ReleasedOK
  BY DEF ResOK, ReleasedOK, AtCard, Working, Creating, Deleting
<1>5. HandlerOK /\ QuietOK
  BY DEF HandlerOK, QuietOK, Quiet
<1>6. AbandonedOK
  BY DEF AbandonedOK
<1>7. CardsOK
  BY DEF CardsOK, InUse, Remains, AtCard, Working, Creating, Deleting
<1> QED
  BY <1>1, <1>2, <1>3, <1>4, <1>5, <1>6, <1>7 DEF IInv

(***************************************************************************)
(* One lemma per action; under it one step per conjunct of the invariant.  *)
(***************************************************************************)
LEMMA InitModuleHolds ==
  ASSUME IInv, InitModule
  PROVE  IInv'
<1> USE BoundsAssumption, PairOfPort, PortInHand DEF IInv, InitModule, Goto, control,
    system, lists, irq, ghosts, AtCard, Working, Creating, Deleting
<1>1. TypeOK'
  BY DEF TypeOK
<1>2. ControlOK'
  BY DEF ControlOK
<1>3. ListsOK'
  BY DEF ListsOK
<1>4. ResOK'
  BY DEF ResOK, Fresh, Held
<1>5. HandlerOK'
  BY DEF HandlerOK
<1>6. QuietOK'
  BY DEF QuietOK, Live, Quiet
<1>7. ReleasedOK'
  BY DEF ReleasedOK
<1>8. AbandonedOK'
  BY DEF AbandonedOK, Port
<1>9. CardsOK'
  BY DEF CardsOK, InUse, Unmade
<1> QED
  BY <1>1, <1>2, <1>3, <1>4, <1>5, <1>6, <1>7, <1>8, <1>9 DEF IInv

LEMMA RegisterHolds ==
  ASSUME IInv, NEW s \in Services, Register(s)
  PROVE  IInv'
<1> USE BoundsAssumption, PairOfPort, PortInHand DEF IInv, Register, Goto, control,
    system, lists, irq, ghosts, AtCard, Working, Creating, Deleting
<1>1. TypeOK'
  BY DEF TypeOK
<1>2. ControlOK'
  BY DEF ControlOK
<1>3. ListsOK'
  BY DEF ListsOK
<1>4. ResOK'
  BY DEF ResOK, Fresh, Held
<1>5. HandlerOK'
  BY DEF HandlerOK
<1>6. QuietOK'
  BY DEF QuietOK, Live, Quiet
<1>7. ReleasedOK'
  BY DEF ReleasedOK
<1>8. AbandonedOK'
  BY DEF AbandonedOK, Port
<1>9. CardsOK'
  BY DEF CardsOK, InUse, Unmade
<1> QED
  BY <1>1, <1>2, <1>3, <1>4, <1>5, <1>6, <1>7, <1>8, <1>9 DEF IInv

LEMMA ScanDeviceHolds ==
  ASSUME IInv, ScanDevice
  PROVE  IInv'
<1> USE BoundsAssumption, PairOfPort, PortInHand DEF IInv, ScanDevice, Goto, control,
    system, lists, irq, ghosts, AtCard, Working, Creating, Deleting
<1>1. TypeOK'
  <2>1. own' \in [Cards -> SUBSET CardParts]
    BY CardFacts DEF TypeOK
  <2>2. card' \in 0 .. NumCards
    BY DEF TypeOK, Cards
  <2> QED
    BY <2>1, <2>2 DEF TypeOK
<1>2. ControlOK'
  BY DEF ControlOK
<1>3. ListsOK'
  BY DEF TypeOK, ListsOK, Ports
<1>4. ResOK'
  <2>1. \A p \in ports' : res'[p] = Parts
    BY DEF ResOK
  <2>2. step' \in Working => res'[Port'] = Held'
    BY DEF Held, Port
  <2>3. ASSUME NEW p \in Ports, Fresh(p)' PROVE res'[p] = {}
    <3>1. Fresh(p)
      BY <2>3 DEF Fresh, Cards
    <3>2. res'[p] = res[p]
      BY <2>3
    <3> QED
      BY <3>1, <3>2 DEF ResOK
  <2> QED
    BY <2>1, <2>2, <2>3 DEF ResOK
<1>5. HandlerOK'
  BY DEF HandlerOK
<1>6. QuietOK'
  BY DEF QuietOK, Live, Quiet
<1>7. ReleasedOK'
  BY DEF ReleasedOK
<1>8. AbandonedOK'
  BY DEF AbandonedOK, Port
<1>9. CardsOK'
  <2>1. own \in [Cards -> SUBSET CardParts] /\ phase = "loading"
    BY DEF TypeOK, ControlOK
  <2>2. fscc_cards' = fscc_cards /\ lost' = lost /\ step' \notin AtCard /\ step \notin AtCard
    OBVIOUS
  <2>3. Unmade(card) /\ card \notin fscc_cards
    BY <2>1 DEF Unmade, ListsOK, Cards
  <2>4. own[card] = {} /\ card \notin lost
    BY <2>3 DEF CardsOK
  <2>5. ASSUME NEW c \in Cards, c # card \/ step' # "card"
        PROVE  /\ own'[c] = own[c] /\ (InUse(c)' <=> InUse(c))
               /\ Unmade(c)' => Unmade(c)
    <3>1. own'[c] = own[c] /\ (InUse(c)' <=> InUse(c))
      BY <2>1, <2>2, <2>5 DEF InUse
    <3>2. Unmade(c)' => Unmade(c)
      BY <2>1 DEF Unmade, Cards
    <3> QED
      BY <3>1, <3>2
  <2>6. ASSUME NEW c \in Cards, c = card, step' = "card"
        PROVE  own'[c] = {"enabled"} /\ ~InUse(c)' /\ ~Unmade(c)'
    <3>1. own'[c] = {"enabled"} /\ ~InUse(c)'
      BY <2>1, <2>2, <2>3, <2>6 DEF InUse
    <3>2. ~Unmade(c)'
      BY <2>1, <2>6 DEF Unmade, Cards
    <3> QED
      BY <3>1, <3>2
  <2>7. step # "card" /\ (step' = "card" => card' = card)
    OBVIOUS
  <2> HIDE DEF ScanDevice, InUse, Unmade
  <2> QED
    BY <2>2, <2>4, <2>5, <2>6, <2>7 DEF CardsOK
<1> QED
  BY <1>1, <1>2, <1>3, <1>4, <1>5, <1>6, <1>7, <1>8, <1>9 DEF IInv

LEMMA ScanEndHolds ==
  ASSUME IInv, ScanEnd
  PROVE  IInv'
<1> USE BoundsAssumption, PairOfPort, PortInHand DEF IInv, ScanEnd, Goto, control,
    system, lists, irq, ghosts, AtCard, Working, Creating, Deleting
<1>1. TypeOK'
  BY DEF TypeOK
<1>2. ControlOK'
  BY DEF ControlOK
<1>3. ListsOK'
  BY DEF ListsOK
<1>4. ResOK'
  BY DEF ResOK, Fresh, Held
<1>5. HandlerOK'
  BY DEF HandlerOK
<1>6. QuietOK'
  BY DEF QuietOK, Live, Quiet
<1>7. ReleasedOK'
  BY DEF ReleasedOK
<1>8. AbandonedOK'
  BY DEF AbandonedOK, Port
<1>9. CardsOK'
  BY DEF CardsOK, InUse, Unmade
<1> QED
  BY <1>1, <1>2, <1>3, <1>4, <1>5, <1>6, <1>7, <1>8, <1>9 DEF IInv

LEMMA CardNewHolds ==
  ASSUME IInv, CardNew
  PROVE  IInv'
<1> USE BoundsAssumption, PairOfPort, PortInHand DEF IInv, CardNew, Goto, control,
    system, lists, irq, ghosts, AtCard, Working, Creating, Deleting
<1>1. TypeOK'
  <2>1. card \in Cards
    BY DEF ControlOK
  <2>2. own' \in [Cards -> SUBSET CardParts]
    <3>1. own \in [Cards -> SUBSET CardParts]
      BY DEF TypeOK
    <3>2. CASE own' = [own EXCEPT ![card] = CardParts]
      BY <3>1, <3>2
    <3>3. ASSUME NEW n \in 1 .. 6, own' = [own EXCEPT ![card] = {CardSteps[i] : i \in 1 .. n}]
          PROVE  own' \in [Cards -> SUBSET CardParts]
      <4> DEFINE had == {CardSteps[i] : i \in 1 .. n}
      <4>1. had \subseteq CardParts /\ own' = [own EXCEPT ![card] = had]
        BY <3>3, CardFacts
      <4> HIDE DEF had
      <4> QED
        BY <3>1, <4>1
    <3> QED
      BY <3>2, <3>3
  <2>3. card' \in 0 .. NumCards /\ chan' \in 0 .. 2
    BY <2>1 DEF TypeOK, Cards
  <2> QED
    BY <2>1, <2>2, <2>3 DEF TypeOK
<1>2. ControlOK'
  BY DEF ControlOK
<1>3. ListsOK'
  BY DEF TypeOK, ControlOK, ListsOK, Cards
<1>4. ResOK'
  <2>1. \A p \in ports' : res'[p] = Parts
    BY DEF ResOK
  <2>2. step' \in Working => res'[Port'] = Held'
    BY DEF Held, Port
  <2>3. ASSUME NEW p \in Ports, Fresh(p)' PROVE res'[p] = {}
    <3>1. Fresh(p)
      BY <2>3 DEF TypeOK, Fresh, Cards
    <3>2. res'[p] = res[p]
      BY <2>3
    <3> QED
      BY <3>1, <3>2 DEF ResOK
  <2> QED
    BY <2>1, <2>2, <2>3 DEF ResOK
<1>5. HandlerOK'
  BY DEF HandlerOK
<1>6. QuietOK'
  BY DEF QuietOK, Live, Quiet
<1>7. ReleasedOK'
  BY DEF TypeOK, ReleasedOK
<1>8. AbandonedOK'
  BY DEF AbandonedOK, Port
<1>9. CardsOK'
  <2>1. own \in [Cards -> SUBSET CardParts] /\ phase = "loading" /\ card \in Cards
    BY DEF TypeOK, ControlOK
  <2>2. card \notin fscc_cards /\ card \notin lost /\ step' # "card" /\ fscc_cards' = fscc_cards
    BY <2>1 DEF ListsOK, CardsOK, TypeOK, ControlOK
  <2>3. PICK k \in Cards : k = card
    BY <2>1
  <2>4. ASSUME NEW c \in Cards \ {k}
        PROVE  /\ own'[c] = own[c] /\ (InUse(c)' <=> InUse(c)) /\ (Unmade(c)' => Unmade(c))
               /\ (c \in lost' <=> c \in lost) /\ ~(step = "card" /\ c = card)
    <3>1. own'[c] = own[c] /\ (c \in lost' <=> c \in lost) /\ c # card
      BY <2>1, <2>3
    <3>2. InUse(c)' <=> InUse(c)
      BY <2>1, <2>2, <2>3 DEF InUse
    <3>3. Unmade(c)' => Unmade(c)
      BY <2>1, <2>3 DEF Unmade, Cards
    <3> QED
      BY <3>1, <3>2, <3>3
  <2>5. CardsOK
    OBVIOUS
  <2>6. CASE own' = [own EXCEPT ![card] = CardParts] /\ step' = "port" /\ UNCHANGED <<card, lost>>
    <3>1. own'[k] = CardParts /\ InUse(k)' /\ ~Unmade(k)' /\ k \notin lost'
      BY <2>1, <2>2, <2>3, <2>6 DEF InUse, Unmade, Cards
    <3> HIDE DEF IInv, CardNew
    <3> QED
      BY <2>2, <2>4, <2>5, <3>1, CardsFrame
  <2>7. ASSUME NEW n \in 1 .. 6, own' = [own EXCEPT ![card] = {CardSteps[i] : i \in 1 .. n}],
               lost' = lost \cup {card}, step' = "scan", card' = card + 1
        PROVE  CardsOK'
    <3> DEFINE had == {CardSteps[i] : i \in 1 .. n}
    <3>1. "enabled" \in had /\ own' = [own EXCEPT ![card] = had]
      BY <2>7, CardFacts
    <3> HIDE DEF had
    <3>2. "enabled" \in own'[k] /\ k \in lost'
      BY <2>1, <2>3, <2>7, <3>1
    <3>3. ~InUse(k)' /\ ~Unmade(k)'
      BY <2>1, <2>2, <2>3, <2>7 DEF InUse, Unmade, Cards
    <3> HIDE DEF IInv, CardNew
    <3> QED
      BY <2>2, <2>4, <2>5, <3>2, <3>3, CardsFrame
  <2> QED
    BY <2>6, <2>7
<1> QED
  BY <1>1, <1>2, <1>3, <1>4, <1>5, <1>6, <1>7, <1>8, <1>9 DEF IInv

LEMMA CardListHolds ==
  ASSUME IInv, CardList
  PROVE  IInv'
<1> USE BoundsAssumption, PairOfPort, PortInHand DEF IInv, CardList, Goto, control,
    system, lists, irq, ghosts, AtCard, Working, Creating, Deleting
<1>1. TypeOK'
  BY DEF TypeOK, ControlOK, Cards, Services
<1>2. ControlOK'
  BY DEF ControlOK
<1>3. ListsOK'
  BY DEF TypeOK, ControlOK, ListsOK, Cards
<1>4. ResOK'
  <2>1. \A p \in ports' : res'[p] = Parts
    BY DEF ResOK
  <2>2. step' \in Working => res'[Port'] = Held'
    BY DEF Held, Port
  <2>3. ASSUME NEW p \in Ports, Fresh(p)' PROVE res'[p] = {}
    <3>1. Fresh(p)
      BY <2>3 DEF TypeOK, Fresh, Cards
    <3>2. res'[p] = res[p]
      BY <2>3
    <3> QED
      BY <3>1, <3>2 DEF ResOK
  <2> QED
    BY <2>1, <2>2, <2>3 DEF ResOK
<1>5. HandlerOK'
  BY DEF HandlerOK
<1>6. QuietOK'
  BY DEF QuietOK, Live, Quiet
<1>7. ReleasedOK'
  BY DEF ReleasedOK
<1>8. AbandonedOK'
  BY DEF AbandonedOK, Port
<1>9. CardsOK'
  <2>1. phase = "loading" /\ card \in Cards /\ step' # "card" /\ card' # card
    BY DEF ControlOK, Cards
  <2>2. InUse(card)
    BY DEF InUse
  <2>3. ASSUME NEW c \in Cards
        PROVE  (InUse(c)' <=> InUse(c)) /\ (Unmade(c)' => Unmade(c) /\ c # card)
    <3>1. InUse(c)' <=> InUse(c)
      BY <2>1 DEF InUse
    <3>2. Unmade(c)' => Unmade(c) /\ c # card
      BY <2>1 DEF Unmade, Cards
    <3> QED
      BY <3>1, <3>2
  <2>4. own' = own /\ lost' = lost /\ step # "card"
    OBVIOUS
  <2> HIDE DEF CardList, InUse, Unmade
  <2> QED
    BY <2>1, <2>3, <2>4 DEF CardsOK
<1> QED
  BY <1>1, <1>2, <1>3, <1>4, <1>5, <1>6, <1>7, <1>8, <1>9 DEF IInv

LEMMA PortNodeHolds ==
  ASSUME IInv, PortNode
  PROVE  IInv'
<1> USE BoundsAssumption, PairOfPort, PortInHand DEF IInv, PortNode, Goto, control,
    system, lists, irq, ghosts, AtCard, Working, Creating, Deleting
<1>1. TypeOK'
  <2>1. Port \in Ports
    BY DEF ControlOK
  <2>2. res' \in [Ports -> SUBSET Parts]
    BY <2>1 DEF TypeOK, Parts
  <2>3. chan' \in 0 .. 2
    BY DEF Channels
  <2>4. abandoned' \subseteq Ports
    BY <2>1 DEF TypeOK
  <2> QED
    BY <2>2, <2>3, <2>4 DEF TypeOK
<1>2. ControlOK'
  BY DEF ControlOK
<1>3. ListsOK'
  <2>1. \A p \in ports : p \in Ports
    BY DEF TypeOK
  <2>2. step' \in {"port"} \cup Creating => \A p \in ports : p[1] = card => p[2] < chan'
    BY <2>1 DEF ListsOK, Channels
  <2>3. step' \in Working => Port' \notin ports
    BY <2>1, <2>2 DEF TypeOK, Port
  <2> QED
    BY <2>2, <2>3 DEF ListsOK
<1>4. ResOK'
  <2>1. \A p \in ports' : res'[p] = Parts
    BY DEF TypeOK, ListsOK, ResOK
  <2>2. step' \in Working => res'[Port'] = Held'
    BY DEF TypeOK, ControlOK, Held, Port
  <2>3. ASSUME NEW p \in Ports, Fresh(p)' PROVE res'[p] = {}
    <3>1. Fresh(p)
      BY <2>3 DEF ControlOK, Fresh, Channels
    <3>2. res'[p] = res[p]
      BY <2>3 DEF TypeOK, Fresh
    <3> QED
      BY <3>1, <3>2 DEF ResOK
  <2> QED
    BY <2>1, <2>2, <2>3 DEF ResOK
<1>5. HandlerOK'
  BY DEF TypeOK, ControlOK, ResOK, Fresh, Held, HandlerOK
<1>6. QuietOK'
  BY DEF QuietOK, Live, Quiet
<1>7. ReleasedOK'
  BY DEF TypeOK, ReleasedOK, Port
<1>8. AbandonedOK'
  BY DEF TypeOK, ControlOK, ResOK, Fresh, AbandonedOK, Port
<1>9. CardsOK'
  BY DEF CardsOK, InUse, Unmade
<1> QED
  BY <1>1, <1>2, <1>3, <1>4, <1>5, <1>6, <1>7, <1>8, <1>9 DEF IInv

LEMMA AcquireAbandons ==
  ASSUME IInv, NEW from \in {"irq", "sysfs", "frames"}, NEW part, NEW to,
         Acquire(from, part, to)
  PROVE  AbandonedOK'
<1>1. Port \in Ports /\ step \in Working
  BY PortInHand DEF IInv, ControlOK, Acquire, AtCard, Working, Creating
<1>2. res[Port] = Held /\ Port \notin ports /\ Port \notin abandoned
  BY <1>1 DEF IInv, ResOK, ListsOK, AbandonedOK
<1>3. {"memory", "device", "cdev"} \subseteq Held
  BY DEF Acquire, Held
<1>4. /\ res \in [Ports -> SUBSET Parts] /\ UNCHANGED <<ports, card>>
      /\ \A p \in abandoned : {"memory", "device", "cdev"} \subseteq res[p] /\ p \notin ports
      /\ abandoned \subseteq Ports
  BY DEF IInv, TypeOK, AbandonedOK, Acquire, lists
<1>5. CASE /\ res' = [res EXCEPT ![Port] = @ \cup {part}]
           /\ UNCHANGED <<chan, abandoned>>
  <2>1. Port' = Port
    BY <1>4, <1>5 DEF Port
  <2>2. \A p \in abandoned : p # Port /\ res'[p] = res[p]
    BY <1>1, <1>2, <1>4, <1>5
  <2> QED
    BY <1>4, <1>5, <2>1, <2>2 DEF AbandonedOK
<1>6. CASE abandoned' = abandoned \cup {Port} /\ step' = "port" /\ UNCHANGED res
  <2>1. step' \notin Working
    BY <1>6 DEF Working, Creating, Deleting
  <2> QED
    BY <1>2, <1>3, <1>4, <1>6, <2>1 DEF AbandonedOK
<1> QED
  BY <1>5, <1>6 DEF Acquire, Goto

LEMMA PortIrqHolds ==
  ASSUME IInv, PortIrq
  PROVE  IInv'
<1> USE BoundsAssumption, PairOfPort, PortInHand DEF IInv, PortIrq, Acquire, Goto,
    control, system, lists, irq, ghosts, AtCard, Working, Creating, Deleting
<1>1. TypeOK'
  <2>1. Port \in Ports
    BY DEF ControlOK
  <2>2. res' \in [Ports -> SUBSET Parts]
    BY <2>1 DEF TypeOK, Parts
  <2>3. chan' \in 0 .. 2
    BY DEF ControlOK, Channels
  <2>4. abandoned' \subseteq Ports
    BY <2>1 DEF TypeOK
  <2> QED
    BY <2>2, <2>3, <2>4 DEF TypeOK
<1>2. ControlOK'
  BY DEF ControlOK
<1>3. ListsOK'
  <2>1. \A p \in ports : p \in Ports
    BY DEF TypeOK
  <2>2. step' \in {"port"} \cup Creating => \A p \in ports : p[1] = card => p[2] < chan'
    BY <2>1 DEF TypeOK, ListsOK, Channels
  <2>3. step' \in Working => Port' \notin ports
    BY <2>1, <2>2 DEF TypeOK, Port
  <2> QED
    BY <2>2, <2>3 DEF ListsOK
<1>4. ResOK'
  <2>1. \A p \in ports' : res'[p] = Parts
    BY DEF TypeOK, ListsOK, ResOK
  <2>2. step' \in Working => res'[Port'] = Held'
    <3> SUFFICES ASSUME step' \in Working PROVE res'[Port] = Held'
      BY DEF Port
    <3>1. Port \in Ports
      BY DEF ControlOK
    <3>2. res'[Port] = Held \cup {"irq"}
      BY <3>1 DEF TypeOK, ResOK
    <3>3. Held \cup {"irq"} = Held'
      BY DEF Held
    <3> QED
      BY <3>2, <3>3
  <2>3. ASSUME NEW p \in Ports, Fresh(p)' PROVE res'[p] = {}
    <3>1. Fresh(p)
      BY <2>3 DEF ControlOK, Fresh, Channels
    <3>2. res'[p] = res[p]
      BY <2>3 DEF TypeOK, Fresh
    <3> QED
      BY <3>1, <3>2 DEF ResOK
  <2> QED
    BY <2>1, <2>2, <2>3 DEF ResOK
<1>5. HandlerOK'
  BY DEF TypeOK, HandlerOK
<1>6. QuietOK'
  BY DEF QuietOK, Live, Quiet
<1>7. ReleasedOK'
  BY DEF TypeOK, ReleasedOK, Port
<1>8. AbandonedOK'
  BY AcquireAbandons
<1>9. CardsOK'
  BY DEF CardsOK, InUse, Unmade
<1> QED
  BY <1>1, <1>2, <1>3, <1>4, <1>5, <1>6, <1>7, <1>8, <1>9 DEF IInv

LEMMA PortSysfsHolds ==
  ASSUME IInv, PortSysfs
  PROVE  IInv'
<1> USE BoundsAssumption, PairOfPort, PortInHand DEF IInv, PortSysfs, Acquire, Goto,
    control, system, lists, irq, ghosts, AtCard, Working, Creating, Deleting
<1>1. TypeOK'
  <2>1. Port \in Ports
    BY DEF ControlOK
  <2>2. res' \in [Ports -> SUBSET Parts]
    BY <2>1 DEF TypeOK, Parts
  <2>3. chan' \in 0 .. 2
    BY DEF ControlOK, Channels
  <2>4. abandoned' \subseteq Ports
    BY <2>1 DEF TypeOK
  <2> QED
    BY <2>2, <2>3, <2>4 DEF TypeOK
<1>2. ControlOK'
  BY DEF ControlOK
<1>3. ListsOK'
  <2>1. \A p \in ports : p \in Ports
    BY DEF TypeOK
  <2>2. step' \in {"port"} \cup Creating => \A p \in ports : p[1] = card => p[2] < chan'
    BY <2>1 DEF TypeOK, ListsOK, Channels
  <2>3. step' \in Working => Port' \notin ports
    BY <2>1, <2>2 DEF TypeOK, Port
  <2> QED
    BY <2>2, <2>3 DEF ListsOK
<1>4. ResOK'
  <2>1. \A p \in ports' : res'[p] = Parts
    BY DEF TypeOK, ListsOK, ResOK
  <2>2. step' \in Working => res'[Port'] = Held'
    <3> SUFFICES ASSUME step' \in Working PROVE res'[Port] = Held'
      BY DEF Port
    <3>1. Port \in Ports
      BY DEF ControlOK
    <3>2. res'[Port] = Held \cup {"sysfs"}
      BY <3>1 DEF TypeOK, ResOK
    <3>3. Held \cup {"sysfs"} = Held'
      BY DEF Held
    <3> QED
      BY <3>2, <3>3
  <2>3. ASSUME NEW p \in Ports, Fresh(p)' PROVE res'[p] = {}
    <3>1. Fresh(p)
      BY <2>3 DEF ControlOK, Fresh, Channels
    <3>2. res'[p] = res[p]
      BY <2>3 DEF TypeOK, Fresh
    <3> QED
      BY <3>1, <3>2 DEF ResOK
  <2> QED
    BY <2>1, <2>2, <2>3 DEF ResOK
<1>5. HandlerOK'
  BY DEF TypeOK, ResOK, HandlerOK
<1>6. QuietOK'
  BY DEF QuietOK, Live, Quiet
<1>7. ReleasedOK'
  BY DEF TypeOK, ReleasedOK, Port
<1>8. AbandonedOK'
  BY AcquireAbandons
<1>9. CardsOK'
  BY DEF CardsOK, InUse, Unmade
<1> QED
  BY <1>1, <1>2, <1>3, <1>4, <1>5, <1>6, <1>7, <1>8, <1>9 DEF IInv

LEMMA PortWorkHolds ==
  ASSUME IInv, PortWork
  PROVE  IInv'
<1> USE BoundsAssumption, PairOfPort, PortInHand DEF IInv, PortWork, Goto, control,
    system, lists, irq, ghosts, AtCard, Working, Creating, Deleting
<1>1. TypeOK'
  BY DEF TypeOK, Parts
<1>2. ControlOK'
  BY DEF ControlOK
<1>3. ListsOK'
  BY DEF ListsOK, Port
<1>4. ResOK'
  <2>1. \A p \in ports' : res'[p] = Parts
    BY DEF ListsOK, ResOK
  <2>2. step' \in Working => res'[Port'] = Held'
    <3> SUFFICES ASSUME step' \in Working PROVE res'[Port] = Held'
      BY DEF Port
    <3>1. Port \in Ports
      BY DEF ControlOK
    <3>2. res'[Port] = Held \cup {"work"}
      BY <3>1 DEF TypeOK, ResOK
    <3>3. Held \cup {"work"} = Held'
      BY DEF Held
    <3> QED
      BY <3>2, <3>3
  <2>3. ASSUME NEW p \in Ports, Fresh(p)' PROVE res'[p] = {}
    <3>1. Fresh(p)
      BY <2>3 DEF Fresh
    <3>2. res'[p] = res[p]
      BY <2>3 DEF TypeOK, Fresh
    <3> QED
      BY <3>1, <3>2 DEF ResOK
  <2> QED
    BY <2>1, <2>2, <2>3 DEF ResOK
<1>5. HandlerOK'
  BY DEF HandlerOK
<1>6. QuietOK'
  BY DEF QuietOK, Live, Quiet
<1>7. ReleasedOK'
  BY DEF ReleasedOK, Port
<1>8. AbandonedOK'
  BY DEF TypeOK, AbandonedOK, Port
<1>9. CardsOK'
  BY DEF CardsOK, InUse, Unmade
<1> QED
  BY <1>1, <1>2, <1>3, <1>4, <1>5, <1>6, <1>7, <1>8, <1>9 DEF IInv

LEMMA PortFramesHolds ==
  ASSUME IInv, PortFrames
  PROVE  IInv'
<1> USE BoundsAssumption, PairOfPort, PortInHand DEF IInv, PortFrames, Acquire, Goto,
    control, system, lists, irq, ghosts, AtCard, Working, Creating, Deleting
<1>1. TypeOK'
  <2>1. Port \in Ports
    BY DEF ControlOK
  <2>2. res' \in [Ports -> SUBSET Parts]
    BY <2>1 DEF TypeOK, Parts
  <2>3. chan' \in 0 .. 2
    BY DEF ControlOK, Channels
  <2>4. abandoned' \subseteq Ports
    BY <2>1 DEF TypeOK
  <2> QED
    BY <2>2, <2>3, <2>4 DEF TypeOK
<1>2. ControlOK'
  BY DEF ControlOK
<1>3. ListsOK'
  <2>1. \A p \in ports : p \in Ports
    BY DEF TypeOK
  <2>2. step' \in {"port"} \cup Creating => \A p \in ports : p[1] = card => p[2] < chan'
    BY <2>1 DEF TypeOK, ListsOK, Channels
  <2>3. step' \in Working => Port' \notin ports
    BY <2>1, <2>2 DEF TypeOK, Port
  <2> QED
    BY <2>2, <2>3 DEF ListsOK
<1>4. ResOK'
  <2>1. \A p \in ports' : res'[p] = Parts
    BY DEF TypeOK, ListsOK, ResOK
  <2>2. step' \in Working => res'[Port'] = Held'
    <3> SUFFICES ASSUME step' \in Working PROVE res'[Port] = Held'
      BY DEF Port
    <3>1. Port \in Ports
      BY DEF ControlOK
    <3>2. res'[Port] = Held \cup {"frames"}
      BY <3>1 DEF TypeOK, ResOK
    <3>3. Held \cup {"frames"} = Held'
      BY DEF Held, Parts
    <3> QED
      BY <3>2, <3>3
  <2>3. ASSUME NEW p \in Ports, Fresh(p)' PROVE res'[p] = {}
    <3>1. Fresh(p)
      BY <2>3 DEF ControlOK, Fresh, Channels
    <3>2. res'[p] = res[p]
      BY <2>3 DEF TypeOK, Fresh
    <3> QED
      BY <3>1, <3>2 DEF ResOK
  <2> QED
    BY <2>1, <2>2, <2>3 DEF ResOK
<1>5. HandlerOK'
  BY DEF TypeOK, ResOK, HandlerOK
<1>6. QuietOK'
  BY DEF QuietOK, Live, Quiet
<1>7. ReleasedOK'
  BY DEF TypeOK, ReleasedOK, Port
<1>8. AbandonedOK'
  BY AcquireAbandons
<1>9. CardsOK'
  BY DEF CardsOK, InUse, Unmade
<1> QED
  BY <1>1, <1>2, <1>3, <1>4, <1>5, <1>6, <1>7, <1>8, <1>9 DEF IInv

LEMMA PortListHolds ==
  ASSUME IInv, PortList
  PROVE  IInv'
<1> USE BoundsAssumption, PairOfPort, PortInHand DEF IInv, PortList, Goto, control,
    system, lists, irq, ghosts, AtCard, Working, Creating, Deleting
<1>1. TypeOK'
  BY DEF TypeOK, ControlOK, Channels, Services
<1>2. ControlOK'
  BY DEF ControlOK
<1>3. ListsOK'
  BY DEF TypeOK, ListsOK, Channels
<1>4. ResOK'
  <2>1. \A p \in ports' : res'[p] = Parts
    BY DEF ResOK, Held
  <2>2. step' \in Working => res'[Port'] = Held'
    BY DEF Held, Port
  <2>3. ASSUME NEW p \in Ports, Fresh(p)' PROVE res'[p] = {}
    <3>1. Fresh(p)
      <4>1. phase = "loading" /\ card \in Int /\ chan \in 0 .. 1
        BY DEF ControlOK, Cards, Channels
      <4>2. p[1] \in Int /\ p[2] \in 0 .. 1
        BY DEF Cards, Channels
      <4>3. p[1] > card \/ (p[1] = card /\ p[2] >= chan + 1)
        BY <2>3, <4>1 DEF Fresh
      <4> QED
        BY <4>1, <4>2, <4>3 DEF Fresh
    <3>2. res'[p] = res[p]
      BY <2>3
    <3> QED
      BY <3>1, <3>2 DEF ResOK
  <2> QED
    BY <2>1, <2>2, <2>3 DEF ResOK
<1>5. HandlerOK'
  BY DEF HandlerOK
<1>6. QuietOK'
  BY DEF QuietOK, Live, Quiet
<1>7. ReleasedOK'
  BY DEF ReleasedOK
<1>8. AbandonedOK'
  BY DEF AbandonedOK, Port
<1>9. CardsOK'
  BY DEF CardsOK, InUse, Unmade
<1> QED
  BY <1>1, <1>2, <1>3, <1>4, <1>5, <1>6, <1>7, <1>8, <1>9 DEF IInv

LEMMA RemoveHolds ==
  ASSUME IInv, NEW c \in Cards, Remove(c)
  PROVE  IInv'
<1> USE BoundsAssumption, PairOfPort, PortInHand DEF IInv, Remove, Goto, control,
    system, lists, irq, ghosts, AtCard, Working, Creating, Deleting
<1>1. TypeOK'
  BY DEF TypeOK, Cards, Services
<1>2. ControlOK'
  BY DEF ControlOK
<1>3. ListsOK'
  BY DEF ControlOK, ListsOK
<1>4. ResOK'
  BY DEF ResOK, Fresh, Held
<1>5. HandlerOK'
  BY DEF HandlerOK
<1>6. QuietOK'
  BY DEF ControlOK, QuietOK, Live, Quiet
<1>7. ReleasedOK'
  BY DEF ControlOK, ReleasedOK
<1>8. AbandonedOK'
  BY DEF AbandonedOK, Port
<1>9. CardsOK'
  <2>1. step \notin AtCard \cup {"card"} /\ step' # "card"
    BY DEF ControlOK
  <2>2. ASSUME NEW k \in Cards
        PROVE  (InUse(k)' <=> InUse(k)) /\ ~Unmade(k)'
    BY <2>1 DEF InUse, Unmade, ControlOK
  <2>3. own' = own /\ lost' = lost
    OBVIOUS
  <2> HIDE DEF Remove, InUse, Unmade
  <2> QED
    BY <2>1, <2>2, <2>3 DEF CardsOK
<1> QED
  BY <1>1, <1>2, <1>3, <1>4, <1>5, <1>6, <1>7, <1>8, <1>9 DEF IInv

LEMMA ExitModuleHolds ==
  ASSUME IInv, ExitModule
  PROVE  IInv'
<1> USE BoundsAssumption, PairOfPort, PortInHand DEF IInv, ExitModule, Goto, control,
    system, lists, irq, ghosts, AtCard, Working, Creating, Deleting
<1>1. TypeOK'
  BY DEF TypeOK
<1>2. ControlOK'
  BY DEF ControlOK
<1>3. ListsOK'
  BY DEF ControlOK, ListsOK
<1>4. ResOK'
  BY DEF ResOK, Fresh, Held
<1>5. HandlerOK'
  BY DEF HandlerOK
<1>6. QuietOK'
  BY DEF ControlOK, QuietOK, Live, Quiet
<1>7. ReleasedOK'
  BY DEF ControlOK, ReleasedOK
<1>8. AbandonedOK'
  BY DEF AbandonedOK, Port
<1>9. CardsOK'
  <2>1. step \notin AtCard \cup {"card"} /\ step' # "card"
    BY DEF ControlOK
  <2>2. ASSUME NEW k \in Cards
        PROVE  (InUse(k)' <=> InUse(k)) /\ ~Unmade(k)'
    BY <2>1 DEF InUse, Unmade, ControlOK
  <2>3. own' = own /\ lost' = lost
    OBVIOUS
  <2> HIDE DEF ExitModule, InUse, Unmade
  <2> QED
    BY <2>1, <2>2, <2>3 DEF CardsOK
<1> QED
  BY <1>1, <1>2, <1>3, <1>4, <1>5, <1>6, <1>7, <1>8, <1>9 DEF IInv

LEMMA ExitCardHolds ==
  ASSUME IInv, ExitCard
  PROVE  IInv'
<1> USE BoundsAssumption, PairOfPort, PortInHand DEF IInv, ExitCard, Goto, control,
    system, lists, irq, ghosts, AtCard, Working, Creating, Deleting
<1>1. TypeOK'
  BY DEF TypeOK, Cards, Services
<1>2. ControlOK'
  BY DEF TypeOK, ControlOK
<1>3. ListsOK'
  BY DEF ControlOK, ListsOK
<1>4. ResOK'
  BY DEF ControlOK, ResOK, Fresh, Held
<1>5. HandlerOK'
  BY DEF HandlerOK
<1>6. QuietOK'
  BY DEF QuietOK, Live, Quiet
<1>7. ReleasedOK'
  BY DEF ReleasedOK
<1>8. AbandonedOK'
  BY DEF AbandonedOK, Port
<1>9. CardsOK'
  <2>1. step \notin AtCard \cup {"card"} /\ step' # "card"
    BY DEF ControlOK
  <2>2. ASSUME NEW k \in Cards
        PROVE  (InUse(k)' <=> InUse(k)) /\ ~Unmade(k)'
    BY <2>1 DEF InUse, Unmade, ControlOK
  <2>3. own' = own /\ lost' = lost
    OBVIOUS
  <2> HIDE DEF ExitCard, InUse, Unmade
  <2> QED
    BY <2>1, <2>2, <2>3 DEF CardsOK
<1> QED
  BY <1>1, <1>2, <1>3, <1>4, <1>5, <1>6, <1>7, <1>8, <1>9 DEF IInv

LEMMA ExitEndHolds ==
  ASSUME IInv, ExitEnd
  PROVE  IInv'
<1> USE BoundsAssumption, PairOfPort, PortInHand DEF IInv, ExitEnd, Goto, control,
    system, lists, irq, ghosts, AtCard, Working, Creating, Deleting
<1>1. TypeOK'
  BY DEF TypeOK
<1>2. ControlOK'
  BY DEF ControlOK
<1>3. ListsOK'
  BY DEF ListsOK
<1>4. ResOK'
  BY DEF ResOK, Fresh, Held
<1>5. HandlerOK'
  BY DEF HandlerOK
<1>6. QuietOK'
  BY DEF QuietOK, Live, Quiet
<1>7. ReleasedOK'
  BY DEF ReleasedOK
<1>8. AbandonedOK'
  BY DEF AbandonedOK, Port
<1>9. CardsOK'
  BY DEF CardsOK, InUse, Unmade
<1> QED
  BY <1>1, <1>2, <1>3, <1>4, <1>5, <1>6, <1>7, <1>8, <1>9 DEF IInv

LEMMA DeletePortHolds ==
  ASSUME IInv, DeletePort
  PROVE  IInv'
<1> USE BoundsAssumption, PairOfPort, PortInHand DEF IInv, DeletePort, OfCard, Goto,
    control, system, lists, irq, ghosts, AtCard, Working, Creating, Deleting
<1>1. TypeOK'
  BY DEF TypeOK, Channels, Services
<1>2. ControlOK'
  BY DEF ControlOK
<1>3. ListsOK'
  BY DEF ListsOK, Port
<1>4. ResOK'
  BY DEF ResOK, Fresh, Held, Port
<1>5. HandlerOK'
  BY DEF HandlerOK
<1>6. QuietOK'
  BY DEF QuietOK, Live, Quiet, Port
<1>7. ReleasedOK'
  BY DEF ReleasedOK, Port
<1>8. AbandonedOK'
  BY DEF AbandonedOK, Port
<1>9. CardsOK'
  BY DEF CardsOK, InUse, Unmade
<1> QED
  BY <1>1, <1>2, <1>3, <1>4, <1>5, <1>6, <1>7, <1>8, <1>9 DEF IInv

LEMMA DeleteCardHolds ==
  ASSUME IInv, DeleteCard
  PROVE  IInv'
<1> USE BoundsAssumption, PairOfPort, PortInHand DEF IInv, DeleteCard, OfCard, Goto,
    control, system, lists, irq, ghosts, AtCard, Working, Creating, Deleting
<1>1. TypeOK'
  BY DEF TypeOK
<1>2. ControlOK'
  BY DEF ControlOK
<1>3. ListsOK'
  BY DEF TypeOK, ListsOK
<1>4. ResOK'
  BY DEF ResOK, Fresh, Held
<1>5. HandlerOK'
  BY DEF HandlerOK
<1>6. QuietOK'
  BY DEF QuietOK, Live, Quiet
<1>7. ReleasedOK'
  BY DEF TypeOK, ReleasedOK
<1>8. AbandonedOK'
  BY DEF AbandonedOK, Port
<1>9. CardsOK'
  <2>1. own \in [Cards -> SUBSET CardParts] /\ card \in Cards
    BY DEF TypeOK, ControlOK
  <2>2. InUse(card) /\ own[card] = CardParts /\ card \notin fscc_cards
    BY <2>1 DEF InUse, CardsOK, ListsOK
  <2>3. own'[card] \in Remains
    <3>1. own'[card] = CardParts \ ({"region0", "region2", "memory"} \cup
                         IF phase = "removing" THEN {"enabled"} ELSE {})
      BY <2>1, <2>2
    <3> HIDE DEF DeleteCard
    <3>2. CASE phase = "removing"
      BY <3>1, <3>2, CardFacts DEF Remains, Mappings
    <3>3. CASE phase # "removing"
      <4>1. own'[card] = Mappings \cup {"enabled"}
        BY <3>1, <3>3, CardFacts DEF Mappings
      <4> QED
        BY <4>1 DEF Remains
    <3> QED
      BY <3>2, <3>3
  <2>4. ~InUse(card)' /\ (\A c \in Cards : ~Unmade(c)') /\ card \notin lost
    BY <2>1, <2>2 DEF InUse, Unmade, CardsOK, ControlOK
  <2>5. ASSUME NEW c \in Cards, c # card
        PROVE  own'[c] = own[c] /\ (InUse(c)' <=> InUse(c))
    BY <2>1, <2>5 DEF InUse
  <2>6. step # "card" /\ step' # "card" /\ lost' = lost /\ card' = card /\ CardsOK
    OBVIOUS
  <2> HIDE DEF IInv, DeleteCard
  <2> QED
    BY <2>1, <2>3, <2>4, <2>5, <2>6, CardsFrame
<1> QED
  BY <1>1, <1>2, <1>3, <1>4, <1>5, <1>6, <1>7, <1>8, <1>9 DEF IInv

LEMMA PortStopHolds ==
  ASSUME IInv, PortStop
  PROVE  IInv'
<1> USE BoundsAssumption, PairOfPort, PortInHand DEF IInv, PortStop, StillBusy, Goto,
    control, system, lists, irq, ghosts, AtCard, Working, Creating, Deleting
<1>1. TypeOK'
  BY DEF TypeOK, ControlOK
<1>2. ControlOK'
  BY DEF ControlOK
<1>3. ListsOK'
  BY DEF ListsOK, Port
<1>4. ResOK'
  BY DEF ResOK, Fresh, Held, Port
<1>5. HandlerOK'
  BY DEF HandlerOK
<1>6. QuietOK'
  <2> SUFFICES ASSUME NEW p \in Ports \ (late' \cup early'), ~Live(p)'
               PROVE  Quiet(p)'
    BY DEF QuietOK
  <2>1. CASE p = Port
    BY <2>1 DEF TypeOK, Quiet
  <2>2. CASE p # Port
    <3>1. ~Live(p) /\ p \notin late
      BY <2>2 DEF Live
    <3> QED
      BY <2>2, <3>1 DEF QuietOK, Quiet
  <2> QED
    BY <2>1, <2>2
<1>7. ReleasedOK'
  BY DEF ReleasedOK, Port
<1>8. AbandonedOK'
  BY DEF AbandonedOK, Port
<1>9. CardsOK'
  BY DEF CardsOK, InUse, Unmade
<1> QED
  BY <1>1, <1>2, <1>3, <1>4, <1>5, <1>6, <1>7, <1>8, <1>9 DEF IInv

LEMMA PortDestroyHolds ==
  ASSUME IInv, PortDestroy
  PROVE  IInv'
<1> USE BoundsAssumption, PairOfPort, PortInHand DEF IInv, PortDestroy, Goto, control,
    system, lists, irq, ghosts, AtCard, Working, Creating, Deleting
<1>1. TypeOK'
  BY DEF TypeOK
<1>2. ControlOK'
  BY DEF ControlOK
<1>3. ListsOK'
  BY DEF ListsOK, Port
<1>4. ResOK'
  BY DEF TypeOK, ControlOK, ListsOK, ResOK, Fresh, Held, Channels, Port, Ports
<1>5. HandlerOK'
  BY DEF HandlerOK
<1>6. QuietOK'
  BY DEF QuietOK, Live, Quiet
<1>7. ReleasedOK'
  BY DEF ReleasedOK, Port
<1>8. AbandonedOK'
  BY DEF TypeOK, AbandonedOK, Port
<1>9. CardsOK'
  BY DEF CardsOK, InUse, Unmade
<1> QED
  BY <1>1, <1>2, <1>3, <1>4, <1>5, <1>6, <1>7, <1>8, <1>9 DEF IInv

LEMMA PortFreeIrqHolds ==
  ASSUME IInv, PortFreeIrq
  PROVE  IInv'
<1> USE BoundsAssumption, PairOfPort, PortInHand DEF IInv, PortFreeIrq, Goto, control,
    system, lists, irq, ghosts, AtCard, Working, Creating, Deleting
<1>1. TypeOK'
  BY DEF TypeOK
<1>2. ControlOK'
  BY DEF ControlOK
<1>3. ListsOK'
  BY DEF ListsOK, Port
<1>4. ResOK'
  <2>1. \A p \in ports' : res'[p] = Parts
    BY DEF ListsOK, ResOK
  <2>2. step' \in Working => res'[Port'] = Held'
    <3> SUFFICES res'[Port] = Held'
      BY DEF Port
    <3>1. Port \in Ports
      BY DEF ControlOK
    <3>2. res'[Port] = Held \ {"irq"}
      BY <3>1 DEF TypeOK, ResOK
    <3>3. Held \ {"irq"} = Held'
      BY DEF Held
    <3> QED
      BY <3>2, <3>3
  <2>3. ASSUME NEW p \in Ports, Fresh(p)' PROVE res'[p] = {}
    <3>1. Fresh(p)
      BY <2>3 DEF Fresh
    <3>2. res'[p] = res[p]
      BY <2>3 DEF TypeOK, Fresh
    <3> QED
      BY <3>1, <3>2 DEF ResOK
  <2> QED
    BY <2>1, <2>2, <2>3 DEF ResOK
<1>5. HandlerOK'
  BY DEF HandlerOK
<1>6. QuietOK'
  BY DEF QuietOK, Live, Quiet
<1>7. ReleasedOK'
  BY DEF ReleasedOK, Port
<1>8. AbandonedOK'
  BY DEF TypeOK, AbandonedOK, Port
<1>9. CardsOK'
  BY DEF CardsOK, InUse, Unmade
<1> QED
  BY <1>1, <1>2, <1>3, <1>4, <1>5, <1>6, <1>7, <1>8, <1>9 DEF IInv

LEMMA PortFreeHolds ==
  ASSUME IInv, PortFree
  PROVE  IInv'
<1> USE BoundsAssumption, PairOfPort, PortInHand DEF IInv, PortFree, Goto, control,
    system, lists, irq, ghosts, AtCard, Working, Creating, Deleting
<1>1. TypeOK'
  BY DEF TypeOK
<1>2. ControlOK'
  BY DEF ControlOK
<1>3. ListsOK'
  BY DEF ListsOK
<1>4. ResOK'
  BY DEF ListsOK, ResOK, Fresh, Held
<1>5. HandlerOK'
  BY DEF ResOK, Fresh, Held, HandlerOK
<1>6. QuietOK'
  BY DEF QuietOK, Live, Quiet
<1>7. ReleasedOK'
  BY DEF TypeOK, ResOK, Fresh, Held, ReleasedOK, Parts
<1>8. AbandonedOK'
  BY DEF TypeOK, AbandonedOK, Port
<1>9. CardsOK'
  BY DEF CardsOK, InUse, Unmade
<1> QED
  BY <1>1, <1>2, <1>3, <1>4, <1>5, <1>6, <1>7, <1>8, <1>9 DEF IInv

(***************************************************************************)
(* The handler, the timer, the tasklets and the files leave the thread of  *)
(* control and what it owns alone.                                         *)
(***************************************************************************)
LEMMA OthersHold ==
  ASSUME IInv, UNCHANGED <<control, system, lists, lost, abandoned>>,
         TypeOK', HandlerOK', QuietOK'
  PROVE  IInv'
<1> USE DEF IInv, control, system, lists
<1>1. ControlOK' /\ ListsOK'
  BY DEF ControlOK, ListsOK, Port
<1>2. ResOK'
  BY DEF ResOK, Held, Fresh, Port
<1>3. ReleasedOK' /\ AbandonedOK'
  BY DEF ReleasedOK, AbandonedOK, Port
<1>4. CardsOK'
  BY DEF CardsOK, InUse, Unmade
<1> QED
  BY <1>1, <1>2, <1>3, <1>4

LEMMA IsrHolds ==
  ASSUME IInv, NEW p \in Ports, Isr(p)
  PROVE  IInv'
<1> USE DEF IInv, Isr, PortExists, control, system, lists, irq, ghosts
<1>1. TypeOK'
  BY BoundsAssumption DEF TypeOK
<1>2. HandlerOK'
  BY DEF HandlerOK, ResOK, Parts
<1>3. QuietOK'
  BY DEF QuietOK, Live, Quiet, Port
<1>4. UNCHANGED <<control, system, lists, lost, abandoned>>
  OBVIOUS
<1> QED
  BY <1>1, <1>2, <1>3, <1>4, OthersHold

LEMMA IsrScheduleHolds ==
  ASSUME IInv, NEW p \in Ports, IsrSchedule(p)
  PROVE  IInv'
<1> USE DEF IInv, IsrSchedule, control, system, lists, irq, ghosts
<1>1. TypeOK'
  BY BoundsAssumption DEF TypeOK
<1>2. HandlerOK'
  BY DEF HandlerOK
<1>3. QuietOK'
  BY DEF QuietOK, Live, Quiet, Port
<1>4. UNCHANGED <<control, system, lists, lost, abandoned>>
  OBVIOUS
<1> QED
  BY <1>1, <1>2, <1>3, <1>4, OthersHold

LEMMA IsrTimerHolds ==
  ASSUME IInv, NEW p \in Ports, IsrTimer(p)
  PROVE  IInv'
<1> USE DEF IInv, IsrTimer, control, system, lists, irq, ghosts
<1>1. TypeOK'
  BY BoundsAssumption DEF TypeOK
<1>2. HandlerOK'
  BY DEF HandlerOK
<1>3. QuietOK'
  BY DEF QuietOK, Live, Quiet, Port
<1>4. UNCHANGED <<control, system, lists, lost, abandoned>>
  OBVIOUS
<1> QED
  BY <1>1, <1>2, <1>3, <1>4, OthersHold

LEMMA TimerExpiresHolds ==
  ASSUME IInv, NEW p \in Ports, TimerExpires(p)
  PROVE  IInv'
<1> USE DEF IInv, TimerExpires, control, system, lists, irq, ghosts
<1>1. TypeOK'
  BY BoundsAssumption DEF TypeOK
<1>2. HandlerOK'
  BY DEF HandlerOK
<1>3. QuietOK'
  BY DEF QuietOK, Live, Quiet, Port
<1>4. UNCHANGED <<control, system, lists, lost, abandoned>>
  OBVIOUS
<1> QED
  BY <1>1, <1>2, <1>3, <1>4, OthersHold

LEMMA TimerHandlerHolds ==
  ASSUME IInv, NEW p \in Ports, TimerHandler(p)
  PROVE  IInv'
<1> USE DEF IInv, TimerHandler, control, system, lists, irq, ghosts
<1>1. TypeOK'
  BY BoundsAssumption DEF TypeOK
<1>2. HandlerOK'
  BY DEF HandlerOK
<1>3. QuietOK'
  BY DEF QuietOK, Live, Quiet, Port
<1>4. UNCHANGED <<control, system, lists, lost, abandoned>>
  OBVIOUS
<1> QED
  BY <1>1, <1>2, <1>3, <1>4, OthersHold

LEMMA TaskletRunsHolds ==
  ASSUME IInv, NEW p \in Ports, TaskletRuns(p)
  PROVE  IInv'
<1> USE DEF IInv, TaskletRuns, control, system, lists, irq, ghosts
<1>1. TypeOK'
  BY BoundsAssumption DEF TypeOK
<1>2. HandlerOK'
  BY DEF HandlerOK
<1>3. QuietOK'
  BY DEF QuietOK, Live, Quiet, Port
<1>4. UNCHANGED <<control, system, lists, lost, abandoned>>
  OBVIOUS
<1> QED
  BY <1>1, <1>2, <1>3, <1>4, OthersHold

LEMMA TaskletEndsHolds ==
  ASSUME IInv, NEW p \in Ports, TaskletEnds(p)
  PROVE  IInv'
<1> USE DEF IInv, TaskletEnds, control, system, lists, irq, ghosts
<1>1. TypeOK'
  BY BoundsAssumption DEF TypeOK
<1>2. HandlerOK'
  BY DEF HandlerOK
<1>3. QuietOK'
  BY DEF QuietOK, Live, Quiet, Port
<1>4. UNCHANGED <<control, system, lists, lost, abandoned>>
  OBVIOUS
<1> QED
  BY <1>1, <1>2, <1>3, <1>4, OthersHold

LEMMA OpenHolds ==
  ASSUME IInv, NEW p \in Ports, Open(p)
  PROVE  IInv'
<1> USE DEF IInv, Open, PortExists, control, system, lists, irq, ghosts
<1>1. TypeOK'
  BY BoundsAssumption DEF TypeOK
<1>2. HandlerOK'
  BY DEF HandlerOK
<1>3. QuietOK'
  BY DEF QuietOK, Live, Quiet, Port
<1>4. UNCHANGED <<control, system, lists, lost, abandoned>>
  OBVIOUS
<1> QED
  BY <1>1, <1>2, <1>3, <1>4, OthersHold

LEMMA CallHolds ==
  ASSUME IInv, NEW p \in Ports, Call(p)
  PROVE  IInv'
<1> USE DEF IInv, Call, control, system, lists, irq, ghosts
<1>1. TypeOK'
  BY BoundsAssumption DEF TypeOK
<1>2. HandlerOK'
  BY DEF HandlerOK
<1>3. QuietOK'
  BY DEF QuietOK, Live, Quiet, Port
<1>4. UNCHANGED <<control, system, lists, lost, abandoned>>
  OBVIOUS
<1> QED
  BY <1>1, <1>2, <1>3, <1>4, OthersHold

LEMMA CallReturnsHolds ==
  ASSUME IInv, NEW p \in Ports, CallReturns(p)
  PROVE  IInv'
<1> USE DEF IInv, CallReturns, control, system, lists, irq, ghosts
<1>1. TypeOK'
  BY BoundsAssumption DEF TypeOK
<1>2. HandlerOK'
  BY DEF HandlerOK
<1>3. QuietOK'
  BY DEF TypeOK, QuietOK, Live, Quiet, Port
<1>4. UNCHANGED <<control, system, lists, lost, abandoned>>
  OBVIOUS
<1> QED
  BY <1>1, <1>2, <1>3, <1>4, OthersHold

LEMMA CloseHolds ==
  ASSUME IInv, NEW p \in Ports, Close(p)
  PROVE  IInv'
<1> USE DEF IInv, Close, control, system, lists, irq, ghosts
<1>1. TypeOK'
  BY BoundsAssumption DEF TypeOK
<1>2. HandlerOK'
  BY DEF HandlerOK
<1>3. QuietOK'
  BY DEF QuietOK, Live, Quiet, Port
<1>4. UNCHANGED <<control, system, lists, lost, abandoned>>
  OBVIOUS
<1> QED
  BY <1>1, <1>2, <1>3, <1>4, OthersHold

LEMMA StutterHolds ==
  ASSUME IInv, UNCHANGED vars
  PROVE  IInv'
<1> USE DEF IInv, vars, control, system, lists, irq, ghosts
<1>1. TypeOK' /\ HandlerOK'
  BY DEF TypeOK, HandlerOK
<1>2. QuietOK'
  BY DEF QuietOK, Live, Quiet, Port
<1> QED
  BY <1>1, <1>2, OthersHold

LEMMA StepHolds == IInv /\ [Next]_vars => IInv'
<1> SUFFICES ASSUME IInv, [Next]_vars PROVE IInv'
  OBVIOUS
<1>1. CASE InitModule
  BY <1>1, InitModuleHolds
<1>2. ASSUME NEW s \in Services, Register(s) PROVE IInv'
  BY <1>2, RegisterHolds
<1>3. CASE ScanDevice
  BY <1>3, ScanDeviceHolds
<1>4. CASE ScanEnd
  BY <1>4, ScanEndHolds
<1>5. CASE CardNew
  BY <1>5, CardNewHolds
<1>6. CASE CardList
  BY <1>6, CardListHolds
<1>7. CASE PortNode
  BY <1>7, PortNodeHolds
<1>8. CASE PortIrq
  BY <1>8, PortIrqHolds
<1>9. CASE PortSysfs
  BY <1>9, PortSysfsHolds
<1>10. CASE PortWork
  BY <1>10, PortWorkHolds
<1>11. CASE PortFrames
  BY <1>11, PortFramesHolds
<1>12. CASE PortList
  BY <1>12, PortListHolds
<1>13. ASSUME NEW c \in Cards, Remove(c) PROVE IInv'
  BY <1>13, RemoveHolds
<1>14. CASE ExitModule
  BY <1>14, ExitModuleHolds
<1>15. CASE ExitCard
  BY <1>15, ExitCardHolds
<1>16. CASE ExitEnd
  BY <1>16, ExitEndHolds
<1>17. CASE DeletePort
  BY <1>17, DeletePortHolds
<1>18. CASE DeleteCard
  BY <1>18, DeleteCardHolds
<1>19. CASE PortStop
  BY <1>19, PortStopHolds
<1>20. CASE PortDestroy
  BY <1>20, PortDestroyHolds
<1>21. CASE PortFreeIrq
  BY <1>21, PortFreeIrqHolds
<1>22. CASE PortFree
  BY <1>22, PortFreeHolds
<1>23. ASSUME NEW p \in Ports, Isr(p) PROVE IInv'
  BY <1>23, IsrHolds
<1>24. ASSUME NEW p \in Ports, IsrSchedule(p) PROVE IInv'
  BY <1>24, IsrScheduleHolds
<1>25. ASSUME NEW p \in Ports, IsrTimer(p) PROVE IInv'
  BY <1>25, IsrTimerHolds
<1>26. ASSUME NEW p \in Ports, TimerExpires(p) PROVE IInv'
  BY <1>26, TimerExpiresHolds
<1>27. ASSUME NEW p \in Ports, TimerHandler(p) PROVE IInv'
  BY <1>27, TimerHandlerHolds
<1>28. ASSUME NEW p \in Ports, TaskletRuns(p) PROVE IInv'
  BY <1>28, TaskletRunsHolds
<1>29. ASSUME NEW p \in Ports, TaskletEnds(p) PROVE IInv'
  BY <1>29, TaskletEndsHolds
<1>30. ASSUME NEW p \in Ports, Open(p) PROVE IInv'
  BY <1>30, OpenHolds
<1>31. ASSUME NEW p \in Ports, Call(p) PROVE IInv'
  BY <1>31, CallHolds
<1>32. ASSUME NEW p \in Ports, CallReturns(p) PROVE IInv'
  BY <1>32, CallReturnsHolds
<1>33. ASSUME NEW p \in Ports, Close(p) PROVE IInv'
  BY <1>33, CloseHolds
<1>34. CASE UNCHANGED vars
  BY <1>34, StutterHolds
<1> QED
  BY <1>1, <1>2, <1>3, <1>4, <1>5, <1>6, <1>7, <1>8, <1>9, <1>10, <1>11,
     <1>12, <1>13, <1>14, <1>15, <1>16, <1>17, <1>18, <1>19, <1>20, <1>21,
     <1>22, <1>23, <1>24, <1>25, <1>26, <1>27, <1>28, <1>29, <1>30, <1>31,
     <1>32, <1>33, <1>34 DEF Next

LEMMA Inductive == Spec => []IInv
BY InitHolds, StepHolds, PTL DEF Spec

(***************************************************************************)
(* The types, as the invariant has them.                                   *)
(***************************************************************************)
THEOREM LifecycleTypeCorrect == Spec => []TypeOK
<1>1. IInv => TypeOK
  BY DEF IInv
<1> QED
  BY <1>1, Inductive, PTL

(***************************************************************************)
(* A handler that found its port in the lists keeps it until it has        *)
(* returned (isr.c:45, port.c:296).                                        *)
(***************************************************************************)
THEOREM HandlersFindTheirPort == Spec => []HandlerFindsPort
<1>1. IInv => HandlerFindsPort
  BY DEF IInv, HandlerOK, HandlerFindsPort
<1> QED
  BY <1>1, Inductive, PTL

(***************************************************************************)
(* A port that was quiet when its timer was deleted is quiet ever after    *)
(* (port.c:277).                                                           *)
(***************************************************************************)
THEOREM FreedPortsAreQuiet == Spec => []NothingRunsOnFreed
<1>1. IInv => NothingRunsOnFreed
  <2> SUFFICES ASSUME IInv, NEW p \in Ports \ (late \cup early),
                      running[p] \/ "running" \in timer[p] \/ file[p] = "busy"
               PROVE  {"memory", "work", "frames"} \subseteq res[p]
    BY DEF NothingRunsOnFreed
  <2>1. Live(p)
    BY DEF IInv, QuietOK, Quiet
  <2>2. res[p] = Parts
    BY <2>1 DEF IInv, ResOK, Live, Held, Working, Deleting
  <2> QED
    BY <2>2 DEF Parts
<1> QED
  BY <1>1, Inductive, PTL

(***************************************************************************)
(* A module that is not loaded, whichever way fscc_init or fscc_exit took  *)
(* (main.c:443-531), has left exactly this: of the cards it created the    *)
(* mappings and, without fscc_remove, the device enabled; and what failed  *)
(* creations had.  No port that was complete leaves anything.              *)
(***************************************************************************)
THEOREM UnloadingLeaves == Spec => []UnloadLeaves
<1>1. IInv => UnloadLeaves
  <2> SUFFICES ASSUME IInv, phase = "unloaded" PROVE UnloadLeaves
    BY DEF UnloadLeaves
  <2> USE DEF IInv
  <2>1. registered = {} /\ fscc_cards = {} /\ step \notin AtCard /\ step # "card"
    BY DEF ControlOK, ListsOK, AtCard, Working, Creating, Deleting
  <2>2. ports = {}
    BY <2>1 DEF ListsOK
  <2>3. ASSUME NEW p \in Ports
        PROVE  IF p \in abandoned THEN {"memory", "device", "cdev"} \subseteq res[p]
                                  ELSE res[p] = {}
    BY <2>1, <2>2 DEF ReleasedOK, AbandonedOK, AtCard
  <2>4. ASSUME NEW c \in Cards
        PROVE  IF c \in lost THEN "enabled" \in own[c] ELSE own[c] \in Remains
    BY <2>1 DEF CardsOK, InUse
  <2> QED
    BY <2>1, <2>3, <2>4 DEF UnloadLeaves, Remains
<1> QED
  BY <1>1, Inductive, PTL

=============================================================================
