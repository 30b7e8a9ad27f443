------------------------------ MODULE Lifecycle ------------------------------
(***************************************************************************)
(* Loading and unloading the driver, and the life of cards and ports.      *)
(*                                                                         *)
(* fscc_init (main.c) registers the class, the character device and the    *)
(* PCI driver and makes a card of every device it finds; fscc_card_new and *)
(* fscc_port_new acquire what a card and its two ports consist of, one     *)
(* thing after the other, and several of their failures keep what is there.*)
(* fscc_exit and the PCI core's fscc_remove give it back.  They are one    *)
(* thread of control here.                                                 *)
(*                                                                         *)
(* Meanwhile the shared interrupt line calls the handler of every port     *)
(* that has requested it; the handler looks the port up in the lists       *)
(* (port_exists) and, when it finds it, schedules a tasklet and restarts   *)
(* the timer, which schedules the tasklet again.  Processes open the       *)
(* device node of a port and call it.  One tasklet stands for the three of *)
(* a port.                                                                 *)
(***************************************************************************)
EXTENDS Integers, FiniteSets

CONSTANTS
  NumCards,  \* PCI slots that may hold a card
  MaxIrqs,   \* bound on the interrupts taken by a port in the lists
  MaxOpens   \* bound on open()

ASSUME BoundsAssumption ==
  NumCards \in Nat /\ MaxIrqs \in Nat /\ MaxOpens \in Nat

VARIABLES
  (* the thread of control *)
  phase,      \* what it is in
  card, chan, \* the card and the port it is at
  step,       \* the step of fscc_card_new, fscc_port_new or fscc_port_delete
  (* what it has acquired *)
  present,    \* the slots with a card of ours
  registered, \* class, character device, PCI driver
  own,        \* by card: what it consists of
  res,        \* by port: what it consists of
  (* the lists *)
  fscc_cards, \* the cards in fscc_cards
  ports,      \* the ports in the lists card->ports
  (* by port: who else runs *)
  handler,    \* the interrupt handler
  tasklet, running, \* the tasklet: scheduled, running
  timer,      \* the timer: armed, and running
  file,       \* a file of the port's device node
  (* ghosts *)
  lost,       \* cards whose creation failed
  abandoned,  \* ports whose creation failed with things acquired
  early,      \* ports opened while they were not in the lists
  late,       \* ports deleted with something of theirs still going on
  irqs, opens

control == <<phase, card, chan, step>>
system == <<present, registered, own, res>>
lists == <<fscc_cards, ports>>
irq == <<handler, tasklet, running, timer>>
ghosts == <<lost, abandoned, early, late, irqs, opens>>
vars == <<control, system, lists, irq, file, ghosts>>

Cards == 0 .. NumCards - 1
Channels == {0, 1}
Ports == Cards \X Channels
Services == {"class", "chrdev", "driver"}

(* What a port consists of; "work" is its tasklets and its timer, "frames"   *)
(* the pools and descriptors.                                                *)
Parts == {"memory", "device", "cdev", "irq", "sysfs", "work", "frames"}

(* What a card consists of, in the order in which it is acquired: the       *)
(* device enabled, the memory, two regions and three mappings.              *)
CardSteps == <<"enabled", "memory", "region0", "region2", "bar0", "bar1", "bar2">>
CardParts == {CardSteps[i] : i \in 1 .. 7}
Mappings == {"bar0", "bar1", "bar2"}

Port == <<card, chan>>

Init ==
  /\ phase = "unloaded" /\ card = 0 /\ chan = 0 /\ step = "none"
  /\ present \in SUBSET Cards
  /\ registered = {}
  /\ own = [c \in Cards |-> {}] /\ res = [p \in Ports |-> {}]
  /\ fscc_cards = {} /\ ports = {}
  /\ handler = [p \in Ports |-> "idle"]
  /\ tasklet = [p \in Ports |-> FALSE] /\ running = [p \in Ports |-> FALSE]
  /\ timer = [p \in Ports |-> {}]
  /\ file = [p \in Ports |-> "closed"]
  /\ lost = {} /\ abandoned = {} /\ early = {} /\ late = {}
  /\ irqs = 0 /\ opens = 0

Goto(s) == step' = s

-----------------------------------------------------------------------------
(* fscc_init *)

InitModule ==
  /\ phase = "unloaded" /\ step = "none"
  /\ phase' = "loading" /\ Goto("register")
  /\ UNCHANGED <<card, chan, system, lists, irq, file, ghosts>>

(* class_create, register_chrdev and pci_register_driver: a failure undoes  *)
(* the ones before.                                                         *)
Register(s) ==
  /\ step = "register" /\ s \in Services \ registered
  /\ s = "chrdev" => "class" \in registered
  /\ s = "driver" => "chrdev" \in registered
  /\ \/ /\ registered' = registered \cup {s}
        /\ Goto(IF s = "driver" THEN "scan" ELSE "register")
        /\ UNCHANGED phase
     \/ registered' = {} /\ phase' = "unloaded" /\ Goto("over")
  /\ UNCHANGED <<card, chan, present, own, res, lists, irq, file, ghosts>>

(* The next device is enabled; that may fail, and then fscc_init returns    *)
(* -EIO at once.                                                            *)
ScanDevice ==
  /\ step = "scan" /\ card \in Cards
  /\ IF card \notin present
       THEN card' = card + 1 /\ UNCHANGED <<phase, step, own>>
       ELSE /\ \/ /\ own' = [own EXCEPT ![card] = {"enabled"}]
                  /\ Goto("card") /\ UNCHANGED phase
               \/ Goto("over") /\ phase' = "failed" /\ UNCHANGED own
            /\ UNCHANGED card
  /\ UNCHANGED <<chan, present, registered, res, lists, irq, file, ghosts>>

(* Without a device the module is not loaded. *)
ScanEnd ==
  /\ step = "scan" /\ card \notin Cards
  /\ IF present = {}
       THEN phase' = "unloaded" /\ registered' = {} /\ Goto("over")
       ELSE phase' = "loaded" /\ Goto("none") /\ UNCHANGED registered
  /\ UNCHANGED <<card, chan, present, own, res, lists, irq, file, ghosts>>

-----------------------------------------------------------------------------
(* fscc_card_new *)

(* Memory, the regions and the mappings of the registers; what there is     *)
(* when one of them, or setting the DMA mask, fails is not given back.      *)
CardNew ==
  /\ step = "card"
  /\ \/ /\ own' = [own EXCEPT ![card] = CardParts]
        /\ chan' = 0 /\ Goto("port")
        /\ UNCHANGED <<card, lost>>
     \/ \E n \in 1 .. 6 :
          /\ own' = [own EXCEPT ![card] = {CardSteps[i] : i \in 1 .. n}]
          /\ lost' = lost \cup {card}
          /\ card' = card + 1 /\ Goto("scan")
          /\ UNCHANGED chan
  /\ UNCHANGED <<phase, present, registered, res, lists, irq, file, abandoned,
                 early, late, irqs, opens>>

(* The card is put in the list when both ports have been tried. *)
CardList ==
  /\ step = "port" /\ chan \notin Channels
  /\ fscc_cards' = fscc_cards \cup {card}
  /\ card' = card + 1 /\ Goto("scan")
  /\ UNCHANGED <<phase, chan, system, ports, irq, file, ghosts>>

-----------------------------------------------------------------------------
(* fscc_port_new *)

(* One more part of the port, or its failure: what there is stays.          *)
Acquire(from, part, to) ==
  /\ step = from
  /\ \/ /\ res' = [res EXCEPT ![Port] = @ \cup {part}]
        /\ Goto(to)
        /\ UNCHANGED <<chan, abandoned>>
     \/ /\ abandoned' = abandoned \cup {Port}
        /\ chan' = chan + 1 /\ Goto("port")
        /\ UNCHANGED res
  /\ UNCHANGED <<phase, card, present, registered, own, lists, irq, file,
                 lost, early, late, irqs, opens>>

(* Memory, device, the check of PREV and the device node; a failure of      *)
(* these undoes the others.                                                 *)
PortNode ==
  /\ step = "port" /\ chan \in Channels
  /\ \/ res' = [res EXCEPT ![Port] = {"memory", "device", "cdev"}]
        /\ Goto("irq") /\ UNCHANGED chan
     \/ chan' = chan + 1 /\ UNCHANGED <<res, step>>
  /\ UNCHANGED <<phase, card, present, registered, own, lists, irq, file, ghosts>>

PortIrq == Acquire("irq", "irq", "sysfs")
PortSysfs == Acquire("sysfs", "sysfs", "work")

(* tasklet_init and timer_setup cannot fail. *)
PortWork ==
  /\ step = "work"
  /\ res' = [res EXCEPT ![Port] = @ \cup {"work"}]
  /\ Goto("frames")
  /\ UNCHANGED <<phase, card, chan, present, registered, own, lists, irq,
                 file, ghosts>>

PortFrames == Acquire("frames", "frames", "list")

(* Mutation: the channel is advanced twice. *)
PortListAgain ==
  /\ step = "list"
  /\ ports' = ports \cup {Port}
  /\ chan' = chan + 2 /\ Goto("port")
  /\ UNCHANGED <<phase, card, system, fscc_cards, irq, file, ghosts>>

(* fscc_card_new puts the port that fscc_port_new returned in its list. *)
PortList ==
  /\ step = "list"
  /\ ports' = ports \cup {Port}
  /\ chan' = chan + 1 /\ Goto("port")
  /\ UNCHANGED <<phase, card, system, fscc_cards, irq, file, ghosts>>

-----------------------------------------------------------------------------
(* fscc_remove and fscc_exit *)

Remove(c) ==
  /\ phase = "loaded" /\ c \in fscc_cards
  /\ fscc_cards' = fscc_cards \ {c}
  /\ phase' = "removing" /\ card' = c /\ Goto("delete")
  /\ UNCHANGED <<chan, system, ports, irq, file, ghosts>>

(* The module cannot be unloaded while a file holds it (cdev.owner). *)
ExitModule ==
  /\ phase = "loaded" /\ \A p \in Ports : file[p] = "closed"
  /\ phase' = "exiting" /\ Goto("exit")
  /\ UNCHANGED <<card, chan, system, lists, irq, file, ghosts>>

ExitCard ==
  /\ step = "exit"
  /\ \E c \in fscc_cards :
       /\ \A other \in fscc_cards : c <= other
       /\ card' = c /\ fscc_cards' = fscc_cards \ {c}
  /\ Goto("delete")
  /\ UNCHANGED <<phase, chan, system, ports, irq, file, ghosts>>

ExitEnd ==
  /\ step = "exit" /\ fscc_cards = {}
  /\ registered' = {}
  /\ phase' = "unloaded" /\ Goto("over")
  /\ UNCHANGED <<card, chan, present, own, res, lists, irq, file, ghosts>>

(* fscc_card_delete: the ports in the order of the list *)
OfCard == {i \in Channels : <<card, i>> \in ports}

DeletePort ==
  /\ step = "delete"
  /\ \E i \in OfCard :
       /\ \A j \in OfCard : i <= j
       /\ chan' = i /\ ports' = ports \ {<<card, i>>}
  /\ Goto("stop")
  /\ UNCHANGED <<phase, card, system, fscc_cards, irq, file, ghosts>>

(* The regions and the memory of the card are given back, its mappings are  *)
(* not; fscc_remove disables the device as well, fscc_exit does not.        *)
DeleteCard ==
  /\ step = "delete" /\ OfCard = {}
  /\ own' = [own EXCEPT ![card] =
       @ \ ({"region0", "region2", "memory"} \cup
              IF phase = "removing" THEN {"enabled"} ELSE {})]
  /\ IF phase = "exiting" THEN Goto("exit") /\ UNCHANGED phase
                          ELSE Goto("none") /\ phase' = "loaded"
  /\ UNCHANGED <<card, chan, present, registered, res, lists, irq, file, ghosts>>

-----------------------------------------------------------------------------
(* fscc_port_delete *)

(* What is going on in a port when its timer is deleted. *)
StillBusy(p) ==
  \/ handler[p] # "idle" \/ tasklet[p] \/ running[p] \/ "running" \in timer[p]
  \/ file[p] # "closed"

(* Mutation: the timer is left alone. *)
PortStopNot ==
  /\ step = "stop"
  /\ late' = IF StillBusy(Port) THEN late \cup {Port} ELSE late
  /\ Goto("destroy")
  /\ UNCHANGED <<phase, card, chan, system, lists, irq, file,
                 lost, abandoned, early, irqs, opens>>

(* CMDR and del_timer, which does not wait for a timer that runs. *)
PortStop ==
  /\ step = "stop"
  /\ timer' = [timer EXCEPT ![Port] = @ \ {"armed"}]
  /\ late' = IF StillBusy(Port) THEN late \cup {Port} ELSE late
  /\ Goto("destroy")
  /\ UNCHANGED <<phase, card, chan, system, lists, handler, tasklet, running, file,
                 lost, abandoned, early, irqs, opens>>

(* fscc_io_destroy *)
PortDestroy ==
  /\ step = "destroy"
  /\ res' = [res EXCEPT ![Port] = @ \ {"frames"}]
  /\ Goto("free_irq")
  /\ UNCHANGED <<phase, card, chan, present, registered, own, lists, irq, file, ghosts>>

(* Mutation: the interrupt is not given back. *)
PortFreeIrqNot ==
  /\ step = "free_irq"
  /\ Goto("free")
  /\ UNCHANGED <<phase, card, chan, system, lists, irq, file, ghosts>>

(* free_irq waits for the handler. *)
PortFreeIrq ==
  /\ step = "free_irq" /\ handler[Port] = "idle"
  /\ res' = [res EXCEPT ![Port] = @ \ {"irq"}]
  /\ Goto("free")
  /\ UNCHANGED <<phase, card, chan, present, registered, own, lists, irq, file, ghosts>>

(* device_destroy, with the attributes, cdev_del and kfree *)
PortFree ==
  /\ step = "free"
  /\ res' = [res EXCEPT ![Port] = @ \ {"device", "sysfs", "cdev", "work", "memory"}]
  /\ Goto("delete")
  /\ UNCHANGED <<phase, card, chan, present, registered, own, lists, irq, file, ghosts>>

-----------------------------------------------------------------------------
(* fscc_isr, the timer and the tasklets *)

(* Mutation: the handler trusts its argument. *)
PortExistsAlways(p) == TRUE

(* port_exists *)
PortExists(p) == p[1] \in fscc_cards /\ p \in ports

(* An interrupt of the port; of those of a port that is not in the lists     *)
(* nothing comes.                                                            *)
Isr(p) ==
  /\ "irq" \in res[p] /\ handler[p] = "idle" /\ irqs < MaxIrqs
  /\ PortExists(p)
  /\ handler' = [handler EXCEPT ![p] = "found"]
  /\ timer' = [timer EXCEPT ![p] = @ \ {"armed"}]
  /\ irqs' = irqs + 1
  /\ UNCHANGED <<control, system, lists, tasklet, running, file, lost, abandoned,
                 early, late, opens>>

IsrSchedule(p) ==
  /\ handler[p] = "found"
  /\ tasklet' = [tasklet EXCEPT ![p] = TRUE]
  /\ handler' = [handler EXCEPT ![p] = "timer"]
  /\ UNCHANGED <<control, system, lists, running, timer, file, ghosts>>

IsrTimer(p) ==
  /\ handler[p] = "timer"
  /\ timer' = [timer EXCEPT ![p] = @ \cup {"armed"}]
  /\ handler' = [handler EXCEPT ![p] = "idle"]
  /\ UNCHANGED <<control, system, lists, tasklet, running, file, ghosts>>

TimerExpires(p) ==
  /\ timer[p] = {"armed"}
  /\ timer' = [timer EXCEPT ![p] = {"running"}]
  /\ UNCHANGED <<control, system, lists, handler, tasklet, running, file, ghosts>>

TimerHandler(p) ==
  /\ "running" \in timer[p]
  /\ timer' = [timer EXCEPT ![p] = @ \ {"running"}]
  /\ tasklet' = [tasklet EXCEPT ![p] = TRUE]
  /\ UNCHANGED <<control, system, lists, handler, running, file, ghosts>>

TaskletRuns(p) ==
  /\ tasklet[p] /\ ~running[p]
  /\ tasklet' = [tasklet EXCEPT ![p] = FALSE]
  /\ running' = [running EXCEPT ![p] = TRUE]
  /\ UNCHANGED <<control, system, lists, handler, timer, file, ghosts>>

TaskletEnds(p) ==
  /\ running[p]
  /\ running' = [running EXCEPT ![p] = FALSE]
  /\ UNCHANGED <<control, system, lists, handler, tasklet, timer, file, ghosts>>

-----------------------------------------------------------------------------
(* The calls of a file.  fscc_open looks nothing up.                         *)

Open(p) ==
  /\ "cdev" \in res[p] /\ file[p] = "closed" /\ opens < MaxOpens
  /\ phase \notin {"exiting", "unloaded", "failed"}
  /\ opens' = opens + 1
  /\ file' = [file EXCEPT ![p] = "open"]
  /\ early' = IF PortExists(p) THEN early ELSE early \cup {p}
  /\ UNCHANGED <<control, system, lists, irq, lost, abandoned, late, irqs>>

Call(p) ==
  /\ file[p] = "open"
  /\ file' = [file EXCEPT ![p] = "busy"]
  /\ UNCHANGED <<control, system, lists, irq, ghosts>>

(* A write schedules the tasklet before it returns. *)
CallReturns(p) ==
  /\ file[p] = "busy"
  /\ file' = [file EXCEPT ![p] = "open"]
  /\ \/ tasklet' = [tasklet EXCEPT ![p] = TRUE]
     \/ UNCHANGED tasklet
  /\ UNCHANGED <<control, system, lists, handler, running, timer, ghosts>>

Close(p) ==
  /\ file[p] = "open"
  /\ file' = [file EXCEPT ![p] = "closed"]
  /\ UNCHANGED <<control, system, lists, irq, ghosts>>

-----------------------------------------------------------------------------
Next ==
  \/ InitModule \/ (\E s \in Services : Register(s)) \/ ScanDevice \/ ScanEnd
  \/ CardNew \/ CardList
  \/ PortNode \/ PortIrq \/ PortSysfs \/ PortWork \/ PortFrames \/ PortList
  \/ (\E c \in Cards : Remove(c)) \/ ExitModule \/ ExitCard \/ ExitEnd
  \/ DeletePort \/ DeleteCard
  \/ PortStop \/ PortDestroy \/ PortFreeIrq \/ PortFree
  \/ \E p \in Ports :
       \/ Isr(p) \/ IsrSchedule(p) \/ IsrTimer(p)
       \/ TimerExpires(p) \/ TimerHandler(p) \/ TaskletRuns(p) \/ TaskletEnds(p)
       \/ Open(p) \/ Call(p) \/ CallReturns(p) \/ Close(p)

Spec == Init /\ [][Next]_vars

-----------------------------------------------------------------------------
(* Properties *)

TypeOK ==
  /\ phase \in {"unloaded", "loading", "loaded", "removing", "exiting", "failed"}
  /\ card \in 0 .. NumCards /\ chan \in 0 .. 2
  /\ step \in {"none", "over", "register", "scan", "card", "port", "irq", "sysfs",
               "work", "frames", "list", "exit", "delete", "stop", "destroy",
               "free_irq", "free"}
  /\ present \subseteq Cards /\ registered \subseteq Services
  /\ own \in [Cards -> SUBSET CardParts] /\ res \in [Ports -> SUBSET Parts]
  /\ fscc_cards \subseteq Cards /\ ports \subseteq Ports
  /\ handler \in [Ports -> {"idle", "found", "timer"}]
  /\ tasklet \in [Ports -> BOOLEAN] /\ running \in [Ports -> BOOLEAN]
  /\ timer \in [Ports -> SUBSET {"armed", "running"}]
  /\ file \in [Ports -> {"closed", "open", "busy"}]
  /\ lost \subseteq Cards
  /\ abandoned \subseteq Ports /\ early \subseteq Ports /\ late \subseteq Ports
  /\ irqs \in Nat /\ opens \in Nat

(* A handler that goes on finds a port that exists, with its tasklets and    *)
(* its timer set up: although the interrupt is requested before they are     *)
(* (port.c:192, 232-247) and given back after the port has begun to be taken *)
(* apart (port.c:296).                                                       *)
HandlerFindsPort ==
  \A p \in Ports : handler[p] # "idle" => {"memory", "work"} \subseteq res[p]

(* Nothing runs on a port whose descriptors or memory are gone, provided     *)
(* that nothing was going on when its timer was deleted and that no process  *)
(* opened it while it was not in the lists: list_del and del_timer           *)
(* (card.c:133, port.c:277) keep later interrupts and the timer away.        *)
NothingRunsOnFreed ==
  \A p \in Ports \ (late \cup early) :
    running[p] \/ "running" \in timer[p] \/ file[p] = "busy"
      => {"memory", "work", "frames"} \subseteq res[p]

(* What a module that is not loaded has given back, and what it has not,    *)
(* after a failure of fscc_init that undoes its steps as after fscc_exit,    *)
(* whichever cards were removed before.  The services, and every port whose  *)
(* creation was complete, are gone without a trace.  Of a card that was      *)
(* created the mappings stay (card.c:134 has no pci_iounmap), and the device *)
(* stays enabled unless fscc_remove disabled it (main.c:519).  A port that   *)
(* was abandoned keeps its memory and node (port.c:198), a card that was     *)
(* lost is still enabled (card.c:79): nothing ever gives these back.         *)
UnloadLeaves ==
  (phase = "unloaded") =>
    /\ registered = {}
    /\ \A p \in Ports :
         IF p \in abandoned THEN {"memory", "device", "cdev"} \subseteq res[p]
                            ELSE res[p] = {}
    /\ \A c \in Cards :
         IF c \in lost THEN "enabled" \in own[c]
                       ELSE own[c] \in {{}, Mappings, Mappings \cup {"enabled"}}

=============================================================================
