---------------------------- MODULE HotPlugProofs ----------------------------
(***************************************************************************)
(* The list and the slots of a VM's hot-plugged devices agree with the VMM, *)
(* for any number of devices, slots and refused commands.                   *)
(***************************************************************************)
EXTENDS HotPlug, TLAPS

\* Bounds that are numbers, and ids of devices that are not the mark of a free slot.
PlugConstants == MaxSlot \in Nat /\ MaxRefusals \in Nat /\ Empty \notin PlugDevices

\* The call in progress: its steps, and what the VMM has of its device.
CallInv ==
  /\ plug.pc = "idle" <=> plug.op = "idle"
  /\ plug.op = "attach" <=> plug.pc \in {"node", "device", "undo"}
  /\ plug.op # "idle" => plug.dev \in PlugDevices /\ plug.dev \notin hot_attached \cup unused
  /\ plug.op = "idle" => plug.dev = Empty
  /\ plug.pc = "node" => plug.dev \notin nodes
  /\ running /\ plug.pc \in {"device", "undo", "delete", "wait", "delnode"} => plug.dev \in nodes
  /\ running /\ plug.pc = "undo" => refusals >= 1
  /\ plug.pc = "delnode" => ~InVmm(plug.dev)

\* The slot a device is in names it; the slot an attach goes to is still free, or
\* already marked by StratoVirt.
SlotInv ==
  /\ \A p \in plugged : slots[p.bus][p.slot] = p.dev
  /\ plug.pc \in {"node", "device"} => slots[plug.bus][plug.slot] \in {Empty, plug.dev}

\* Ids are used once.
UnusedInv == unused \cap (nodes \cup hot_attached) = {}

PlugInv ==
  /\ PlugTypeOK /\ CallInv /\ SlotInv /\ UnusedInv
  /\ SlotsComeBack /\ NoLostBackend /\ ListedHasBackend


\* The call that has returned is an idle one.
LEMMA ReturnsIdle ==
  ASSUME PlugConstants, NEW ok \in BOOLEAN, PlugReturns(ok)
  PROVE  plug' \in PlugCalls /\ plug'.op = "idle" /\ plug'.pc = "idle" /\ plug'.dev = Empty
BY DEF PlugConstants, PlugReturns, NoPlug, PlugCalls, Buses

\* A step of a call moves its place in the code only.
LEMMA GotoGoes ==
  ASSUME plug \in PlugCalls, NEW pc \in {"device", "undo", "wait"}, Goto(pc)
  PROVE  /\ plug' \in PlugCalls /\ plug'.pc = pc /\ plug'.op = plug.op /\ plug'.dev = plug.dev
         /\ plug'.bus = plug.bus /\ plug'.slot = plug.slot
BY DEF Goto, PlugCalls

\* A refused command keeps the count a number, and raises it while the VMM runs.
LEMMA Refused ==
  ASSUME refusals \in Nat, Refuse
  PROVE  refusals' \in Nat /\ (running => refusals' = refusals + 1)
BY DEF Refuse

\* The begin of hot_attach preserves the invariant.
LEMMA HotAttachStep ==
  ASSUME PlugConstants, PlugInv, NEW d \in PlugDevices, HotAttach(d)
  PROVE  PlugInv'
<1> DEFINE b == BusOf(d)
<1>0. /\ b \in Buses /\ d \in unused /\ plug.op = "idle"
      /\ unused' = unused \ {d}
      /\ UNCHANGED <<machine, hot_attached, nodes, plugged, leaving, watchers, running, refusals>>
  BY DEF HotAttach, BusOf, Buses
<1>1. CASE PlugReturns(FALSE) /\ UNCHANGED slots
  <2>1. plug' \in PlugCalls /\ plug'.op = "idle" /\ plug'.pc = "idle" /\ plug'.dev = Empty
    BY <1>1, ReturnsIdle
  <2>2. PlugTypeOK'
    BY <1>0, <1>1, <2>1 DEF PlugInv, PlugTypeOK
  <2>3. CallInv' /\ SlotInv' /\ UnusedInv'
    BY <1>0, <1>1, <2>1 DEF PlugInv, CallInv, SlotInv, UnusedInv, InVmm
  <2>4. SlotsComeBack' /\ NoLostBackend' /\ ListedHasBackend'
    BY <1>0, <1>1, <2>1 DEF PlugInv, CallInv, SlotsComeBack, NoLostBackend, ListedHasBackend
  <2> QED  BY <2>2, <2>3, <2>4 DEF PlugInv
<1>2. ASSUME NEW i \in EmptySlots(b),
             plug' = [op |-> "attach", pc |-> "node", dev |-> d, bus |-> b, slot |-> i, ok |-> TRUE],
             slots' = IF machine = "strato" THEN [slots EXCEPT ![b][i] = d] ELSE slots
      PROVE  PlugInv'
  <2>1. i \in 0..MaxSlot /\ slots[b][i] = Empty
    BY DEF PlugConstants, EmptySlots
  <2>2. /\ plug' \in PlugCalls /\ plug'.op = "attach" /\ plug'.pc = "node"
        /\ plug'.dev = d /\ plug'.bus = b /\ plug'.slot = i
    BY <1>0, <1>2, <2>1 DEF PlugCalls
  <2>3. slots' \in [Buses -> [0..MaxSlot -> PlugDevices \cup {Empty}]]
    BY <1>0, <1>2, <2>1 DEF PlugInv, PlugTypeOK
  <2>4. /\ slots'[b][i] \in {Empty, d}
        /\ machine # "strato" => slots' = slots
        /\ \A c \in Buses, j \in 0..MaxSlot : slots[c][j] # Empty => slots'[c][j] = slots[c][j]
    BY <1>0, <1>2, <2>1 DEF PlugInv, PlugTypeOK
  <2>5. PlugTypeOK'
    BY <1>0, <2>2, <2>3 DEF PlugInv, PlugTypeOK
  <2>6. CallInv' /\ UnusedInv'
    BY <1>0, <2>2 DEF PlugInv, CallInv, UnusedInv
  <2>7. SlotInv'
    BY <1>0, <2>2, <2>4 DEF PlugInv, PlugTypeOK, SlotInv, PlugConstants
  <2>8. SlotsComeBack'
    BY <1>0, <2>2, <2>4 DEF PlugInv, PlugTypeOK, SlotsComeBack
  <2>9. NoLostBackend' /\ ListedHasBackend'
    BY <1>0, <2>2 DEF PlugInv, PlugTypeOK, CallInv, NoLostBackend, ListedHasBackend, PlugConstants
  <2> QED  BY <2>5, <2>6, <2>7, <2>8, <2>9 DEF PlugInv
<1> QED  BY <1>1, <1>2 DEF HotAttach

\* The begin of hot_detach preserves the invariant.
LEMMA HotDetachStep ==
  ASSUME PlugConstants, PlugInv, NEW d \in PlugDevices, HotDetach(d)
  PROVE  PlugInv'
<1>0. /\ d \in hot_attached /\ plug.op = "idle" /\ hot_attached' = hot_attached \ {d}
      /\ watchers' = watchers \cup {d}
      /\ UNCHANGED <<machine, unused, slots, nodes, plugged, leaving, running, refusals>>
  BY DEF HotDetach
<1>1. /\ plug' \in PlugCalls /\ plug'.op = "detach" /\ plug'.pc = "delete" /\ plug'.dev = d
  BY DEF HotDetach, BusOf, Buses, PlugCalls, PlugConstants
<1>2. PlugTypeOK'
  BY <1>0, <1>1 DEF PlugInv, PlugTypeOK
<1>3. CallInv' /\ UnusedInv'
  BY <1>0, <1>1 DEF PlugInv, CallInv, UnusedInv, ListedHasBackend
<1>4. SlotInv' /\ SlotsComeBack'
  BY <1>0, <1>1 DEF PlugInv, SlotInv, SlotsComeBack
<1>5. NoLostBackend' /\ ListedHasBackend'
  BY <1>0, <1>1 DEF PlugInv, PlugTypeOK, CallInv, NoLostBackend, ListedHasBackend, PlugConstants
<1> QED  BY <1>2, <1>3, <1>4, <1>5 DEF PlugInv

\* DEVICE_DELETED preserves the invariant.
LEMMA DeviceDeletedStep ==
  ASSUME PlugConstants, PlugInv, NEW d \in PlugDevices, DeviceDeleted(d)
  PROVE  PlugInv'
<1>0. /\ plugged' = {p \in plugged : p.dev # d} /\ leaving' \subseteq leaving
      /\ watchers' \subseteq watchers
      /\ UNCHANGED <<machine, unused, hot_attached, slots, nodes, running, refusals>>
  BY DEF DeviceDeleted
<1>1. /\ plug' \in PlugCalls /\ plug'.op = plug.op /\ plug'.dev = plug.dev
      /\ plug'.bus = plug.bus /\ plug'.slot = plug.slot
      /\ plug'.pc = plug.pc \/ (plug.pc = "wait" /\ plug.dev = d /\ plug'.pc = "delnode")
  BY DEF DeviceDeleted, PlugInv, PlugTypeOK, PlugCalls
<1>2. PlugTypeOK'
  BY <1>0, <1>1 DEF PlugInv, PlugTypeOK
<1>3. CallInv' /\ UnusedInv'
  BY <1>0, <1>1 DEF PlugInv, CallInv, UnusedInv, InVmm
<1>4. SlotInv' /\ SlotsComeBack'
  BY <1>0, <1>1 DEF PlugInv, SlotInv, SlotsComeBack
<1>5. NoLostBackend' /\ ListedHasBackend'
  BY <1>0, <1>1 DEF PlugInv, NoLostBackend, ListedHasBackend
<1> QED  BY <1>2, <1>3, <1>4, <1>5 DEF PlugInv

\* Adding the backend preserves the invariant.
LEMMA AddNodeStep ==
  ASSUME PlugConstants, PlugInv, AddNode
  PROVE  PlugInv'
<1>0. /\ plug.pc = "node" /\ plug.op = "attach"
      /\ UNCHANGED <<machine, unused, hot_attached, slots, plugged, leaving, watchers, running>>
  BY DEF AddNode, PlugInv, CallInv
<1>1. CASE Granted /\ nodes' = nodes \cup {plug.dev} /\ Goto("device")
  <2>1. /\ plug' \in PlugCalls /\ plug'.pc = "device" /\ plug'.op = "attach"
        /\ plug'.dev = plug.dev /\ plug'.bus = plug.bus /\ plug'.slot = plug.slot
    BY <1>0, <1>1, GotoGoes DEF PlugInv, PlugTypeOK
  <2>2. refusals' = refusals /\ plug.dev \in PlugDevices
    BY <1>0, <1>1 DEF Granted, PlugInv, CallInv
  <2>3. PlugTypeOK'
    BY <1>0, <1>1, <2>1, <2>2 DEF PlugInv, PlugTypeOK
  <2>4. CallInv' /\ UnusedInv'
    BY <1>0, <1>1, <2>1, <2>2 DEF PlugInv, CallInv, UnusedInv
  <2>5. SlotInv' /\ SlotsComeBack'
    BY <1>0, <2>1 DEF PlugInv, SlotInv, SlotsComeBack
  <2>6. NoLostBackend' /\ ListedHasBackend'
    BY <1>0, <1>1, <2>1, <2>2 DEF PlugInv, NoLostBackend, ListedHasBackend
  <2> QED  BY <2>3, <2>4, <2>5, <2>6 DEF PlugInv
<1>2. CASE Refuse /\ PlugReturns(FALSE) /\ UNCHANGED nodes
  <2>1. plug' \in PlugCalls /\ plug'.op = "idle" /\ plug'.pc = "idle" /\ plug'.dev = Empty
    BY <1>2, ReturnsIdle
  <2>2. refusals \in Nat /\ refusals' \in Nat /\ (running => refusals' = refusals + 1)
    BY <1>2, Refused DEF PlugInv, PlugTypeOK
  <2>3. PlugTypeOK'
    BY <1>0, <1>2, <2>1, <2>2 DEF PlugInv, PlugTypeOK
  <2>4. CallInv' /\ UnusedInv'
    BY <1>0, <1>2, <2>1 DEF PlugInv, CallInv, UnusedInv
  <2>5. SlotInv' /\ SlotsComeBack'
    BY <1>0, <2>1 DEF PlugInv, SlotInv, SlotsComeBack
  <2>6. NoLostBackend' /\ ListedHasBackend'
    BY <1>0, <1>2, <2>1, <2>2 DEF PlugInv, CallInv, NoLostBackend, ListedHasBackend
  <2> QED  BY <2>3, <2>4, <2>5, <2>6 DEF PlugInv
<1> QED  BY <1>1, <1>2 DEF AddNode

\* device_add preserves the invariant.
LEMMA AddDeviceStep ==
  ASSUME PlugConstants, PlugInv, AddDevice
  PROVE  PlugInv'
<1>0. /\ plug.pc = "device" /\ plug.op = "attach" /\ plug.dev \in PlugDevices
      /\ plug.bus \in Buses /\ plug.slot \in 0..MaxSlot
      /\ slots[plug.bus][plug.slot] \in {Empty, plug.dev}
      /\ UNCHANGED <<machine, unused, nodes, leaving, watchers, running>>
  BY DEF AddDevice, PlugInv, CallInv, SlotInv, PlugTypeOK, PlugCalls
<1>1. CASE /\ Granted
           /\ plugged' = plugged \cup {[dev |-> plug.dev, bus |-> plug.bus, slot |-> plug.slot]}
           /\ slots' = [slots EXCEPT ![plug.bus][plug.slot] = plug.dev]
           /\ hot_attached' = hot_attached \cup {plug.dev}
           /\ PlugReturns(TRUE)
  <2>1. plug' \in PlugCalls /\ plug'.op = "idle" /\ plug'.pc = "idle" /\ plug'.dev = Empty
    BY <1>1, ReturnsIdle
  <2>2. refusals' = refusals /\ running
    BY <1>1 DEF Granted
  <2>3. /\ slots' \in [Buses -> [0..MaxSlot -> PlugDevices \cup {Empty}]]
        /\ slots'[plug.bus][plug.slot] = plug.dev
        /\ \A c \in Buses, j \in 0..MaxSlot :
             slots'[c][j] = slots[c][j] \/ (slots[c][j] \in {Empty, plug.dev} /\ slots'[c][j] = plug.dev)
    BY <1>0, <1>1 DEF PlugInv, PlugTypeOK
  <2>4. plugged' \subseteq [dev : PlugDevices, bus : Buses, slot : 0..MaxSlot]
    BY <1>0, <1>1 DEF PlugInv, PlugTypeOK
  <2>5. PlugTypeOK'
    BY <1>0, <1>1, <2>1, <2>2, <2>3, <2>4 DEF PlugInv, PlugTypeOK
  <2>6. CallInv' /\ UnusedInv'
    BY <1>0, <1>1, <2>1 DEF PlugInv, CallInv, UnusedInv
  <2>7. SlotInv'
    <3>1. ASSUME NEW p \in plugged PROVE slots'[p.bus][p.slot] = p.dev
      <4>1. p.bus \in Buses /\ p.slot \in 0..MaxSlot /\ p.dev \in PlugDevices
        BY DEF PlugInv, PlugTypeOK
      <4>2. slots[p.bus][p.slot] = p.dev
        BY DEF PlugInv, SlotInv
      <4> QED  BY <4>1, <4>2, <2>3 DEF PlugConstants
    <3> QED  BY <1>1, <2>1, <2>3, <3>1 DEF SlotInv
  <2>8. SlotsComeBack'
    BY <1>0, <1>1, <2>1, <2>3 DEF PlugInv, SlotsComeBack
  <2>9. NoLostBackend' /\ ListedHasBackend'
    BY <1>0, <1>1, <2>1, <2>2 DEF PlugInv, CallInv, NoLostBackend, ListedHasBackend
  <2> QED  BY <2>5, <2>6, <2>7, <2>8, <2>9 DEF PlugInv
<1>2. CASE Refuse /\ Goto("undo") /\ UNCHANGED <<plugged, slots, hot_attached>>
  <2>1. /\ plug' \in PlugCalls /\ plug'.pc = "undo" /\ plug'.op = "attach"
        /\ plug'.dev = plug.dev /\ plug'.bus = plug.bus /\ plug'.slot = plug.slot
    BY <1>0, <1>2, GotoGoes DEF PlugInv, PlugTypeOK
  <2>2. refusals \in Nat /\ refusals' \in Nat /\ (running => refusals' = refusals + 1)
    BY <1>2, Refused DEF PlugInv, PlugTypeOK
  <2>3. PlugTypeOK'
    BY <1>0, <1>2, <2>1, <2>2 DEF PlugInv, PlugTypeOK
  <2>4. CallInv' /\ UnusedInv'
    BY <1>0, <1>2, <2>1, <2>2 DEF PlugInv, CallInv, UnusedInv
  <2>5. SlotInv' /\ SlotsComeBack'
    BY <1>0, <1>2, <2>1 DEF PlugInv, SlotInv, SlotsComeBack
  <2>6. NoLostBackend' /\ ListedHasBackend'
    BY <1>0, <1>2, <2>1, <2>2 DEF PlugInv, NoLostBackend, ListedHasBackend
  <2> QED  BY <2>3, <2>4, <2>5, <2>6 DEF PlugInv
<1> QED  BY <1>1, <1>2 DEF AddDevice

\* The roll-back of hot_attach preserves the invariant.
LEMMA UndoNodeStep ==
  ASSUME PlugConstants, PlugInv, UndoNode
  PROVE  PlugInv'
<1>0. /\ plug.pc = "undo" /\ plug.op = "attach"
      /\ UNCHANGED <<machine, unused, hot_attached, slots, plugged, leaving, watchers, running>>
  BY DEF UndoNode, PlugInv, CallInv
<1>1. plug' \in PlugCalls /\ plug'.op = "idle" /\ plug'.pc = "idle" /\ plug'.dev = Empty
  BY ReturnsIdle DEF UndoNode
<1>2. /\ refusals' \in Nat
      /\ \/ nodes' = nodes \ {plug.dev} /\ refusals' = refusals
         \/ nodes' = nodes /\ (running => refusals' = refusals + 1)
  <2>1. refusals \in Nat
    BY DEF PlugInv, PlugTypeOK
  <2>2. CASE Granted /\ nodes' = nodes \ {plug.dev}
    BY <2>1, <2>2 DEF Granted
  <2>3. CASE Refuse /\ UNCHANGED nodes
    BY <2>1, <2>3, Refused
  <2> QED  BY <2>2, <2>3 DEF UndoNode
<1>3. PlugTypeOK'
  BY <1>0, <1>1, <1>2 DEF PlugInv, PlugTypeOK
<1>4. CallInv' /\ UnusedInv'
  BY <1>0, <1>1, <1>2 DEF PlugInv, CallInv, UnusedInv
<1>5. SlotInv' /\ SlotsComeBack'
  BY <1>0, <1>1 DEF PlugInv, SlotInv, SlotsComeBack
<1>6. ListedHasBackend'
  BY <1>0, <1>1, <1>2 DEF PlugInv, CallInv, ListedHasBackend
<1>7. NoLostBackend'
  BY <1>0, <1>1, <1>2 DEF PlugInv, PlugTypeOK, CallInv, NoLostBackend
<1> QED  BY <1>3, <1>4, <1>5, <1>6, <1>7 DEF PlugInv

\* device_del preserves the invariant.
LEMMA DeleteDeviceStep ==
  ASSUME PlugConstants, PlugInv, DeleteDevice
  PROVE  PlugInv'
<1>0. /\ plug.pc = "delete" /\ plug.op = "detach" /\ plug.dev \in PlugDevices
      /\ UNCHANGED <<machine, unused, slots, nodes, plugged, watchers, running>>
  BY DEF DeleteDevice, PlugInv, CallInv, PlugTypeOK, PlugCalls
<1>1. CASE Granted /\ leaving' = leaving \cup {plug.dev} /\ Goto("wait") /\ UNCHANGED hot_attached
  <2>1. /\ plug' \in PlugCalls /\ plug'.pc = "wait" /\ plug'.op = "detach" /\ plug'.dev = plug.dev
    BY <1>0, <1>1, GotoGoes DEF PlugInv, PlugTypeOK
  <2>2. refusals' = refusals
    BY <1>1 DEF Granted
  <2>3. PlugTypeOK'
    BY <1>0, <1>1, <2>1, <2>2 DEF PlugInv, PlugTypeOK
  <2>4. CallInv' /\ UnusedInv'
    BY <1>0, <1>1, <2>1, <2>2 DEF PlugInv, CallInv, UnusedInv
  <2>5. SlotInv' /\ SlotsComeBack'
    BY <1>0, <1>1, <2>1 DEF PlugInv, SlotInv, SlotsComeBack
  <2>6. NoLostBackend' /\ ListedHasBackend'
    BY <1>0, <1>1, <2>1, <2>2 DEF PlugInv, NoLostBackend, ListedHasBackend
  <2> QED  BY <2>3, <2>4, <2>5, <2>6 DEF PlugInv
<1>2. CASE /\ IF InVmm(plug.dev) THEN Refuse ELSE UNCHANGED refusals
           /\ hot_attached' = hot_attached \cup {plug.dev} /\ PlugReturns(FALSE) /\ UNCHANGED leaving
  <2>1. plug' \in PlugCalls /\ plug'.op = "idle" /\ plug'.pc = "idle" /\ plug'.dev = Empty
    BY <1>2, ReturnsIdle
  <2>2. refusals \in Nat /\ refusals' \in Nat /\ (running => refusals' \in {refusals, refusals + 1})
    BY <1>2, Refused DEF PlugInv, PlugTypeOK
  <2>3. PlugTypeOK'
    BY <1>0, <1>2, <2>1, <2>2 DEF PlugInv, PlugTypeOK
  <2>4. CallInv' /\ UnusedInv'
    BY <1>0, <1>2, <2>1 DEF PlugInv, CallInv, UnusedInv
  <2>5. SlotInv' /\ SlotsComeBack'
    BY <1>0, <1>2, <2>1 DEF PlugInv, SlotInv, SlotsComeBack
  <2>6. NoLostBackend' /\ ListedHasBackend'
    BY <1>0, <1>2, <2>1, <2>2 DEF PlugInv, CallInv, NoLostBackend, ListedHasBackend
  <2> QED  BY <2>3, <2>4, <2>5, <2>6 DEF PlugInv
<1> QED  BY <1>1, <1>2 DEF DeleteDevice

\* Deleting the backend preserves the invariant.
LEMMA DeleteNodeStep ==
  ASSUME PlugConstants, PlugInv, DeleteNode
  PROVE  PlugInv'
<1>0. /\ plug.pc = "delnode" /\ plug.op = "detach" /\ plug.dev \in PlugDevices
      /\ UNCHANGED <<machine, unused, plugged, leaving, watchers, running>>
  BY DEF DeleteNode, PlugInv, CallInv, PlugTypeOK, PlugCalls
<1>1. plug' \in PlugCalls /\ plug'.op = "idle" /\ plug'.pc = "idle" /\ plug'.dev = Empty
  BY ReturnsIdle DEF DeleteNode
<1>2. CASE /\ Granted /\ nodes' = nodes \ {plug.dev} /\ UNCHANGED hot_attached
           /\ slots' = IF machine = "strato" THEN slots
                       ELSE [b \in Buses |-> [i \in 0..MaxSlot |->
                               IF slots[b][i] = plug.dev THEN Empty ELSE slots[b][i]]]
  <2>1. refusals' = refusals
    BY <1>2 DEF Granted
  <2>2. /\ slots' \in [Buses -> [0..MaxSlot -> PlugDevices \cup {Empty}]]
        /\ \A c \in Buses, j \in 0..MaxSlot :
             /\ slots[c][j] # plug.dev => slots'[c][j] = slots[c][j]
             /\ machine # "strato" => slots'[c][j] # plug.dev
    BY <1>0, <1>2 DEF PlugInv, PlugTypeOK, PlugConstants
  <2>3. PlugTypeOK'
    BY <1>0, <1>1, <1>2, <2>1, <2>2 DEF PlugInv, PlugTypeOK
  <2>4. CallInv' /\ UnusedInv'
    BY <1>0, <1>1, <1>2 DEF PlugInv, CallInv, UnusedInv
  <2>5. SlotInv'
    <3>1. ASSUME NEW p \in plugged PROVE slots'[p.bus][p.slot] = p.dev
      <4>1. p.bus \in Buses /\ p.slot \in 0..MaxSlot
        BY DEF PlugInv, PlugTypeOK
      <4>2. slots[p.bus][p.slot] = p.dev /\ p.dev # plug.dev
        BY <1>0 DEF PlugInv, SlotInv, CallInv, InVmm
      <4> QED  BY <4>1, <4>2, <2>2
    <3> QED  BY <1>0, <1>1, <3>1 DEF SlotInv
  <2>6. SlotsComeBack'
    <3> SUFFICES ASSUME machine = "qemu", NEW c \in Buses, NEW j \in 0..MaxSlot, slots'[c][j] # Empty
                 PROVE  slots'[c][j] \in hot_attached'
      BY <1>0 DEF SlotsComeBack
    <3>1. slots'[c][j] = slots[c][j] /\ slots[c][j] # plug.dev
      BY <1>2
    <3> QED  BY <1>2, <3>1 DEF PlugInv, SlotsComeBack
  <2>7. NoLostBackend' /\ ListedHasBackend'
    BY <1>0, <1>1, <1>2, <2>1 DEF PlugInv, CallInv, NoLostBackend, ListedHasBackend
  <2> QED  BY <2>3, <2>4, <2>5, <2>6, <2>7 DEF PlugInv
<1>3. CASE Refuse /\ hot_attached' = hot_attached \cup {plug.dev} /\ UNCHANGED <<nodes, slots>>
  <2>1. refusals \in Nat /\ refusals' \in Nat /\ (running => refusals' = refusals + 1)
    BY <1>3, Refused DEF PlugInv, PlugTypeOK
  <2>2. PlugTypeOK'
    BY <1>0, <1>1, <1>3, <2>1 DEF PlugInv, PlugTypeOK
  <2>3. CallInv' /\ UnusedInv'
    BY <1>0, <1>1, <1>3 DEF PlugInv, CallInv, UnusedInv
  <2>4. SlotInv' /\ SlotsComeBack'
    BY <1>0, <1>1, <1>3 DEF PlugInv, SlotInv, SlotsComeBack
  <2>5. NoLostBackend' /\ ListedHasBackend'
    BY SMTT(60), <1>0, <1>1, <1>3, <2>1 DEF PlugInv, CallInv, NoLostBackend, ListedHasBackend
  <2> QED  BY <2>2, <2>3, <2>4, <2>5 DEF PlugInv
<1> QED  BY <1>2, <1>3 DEF DeleteNode

\* The death of the VMM preserves the invariant.
LEMMA VmmDiesStep ==
  ASSUME PlugInv, VmmDies
  PROVE  PlugInv'
<1> USE DEF VmmDies, PlugInv
<1>1. PlugTypeOK'
  BY DEF PlugTypeOK
<1>2. CallInv' /\ UnusedInv'
  BY DEF CallInv, UnusedInv, InVmm
<1>3. SlotInv' /\ SlotsComeBack' /\ NoLostBackend' /\ ListedHasBackend'
  BY DEF SlotInv, SlotsComeBack, NoLostBackend, ListedHasBackend
<1> QED  BY <1>1, <1>2, <1>3

\* The initial states satisfy the invariant.
LEMMA PlugInitially == PlugConstants /\ PlugInit => PlugInv
<1> SUFFICES ASSUME PlugConstants, PlugInit PROVE PlugInv
  OBVIOUS
<1>1. plug \in PlugCalls /\ plug.op = "idle" /\ plug.pc = "idle" /\ plug.dev = Empty
  BY DEF PlugInit, NoPlug, PlugCalls, Buses, PlugConstants
<1>2. PlugTypeOK
  BY <1>1 DEF PlugInit, PlugTypeOK
<1>3. CallInv /\ SlotInv /\ UnusedInv
  BY <1>1 DEF PlugInit, CallInv, SlotInv, UnusedInv
<1>4. SlotsComeBack /\ NoLostBackend /\ ListedHasBackend
  BY DEF PlugInit, SlotsComeBack, NoLostBackend, ListedHasBackend
<1> QED  BY <1>2, <1>3, <1>4 DEF PlugInv

\* Every step preserves the invariant.
LEMMA PlugStep == PlugConstants /\ PlugInv /\ [PlugNext]_plugVars => PlugInv'
<1> SUFFICES ASSUME PlugConstants, PlugInv, [PlugNext]_plugVars PROVE PlugInv'
  OBVIOUS
<1>1. CASE UNCHANGED plugVars
  BY <1>1 DEF plugVars, PlugInv, PlugTypeOK, CallInv, SlotInv, UnusedInv, SlotsComeBack,
              NoLostBackend, ListedHasBackend, InVmm
<1>2. CASE PlugNext
  BY <1>2, HotAttachStep, HotDetachStep, DeviceDeletedStep, AddNodeStep, AddDeviceStep,
     UndoNodeStep, DeleteDeviceStep, DeleteNodeStep, VmmDiesStep DEF PlugNext
<1> QED  BY <1>1, <1>2

\* Two devices in one slot are one device, since the slot names both.
LEMMA PlugInvAgrees == PlugInv => PlugAgrees
BY DEF PlugInv, SlotInv, PlugAgrees, OneDevicePerSlot

\* hot_attach and hot_detach keep the list of devices and the slots in agreement
\* with the VMM, for any number of devices and slots, whichever commands are
\* refused and whenever the VMM dies.
THEOREM PlugSafe == ASSUME PlugConstants PROVE PlugSpec => []PlugAgrees
<1>1. PlugInit => PlugInv
  BY PlugInitially
<1>2. PlugInv /\ [PlugNext]_plugVars => PlugInv'
  BY PlugStep
<1> QED  BY <1>1, <1>2, PlugInvAgrees, PTL DEF PlugSpec
=============================================================================
