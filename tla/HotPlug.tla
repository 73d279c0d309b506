----------------------------- MODULE HotPlug -----------------------------
(* Hot plug and unplug of block and char devices into a running VM over    *)
(* QMP: hot_attach and hot_detach of QemuVM and StratoVirtVM, the slots of *)
(* their buses and root ports, the commands of VirtioBlockDevice and       *)
(* CharDevice, and the event watchers of QmpClient.  The VM is behind the  *)
(* sandbox's mutex: one call runs at a time, while the VMM and the guest   *)
(* answer, send events or die in between.                                  *)
EXTENDS Naturals, FiniteSets

CONSTANTS
    Blocks,         \* ids of block devices, from the sandbox's id counter
    Chars,          \* ids of char devices
    MaxSlot,        \* the highest index of a bus's slots or root ports
    MaxRefusals     \* how many QMP commands are refused

VARIABLES
    machine,        \* "qemu" or "strato"
    unused,         \* the device ids that were not attached yet
    hot_attached,   \* hot_attached_devices
    slots,          \* per bus, the device id each slot or root port holds
    nodes,          \* the VMM's block nodes and char backends
    plugged,        \* the VMM's devices, with the slot they are in
    leaving,        \* the devices the guest was asked to release
    watchers,       \* QmpClient.watchers: the device ids waited for
    running,        \* whether the VMM is alive
    plug,           \* the call in progress
    refusals        \* the commands refused so far

plugVars == <<machine, unused, hot_attached, slots, nodes, plugged, leaving, watchers,
              running, plug, refusals>>

PlugDevices == Blocks \cup Chars
Buses == {"block", "serial"}
Empty == "Empty"
NoPlug == [op |-> "idle", pc |-> "idle", dev |-> Empty, bus |-> "block", slot |-> 0, ok |-> TRUE]
BusOf(d) == IF d \in Chars THEN "serial" ELSE "block"
PlugReturns(ok) == plug' = [NoPlug EXCEPT !.ok = ok]
Goto(pc) == plug' = [plug EXCEPT !.pc = pc]
\* A command fails: the VMM is gone, or it refuses it.
Refuse == IF running THEN refusals < MaxRefusals /\ refusals' = refusals + 1
          ELSE UNCHANGED refusals
Granted == running /\ UNCHANGED refusals

\* Bus::empty_slot: the first empty slot, never the one at index 0.
\* get_empty_rootport_slot: the first root port without a device id.
EmptySlots(bus) ==
    {i \in (IF machine = "qemu" THEN 1..MaxSlot ELSE 0..MaxSlot) : slots[bus][i] = Empty}
FirstEmpty(bus, i) == i \in EmptySlots(bus) /\ \A j \in EmptySlots(bus) : i <= j

\* hot_attach_device up to the first command: QEMU only looks for a slot,
\* StratoVirt marks the root port at once.  StratoVirt has no char devices.
HotAttach(d) ==
    /\ plug.op = "idle"
    /\ d \in unused
    /\ machine = "strato" => d \in Blocks
    /\ unused' = unused \ {d}
    /\ \/ /\ EmptySlots(BusOf(d)) = {}
          /\ PlugReturns(FALSE)
          /\ UNCHANGED slots
       \/ \E i \in EmptySlots(BusOf(d)) :
            /\ FirstEmpty(BusOf(d), i)
            /\ plug' = [op |-> "attach", pc |-> "node", dev |-> d, bus |-> BusOf(d),
                        slot |-> i, ok |-> TRUE]
            /\ slots' = IF machine = "strato" THEN [slots EXCEPT ![BusOf(d)][i] = d] ELSE slots
    /\ UNCHANGED <<machine, hot_attached, nodes, plugged, leaving, watchers, running, refusals>>

\* blockdev_add or chardev_add.
AddNode ==
    /\ plug.pc = "node"
    /\ \/ Granted /\ nodes' = nodes \cup {plug.dev} /\ Goto("device")
       \/ Refuse /\ PlugReturns(FALSE) /\ UNCHANGED nodes
    /\ UNCHANGED <<machine, unused, hot_attached, slots, plugged, leaving, watchers, running>>

\* Mutant: a refused device_add returns at once.
AddDeviceOrReturn ==
    /\ plug.pc = "device"
    /\ \/ /\ Granted
          /\ plugged' = plugged \cup {[dev |-> plug.dev, bus |-> plug.bus, slot |-> plug.slot]}
          /\ slots' = [slots EXCEPT ![plug.bus][plug.slot] = plug.dev]
          /\ hot_attached' = hot_attached \cup {plug.dev}
          /\ PlugReturns(TRUE)
       \/ Refuse /\ PlugReturns(FALSE) /\ UNCHANGED <<plugged, slots, hot_attached>>
    /\ UNCHANGED <<machine, unused, nodes, leaving, watchers, running>>

\* device_add; then attach_to_bus marks QEMU's slot and the device is listed.
AddDevice ==
    /\ plug.pc = "device"
    /\ \/ /\ Granted
          /\ plugged' = plugged \cup {[dev |-> plug.dev, bus |-> plug.bus, slot |-> plug.slot]}
          /\ slots' = [slots EXCEPT ![plug.bus][plug.slot] = plug.dev]
          /\ hot_attached' = hot_attached \cup {plug.dev}
          /\ PlugReturns(TRUE)
       \/ Refuse /\ Goto("undo") /\ UNCHANGED <<plugged, slots, hot_attached>>
    /\ UNCHANGED <<machine, unused, nodes, leaving, watchers, running>>

\* The backend is deleted when device_add failed; an error is only logged.
UndoNode ==
    /\ plug.pc = "undo"
    /\ \/ Granted /\ nodes' = nodes \ {plug.dev}
       \/ Refuse /\ UNCHANGED nodes
    /\ PlugReturns(FALSE)
    /\ UNCHANGED <<machine, unused, hot_attached, slots, plugged, leaving, watchers, running>>

\* hot_detach: a device that is not listed is done; the others leave the
\* list and a watcher for DEVICE_DELETED is registered.
HotDetach(d) ==
    /\ plug.op = "idle"
    /\ d \in hot_attached
    /\ hot_attached' = hot_attached \ {d}
    /\ watchers' = watchers \cup {d}
    /\ plug' = [op |-> "detach", pc |-> "delete", dev |-> d, bus |-> BusOf(d), slot |-> 0,
                ok |-> TRUE]
    /\ UNCHANGED <<machine, unused, slots, nodes, plugged, leaving, running, refusals>>

InVmm(d) == \E p \in plugged : p.dev = d

\* device_del: accepted when the VMM has the device, which asks the guest to
\* release it.  An error puts the device back in the list; the watcher stays.
DeleteDevice ==
    /\ plug.pc = "delete"
    /\ \/ /\ InVmm(plug.dev) /\ Granted
          /\ leaving' = leaving \cup {plug.dev}
          /\ Goto("wait")
          /\ UNCHANGED hot_attached
       \/ /\ IF InVmm(plug.dev) THEN Refuse ELSE UNCHANGED refusals
          /\ hot_attached' = hot_attached \cup {plug.dev}
          /\ PlugReturns(FALSE)
          /\ UNCHANGED leaving
    /\ UNCHANGED <<machine, unused, slots, nodes, plugged, watchers, running>>

\* The guest releases the device and the VMM sends DEVICE_DELETED; the
\* client's reader hands it to the watchers of that id and drops them.
DeviceDeleted(d) ==
    /\ running
    /\ d \in leaving
    /\ leaving' = leaving \ {d}
    /\ plugged' = {p \in plugged : p.dev # d}
    /\ watchers' = watchers \ {d}
    /\ plug' = IF plug.pc = "wait" /\ plug.dev = d /\ d \in watchers
               THEN [plug EXCEPT !.pc = "delnode"] ELSE plug
    /\ UNCHANGED <<machine, unused, hot_attached, slots, nodes, running, refusals>>

\* blockdev_del or chardev_remove, then detach_from_bus: QEMU's slot is
\* empty again, StratoVirt's root port is not on a bus and keeps its id.
DeleteNode ==
    /\ plug.pc = "delnode"
    /\ \/ /\ Granted
          /\ nodes' = nodes \ {plug.dev}
          /\ slots' = IF machine = "strato" THEN slots
                      ELSE [b \in Buses |-> [i \in 0..MaxSlot |->
                               IF slots[b][i] = plug.dev THEN Empty ELSE slots[b][i]]]
          /\ PlugReturns(TRUE)
          /\ UNCHANGED hot_attached
       \/ /\ Refuse
          /\ hot_attached' = hot_attached \cup {plug.dev}
          /\ PlugReturns(FALSE)
          /\ UNCHANGED <<nodes, slots>>
    /\ UNCHANGED <<machine, unused, plugged, leaving, watchers, running>>

\* The VMM dies: its devices go with it, and no event will come.
VmmDies ==
    /\ running
    /\ running' = FALSE
    /\ nodes' = {} /\ plugged' = {} /\ leaving' = {}
    /\ UNCHANGED <<machine, unused, hot_attached, slots, watchers, plug, refusals>>

PlugInit ==
    /\ machine \in {"qemu", "strato"}
    /\ unused = PlugDevices
    /\ hot_attached = {} /\ nodes = {} /\ plugged = {} /\ leaving = {} /\ watchers = {}
    /\ slots = [b \in Buses |-> [i \in 0..MaxSlot |-> Empty]]
    /\ running = TRUE
    /\ plug = NoPlug
    /\ refusals = 0

PlugNext ==
    \/ \E d \in PlugDevices : HotAttach(d) \/ HotDetach(d) \/ DeviceDeleted(d)
    \/ AddNode \/ AddDevice \/ UndoNode
    \/ DeleteDevice \/ DeleteNode
    \/ VmmDies

PlugSpec == PlugInit /\ [][PlugNext]_plugVars

(***************************************************************************)
(* Properties                                                              *)
(***************************************************************************)
PlugCalls ==
    [op : {"idle", "attach", "detach"},
     pc : {"idle", "node", "device", "undo", "delete", "wait", "delnode"},
     dev : PlugDevices \cup {Empty}, bus : Buses, slot : 0..MaxSlot, ok : BOOLEAN]

\* The state has its type.
PlugTypeOK ==
    /\ machine \in {"qemu", "strato"}
    /\ unused \subseteq PlugDevices /\ hot_attached \subseteq PlugDevices
    /\ slots \in [Buses -> [0..MaxSlot -> PlugDevices \cup {Empty}]]
    /\ nodes \subseteq PlugDevices /\ leaving \subseteq PlugDevices
    /\ watchers \subseteq PlugDevices
    /\ plugged \subseteq [dev : PlugDevices, bus : Buses, slot : 0..MaxSlot]
    /\ plug \in PlugCalls
    /\ refusals \in Nat

\* No two devices of the VMM are in the same slot, whatever commands were
\* refused before: the address hot_attach reports names one device.
OneDevicePerSlot ==
    \A p, q \in plugged : p.bus = q.bus /\ p.slot = q.slot => p.dev = q.dev

\* QEMU gives slots back: an occupied slot is of a listed device or of the
\* one being detached.
SlotsComeBack ==
    machine = "qemu" =>
        \A b \in Buses, i \in 0..MaxSlot : slots[b][i] # Empty =>
            slots[b][i] \in hot_attached \/ (plug.op = "detach" /\ plug.dev = slots[b][i])

\* One refused command leaves no backend behind that no list knows: it takes
\* a second refusal, of the undo.
NoLostBackend ==
    running /\ refusals <= 1 => nodes \subseteq hot_attached \cup {plug.dev}

\* A listed device still has its backend in the VMM, so the retry of a
\* failed detach has something to delete.
ListedHasBackend ==
    running => hot_attached \subseteq nodes

\* The sandboxer's list and slots agree with what the VMM has: the four
\* properties together.
PlugAgrees == OneDevicePerSlot /\ SlotsComeBack /\ NoLostBackend /\ ListedHasBackend
==========================================================================
