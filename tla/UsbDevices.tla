----------------------------- MODULE UsbDevices -----------------------------
(***************************************************************************)
(* Finding the USB devices (kernel/src/xhci.rs): the boot scan of the root *)
(* ports and of the hubs behind them, the activation of one disk and one   *)
(* keyboard, and the rescan `mount -a` makes.  The driver's pool entries,  *)
(* the controller's slots, and the commands between them, which may fail,  *)
(* or run out and still be carried out later.  The controller and the      *)
(* devices are external.                                                   *)
(*                                                                         *)
(* A place is the sequence of port numbers from the root to a device.      *)
(* Control transfers, descriptors and timings are abstracted to whether    *)
(* the step they belong to worked.                                         *)
(***************************************************************************)
EXTENDS Naturals, Sequences, FiniteSets, SequencesExt

CONSTANTS
  MAX_DEVICES,    \* entries of the pool
  Slots,          \* the controller's slot numbers, 1 .. n
  MaxPorts,       \* the root ports are 1 .. MaxPorts
  HubPorts,       \* and every hub's 1 .. HubPorts
  MaxTier,        \* hubs deep a device may be (5 in the code)
  Worlds,         \* what may be plugged in: each a function from places to kinds
  MaxFaults,      \* bound: steps that fail
  MaxRescans      \* bound: rescan_ports calls

Pool == 1 .. MAX_DEVICES

VARIABLES
  entries,   \* Xhci::slots: the pool
  dcbaa,     \* DCBAA: the entry whose context the slot has, 0 for none
  hc,        \* the controller's slots: their state and the context they use
  late,      \* commands given up on that the controller has not run
  world,     \* the devices
  plugged,   \* the root ports that are connected
  open,      \* places whose device answers at address 0
  stuck,     \* history: hub ports that could not be disabled again
  scan,      \* the scan and the set-up under way
  active,    \* Xhci::keyboard and Xhci::storage: their entries, 0 for none
  count      \* what the bounds count

vars == <<entries, dcbaa, hc, late, world, plugged, open, stuck, scan, active, count>>

None == [place |-> << >>, slot |-> 0]
Tombstone(place) == [place |-> place, slot |-> 0]

Kind(p) == IF p \in DOMAIN world THEN world[p] ELSE "none"
IsRoot(p) == Len(p) = 1

Idle == [step |-> "none", place |-> << >>, entry |-> 0, class |-> "none"]

Init ==
  /\ entries = [i \in Pool |-> None]
  /\ dcbaa = [s \in Slots |-> 0]
  /\ hc = [s \in Slots |-> [st |-> "free", ctx |-> 0]]
  /\ late = << >>
  /\ world \in Worlds
  /\ \E now \in SUBSET (1 .. MaxPorts) : plugged = {p \in now : <<p>> \in DOMAIN world}
  /\ open = {} /\ stuck = {}
  /\ scan = [phase |-> "settle", port |-> 1, hubs |-> << >>, hub_count |-> 0, todo |-> << >>,
             keyboard |-> 0, storage |-> 0, at |-> Idle]
  /\ active = [keyboard |-> 0, storage |-> 0]
  /\ count = [faults |-> 0, rescans |-> 0]

----------------------------------------------------------------------------
(***************************************************************************)
(* The controller: commands in the order they were pushed.                 *)
(***************************************************************************)
FreeSlots(h) == {s \in Slots : h[s].st = "free"}
First(S) == CHOOSE s \in S : \A t \in S : s <= t

Ran(h, c) ==
  CASE c.op = "enable" -> IF FreeSlots(h) = {} THEN h
                          ELSE [h EXCEPT ![First(FreeSlots(h))] = [st |-> "enabled", ctx |-> 0]]
    [] c.op = "address" -> [h EXCEPT ![c.slot] = [st |-> "addressed", ctx |-> dcbaa[c.slot]]]
    [] c.op = "disable" -> [h EXCEPT ![c.slot] = [st |-> "free", ctx |-> 0]]

\* An answered command has been run, and all that were given up on before it.
Caught == FoldLeft(Ran, hc, late)

\* The device an Address Device reaches stops answering at address 0.
Addressed(c) == IF c.op = "address" THEN {c.place} ELSE {}
AddressedLate == UNION {Addressed(late[i]) : i \in 1 .. Len(late)}

Fault == count.faults < MaxFaults /\ count' = [count EXCEPT !.faults = @ + 1]

\* push_command and wait_command_completion: the command runs; or it is
\* refused; or nothing comes in time, and it may be run later.
Runs(c) ==
  /\ hc' = Ran(Caught, c) /\ late' = << >>
  /\ open' = open \ (AddressedLate \cup Addressed(c))
  /\ UNCHANGED count
Refuses ==
  /\ Fault
  /\ hc' = Caught /\ late' = << >> /\ open' = open \ AddressedLate
TimesOut(c) ==
  /\ Fault
  /\ late' = Append(late, c)
  /\ UNCHANGED <<hc, open>>

RunLate ==
  /\ late # << >>
  /\ hc' = Ran(hc, late[1])
  /\ open' = open \ Addressed(late[1])
  /\ late' = Tail(late)
  /\ UNCHANGED <<entries, dcbaa, world, plugged, stuck, scan, active, count>>

\* A root port's device is plugged in after the scan passed it.
Plug(p) ==
  /\ p \notin plugged /\ <<p>> \in DOMAIN world
  /\ plugged' = plugged \cup {p}
  /\ UNCHANGED <<entries, dcbaa, hc, late, world, open, stuck, scan, active, count>>

----------------------------------------------------------------------------
(***************************************************************************)
(* Setting up the device at one place: setup_device_on_port (a root port)  *)
(* or reset_hub_port, then address_and_classify, then Scan::note.          *)
(***************************************************************************)
At(step) == [scan EXCEPT !.at.step = step]
AtClass(class) == [scan EXCEPT !.at.step = "note", !.at.class = class]
Place == scan.at.place
Entry == scan.at.entry

free_entries == {i \in Pool : entries[i] = None}
free_entry == First(free_entries)

Begins(p) == [step |-> "reset", place |-> p, entry |-> free_entry, class |-> "none"]

\* The port is reset: the device answers at address 0.
ResetPort ==
  /\ scan.at.step = "reset"
  /\ open' = open \cup {Place}
  /\ scan' = At("enable")
  /\ UNCHANGED <<entries, dcbaa, hc, late, world, plugged, stuck, active, count>>

\* It fails: a root port was not enabled, a hub's may have been.
ResetFails ==
  /\ scan.at.step = "reset" /\ Fault
  /\ IF IsRoot(Place) THEN scan' = At("release") /\ UNCHANGED open
     ELSE scan' = At("unreset") /\ open' \in {open, open \cup {Place}}
  /\ UNCHANGED <<entries, dcbaa, hc, late, world, plugged, stuck, active>>

EnableSlot ==
  /\ scan.at.step = "enable" /\ FreeSlots(Caught) # {}
  /\ \E s \in {First(FreeSlots(Caught))} :
       /\ dcbaa' = [dcbaa EXCEPT ![s] = Entry]
       /\ entries' = [entries EXCEPT ![Entry] = [place |-> Place, slot |-> s]]
  /\ Runs([op |-> "enable"])
  /\ scan' = At("address")
  /\ UNCHANGED <<world, plugged, stuck, active>>

\* The failure's way out: a hub's port is disabled before the entry goes.
Aborted == IF IsRoot(Place) THEN At("release") ELSE At("disable")

EnableFails ==
  /\ scan.at.step = "enable"
  /\ Refuses \/ TimesOut([op |-> "enable"])
  /\ scan' = Aborted
  /\ UNCHANGED <<entries, dcbaa, world, plugged, stuck, active>>

AddressDevice ==
  /\ scan.at.step = "address"
  /\ Runs([op |-> "address", slot |-> entries[Entry].slot, place |-> Place])
  /\ scan' = At("read")
  /\ UNCHANGED <<entries, dcbaa, world, plugged, stuck, active>>
AddressFails ==
  /\ scan.at.step = "address"
  /\ Refuses \/ TimesOut([op |-> "address", slot |-> entries[Entry].slot, place |-> Place])
  /\ scan' = Aborted
  /\ UNCHANGED <<entries, dcbaa, world, plugged, stuck, active>>

\* The descriptors (and a full-speed device's packet size) are read: what is
\* it?  A keyboard interface before a disk's.
ReadDescriptors ==
  /\ scan.at.step = "read"
  /\ scan' = AtClass(Kind(Place))
  /\ UNCHANGED <<entries, dcbaa, hc, late, world, plugged, open, stuck, active, count>>
ReadFails ==
  /\ scan.at.step = "read" /\ Fault
  /\ scan' = Aborted
  /\ UNCHANGED <<entries, dcbaa, hc, late, world, plugged, open, stuck, active>>

\* disable_hub_port, best effort; after a failed reset there is no entry to
\* give back.
Disabled(then, works) ==
  /\ IF works THEN open' = open \ {Place} /\ UNCHANGED <<stuck, count>>
     ELSE stuck' = stuck \cup {Place} /\ Fault /\ UNCHANGED open
  /\ scan' = then
  /\ UNCHANGED <<entries, dcbaa, hc, late, world, plugged, active>>
Onward == [scan EXCEPT !.at = Idle]
disable_hub_port(works) ==
  \/ scan.at.step = "unreset" /\ Disabled(Onward, works)
  \/ scan.at.step = "disable" /\ Disabled(At("release"), works)

\* What stays of an entry whose Disable Slot failed: its place, so that the
\* port is not tried again, and no slot.
Kept(p) == Tombstone(p)

\* release_slot, from Scan::note and from the rescan.
ReleaseFree ==
  /\ scan.at.step = "release" /\ entries[Entry].slot = 0
  /\ entries' = [entries EXCEPT ![Entry] = None]
  /\ scan' = Onward
  /\ UNCHANGED <<dcbaa, hc, late, world, plugged, open, stuck, active, count>>
ReleaseSlot ==
  /\ scan.at.step = "release" /\ entries[Entry].slot # 0
  /\ Runs([op |-> "disable", slot |-> entries[Entry].slot])
  /\ dcbaa' = [dcbaa EXCEPT ![entries[Entry].slot] = 0]
  /\ entries' = [entries EXCEPT ![Entry] = None]
  /\ scan' = Onward
  /\ UNCHANGED <<world, plugged, stuck, active>>
ReleaseFails ==
  /\ scan.at.step = "release" /\ entries[Entry].slot # 0
  /\ Refuses \/ TimesOut([op |-> "disable", slot |-> entries[Entry].slot])
  /\ entries' = [entries EXCEPT ![Entry] = Kept(Place)]
  /\ scan' = Onward
  /\ UNCHANGED <<dcbaa, world, plugged, stuck, active>>

\* Scan::note of a device that was set up: the first keyboard and the first
\* disk are candidates, a hub waits its turn if the list has room: hub_count is
\* of every hub the scan has queued, the ones it is done with too.
note ==
  /\ scan.at.step = "note" /\ scan.phase \in {"ports", "hubs"}
  /\ scan' = CASE scan.at.class = "keyboard" /\ scan.keyboard = 0 -> [Onward EXCEPT !.keyboard = Entry]
               [] scan.at.class = "storage" /\ scan.storage = 0 -> [Onward EXCEPT !.storage = Entry]
               [] scan.at.class = "hub" /\ scan.hub_count < MAX_DEVICES ->
                    [Onward EXCEPT !.hubs = Append(@, Entry), !.hub_count = @ + 1]
               [] OTHER -> Onward
  /\ UNCHANGED <<entries, dcbaa, hc, late, world, plugged, open, stuck, active, count>>

----------------------------------------------------------------------------
(***************************************************************************)
(* init_inner: the ports, then the hubs as they were found, one port at a  *)
(* time, then the activations.                                             *)
(***************************************************************************)
Quiet == scan.at.step = "none"

\* The wait for the first connection ends, with one or with none.
Settle ==
  /\ scan.phase = "settle"
  /\ scan' = [scan EXCEPT !.phase = IF plugged = {} THEN "failed" ELSE "ports"]
  /\ UNCHANGED <<entries, dcbaa, hc, late, world, plugged, open, stuck, active, count>>

\* A port with nothing on it, or with no entry left for it, is passed by.
RootPort ==
  /\ scan.phase = "ports" /\ Quiet
  /\ \E p \in {scan.port} :
       scan' = IF p > MaxPorts THEN [scan EXCEPT !.phase = "hubs"]
               ELSE IF p \notin plugged \/ free_entries = {} THEN [scan EXCEPT !.port = p + 1]
               ELSE [scan EXCEPT !.port = p + 1, !.at = Begins(<<p>>)]
  /\ UNCHANGED <<entries, dcbaa, hc, late, world, plugged, open, stuck, active, count>>

\* configure_hub: its ports are powered and those with a device are noted,
\* but for the ones whose status could not be read.
Before(p, q) == p[Len(p)] < q[Len(q)]
HubPlaces(h) == {Append(h, i) : i \in 1 .. HubPorts} \cap DOMAIN world
configure_hub ==
  /\ scan.phase = "hubs" /\ Quiet /\ scan.todo = << >> /\ scan.hubs # << >>
  /\ \E found \in SUBSET HubPlaces(entries[Head(scan.hubs)].place) :
       /\ IF found = HubPlaces(entries[Head(scan.hubs)].place) THEN UNCHANGED count ELSE Fault
       /\ scan' = [scan EXCEPT !.hubs = Tail(@), !.todo = SetToSortSeq(found, Before)]
  /\ UNCHANGED <<entries, dcbaa, hc, late, world, plugged, open, stuck, active>>
ConfigureFails ==
  /\ scan.phase = "hubs" /\ Quiet /\ scan.todo = << >> /\ scan.hubs # << >>
  /\ Fault
  /\ scan' = [scan EXCEPT !.hubs = Tail(@),
                !.at = [Idle EXCEPT !.step = "release", !.entry = Head(scan.hubs),
                                    !.place = entries[Head(scan.hubs)].place]]
  /\ UNCHANGED <<entries, dcbaa, hc, late, world, plugged, open, stuck, active>>

\* One port of the hub; too deep, or no entry left, and it is passed by.
HubPort ==
  /\ scan.phase = "hubs" /\ Quiet /\ scan.todo # << >>
  /\ \E p \in {Head(scan.todo)} :
       scan' = [scan EXCEPT !.todo = Tail(@),
                  !.at = IF Len(p) - 1 > MaxTier \/ free_entries = {} THEN Idle ELSE Begins(p)]
  /\ UNCHANGED <<entries, dcbaa, hc, late, world, plugged, open, stuck, active, count>>

HubsDone ==
  /\ scan.phase = "hubs" /\ Quiet /\ scan.todo = << >> /\ scan.hubs = << >>
  /\ scan' = [scan EXCEPT !.phase = "activate"]
  /\ UNCHANGED <<entries, dcbaa, hc, late, world, plugged, open, stuck, active, count>>

\* activate_storage and activate_keyboard; the keyboard's state is there
\* before its endpoint is, so it stays when the controller refuses.  The
\* driver is kept for a keyboard or a disk, and dropped without either.
activate_keyboard(works) == IF works = "no" THEN 0 ELSE scan.keyboard
activate_storage(entry, works) == IF works THEN entry ELSE 0
Activate(works) ==
  /\ scan.phase = "activate"
  /\ active' = [keyboard |-> activate_keyboard(works.keyboard),
                storage |-> activate_storage(scan.storage, works.storage)]
  /\ IF works = [keyboard |-> "yes", storage |-> TRUE] THEN UNCHANGED count ELSE Fault
  /\ scan' = [scan EXCEPT !.phase =
       IF (scan.keyboard # 0 /\ works.keyboard = "yes") \/ active'.storage # 0 THEN "up" ELSE "failed"]
  /\ UNCHANGED <<entries, dcbaa, hc, late, world, plugged, open, stuck>>

\* rescan_ports, for `mount -a`: a port some entry has is passed by, a hub's
\* devices by their root port; a full pool ends it.
Owned(p) == \E i \in Pool : entries[i] # None /\ entries[i].place[1] = p

Rescan ==
  /\ scan.phase = "up" /\ count.rescans < MaxRescans
  /\ count' = [count EXCEPT !.rescans = @ + 1]
  /\ scan' = [scan EXCEPT !.phase = "rescan", !.port = 1]
  /\ UNCHANGED <<entries, dcbaa, hc, late, world, plugged, open, stuck, active>>
RescanPort ==
  /\ scan.phase = "rescan" /\ Quiet
  /\ \E p \in {scan.port} :
       scan' = IF p > MaxPorts THEN [scan EXCEPT !.phase = "up"]
               ELSE IF p \notin plugged \/ Owned(p) THEN [scan EXCEPT !.port = p + 1]
               ELSE IF free_entries = {} THEN [scan EXCEPT !.phase = "up"]
               ELSE [scan EXCEPT !.port = p + 1, !.at = Begins(<<p>>)]
  /\ UNCHANGED <<entries, dcbaa, hc, late, world, plugged, open, stuck, active, count>>

\* What it found: the first disk is activated, nothing else is used.
RescanFinds(works) ==
  /\ scan.phase = "rescan" /\ scan.at.step = "note"
  /\ active' = IF scan.at.class = "storage" /\ active.storage = 0
               THEN [active EXCEPT !.storage = activate_storage(Entry, works)] ELSE active
  /\ IF works THEN UNCHANGED count ELSE Fault
  /\ scan' = Onward
  /\ UNCHANGED <<entries, dcbaa, hc, late, world, plugged, open, stuck>>

Next ==
  \/ RunLate \/ \E p \in 1 .. MaxPorts : Plug(p)
  \/ ResetPort \/ ResetFails \/ EnableSlot \/ EnableFails \/ AddressDevice \/ AddressFails
  \/ ReadDescriptors \/ ReadFails
  \/ \E works \in BOOLEAN : disable_hub_port(works) \/ RescanFinds(works)
  \/ ReleaseFree \/ ReleaseSlot \/ ReleaseFails \/ note
  \/ Settle \/ RootPort \/ configure_hub \/ ConfigureFails \/ HubPort \/ HubsDone
  \/ \E k \in {"yes", "half", "no"}, s \in BOOLEAN : Activate([keyboard |-> k, storage |-> s])
  \/ Rescan \/ RescanPort
Spec == Init /\ [][Next]_vars

----------------------------------------------------------------------------
\* An entry is empty only while nothing in hardware refers to it: a slot the
\* controller has not freed uses the context of an entry that is taken (a
\* tombstone counts), and no two use the same.
ContextsAreTaken ==
  \A s \in Slots : hc[s].st # "free" /\ hc[s].ctx # 0 =>
    /\ entries[hc[s].ctx] # None
    /\ \A t \in Slots \ {s} : hc[t].ctx # hc[s].ctx

\* A port is set up for one entry only: no rescan resets a port whose device,
\* or the hub above it, some entry still stands for.
PlacesAreApart ==
  \A i, j \in Pool : i # j /\ entries[i] # None => entries[i].place # entries[j].place

\* While a device behind a root port is being given its address, no other
\* device there answers at address 0 (but for a port that would not be
\* disabled).
OneAtAddressZero ==
  scan.at.step = "address" =>
    \A p \in open \ stuck : p[1] = Place[1] => p = Place

\* The keyboard and the disk in use are devices the controller has at the
\* slot their entry names.
ActiveAreLive ==
  \A i \in {active.keyboard, active.storage} \ {0} :
    entries[i].slot # 0 /\ hc[entries[i].slot] = [st |-> "addressed", ctx |-> i]
=============================================================================
