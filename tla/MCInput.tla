------------------------------ MODULE MCInput -------------------------------
(* Input devices: the kernel's keyboard queue fed from both keyboards (a      *)
(* letter, an arrow key, the Escape key and, on the serial line, an interrupt *)
(* and a control key); the USB controller's rings under a disk and a          *)
(* keyboard (Rings); and the set-up of the devices behind its ports (Plugs).  *)
(* A behaviour stays with the part it began with: v1 to v11 are the variables *)
(* of a USB part, and the queue rests meanwhile.                              *)
EXTENDS KeyQueue, TLC

VARIABLES which, v1, v2, v3, v4, v5, v6, v7, v8, v9, v10, v11

usbVars == <<v1, v2, v3, v4, v5, v6, v7, v8, v9, v10, v11>>
allVars == <<which, usbVars, vars>>

SerialKeysMC == {<<"let">>, <<"esc", "bra", "let">>, <<"esc">>, <<"int">>, <<"ctl">>}
UsbKeysMC == {<<"let">>, <<"esc", "oh", "let">>, <<"esc">>}

\* A hub below a hub, a hub and a disk beside it, two root ports in use, and
\* more hubs than a scan expands.
PlWorlds == {
  (<<1>> :> "hub") @@ (<<1, 1>> :> "hub") @@ (<<1, 2>> :> "keyboard") @@ (<<1, 1, 1>> :> "storage"),
  (<<1>> :> "hub") @@ (<<1, 1>> :> "keyboard") @@ (<<1, 2>> :> "storage") @@ (<<2>> :> "storage"),
  (<<1>> :> "keyboard") @@ (<<2>> :> "storage"),
  (<<1>> :> "hub") @@ (<<2>> :> "hub") @@ (<<2, 1>> :> "hub") @@ (<<2, 2>> :> "hub")}

RiBudget(c, t, f, r) == [commands |-> c, timeouts |-> t, faults |-> f, reports |-> r]
RiBudgets == {RiBudget(1, 1, 1, 1), RiBudget(1, 1, 2, 0), RiBudget(2, 1, 1, 0), RiBudget(0, 0, 1, 3)}

Rings == INSTANCE UsbRings WITH
    ring <- v1, events <- v2, drv <- v3, io <- v4, data <- v5, csw <- v6, dev <- v7,
    kb <- v8, queue <- v9, answered <- v10, budget <- v11,
    Keys <- {"a", "home"}, RingLen <- 3, EventLen <- 4, MAX_ATTEMPTS <- 2, PendingLen <- 4,
    Budgets <- RiBudgets
Plugs == INSTANCE UsbDevices WITH
    entries <- v1, dcbaa <- v2, hc <- v3, late <- v4, world <- v5, plugged <- v6, open <- v7,
    stuck <- v8, scan <- v9, active <- v10, count <- v11,
    MAX_DEVICES <- 3, Slots <- 1 .. 4, MaxPorts <- 2, HubPorts <- 2, MaxTier <- 1,
    MaxFaults <- 4, MaxRescans <- 2, Worlds <- PlWorlds

MCInit ==
    /\ Init
    /\ \/ which = "Queue" /\ v1 = 0 /\ v2 = 0 /\ v3 = 0 /\ v4 = 0 /\ v5 = 0 /\ v6 = 0 /\ v7 = 0
          /\ v8 = 0 /\ v9 = 0 /\ v10 = 0 /\ v11 = 0
       \/ which = "Rings" /\ Rings!Init
       \/ which = "Plugs" /\ Plugs!Init
MCNext ==
    /\ which' = which
    /\ \/ which = "Queue" /\ Next /\ UNCHANGED usbVars
       \/ which = "Rings" /\ Rings!Next /\ UNCHANGED vars
       \/ which = "Plugs" /\ Plugs!Next /\ UNCHANGED vars
MCSpec == MCInit /\ [][MCNext]_allVars

\* No part of a key is ever read as a key of its own: not from the kernel's
\* queue (KeyQueue::push_byte, flush, pop), and none is put in part into the
\* USB driver's own pending bytes (process_keyboard_report).
KeysStayWhole ==
    /\ TypeOK /\ WholeKeys
    /\ which = "Rings" => Rings!PendingIsWhole

\* The USB driver and the controller agree, whatever times out, stalls, fails or
\* ends short in between: a ring is a queue of what was published on it, a wait
\* ends with the completion of its own request, the keyboard's endpoint has a
\* buffer as long as it runs, a disk command reported done is the one the disk
\* answered, a read its bytes as far as the disk gave any; a slot's context is
\* never in use twice, two devices never share a place or the default address,
\* and what is active is alive.
UsbIsSound ==
    /\ which = "Rings" =>
         Rings!RingIsAQueue /\ Rings!AnswerIsToThisRequest /\ Rings!KeyboardStaysArmed /\ Rings!DoneIsDone
    /\ which = "Plugs" =>
         Plugs!ContextsAreTaken /\ Plugs!PlacesAreApart /\ Plugs!OneAtAddressZero /\ Plugs!ActiveAreLive
=============================================================================
