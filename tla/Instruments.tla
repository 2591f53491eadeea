---------------------------- MODULE Instruments -----------------------------
(***************************************************************************)
(* The list of instruments (InstrumentDock) and what fills it: the sweep   *)
(* of the local network on the discovery thread (LanDiscoveryWorker), the  *)
(* watch over the USB bus on the GUI thread (UsbDiscoveryWorker), the      *)
(* serial ports, the VISA resources and the addresses typed in.            *)
(*                                                                         *)
(* A descriptor is [kind, address]: what else it carries has no part in    *)
(* what is listed.  The dock tells entries apart by the text of an         *)
(* address, the watch over the bus by everything a device says of itself.  *)
(***************************************************************************)
EXTENDS Integers, Sequences, FiniteSets, SequencesExt

CONSTANTS
  Endpoints,   \* what a sweep probes: every host and port of a subnet
  Speaking,    \* those an instrument answers at
  Concurrency, \* Settings::concurrency
  Devices,     \* USBTMC devices: [bare, full], the address without and with the strings read
  AtStart,     \* what may be on the bus when the program starts: device -> state
  Others,      \* what serial ports, VISA and the operator's input add
  MaxScans,    \* bound: sweeps asked for
  MaxChanges   \* bound: changes on the bus and failures to list it

\* An endpoint is host:port, a device vendor:product[:serial] (UsbTmcTransport.cpp:39).
ASSUME EndpointsAssumption ==
  IsFiniteSet(Endpoints) /\ \A d \in Devices : d.bare \notin Endpoints /\ d.full \notin Endpoints
ASSUME DevicesAssumption ==
  IsFiniteSet(Devices) /\ AtStart \subseteq [Devices -> {"out", "mute", "in"}]
\* Only the watch over the bus lists USB devices.
ASSUME OthersAssumption == \A descriptor \in Others : descriptor.kind # "usbtmc"

VARIABLES
  instruments, \* InstrumentDock::m_instruments, never shortened
  items,       \* the rows of m_tree: [category, address, index]
  button,      \* m_scanButton: "scan" or "abort"
  asking,      \* the dialog that asks for the subnet is open
  life,        \* the dock: "up", "closing" (in its destructor), "gone"
  inbox,       \* signals of the sweep on their way to the GUI thread
  scans,       \* scan() calls queued on the discovery thread
  sweep,       \* scan(): [at, waiting, probing, found, aborted]
  scanning,    \* m_scanning
  abort,       \* m_abortRequested
  bus,         \* the devices on the bus: device -> "out", "mute" (strings unreadable), "in"
  known,       \* UsbDiscoveryWorker::m_known
  watching,    \* m_watching, and the timer runs
  registered,  \* a hotplug callback is registered
  events,      \* libusb holds events not yet dispatched
  rescans,     \* a rescan() is queued
  hidden,      \* addresses the last publications struck although a device has them
  asked, changes

dock == <<instruments, items>>
lan == <<button, asking, inbox, scans, sweep, scanning, abort, asked>>
usb == <<bus, known, watching, registered, events, rescans, hidden, changes>>
vars == <<dock, life, lan, usb>>

-----------------------------------------------------------------------------
(* The tree.  A list is [instruments, items].                              *)

CategoryOf(kind) == IF kind \in {"simulated", "serial", "usbtmc", "visa"} THEN kind ELSE "network"

Listed(list, category) == {i.address : i \in {x \in list.items : x.category = category}}

\* addInstrument(), once for each address: a category lists an address once.
AddedAll(list, kind, addresses) ==
  LET category == CategoryOf(kind)
      new == SetToSeq(addresses \ Listed(list, category))
      n == Len(list.instruments) IN
  [instruments |-> list.instruments \o [k \in DOMAIN new |-> [kind |-> kind, address |-> new[k]]],
   items |-> list.items \cup
     {[category |-> category, address |-> new[k], index |-> n + k] : k \in DOMAIN new}]

Added(list, descriptor) == AddedAll(list, descriptor.kind, {descriptor.address})

\* Mutant: the instruments are taken out of the list as well.
RemovedThroughout(list, addresses) ==
  [instruments |-> SelectSeq(list.instruments, LAMBDA d : d.address \notin addresses),
   items |-> {i \in list.items : i.address \notin addresses}]

\* removeInstrument(), once for each address: the rows go, whatever their category; their
\* numbers are not reused.
Removed(list, addresses) ==
  [list EXCEPT !.items = {i \in @ : i.address \notin addresses}]

Relist(list) == instruments' = list.instruments /\ items' = list.items

List == [instruments |-> instruments, items |-> items]

\* connectSelected(): what the window is asked to connect when a row is selected.
ConnectSelected(item) == instruments[item.index]

-----------------------------------------------------------------------------
(* The USB bus.                                                            *)

\* enumerate(): a device that cannot be opened is listed without its strings.
Enumerated ==
  {IF bus[d] = "in" THEN [address |-> d.full, strings |-> TRUE]
                    ELSE [address |-> d.bare, strings |-> FALSE] : d \in {x \in Devices : bus[x] # "out"}}

Addresses(records) == {r.address : r \in records}

\* Mutant: what was known before is still held to be known.
PublishedKeeping(list, before, now) == AddedAll(list, "usbtmc", Addresses(now \ before))

\* publish(): first the devices that are new, then those that have gone.
Published(list, before, now) ==
  Removed(AddedAll(list, "usbtmc", Addresses(now \ before)), Addresses(before \ now))

\* rescan(): a failure ends the watch.
Rescan(ok) ==
  /\ IF ok
     THEN /\ Relist(Published(List, known, Enumerated)) /\ known' = Enumerated
          /\ hidden' = (Addresses(known \ Enumerated) \cup (hidden \ Addresses(Enumerated \ known)))
                         \cap Addresses(Enumerated)
          /\ UNCHANGED watching
     ELSE watching' = FALSE /\ UNCHANGED <<dock, known, hidden>>
  /\ changes' = IF ok THEN changes ELSE changes + 1
  /\ ok \/ changes < MaxChanges

\* start(), from the dock's constructor: the watch begins even if the first listing failed.
Init ==
  /\ bus \in AtStart
  /\ \E listed \in BOOLEAN :
       LET now == IF listed THEN Enumerated ELSE {}
           list == Added(Published([instruments |-> <<>>, items |-> {}], {}, now),
                         [kind |-> "simulated", address |-> "simulated"]) IN
       known = now /\ instruments = list.instruments /\ items = list.items
  /\ registered \in BOOLEAN /\ watching = TRUE /\ events = FALSE /\ rescans = FALSE
  /\ hidden = {} /\ changes = 0
  /\ button = "scan" /\ asking = FALSE /\ life = "up" /\ inbox = <<>> /\ scans = 0
  /\ sweep = [at |-> "idle", waiting |-> {}, probing |-> {}, found |-> 0, aborted |-> FALSE]
  /\ scanning = FALSE /\ abort = FALSE /\ asked = 0

\* The timer: with a callback it lets libusb dispatch, without one it lists the bus.
TimerDispatches ==
  /\ life = "up" /\ watching /\ registered /\ events
  /\ events' = FALSE /\ rescans' = TRUE
  /\ UNCHANGED <<dock, life, lan, bus, known, watching, registered, hidden, changes>>

TimerPolls(ok) ==
  /\ life = "up" /\ watching /\ ~registered
  /\ Rescan(ok)
  /\ UNCHANGED <<life, lan, bus, registered, events, rescans>>

\* The rescan() that the callback queued.
QueuedRescan(ok) ==
  /\ life = "up" /\ rescans /\ rescans' = FALSE
  /\ Rescan(ok)
  /\ UNCHANGED <<life, lan, bus, registered, events>>

\* A device arrives, leaves, or becomes readable; only the first two are events.
BusChanges(d, state) ==
  /\ changes < MaxChanges /\ bus[d] # state
  /\ bus' = [bus EXCEPT ![d] = state] /\ changes' = changes + 1
  /\ events' = (events \/ "out" \in {bus[d], state})
  /\ UNCHANGED <<dock, life, lan, known, watching, registered, rescans, hidden>>

-----------------------------------------------------------------------------
(* Serial ports, VISA, manual addresses.                                   *)

Add(descriptor) ==
  /\ life = "up" /\ ~asking
  /\ Relist(Added(List, descriptor))
  /\ UNCHANGED <<life, lan, usb>>

-----------------------------------------------------------------------------
(* The sweep of the network, as the GUI thread sees it.                    *)

\* startLanScan(): a second press aborts, if the sweep has begun by then.
PressScan ==
  /\ life = "up" /\ ~asking
  /\ IF scanning THEN abort' = TRUE /\ UNCHANGED asking
                 ELSE asking' = TRUE /\ UNCHANGED abort
  /\ UNCHANGED <<dock, life, button, inbox, scans, sweep, scanning, asked, usb>>

AcceptScan ==
  /\ asking /\ asked < MaxScans
  /\ asking' = FALSE /\ button' = "abort" /\ scans' = scans + 1 /\ asked' = asked + 1
  /\ UNCHANGED <<dock, life, inbox, sweep, scanning, abort, usb>>

DeclineScan ==
  /\ asking /\ asking' = FALSE
  /\ UNCHANGED <<dock, life, button, inbox, scans, sweep, scanning, abort, asked, usb>>

\* onInstrumentFound(), onScanFinished().
Deliver ==
  /\ life = "up" /\ inbox # <<>> /\ inbox' = Tail(inbox)
  /\ IF Head(inbox).signal = "found"
     THEN Relist(Added(List, Head(inbox).descriptor)) /\ UNCHANGED button
     ELSE button' = "scan" /\ UNCHANGED dock
  /\ UNCHANGED <<life, asking, scans, sweep, scanning, abort, asked, usb>>

\* ~InstrumentDock(): abort, quit, wait.
Close ==
  /\ life = "up" /\ ~asking
  /\ life' = "closing" /\ abort' = TRUE
  /\ UNCHANGED <<dock, button, asking, inbox, scans, sweep, scanning, asked, usb>>

\* The event loop ends after the events it has begun with, or before them.
ThreadEnds ==
  /\ life = "closing" /\ sweep.at = "idle"
  /\ life' = "gone"
  /\ UNCHANGED <<dock, lan, usb>>

-----------------------------------------------------------------------------
(* The sweep itself: scan() on the discovery thread and its pool.          *)

Tell(message) == inbox' = Append(inbox, message)

ScanBegins ==
  /\ life # "gone" /\ scans > 0 /\ sweep.at = "idle"
  /\ scans' = scans - 1 /\ scanning' = TRUE
  /\ sweep' = IF scanning THEN sweep ELSE [sweep EXCEPT !.at = "clearing"]
  /\ UNCHANGED <<dock, life, button, asking, inbox, abort, asked, usb>>

\* m_abortRequested.store(false): an abort that came before is lost.
ScanClearsAbort ==
  /\ sweep.at = "clearing"
  /\ abort' = FALSE
  /\ sweep' = [sweep EXCEPT !.at = "sweeping", !.waiting = Endpoints, !.found = 0]
  /\ UNCHANGED <<dock, life, button, asking, inbox, scans, scanning, asked, usb>>

\* A thread of the pool takes a probe; after an abort it does nothing.
ProbeBegins(e) ==
  /\ e \in sweep.waiting /\ Cardinality(sweep.probing) < Concurrency
  /\ sweep' = [sweep EXCEPT !.waiting = @ \ {e}, !.probing = IF abort THEN @ ELSE @ \cup {e}]
  /\ UNCHANGED <<dock, life, button, asking, inbox, scans, scanning, abort, asked, usb>>

\* identifyEndpoint() over a TCP connection: an answer, or none in time.
ProbeEnds(e, answered) ==
  /\ e \in sweep.probing /\ (answered => e \in Speaking)
  /\ sweep' = [sweep EXCEPT !.probing = @ \ {e}, !.found = IF answered THEN @ + 1 ELSE @]
  /\ IF answered THEN Tell([signal |-> "found", descriptor |-> [kind |-> "tcp", address |-> e]])
                 ELSE UNCHANGED inbox
  /\ UNCHANGED <<dock, life, button, asking, scans, scanning, abort, asked, usb>>

\* pool.clear(): what no thread has taken is dropped.
PoolCleared ==
  /\ sweep.at = "sweeping" /\ abort /\ sweep.waiting # {}
  /\ sweep' = [sweep EXCEPT !.waiting = {}]
  /\ UNCHANGED <<dock, life, button, asking, inbox, scans, scanning, abort, asked, usb>>

\* Mutant: after an abort the probes that still run are not waited for.
PoolCutShort == sweep.waiting = {} /\ (abort \/ sweep.probing = {})

\* waitForDone(): no probe waits and none runs.
PoolDone == sweep.waiting = {} /\ sweep.probing = {}

SweepDone ==
  /\ sweep.at = "sweeping" /\ PoolDone
  /\ sweep' = [sweep EXCEPT !.at = "done", !.aborted = abort]
  /\ UNCHANGED <<dock, life, button, asking, inbox, scans, scanning, abort, asked, usb>>

\* Mutant: the flag stays set.
ScanFinishesScanning ==
  /\ sweep.at = "done"
  /\ Tell([signal |-> "finished", found |-> sweep.found, aborted |-> sweep.aborted])
  /\ sweep' = [sweep EXCEPT !.at = "idle"]
  /\ UNCHANGED <<dock, life, button, asking, scans, scanning, abort, asked, usb>>

ScanFinishes ==
  /\ sweep.at = "done"
  /\ scanning' = FALSE
  /\ Tell([signal |-> "finished", found |-> sweep.found, aborted |-> sweep.aborted])
  /\ sweep' = [sweep EXCEPT !.at = "idle"]
  /\ UNCHANGED <<dock, life, button, asking, scans, abort, asked, usb>>

-----------------------------------------------------------------------------
Worker ==
  \/ ScanBegins \/ ScanClearsAbort \/ PoolCleared \/ SweepDone \/ ScanFinishes \/ ThreadEnds
  \/ \E e \in Endpoints : ProbeBegins(e) \/ \E answered \in BOOLEAN : ProbeEnds(e, answered)

Bus == \E d \in Devices, state \in {"out", "mute", "in"} : BusChanges(d, state)

Next ==
  \/ PressScan \/ AcceptScan \/ DeclineScan \/ Deliver \/ Close \/ TimerDispatches
  \/ \E ok \in BOOLEAN : TimerPolls(ok) \/ QueuedRescan(ok)
  \/ \E descriptor \in Others : Add(descriptor)
  \/ Worker \/ Bus

\* The discovery thread and its pool run on, every probe has a timeout, and the GUI
\* thread delivers what it is sent.
Spec == Init /\ [][Next]_vars /\ WF_vars(Worker) /\ WF_vars(Deliver)

-----------------------------------------------------------------------------
(* Properties.                                                             *)

\* Rows come and go, from three sources at once, while the instruments they number stay:
\* the row that is selected must be the instrument that is connected.
SelectedIsConnected ==
  \A item \in items :
    /\ item.index \in DOMAIN instruments
    /\ ConnectSelected(item).address = item.address
    /\ CategoryOf(ConnectSelected(item).kind) = item.category

\* When the sweep reports its end, aborted or not, no instrument it found is still to
\* come: the count it gives is that of the rows the operator has been shown.
FoundBeforeFinished ==
  \A n \in DOMAIN inbox :
    inbox[n].signal = "finished" =>
      /\ inbox[n].found <= Cardinality({i \in items : i.category = "network"})
                           + Cardinality({m \in 1..(n - 1) : inbox[m].signal = "found"})
      /\ \A m \in DOMAIN inbox : m > n /\ inbox[m].signal = "found" =>
           sweep.at # "idle" \/ \E k \in DOMAIN inbox : k > m /\ inbox[k].signal = "finished"

\* After every listing of the bus the rows are the devices that are there, whatever
\* arrived, left or was replaced since the last one.  One case escapes: a device whose
\* strings become readable, or one of two with the same address, is struck as lost
\* after it was found, and comes back only when it is plugged in again.
RowsFollowBus ==
  Listed(List, "usbtmc") = Addresses(known) \ hidden

\* The button that aborts a sweep always turns back into the one that begins one.
ButtonComesBack == button = "abort" ~> (button = "scan" \/ life # "up")

=============================================================================
