------------------------------ MODULE Registry ------------------------------
(***************************************************************************)
(* The routing table of one relay (src/src/registry.rs) together with the  *)
(* tunnel tasks that write it (src/src/tunnel/session.rs).                 *)
(*                                                                         *)
(* Every accepted WebSocket is a task running `run`.  The table is guarded *)
(* by one mutex, so each lock-to-unlock section is one step; taking a      *)
(* sequence number and publishing a change happen outside the lock and are *)
(* steps of their own, because other tasks run between them.  Applying a   *)
(* snapshot takes the lock once per device.                                *)
(*                                                                         *)
(* A slot of Sessions stands for the tunnels a device opens one after the  *)
(* other; two slots of one device are two tunnels that may overlap.        *)
(***************************************************************************)
EXTENDS Integers, Sequences, FiniteSets

CONSTANTS
    Desktops,       \* ids of devices that are destinations
    Links,          \* ids of devices of kind relay: the downstream links
    RelayIds,       \* relay ids, as they appear in via chains
    Self,           \* this relay's own id
    Vias,           \* the via chains a downstream relay may announce
    Sessions,       \* slots for tunnels
    SessionDevice,  \* the device each slot's tunnels authenticate as
    MAX_HOPS,       \* the hop budget of a stream preface
    None,           \* "no such id"
    MaxSequence     \* bound on the sequence counter

Ids == Desktops \cup Links

ASSUME RegistryAssumption ==
    /\ Desktops \cap Links = {}
    /\ None \notin Ids
    /\ Self \in RelayIds
    /\ None \notin RelayIds
    /\ Vias \subseteq Seq(RelayIds)
    /\ <<>> \notin Vias
    /\ SessionDevice \in [Sessions -> Ids]
    /\ MAX_HOPS \in Nat
    /\ MaxSequence \in Nat

VARIABLES
    entries,      \* RegistryState.entries
    relay_links,  \* RegistryState.relay_links: relay id -> link device id
    withdrawn,    \* RegistryState.withdrawn: device -> the link that withdrew it
    sequence,     \* Registry.sequence
    phase,        \* how far each tunnel task has come
    serial,       \* Registration.serial; it also identifies the tunnel's handle
    displaced,    \* Registration.displaced, until the task has closed it
    told,         \* handles some other task has called close() on
    pend,         \* announcements of the frame being handled, not yet applied
    stale,        \* announced ids still to be withdrawn by the frame being handled
    item,         \* the announcement that holds a sequence number but not the lock
    ticket,       \* that sequence number
    out,          \* changes computed under the lock, not yet published
    claims        \* what each tunnel's peer currently says is online behind it

tableVars   == <<entries, relay_links, withdrawn>>
handlerVars == <<pend, stale, item, ticket>>
vars == <<tableVars, sequence, phase, serial, displaced, told, handlerVars, out, claims>>

-----------------------------------------------------------------------------
(* Data: the table's entries, and the changes it publishes.                *)

Origins == {"none", "direct", "announced"}

\* `handle` is the serial of the tunnel a stream is opened on (Route::link).
Entry == [origin : Origins, link : Ids \cup {None}, handle : Nat,
          hops : Seq(RelayIds), sequence : Nat]

NoEntry == [origin |-> "none", link |-> None, handle |-> 0, hops |-> <<>>, sequence |-> 0]

DirectEntry(i, n) ==
    [origin |-> "direct", link |-> i, handle |-> n, hops |-> <<>>, sequence |-> n]

AnnouncedEntry(l, h, via, n) ==
    [origin |-> "announced", link |-> l, handle |-> h, hops |-> via, sequence |-> n]

\* A change to the empty chain is RegistryChange::Offline.
Change == [id : Desktops, via : Seq(RelayIds)]

Phases == {"idle", "accepted", "ticketed", "registered", "open", "closing", "leaving"}

\* A tunnel is live from its connect() to its disconnect().
Live(s) == phase[s] \in {"registered", "open", "closing"}

\* The device's entry is this very tunnel.
Listed(s) == /\ entries[SessionDevice[s]].origin = "direct"
             /\ entries[SessionDevice[s]].handle = serial[s]

\* The task has finished the frame it was handling.
FrameDone(s) == /\ pend[s] = [d \in Desktops |-> <<>>]
                /\ stale[s] = {}
                /\ item[s] = None
                /\ out[s] = {}

-----------------------------------------------------------------------------
(* The table's own helpers.                                                *)

\* Mutated: downstream links are announced upward like desktops.
announcement_of_links_too(i, e) == IF e.origin = "none" THEN <<>> ELSE <<Self>> \o e.hops

\* The chain an entry is announced over, or <<>>: a link reached directly is a hop, not a destination.
announcement_of(i, e) ==
    IF e.origin = "announced" \/ (e.origin = "direct" /\ i \in Desktops) THEN <<Self>> \o e.hops ELSE <<>>

\* Mutated: a device that goes away is not published.
transition_online_only(i, previous, current) ==
    IF announcement_of(i, current) = <<>> THEN {} ELSE {[id |-> i, via |-> announcement_of(i, current)]}

\* The change to publish: what the device is now, or that it is gone.
transition(i, previous, current) ==
    IF announcement_of(i, current) = <<>> /\ announcement_of(i, previous) = <<>> THEN {}
    ELSE {[id |-> i, via |-> announcement_of(i, current)]}

is_announcement_routable(via) ==
    Len(via) < MAX_HOPS /\ \A k \in 1..Len(via) : via[k] # Self

replaces(existing, via, n) ==
    /\ existing.origin # "direct"
    /\ \/ Len(via) < Len(existing.hops)
       \/ Len(via) = Len(existing.hops) /\ n > existing.sequence

\* Mutated: the owner of a route is compared the wrong way round.
announced_ids_of_others(l) ==
    {d \in Desktops : entries[d].origin = "announced" /\ entries[d].link # l}

\* The devices one downstream link is currently the source of.
announced_ids_of(l) ==
    {d \in Desktops : entries[d].origin = "announced" /\ entries[d].link = l}

\* Mutated: the tunnel's own entry stays; the link's announcements stay.
gone_without_own(i) == announced_ids_of(i)
gone_without_announced(i) == {i}

\* What disconnect() removes from the table.
gone_ids(i) == {i} \cup announced_ids_of(i)

\* Mutated: the two indexes keep what the link left in them.
relay_links_kept(i) == relay_links
withdrawn_kept(i) == withdrawn

\* What disconnect() retains of the two indexes beside the entries.
relay_links_without(i) ==
    [r \in RelayIds |-> IF relay_links[r] = i THEN None ELSE relay_links[r]]
withdrawn_without(i) ==
    [d \in Desktops |-> IF withdrawn[d] = i THEN None ELSE withdrawn[d]]

\* Mutated: the table is read after the new entry is in it; the serial is not compared.
displaced_after_insert(s) == {serial[s]}
is_registered_device(s) == entries[SessionDevice[s]].origin = "direct"

\* Only a displaced direct tunnel has to be closed.
displaced_by(s) ==
    LET previous == entries[SessionDevice[s]]
    IN  IF previous.origin = "direct" THEN {previous.handle} ELSE {}

\* disconnect() checks that the tunnel is still the registered one.
is_registered(s) == Listed(s)

-----------------------------------------------------------------------------
Init ==
    /\ entries = [i \in Ids |-> NoEntry]
    /\ relay_links = [r \in RelayIds |-> None]
    /\ withdrawn = [d \in Desktops |-> None]
    /\ sequence = 0
    /\ phase = [s \in Sessions |-> "idle"]
    /\ serial = [s \in Sessions |-> 0]
    /\ displaced = [s \in Sessions |-> {}]
    /\ told = {}
    /\ pend = [s \in Sessions |-> [d \in Desktops |-> <<>>]]
    /\ stale = [s \in Sessions |-> {}]
    /\ item = [s \in Sessions |-> None]
    /\ ticket = [s \in Sessions |-> 0]
    /\ out = [s \in Sessions |-> {}]
    /\ claims = [s \in Sessions |-> {}]

-----------------------------------------------------------------------------
(* A tunnel task, from the accepted hello to its clean-up.                 *)

\* accept_hello() answered Some; the writer and the multiplexer are spawned.
AcceptHello(s) ==
    /\ phase[s] = "idle"
    /\ phase' = [phase EXCEPT ![s] = "accepted"]
    /\ UNCHANGED <<tableVars, sequence, serial, displaced, told, handlerVars, out, claims>>

\* connect() takes its serial before it takes the lock.
TakeSerial(s) ==
    /\ phase[s] = "accepted"
    /\ sequence < MaxSequence
    /\ serial' = [serial EXCEPT ![s] = sequence]
    /\ sequence' = sequence + 1
    /\ phase' = [phase EXCEPT ![s] = "ticketed"]
    /\ UNCHANGED <<tableVars, displaced, told, handlerVars, out, claims>>

\* connect() under the lock.  r is the relay id the hello declared, or None.
Connect(s, r) ==
    LET i == SessionDevice[s]
        new == DirectEntry(i, serial[s])
    IN  /\ phase[s] = "ticketed"
        /\ i \in Desktops => r = None
        /\ relay_links' = IF r = None THEN relay_links ELSE [relay_links EXCEPT ![r] = i]
        /\ withdrawn' = [d \in Desktops |-> IF d = i THEN None ELSE withdrawn[d]]
        /\ entries' = [entries EXCEPT ![i] = new]
        /\ out' = [out EXCEPT ![s] = transition(i, entries[i], new)]
        /\ displaced' = [displaced EXCEPT ![s] = displaced_by(s)]
        /\ phase' = [phase EXCEPT ![s] = "registered"]
        /\ UNCHANGED <<sequence, serial, told, handlerVars, claims>>

\* `run` closes the tunnel it displaced and starts reading frames.
CloseDisplaced(s) ==
    /\ phase[s] = "registered"
    /\ out[s] = {}
    /\ told' = told \cup displaced[s]
    /\ displaced' = [displaced EXCEPT ![s] = {}]
    /\ phase' = [phase EXCEPT ![s] = "open"]
    /\ UNCHANGED <<tableVars, sequence, serial, handlerVars, out, claims>>

\* read_frames() returns: the peer closed, fell silent or failed, or the writer was told to stop.
EndRead(s) ==
    /\ phase[s] = "open"
    /\ FrameDone(s)
    /\ phase' = [phase EXCEPT ![s] = "closing"]
    /\ UNCHANGED <<tableVars, sequence, serial, displaced, told, handlerVars, out, claims>>

\* disconnect() of the registered tunnel: the link, and everything that came through it, goes.
DisconnectListed(s) ==
    LET i == SessionDevice[s]
    IN  /\ is_registered(s)
        /\ relay_links' = relay_links_without(i)
        /\ withdrawn' = withdrawn_without(i)
        /\ entries' = [j \in Ids |-> IF j \in gone_ids(i) THEN NoEntry ELSE entries[j]]
        /\ out' = [out EXCEPT ![s] = UNION {transition(j, entries[j], NoEntry) : j \in gone_ids(i)}]

\* disconnect() of a tunnel that is no longer the registered one changes nothing.
DisconnectSuperseded(s) ==
    /\ ~ is_registered(s)
    /\ UNCHANGED <<tableVars, out>>

\* Clean-up after the read loop: the writer has ended, then disconnect() runs.
Disconnect(s) ==
    /\ phase[s] = "closing"
    /\ DisconnectListed(s) \/ DisconnectSuperseded(s)
    /\ phase' = [phase EXCEPT ![s] = "leaving"]
    /\ UNCHANGED <<sequence, serial, displaced, told, handlerVars, claims>>

\* The task returns; its peer's claims go with the WebSocket.
Leave(s) ==
    /\ phase[s] = "leaving"
    /\ out[s] = {}
    /\ phase' = [phase EXCEPT ![s] = "idle"]
    /\ claims' = [claims EXCEPT ![s] = {}]
    /\ UNCHANGED <<tableVars, sequence, serial, displaced, told, handlerVars, out>>

\* publish(): the changes leave one by one, with the lock long released.
Publish(s) ==
    \E c \in out[s] :
        /\ out' = [out EXCEPT ![s] = @ \ {c}]
        /\ UNCHANGED <<tableVars, sequence, phase, serial, displaced, told, handlerVars, claims>>

-----------------------------------------------------------------------------
(* Control frames of a downstream relay (handle_control_frame).            *)

\* The read loop is ready for the next frame, and the peer may speak for other devices.
ReadsFrame(s) == phase[s] = "open" /\ SessionDevice[s] \in Links /\ FrameDone(s)

\* Announce: a full snapshot.  A device mapped to <<>> is absent, or present and not online.
ReceiveAnnounce(s, snapshot) ==
    /\ ReadsFrame(s)
    /\ pend' = [pend EXCEPT ![s] = snapshot]
    /\ stale' = [stale EXCEPT ![s] = announced_ids_of(SessionDevice[s])]
    /\ claims' = [claims EXCEPT ![s] = {d \in Desktops : snapshot[d] # <<>>}]
    /\ UNCHANGED <<tableVars, sequence, phase, serial, displaced, told, item, ticket, out>>

ReceiveDeviceOnline(s, d, via) ==
    /\ ReadsFrame(s)
    /\ pend' = [pend EXCEPT ![s] = [@ EXCEPT ![d] = via]]
    /\ claims' = [claims EXCEPT ![s] = @ \cup {d}]
    /\ UNCHANGED <<tableVars, sequence, phase, serial, displaced, told, stale, item, ticket, out>>

ReceiveDeviceOffline(s, d) ==
    /\ ReadsFrame(s)
    /\ stale' = [stale EXCEPT ![s] = {d}]
    /\ claims' = [claims EXCEPT ![s] = @ \ {d}]
    /\ UNCHANGED <<tableVars, sequence, phase, serial, displaced, told, pend, item, ticket, out>>

\* announce_device() returns early: a loop, or a chain too long for a stream.
RejectUnroutable(s, d) ==
    /\ phase[s] = "open"
    /\ item[s] = None
    /\ out[s] = {}
    /\ pend[s][d] # <<>>
    /\ ~ is_announcement_routable(pend[s][d])
    /\ pend' = [pend EXCEPT ![s] = [@ EXCEPT ![d] = <<>>]]
    /\ UNCHANGED <<tableVars, sequence, phase, serial, displaced, told, stale, item, ticket, out, claims>>

\* announce_device() takes its sequence number before it takes the lock.
TakeTicket(s, d) ==
    /\ phase[s] = "open"
    /\ item[s] = None
    /\ out[s] = {}
    /\ pend[s][d] # <<>>
    /\ is_announcement_routable(pend[s][d])
    /\ sequence < MaxSequence
    /\ item' = [item EXCEPT ![s] = d]
    /\ ticket' = [ticket EXCEPT ![s] = sequence]
    /\ sequence' = sequence + 1
    /\ UNCHANGED <<tableVars, phase, serial, displaced, told, pend, stale, out, claims>>

\* Mutated: the withdrawn device is not forgotten when it comes back.
InstallKeepsWithdrawn(s, d) ==
    LET new == AnnouncedEntry(SessionDevice[s], serial[s], pend[s][d], ticket[s])
    IN  /\ entries[d].origin = "none" \/ replaces(entries[d], pend[s][d], ticket[s])
        /\ entries' = [entries EXCEPT ![d] = new]
        /\ out' = [out EXCEPT ![s] = transition(d, entries[d], new)]
        /\ stale' = [stale EXCEPT ![s] = @ \ {d}]
        /\ UNCHANGED withdrawn

\* The better or newer route is installed.
InstallAnnounced(s, d) ==
    LET via == pend[s][d]
        new == AnnouncedEntry(SessionDevice[s], serial[s], via, ticket[s])
    IN  /\ entries[d].origin = "none" \/ replaces(entries[d], via, ticket[s])
        /\ withdrawn' = [withdrawn EXCEPT ![d] = None]
        /\ entries' = [entries EXCEPT ![d] = new]
        /\ out' = [out EXCEPT ![s] = transition(d, entries[d], new)]
        /\ stale' = [stale EXCEPT ![s] = @ \ {d}]

\* The existing route is kept; in a snapshot the device stays among the leftovers.
KeepExisting(s, d) ==
    /\ entries[d].origin # "none" /\ ~ replaces(entries[d], pend[s][d], ticket[s])
    /\ UNCHANGED <<withdrawn, entries, out, stale>>

\* announce_device() under the lock.
AnnounceDevice(s) ==
    \E d \in Desktops :
        /\ phase[s] = "open"
        /\ item[s] = d
        /\ InstallAnnounced(s, d) \/ KeepExisting(s, d)
        /\ pend' = [pend EXCEPT ![s] = [@ EXCEPT ![d] = <<>>]]
        /\ item' = [item EXCEPT ![s] = None]
        /\ ticket' = [ticket EXCEPT ![s] = 0]
        /\ UNCHANGED <<relay_links, sequence, phase, serial, displaced, told, claims>>

\* withdraw_device() of a route this link owns.
WithdrawOwned(s, d) ==
    /\ d \in announced_ids_of(SessionDevice[s])
    /\ entries' = [entries EXCEPT ![d] = NoEntry]
    /\ withdrawn' = [withdrawn EXCEPT ![d] = SessionDevice[s]]
    /\ out' = [out EXCEPT ![s] = transition(d, entries[d], NoEntry)]

\* withdraw_device() of a route another link, or the device itself, owns.
WithdrawForeign(s, d) ==
    /\ d \notin announced_ids_of(SessionDevice[s])
    /\ UNCHANGED <<entries, withdrawn, out>>

\* The leftovers are withdrawn once every announcement of the frame is through.
WithdrawDevice(s, d) ==
    /\ phase[s] = "open"
    /\ pend[s] = [e \in Desktops |-> <<>>]
    /\ item[s] = None
    /\ out[s] = {}
    /\ d \in stale[s]
    /\ WithdrawOwned(s, d) \/ WithdrawForeign(s, d)
    /\ stale' = [stale EXCEPT ![s] = @ \ {d}]
    /\ UNCHANGED <<relay_links, sequence, phase, serial, displaced, told, pend, item, ticket, claims>>

-----------------------------------------------------------------------------
Tunnel(s) ==
    \/ AcceptHello(s)
    \/ TakeSerial(s)
    \/ \E r \in RelayIds \cup {None} : Connect(s, r)
    \/ CloseDisplaced(s)
    \/ EndRead(s)
    \/ Disconnect(s)
    \/ Leave(s)
    \/ Publish(s)

ControlFrames(s) ==
    \/ \E snapshot \in [Desktops -> Vias \cup {<<>>}] : ReceiveAnnounce(s, snapshot)
    \/ \E d \in Desktops :
          \/ \E via \in Vias : ReceiveDeviceOnline(s, d, via)
          \/ ReceiveDeviceOffline(s, d)
          \/ RejectUnroutable(s, d)
          \/ TakeTicket(s, d)
          \/ WithdrawDevice(s, d)
    \/ AnnounceDevice(s)

Next == \E s \in Sessions : Tunnel(s) \/ ControlFrames(s)

Spec == Init /\ [][Next]_vars

-----------------------------------------------------------------------------
(* Properties.                                                             *)

\* Every variable keeps its type.
TypeOK ==
    /\ entries \in [Ids -> Entry]
    /\ relay_links \in [RelayIds -> Links \cup {None}]
    /\ withdrawn \in [Desktops -> Links \cup {None}]
    /\ sequence \in Nat
    /\ phase \in [Sessions -> Phases]
    /\ serial \in [Sessions -> Nat]
    /\ displaced \in [Sessions -> SUBSET Nat]
    /\ told \in SUBSET Nat
    /\ pend \in [Sessions -> [Desktops -> Vias \cup {<<>>}]]
    /\ stale \in [Sessions -> SUBSET Desktops]
    /\ item \in [Sessions -> Desktops \cup {None}]
    /\ ticket \in [Sessions -> Nat]
    /\ out \in [Sessions -> SUBSET Change]
    /\ claims \in [Sessions -> SUBSET Desktops]

\* A device is online directly only while a tunnel of that device is live: whatever the order in
\* which reconnects, displacements and clean-ups interleave, the table never keeps the entry of a
\* tunnel whose task has run disconnect().
DirectHasTunnel ==
    \A i \in Ids : entries[i].origin = "direct" =>
        \E s \in Sessions : SessionDevice[s] = i /\ Live(s) /\ serial[s] = entries[i].handle

\* A live tunnel drops out of the table only because a later connect() of the same device displaced
\* it: the clean-up of an older task never evicts a newer tunnel ("so a later disconnect cannot
\* evict a newer one").
EvictedOnlyByNewer ==
    \A s \in Sessions : Live(s) =>
        \/ Listed(s)
        \/ serial[s] \in told
        \/ \E t \in Sessions : serial[s] \in displaced[t]

\* The tunnel a reconnect closes is never the one that is registered, however many reconnects of
\* one device race between connect() and the close() that follows it.
ClosedIsSuperseded ==
    \A i \in Ids : entries[i].origin = "direct" =>
        /\ entries[i].handle \notin told
        /\ \A s \in Sessions : entries[i].handle \notin displaced[s]

\* relay_links names only links that are registered, so hop_names() never renders a hop with the
\* name of a link that has gone.
RelayLinksRegistered ==
    \A r \in RelayIds : relay_links[r] # None => entries[relay_links[r]].origin = "direct"

\* A device is never both routed and remembered as withdrawn: last_known() answers the offline page
\* only for devices that are offline.
WithdrawnIsOffline ==
    \A d \in Desktops : withdrawn[d] # None => entries[d].origin = "none"

\* Each link has one tunnel at a time: the reconnect begins after the old task has cleaned up.
LinksSequential ==
    \A s, t \in Sessions : SessionDevice[s] = SessionDevice[t] /\ SessionDevice[s] \in Links => s = t

\* "Everything this link announced is unreachable the moment the link is gone": an announced route
\* leads through a tunnel of its link that is live and registered.
AnnouncedThroughLiveLink ==
    \A d \in Desktops : entries[d].origin = "announced" =>
        \E s \in Sessions : /\ SessionDevice[s] = entries[d].link
                            /\ Live(s) /\ Listed(s)
                            /\ serial[s] = entries[d].handle

\* An announced device's link is a registered link, whichever of its tunnels announced the device.
AnnouncedLinkRegistered ==
    \A d \in Desktops : entries[d].origin = "announced" => entries[entries[d].link].origin = "direct"

\* Withdrawn devices are remembered only "for as long as the link that announced it stays up".
WithdrawnWhileLinkUp ==
    \A d \in Desktops : withdrawn[d] # None => entries[withdrawn[d]].origin = "direct"

\* No route outlives what its relay says: once the frame being handled is through, a device routed
\* through a link is one that link's last frames called online.
RoutedIsClaimed ==
    \A d \in Desktops, s \in Sessions :
        /\ entries[d].origin = "announced"
        /\ SessionDevice[s] = entries[d].link
        /\ Live(s) /\ FrameDone(s)
        => d \in claims[s]

-----------------------------------------------------------------------------
(* The inductive strengthening of the properties above.                    *)

\* A serial is in use from the moment it is taken to the end of its tunnel.
HasSerial(s) == phase[s] = "ticketed" \/ Live(s)

SerialsInv ==
    /\ \A s \in Sessions : HasSerial(s) => serial[s] < sequence
    /\ \A s, t \in Sessions : HasSerial(s) /\ HasSerial(t) /\ serial[s] = serial[t] => s = t
    /\ \A n \in told : n < sequence
    /\ \A s \in Sessions : \A n \in displaced[s] : n < sequence
    /\ \A s \in Sessions : phase[s] # "registered" => displaced[s] = {}

\* A serial that is taken but not registered yet is nobody's handle.
TicketFreshInv ==
    \A s \in Sessions : phase[s] = "ticketed" =>
        /\ serial[s] \notin told
        /\ \A t \in Sessions : serial[s] \notin displaced[t]

\* Only links announce, only desktops are announced.
FramesInv ==
    /\ \A l \in Links : entries[l].origin # "announced"
    /\ \A d \in Desktops : entries[d].origin = "announced" => entries[d].link \in Links
    /\ \A s \in Sessions : SessionDevice[s] \notin Links =>
          /\ pend[s] = [d \in Desktops |-> <<>>]
          /\ stale[s] = {}
          /\ item[s] = None

TunnelInv == TypeOK /\ FramesInv /\ SerialsInv /\ TicketFreshInv
             /\ DirectHasTunnel /\ EvictedOnlyByNewer /\ ClosedIsSuperseded

TableInv == RelayLinksRegistered /\ WithdrawnIsOffline

\* What holds besides while no link has two tunnels at once: the frame in hand accounts for every
\* route of its link that the peer no longer claims.
LinkInv ==
    /\ \A s \in Sessions : SessionDevice[s] \in Links /\ Live(s) => Listed(s)
    /\ AnnouncedThroughLiveLink
    /\ WithdrawnWhileLinkUp
    /\ \A s \in Sessions, d \in Desktops : pend[s][d] # <<>> => phase[s] = "open" /\ d \in claims[s]
    /\ \A s \in Sessions, d \in Desktops : item[s] = d => pend[s][d] # <<>>
    /\ \A s \in Sessions, d \in Desktops :
          entries[d].origin = "announced" /\ entries[d].link = SessionDevice[s] /\ Live(s)
             => d \in claims[s] \cup stale[s]

-----------------------------------------------------------------------------
(* Refinement: the table as its subscribers see it.                        *)

Source == INSTANCE ChangeSource WITH
    Devices   <- Desktops,
    Chains    <- {<<Self>> \o via : via \in Vias \cup {<<>>}},
    Writers   <- Sessions,
    online    <- [d \in Desktops |-> announcement_of(d, entries[d])],
    unsent    <- out

\* No change is lost or invented: every critical section that gives a device a route, renews it or
\* takes it away leaves exactly that change, with the chain the table now holds, with the task that
\* made it, and the task publishes it before it touches the table again.  A device that stays online
\* never gets a longer chain.
ImplementsChangeSource == Source!SourceSpec
=============================================================================
