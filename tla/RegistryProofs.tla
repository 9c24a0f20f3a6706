--------------------------- MODULE RegistryProofs ---------------------------
(***************************************************************************)
(* Invariance proofs for Registry, for any set of devices, links and       *)
(* tunnels and any hop budget.                                             *)
(***************************************************************************)
EXTENDS Registry, SequenceTheorems, TLAPS

USE RegistryAssumption DEF RegistryAssumption

\* What a table entry looks like, and that the constructors build entries.
LEMMA EntryTypes ==
    /\ NoEntry \in Entry
    /\ \A i \in Ids, n \in Nat : DirectEntry(i, n) \in Entry
    /\ \A l \in Ids, h \in Nat, n \in Nat, via \in Vias \cup {<<>>} :
          AnnouncedEntry(l, h, via, n) \in Entry
  <1>0. <<>> \in Seq(RelayIds)
    OBVIOUS
  <1>1. <<>> \in Seq(RelayIds) /\ \A via \in Vias \cup {<<>>} : via \in Seq(RelayIds)
    BY <1>0
  <1>2. NoEntry \in Entry
    BY <1>1 DEF Entry, NoEntry, Origins
  <1>3. \A i \in Ids, n \in Nat : DirectEntry(i, n) \in Entry
    BY <1>1 DEF Entry, DirectEntry, Origins
  <1>4. \A l \in Ids, h \in Nat, n \in Nat, via \in Vias \cup {<<>>} :
           AnnouncedEntry(l, h, via, n) \in Entry
    BY <1>1 DEF Entry, AnnouncedEntry, Origins
  <1> QED BY <1>2, <1>3, <1>4

\* What announcement_of() answers: nothing for a link or an empty slot, and a chain that begins with
\* this relay for a routed desktop.
LEMMA AnnouncementOf ==
    ASSUME NEW i \in Ids, NEW e \in Entry, i \in Links => e.origin # "announced"
    PROVE  /\ i \notin Desktops => announcement_of(i, e) = <<>>
           /\ e.origin = "none" => announcement_of(i, e) = <<>>
           /\ i \in Desktops /\ e.origin # "none" =>
                 /\ announcement_of(i, e) = <<Self>> \o e.hops
                 /\ announcement_of(i, e) # <<>>
                 /\ Len(announcement_of(i, e)) = Len(e.hops) + 1 /\ Len(e.hops) \in Nat
           /\ announcement_of(i, e) \in Seq(RelayIds)
  <1>1. e.hops \in Seq(RelayIds) /\ e.origin \in Origins
    BY DEF Entry
  <1>2. <<Self>> \in Seq(RelayIds) /\ Len(<<Self>>) = 1
    OBVIOUS
  <1> DEFINE chain == <<Self>> \o e.hops
  <1>3. chain \in Seq(RelayIds) /\ Len(chain) = 1 + Len(e.hops) /\ Len(e.hops) \in Nat
    BY <1>1, <1>2, ConcatProperties
  <1>4. chain # <<>>
    BY <1>3
  <1>5. announcement_of(i, e) =
            IF e.origin = "announced" \/ (e.origin = "direct" /\ i \in Desktops) THEN chain ELSE <<>>
    BY DEF announcement_of
  <1>6. <<>> \in Seq(RelayIds)
    OBVIOUS
  <1> HIDE DEF chain
  <1>7. i \notin Desktops => i \in Links
    BY DEF Ids
  <1> QED BY <1>1, <1>3, <1>4, <1>5, <1>6, <1>7 DEF Origins, chain

\* A change is only ever computed for a desktop: a link is announced to nobody.
LEMMA TransitionType ==
    ASSUME NEW i \in Ids, NEW previous \in Entry, NEW current \in Entry,
           i \in Links => previous.origin # "announced" /\ current.origin # "announced"
    PROVE  transition(i, previous, current) \subseteq Change
  <1>1. announcement_of(i, current) \in Seq(RelayIds)
    BY AnnouncementOf
  <1>2. i \notin Desktops => announcement_of(i, previous) = <<>> /\ announcement_of(i, current) = <<>>
    BY AnnouncementOf
  <1>3. i \in Desktops => [id |-> i, via |-> announcement_of(i, current)] \in Change
    BY <1>1 DEF Change
  <1> QED BY <1>2, <1>3 DEF transition

LEMMA InitTunnelInv == Init => TunnelInv
  <1> SUFFICES ASSUME Init PROVE TunnelInv
    OBVIOUS
  <1>1. TypeOK
    BY EntryTypes DEF Init, TypeOK, Phases, Change
  <1>2. FramesInv /\ SerialsInv /\ TicketFreshInv
    BY DEF Init, FramesInv, SerialsInv, TicketFreshInv, HasSerial, Live, NoEntry, Ids
  <1>3. DirectHasTunnel /\ EvictedOnlyByNewer /\ ClosedIsSuperseded
    BY DEF Init, DirectHasTunnel, EvictedOnlyByNewer, ClosedIsSuperseded, Live, NoEntry, Ids
  <1> QED BY <1>1, <1>2, <1>3 DEF TunnelInv

\* Every step keeps the types.
LEMMA TypeStep ==
    ASSUME TypeOK, FramesInv, NEW s \in Sessions, Tunnel(s) \/ ControlFrames(s)
    PROVE  TypeOK'
  <1> USE DEF TypeOK, tableVars, handlerVars
  <1>0. SessionDevice[s] \in Ids
    OBVIOUS
  <1>1. CASE AcceptHello(s)
    BY <1>1 DEF AcceptHello, Phases
  <1>2. CASE TakeSerial(s)
    BY <1>2 DEF TakeSerial, Phases
  <1>3. ASSUME NEW r \in RelayIds \cup {None}, Connect(s, r) PROVE TypeOK'
    <2> DEFINE i == SessionDevice[s]
    <2> DEFINE new == DirectEntry(i, serial[s])
    <2>1. entries' \in [Ids -> Entry]
      BY <1>3, EntryTypes, <1>0 DEF Connect
    <2>2. relay_links' \in [RelayIds -> Links \cup {None}]
      BY <1>3, <1>0 DEF Connect, Ids
    <2>3. withdrawn' \in [Desktops -> Links \cup {None}]
      BY <1>3 DEF Connect
    <2>4. transition(i, entries[i], new) \subseteq Change
      <3>1. i \in Ids /\ entries[i] \in Entry /\ new \in Entry /\ new.origin = "direct"
        BY <1>0, EntryTypes DEF DirectEntry
      <3>2. i \in Links => entries[i].origin # "announced" /\ new.origin # "announced"
        BY <3>1 DEF FramesInv
      <3> HIDE DEF i, new
      <3> QED BY <3>1, <3>2, TransitionType
    <2>5. out' \in [Sessions -> SUBSET Change]
      BY <1>3, <2>4 DEF Connect
    <2>6. displaced' \in [Sessions -> SUBSET Nat]
      BY <1>3, <1>0 DEF Connect, displaced_by, Entry
    <2>7. phase' \in [Sessions -> Phases]
      BY <1>3 DEF Connect, Phases
    <2> QED BY <1>3, <2>1, <2>2, <2>3, <2>5, <2>6, <2>7 DEF Connect
  <1>4. CASE CloseDisplaced(s)
    BY <1>4 DEF CloseDisplaced, Phases
  <1>5. CASE EndRead(s)
    BY <1>5 DEF EndRead, Phases
  <1>6. CASE Disconnect(s)
    <2>0. phase' \in [Sessions -> Phases]
      BY <1>6 DEF Disconnect, Phases
    <2>1. CASE DisconnectListed(s)
      <3> DEFINE i == SessionDevice[s]
      <3> DEFINE gone == gone_ids(i)
      <3>1. gone \subseteq Ids
        BY <1>0 DEF gone_ids, announced_ids_of, Ids
      <3>2. ASSUME NEW j \in gone PROVE transition(j, entries[j], NoEntry) \subseteq Change
        <4>1. j \in Ids /\ entries[j] \in Entry /\ NoEntry \in Entry /\ NoEntry.origin = "none"
          BY <3>1, EntryTypes DEF NoEntry
        <4>2. j \in Links => entries[j].origin # "announced" /\ NoEntry.origin # "announced"
          BY <4>1 DEF FramesInv
        <4> QED BY <4>1, <4>2, TransitionType
      <3>3. UNION {transition(j, entries[j], NoEntry) : j \in gone} \in SUBSET Change
        BY <3>2
      <3>4. out' \in [Sessions -> SUBSET Change]
        BY <2>1, <3>3 DEF DisconnectListed, is_registered, gone_ids, relay_links_without, withdrawn_without
      <3>5. entries' \in [Ids -> Entry]
        BY <2>1, EntryTypes DEF DisconnectListed, is_registered, gone_ids, relay_links_without, withdrawn_without
      <3>6. relay_links' \in [RelayIds -> Links \cup {None}] /\ withdrawn' \in [Desktops -> Links \cup {None}]
        BY <2>1 DEF DisconnectListed, is_registered, gone_ids, relay_links_without, withdrawn_without
      <3> QED BY <1>6, <2>0, <3>4, <3>5, <3>6 DEF Disconnect
    <2>2. CASE DisconnectSuperseded(s)
      BY <1>6, <2>2, <2>0 DEF Disconnect, DisconnectSuperseded, is_registered
    <2> QED BY <1>6, <2>1, <2>2 DEF Disconnect
  <1>7. CASE Leave(s)
    BY <1>7 DEF Leave, Phases
  <1>8. CASE Publish(s)
    BY <1>8 DEF Publish, Change
  <1>9. ASSUME NEW snapshot \in [Desktops -> Vias \cup {<<>>}], ReceiveAnnounce(s, snapshot)
        PROVE TypeOK'
    BY <1>9 DEF ReceiveAnnounce, announced_ids_of
  <1>10. ASSUME NEW d \in Desktops, NEW via \in Vias, ReceiveDeviceOnline(s, d, via)
         PROVE TypeOK'
    BY <1>10 DEF ReceiveDeviceOnline
  <1>11. ASSUME NEW d \in Desktops, ReceiveDeviceOffline(s, d) PROVE TypeOK'
    BY <1>11 DEF ReceiveDeviceOffline
  <1>12. ASSUME NEW d \in Desktops, RejectUnroutable(s, d) PROVE TypeOK'
    BY <1>12 DEF RejectUnroutable
  <1>13. ASSUME NEW d \in Desktops, TakeTicket(s, d) PROVE TypeOK'
    BY <1>13 DEF TakeTicket
  <1>14. ASSUME NEW d \in Desktops, WithdrawDevice(s, d) PROVE TypeOK'
    <2>1. CASE WithdrawOwned(s, d)
      <3>0. d \in Ids /\ d \notin Links
        BY DEF Ids
      <3>1. transition(d, entries[d], NoEntry) \subseteq Change
        BY <3>0, EntryTypes, TransitionType
      <3>2. out' \in [Sessions -> SUBSET Change]
        BY <2>1, <3>1 DEF WithdrawOwned
      <3>3. entries' \in [Ids -> Entry]
        BY <2>1, <3>0, EntryTypes DEF WithdrawOwned
      <3>4. SessionDevice[s] \in Links
        BY <2>1, <1>14 DEF WithdrawDevice, FramesInv
      <3>5. withdrawn' \in [Desktops -> Links \cup {None}]
        BY <2>1, <3>4 DEF WithdrawOwned
      <3> QED BY <1>14, <3>2, <3>3, <3>5 DEF WithdrawDevice
    <2>2. CASE WithdrawForeign(s, d)
      BY <1>14, <2>2 DEF WithdrawDevice, WithdrawForeign
    <2> QED BY <1>14, <2>1, <2>2 DEF WithdrawDevice
  <1>15. CASE AnnounceDevice(s)
    <2>1. PICK d \in Desktops : item[s] = d /\ (InstallAnnounced(s, d) \/ KeepExisting(s, d))
      BY <1>15 DEF AnnounceDevice
    <2>2. /\ pend' \in [Sessions -> [Desktops -> Vias \cup {<<>>}]]
          /\ item' \in [Sessions -> Desktops \cup {None}]
          /\ ticket' \in [Sessions -> Nat]
      BY <1>15 DEF AnnounceDevice
    <2>3. CASE InstallAnnounced(s, d)
      <3> DEFINE new == AnnouncedEntry(SessionDevice[s], serial[s], pend[s][d], ticket[s])
      <3>0. d \in Ids /\ d \notin Links
        BY DEF Ids
      <3>1. new \in Entry
        BY <1>0, EntryTypes
      <3>2. transition(d, entries[d], new) \subseteq Change
        BY <3>0, <3>1, TransitionType
      <3>3. entries' \in [Ids -> Entry]
        BY <2>3, <3>0, <3>1 DEF InstallAnnounced
      <3>4. out' \in [Sessions -> SUBSET Change]
        BY <2>3, <3>2 DEF InstallAnnounced
      <3>5. withdrawn' \in [Desktops -> Links \cup {None}] /\ stale' \in [Sessions -> SUBSET Desktops]
        BY <2>3 DEF InstallAnnounced
      <3> QED BY <1>15, <2>2, <3>3, <3>4, <3>5 DEF AnnounceDevice
    <2>4. CASE KeepExisting(s, d)
      BY <1>15, <2>2, <2>4 DEF AnnounceDevice, KeepExisting
    <2> QED BY <2>1, <2>3, <2>4
  <1> QED
    BY <1>1, <1>2, <1>3, <1>4, <1>5, <1>6, <1>7, <1>8, <1>9, <1>10, <1>11, <1>12, <1>13, <1>14, <1>15
       DEF Tunnel, ControlFrames

-----------------------------------------------------------------------------
(* The tunnel tasks.                                                       *)

\* Handling a control frame never touches a direct entry: it neither installs nor removes one.
DirectKept ==
    \A i \in Ids : /\ entries'[i].origin = "direct" <=> entries[i].origin = "direct"
                   /\ entries[i].origin = "direct" => entries'[i] = entries[i]

LEMMA FramesKeepDirect ==
    ASSUME TypeOK, NEW s \in Sessions, ControlFrames(s)
    PROVE  /\ DirectKept
           /\ UNCHANGED <<relay_links, phase, serial, displaced, told>>
           /\ sequence' \in Nat /\ sequence <= sequence'
  <1> USE DEF TypeOK, tableVars
  <1>1. ASSUME UNCHANGED entries PROVE DirectKept
    BY <1>1 DEF DirectKept
  <1>2. ASSUME NEW snapshot \in [Desktops -> Vias \cup {<<>>}], ReceiveAnnounce(s, snapshot)
        PROVE  UNCHANGED <<entries, relay_links, phase, serial, displaced, told, sequence>>
    BY <1>2 DEF ReceiveAnnounce
  <1>3. ASSUME NEW d \in Desktops, NEW via \in Vias, ReceiveDeviceOnline(s, d, via)
        PROVE  UNCHANGED <<entries, relay_links, phase, serial, displaced, told, sequence>>
    BY <1>3 DEF ReceiveDeviceOnline
  <1>4. ASSUME NEW d \in Desktops, ReceiveDeviceOffline(s, d) \/ RejectUnroutable(s, d)
        PROVE  UNCHANGED <<entries, relay_links, phase, serial, displaced, told, sequence>>
    BY <1>4 DEF ReceiveDeviceOffline, RejectUnroutable
  <1>5. ASSUME NEW d \in Desktops, TakeTicket(s, d)
        PROVE  /\ UNCHANGED <<entries, relay_links, phase, serial, displaced, told>>
               /\ sequence' = sequence + 1
    BY <1>5 DEF TakeTicket
  <1>6. ASSUME NEW d \in Desktops, WithdrawDevice(s, d)
        PROVE  DirectKept /\ UNCHANGED <<relay_links, phase, serial, displaced, told, sequence>>
    BY <1>6 DEF WithdrawDevice, WithdrawOwned, WithdrawForeign, announced_ids_of, NoEntry, DirectKept, Ids
  <1>7. ASSUME AnnounceDevice(s)
        PROVE  DirectKept /\ UNCHANGED <<relay_links, phase, serial, displaced, told, sequence>>
    <2>1. PICK d \in Desktops : InstallAnnounced(s, d) \/ KeepExisting(s, d)
      BY <1>7 DEF AnnounceDevice
    <2>2. DirectKept
      <3>1. CASE InstallAnnounced(s, d)
        <4>1. entries[d].origin # "direct"
          BY <3>1 DEF InstallAnnounced, replaces
        <4>2. d \in Ids /\ entries' = [entries EXCEPT ![d] =
                 AnnouncedEntry(SessionDevice[s], serial[s], pend[s][d], ticket[s])]
          BY <3>1 DEF InstallAnnounced, Ids
        <4> QED BY <4>1, <4>2 DEF AnnouncedEntry, DirectKept
      <3>2. CASE KeepExisting(s, d)
        BY <3>2 DEF KeepExisting, DirectKept
      <3> QED BY <2>1, <3>1, <3>2
    <2> QED BY <1>7, <2>2 DEF AnnounceDevice
  <1> QED
    BY <1>1, <1>2, <1>3, <1>4, <1>5, <1>6, <1>7 DEF ControlFrames

\* Whatever leaves tunnels and direct entries alone keeps the tunnel invariant.
LEMMA QuietStep ==
    ASSUME TunnelInv, DirectKept, UNCHANGED <<serial, displaced, told>>,
           \A s \in Sessions : /\ phase'[s] = "ticketed" <=> phase[s] = "ticketed"
                               /\ phase'[s] = "registered" <=> phase[s] = "registered"
                               /\ Live(s)' <=> Live(s),
           sequence' \in Nat, sequence <= sequence'
    PROVE  SerialsInv' /\ TicketFreshInv' /\ DirectHasTunnel' /\ EvictedOnlyByNewer' /\ ClosedIsSuperseded'
  <1> USE DEF TunnelInv, TypeOK
  <1>1. SerialsInv'
    <2>1. \A s \in Sessions : HasSerial(s)' <=> HasSerial(s)
      BY DEF HasSerial
    <2>2. \A n \in Nat : n < sequence => n < sequence'
      OBVIOUS
    <2> QED BY <2>1, <2>2 DEF SerialsInv
  <1>2. TicketFreshInv'
    BY DEF TicketFreshInv
  <1>3. DirectHasTunnel'
    <2> SUFFICES ASSUME NEW i \in Ids, entries'[i].origin = "direct"
                 PROVE  \E s \in Sessions :
                           SessionDevice[s] = i /\ Live(s)' /\ serial'[s] = entries'[i].handle
      BY DEF DirectHasTunnel
    <2>1. entries'[i] = entries[i] /\ entries[i].origin = "direct"
      BY DEF DirectKept
    <2>2. PICK s \in Sessions : SessionDevice[s] = i /\ Live(s) /\ serial[s] = entries[i].handle
      BY <2>1 DEF DirectHasTunnel
    <2> QED BY <2>1, <2>2
  <1>4. EvictedOnlyByNewer'
    <2> SUFFICES ASSUME NEW s \in Sessions, Live(s)', ~ (serial[s] \in told),
                        ~ \E t \in Sessions : serial[s] \in displaced[t]
                 PROVE  Listed(s)'
      BY DEF EvictedOnlyByNewer
    <2>1. Listed(s)
      BY DEF EvictedOnlyByNewer
    <2> QED BY <2>1 DEF Listed, DirectKept
  <1>5. ClosedIsSuperseded'
    BY DEF ClosedIsSuperseded, DirectKept
  <1> QED BY <1>1, <1>2, <1>3, <1>4, <1>5

\* connect() takes a serial nobody holds.
LEMMA TakeSerialStep ==
    ASSUME TunnelInv, TypeOK', NEW s \in Sessions, TakeSerial(s)
    PROVE  SerialsInv' /\ TicketFreshInv' /\ DirectHasTunnel' /\ EvictedOnlyByNewer' /\ ClosedIsSuperseded'
  <1> USE DEF TunnelInv, TypeOK, tableVars
  <1>1. /\ phase[s] = "accepted" /\ phase'[s] = "ticketed"
        /\ \A t \in Sessions : t # s => phase'[t] = phase[t] /\ serial'[t] = serial[t]
        /\ serial'[s] = sequence /\ sequence' = sequence + 1
        /\ UNCHANGED <<entries, displaced, told>>
    BY DEF TakeSerial
  <1>2. \A t \in Sessions : t # s => (HasSerial(t)' <=> HasSerial(t)) /\ (Live(t)' <=> Live(t))
    BY <1>1 DEF HasSerial, Live
  <1>3. ~ Live(s) /\ ~ Live(s)' /\ ~ HasSerial(s)
    BY <1>1 DEF HasSerial, Live
  <1>4. SerialsInv'
    <2>0. ASSUME NEW t \in Sessions, t # s, HasSerial(t)'
          PROVE  serial'[t] = serial[t] /\ HasSerial(t) /\ serial'[t] < sequence
      BY <2>0, <1>1, <1>2 DEF SerialsInv
    <2>1. ASSUME NEW t \in Sessions, HasSerial(t)' PROVE serial'[t] < sequence'
      <3>1. CASE t = s
        BY <1>1, <3>1
      <3>2. CASE t # s
        BY <1>1, <2>0, <2>1, <3>2
      <3> QED BY <3>1, <3>2
    <2>2. ASSUME NEW t \in Sessions, NEW u \in Sessions,
                 HasSerial(t)', HasSerial(u)', serial'[t] = serial'[u]
          PROVE  t = u
      <3>1. CASE t # s /\ u # s
        <4>1. HasSerial(t) /\ HasSerial(u) /\ serial[t] = serial[u]
          BY <2>0, <2>2, <3>1
        <4> QED BY <4>1 DEF SerialsInv
      <3>2. CASE t # s /\ u = s
        BY <1>1, <2>0, <2>2, <3>2
      <3>3. CASE t = s /\ u # s
        BY <1>1, <2>0, <2>2, <3>3
      <3> QED BY <3>1, <3>2, <3>3
    <2>3. /\ \A n \in told' : n < sequence'
          /\ \A t \in Sessions : \A n \in displaced'[t] : n < sequence'
      BY <1>1 DEF SerialsInv
    <2>4. \A t \in Sessions : phase'[t] # "registered" => displaced'[t] = {}
      BY <1>1 DEF SerialsInv
    <2> QED BY <2>1, <2>2, <2>3, <2>4 DEF SerialsInv
  <1>5. TicketFreshInv'
    <2> SUFFICES ASSUME NEW t \in Sessions, phase'[t] = "ticketed"
                 PROVE  serial'[t] \notin told /\ \A u \in Sessions : serial'[t] \notin displaced[u]
      BY <1>1 DEF TicketFreshInv
    <2>1. CASE t = s
      <3>1. \A n \in told : n # sequence
        BY DEF SerialsInv
      <3>2. \A u \in Sessions : \A n \in displaced[u] : n # sequence
        BY DEF SerialsInv
      <3> QED BY <1>1, <2>1, <3>1, <3>2
    <2>2. CASE t # s
      BY <1>1, <2>2 DEF TicketFreshInv
    <2> QED BY <2>1, <2>2
  <1>6. DirectHasTunnel'
    <2> SUFFICES ASSUME NEW i \in Ids, entries[i].origin = "direct"
                 PROVE  \E t \in Sessions :
                           SessionDevice[t] = i /\ Live(t)' /\ serial'[t] = entries[i].handle
      BY <1>1 DEF DirectHasTunnel
    <2>1. PICK t \in Sessions : SessionDevice[t] = i /\ Live(t) /\ serial[t] = entries[i].handle
      BY DEF DirectHasTunnel
    <2> QED BY <1>1, <1>2, <1>3, <2>1
  <1>7. EvictedOnlyByNewer'
    BY <1>1, <1>2, <1>3 DEF EvictedOnlyByNewer, Listed
  <1>8. ClosedIsSuperseded'
    BY <1>1 DEF ClosedIsSuperseded
  <1> QED BY <1>4, <1>5, <1>6, <1>7, <1>8

\* connect() registers the tunnel; the one it displaces is remembered until it is closed.
LEMMA ConnectStep ==
    ASSUME TunnelInv, TypeOK', NEW s \in Sessions, NEW r \in RelayIds \cup {None}, Connect(s, r)
    PROVE  SerialsInv' /\ TicketFreshInv' /\ DirectHasTunnel' /\ EvictedOnlyByNewer' /\ ClosedIsSuperseded'
  <1> USE DEF TunnelInv, TypeOK
  <1> DEFINE i == SessionDevice[s]
  <1>1. /\ phase[s] = "ticketed" /\ phase'[s] = "registered"
        /\ \A t \in Sessions : t # s => phase'[t] = phase[t] /\ displaced'[t] = displaced[t]
        /\ displaced'[s] = IF entries[i].origin = "direct" THEN {entries[i].handle} ELSE {}
        /\ entries'[i].origin = "direct" /\ entries'[i].handle = serial[s]
        /\ \A j \in Ids : j # i => entries'[j] = entries[j]
        /\ UNCHANGED <<sequence, serial, told>>
        /\ i \in Ids
    BY DEF Connect, DirectEntry, displaced_by
  <1>2. \A t \in Sessions : t # s => (Live(t)' <=> Live(t))
    BY <1>1 DEF Live
  <1>3. Live(s)' /\ ~ Live(s)
    BY <1>1 DEF Live
  <1>4. \A t \in Sessions : HasSerial(t)' <=> HasSerial(t)
    BY <1>1, <1>2, <1>3 DEF HasSerial
  <1>5. ASSUME entries[i].origin = "direct"
        PROVE  \E t \in Sessions : /\ t # s /\ SessionDevice[t] = i /\ Live(t)
                                   /\ serial[t] = entries[i].handle
    BY <1>1, <1>3, <1>5 DEF DirectHasTunnel
  <1>6. displaced[s] = {}
    BY <1>1 DEF SerialsInv
  <1>7. SerialsInv'
    <2>1. \A n \in displaced'[s] : n < sequence
      BY <1>1, <1>5 DEF SerialsInv, HasSerial
    <2>2. \A t \in Sessions : \A n \in displaced'[t] : n < sequence'
      BY <1>1, <2>1 DEF SerialsInv
    <2>3. \A t \in Sessions : phase'[t] # "registered" => displaced'[t] = {}
      BY <1>1 DEF SerialsInv
    <2> QED BY <1>1, <1>4, <2>2, <2>3 DEF SerialsInv
  <1>8. TicketFreshInv'
    <2>1. ASSUME NEW t \in Sessions, phase'[t] = "ticketed" PROVE serial[t] \notin displaced'[s]
      <3>1. phase[t] = "ticketed"
        BY <1>1, <2>1
      <3>2. CASE entries[i].origin = "direct"
        <4>1. PICK u \in Sessions : Live(u) /\ serial[u] = entries[i].handle
          BY <1>5, <3>2
        <4>2. t # u
          BY <3>1, <4>1 DEF Live
        <4>3. serial[t] # serial[u]
          BY <3>1, <4>1, <4>2 DEF SerialsInv, HasSerial
        <4> QED BY <1>1, <4>1, <4>3
      <3> QED BY <1>1, <3>2
    <2> QED BY <1>1, <2>1 DEF TicketFreshInv
  <1>9. DirectHasTunnel'
    <2> SUFFICES ASSUME NEW j \in Ids, entries'[j].origin = "direct"
                 PROVE  \E t \in Sessions :
                           SessionDevice[t] = j /\ Live(t)' /\ serial'[t] = entries'[j].handle
      BY DEF DirectHasTunnel
    <2>1. CASE j = i
      BY <1>1, <1>3, <2>1
    <2>2. CASE j # i
      <3>1. PICK t \in Sessions : SessionDevice[t] = j /\ Live(t) /\ serial[t] = entries[j].handle
        BY <1>1, <2>2 DEF DirectHasTunnel
      <3> QED BY <1>1, <1>2, <2>2, <3>1
    <2> QED BY <2>1, <2>2
  <1>10. EvictedOnlyByNewer'
    <2> SUFFICES ASSUME NEW t \in Sessions, Live(t)'
                 PROVE  \/ Listed(t)' \/ serial'[t] \in told'
                        \/ \E u \in Sessions : serial'[t] \in displaced'[u]
      BY DEF EvictedOnlyByNewer
    <2>1. CASE t = s
      BY <1>1, <2>1 DEF Listed
    <2>2. CASE t # s
      <3>1. Live(t)
        BY <1>2, <2>2
      <3>2. CASE Listed(t)
        BY <1>1, <3>2, ZenonT(40) DEF Listed
      <3>3. CASE serial[t] \in told
        BY <1>1, <3>3
      <3>4. ASSUME NEW u \in Sessions, serial[t] \in displaced[u]
            PROVE  serial'[t] \in displaced'[u]
        BY <1>1, <1>6, <3>4
      <3> QED BY <3>1, <3>2, <3>3, <3>4 DEF EvictedOnlyByNewer
    <2> QED BY <2>1, <2>2
  <1>11. ClosedIsSuperseded'
    <2> SUFFICES ASSUME NEW j \in Ids, entries'[j].origin = "direct"
                 PROVE  /\ entries'[j].handle \notin told
                        /\ \A t \in Sessions : entries'[j].handle \notin displaced'[t]
      BY <1>1 DEF ClosedIsSuperseded
    <2>1. CASE j = i
      <3>1. serial[s] \notin told /\ \A t \in Sessions : serial[s] \notin displaced[t]
        BY <1>1 DEF TicketFreshInv
      <3>2. serial[s] \notin displaced'[s]
        BY <1>1, <1>5 DEF SerialsInv, HasSerial
      <3> QED BY <1>1, <2>1, <3>1, <3>2
    <2>2. CASE j # i
      <3>1. entries'[j] = entries[j] /\ entries[j].origin = "direct"
        BY <1>1, <2>2
      <3>2. PICK t \in Sessions : SessionDevice[t] = j /\ Live(t) /\ serial[t] = entries[j].handle
        BY <3>1 DEF DirectHasTunnel
      <3>3. entries[j].handle \notin displaced'[s]
        BY <1>1, <1>5, <2>2, <3>2 DEF SerialsInv, HasSerial
      <3> QED BY <1>1, <3>1, <3>3 DEF ClosedIsSuperseded
    <2> QED BY <2>1, <2>2
  <1> QED BY <1>7, <1>8, <1>9, <1>10, <1>11

\* `run` closes what it displaced: the handle moves from `displaced` to `told`.
LEMMA CloseDisplacedStep ==
    ASSUME TunnelInv, TypeOK', NEW s \in Sessions, CloseDisplaced(s)
    PROVE  SerialsInv' /\ TicketFreshInv' /\ DirectHasTunnel' /\ EvictedOnlyByNewer' /\ ClosedIsSuperseded'
  <1> USE DEF TunnelInv, TypeOK, tableVars
  <1>1. /\ phase[s] = "registered" /\ phase'[s] = "open"
        /\ \A t \in Sessions : t # s => phase'[t] = phase[t] /\ displaced'[t] = displaced[t]
        /\ told' = told \cup displaced[s] /\ displaced'[s] = {}
        /\ UNCHANGED <<entries, serial, sequence>>
    BY DEF CloseDisplaced
  <1>2. \A t \in Sessions : (HasSerial(t)' <=> HasSerial(t)) /\ (Live(t)' <=> Live(t))
    BY <1>1 DEF HasSerial, Live
  <1>3. \A t \in Sessions : \A n \in displaced'[t] : n \in displaced[t]
    BY <1>1
  <1>4. SerialsInv'
    <2>1. \A n \in told' : n < sequence'
      BY <1>1 DEF SerialsInv
    <2>2. \A t \in Sessions : \A n \in displaced'[t] : n < sequence'
      BY <1>1, <1>3 DEF SerialsInv
    <2>3. \A t \in Sessions : phase'[t] # "registered" => displaced'[t] = {}
      BY <1>1 DEF SerialsInv
    <2> QED BY <1>1, <1>2, <2>1, <2>2, <2>3 DEF SerialsInv
  <1>5. TicketFreshInv'
    BY <1>1, <1>3 DEF TicketFreshInv
  <1>6. DirectHasTunnel'
    <2> SUFFICES ASSUME NEW i \in Ids, entries[i].origin = "direct"
                 PROVE  \E t \in Sessions :
                           SessionDevice[t] = i /\ Live(t)' /\ serial[t] = entries[i].handle
      BY <1>1 DEF DirectHasTunnel
    <2> QED BY <1>2 DEF DirectHasTunnel
  <1>7. EvictedOnlyByNewer'
    <2> SUFFICES ASSUME NEW t \in Sessions, Live(t)
                 PROVE  \/ Listed(t)' \/ serial[t] \in told'
                        \/ \E u \in Sessions : serial[t] \in displaced'[u]
      BY <1>1, <1>2 DEF EvictedOnlyByNewer
    <2>1. Listed(t)' <=> Listed(t)
      BY <1>1 DEF Listed
    <2> QED BY <1>1, <2>1 DEF EvictedOnlyByNewer
  <1>8. ClosedIsSuperseded'
    BY <1>1, <1>3 DEF ClosedIsSuperseded
  <1> QED BY <1>4, <1>5, <1>6, <1>7, <1>8

\* disconnect() removes a direct entry only if it is the task's own.
LEMMA DisconnectStep ==
    ASSUME TunnelInv, TypeOK', NEW s \in Sessions, Disconnect(s)
    PROVE  SerialsInv' /\ TicketFreshInv' /\ DirectHasTunnel' /\ EvictedOnlyByNewer' /\ ClosedIsSuperseded'
  <1> USE DEF TunnelInv, TypeOK, tableVars
  <1> DEFINE i == SessionDevice[s]
  <1>1. /\ phase[s] = "closing" /\ phase'[s] = "leaving"
        /\ \A t \in Sessions : t # s => phase'[t] = phase[t]
        /\ UNCHANGED <<displaced, told, serial, sequence>>
    BY DEF Disconnect
  <1>2. /\ \A t \in Sessions : HasSerial(t)' => HasSerial(t)
        /\ \A t \in Sessions : t # s => (Live(t)' <=> Live(t))
        /\ Live(s) /\ ~ Live(s)' /\ i \in Ids
    BY <1>1 DEF HasSerial, Live
  <1>3. \A j \in Ids : entries'[j].origin = "direct" => entries'[j] = entries[j]
    BY DEF Disconnect, DisconnectListed, is_registered, gone_ids, relay_links_without, withdrawn_without, DisconnectSuperseded, NoEntry
  <1>4. \A j \in Ids : entries[j].origin = "direct" /\ j # i => entries'[j] = entries[j]
    BY DEF Disconnect, DisconnectListed, is_registered, gone_ids, relay_links_without, withdrawn_without, DisconnectSuperseded, announced_ids_of
  <1>5. ~ Listed(s) => entries' = entries
    BY DEF Disconnect, DisconnectListed, is_registered, gone_ids, relay_links_without, withdrawn_without, DisconnectSuperseded
  <1>6. Listed(s) => entries'[i].origin = "none"
    BY <1>2 DEF Disconnect, DisconnectListed, is_registered, gone_ids, relay_links_without, withdrawn_without, DisconnectSuperseded, NoEntry
  <1>7. SerialsInv'
    BY <1>1, <1>2 DEF SerialsInv
  <1>8. TicketFreshInv'
    BY <1>1 DEF TicketFreshInv
  <1>9. DirectHasTunnel'
    <2> SUFFICES ASSUME NEW j \in Ids, entries'[j].origin = "direct"
                 PROVE  \E t \in Sessions :
                           SessionDevice[t] = j /\ Live(t)' /\ serial[t] = entries'[j].handle
      BY <1>1 DEF DirectHasTunnel
    <2>1. entries'[j] = entries[j]
      BY <1>3
    <2>2. PICK t \in Sessions : SessionDevice[t] = j /\ Live(t) /\ serial[t] = entries[j].handle
      BY <2>1 DEF DirectHasTunnel
    <2>3. t # s
      BY <1>6, <2>1, <2>2 DEF Listed
    <2> QED BY <1>2, <2>1, <2>2, <2>3
  <1>10. EvictedOnlyByNewer'
    <2> SUFFICES ASSUME NEW t \in Sessions, Live(t)', Listed(t)
                 PROVE  Listed(t)'
      BY <1>1, <1>2 DEF EvictedOnlyByNewer
    <2>1. t # s /\ Live(t)
      BY <1>2
    <2>2. serial[t] # serial[s]
      BY <1>2, <2>1 DEF SerialsInv, HasSerial
    <2>3. CASE SessionDevice[t] = i
      <3>1. ~ Listed(s)
        BY <2>2, <2>3 DEF Listed
      <3> QED BY <1>1, <1>5, <3>1 DEF Listed
    <2>4. CASE SessionDevice[t] # i
      BY <1>1, <1>4, <2>4 DEF Listed
    <2> QED BY <2>3, <2>4
  <1>11. ClosedIsSuperseded'
    BY <1>1, <1>3 DEF ClosedIsSuperseded
  <1> QED BY <1>7, <1>8, <1>9, <1>10, <1>11

\* Only links announce, and only desktops are announced, whatever step is taken.
LEMMA FramesStep ==
    ASSUME TunnelInv, TypeOK', NEW s \in Sessions, Tunnel(s) \/ ControlFrames(s)
    PROVE  FramesInv'
  <1> USE DEF TunnelInv, TypeOK, tableVars, handlerVars
  <1>1. CASE AcceptHello(s) \/ TakeSerial(s) \/ CloseDisplaced(s) \/ EndRead(s) \/ Leave(s) \/ Publish(s)
    <2>1. UNCHANGED <<entries, pend, stale, item>>
      BY <1>1 DEF AcceptHello, TakeSerial, CloseDisplaced, EndRead, Leave, Publish
    <2> QED BY <2>1 DEF FramesInv
  <1>2. ASSUME NEW r \in RelayIds \cup {None}, Connect(s, r) PROVE FramesInv'
    BY <1>2 DEF Connect, DirectEntry, FramesInv, Ids
  <1>3. CASE Disconnect(s)
    <2>1. \A j \in Ids : entries'[j].origin = "announced" => entries'[j] = entries[j]
      BY <1>3 DEF Disconnect, DisconnectListed, is_registered, gone_ids, relay_links_without, withdrawn_without, DisconnectSuperseded, NoEntry
    <2>2. UNCHANGED <<pend, stale, item>>
      BY <1>3 DEF Disconnect
    <2> QED BY <2>1, <2>2 DEF FramesInv, Ids
  <1>4. ASSUME NEW snapshot \in [Desktops -> Vias \cup {<<>>}], ReceiveAnnounce(s, snapshot)
        PROVE  FramesInv'
    BY <1>4 DEF ReceiveAnnounce, ReadsFrame, FramesInv
  <1>5. ASSUME NEW d \in Desktops, NEW via \in Vias, ReceiveDeviceOnline(s, d, via)
        PROVE  FramesInv'
    BY <1>5 DEF ReceiveDeviceOnline, ReadsFrame, FramesInv
  <1>6. ASSUME NEW d \in Desktops, ReceiveDeviceOffline(s, d) PROVE FramesInv'
    BY <1>6 DEF ReceiveDeviceOffline, ReadsFrame, FramesInv
  <1>7. ASSUME NEW d \in Desktops, RejectUnroutable(s, d) PROVE FramesInv'
    BY <1>7 DEF RejectUnroutable, FramesInv
  <1>8. ASSUME NEW d \in Desktops, TakeTicket(s, d) PROVE FramesInv'
    BY <1>8 DEF TakeTicket, FramesInv
  <1>9. ASSUME NEW d \in Desktops, WithdrawDevice(s, d) PROVE FramesInv'
    <2>1. \A j \in Ids : entries'[j].origin = "announced" => entries'[j] = entries[j]
      BY <1>9 DEF WithdrawDevice, WithdrawOwned, WithdrawForeign, NoEntry
    <2>2. /\ UNCHANGED <<pend, item>>
          /\ \A t \in Sessions : stale'[t] \subseteq stale[t]
      BY <1>9 DEF WithdrawDevice
    <2> QED BY <2>1, <2>2 DEF FramesInv, Ids
  <1>10. CASE AnnounceDevice(s)
    <2>1. PICK d \in Desktops : /\ item[s] = d
                                /\ InstallAnnounced(s, d) \/ KeepExisting(s, d)
                                /\ pend' = [pend EXCEPT ![s] = [@ EXCEPT ![d] = <<>>]]
                                /\ item' = [item EXCEPT ![s] = None]
      BY <1>10 DEF AnnounceDevice
    <2>2. SessionDevice[s] \in Links /\ d \notin Links
      BY <2>1 DEF FramesInv, Ids
    <2>3. \A t \in Sessions : stale'[t] \subseteq stale[t]
      <3>1. CASE InstallAnnounced(s, d)
        BY <3>1 DEF InstallAnnounced
      <3>2. CASE KeepExisting(s, d)
        BY <3>2 DEF KeepExisting
      <3> QED BY <2>1, <3>1, <3>2
    <2>4. \A t \in Sessions : SessionDevice[t] \notin Links =>
             pend'[t] = pend[t] /\ item'[t] = item[t]
      BY <2>1, <2>2
    <2>5. \A j \in Ids : entries'[j].origin = "announced" =>
             entries'[j] = entries[j] \/ (j \in Desktops /\ j \notin Links /\ entries'[j].link \in Links)
      BY <2>1, <2>2 DEF InstallAnnounced, KeepExisting, AnnouncedEntry
    <2> QED BY <2>3, <2>4, <2>5 DEF FramesInv, Ids
  <1> QED
    BY <1>1, <1>2, <1>3, <1>4, <1>5, <1>6, <1>7, <1>8, <1>9, <1>10 DEF Tunnel, ControlFrames

LEMMA NextTunnelInv == TunnelInv /\ [Next]_vars => TunnelInv'
  <1> SUFFICES ASSUME TunnelInv, [Next]_vars PROVE TunnelInv'
    OBVIOUS
  <1>1. CASE UNCHANGED vars
    BY <1>1 DEF vars, tableVars, handlerVars, TunnelInv, TypeOK, FramesInv, SerialsInv, TicketFreshInv,
       DirectHasTunnel, EvictedOnlyByNewer, ClosedIsSuperseded, HasSerial, Live, Listed
  <1>2. ASSUME NEW s \in Sessions, Tunnel(s) \/ ControlFrames(s) PROVE TunnelInv'
    <2>1. TypeOK'
      BY <1>2, TypeStep DEF TunnelInv
    <2>2. FramesInv'
      BY <1>2, <2>1, FramesStep
    <2> DEFINE Rest == SerialsInv /\ TicketFreshInv /\ DirectHasTunnel /\ EvictedOnlyByNewer
                       /\ ClosedIsSuperseded
    <2>3. ASSUME ControlFrames(s) PROVE Rest'
      <3>1. DirectKept /\ UNCHANGED <<phase, serial, displaced, told>>
            /\ sequence' \in Nat /\ sequence <= sequence'
        BY <2>3, FramesKeepDirect DEF TunnelInv
      <3>2. \A t \in Sessions : Live(t)' <=> Live(t)
        BY <3>1 DEF Live
      <3> QED BY <3>1, <3>2, QuietStep
    <2>4. ASSUME AcceptHello(s) \/ EndRead(s) \/ Leave(s) \/ Publish(s) PROVE Rest'
      <3>1. /\ UNCHANGED <<entries, serial, displaced, told, sequence>>
            /\ \A t \in Sessions : /\ phase'[t] = "ticketed" <=> phase[t] = "ticketed"
                                   /\ phase'[t] = "registered" <=> phase[t] = "registered"
                                   /\ Live(t)' <=> Live(t)
        BY <2>4 DEF AcceptHello, EndRead, Leave, Publish, tableVars, TunnelInv, TypeOK, Live
      <3>2. DirectKept /\ sequence' \in Nat /\ sequence <= sequence'
        BY <3>1 DEF DirectKept, TunnelInv, TypeOK
      <3> QED BY <3>1, <3>2, QuietStep
    <2>5. ASSUME TakeSerial(s) PROVE Rest'
      BY <2>1, <2>5, TakeSerialStep
    <2>6. ASSUME NEW r \in RelayIds \cup {None}, Connect(s, r) PROVE Rest'
      BY <2>1, <2>6, ConnectStep
    <2>7. ASSUME CloseDisplaced(s) PROVE Rest'
      BY <2>1, <2>7, CloseDisplacedStep
    <2>8. ASSUME Disconnect(s) PROVE Rest'
      BY <2>1, <2>8, DisconnectStep
    <2>9. Rest'
      BY <1>2, <2>3, <2>4, <2>5, <2>6, <2>7, <2>8 DEF Tunnel
    <2> QED BY <2>1, <2>2, <2>9 DEF TunnelInv
  <1> QED BY <1>1, <1>2 DEF Next

\* Every variable keeps its type, for any number of devices, links and tunnels.
THEOREM TypeCorrect == Spec => []TypeOK
  <1>1. TunnelInv => TypeOK
    BY DEF TunnelInv
  <1> QED BY <1>1, InitTunnelInv, NextTunnelInv, PTL DEF Spec

\* A direct entry always belongs to a live tunnel of its device: no interleaving of reconnects and
\* clean-ups leaves the entry of a finished tunnel in the table.
THEOREM DirectEntriesAreLive == Spec => []DirectHasTunnel
  <1>1. TunnelInv => DirectHasTunnel
    BY DEF TunnelInv
  <1> QED BY <1>1, InitTunnelInv, NextTunnelInv, PTL DEF Spec

\* The serial guard of disconnect(): a live tunnel is evicted only by a newer one of its device.
THEOREM NewestTunnelStays == Spec => []EvictedOnlyByNewer
  <1>1. TunnelInv => EvictedOnlyByNewer
    BY DEF TunnelInv
  <1> QED BY <1>1, InitTunnelInv, NextTunnelInv, PTL DEF Spec

\* The tunnel that connect() hands to its task to close is never the registered one, even when the
\* close() comes after further reconnects of the device.
THEOREM OnlySupersededClosed == Spec => []ClosedIsSuperseded
  <1>1. TunnelInv => ClosedIsSuperseded
    BY DEF TunnelInv
  <1> QED BY <1>1, InitTunnelInv, NextTunnelInv, PTL DEF Spec

-----------------------------------------------------------------------------
(* The two indexes beside the entries: relay_links and withdrawn.          *)

LEMMA InitTableInv == Init => TableInv
  BY DEF Init, TableInv, RelayLinksRegistered, WithdrawnIsOffline

LEMMA NextTableInv == TunnelInv /\ TunnelInv' /\ TableInv /\ [Next]_vars => TableInv'
  <1> SUFFICES ASSUME TunnelInv, TunnelInv', TableInv, [Next]_vars PROVE TableInv'
    OBVIOUS
  <1> USE DEF TunnelInv, TypeOK, tableVars, handlerVars
  <1>1. CASE UNCHANGED vars
    BY <1>1 DEF vars, TableInv, RelayLinksRegistered, WithdrawnIsOffline
  <1>2. ASSUME NEW s \in Sessions,
               AcceptHello(s) \/ TakeSerial(s) \/ CloseDisplaced(s) \/ EndRead(s) \/ Leave(s) \/ Publish(s)
        PROVE  TableInv'
    <2>1. UNCHANGED tableVars
      BY <1>2 DEF AcceptHello, TakeSerial, CloseDisplaced, EndRead, Leave, Publish
    <2> QED BY <2>1 DEF TableInv, RelayLinksRegistered, WithdrawnIsOffline
  <1>3. ASSUME NEW s \in Sessions, NEW r \in RelayIds \cup {None}, Connect(s, r) PROVE TableInv'
    <2> DEFINE i == SessionDevice[s]
    <2>1. /\ entries'[i].origin = "direct"
          /\ \A j \in Ids : j # i => entries'[j] = entries[j]
          /\ i \in Ids
      BY <1>3 DEF Connect, DirectEntry
    <2>2. \A q \in RelayIds : relay_links'[q] = relay_links[q] \/ relay_links'[q] = i
      BY <1>3 DEF Connect
    <2>3. RelayLinksRegistered'
      <3> SUFFICES ASSUME NEW q \in RelayIds, relay_links'[q] # None
                   PROVE  entries'[relay_links'[q]].origin = "direct"
        BY DEF RelayLinksRegistered
      <3>1. CASE relay_links'[q] = i
        BY <2>1, <3>1
      <3>2. CASE relay_links'[q] # i
        <4>1. /\ relay_links'[q] = relay_links[q] /\ relay_links[q] \in Ids
              /\ entries[relay_links[q]].origin = "direct"
          BY <2>2, <3>2 DEF TableInv, RelayLinksRegistered, Ids
        <4> QED BY <2>1, <3>2, <4>1
      <3> QED BY <3>1, <3>2
    <2>4. \A d \in Desktops : withdrawn'[d] = IF d = i THEN None ELSE withdrawn[d]
      BY <1>3 DEF Connect
    <2>5. WithdrawnIsOffline'
      <3> SUFFICES ASSUME NEW d \in Desktops, withdrawn'[d] # None PROVE entries'[d].origin = "none"
        BY DEF WithdrawnIsOffline
      <3>1. d # i /\ withdrawn[d] # None /\ d \in Ids
        BY <2>4 DEF Ids
      <3> QED BY <2>1, <3>1 DEF TableInv, WithdrawnIsOffline
    <2> QED BY <2>3, <2>5 DEF TableInv
  <1>4. ASSUME NEW s \in Sessions, Disconnect(s) PROVE TableInv'
    <2> DEFINE i == SessionDevice[s]
    <2>1. CASE DisconnectListed(s)
      <3>1. /\ \A j \in Ids : entries'[j] = entries[j] \/ entries'[j].origin = "none"
            /\ \A j \in Ids : entries[j].origin = "direct" /\ j # i => entries'[j] = entries[j]
        BY <2>1 DEF DisconnectListed, is_registered, gone_ids, relay_links_without, withdrawn_without, announced_ids_of, NoEntry
      <3>2. /\ \A q \in RelayIds : relay_links'[q] # None => relay_links'[q] = relay_links[q] /\ relay_links[q] # i
            /\ \A d \in Desktops : withdrawn'[d] # None => withdrawn'[d] = withdrawn[d]
        BY <2>1 DEF DisconnectListed, is_registered, gone_ids, relay_links_without, withdrawn_without
      <3>3. RelayLinksRegistered'
        BY <3>1, <3>2 DEF TableInv, RelayLinksRegistered, Ids
      <3>4. WithdrawnIsOffline'
        BY <3>1, <3>2 DEF TableInv, WithdrawnIsOffline, Ids
      <3> QED BY <3>3, <3>4 DEF TableInv
    <2>2. CASE DisconnectSuperseded(s)
      BY <2>2 DEF DisconnectSuperseded, TableInv, RelayLinksRegistered, WithdrawnIsOffline
    <2> QED BY <1>4, <2>1, <2>2 DEF Disconnect
  <1>5. ASSUME NEW s \in Sessions, ControlFrames(s) PROVE TableInv'
    <2>1. DirectKept /\ UNCHANGED relay_links
      BY <1>5, FramesKeepDirect
    <2>2. RelayLinksRegistered'
      BY <2>1 DEF TableInv, RelayLinksRegistered, DirectKept, Ids
    <2>3. ASSUME UNCHANGED <<entries, withdrawn>> PROVE WithdrawnIsOffline'
      BY <2>3 DEF TableInv, WithdrawnIsOffline
    <2>4. ASSUME NEW d \in Desktops, WithdrawDevice(s, d) PROVE WithdrawnIsOffline'
      BY <2>4 DEF WithdrawDevice, WithdrawOwned, WithdrawForeign, NoEntry, TableInv, WithdrawnIsOffline, Ids
    <2>5. ASSUME NEW d \in Desktops, InstallAnnounced(s, d) PROVE WithdrawnIsOffline'
      BY <2>5 DEF InstallAnnounced, TableInv, WithdrawnIsOffline, Ids
    <2>6. CASE AnnounceDevice(s)
      BY <2>3, <2>5, <2>6, <2>2 DEF AnnounceDevice, KeepExisting, TableInv
    <2>7. CASE /\ ~ AnnounceDevice(s)
               /\ \A d \in Desktops : ~ WithdrawDevice(s, d)
      <3>1. UNCHANGED <<entries, withdrawn>>
        BY <1>5, <2>7 DEF ControlFrames, ReceiveAnnounce, ReceiveDeviceOnline, ReceiveDeviceOffline,
           RejectUnroutable, TakeTicket
      <3> QED BY <2>2, <2>3, <3>1 DEF TableInv
    <2> QED BY <2>2, <2>4, <2>6, <2>7 DEF TableInv
  <1> QED BY <1>1, <1>2, <1>3, <1>4, <1>5 DEF Next, Tunnel

\* relay_links, the index hop_names() reads, never names a link that is gone.
THEOREM HopsAreRegistered == Spec => []RelayLinksRegistered
  <1>1. TableInv => RelayLinksRegistered
    BY DEF TableInv
  <1> QED BY <1>1, InitTunnelInv, NextTunnelInv, InitTableInv, NextTableInv, PTL DEF Spec

\* withdrawn, the index last_known() reads, never names a device that is routed.
THEOREM WithdrawnAreOffline == Spec => []WithdrawnIsOffline
  <1>1. TableInv => WithdrawnIsOffline
    BY DEF TableInv
  <1> QED BY <1>1, InitTunnelInv, NextTunnelInv, InitTableInv, NextTableInv, PTL DEF Spec

-----------------------------------------------------------------------------
(* Links that have one tunnel at a time.                                   *)

LEMMA InitLinkInv == Init => LinkInv
  BY DEF Init, LinkInv, AnnouncedThroughLiveLink, WithdrawnWhileLinkUp, Live, NoEntry, Ids

\* The parts of LinkInv about tunnels and routes carry over a step that keeps the table's routes,
\* the set of live tunnels and their serials, and lets no claim go that is not being withdrawn.
LEMMA LinkQuietStep ==
    ASSUME LinkInv, TypeOK, UNCHANGED <<entries, withdrawn>>,
           \A s \in Sessions : (Live(s)' <=> Live(s)) /\ (Live(s) => serial'[s] = serial[s]),
           \A s \in Sessions, d \in Desktops : pend'[s][d] # <<>> => phase'[s] = "open" /\ d \in claims'[s],
           \A s \in Sessions, d \in Desktops : item'[s] = d => pend'[s][d] # <<>>,
           \A s \in Sessions, d \in Desktops :
              entries[d].origin = "announced" /\ entries[d].link = SessionDevice[s] /\ Live(s)
                 => d \in claims'[s] \cup stale'[s]
    PROVE  LinkInv'
  <1>1. \A s \in Sessions : Live(s) => (Listed(s)' <=> Listed(s))
    BY DEF Listed
  <1>2. AnnouncedThroughLiveLink'
    <2> SUFFICES ASSUME NEW d \in Desktops, entries[d].origin = "announced"
                 PROVE  \E s \in Sessions : /\ SessionDevice[s] = entries[d].link
                                            /\ Live(s)' /\ Listed(s)'
                                            /\ serial'[s] = entries[d].handle
      BY DEF AnnouncedThroughLiveLink
    <2>1. PICK s \in Sessions : /\ SessionDevice[s] = entries[d].link
                                /\ Live(s) /\ Listed(s)
                                /\ serial[s] = entries[d].handle
      BY DEF LinkInv, AnnouncedThroughLiveLink
    <2> QED BY <1>1, <2>1
  <1>3. WithdrawnWhileLinkUp'
    BY DEF LinkInv, WithdrawnWhileLinkUp
  <1>4. \A s \in Sessions : SessionDevice[s] \in Links /\ Live(s)' => Listed(s)'
    BY <1>1 DEF LinkInv
  <1> QED BY <1>2, <1>3, <1>4 DEF LinkInv

LEMMA NextLinkInv ==
    LinksSequential /\ TunnelInv /\ TunnelInv' /\ LinkInv /\ [Next]_vars => LinkInv'
  <1> SUFFICES ASSUME LinksSequential, TunnelInv, TunnelInv', LinkInv, [Next]_vars PROVE LinkInv'
    OBVIOUS
  <1> USE DEF TunnelInv, TypeOK, tableVars, handlerVars
  <1>0. \A d \in Desktops : d \in Ids
    BY DEF Ids
  <1>a. \A s \in Sessions, d \in Desktops : pend[s][d] # <<>> => phase[s] = "open" /\ d \in claims[s]
    BY DEF LinkInv
  <1>b. \A s \in Sessions, d \in Desktops : item[s] = d => pend[s][d] # <<>>
    BY DEF LinkInv
  <1>c. \A s \in Sessions : SessionDevice[s] \in Links /\ Live(s) => Listed(s)
    BY DEF LinkInv
  <1>1. CASE UNCHANGED vars
    BY <1>1, LinkQuietStep DEF vars, LinkInv, Live
  <1>2. ASSUME NEW s \in Sessions,
               AcceptHello(s) \/ TakeSerial(s) \/ CloseDisplaced(s) \/ EndRead(s) \/ Publish(s)
        PROVE  LinkInv'
    <2>1. /\ UNCHANGED <<entries, withdrawn, pend, stale, item, claims>>
          /\ \A t \in Sessions : (Live(t)' <=> Live(t)) /\ (Live(t) => serial'[t] = serial[t])
      BY <1>2, SMTT(20) DEF AcceptHello, TakeSerial, CloseDisplaced, EndRead, Publish, Live
    <2>2. \A t \in Sessions, d \in Desktops : pend[t][d] # <<>> => phase'[t] = "open"
      <3>1. CASE EndRead(s)
        <4>1. \A d \in Desktops : pend[s][d] = <<>>
          BY <3>1 DEF EndRead, FrameDone
        <4>2. \A t \in Sessions : t # s => phase'[t] = phase[t]
          BY <3>1 DEF EndRead
        <4> QED BY <1>a, <4>1, <4>2
      <3>2. CASE ~ EndRead(s)
        <4>1. \A t \in Sessions : phase[t] = "open" => phase'[t] = "open"
          BY <1>2, <3>2 DEF AcceptHello, TakeSerial, CloseDisplaced, Publish
        <4> QED BY <1>a, <4>1
      <3> QED BY <3>1, <3>2
    <2> QED BY <2>1, <2>2, LinkQuietStep DEF LinkInv
  <1>3. ASSUME NEW s \in Sessions, NEW r \in RelayIds \cup {None}, Connect(s, r) PROVE LinkInv'
    <2> DEFINE i == SessionDevice[s]
    <2>1. /\ phase[s] = "ticketed" /\ phase'[s] = "registered"
          /\ \A t \in Sessions : t # s => phase'[t] = phase[t]
          /\ entries'[i].origin = "direct" /\ entries'[i].handle = serial[s]
          /\ \A j \in Ids : j # i => entries'[j] = entries[j]
          /\ UNCHANGED <<serial, pend, stale, item, claims>>
          /\ i \in Ids
          /\ \A d \in Desktops : withdrawn'[d] = IF d = i THEN None ELSE withdrawn[d]
      BY <1>3 DEF Connect, DirectEntry
    <2>2. ~ Live(s) /\ \A t \in Sessions : t # s => (Live(t)' <=> Live(t))
      BY <2>1 DEF Live
    <2>3. \A t \in Sessions : SessionDevice[t] = i /\ i \in Links => t = s
      BY DEF LinksSequential
    <2>4. \A t \in Sessions : SessionDevice[t] \in Links /\ Live(t)' => Listed(t)'
      <3> SUFFICES ASSUME NEW t \in Sessions, SessionDevice[t] \in Links, Live(t)' PROVE Listed(t)'
        OBVIOUS
      <3>1. CASE t = s
        BY <2>1, <3>1 DEF Listed
      <3>2. CASE t # s
        <4>1. Live(t) /\ Listed(t) /\ SessionDevice[t] # i
          BY <1>c, <2>2, <2>3, <3>2
        <4> QED BY <2>1, <4>1 DEF Listed
      <3> QED BY <3>1, <3>2
    <2>5. \A d \in Desktops : entries'[d].origin = "announced" =>
             entries'[d] = entries[d] /\ entries[d].link # i
      <3> SUFFICES ASSUME NEW d \in Desktops, entries'[d].origin = "announced"
                   PROVE  entries'[d] = entries[d] /\ entries[d].link # i
        OBVIOUS
      <3>1. entries'[d] = entries[d]
        BY <1>0, <2>1
      <3>2. PICK t \in Sessions : SessionDevice[t] = entries[d].link /\ Live(t)
        BY <3>1 DEF LinkInv, AnnouncedThroughLiveLink
      <3>3. entries[d].link \in Links
        BY <3>1 DEF FramesInv
      <3> QED BY <2>2, <2>3, <3>1, <3>2, <3>3
    <2>6. AnnouncedThroughLiveLink'
      <3> SUFFICES ASSUME NEW d \in Desktops, entries'[d].origin = "announced"
                   PROVE  \E t \in Sessions : /\ SessionDevice[t] = entries'[d].link
                                              /\ Live(t)' /\ Listed(t)'
                                              /\ serial'[t] = entries'[d].handle
        BY DEF AnnouncedThroughLiveLink
      <3>1. PICK t \in Sessions : /\ SessionDevice[t] = entries[d].link
                                  /\ Live(t) /\ Listed(t)
                                  /\ serial[t] = entries[d].handle
        BY <2>5 DEF LinkInv, AnnouncedThroughLiveLink
      <3>2. SessionDevice[t] # i /\ t # s
        BY <2>2, <2>5, <3>1
      <3>3. Listed(t)'
        BY <2>1, <3>1, <3>2 DEF Listed
      <3> QED BY <2>1, <2>2, <2>5, <3>1, <3>2, <3>3
    <2>7. WithdrawnWhileLinkUp'
      <3> SUFFICES ASSUME NEW d \in Desktops, withdrawn'[d] # None
                   PROVE  entries'[withdrawn'[d]].origin = "direct"
        BY DEF WithdrawnWhileLinkUp
      <3>1. /\ withdrawn'[d] = withdrawn[d] /\ withdrawn[d] # None /\ withdrawn[d] \in Ids
            /\ entries[withdrawn[d]].origin = "direct"
        BY <2>1 DEF LinkInv, WithdrawnWhileLinkUp, Ids
      <3> QED BY <2>1, <3>1
    <2>8. ASSUME NEW t \in Sessions, NEW d \in Desktops,
                 entries'[d].origin = "announced", entries'[d].link = SessionDevice[t], Live(t)'
          PROVE  d \in claims'[t] \cup stale'[t]
      <3>1. t # s /\ Live(t) /\ entries'[d] = entries[d]
        BY <2>2, <2>5, <2>8
      <3> QED BY <2>1, <2>8, <3>1 DEF LinkInv
    <2> QED BY <2>1, <2>4, <2>6, <2>7, <2>8 DEF LinkInv
  <1>4. ASSUME NEW s \in Sessions, Disconnect(s) PROVE LinkInv'
    <2> DEFINE i == SessionDevice[s]
    <2>1. /\ phase[s] = "closing" /\ phase'[s] = "leaving"
          /\ \A t \in Sessions : t # s => phase'[t] = phase[t]
          /\ UNCHANGED <<serial, pend, stale, item, claims>>
      BY <1>4 DEF Disconnect
    <2>2. Live(s) /\ ~ Live(s)' /\ \A t \in Sessions : t # s => (Live(t)' <=> Live(t))
      BY <2>1 DEF Live
    <2>3. /\ \A j \in Ids : entries'[j] = entries[j] \/ entries'[j].origin = "none"
          /\ \A j \in Ids : entries[j].origin = "direct" /\ j # i => entries'[j] = entries[j]
      BY <1>4 DEF Disconnect, DisconnectListed, is_registered, gone_ids, relay_links_without, withdrawn_without, DisconnectSuperseded, announced_ids_of, NoEntry
    <2>4. \A d \in Desktops : entries'[d].origin = "announced" => entries[d].link # i
      <3> SUFFICES ASSUME NEW d \in Desktops, entries'[d].origin = "announced", entries[d].link = i
                   PROVE  FALSE
        OBVIOUS
      <3>1. entries'[d] = entries[d]
        BY <1>0, <2>3
      <3>2. i \in Links
        BY <3>1 DEF FramesInv
      <3>3. Listed(s)
        BY <2>2, <3>2 DEF LinkInv
      <3>4. DisconnectListed(s)
        BY <1>4, <3>3 DEF Disconnect, DisconnectSuperseded, is_registered
      <3>5. d \in announced_ids_of(i)
        BY <3>1 DEF announced_ids_of
      <3>6. entries'[d] = NoEntry
        BY <1>0, <3>4, <3>5 DEF DisconnectListed, is_registered, gone_ids, relay_links_without, withdrawn_without
      <3> QED BY <3>6 DEF NoEntry
    <2>5. \A t \in Sessions : SessionDevice[t] \in Links /\ Live(t)' => t # s /\ SessionDevice[t] # i
      BY <2>2 DEF LinksSequential
    <2>6. ASSUME NEW t \in Sessions, t # s, SessionDevice[t] # i, Live(t), Listed(t) PROVE Listed(t)'
      BY <2>1, <2>3, <2>6 DEF Listed
    <2>7. \A t \in Sessions : SessionDevice[t] \in Links /\ Live(t)' => Listed(t)'
      BY <2>2, <2>5, <2>6 DEF LinkInv
    <2>8. AnnouncedThroughLiveLink'
      <3> SUFFICES ASSUME NEW d \in Desktops, entries'[d].origin = "announced"
                   PROVE  \E t \in Sessions : /\ SessionDevice[t] = entries'[d].link
                                              /\ Live(t)' /\ Listed(t)'
                                              /\ serial'[t] = entries'[d].handle
        BY DEF AnnouncedThroughLiveLink
      <3>1. entries'[d] = entries[d] /\ entries[d].link # i
        BY <1>0, <2>3, <2>4
      <3>2. PICK t \in Sessions : /\ SessionDevice[t] = entries[d].link
                                  /\ Live(t) /\ Listed(t)
                                  /\ serial[t] = entries[d].handle
        BY <3>1 DEF LinkInv, AnnouncedThroughLiveLink
      <3> QED BY <2>1, <2>2, <2>6, <3>1, <3>2
    <2>9. WithdrawnWhileLinkUp'
      <3>1. CASE DisconnectListed(s)
        <4> SUFFICES ASSUME NEW d \in Desktops, withdrawn'[d] # None
                     PROVE  entries'[withdrawn'[d]].origin = "direct"
          BY DEF WithdrawnWhileLinkUp
        <4>1. withdrawn'[d] = withdrawn[d] /\ withdrawn[d] # i /\ withdrawn[d] \in Ids
          BY <3>1 DEF DisconnectListed, is_registered, gone_ids, relay_links_without, withdrawn_without, Ids
        <4> QED BY <2>3, <4>1 DEF LinkInv, WithdrawnWhileLinkUp
      <3>2. CASE DisconnectSuperseded(s)
        BY <3>2 DEF DisconnectSuperseded, LinkInv, WithdrawnWhileLinkUp
      <3> QED BY <1>4, <3>1, <3>2 DEF Disconnect
    <2>10. ASSUME NEW t \in Sessions, NEW d \in Desktops,
                  entries'[d].origin = "announced", entries'[d].link = SessionDevice[t], Live(t)'
           PROVE  d \in claims'[t] \cup stale'[t]
      BY <1>0, <2>1, <2>2, <2>3, <2>10 DEF LinkInv
    <2> QED BY <2>1, <2>7, <2>8, <2>9, <2>10 DEF LinkInv
  <1>5. ASSUME NEW s \in Sessions, Leave(s) PROVE LinkInv'
    <2>1. /\ UNCHANGED <<entries, withdrawn, serial, pend, stale, item>>
          /\ phase[s] = "leaving" /\ phase'[s] = "idle"
          /\ \A t \in Sessions : t # s => phase'[t] = phase[t] /\ claims'[t] = claims[t]
      BY <1>5 DEF Leave
    <2>2. \A t \in Sessions : (Live(t)' <=> Live(t)) /\ (Live(t) => t # s)
      BY <2>1 DEF Live
    <2>3. \A t \in Sessions, d \in Desktops :
             pend'[t][d] # <<>> => phase'[t] = "open" /\ d \in claims'[t]
      BY <2>1 DEF LinkInv
    <2> QED BY <2>1, <2>2, <2>3, LinkQuietStep DEF LinkInv
  <1>6. ASSUME NEW s \in Sessions, NEW snapshot \in [Desktops -> Vias \cup {<<>>}],
               ReceiveAnnounce(s, snapshot)
        PROVE  LinkInv'
    <2>1. /\ UNCHANGED <<entries, withdrawn, serial, phase, item>>
          /\ phase[s] = "open" /\ item[s] = None
          /\ pend'[s] = snapshot /\ stale'[s] = announced_ids_of(SessionDevice[s])
          /\ claims'[s] = {d \in Desktops : snapshot[d] # <<>>}
          /\ \A t \in Sessions : t # s =>
                pend'[t] = pend[t] /\ stale'[t] = stale[t] /\ claims'[t] = claims[t]
      BY <1>6 DEF ReceiveAnnounce, ReadsFrame, FrameDone
    <2>2. ASSUME NEW t \in Sessions, NEW d \in Desktops, pend'[t][d] # <<>>
          PROVE  phase'[t] = "open" /\ d \in claims'[t]
      <3>1. CASE t = s
        BY <2>1, <2>2, <3>1
      <3>2. CASE t # s
        BY <1>a, <2>1, <2>2, <3>2
      <3> QED BY <3>1, <3>2
    <2>3. ASSUME NEW t \in Sessions, NEW d \in Desktops, item'[t] = d PROVE pend'[t][d] # <<>>
      <3>1. CASE t = s
        BY <1>0, <2>1, <2>3, <3>1
      <3>2. CASE t # s
        BY <1>b, <2>1, <2>3, <3>2
      <3> QED BY <3>1, <3>2
    <2>4. ASSUME NEW t \in Sessions, NEW d \in Desktops,
                 entries[d].origin = "announced", entries[d].link = SessionDevice[t], Live(t)
          PROVE  d \in claims'[t] \cup stale'[t]
      BY <2>1, <2>4 DEF LinkInv, announced_ids_of
    <2>5. \A t \in Sessions : Live(t)' <=> Live(t)
      BY <2>1 DEF Live
    <2> QED BY <2>1, <2>2, <2>3, <2>4, <2>5, LinkQuietStep
  <1>7. ASSUME NEW s \in Sessions, NEW d \in Desktops, NEW via \in Vias,
               ReceiveDeviceOnline(s, d, via)
        PROVE  LinkInv'
    <2>1. /\ UNCHANGED <<entries, withdrawn, serial, phase, item, stale>>
          /\ phase[s] = "open" /\ item[s] = None
          /\ \A e \in Desktops : pend'[s][e] # <<>> => e \in claims'[s]
          /\ claims'[s] = claims[s] \cup {d}
          /\ \A t \in Sessions : t # s => pend'[t] = pend[t] /\ claims'[t] = claims[t]
      BY <1>7 DEF ReceiveDeviceOnline, ReadsFrame, FrameDone
    <2>2. ASSUME NEW t \in Sessions, NEW e \in Desktops, pend'[t][e] # <<>>
          PROVE  phase'[t] = "open" /\ e \in claims'[t]
      <3>1. CASE t = s
        BY <1>a, <2>1, <2>2, <3>1
      <3>2. CASE t # s
        BY <1>a, <2>1, <2>2, <3>2
      <3> QED BY <3>1, <3>2
    <2>3. ASSUME NEW t \in Sessions, NEW e \in Desktops, item'[t] = e PROVE pend'[t][e] # <<>>
      <3>1. CASE t = s
        BY <1>0, <2>1, <2>3, <3>1
      <3>2. CASE t # s
        BY <1>b, <2>1, <2>3, <3>2
      <3> QED BY <3>1, <3>2
    <2>4. ASSUME NEW t \in Sessions, NEW e \in Desktops,
                 entries[e].origin = "announced", entries[e].link = SessionDevice[t], Live(t)
          PROVE  e \in claims'[t] \cup stale'[t]
      BY <2>1, <2>4 DEF LinkInv
    <2>5. \A t \in Sessions : Live(t)' <=> Live(t)
      BY <2>1 DEF Live
    <2> QED BY <2>1, <2>2, <2>3, <2>4, <2>5, LinkQuietStep
  <1>8. ASSUME NEW s \in Sessions, NEW d \in Desktops, ReceiveDeviceOffline(s, d) PROVE LinkInv'
    <2>1. /\ UNCHANGED <<entries, withdrawn, serial, phase, item, pend>>
          /\ pend[s] = [e \in Desktops |-> <<>>]
          /\ stale[s] = {} /\ stale'[s] = {d}
          /\ claims'[s] = claims[s] \ {d}
          /\ \A t \in Sessions : t # s => stale'[t] = stale[t] /\ claims'[t] = claims[t]
      BY <1>8 DEF ReceiveDeviceOffline, ReadsFrame, FrameDone
    <2>2. ASSUME NEW t \in Sessions, NEW e \in Desktops, pend'[t][e] # <<>>
          PROVE  phase'[t] = "open" /\ e \in claims'[t]
      <3>1. CASE t = s
        BY <1>a, <2>1, <2>2, <3>1
      <3>2. CASE t # s
        BY <1>a, <2>1, <2>2, <3>2
      <3> QED BY <3>1, <3>2
    <2>3. ASSUME NEW t \in Sessions, NEW e \in Desktops, item'[t] = e PROVE pend'[t][e] # <<>>
      BY <2>1, <2>3 DEF LinkInv
    <2>4. ASSUME NEW t \in Sessions, NEW e \in Desktops,
                 entries[e].origin = "announced", entries[e].link = SessionDevice[t], Live(t)
          PROVE  e \in claims'[t] \cup stale'[t]
      BY <2>1, <2>4 DEF LinkInv
    <2>5. \A t \in Sessions : Live(t)' <=> Live(t)
      BY <2>1 DEF Live
    <2> QED BY <2>1, <2>2, <2>3, <2>4, <2>5, LinkQuietStep
  <1>9. ASSUME NEW s \in Sessions, NEW d \in Desktops, RejectUnroutable(s, d) PROVE LinkInv'
    <2>1. /\ UNCHANGED <<entries, withdrawn, serial, phase, item, stale, claims>>
          /\ item[s] = None
          /\ pend'[s] = [pend[s] EXCEPT ![d] = <<>>]
          /\ \A t \in Sessions : t # s => pend'[t] = pend[t]
      BY <1>9 DEF RejectUnroutable
    <2>2. ASSUME NEW t \in Sessions, NEW e \in Desktops, pend'[t][e] # <<>>
          PROVE  phase'[t] = "open" /\ e \in claims'[t]
      <3>1. CASE t = s
        BY <1>a, <2>1, <2>2, <3>1
      <3>2. CASE t # s
        BY <1>a, <2>1, <2>2, <3>2
      <3> QED BY <3>1, <3>2
    <2>3. ASSUME NEW t \in Sessions, NEW e \in Desktops, item'[t] = e PROVE pend'[t][e] # <<>>
      <3>1. CASE t = s
        BY <1>0, <2>1, <2>3, <3>1
      <3>2. CASE t # s
        BY <1>b, <2>1, <2>3, <3>2
      <3> QED BY <3>1, <3>2
    <2>4. \A t \in Sessions : Live(t)' <=> Live(t)
      BY <2>1 DEF Live
    <2> QED BY <2>1, <2>2, <2>3, <2>4, LinkQuietStep DEF LinkInv
  <1>10. ASSUME NEW s \in Sessions, NEW d \in Desktops, TakeTicket(s, d) PROVE LinkInv'
    <2>1. /\ UNCHANGED <<entries, withdrawn, serial, phase, pend, stale, claims>>
          /\ item'[s] = d /\ pend[s][d] # <<>>
          /\ \A t \in Sessions : t # s => item'[t] = item[t]
      BY <1>10 DEF TakeTicket
    <2>2. ASSUME NEW t \in Sessions, NEW e \in Desktops, item'[t] = e PROVE pend'[t][e] # <<>>
      BY <2>1, <2>2 DEF LinkInv
    <2>3. \A t \in Sessions : Live(t)' <=> Live(t)
      BY <2>1 DEF Live
    <2> QED BY <2>1, <2>2, <2>3, LinkQuietStep DEF LinkInv
  <1>11. ASSUME NEW s \in Sessions, ControlFrames(s)
         PROVE  /\ \A t \in Sessions : (Live(t)' <=> Live(t)) /\ (Listed(t) => Listed(t)')
                /\ \A j \in Ids : entries[j].origin = "direct" => entries'[j].origin = "direct"
                /\ UNCHANGED <<phase, serial>>
    <2>1. DirectKept /\ UNCHANGED <<phase, serial>>
      BY <1>11, FramesKeepDirect
    <2> QED BY <2>1 DEF DirectKept, Live, Listed
  <1>12. ASSUME NEW s \in Sessions, NEW d \in Desktops, WithdrawDevice(s, d) PROVE LinkInv'
    <2>0. ControlFrames(s)
      BY <1>12 DEF ControlFrames
    <2>1. /\ phase[s] = "open" /\ UNCHANGED <<pend, item, claims>>
          /\ d \in stale[s] /\ stale'[s] = stale[s] \ {d}
          /\ \A t \in Sessions : t # s => stale'[t] = stale[t]
      BY <1>12 DEF WithdrawDevice
    <2>2. SessionDevice[s] \in Links /\ Live(s) /\ Listed(s)
      BY <2>1 DEF FramesInv, LinkInv, Live
    <2>3. /\ \A j \in Ids : entries'[j] = entries[j] \/ entries'[j].origin = "none"
          /\ ~ (entries'[d].origin = "announced" /\ entries'[d].link = SessionDevice[s])
          /\ \A e \in Desktops : withdrawn'[e] = withdrawn[e] \/ withdrawn'[e] = SessionDevice[s]
      BY <1>0, <1>12 DEF WithdrawDevice, WithdrawOwned, WithdrawForeign, announced_ids_of, NoEntry
    <2>4. AnnouncedThroughLiveLink'
      <3> SUFFICES ASSUME NEW e \in Desktops, entries'[e].origin = "announced"
                   PROVE  \E t \in Sessions : /\ SessionDevice[t] = entries'[e].link
                                              /\ Live(t)' /\ Listed(t)'
                                              /\ serial'[t] = entries'[e].handle
        BY DEF AnnouncedThroughLiveLink
      <3>1. entries'[e] = entries[e]
        BY <1>0, <2>3
      <3>2. PICK t \in Sessions : /\ SessionDevice[t] = entries[e].link
                                  /\ Live(t) /\ Listed(t)
                                  /\ serial[t] = entries[e].handle
        BY <3>1 DEF LinkInv, AnnouncedThroughLiveLink
      <3> QED BY <1>11, <2>0, <3>1, <3>2
    <2>5. WithdrawnWhileLinkUp'
      <3> SUFFICES ASSUME NEW e \in Desktops, withdrawn'[e] # None
                   PROVE  entries'[withdrawn'[e]].origin = "direct"
        BY DEF WithdrawnWhileLinkUp
      <3>1. CASE withdrawn'[e] = SessionDevice[s]
        BY <1>11, <2>0, <2>2, <3>1 DEF Listed
      <3>2. CASE withdrawn'[e] = withdrawn[e]
        <4>1. withdrawn[e] \in Ids /\ entries[withdrawn[e]].origin = "direct"
          BY <3>2 DEF LinkInv, WithdrawnWhileLinkUp, Ids
        <4> QED BY <1>11, <2>0, <3>2, <4>1
      <3> QED BY <2>3, <3>1, <3>2
    <2>6. ASSUME NEW t \in Sessions, NEW e \in Desktops,
                 entries'[e].origin = "announced", entries'[e].link = SessionDevice[t], Live(t)'
          PROVE  e \in claims'[t] \cup stale'[t]
      <3>1. entries'[e] = entries[e] /\ Live(t)
        BY <1>0, <1>11, <2>0, <2>3, <2>6
      <3>2. e \in claims[t] \cup stale[t]
        BY <2>6, <3>1 DEF LinkInv
      <3>3. t = s => e # d
        BY <2>3, <2>6
      <3> QED BY <2>1, <3>2, <3>3
    <2>7. \A t \in Sessions : SessionDevice[t] \in Links /\ Live(t)' => Listed(t)'
      BY <1>11, <2>0 DEF LinkInv
    <2>8. UNCHANGED phase
      BY <1>11, <2>0
    <2> QED BY <2>1, <2>4, <2>5, <2>6, <2>7, <2>8 DEF LinkInv
  <1>13. ASSUME NEW s \in Sessions, AnnounceDevice(s) PROVE LinkInv'
    <2>0. ControlFrames(s)
      BY <1>13 DEF ControlFrames
    <2>1. PICK d \in Desktops : /\ phase[s] = "open" /\ item[s] = d
                                /\ InstallAnnounced(s, d) \/ KeepExisting(s, d)
                                /\ pend' = [pend EXCEPT ![s] = [@ EXCEPT ![d] = <<>>]]
                                /\ item' = [item EXCEPT ![s] = None]
                                /\ UNCHANGED claims
      BY <1>13 DEF AnnounceDevice
    <2>2. SessionDevice[s] \in Links /\ Live(s) /\ Listed(s) /\ d \in claims[s]
      BY <1>0, <2>1 DEF FramesInv, LinkInv, Live
    <2>3. /\ \A e \in Desktops : \/ entries'[e] = entries[e]
                                 \/ /\ e = d /\ entries'[e].link = SessionDevice[s]
                                    /\ entries'[e].handle = serial[s]
          /\ \A e \in Desktops : withdrawn'[e] = withdrawn[e] \/ withdrawn'[e] = None
          /\ \A t \in Sessions, e \in Desktops : e \in stale[t] => e \in stale'[t] \/ (t = s /\ e = d)
      <3>1. CASE InstallAnnounced(s, d)
        BY <1>0, <3>1 DEF InstallAnnounced, AnnouncedEntry
      <3>2. CASE KeepExisting(s, d)
        BY <3>2 DEF KeepExisting
      <3> QED BY <2>1, <3>1, <3>2
    <2>4. AnnouncedThroughLiveLink'
      <3> SUFFICES ASSUME NEW e \in Desktops, entries'[e].origin = "announced"
                   PROVE  \E t \in Sessions : /\ SessionDevice[t] = entries'[e].link
                                              /\ Live(t)' /\ Listed(t)'
                                              /\ serial'[t] = entries'[e].handle
        BY DEF AnnouncedThroughLiveLink
      <3>1. CASE entries'[e] = entries[e]
        <4>1. PICK t \in Sessions : /\ SessionDevice[t] = entries[e].link
                                    /\ Live(t) /\ Listed(t)
                                    /\ serial[t] = entries[e].handle
          BY <3>1 DEF LinkInv, AnnouncedThroughLiveLink
        <4> QED BY <1>11, <2>0, <3>1, <4>1
      <3>2. CASE entries'[e].link = SessionDevice[s] /\ entries'[e].handle = serial[s]
        BY <1>11, <2>0, <2>2, <3>2
      <3> QED BY <2>3, <3>1, <3>2
    <2>5. WithdrawnWhileLinkUp'
      <3> SUFFICES ASSUME NEW e \in Desktops, withdrawn'[e] # None
                   PROVE  entries'[withdrawn'[e]].origin = "direct"
        BY DEF WithdrawnWhileLinkUp
      <3>1. /\ withdrawn'[e] = withdrawn[e] /\ withdrawn[e] \in Ids
            /\ entries[withdrawn[e]].origin = "direct"
        BY <2>3 DEF LinkInv, WithdrawnWhileLinkUp, Ids
      <3> QED BY <1>11, <2>0, <3>1
    <2>6. ASSUME NEW t \in Sessions, NEW e \in Desktops,
                 entries'[e].origin = "announced", entries'[e].link = SessionDevice[t], Live(t)'
          PROVE  e \in claims'[t] \cup stale'[t]
      <3>1. Live(t)
        BY <1>11, <2>0, <2>6
      <3>2. CASE e = d /\ t = s
        BY <2>1, <2>2, <3>2
      <3>3. CASE entries'[e] = entries[e] /\ ~ (e = d /\ t = s)
        BY <2>1, <2>3, <2>6, <3>1, <3>3 DEF LinkInv
      <3>4. CASE e = d /\ entries'[e].link = SessionDevice[s]
        <4>1. t = s
          BY <2>2, <2>6, <3>4 DEF LinksSequential
        <4> QED BY <3>2, <3>4, <4>1
      <3> QED BY <2>3, <3>2, <3>3, <3>4
    <2>7. \A t \in Sessions : SessionDevice[t] \in Links /\ Live(t)' => Listed(t)'
      BY <1>11, <2>0 DEF LinkInv
    <2>8. UNCHANGED phase
      BY <1>11, <2>0
    <2>9. ASSUME NEW t \in Sessions, NEW e \in Desktops, pend'[t][e] # <<>>
          PROVE  phase'[t] = "open" /\ e \in claims'[t]
      BY <2>1, <2>8, <2>9 DEF LinkInv
    <2>10. ASSUME NEW t \in Sessions, NEW e \in Desktops, item'[t] = e PROVE pend'[t][e] # <<>>
      BY <1>0, <2>1, <2>10 DEF LinkInv
    <2> QED BY <2>4, <2>5, <2>6, <2>7, <2>9, <2>10 DEF LinkInv
  <1> QED
    BY <1>1, <1>2, <1>3, <1>4, <1>5, <1>6, <1>7, <1>8, <1>9, <1>10, <1>12, <1>13
       DEF Next, Tunnel, ControlFrames

\* While no link has two tunnels at once, an announced route always leads through a live and
\* registered tunnel of its link.
THEOREM LinkRoutesAreLive == LinksSequential => (Spec => []AnnouncedThroughLiveLink)
  <1> SUFFICES ASSUME LinksSequential PROVE Spec => []AnnouncedThroughLiveLink
    OBVIOUS
  <1>1. LinkInv => AnnouncedThroughLiveLink
    BY DEF LinkInv
  <1>2. TunnelInv /\ TunnelInv' /\ LinkInv /\ [Next]_vars => LinkInv'
    BY NextLinkInv
  <1> QED BY <1>1, <1>2, InitTunnelInv, NextTunnelInv, InitLinkInv, PTL DEF Spec

\* While no link has two tunnels at once, a withdrawn device is forgotten with the link it was
\* withdrawn by.
THEOREM WithdrawnGoWithLink == LinksSequential => (Spec => []WithdrawnWhileLinkUp)
  <1> SUFFICES ASSUME LinksSequential PROVE Spec => []WithdrawnWhileLinkUp
    OBVIOUS
  <1>1. LinkInv => WithdrawnWhileLinkUp
    BY DEF LinkInv
  <1>2. TunnelInv /\ TunnelInv' /\ LinkInv /\ [Next]_vars => LinkInv'
    BY NextLinkInv
  <1> QED BY <1>1, <1>2, InitTunnelInv, NextTunnelInv, InitLinkInv, PTL DEF Spec

\* While no link has two tunnels at once, no route outlives what its relay last said.
THEOREM RoutesAreClaimed == LinksSequential => (Spec => []RoutedIsClaimed)
  <1> SUFFICES ASSUME LinksSequential PROVE Spec => []RoutedIsClaimed
    OBVIOUS
  <1>1. LinkInv => RoutedIsClaimed
    <2> SUFFICES ASSUME LinkInv, NEW d \in Desktops, NEW s \in Sessions,
                        entries[d].origin = "announced", SessionDevice[s] = entries[d].link,
                        Live(s), FrameDone(s)
                 PROVE  d \in claims[s]
      BY DEF RoutedIsClaimed
    <2>1. stale[s] = {} /\ d \in claims[s] \cup stale[s]
      BY DEF FrameDone, LinkInv
    <2> QED BY <2>1
  <1>2. TunnelInv /\ TunnelInv' /\ LinkInv /\ [Next]_vars => LinkInv'
    BY NextLinkInv
  <1> QED BY <1>1, <1>2, InitTunnelInv, NextTunnelInv, InitLinkInv, PTL DEF Spec

-----------------------------------------------------------------------------
(* The table implements ChangeSource.                                      *)

\* A task that is about to enter the table's lock has published all that it left unpublished before.
OutInv ==
    /\ \A s \in Sessions : phase[s] \in {"idle", "accepted", "ticketed", "closing"} => out[s] = {}
    /\ \A s \in Sessions : item[s] # None => phase[s] = "open" /\ out[s] = {} /\ pend[s][item[s]] # <<>>

LEMMA InitOutInv == Init => OutInv
  BY DEF Init, OutInv

\* Every step is a step of one task, and moves only that task's stage, frame and changes.
LEMMA OneTask ==
    ASSUME TypeOK, OutInv, NEW s \in Sessions,
           \A t \in Sessions : t # s => /\ phase'[t] = phase[t] /\ item'[t] = item[t] /\ out'[t] = out[t]
                                       /\ pend'[t] = pend[t],
           phase'[s] \in {"idle", "accepted", "ticketed", "closing"} => out'[s] = {},
           item'[s] # None => phase'[s] = "open" /\ out'[s] = {} /\ pend'[s][item'[s]] # <<>>
    PROVE  OutInv'
  BY DEF OutInv

LEMMA NextOutInv == TypeOK /\ OutInv /\ [Next]_vars => OutInv'
  <1> SUFFICES ASSUME TypeOK, OutInv, [Next]_vars PROVE OutInv'
    OBVIOUS
  <1> USE DEF TypeOK, tableVars, handlerVars
  <1>1. CASE UNCHANGED vars
    BY <1>1 DEF vars, OutInv
  <1>2. ASSUME NEW s \in Sessions, Tunnel(s) PROVE OutInv'
    <2>1. /\ phase[s] \in {"idle", "accepted", "ticketed", "closing"} => out[s] = {}
          /\ item[s] # None => phase[s] = "open" /\ out[s] = {} /\ pend[s][item[s]] # <<>>
      BY DEF OutInv
    <2>2. CASE AcceptHello(s) \/ TakeSerial(s) \/ CloseDisplaced(s) \/ Leave(s)
      BY <2>1, <2>2, OneTask, ZenonT(40) DEF AcceptHello, TakeSerial, CloseDisplaced, Leave
    <2>3. CASE EndRead(s)
      BY <2>1, <2>3, OneTask DEF EndRead, FrameDone
    <2>4. ASSUME NEW r \in RelayIds \cup {None}, Connect(s, r) PROVE OutInv'
      BY <2>1, <2>4, OneTask DEF Connect
    <2>5. CASE Disconnect(s)
      BY <2>1, <2>5, OneTask DEF Disconnect, DisconnectListed, DisconnectSuperseded
    <2>6. CASE Publish(s)
      BY <2>1, <2>6, OneTask DEF Publish
    <2> QED BY <1>2, <2>2, <2>3, <2>4, <2>5, <2>6 DEF Tunnel
  <1>3. ASSUME NEW s \in Sessions, ControlFrames(s) PROVE OutInv'
    <2>1. /\ phase[s] \in {"idle", "accepted", "ticketed", "closing"} => out[s] = {}
          /\ item[s] # None => phase[s] = "open" /\ out[s] = {} /\ pend[s][item[s]] # <<>>
      BY DEF OutInv
    <2>2. CASE \E snapshot \in [Desktops -> Vias \cup {<<>>}] : ReceiveAnnounce(s, snapshot)
      BY <2>1, <2>2, OneTask DEF ReceiveAnnounce, ReadsFrame, FrameDone
    <2>3. CASE \E d \in Desktops : \E via \in Vias : ReceiveDeviceOnline(s, d, via)
      BY <2>1, <2>3, OneTask DEF ReceiveDeviceOnline, ReadsFrame, FrameDone
    <2>4. CASE \E d \in Desktops : ReceiveDeviceOffline(s, d) \/ RejectUnroutable(s, d)
      BY <2>1, <2>4, OneTask DEF ReceiveDeviceOffline, RejectUnroutable
    <2>5. CASE \E d \in Desktops : TakeTicket(s, d)
      BY <2>1, <2>5, OneTask, ZenonT(40) DEF TakeTicket
    <2>6. CASE \E d \in Desktops : WithdrawDevice(s, d)
      BY <2>1, <2>6, OneTask DEF WithdrawDevice, WithdrawOwned, WithdrawForeign
    <2>7. CASE AnnounceDevice(s)
      BY <2>1, <2>7, OneTask DEF AnnounceDevice, InstallAnnounced, KeepExisting
    <2> QED BY <1>3, <2>2, <2>3, <2>4, <2>5, <2>6, <2>7 DEF ControlFrames
  <1> QED BY <1>1, <1>2, <1>3 DEF Next

\* A critical section that gives one desktop a route no longer than the one it had.
LEMMA RouteSection ==
    ASSUME TypeOK, FramesInv, TypeOK', NEW s \in Sessions, out[s] = {},
           NEW d \in Desktops, NEW new \in Entry, new.hops \in Vias \cup {<<>>}, new.origin # "none",
           entries[d].origin # "none" => Len(new.hops) <= Len(entries[d].hops),
           entries' = [entries EXCEPT ![d] = new],
           out' = [out EXCEPT ![s] = transition(d, entries[d], new)]
    PROVE  Source!Update(s)
  <1> DEFINE online == [e \in Desktops |-> announcement_of(e, entries[e])]
             chain == <<Self>> \o new.hops
  <1>1. d \in Ids /\ d \notin Links /\ entries[d] \in Entry
    BY DEF TypeOK, Ids
  <1>2. /\ announcement_of(d, new) = chain /\ chain # <<>>
        /\ Len(chain) = Len(new.hops) + 1 /\ Len(new.hops) \in Nat
    BY <1>1, AnnouncementOf
  <1>3. online[d] # <<>> => Len(chain) <= Len(online[d])
    <2>1. CASE entries[d].origin = "none"
      BY <1>1, <2>1, AnnouncementOf
    <2>2. CASE entries[d].origin # "none"
      <3>1. Len(online[d]) = Len(entries[d].hops) + 1 /\ Len(entries[d].hops) \in Nat
        BY <1>1, <2>2, AnnouncementOf
      <3>2. Len(new.hops) <= Len(entries[d].hops)
        BY <2>2
      <3> HIDE DEF online, chain
      <3> QED BY <1>2, <3>1, <3>2
    <2> QED BY <2>1, <2>2
  <1>4. [e \in Desktops |-> announcement_of(e, entries'[e])] = [online EXCEPT ![d] = chain]
    <2>1. entries'[d] = new /\ \A e \in Desktops \ {d} : entries'[e] = entries[e]
      BY <1>1 DEF TypeOK, Ids
    <2>2. announcement_of(d, entries'[d]) = chain
      BY <1>2, <2>1
    <2>3. \A e \in Desktops \ {d} : announcement_of(e, entries'[e]) = online[e]
      BY <2>1
    <2>4. [online EXCEPT ![d] = chain] = [e \in Desktops |-> IF e = d THEN chain ELSE online[e]]
      <3> HIDE DEF chain
      <3> QED OBVIOUS
    <2>5. \A e \in Desktops : announcement_of(e, entries'[e]) = IF e = d THEN chain ELSE online[e]
      BY <2>2, <2>3
    <2> HIDE DEF chain, online
    <2> QED BY <2>4, <2>5
  <1>5. transition(d, entries[d], new) = {[id |-> d, via |-> chain]}
    BY <1>2 DEF transition
  <1>6. chain \in {<<Self>> \o via : via \in Vias \cup {<<>>}}
    OBVIOUS
  <1>7. Source!RouteOne(s, d, chain)
    <2> HIDE DEF chain
    <2> QED BY <1>3, <1>4, <1>5 DEF Source!RouteOne
  <1> HIDE DEF chain
  <1> QED BY <1>6, <1>7 DEF Source!Update

\* A critical section that empties some slots: the routed desktops among them are published as gone.
LEMMA LoseSection ==
    ASSUME TypeOK, FramesInv, NEW s \in Sessions, out[s] = {},
           NEW replaced \in SUBSET Ids,
           \A i \in Ids : entries'[i] = IF i \in replaced THEN NoEntry ELSE entries[i],
           out' = [out EXCEPT ![s] = UNION {transition(i, entries[i], NoEntry) : i \in replaced}]
    PROVE  Source!Update(s) \/ UNCHANGED Source!sourceVars
  <1> DEFINE online == [e \in Desktops |-> announcement_of(e, entries[e])]
             gone == {d \in Desktops : d \in replaced /\ online[d] # <<>>}
             changes == UNION {transition(i, entries[i], NoEntry) : i \in replaced}
             offline == {[id |-> d, via |-> <<>>] : d \in gone}
  <1>1. \A i \in Ids : /\ announcement_of(i, NoEntry) = <<>>
                       /\ i \notin Desktops => announcement_of(i, entries[i]) = <<>>
    <2> TAKE i \in Ids
    <2>1. entries[i] \in Entry /\ NoEntry \in Entry /\ NoEntry.origin = "none"
      BY EntryTypes DEF TypeOK, NoEntry
    <2>2. i \in Links => entries[i].origin # "announced" /\ NoEntry.origin # "announced"
      BY <2>1 DEF FramesInv
    <2> QED BY <2>1, <2>2, AnnouncementOf
  <1>2. [e \in Desktops |-> announcement_of(e, entries'[e])] = [e \in Desktops |-> IF e \in gone THEN <<>> ELSE online[e]]
    <2>1. ASSUME NEW e \in Desktops PROVE announcement_of(e, entries'[e]) = IF e \in gone THEN <<>> ELSE online[e]
      <3>1. e \in Ids
        BY DEF Ids
      <3> QED BY <1>1, <3>1
    <2> QED BY <2>1
  <1>3. \A i \in replaced : transition(i, entries[i], NoEntry) =
                               IF i \in gone THEN {[id |-> i, via |-> <<>>]} ELSE {}
    <2> TAKE i \in replaced
    <2>1. i \in gone <=> announcement_of(i, entries[i]) # <<>>
      BY <1>1
    <2> QED BY <1>1, <2>1 DEF transition
  <1>4. changes = offline
    <2>1. ASSUME NEW c \in changes PROVE c \in offline
      <3>1. PICK i \in replaced : c \in transition(i, entries[i], NoEntry)
        OBVIOUS
      <3>2. i \in gone /\ c = [id |-> i, via |-> <<>>]
        BY <1>3, <3>1
      <3> QED BY <3>2
    <2>2. ASSUME NEW c \in offline PROVE c \in changes
      <3>1. PICK d \in gone : c = [id |-> d, via |-> <<>>]
        OBVIOUS
      <3>2. d \in replaced /\ c \in transition(d, entries[d], NoEntry)
        BY <1>3, <3>1
      <3> QED BY <3>2
    <2> HIDE DEF changes, offline
    <2> QED BY <2>1, <2>2
  <1>5. \A d \in gone : online[d] # <<>>
    OBVIOUS
  <1>6. out' = [out EXCEPT ![s] = offline]
    BY <1>4
  <1>7. gone \in SUBSET Desktops
    OBVIOUS
  <1>8. CASE gone = {}
    <2>1. [e \in Desktops |-> announcement_of(e, entries'[e])] = online
      BY <1>2, <1>8
    <2>2. out' = out
      <3>1. offline = {}
        BY <1>8
      <3>2. out' = [out EXCEPT ![s] = {}]
        BY <1>6, <3>1
      <3>3. out \in [Sessions -> SUBSET Change] /\ out[s] = {}
        BY DEF TypeOK
      <3> HIDE DEF offline, changes, gone, online
      <3> QED BY <3>2, <3>3
    <2> QED BY <2>1, <2>2 DEF Source!sourceVars
  <1>9. CASE gone # {}
    <2>1. Source!LoseRoutes(s, gone)
      <3> HIDE DEF gone
      <3> QED BY <1>2, <1>5, <1>6 DEF Source!LoseRoutes
    <2> HIDE DEF gone
    <2> QED BY <1>7, <1>9, <2>1 DEF Source!Update
  <1> QED BY <1>8, <1>9

LEMMA RefinesInit == Init => Source!SourceInit
  <1> SUFFICES ASSUME Init PROVE Source!SourceInit
    OBVIOUS
  <1>1. \A d \in Desktops : announcement_of(d, entries[d]) = <<>>
    BY DEF Init, NoEntry, Ids, announcement_of
  <1>2. [d \in Desktops |-> announcement_of(d, entries[d])] = [d \in Desktops |-> <<>>]
    BY <1>1
  <1> QED BY <1>2 DEF Init, Source!SourceInit

\* A step that leaves the entries and the changes alone is a stutter of the abstract table.
LEMMA RefinesStutter ==
    ASSUME UNCHANGED <<entries, out>> PROVE UNCHANGED Source!sourceVars
  BY DEF Source!sourceVars

\* connect() gives a desktop the shortest chain there is, and says nothing of a link.
LEMMA RefinesConnect ==
    ASSUME TypeOK, FramesInv, TypeOK', OutInv, NEW s \in Sessions, NEW r \in RelayIds \cup {None}, Connect(s, r)
    PROVE  Source!Update(s) \/ UNCHANGED Source!sourceVars
  <1> DEFINE i == SessionDevice[s]
             new == DirectEntry(i, serial[s])
  <1>1. /\ entries' = [entries EXCEPT ![i] = new]
        /\ out' = [out EXCEPT ![s] = transition(i, entries[i], new)]
        /\ out[s] = {}
    BY DEF Connect, OutInv
  <1>2. /\ i \in Ids /\ entries[i] \in Entry /\ serial[s] \in Nat
    BY DEF TypeOK
  <1>3. new \in Entry /\ new.hops = <<>> /\ new.origin = "direct"
    BY <1>2, EntryTypes DEF DirectEntry
  <1> HIDE DEF new, i
  <1>4. CASE i \in Desktops
    <2>1. Len(new.hops) = 0
      BY <1>3
    <2>2. Len(new.hops) <= Len(entries[i].hops)
      BY <1>2, <2>1 DEF Entry
    <2> QED BY <1>1, <1>3, <1>4, <2>2, RouteSection
  <1>5. CASE i \notin Desktops
    <2>1. i \in Links => entries[i].origin # "announced" /\ new.origin # "announced"
      BY <1>3 DEF FramesInv
    <2>2. announcement_of(i, entries[i]) = <<>> /\ announcement_of(i, new) = <<>>
      BY <1>2, <1>3, <1>5, <2>1, AnnouncementOf
    <2>3. transition(i, entries[i], new) = {}
      BY <2>2 DEF transition
    <2>4. out' = out
      BY <1>1, <2>3 DEF TypeOK
    <2>5. \A e \in Desktops : entries'[e] = entries[e]
      BY <1>1, <1>2, <1>5 DEF TypeOK, Ids
    <2> QED BY <2>4, <2>5 DEF Source!sourceVars
  <1> QED BY <1>4, <1>5

LEMMA RefinesNext ==
    TunnelInv /\ TunnelInv' /\ OutInv /\ [Next]_vars => [Source!SourceNext]_(Source!sourceVars)
  <1> SUFFICES ASSUME TunnelInv, TunnelInv', OutInv, [Next]_vars
               PROVE  Source!SourceNext \/ UNCHANGED Source!sourceVars
    OBVIOUS
  <1>0. TypeOK /\ FramesInv /\ TypeOK' /\ FramesInv'
    BY DEF TunnelInv
  <1>1. CASE UNCHANGED vars
    BY <1>1, RefinesStutter DEF vars, tableVars
  <1>2. ASSUME NEW s \in Sessions, Tunnel(s) PROVE Source!SourceNext \/ UNCHANGED Source!sourceVars
    <2>1. CASE AcceptHello(s) \/ TakeSerial(s) \/ CloseDisplaced(s) \/ EndRead(s) \/ Leave(s)
      BY <2>1, RefinesStutter DEF AcceptHello, TakeSerial, CloseDisplaced, EndRead, Leave, tableVars
    <2>2. ASSUME NEW r \in RelayIds \cup {None}, Connect(s, r)
          PROVE  Source!SourceNext \/ UNCHANGED Source!sourceVars
      BY <1>0, <2>2, RefinesConnect DEF Source!SourceNext
    <2>3. CASE Disconnect(s) /\ DisconnectListed(s)
      <3> DEFINE gone == gone_ids(SessionDevice[s])
      <3>1. gone \in SUBSET Ids
        BY DEF gone_ids, announced_ids_of, Ids
      <3>2. /\ \A i \in Ids : entries'[i] = IF i \in gone THEN NoEntry ELSE entries[i]
            /\ out' = [out EXCEPT ![s] = UNION {transition(i, entries[i], NoEntry) : i \in gone}]
        BY <2>3 DEF DisconnectListed
      <3>3. out[s] = {}
        BY <2>3 DEF Disconnect, OutInv
      <3> HIDE DEF gone
      <3> QED BY <1>0, <3>1, <3>2, <3>3, LoseSection DEF Source!SourceNext
    <2>4. CASE Disconnect(s) /\ DisconnectSuperseded(s)
      BY <2>4, RefinesStutter DEF Disconnect, DisconnectSuperseded, tableVars
    <2>5. CASE Publish(s)
      <3>1. PICK c \in out[s] : out' = [out EXCEPT ![s] = @ \ {c}] /\ entries' = entries
        BY <2>5 DEF Publish, tableVars
      <3>2. Source!PublishOne(s, c)
        BY <3>1 DEF Source!PublishOne
      <3> QED BY <3>2 DEF Source!SourceNext
    <2> QED BY <1>2, <2>1, <2>2, <2>3, <2>4, <2>5 DEF Tunnel, Disconnect
  <1>3. ASSUME NEW s \in Sessions, ControlFrames(s) PROVE Source!SourceNext \/ UNCHANGED Source!sourceVars
    <2>1. CASE \E snapshot \in [Desktops -> Vias \cup {<<>>}] : ReceiveAnnounce(s, snapshot)
      BY <2>1, RefinesStutter DEF ReceiveAnnounce, tableVars
    <2>2. CASE \E d \in Desktops : \/ \E via \in Vias : ReceiveDeviceOnline(s, d, via)
                                   \/ ReceiveDeviceOffline(s, d) \/ RejectUnroutable(s, d) \/ TakeTicket(s, d)
      BY <2>2, RefinesStutter DEF ReceiveDeviceOnline, ReceiveDeviceOffline, RejectUnroutable, TakeTicket, tableVars
    <2>3. ASSUME NEW d \in Desktops, WithdrawDevice(s, d) PROVE Source!SourceNext \/ UNCHANGED Source!sourceVars
      <3>0. d \in Ids /\ out[s] = {}
        BY <2>3 DEF WithdrawDevice, Ids
      <3>1. CASE WithdrawOwned(s, d)
        <4> DEFINE gone == {d}
        <4>1. /\ gone \in SUBSET Ids
              /\ \A i \in Ids : entries'[i] = IF i \in gone THEN NoEntry ELSE entries[i]
          BY <1>0, <3>0, <3>1 DEF WithdrawOwned, TypeOK
        <4>2. UNION {transition(i, entries[i], NoEntry) : i \in gone} = transition(d, entries[d], NoEntry)
          OBVIOUS
        <4>3. out' = [out EXCEPT ![s] = UNION {transition(i, entries[i], NoEntry) : i \in gone}]
          BY <3>1, <4>2 DEF WithdrawOwned
        <4> HIDE DEF gone
        <4> QED BY <1>0, <3>0, <4>1, <4>3, LoseSection DEF Source!SourceNext
      <3>2. CASE WithdrawForeign(s, d)
        BY <3>0, <3>2, RefinesStutter DEF WithdrawForeign
      <3> QED BY <2>3, <3>1, <3>2 DEF WithdrawDevice
    <2>4. CASE AnnounceDevice(s)
      <3>1. PICK d \in Desktops : item[s] = d /\ (InstallAnnounced(s, d) \/ KeepExisting(s, d))
        BY <2>4 DEF AnnounceDevice
      <3>2. d \in Ids /\ d # None /\ out[s] = {} /\ pend[s][d] # <<>>
        BY <2>4, <3>1 DEF AnnounceDevice, OutInv, Ids
      <3>3. CASE InstallAnnounced(s, d)
        <4> DEFINE via == pend[s][d]
                   new == AnnouncedEntry(SessionDevice[s], serial[s], via, ticket[s])
        <4>1. via \in Vias \cup {<<>>} /\ SessionDevice[s] \in Ids /\ serial[s] \in Nat /\ ticket[s] \in Nat
          BY <1>0 DEF TypeOK
        <4>2. new \in Entry /\ new.hops = via /\ new.origin = "announced"
          BY <4>1, EntryTypes DEF AnnouncedEntry
        <4>3. /\ entries' = [entries EXCEPT ![d] = new]
              /\ out' = [out EXCEPT ![s] = transition(d, entries[d], new)]
              /\ entries[d].origin = "none" \/ replaces(entries[d], via, ticket[s])
          BY <3>3 DEF InstallAnnounced
        <4>4. via \in Seq(RelayIds) /\ entries[d].hops \in Seq(RelayIds)
          BY <1>0, <3>2, <4>1 DEF TypeOK, Entry
        <4> HIDE DEF via, new
        <4>5. entries[d].origin # "none" => Len(new.hops) <= Len(entries[d].hops)
          BY <4>2, <4>3, <4>4 DEF replaces
        <4> QED BY <1>0, <3>2, <4>1, <4>2, <4>3, <4>5, RouteSection DEF Source!SourceNext
      <3>4. CASE KeepExisting(s, d)
        BY <3>2, <3>4, RefinesStutter DEF KeepExisting
      <3> QED BY <3>1, <3>3, <3>4
    <2> QED BY <1>3, <2>1, <2>2, <2>3, <2>4 DEF ControlFrames
  <1> QED BY <1>1, <1>2, <1>3 DEF Next

\* The routing table implements ChangeSource: whatever the tasks interleave, each critical section of
\* connect(), disconnect(), announce_device() and withdraw_device() leaves exactly the changes it made
\* to be published, with the task that made them, and that task publishes them all before it enters
\* the lock again.
THEOREM RegistryRefinesChangeSource == Spec => ImplementsChangeSource
  <1>1. TunnelInv => TypeOK
    BY DEF TunnelInv
  <1> QED
    BY <1>1, InitTunnelInv, NextTunnelInv, InitOutInv, NextOutInv, RefinesInit, RefinesNext, PTL
       DEF Spec, ImplementsChangeSource, Source!SourceSpec
=============================================================================
