----------------------------- MODULE RelayChain -----------------------------
(***************************************************************************)
(* Relays joined into a chain: the handshake and its loop guard            *)
(* (src/src/upstream/session.rs, addresses.rs), the announcements that     *)
(* climb the chain, and the streams that descend it                        *)
(* (src/src/proxy.rs, src/src/upstream/forward.rs).                        *)
(*                                                                         *)
(* One device is attached, or not, to the relay Home.  Each relay has at   *)
(* most one upstream link.  When a link goes down its upstream learns of   *)
(* that later: until then its session may read more of the frames that     *)
(* were sent, also after the relay has joined again.                       *)
(***************************************************************************)
EXTENDS Integers, Sequences, FiniteSets, SequencesExt

CONSTANTS
    Relays,
    Home,        \* the relay the device enrolled with
    MAX_HOPS,    \* hop budget of a stream preface
    None,        \* "no relay"
    WireBound,   \* bound on the announcements in flight per link
    MaxMoves,    \* bound on handshakes begun and links that go down, together
    MaxToggles   \* bound on the device's attachments and detachments

ASSUME RelayChainAssumption ==
    /\ Home \in Relays /\ None \notin Relays
    /\ MAX_HOPS \in Nat /\ WireBound \in Nat
    /\ MaxMoves \in Nat /\ MaxToggles \in Nat

VARIABLES
    up,       \* the upstream each relay's link is connected to
    chain,    \* UpstreamReach.chain of each relay
    offer,    \* the welcome on its way to each relay
    ending,   \* sessions that are down at the lower end, which the upstream has not ended yet
    routes,   \* each relay's entry for the device
    wire,     \* announcement frames on each relay's upstream link
    stream,   \* one stream on its way to the device
    steady,   \* history: the tables had settled when it was opened, and nothing changed since
    strayed,  \* history: links on which a displaced session had the last word
    moves, toggles

chainVars == <<up, chain, offer>>
tableVars == <<routes, wire, ending, strayed>>
vars == <<chainVars, tableVars, stream, steady, moves, toggles>>

NoOffer == [from |-> None, chain |-> <<>>]
NoRoute == [src |-> None, hops |-> <<>>]
Direct(r) == [src |-> r, hops |-> <<>>]
Ended(state) == [state |-> state, at |-> None, hops |-> <<>>]

Routed(r) == routes[r] # NoRoute
Attached == routes[Home] = Direct(Home)

Init ==
    /\ up = [r \in Relays |-> None]
    /\ chain = [r \in Relays |-> <<>>]
    /\ offer = [r \in Relays |-> NoOffer]
    /\ ending = {}
    /\ routes = [r \in Relays |-> NoRoute]
    /\ wire = [r \in Relays |-> <<>>]
    /\ stream = Ended("none") /\ steady = FALSE /\ strayed = {}
    /\ moves = 0 /\ toggles = 0

-----------------------------------------------------------------------------
(* What a relay tells its upstream.                                        *)

\* announcement_of(): this relay first, then the hops its entry already carries.
ViaOf(r, route) == <<r>> \o route.hops

is_routable_for(r, route, u) == u \notin ToSet(ViaOf(r, route))

\* Mutated: only what is online is told.
ChangeFramesOnline(r, route, u) ==
    IF u = None \/ route = NoRoute \/ ~ is_routable_for(r, route, u) THEN <<>>
    ELSE <<[kind |-> "online", via |-> ViaOf(r, route)]>>

\* announcement_frame(): an unroutable announcement is not sent, a withdrawal always is.
ChangeFrames(r, route, u) ==
    IF u = None THEN <<>>
    ELSE IF route = NoRoute THEN <<[kind |-> "offline", via |-> <<>>]>>
    ELSE IF is_routable_for(r, route, u) THEN <<[kind |-> "online", via |-> ViaOf(r, route)]>>
    ELSE <<>>

\* snapshot_frame(): everything this relay can offer the upstream u.
SnapshotFrame(r, u) ==
    [kind |-> "announce",
     via  |-> IF Routed(r) /\ is_routable_for(r, routes[r], u) THEN ViaOf(r, routes[r]) ELSE <<>>]

\* A change of r's own entry, and its announcement on r's link if r has one.
Reroute(r, route) ==
    /\ routes' = [routes EXCEPT ![r] = route]
    /\ Len(wire[r]) < WireBound
    /\ wire' = [wire EXCEPT ![r] = @ \o ChangeFrames(r, route, up[r])]

-----------------------------------------------------------------------------
(* The handshake.                                                          *)

\* accept_hello() on u: welcome carries u's id and the chain above it at this moment.
Welcome(r, u) ==
    /\ up[r] = None /\ offer[r] = NoOffer
    /\ moves < MaxMoves
    /\ offer' = [offer EXCEPT ![r] = [from |-> u, chain |-> chain[u]]]
    /\ moves' = moves + 1
    /\ UNCHANGED <<up, chain, tableVars, stream, toggles>>

refuse_loop(r) == offer[r].from = r \/ r \in ToSet(offer[r].chain)

\* The welcome describes a chain this relay is already in: the session ends before it begins.
RefuseLoop(r) ==
    /\ offer[r] # NoOffer
    /\ refuse_loop(r)
    /\ offer' = [offer EXCEPT ![r] = NoOffer]
    /\ UNCHANGED <<up, chain, tableVars, stream, moves, toggles>>

\* adopt(): the upstream, and what it said is above it.
chain_of(u, above) == <<u>> \o above

\* adopt() and the first snapshot; u registers the tunnel, and displaces one of r that it still has.
Adopt(r) ==
    LET u == offer[r].from IN
    /\ offer[r] # NoOffer
    /\ ~ refuse_loop(r)
    /\ up' = [up EXCEPT ![r] = u]
    /\ chain' = [chain EXCEPT ![r] = chain_of(u, offer[r].chain)]
    /\ ending' = {IF s.from = r /\ s.to = u THEN [s EXCEPT !.registered = FALSE] ELSE s : s \in ending}
    /\ wire' = [wire EXCEPT ![r] = <<SnapshotFrame(r, u)>>]
    /\ offer' = [offer EXCEPT ![r] = NoOffer]
    /\ UNCHANGED <<routes, strayed, stream, moves, toggles>>

\* Addresses from upstream: the addresses are the new ones, the chain is still the welcome's, so the
\* chain a relay offers to those that join it does not change with the chain above it.

\* The session ends on this side: withdraw().  What was sent may still be read.
LinkDown(r) ==
    /\ up[r] # None
    /\ moves < MaxMoves
    /\ moves' = moves + 1
    /\ up' = [up EXCEPT ![r] = None]
    /\ chain' = [chain EXCEPT ![r] = <<>>]
    /\ wire' = [wire EXCEPT ![r] = <<>>]
    /\ ending' = ending \cup {[from |-> r, to |-> up[r], registered |-> TRUE, frames |-> wire[r]]}
    /\ UNCHANGED <<offer, routes, strayed, stream, toggles>>

\* The upstream's session ends as well, and what it did not read is lost: disconnect(), which does
\* nothing for a tunnel that was displaced.
EndSession(s) ==
    /\ ending' = ending \ {s}
    /\ strayed' = IF s.registered THEN strayed \ {<<s.from, s.to>>} ELSE strayed
    /\ IF s.registered /\ routes[s.to].src = s.from THEN Reroute(s.to, NoRoute) ELSE UNCHANGED <<routes, wire>>
    /\ UNCHANGED <<chainVars, stream, moves, toggles>>

-----------------------------------------------------------------------------
(* The device, and the announcements about it.                             *)

Attach ==
    /\ ~ Attached /\ toggles < MaxToggles
    /\ Reroute(Home, Direct(Home))
    /\ toggles' = toggles + 1
    /\ UNCHANGED <<chainVars, ending, strayed, stream, moves>>

Detach ==
    /\ Attached /\ toggles < MaxToggles
    /\ Reroute(Home, NoRoute)
    /\ toggles' = toggles + 1
    /\ UNCHANGED <<chainVars, ending, strayed, stream, moves>>

\* Mutated: a chain may be as long as a preface.
is_announcement_routable_late(u, via) == Len(via) <= MAX_HOPS /\ u \notin ToSet(via)

is_announcement_routable(u, via) == Len(via) < MAX_HOPS /\ u \notin ToSet(via)

\* A candidate arrives after the entry it competes with, so an equally short one wins.
replaces(u, via) == routes[u].src # u /\ Len(via) <= Len(routes[u].hops)

Accepts(u, via) ==
    /\ via # <<>>
    /\ is_announcement_routable(u, via)
    /\ ~ Routed(u) \/ replaces(u, via)

\* What handle_frame() on u makes of a frame from r: a route of r's, or none any more, or nothing changes.
Withdraws(u, r, f) == f.kind \in {"offline", "announce"} /\ routes[u].src = r

Taken(u, r, f) == IF Accepts(u, f.via) THEN [src |-> r, hops |-> f.via] ELSE NoRoute

\* u's session reads the frame f of r, and w is left on the links.
Receive(u, r, f, w) ==
    IF Accepts(u, f.via) \/ Withdraws(u, r, f)
    THEN /\ routes' = [routes EXCEPT ![u] = Taken(u, r, f)]
         /\ Len(wire[u]) < WireBound
         /\ wire' = [w EXCEPT ![u] = @ \o ChangeFrames(u, Taken(u, r, f), up[u])]
    ELSE wire' = w /\ UNCHANGED routes

\* The next frame of r's link reaches its upstream.
Deliver(r) ==
    LET f == Head(wire[r]) IN
    /\ up[r] # None /\ wire[r] # <<>>
    /\ Receive(up[r], r, f, [wire EXCEPT ![r] = Tail(@)])
    /\ strayed' = IF f.kind = "announce" THEN strayed \ {<<r, up[r]>>} ELSE strayed
    /\ UNCHANGED <<chainVars, ending, stream, moves, toggles>>

\* A session that is down at the other end still reads a frame.
DeliverLate(s) ==
    /\ s.frames # <<>>
    /\ Receive(s.to, s.from, Head(s.frames), wire)
    /\ ending' = (ending \ {s}) \cup {[s EXCEPT !.frames = Tail(@)]}
    /\ strayed' = IF s.registered THEN strayed ELSE strayed \cup {<<s.from, s.to>>}
    /\ UNCHANGED <<chainVars, stream, moves, toggles>>

-----------------------------------------------------------------------------
(* Streams.                                                                *)

\* The tunnel a route is opened on is up at both ends.
LinkUp(x, route) == route.src # x /\ up[route.src] = x

\* One hop further: delivered to the attached device, handed to the next relay, or failed.  Where a
\* displaced session had the last word the route's tunnel may be that session's own.
Carry(x, hops) ==
    \/ /\ routes[x].src = x
       /\ stream' = Ended("delivered")
    \/ /\ LinkUp(x, routes[x])
       /\ stream' = [state |-> "moving", at |-> routes[x].src, hops |-> hops]
    \/ /\ routes[x].src # x
       /\ ~ LinkUp(x, routes[x]) \/ <<routes[x].src, x>> \in strayed
       /\ stream' = Ended("failed")

\* Nothing is in flight, every session is up at both ends, and none that was displaced had the last word.
Settled == (\A r \in Relays : wire[r] = <<>>) /\ ending = {} /\ strayed = {}

\* The proxy of relay r opens a stream; stream_preface() starts the hop list for a route via others.
OpenStream(r) ==
    /\ stream.state # "moving"
    /\ Routed(r)
    /\ Carry(r, IF routes[r].src = r THEN <<>> ELSE <<r>>)
    /\ steady' = Settled
    /\ UNCHANGED <<chainVars, tableVars, moves, toggles>>

\* Mutated: the relay adds itself before the budget is checked.
extend_refuses_early(x, hops) ==
    IF x \in ToSet(hops) THEN "loop" ELSE IF Len(hops) + 1 >= MAX_HOPS THEN "budget" ELSE "no"

\* extend(): why the relay x does not carry a stream that crossed hops, or "no".
extend_refuses(x, hops) ==
    IF x \in ToSet(hops) THEN "loop" ELSE IF Len(hops) >= MAX_HOPS THEN "budget" ELSE "no"

\* carry(): the preface is extended before the routing table is asked.
Forward ==
    LET x == stream.at
        refusal == extend_refuses(x, stream.hops)
    IN  /\ stream.state = "moving"
        /\ IF refusal # "no" \/ ~ Routed(x) THEN stream' = Ended("failed")
           ELSE Carry(x, Append(stream.hops, x))
        /\ UNCHANGED <<chainVars, tableVars, steady, moves, toggles>>

-----------------------------------------------------------------------------
\* The links, the tables and what is on its way between them change.
Update ==
    \/ \E r, u \in Relays : Welcome(r, u)
    \/ \E r \in Relays : RefuseLoop(r) \/ Adopt(r) \/ LinkDown(r) \/ Deliver(r)
    \/ \E s \in ending : DeliverLate(s) \/ EndSession(s)
    \/ Attach \/ Detach

Next ==
    \/ Update /\ steady' = FALSE
    \/ \E r \in Relays : OpenStream(r)
    \/ Forward

Spec == Init /\ [][Next]_vars

-----------------------------------------------------------------------------
(* Properties.                                                             *)

\* What an entry, a welcome, a frame on a link and a stream can be.
Route == [src : Relays \cup {None}, hops : Seq(Relays)]
Offer == [from : Relays \cup {None}, chain : Seq(Relays)]
Frame == [kind : {"online", "offline", "announce"}, via : Seq(Relays)]
Session == [from : Relays, to : Relays, registered : BOOLEAN, frames : Seq(Frame)]
Stream == [state : {"none", "moving", "delivered", "failed"},
           at : Relays \cup {None}, hops : Seq(Relays)]

\* Every variable keeps its type.
TypeOK ==
    /\ up \in [Relays -> Relays \cup {None}]
    /\ chain \in [Relays -> Seq(Relays)]
    /\ offer \in [Relays -> Offer]
    /\ routes \in [Relays -> Route]
    /\ wire \in [Relays -> Seq(Frame)] /\ \A r \in Relays : Len(wire[r]) <= WireBound + 1
    /\ ending \subseteq Session /\ strayed \subseteq Relays \X Relays
    /\ stream \in Stream /\ steady \in BOOLEAN
    /\ moves \in 0..MaxMoves /\ toggles \in 0..MaxToggles

\* An announced route is a simple path that does not come back through the relay that installed it,
\* and it starts with the link it is opened on.
RoutesAreSimplePaths ==
    \A r \in Relays : Routed(r) =>
        /\ IsInjective(<<r>> \o routes[r].hops)
        /\ routes[r].src # r => routes[r].hops[1] = routes[r].src

\* Once the announcements have settled, the tables agree along the chain: every route is opened on a
\* link that is up, and its hops are those of the relay at the other end, one further.  Sessions that
\* overlap do not disturb this unless one that was displaced applies a frame after the other's snapshot.
SettledRoutesAgree ==
    Settled => \A r \in Relays : Routed(r) /\ routes[r].src # r =>
        LET x == routes[r].src
        IN  up[x] = r /\ Routed(x) /\ routes[r].hops = ViaOf(x, routes[x])

\* A stream opened while the tables have settled, and that nothing changes under, reaches the device: no
\* relay on its way refuses it as a loop or for its hop list, lacks the device, or has a link that is
\* down.
SettledStreamsArrive == steady => stream.state \in {"moving", "delivered"}

\* The two hop limits agree: no relay along an accepted route refuses the stream that follows it.
RoutesFitBudget ==
    \A r \in Relays : \A k \in 1..Len(routes[r].hops) :
        extend_refuses(routes[r].hops[k], <<r>> \o SubSeq(routes[r].hops, 1, k - 1)) = "no"

\* Every table holds well-formed routes: simple paths that no relay along them refuses for its length.
RouteInv == TypeOK /\ RoutesAreSimplePaths /\ RoutesFitBudget
=============================================================================
