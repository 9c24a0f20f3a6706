----------------------------- MODULE ChangeFeed -----------------------------
(***************************************************************************)
(* How an upstream relay learns what this relay can reach: the registry's  *)
(* broadcast channel (src/src/registry.rs), the pump of the upstream link  *)
(* that reads it (src/src/upstream/session.rs), the WebSocket, and the     *)
(* routes the upstream's own registry holds through this link.             *)
(*                                                                         *)
(* The table itself is ChangeSource.  A broadcast receiver that falls more *)
(* than CHANGE_CAPACITY changes behind loses the oldest ones and is told   *)
(* so once, before it reads those that are left.                           *)
(*                                                                         *)
(* The two ends of a session notice its end at different times.  The       *)
(* upstream's task goes on applying what it has received until it cleans   *)
(* up, and a new session may register before that; the old one is then     *)
(* displaced, and cleans up nothing.                                       *)
(***************************************************************************)
EXTENDS ChangeSource

CONSTANTS
    UpstreamId,       \* the upstream's relay id
    MAX_HOPS,         \* the hop budget of a stream preface
    CHANGE_CAPACITY,  \* capacity of the broadcast channel
    WireCapacity,     \* frames the socket takes before a send has to wait
    MaxUpdates,       \* bound on table updates
    MaxDrops          \* bound on lost upstream sessions

ASSUME ChangeFeedAssumption ==
    /\ \A via \in Chains : Len(via) \in Nat \ {0}
    /\ MAX_HOPS \in Nat
    /\ CHANGE_CAPACITY \in Nat \ {0} /\ WireCapacity \in Nat \ {0}
    /\ MaxUpdates \in Nat /\ MaxDrops \in Nat

VARIABLES
    pump,      \* this end of the session: "down", "subscribed" (not yet announced) or "pumping"
    queue,     \* changes the pump's receiver has not read
    lagged,    \* the receiver has lost changes it has not been told about
    holding,   \* the frame being sent: a sequence of at most one
    peer,      \* the upstream's registration of this link: "none", "current", or "former": of a
               \* session that has ended at this end
    wire,      \* frames the registered session has not applied yet
    late,      \* frames that displaced sessions of the upstream may still apply
    known,     \* the chain the upstream routes each device over through this link, or <<>>
    refused,   \* history: devices whose last announcement the upstream did not install
    strayed,   \* history: a displaced session has applied a frame since the last snapshot
    lost,      \* history: a change was lost to a full buffer, or a session displaced another
    updates, drops

historyVars == <<refused, strayed, lost>>
sessionVars == <<pump, queue, lagged, holding>>
peerVars == <<peer, wire, late, known>>
feedVars == <<sourceVars, sessionVars, peerVars, historyVars, updates, drops>>

-----------------------------------------------------------------------------
(* Data: the frames, and what the upstream's registry makes of them.       *)

\* A chain that already runs through the upstream would come straight back to it.
is_routable_for(via) == \A k \in 1..Len(via) : via[k] # UpstreamId

\* Frames name the devices they are about; "announce" names all of them, over <<>> when absent.
Snapshot ==
    [kind |-> "announce",
     devices |-> [d \in Devices |-> IF is_routable_for(online[d]) THEN online[d] ELSE <<>>]]

\* Mutated: a withdrawal is not worth sending.
announcement_frame_filtered(c) ==
    IF c.via = <<>> \/ ~ is_routable_for(c.via) THEN <<>>
    ELSE <<[kind |-> "online", devices |-> [d \in {c.id} |-> c.via]]>>

\* One change as the frame the upstream is told about it, or nothing.
announcement_frame(c) ==
    IF c.via = <<>> THEN <<[kind |-> "offline", devices |-> [d \in {c.id} |-> <<>>]]>>
    ELSE IF ~ is_routable_for(c.via) THEN <<>>
    ELSE <<[kind |-> "online", devices |-> [d \in {c.id} |-> c.via]]>>

is_announcement_routable(via) == Len(via) < MAX_HOPS /\ is_routable_for(via)

\* announce_device() answers true: the upstream has no route of this link's, or one that is no shorter
\* (the announcement being handled has the newest sequence number).
installs(existing, via) ==
    is_announcement_routable(via) /\ (existing = <<>> \/ Len(via) <= Len(existing))

\* Mutated: leftovers are told by what the snapshot holds, not by what was installed.
handle_frame_by_name(f) ==
    [d \in Devices |->
        IF d \notin DOMAIN f.devices THEN known[d]
        ELSE IF f.devices[d] = <<>> THEN <<>>
        ELSE IF installs(known[d], f.devices[d]) THEN f.devices[d]
        ELSE known[d]]

\* The upstream's table after a frame.  An announcement that is not installed leaves the route there
\* was, except in a snapshot, whose leftovers are withdrawn.
handle_frame(f) ==
    [d \in Devices |->
        IF d \notin DOMAIN f.devices THEN known[d]
        ELSE IF f.devices[d] # <<>> /\ installs(known[d], f.devices[d]) THEN f.devices[d]
        ELSE IF f.kind = "online" THEN known[d]
        ELSE <<>>]

\* The devices whose last announcement is not installed, after a frame.
refused_after(f) ==
    {d \in Devices :
        IF d \notin DOMAIN f.devices THEN d \in refused
        ELSE f.devices[d] # <<>> /\ ~ installs(known[d], f.devices[d])}

Unrouted == [d \in Devices |-> <<>>]

FeedInit ==
    /\ SourceInit
    /\ pump = "down" /\ queue = <<>> /\ lagged = FALSE /\ holding = <<>>
    /\ peer = "none" /\ wire = <<>> /\ late = {} /\ known = Unrouted
    /\ refused = {} /\ strayed = FALSE /\ lost = FALSE
    /\ updates = 0 /\ drops = 0

-----------------------------------------------------------------------------
(* The table's side.                                                       *)

FeedUpdate(w) ==
    /\ updates < MaxUpdates
    /\ Update(w)
    /\ updates' = updates + 1
    /\ UNCHANGED <<sessionVars, peerVars, historyVars, drops>>

\* changes.send(): without a receiver the change is gone, with a full buffer the oldest one is.
FeedPublish(w, c) ==
    /\ PublishOne(w, c)
    /\ \/ /\ pump = "down"
          /\ UNCHANGED <<queue, lagged, lost>>
       \/ /\ pump # "down" /\ Len(queue) < CHANGE_CAPACITY
          /\ queue' = Append(queue, c)
          /\ UNCHANGED <<lagged, lost>>
       \/ /\ pump # "down" /\ Len(queue) = CHANGE_CAPACITY
          /\ queue' = Append(Tail(queue), c)
          /\ lagged' = TRUE /\ lost' = TRUE
    /\ UNCHANGED <<pump, holding, peerVars, refused, strayed, updates, drops>>

-----------------------------------------------------------------------------
(* The upstream session, at this end.                                      *)

\* The handshake is through: the upstream registers the session, displacing the former one if that has
\* not cleaned up yet, and pump() subscribes before it takes the snapshot.
Subscribe ==
    /\ pump = "down"
    /\ pump' = "subscribed"
    /\ queue' = <<>> /\ lagged' = FALSE
    /\ peer' = "current"
    /\ wire' = <<>>
    /\ late' = late \cup {wire[i] : i \in 1..Len(wire)}
    /\ lost' = (lost \/ peer = "former")
    /\ UNCHANGED <<sourceVars, holding, known, refused, strayed, updates, drops>>

TakeSnapshot ==
    /\ pump = "subscribed"
    /\ pump' = "pumping"
    /\ holding' = <<Snapshot>>
    /\ UNCHANGED <<sourceVars, queue, lagged, peerVars, historyVars, updates, drops>>

\* changes.recv() answers Ok.
RecvChange ==
    /\ pump = "pumping" /\ holding = <<>>
    /\ ~ lagged /\ queue # <<>>
    /\ holding' = announcement_frame(Head(queue))
    /\ queue' = Tail(queue)
    /\ UNCHANGED <<sourceVars, pump, lagged, peerVars, historyVars, updates, drops>>

\* Mutated: a lost change is only logged.
RecvLaggedIgnored ==
    /\ pump = "pumping" /\ holding = <<>>
    /\ lagged
    /\ lagged' = FALSE
    /\ UNCHANGED <<sourceVars, pump, queue, holding, peerVars, historyVars, updates, drops>>

\* changes.recv() answers Lagged: a fresh snapshot, and then the changes that were kept.
RecvLagged ==
    /\ pump = "pumping" /\ holding = <<>>
    /\ lagged
    /\ lagged' = FALSE
    /\ holding' = <<Snapshot>>
    /\ UNCHANGED <<sourceVars, pump, queue, peerVars, historyVars, updates, drops>>

\* send_control() completes once the socket takes the frame.
SendFrame ==
    /\ holding # <<>> /\ Len(wire) < WireCapacity
    /\ wire' = wire \o holding
    /\ holding' = <<>>
    /\ UNCHANGED <<sourceVars, pump, queue, lagged, peer, late, known, historyVars, updates, drops>>

\* The session ends at this end first; what it has sent is still on its way.
LinkDown ==
    /\ pump # "down" /\ peer = "current" /\ drops < MaxDrops
    /\ pump' = "down" /\ queue' = <<>> /\ lagged' = FALSE /\ holding' = <<>>
    /\ peer' = "former"
    /\ drops' = drops + 1
    /\ UNCHANGED <<sourceVars, wire, late, known, historyVars, updates>>

\* The session has ended at the upstream, and now ends at this end.
LinkDownSeen ==
    /\ pump # "down" /\ peer = "none"
    /\ pump' = "down" /\ queue' = <<>> /\ lagged' = FALSE /\ holding' = <<>>
    /\ wire' = <<>>
    /\ UNCHANGED <<sourceVars, peer, late, known, historyVars, updates, drops>>

-----------------------------------------------------------------------------
(* The upstream's tunnel tasks.                                            *)

\* The registered session applies one frame.
UpstreamApply ==
    /\ peer # "none" /\ wire # <<>>
    /\ known' = handle_frame(Head(wire))
    /\ refused' = refused_after(Head(wire))
    /\ strayed' = (strayed /\ Head(wire).kind # "announce")
    /\ wire' = Tail(wire)
    /\ UNCHANGED <<sourceVars, sessionVars, peer, late, lost, updates, drops>>

\* A displaced session applies a frame it had received: nothing asks whether it is registered.
StrayApply ==
    \E f \in late :
        /\ late' = late \ {f}
        /\ known' = handle_frame(f)
        /\ refused' = refused_after(f)
        /\ strayed' = TRUE /\ lost' = TRUE
        /\ UNCHANGED <<sourceVars, sessionVars, peer, wire, updates, drops>>

\* The registered session ends, before this end notices or after, and disconnect() takes everything the
\* link announced.
UpstreamDisconnect ==
    /\ peer # "none"
    /\ peer = "current" => drops < MaxDrops
    /\ drops' = IF peer = "current" THEN drops + 1 ELSE drops
    /\ peer' = "none" /\ wire' = <<>>
    /\ known' = Unrouted
    /\ UNCHANGED <<sourceVars, sessionVars, late, historyVars, updates>>

-----------------------------------------------------------------------------
Pump == Subscribe \/ TakeSnapshot \/ RecvChange \/ RecvLagged \/ SendFrame \/ LinkDownSeen

FeedNext ==
    \/ \E w \in Writers : FeedUpdate(w) \/ \E c \in unsent[w] : FeedPublish(w, c)
    \/ Pump \/ LinkDown
    \/ UpstreamApply \/ StrayApply \/ UpstreamDisconnect

\* Tasks that can run do run: the publishing tasks, the pump (which the supervisor restarts after
\* every interruption) and the upstream's reader.  Nothing forces updates or lost sessions, and a
\* displaced session may or may not get to the frames it holds.
FeedFairness ==
    /\ \A w \in Writers : WF_feedVars(\E c \in unsent[w] : FeedPublish(w, c))
    /\ WF_feedVars(Pump)
    /\ WF_feedVars(UpstreamApply)

FeedSpec == FeedInit /\ [][FeedNext]_feedVars /\ FeedFairness

-----------------------------------------------------------------------------
\* Nothing is on its way any more.
Drained ==
    /\ \A w \in Writers : unsent[w] = {}
    /\ pump = "pumping" /\ queue = <<>> /\ ~ lagged /\ holding = <<>>
    /\ peer = "current" /\ wire = <<>>

\* What the upstream is told in one frame.
FeedFrame == [kind : {"announce"}, devices : [Devices -> ChainsOrNone]]
             \cup [kind : {"online"}, devices : UNION {[{d} -> Chains] : d \in Devices}]
             \cup [kind : {"offline"}, devices : UNION {[{d} -> {<<>>}] : d \in Devices}]

\* Every variable keeps its type, and the buffers keep their capacities.
FeedTypeOK ==
    /\ online \in [Devices -> ChainsOrNone]
    /\ unsent \in [Writers -> SUBSET Changes]
    /\ pump \in {"down", "subscribed", "pumping"}
    /\ queue \in Seq(Changes) /\ Len(queue) <= CHANGE_CAPACITY
    /\ lagged \in BOOLEAN
    /\ holding \in Seq(FeedFrame) /\ Len(holding) <= 1
    /\ peer \in {"none", "current", "former"}
    /\ wire \in Seq(FeedFrame) /\ Len(wire) <= WireCapacity
    /\ late \subseteq FeedFrame
    /\ known \in [Devices -> ChainsOrNone]
    /\ refused \subseteq Devices /\ strayed \in BOOLEAN /\ lost \in BOOLEAN
    /\ updates \in 0..MaxUpdates /\ drops \in 0..MaxDrops

\* The upstream routes d the way this relay announces it: not at all when it is offline here; over the
\* chain it has here, unless the upstream refused that chain when it was last told.  Nothing is said of
\* a device whose chain runs through the upstream: it is not announced, and an earlier chain stays.
AgreesOn(d) ==
    is_routable_for(online[d]) =>
        known[d] = online[d] \/ (online[d] # <<>> /\ d \in refused)

\* Once everything published has arrived, the two tables agree: neither the handshake's race with the
\* table, nor a full buffer, nor a session that displaces another loses or resurrects a device.  Left
\* out is what a displaced session does after the registered one's last snapshot.
UpstreamAgrees == Drained /\ ~ strayed => \A d \in Devices : AgreesOn(d)

\* The feed keeps its types and bounds, and the tables agree once everything published has arrived.
FeedInv == FeedTypeOK /\ UpstreamAgrees

\* A chain the upstream refused leaves the device unrouted there, never on a chain it no longer has; and
\* as long as no change was lost and no session displaced another, only a chain that a stream could not
\* cross is refused ("a rejected one is either a loop or a chain longer than a stream is allowed to
\* cross").
RefusedIsUnrouted ==
    Drained /\ ~ strayed =>
        \A d \in refused : is_routable_for(online[d]) =>
            known[d] = <<>> /\ (lost \/ Len(online[d]) >= MAX_HOPS)

\* The upstream catches up with the last update, however often the session was lost on the way.
EventuallyAgrees == <>[](strayed \/ \A d \in Devices : AgreesOn(d))
=============================================================================
