---------------------------- MODULE ChangeSource ----------------------------
(***************************************************************************)
(* What the routing table promises to whoever subscribes to its changes:   *)
(* one critical section of a task either gives one device a route, new,    *)
(* refreshed or no longer than the one it had, or takes the routes of      *)
(* several devices away; it leaves, with that same task, one change per    *)
(* device to publish, which says what the table says; and the task         *)
(* publishes them before it updates the table again.                       *)
(*                                                                         *)
(* Registry implements this specification.  ChangeFeed adds the broadcast  *)
(* channel, the upstream link that reads it and the upstream's table.      *)
(***************************************************************************)
EXTENDS Integers, Sequences, FiniteSets

CONSTANTS
    Devices,   \* the ids that can be announced upward
    Chains,    \* the via chains this relay announces: never empty, its own id first
    Writers    \* the tasks that update the table

VARIABLES
    online,     \* the chain each device is announced over, <<>> when it is not routed
    unsent      \* per task: the changes it has not published yet

sourceVars == <<online, unsent>>

\* A change to <<>> is RegistryChange::Offline.
ChainsOrNone == Chains \cup {<<>>}
Changes == [id : Devices, via : ChainsOrNone]

SourceInit ==
    /\ online = [d \in Devices |-> <<>>]
    /\ unsent = [w \in Writers |-> {}]

\* A device gets a route.  A device that is online never gets a longer one: it goes offline first.
RouteOne(w, d, via) ==
    /\ unsent[w] = {}
    /\ online[d] # <<>> => Len(via) <= Len(online[d])
    /\ online' = [online EXCEPT ![d] = via]
    /\ unsent' = [unsent EXCEPT ![w] = {[id |-> d, via |-> via]}]

\* Devices lose their routes.
LoseRoutes(w, gone) ==
    /\ unsent[w] = {}
    /\ \A d \in gone : online[d] # <<>>
    /\ online' = [d \in Devices |-> IF d \in gone THEN <<>> ELSE online[d]]
    /\ unsent' = [unsent EXCEPT ![w] = {[id |-> d, via |-> <<>>] : d \in gone}]

Update(w) ==
    \/ \E d \in Devices, via \in Chains : RouteOne(w, d, via)
    \/ \E gone \in SUBSET Devices : gone # {} /\ LoseRoutes(w, gone)

PublishOne(w, c) ==
    /\ c \in unsent[w]
    /\ unsent' = [unsent EXCEPT ![w] = @ \ {c}]
    /\ UNCHANGED online

SourceNext == \E w \in Writers : Update(w) \/ \E c \in unsent[w] : PublishOne(w, c)

SourceSpec == SourceInit /\ [][SourceNext]_sourceVars
=============================================================================
