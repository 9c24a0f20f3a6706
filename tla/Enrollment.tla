----------------------------- MODULE Enrollment -----------------------------
(***************************************************************************)
(* How a device gets a credential, and how it loses it: one-time codes and *)
(* account passwords (src/src/api/enroll.rs, api/enrollments.rs), device   *)
(* revocation (api/devices.rs), disabling and deleting the owner           *)
(* (api/users.rs), and the tunnel's authentication (tunnel/mod.rs).        *)
(*                                                                         *)
(* The database takes its mutex once per statement and no handler uses a   *)
(* transaction, so every statement is a step and handlers interleave       *)
(* between them.  The routing table appears as the tunnel registered for   *)
(* each device; Registry models it in full.                                *)
(***************************************************************************)
EXTENDS Integers, FiniteSets

CONSTANTS
    Users, Codes, Devices,
    Enrollers,     \* slots for requests to /api/enroll
    Operators,     \* slots for console requests that revoke, disable or delete
    Tunnels,       \* slots for tunnels
    None,          \* SQL NULL, and "no such id"
    MaxRestarts    \* bound on restarts of the relay

ASSUME EnrollmentAssumption ==
    /\ None \notin Users \cup Codes \cup Devices \cup Tunnels
    /\ Users \cap Codes = {}
    /\ MaxRestarts \in Nat

VARIABLES
    users,     \* the state of each account row
    codes,     \* enrollment_codes
    rows,      \* devices
    enroll,    \* the requests to /api/enroll being handled
    ops,       \* the console requests being handled
    tunnels,   \* the tunnel tasks
    current,   \* the tunnel the routing table holds for each device
    granted,   \* what each credential that left the relay was given for
    creator,   \* the owner each device was enrolled with, even after disown_devices_of()
    excused,   \* devices enrolled while their owner was disabled, being removed or cut off in it
    restarts

dbVars == <<users, codes, rows>>
history == <<granted, creator, excused, restarts>>
vars == <<dbVars, enroll, ops, tunnels, current, history>>

NoCode == [state |-> "unissued", expired |-> FALSE, owner |-> None, device |-> None]
NoRow == [state |-> "none", owner |-> None]
IdleEnroller == [pc |-> "idle", code |-> None, owner |-> None, device |-> None]
IdleOperator == [pc |-> "idle", user |-> None, todo |-> {}, device |-> None]
IdleTunnel == [pc |-> "idle", device |-> None, told |-> "no", late |-> FALSE]

\* A console request that disables or deletes u is being handled.
Removing(u) == \E o \in Operators : ops[o].pc # "idle" /\ ops[o].user = u

Init ==
    /\ users = [u \in Users |-> "active"]
    /\ codes = [c \in Codes |-> NoCode]
    /\ rows = [d \in Devices |-> NoRow]
    /\ enroll = [e \in Enrollers |-> IdleEnroller]
    /\ ops = [o \in Operators |-> IdleOperator]
    /\ tunnels = [t \in Tunnels |-> IdleTunnel]
    /\ current = [d \in Devices |-> None]
    /\ granted = [d \in Devices |-> None]
    /\ creator = [d \in Devices |-> None]
    /\ excused = {}
    /\ restarts = 0

-----------------------------------------------------------------------------
(* Codes.                                                                  *)

\* create(): an owner has to exist, but may be disabled.
CreateEnrollment(c, u) ==
    /\ codes[c] = NoCode
    /\ u # None => users[u] # "deleted"
    /\ codes' = [codes EXCEPT ![c] = [NoCode EXCEPT !.state = "pending", !.owner = u]]
    /\ UNCHANGED <<users, rows, enroll, ops, tunnels, current, history>>

\* The code's lifetime runs out.
Expire(c) ==
    /\ codes[c].state = "pending" /\ ~ codes[c].expired
    /\ codes' = [codes EXCEPT ![c].expired = TRUE]
    /\ UNCHANGED <<users, rows, enroll, ops, tunnels, current, history>>

\* WHERE used_at IS NULL AND cancelled_at IS NULL: expiry is not looked at.
is_unsettled(c) == codes[c].state = "pending"

cancel_enrollment(c) ==
    /\ is_unsettled(c)
    /\ codes' = [codes EXCEPT ![c].state = "cancelled"]
    /\ UNCHANGED <<users, rows, enroll, ops, tunnels, current, history>>

is_redeemable(c) == codes[c].state = "pending" /\ ~ codes[c].expired

-----------------------------------------------------------------------------
(* POST /api/enroll.                                                       *)

\* enroll_with_code(): the code is looked up and may be redeemed.
LookUpCode(e, c) ==
    /\ enroll[e].pc = "idle"
    /\ is_redeemable(c)
    /\ enroll' = [enroll EXCEPT ![e] = [IdleEnroller EXCEPT !.pc = "checked", !.code = c, !.owner = codes[c].owner]]
    /\ UNCHANGED <<dbVars, ops, tunnels, current, history>>

\* enroll_with_password(): the account exists, is not disabled, and the password is right.
LookUpUser(e, u) ==
    /\ enroll[e].pc = "idle"
    /\ users[u] = "active"
    /\ enroll' = [enroll EXCEPT ![e] = [IdleEnroller EXCEPT !.pc = "checked", !.owner = u]]
    /\ UNCHANGED <<dbVars, ops, tunnels, current, history>>

\* issue_device(): the row is inserted; owner_user_id is a foreign key.
IssueDevice(e, d) ==
    LET u == enroll[e].owner IN
    /\ enroll[e].pc = "checked"
    /\ rows[d] = NoRow
    /\ u # None => users[u] # "deleted"
    /\ rows' = [rows EXCEPT ![d] = [state |-> "live", owner |-> u]]
    /\ creator' = [creator EXCEPT ![d] = u]
    /\ excused' = IF u # None /\ (users[u] # "active" \/ Removing(u)) THEN excused \cup {d} ELSE excused
    /\ IF enroll[e].code = None
       THEN /\ granted' = [granted EXCEPT ![d] = u]
            /\ enroll' = [enroll EXCEPT ![e] = IdleEnroller]
       ELSE /\ enroll' = [enroll EXCEPT ![e].pc = "issued", ![e].device = d]
            /\ UNCHANGED granted
    /\ UNCHANGED <<users, codes, ops, tunnels, current, restarts>>

\* The insert violates the foreign key: the request fails and the code stays as it was.
IssueFails(e) ==
    /\ enroll[e].pc = "checked"
    /\ enroll[e].owner # None /\ users[enroll[e].owner] = "deleted"
    /\ enroll' = [enroll EXCEPT ![e] = IdleEnroller]
    /\ UNCHANGED <<dbVars, ops, tunnels, current, history>>

\* Mutated: the update has no guard.
mark_enrollment_used_always(c) == TRUE

\* mark_enrollment_used() changes a row.
mark_enrollment_used(c) == is_unsettled(c)

\* What mark_enrollment_used() writes.
burnt(c, d) == [codes[c] EXCEPT !.state = "used", !.device = d]

\* The code is burnt and the credential answered.
RedeemWon(e) ==
    LET c == enroll[e].code
        d == enroll[e].device
    IN  /\ enroll[e].pc = "issued"
        /\ mark_enrollment_used(c)
        /\ codes' = [codes EXCEPT ![c] = burnt(c, d)]
        /\ granted' = [granted EXCEPT ![d] = c]
        /\ enroll' = [enroll EXCEPT ![e] = IdleEnroller]
        /\ UNCHANGED <<users, rows, ops, tunnels, current, creator, excused, restarts>>

\* Mutated: the loser is refused and its row forgotten.
RedeemLostForgotten(e) ==
    /\ enroll[e].pc = "issued"
    /\ ~ mark_enrollment_used(enroll[e].code)
    /\ enroll' = [enroll EXCEPT ![e] = IdleEnroller]
    /\ UNCHANGED <<dbVars, ops, tunnels, current, history>>

\* Somebody else settled the code since it was looked up.
RedeemLost(e) ==
    /\ enroll[e].pc = "issued"
    /\ ~ mark_enrollment_used(enroll[e].code)
    /\ enroll' = [enroll EXCEPT ![e].pc = "lost"]
    /\ UNCHANGED <<dbVars, ops, tunnels, current, history>>

\* The loser's row is revoked, and the request refused.
RevokeLoser(e) ==
    /\ enroll[e].pc = "lost"
    /\ rows' = [rows EXCEPT ![enroll[e].device].state = "revoked"]
    /\ enroll' = [enroll EXCEPT ![e] = IdleEnroller]
    /\ UNCHANGED <<users, codes, ops, tunnels, current, history>>

-----------------------------------------------------------------------------
(* Tunnels.                                                                *)

\* close() on the handle of a tunnel: try_send() drops the command when the queue is full.
CloseCommand(t) ==
    \E outcome \in {"told", "lost"} :
        tunnels' = [tunnels EXCEPT ![t].told = IF @ = "told" THEN "told" ELSE outcome]

\* authenticate(): the row is live and the secret matches.
Authenticate(t, d) ==
    /\ tunnels[t].pc = "idle"
    /\ granted[d] # None
    /\ rows[d].state = "live"
    /\ tunnels' = [tunnels EXCEPT ![t] = [IdleTunnel EXCEPT !.pc = "authenticated", !.device = d]]
    /\ UNCHANGED <<dbVars, enroll, ops, current, history>>

\* The handshake is through: connect(), and close() of the tunnel it displaced.  The record that was
\* read in authenticate() is not read again.
Register(t) ==
    LET d == tunnels[t].device IN
    /\ tunnels[t].pc = "authenticated"
    /\ \E outcome \in {"told", "lost"} :
          tunnels' = [s \in Tunnels |->
              IF s = t THEN [tunnels[t] EXCEPT !.pc = "registered", !.late = rows[d].state = "revoked"]
              ELSE IF s = current[d] /\ tunnels[s].told # "told" THEN [tunnels[s] EXCEPT !.told = outcome]
              ELSE tunnels[s]]
    /\ current' = [current EXCEPT ![d] = t]
    /\ UNCHANGED <<dbVars, enroll, ops, history>>

\* Mutated: disconnect() does not check which tunnel is registered.
EndTunnelUnchecked(t) ==
    /\ tunnels[t].pc # "idle"
    /\ tunnels' = [tunnels EXCEPT ![t] = IdleTunnel]
    /\ current' = [current EXCEPT ![tunnels[t].device] = None]
    /\ UNCHANGED <<dbVars, enroll, ops, history>>

\* The tunnel ends, for whatever reason, and disconnect() checks that it is still the registered one.
EndTunnel(t) ==
    LET d == tunnels[t].device IN
    /\ tunnels[t].pc # "idle"
    /\ tunnels' = [tunnels EXCEPT ![t] = IdleTunnel]
    /\ current' = IF current[d] = t THEN [current EXCEPT ![d] = None] ELSE current
    /\ UNCHANGED <<dbVars, enroll, ops, history>>

-----------------------------------------------------------------------------
(* Console requests.  An operator's pc is the statement that comes next.   *)

\* revoke_any() and revoke_own(): one device.
BeginRevoke(o, d) ==
    /\ ops[o].pc = "idle"
    /\ rows[d] # NoRow
    /\ ops' = [ops EXCEPT ![o] = [IdleOperator EXCEPT !.pc = "revoke", !.todo = {d}]]
    /\ UNCHANGED <<dbVars, enroll, tunnels, current, history>>

\* disconnect_any(): the tunnel is closed and nothing revoked.
DisconnectAny(d) ==
    /\ current[d] # None
    /\ CloseCommand(current[d])
    /\ UNCHANGED <<dbVars, enroll, ops, current, history>>

\* update() with disabled = true: the account row first.
BeginDisable(o, u) ==
    /\ ops[o].pc = "idle"
    /\ users[u] # "deleted"
    /\ users' = [users EXCEPT ![u] = "disabled"]
    /\ ops' = [ops EXCEPT ![o] = [IdleOperator EXCEPT !.pc = "list", !.user = u]]
    /\ UNCHANGED <<codes, rows, enroll, tunnels, current, history>>

\* update() with disabled = false.
Enable(u) ==
    /\ users[u] = "disabled"
    /\ users' = [users EXCEPT ![u] = "active"]
    /\ UNCHANGED <<codes, rows, enroll, ops, tunnels, current, history>>

\* delete(): the devices first, the account row last.
BeginDelete(o, u) ==
    /\ ops[o].pc = "idle"
    /\ users[u] # "deleted"
    /\ ops' = [ops EXCEPT ![o] = [IdleOperator EXCEPT !.pc = "list-all", !.user = u]]
    /\ UNCHANGED <<dbVars, enroll, tunnels, current, history>>

\* Mutated: the list is the devices that are online.
ListOnlineOnly(o) ==
    /\ ops[o].pc \in {"list", "list-all"}
    /\ ops' = [ops EXCEPT ![o].todo = {d \in Devices : rows[d].owner = ops[o].user /\ current[d] # None},
                          ![o].pc = IF @ = "list" THEN "revoke" ELSE "revoke-all"]
    /\ UNCHANGED <<dbVars, enroll, tunnels, current, history>>

\* revoke_devices_of() reads the list once.
ListDevices(o) ==
    /\ ops[o].pc \in {"list", "list-all"}
    /\ ops' = [ops EXCEPT ![o].todo = {d \in Devices : rows[d].owner = ops[o].user},
                          ![o].pc = IF @ = "list" THEN "revoke" ELSE "revoke-all"]
    /\ UNCHANGED <<dbVars, enroll, tunnels, current, history>>

\* revoke(): the row is marked before the routing table is asked.
RevokeRow(o) ==
    /\ ops[o].pc \in {"revoke", "revoke-all"}
    /\ ops[o].device = None
    /\ \E d \in ops[o].todo :
          /\ rows' = [rows EXCEPT ![d].state = "revoked"]
          /\ ops' = [ops EXCEPT ![o].device = d, ![o].todo = @ \ {d}]
    /\ UNCHANGED <<users, codes, enroll, tunnels, current, history>>

\* revoke(): the tunnel the routing table holds, if any, is told and closed.
RevokeTunnel(o) ==
    LET d == ops[o].device IN
    /\ d # None
    /\ IF current[d] = None THEN UNCHANGED tunnels ELSE CloseCommand(current[d])
    /\ ops' = [ops EXCEPT ![o].device = None]
    /\ UNCHANGED <<dbVars, enroll, current, history>>

\* Every listed device is done; delete() goes on with the rows that point to the account.
FinishRevoking(o) ==
    /\ ops[o].pc \in {"revoke", "revoke-all"}
    /\ ops[o].todo = {} /\ ops[o].device = None
    /\ ops' = [ops EXCEPT ![o] = IF @.pc = "revoke" THEN IdleOperator ELSE [@ EXCEPT !.pc = "disown"]]
    /\ UNCHANGED <<dbVars, enroll, tunnels, current, history>>

Disown(o) ==
    /\ ops[o].pc = "disown"
    /\ rows' = [d \in Devices |-> IF rows[d].owner = ops[o].user THEN [rows[d] EXCEPT !.owner = None] ELSE rows[d]]
    /\ ops' = [ops EXCEPT ![o].pc = "delete"]
    /\ UNCHANGED <<users, codes, enroll, tunnels, current, history>>

\* delete_user(): refused by the foreign key when a device was enrolled since disown_devices_of().
DeleteUser(o) ==
    LET u == ops[o].user IN
    /\ ops[o].pc = "delete"
    /\ IF \E d \in Devices : rows[d].owner = u THEN UNCHANGED users
       ELSE users' = [users EXCEPT ![u] = "deleted"]
    /\ ops' = [ops EXCEPT ![o] = IdleOperator]
    /\ UNCHANGED <<codes, rows, enroll, tunnels, current, history>>

\* The process restarts: requests, tunnels and the routing table are gone, the database is not.
Restart ==
    /\ restarts < MaxRestarts
    /\ restarts' = restarts + 1
    /\ enroll' = [e \in Enrollers |-> IdleEnroller]
    /\ ops' = [o \in Operators |-> IdleOperator]
    /\ tunnels' = [t \in Tunnels |-> IdleTunnel]
    /\ current' = [d \in Devices |-> None]
    /\ excused' = excused \cup {d \in Devices :
                     \/ \E e \in Enrollers : enroll[e].device = d
                     \/ creator[d] # None /\ Removing(creator[d])}
    /\ UNCHANGED <<dbVars, granted, creator>>

-----------------------------------------------------------------------------
CodeSteps == \E c \in Codes :
    Expire(c) \/ cancel_enrollment(c) \/ \E u \in Users \cup {None} : CreateEnrollment(c, u)

EnrollSteps == \E e \in Enrollers :
    \/ \E c \in Codes : LookUpCode(e, c)
    \/ \E u \in Users : LookUpUser(e, u)
    \/ \E d \in Devices : IssueDevice(e, d)
    \/ IssueFails(e) \/ RedeemWon(e) \/ RedeemLost(e) \/ RevokeLoser(e)

TunnelSteps == \E t \in Tunnels :
    (\E d \in Devices : Authenticate(t, d)) \/ Register(t) \/ EndTunnel(t)

OperatorSteps == \E o \in Operators :
    \/ \E d \in Devices : BeginRevoke(o, d)
    \/ \E u \in Users : BeginDisable(o, u) \/ BeginDelete(o, u)
    \/ ListDevices(o) \/ RevokeRow(o) \/ RevokeTunnel(o) \/ FinishRevoking(o)
    \/ Disown(o) \/ DeleteUser(o)

Next ==
    \/ CodeSteps \/ EnrollSteps \/ TunnelSteps \/ OperatorSteps
    \/ \E d \in Devices : DisconnectAny(d)
    \/ \E u \in Users : Enable(u)
    \/ Restart

Spec == Init /\ [][Next]_vars

-----------------------------------------------------------------------------
(* Properties.                                                             *)

CodeRow == [state : {"unissued", "pending", "used", "cancelled"}, expired : BOOLEAN,
            owner : Users \cup {None}, device : Devices \cup {None}]
DeviceRow == [state : {"none", "live", "revoked"}, owner : Users \cup {None}]
Enroller == [pc : {"idle", "checked", "issued", "lost"}, code : Codes \cup {None},
             owner : Users \cup {None}, device : Devices \cup {None}]
Operator == [pc : {"idle", "list", "list-all", "revoke", "revoke-all", "disown", "delete"},
             user : Users \cup {None}, todo : SUBSET Devices, device : Devices \cup {None}]
Tunnel == [pc : {"idle", "authenticated", "registered"}, device : Devices \cup {None},
           told : {"no", "told", "lost"}, late : BOOLEAN]

\* Every variable keeps its type.
TypeOK ==
    /\ users \in [Users -> {"active", "disabled", "deleted"}]
    /\ codes \in [Codes -> CodeRow] /\ rows \in [Devices -> DeviceRow]
    /\ enroll \in [Enrollers -> Enroller] /\ ops \in [Operators -> Operator]
    /\ tunnels \in [Tunnels -> Tunnel]
    /\ current \in [Devices -> Tunnels \cup {None}]
    /\ granted \in [Devices -> Users \cup Codes \cup {None}]
    /\ creator \in [Devices -> Users \cup {None}]
    /\ excused \subseteq Devices
    /\ restarts \in 0..MaxRestarts

\* "Burning the code last and checking the result is what makes it one-time even if two devices
\* redeem it at the same moment": a code hands out at most one credential, and the code's row names
\* the device that has it.  A code that was cancelled hands out none, not even to a request that had
\* looked it up before.
OneDevicePerCode ==
    \A d \in Devices, c \in Codes : granted[d] = c => codes[c].state = "used" /\ codes[c].device = d

\* "The loser's device row is revoked rather than left usable": a live row whose credential was not
\* handed out belongs to a request that is still being handled, or was cut off by a restart.
LoserRevoked ==
    \A d \in Devices : rows[d].state = "live" /\ granted[d] = None /\ d \notin excused =>
        \E e \in Enrollers : enroll[e].device = d

\* Disabling or deleting an account revokes every device it enrolled before: once no request is
\* removing the account, its live devices are only those enrolled while it was being removed or
\* disabled, or whose removal a restart cut off.
RemovedOwnerRevoked ==
    \A d \in Devices :
        LET u == creator[d] IN
        u # None /\ rows[d].state = "live" /\ d \notin excused
            => users[u] = "active" \/ Removing(u)

\* Revoking a device closes the tunnel it holds, however the request interleaves with reconnects:
\* at the end of revoke() every tunnel registered before the row was marked has been sent its close
\* command, delivered or dropped at a full queue.
RevokedIsClosed ==
    \A t \in Tunnels :
        LET d == tunnels[t].device IN
        tunnels[t].pc = "registered" /\ rows[d].state = "revoked" /\ ~ tunnels[t].late
            => tunnels[t].told # "no" \/ \E o \in Operators : ops[o].device = d

\* The rows keep their types, and codes are one-time.
CodeInv == TypeOK /\ OneDevicePerCode
=============================================================================
