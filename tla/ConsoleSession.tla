--------------------------- MODULE ConsoleSession ---------------------------
(***************************************************************************)
(* Console sessions (src/src/auth/session.rs, src/src/db/sessions.rs): who *)
(* gets one (src/src/api/sessions.rs), how a request resolves its cookie   *)
(* and slides the deadline (src/src/api/mod.rs, src/src/access.rs), and    *)
(* what ends one: a logout, a password change, a reset, disabling or       *)
(* deleting the account (src/src/api/users.rs, src/src/bootstrap.rs).      *)
(*                                                                         *)
(* Every database statement is a step.  A password is the number of times  *)
(* it has been changed; time is counted in some unit of the code's         *)
(* milliseconds, and a request carries the time at which it began.         *)
(***************************************************************************)
EXTENDS Integers, FiniteSets

CONSTANTS
    Users, Tokens,
    Requests,                     \* slots for console requests
    None,                         \* "no such id"
    SESSION_LIFETIME,             \* idle time that ends a session
    SESSION_RENEWAL_THRESHOLD,    \* how far the deadline has to move to be written
    MaxLatency,                   \* bound on how long a request takes
    MaxTime, MaxChanges, MaxRestarts

ASSUME ConsoleSessionAssumption ==
    /\ None \notin Users \cup Tokens
    /\ SESSION_LIFETIME \in Nat /\ SESSION_RENEWAL_THRESHOLD \in Nat
    /\ SESSION_RENEWAL_THRESHOLD <= SESSION_LIFETIME
    /\ MaxLatency \in 0..SESSION_RENEWAL_THRESHOLD
    /\ MaxTime \in Nat /\ MaxChanges \in Nat /\ MaxRestarts \in Nat

VARIABLES
    now,
    users,      \* the account rows: their state and password
    sessions,   \* console_sessions
    req,        \* the requests being handled
    issued,     \* tokens handed out
    ended,      \* sessions a request or an operator has ended
    lastUse,    \* when each session last carried a request
    era,        \* the password that held when each session's row was inserted
    cut,        \* accounts whose sessions a restart kept from being dropped
    restarts

history == <<ended, lastUse, cut>>
ghosts == <<issued, era>>
vars == <<now, users, sessions, req, ghosts, history, restarts>>

NoSession == [user |-> None, expires |-> 0]
Idle == [pc |-> "idle", token |-> None, user |-> None, at |-> 0, expires |-> 0]

Later(a, b) == IF a > b THEN a ELSE b

Init ==
    /\ now = 0
    /\ users = [u \in Users |-> [state |-> "active", pass |-> 0]]
    /\ sessions = [t \in Tokens |-> NoSession]
    /\ req = [r \in Requests |-> Idle]
    /\ issued = {} /\ ended = {}
    /\ lastUse = [t \in Tokens |-> 0]
    /\ era = [t \in Tokens |-> 0]
    /\ cut = {} /\ restarts = 0

Goto(r, pc) == req' = [req EXCEPT ![r].pc = pc]

\* Time passes, while no request is held up for longer than MaxLatency.
Tick ==
    /\ now < MaxTime
    /\ \A r \in Requests : req[r].pc # "idle" => now < req[r].at + MaxLatency
    /\ now' = now + 1
    /\ UNCHANGED <<users, sessions, req, ghosts, history, restarts>>

-----------------------------------------------------------------------------
(* The table of sessions.                                                  *)

is_expired(s, at) == at >= s.expires

\* Mutated: the deadline slides only once less than the threshold is left of it.
renews_near_the_end(expires, at) == expires - at < SESSION_RENEWAL_THRESHOLD

\* renewed_expiry() answers Some.
renews(expires, at) == at + SESSION_LIFETIME - expires >= SESSION_RENEWAL_THRESHOLD

\* create_session() for r's account.
create_session(r) ==
    LET u == req[r].user IN
    \E t \in Tokens \ issued :
        /\ sessions' = [sessions EXCEPT ![t] = [user |-> u, expires |-> now + SESSION_LIFETIME]]
        /\ issued' = issued \cup {t}
        /\ lastUse' = [lastUse EXCEPT ![t] = now]
        /\ era' = [era EXCEPT ![t] = users[u].pass]

\* Mutated: a row that is not there is inserted again.
extended_or_inserted(r) ==
    [sessions EXCEPT ![req[r].token] = [user |-> req[r].user, expires |-> req[r].at + SESSION_LIFETIME]]

\* extend_session(): UPDATE ... WHERE id, which leaves a missing row missing.
extended(r) ==
    IF sessions[req[r].token] = NoSession THEN sessions
    ELSE [sessions EXCEPT ![req[r].token].expires = req[r].at + SESSION_LIFETIME]

\* Mutated: only the session that made the change goes.
sessions_to_drop_own(r) == {req[r].token}

\* What delete_sessions_of_user() deletes.
sessions_to_drop(r) == {t \in Tokens : sessions[t].user = req[r].user}

delete_sessions(ts) ==
    /\ sessions' = [t \in Tokens |-> IF t \in ts THEN NoSession ELSE sessions[t]]
    /\ ended' = ended \cup ts

-----------------------------------------------------------------------------
(* login().                                                                *)

\* The account is read, is not disabled, and the password is the right one.
VerifyLogin(r, u) ==
    /\ req[r].pc = "idle"
    /\ users[u].state = "active"
    /\ req' = [req EXCEPT ![r] = [Idle EXCEPT !.pc = "login", !.user = u, !.at = now]]
    /\ UNCHANGED <<now, users, sessions, ghosts, history, restarts>>

\* The session is created, whatever happened to the account meanwhile.
CreateLogin(r) ==
    /\ req[r].pc = "login"
    /\ create_session(r)
    /\ req' = [req EXCEPT ![r] = Idle]
    /\ UNCHANGED <<now, users, ended, cut, restarts>>

-----------------------------------------------------------------------------
(* A request that presents a cookie: resolve_session().                    *)

Present(r, t) ==
    /\ req[r].pc = "idle"
    /\ t \in issued
    /\ req' = [req EXCEPT ![r] = [Idle EXCEPT !.pc = "find", !.token = t, !.at = now]]
    /\ UNCHANGED <<now, users, sessions, ghosts, history, restarts>>

FindSession(r) ==
    LET s == sessions[req[r].token] IN
    /\ req[r].pc = "find"
    /\ req' = [req EXCEPT ![r] =
           IF s = NoSession THEN Idle
           ELSE IF is_expired(s, req[r].at) THEN [@ EXCEPT !.pc = "drop"]
           ELSE [@ EXCEPT !.pc = "account", !.user = s.user, !.expires = s.expires]]
    /\ UNCHANGED <<now, users, sessions, ghosts, history, restarts>>

\* The account exists and is not disabled.
may_enter(u) == users[u].state = "active"

\* The account is gone or disabled: the session goes too.
RefuseUser(r) ==
    /\ req[r].pc = "account"
    /\ ~ may_enter(req[r].user)
    /\ Goto(r, "drop")
    /\ UNCHANGED <<now, users, sessions, ghosts, history, restarts>>

\* The account is read; the deadline is left alone, or is about to be written.
AcceptUser(r) ==
    /\ req[r].pc = "account"
    /\ may_enter(req[r].user)
    /\ IF renews(req[r].expires, req[r].at)
       THEN /\ Goto(r, "extend")
            /\ UNCHANGED lastUse
       ELSE /\ Goto(r, "resolved")
            /\ lastUse' = [lastUse EXCEPT ![req[r].token] = Later(@, req[r].at)]
    /\ UNCHANGED <<now, users, sessions, ghosts, ended, cut, restarts>>

Extend(r) ==
    /\ req[r].pc = "extend"
    /\ sessions' = extended(r)
    /\ lastUse' = [lastUse EXCEPT ![req[r].token] = Later(@, req[r].at)]
    /\ Goto(r, "resolved")
    /\ UNCHANGED <<now, users, ghosts, ended, cut, restarts>>

\* delete_session() of a session that does not resolve.
DropSession(r) ==
    /\ req[r].pc = "drop"
    /\ delete_sessions({req[r].token})
    /\ req' = [req EXCEPT ![r] = Idle]
    /\ UNCHANGED <<now, users, ghosts, lastUse, cut, restarts>>

-----------------------------------------------------------------------------
(* What a resolved request does.                                           *)

\* Anything that touches neither accounts nor sessions.
Serve(r) ==
    /\ req[r].pc = "resolved"
    /\ req' = [req EXCEPT ![r] = Idle]
    /\ UNCHANGED <<now, users, sessions, ghosts, history, restarts>>

logout(r) ==
    /\ req[r].pc = "resolved"
    /\ delete_sessions({req[r].token})
    /\ req' = [req EXCEPT ![r] = Idle]
    /\ UNCHANGED <<now, users, ghosts, lastUse, cut, restarts>>

\* update_user() with a new password.  An account that is gone meanwhile is left gone.
WritePassword(u) ==
    /\ users[u].pass < MaxChanges
    /\ users' = [users EXCEPT ![u].pass = IF users[u].state = "deleted" THEN @ ELSE @ + 1]

\* change_password(): the current password is verified against the account as it was resolved.
ChangePassword(r) ==
    /\ req[r].pc = "resolved"
    /\ WritePassword(req[r].user)
    /\ Goto(r, "drop-others")
    /\ UNCHANGED <<now, sessions, ghosts, history, restarts>>

\* An administrator's update(), or the reset-password command, writes a password ...
ResetPassword(r, u) ==
    /\ req[r].pc = "idle"
    /\ users[u].state # "deleted"
    /\ WritePassword(u)
    /\ req' = [req EXCEPT ![r] = [Idle EXCEPT !.pc = "drop-all", !.user = u, !.at = now]]
    /\ UNCHANGED <<now, sessions, ghosts, history, restarts>>

\* ... or disables the account ...
Disable(r, u) ==
    /\ req[r].pc = "idle"
    /\ users[u].state # "deleted"
    /\ users' = [users EXCEPT ![u].state = "disabled"]
    /\ req' = [req EXCEPT ![r] = [Idle EXCEPT !.pc = "drop-all", !.user = u, !.at = now]]
    /\ UNCHANGED <<now, sessions, ghosts, history, restarts>>

\* ... and then drops the account's sessions; delete() does so before the account goes.
DropAll(r) ==
    /\ req[r].pc \in {"drop-others", "drop-all", "delete-sessions"}
    /\ delete_sessions(sessions_to_drop(r))
    /\ req' = [req EXCEPT ![r] =
           IF @.pc = "drop-all" THEN Idle
           ELSE [@ EXCEPT !.pc = IF @ = "drop-others" THEN "renew" ELSE "delete-user"]]
    /\ UNCHANGED <<now, users, ghosts, lastUse, cut, restarts>>

\* change_password() issues a fresh session.
CreateRenewed(r) ==
    /\ req[r].pc = "renew"
    /\ create_session(r)
    /\ req' = [req EXCEPT ![r] = Idle]
    /\ UNCHANGED <<now, users, ended, cut, restarts>>

Enable(u) ==
    /\ users[u].state = "disabled"
    /\ users' = [users EXCEPT ![u].state = "active"]
    /\ UNCHANGED <<now, sessions, req, ghosts, history, restarts>>

BeginDelete(r, u) ==
    /\ req[r].pc = "idle"
    /\ users[u].state # "deleted"
    /\ req' = [req EXCEPT ![r] = [Idle EXCEPT !.pc = "delete-sessions", !.user = u, !.at = now]]
    /\ UNCHANGED <<now, users, sessions, ghosts, history, restarts>>

DeleteUser(r) ==
    /\ req[r].pc = "delete-user"
    /\ users' = [users EXCEPT ![req[r].user].state = "deleted"]
    /\ req' = [req EXCEPT ![r] = Idle]
    /\ UNCHANGED <<now, sessions, ghosts, history, restarts>>

\* The process restarts in the middle of whatever it was doing, and sweeps what has run out.
Restart ==
    /\ restarts < MaxRestarts
    /\ restarts' = restarts + 1
    /\ delete_sessions({t \in Tokens : sessions[t] # NoSession /\ sessions[t].expires <= now})
    /\ req' = [r \in Requests |-> Idle]
    /\ cut' = cut \cup {req[r].user : r \in {q \in Requests : req[q].pc \in {"drop-others", "drop-all"}}}
    /\ UNCHANGED <<now, users, ghosts, lastUse>>

-----------------------------------------------------------------------------
Handle(r) ==
    \/ CreateLogin(r)
    \/ FindSession(r) \/ RefuseUser(r) \/ AcceptUser(r) \/ Extend(r) \/ DropSession(r)
    \/ Serve(r) \/ logout(r) \/ ChangePassword(r) \/ DropAll(r) \/ CreateRenewed(r) \/ DeleteUser(r)
    \/ \E t \in Tokens : Present(r, t)
    \/ \E u \in Users : VerifyLogin(r, u) \/ ResetPassword(r, u) \/ Disable(r, u) \/ BeginDelete(r, u)

Next == Tick \/ Restart \/ (\E r \in Requests : Handle(r)) \/ (\E u \in Users : Enable(u))

Spec == Init /\ [][Next]_vars

-----------------------------------------------------------------------------
(* Properties.                                                             *)

\* A request that has still to drop the sessions of u.
Dropping(u) == \E r \in Requests : req[r].user = u /\ req[r].pc \in {"drop-others", "drop-all"}

\* Every variable keeps its type.
TypeOK ==
    /\ now \in 0..MaxTime
    /\ users \in [Users -> [state : {"active", "disabled", "deleted"}, pass : 0..MaxChanges]]
    /\ sessions \in [Tokens -> [user : Users \cup {None}, expires : 0..(now + SESSION_LIFETIME)]]
    /\ req \in [Requests -> [pc : {"idle", "login", "find", "account", "extend", "drop", "resolved", "renew",
                                   "drop-others", "drop-all", "delete-sessions", "delete-user"},
                             token : Tokens \cup {None}, user : Users \cup {None}, at : 0..MaxTime,
                             expires : 0..(MaxTime + SESSION_LIFETIME)]]
    /\ issued \subseteq Tokens /\ ended \subseteq issued
    /\ lastUse \in [Tokens -> 0..MaxTime]
    /\ era \in [Tokens -> 0..MaxChanges]
    /\ cut \subseteq Users /\ restarts \in 0..MaxRestarts

\* A session that was ended stays ended: a request that had found it before a logout, a password
\* change or a removal deleted it does not bring it back when it slides the deadline.
EndedStaysEnded == \A t \in ended : sessions[t] = NoSession

\* "Seven days of inactivity ends a session", and a session "renewed once an hour still never
\* expires while somebody is using it": whatever requests slide the deadline at the same time, it
\* is at most the lifetime, and at least the lifetime less the threshold, after the last use.
IdleLimit ==
    \A t \in Tokens : sessions[t] # NoSession =>
        /\ sessions[t].expires <= lastUse[t] + SESSION_LIFETIME
        /\ sessions[t].expires >= lastUse[t] + SESSION_LIFETIME - SESSION_RENEWAL_THRESHOLD

\* A password change or a reset ends every session that was signed in when it took effect, however
\* logins and other requests run beside it, unless a restart cuts it off between its two statements.
ChangeEndsSessions ==
    \A t \in Tokens :
        LET u == sessions[t].user IN
        u # None /\ u \notin cut /\ era[t] < users[u].pass => Dropping(u)

\* The rows keep their types, and what logout, a password change or a removal ended is not brought back.
SessionInv == TypeOK /\ EndedStaysEnded
=============================================================================
