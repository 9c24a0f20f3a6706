------------------------ MODULE ConsoleSessionProofs ------------------------
(***************************************************************************)
(* Invariance proofs for ConsoleSession, for any accounts, tokens and      *)
(* requests, any lifetime and any threshold that is no shorter than the    *)
(* time a request takes.                                                   *)
(***************************************************************************)
EXTENDS ConsoleSession, TLAPS

USE ConsoleSessionAssumption DEF ConsoleSessionAssumption

-----------------------------------------------------------------------------
(* The inductive strengthening.                                            *)

\* What a request carries, by what it is about to do.
WithToken == {"find", "account", "extend", "drop", "resolved"}
WithUser == {"login", "account", "extend", "resolved", "drop-others", "renew", "drop-all",
             "delete-sessions", "delete-user"}

Request == [pc : {"idle", "login", "find", "account", "extend", "drop", "resolved", "renew",
                  "drop-others", "drop-all", "delete-sessions", "delete-user"},
            token : Tokens \cup {None}, user : Users \cup {None}, at : 0..MaxTime,
            expires : 0..(MaxTime + SESSION_LIFETIME)]

RequestsInv ==
    \A r \in Requests :
        /\ req[r].pc \in WithToken => req[r].token \in issued
        /\ req[r].pc \in WithUser => req[r].user \in Users
        /\ req[r].pc # "idle" => req[r].at <= now /\ now <= req[r].at + MaxLatency

\* Only issued tokens have a row, a row has an account, and nothing was used in the future.
RowsInv ==
    /\ \A t \in Tokens : sessions[t] # NoSession => t \in issued /\ sessions[t].user \in Users
    /\ \A t \in Tokens : lastUse[t] <= now

\* A deadline that a request has read and found far enough away is not moved back too far by others.
ReadInv ==
    \A r \in Requests : req[r].pc = "account" =>
        LET s == sessions[req[r].token] IN
        s # NoSession => \/ s.expires >= req[r].expires
                         \/ s.expires >= req[r].at + SESSION_LIFETIME - SESSION_RENEWAL_THRESHOLD

RowInv == TypeOK /\ RequestsInv /\ RowsInv /\ EndedStaysEnded

DeadlineInv == ReadInv /\ IdleLimit

-----------------------------------------------------------------------------
LEMMA InitRowInv == Init => RowInv
  <1> SUFFICES ASSUME Init PROVE RowInv
    OBVIOUS
  <1>1. TypeOK
    BY DEF Init, TypeOK, NoSession, Idle
  <1>2. RequestsInv /\ RowsInv /\ EndedStaysEnded
    BY DEF Init, RequestsInv, RowsInv, EndedStaysEnded, Idle, NoSession, WithToken, WithUser
  <1> QED BY <1>1, <1>2 DEF RowInv

\* A new row is the only one that changes, it belongs to a token nobody had, and its deadline is the
\* whole lifetime away.
LEMMA CreateStep ==
    ASSUME RowInv, NEW r \in Requests, req[r].user \in Users, create_session(r),
           req' = [req EXCEPT ![r] = Idle], UNCHANGED <<now, users, ended, cut, restarts>>
    PROVE  RowInv'
  <1> USE DEF RowInv, TypeOK
  <1>1. PICK t \in Tokens \ issued :
           /\ sessions' = [sessions EXCEPT ![t] = [user |-> req[r].user, expires |-> now + SESSION_LIFETIME]]
           /\ issued' = issued \cup {t}
           /\ lastUse' = [lastUse EXCEPT ![t] = now]
           /\ era' = [era EXCEPT ![t] = users[req[r].user].pass]
    BY DEF create_session
  <1>2. now + SESSION_LIFETIME \in 0..(now + SESSION_LIFETIME)
    OBVIOUS
  <1>3. sessions' \in [Tokens -> [user : Users \cup {None}, expires : 0..(now' + SESSION_LIFETIME)]]
    BY <1>1, <1>2
  <1>4. users[req[r].user].pass \in 0..MaxChanges
    OBVIOUS
  <1>5. TypeOK'
    BY <1>1, <1>3, <1>4 DEF Idle
  <1>6. RequestsInv'
    BY <1>1 DEF RequestsInv, Idle, WithToken, WithUser
  <1>7. RowsInv'
    BY <1>1 DEF RowsInv, NoSession
  <1>8. EndedStaysEnded'
    BY <1>1 DEF EndedStaysEnded
  <1> QED BY <1>5, <1>6, <1>7, <1>8

\* Deleting rows of issued tokens, whatever the requests go on with.
LEMMA DeleteStep ==
    ASSUME RowInv, NEW ts \in SUBSET issued, delete_sessions(ts), UNCHANGED <<now, users, ghosts, lastUse>>,
           req' \in [Requests -> Request], RequestsInv', cut' \subseteq Users, restarts' \in 0..MaxRestarts
    PROVE  RowInv'
  <1> USE DEF RowInv, TypeOK, ghosts
  <1>1. sessions' \in [Tokens -> [user : Users \cup {None}, expires : 0..(now' + SESSION_LIFETIME)]]
    BY DEF delete_sessions, NoSession
  <1>2. TypeOK'
    BY <1>1 DEF delete_sessions, Request
  <1>3. RowsInv'
    BY DEF RowsInv, delete_sessions
  <1>4. EndedStaysEnded'
    BY DEF EndedStaysEnded, delete_sessions
  <1> QED BY <1>2, <1>3, <1>4

\* The records the actions build are requests.
LEMMA RequestTypes ==
    /\ Idle \in Request
    /\ \A q \in Request, pc \in {"extend", "drop", "resolved", "renew", "drop-others", "delete-user"} :
          [q EXCEPT !.pc = pc] \in Request
    /\ \A q \in Request, u \in Users, e \in 0..(MaxTime + SESSION_LIFETIME) :
          [q EXCEPT !.pc = "account", !.user = u, !.expires = e] \in Request
    /\ \A t \in Tokens, at \in 0..MaxTime : [Idle EXCEPT !.pc = "find", !.token = t, !.at = at] \in Request
    /\ \A u \in Users, at \in 0..MaxTime, pc \in {"login", "drop-all", "delete-sessions"} :
          [Idle EXCEPT !.pc = pc, !.user = u, !.at = at] \in Request
  <1>1. 0 \in 0..MaxTime /\ 0 \in 0..(MaxTime + SESSION_LIFETIME)
    OBVIOUS
  <1>2. Idle \in Request
    BY <1>1 DEF Idle, Request
  <1>3. \A q \in Request, pc \in {"extend", "drop", "resolved", "renew", "drop-others", "delete-user"} :
           [q EXCEPT !.pc = pc] \in Request
    BY DEF Request
  <1>4. \A q \in Request, u \in Users, e \in 0..(MaxTime + SESSION_LIFETIME) :
           [q EXCEPT !.pc = "account", !.user = u, !.expires = e] \in Request
    BY DEF Request
  <1>5. \A t \in Tokens, at \in 0..MaxTime : [Idle EXCEPT !.pc = "find", !.token = t, !.at = at] \in Request
    BY <1>1 DEF Idle, Request
  <1>6. \A u \in Users, at \in 0..MaxTime, pc \in {"login", "drop-all", "delete-sessions"} :
           [Idle EXCEPT !.pc = pc, !.user = u, !.at = at] \in Request
    BY <1>1 DEF Idle, Request
  <1> QED BY <1>2, <1>3, <1>4, <1>5, <1>6

\* A request goes on and the table of sessions stays as it is.
LEMMA RequestStep ==
    ASSUME RowInv, NEW r \in Requests, NEW q \in Request, req' = [req EXCEPT ![r] = q], RequestsInv',
           users' \in [Users -> [state : {"active", "disabled", "deleted"}, pass : 0..MaxChanges]],
           lastUse' \in [Tokens -> 0..MaxTime], \A t \in Tokens : lastUse'[t] <= now,
           UNCHANGED <<now, sessions, ghosts, ended, cut, restarts>>
    PROVE  RowInv'
  <1> USE DEF RowInv, TypeOK, ghosts
  <1>1. req' \in [Requests -> Request]
    BY DEF Request
  <1>2. TypeOK'
    BY <1>1 DEF Request
  <1> QED BY <1>2 DEF RowsInv, EndedStaysEnded

LEMMA NextRowInv == RowInv /\ [Next]_vars => RowInv'
  <1> SUFFICES ASSUME RowInv, [Next]_vars PROVE RowInv'
    OBVIOUS
  <1> USE DEF RowInv, TypeOK, ghosts, history
  <1>0. /\ \A t \in Tokens : lastUse[t] <= now
        /\ req \in [Requests -> Request] /\ Idle \in Request
    BY RequestTypes DEF RowsInv, Request
  <1>1. CASE UNCHANGED vars
    BY <1>1 DEF vars, RequestsInv, RowsInv, EndedStaysEnded
  <1>2. CASE Tick
    <2>1. now' = now + 1 /\ now < MaxTime /\ UNCHANGED <<users, sessions, req, ghosts, history, restarts>>
      BY <1>2 DEF Tick
    <2>2. TypeOK'
      BY <2>1
    <2>3. RequestsInv'
      BY <1>2 DEF Tick, RequestsInv
    <2>4. RowsInv' /\ EndedStaysEnded'
      BY <2>1 DEF RowsInv, EndedStaysEnded
    <2> QED BY <2>2, <2>3, <2>4
  <1>3. CASE Restart
    <2>1. {t \in Tokens : sessions[t] # NoSession /\ sessions[t].expires <= now} \in SUBSET issued
      BY DEF RowsInv
    <2>2. RequestsInv'
      BY <1>3 DEF Restart, RequestsInv, Idle, WithToken, WithUser
    <2>3. \A r \in Requests : req[r].pc \in {"drop-others", "drop-all"} => req[r].user \in Users
      BY DEF RequestsInv, WithUser
    <2>4. cut' \subseteq Users
      BY <1>3, <2>3 DEF Restart
    <2>5. restarts' \in 0..MaxRestarts
      BY <1>3 DEF Restart
    <2> QED BY <1>3, <2>1, <2>2, <2>4, <2>5, DeleteStep, <1>0 DEF Restart
  <1>4. ASSUME NEW u \in Users, Enable(u) PROVE RowInv'
    BY <1>4, SMTT(20) DEF Enable, RequestsInv, RowsInv, EndedStaysEnded
  <1>5. ASSUME NEW r \in Requests, Handle(r) PROVE RowInv'
    <2>1. CASE CreateLogin(r) \/ CreateRenewed(r)
      <3>1. req[r].user \in Users
        BY <2>1 DEF CreateLogin, CreateRenewed, RequestsInv, WithUser
      <3> QED BY <2>1, <3>1, CreateStep DEF CreateLogin, CreateRenewed
    <2>2. CASE FindSession(r)
      <3> DEFINE s == sessions[req[r].token]
      <3>1. req[r].token \in Tokens /\ s \in [user : Users \cup {None}, expires : 0..(now + SESSION_LIFETIME)]
        BY <2>2 DEF FindSession, RequestsInv, WithToken
      <3>2. s # NoSession => s.user \in Users
        BY <3>1 DEF RowsInv
      <3>3. UNCHANGED <<now, users, sessions, ghosts, history, restarts>>
        BY <2>2 DEF FindSession
      <3>a. req[r] \in Request /\ s.expires \in 0..(MaxTime + SESSION_LIFETIME)
        BY <1>0, <3>1
      <3>4. /\ [req[r] EXCEPT !.pc = "drop"] \in Request
            /\ s # NoSession =>
                  [req[r] EXCEPT !.pc = "account", !.user = s.user, !.expires = s.expires] \in Request
        BY <3>2, <3>a, RequestTypes
      <3>5. RequestsInv'
        BY <2>2, <3>1, <3>2, <3>3 DEF FindSession, Idle, RequestsInv, WithToken, WithUser
      <3> QED BY <1>0, <2>2, <3>3, <3>4, <3>5, RequestStep DEF FindSession
    <2>3. CASE RefuseUser(r)
      BY <2>3, SMTT(20) DEF RefuseUser, Goto, RequestsInv, RowsInv, EndedStaysEnded, WithToken, WithUser
    <2>4. CASE AcceptUser(r)
      <3>1. req[r].token \in Tokens
        BY <2>4 DEF AcceptUser, RequestsInv, WithToken
      <3>2. RequestsInv'
        BY <2>4, SMTT(20) DEF AcceptUser, Goto, RequestsInv, WithToken, WithUser
      <3>3. lastUse' \in [Tokens -> 0..MaxTime] /\ \A t \in Tokens : lastUse'[t] <= now
        BY <2>4, <3>1, SMTT(20) DEF AcceptUser, Later, RowsInv, RequestsInv
      <3>4. \A pc \in {"extend", "resolved"} : [req[r] EXCEPT !.pc = pc] \in Request
        BY <1>0, RequestTypes
      <3> QED BY <2>4, <3>2, <3>3, <3>4, RequestStep DEF AcceptUser, Goto
    <2>5. CASE Extend(r)
      <3> DEFINE t == req[r].token
      <3>1. t \in issued /\ t \in Tokens /\ req[r].at \in 0..now
        BY <2>5 DEF Extend, RequestsInv, WithToken
      <3>2. RequestsInv'
        BY <2>5 DEF Extend, Goto, RequestsInv, WithToken, WithUser
      <3>3. lastUse' \in [Tokens -> 0..MaxTime] /\ \A k \in Tokens : lastUse'[k] <= now
        BY <2>5, <3>1 DEF Extend, Later, RowsInv
      <3>4. /\ sessions' \in [Tokens -> [user : Users \cup {None}, expires : 0..(now + SESSION_LIFETIME)]]
            /\ \A k \in Tokens : sessions'[k].user = sessions[k].user
            /\ \A k \in Tokens : sessions[k] = NoSession => sessions'[k] = NoSession
        BY <2>5, <3>1 DEF Extend, extended
      <3>5. TypeOK'
        BY <2>5, <3>3, <3>4, SMTT(20) DEF Extend, Goto
      <3>6. RowsInv' /\ EndedStaysEnded'
        BY <2>5, <3>3, <3>4 DEF Extend, RowsInv, EndedStaysEnded
      <3> QED BY <3>2, <3>5, <3>6
    <2>6. CASE DropSession(r) \/ logout(r)
      <3>1. {req[r].token} \in SUBSET issued
        BY <2>6 DEF DropSession, logout, RequestsInv, WithToken
      <3>2. RequestsInv'
        BY <2>6 DEF DropSession, logout, Idle, RequestsInv, WithToken, WithUser
      <3>3. req' \in [Requests -> Request]
        BY <1>0, <2>6 DEF DropSession, logout
      <3> QED BY <2>6, <3>1, <3>2, <3>3, DeleteStep DEF DropSession, logout
    <2>7. CASE DropAll(r)
      <3>1. req[r].user \in Users
        BY <2>7 DEF DropAll, RequestsInv, WithUser
      <3>2. sessions_to_drop(r) \in SUBSET issued
        BY <3>1 DEF sessions_to_drop, RowsInv, NoSession
      <3>3. RequestsInv'
        BY <2>7 DEF DropAll, Idle, RequestsInv, WithToken, WithUser
      <3>4. \A pc \in {"renew", "delete-user"} : [req[r] EXCEPT !.pc = pc] \in Request
        BY <1>0, RequestTypes
      <3>5. req' \in [Requests -> Request]
        BY <1>0, <2>7, <3>4 DEF DropAll
      <3> QED BY <2>7, <3>2, <3>3, <3>5, DeleteStep DEF DropAll
    <2>8. CASE Serve(r)
      BY <2>8 DEF Serve, Idle, RequestsInv, RowsInv, EndedStaysEnded, WithToken, WithUser
    <2>9. CASE ChangePassword(r)
      <3>1. req[r].user \in Users
        BY <2>9 DEF ChangePassword, RequestsInv, WithUser
      <3>2. users' \in [Users -> [state : {"active", "disabled", "deleted"}, pass : 0..MaxChanges]]
        BY <2>9, <3>1 DEF ChangePassword, WritePassword
      <3>3. [req[r] EXCEPT !.pc = "drop-others"] \in Request
        BY <1>0, RequestTypes
      <3>4. RequestsInv'
        BY <2>9 DEF ChangePassword, Goto, RequestsInv, WithToken, WithUser
      <3> QED BY <1>0, <2>9, <3>2, <3>3, <3>4, RequestStep DEF ChangePassword, Goto
    <2>10. CASE DeleteUser(r)
      BY <2>10, SMTT(20) DEF DeleteUser, Idle, RequestsInv, RowsInv, EndedStaysEnded, WithToken, WithUser
    <2>11. ASSUME NEW t \in Tokens, Present(r, t) PROVE RowInv'
      <3>1. [Idle EXCEPT !.pc = "find", !.token = t, !.at = now] \in Request
        BY RequestTypes
      <3>2. RequestsInv'
        BY <2>11 DEF Present, Idle, RequestsInv, WithToken, WithUser
      <3> QED BY <1>0, <2>11, <3>1, <3>2, RequestStep DEF Present
    <2>12. ASSUME NEW u \in Users, VerifyLogin(r, u) \/ ResetPassword(r, u) \/ Disable(r, u) \/ BeginDelete(r, u)
           PROVE  RowInv'
      <3>1. users' \in [Users -> [state : {"active", "disabled", "deleted"}, pass : 0..MaxChanges]]
        BY <2>12 DEF VerifyLogin, ResetPassword, Disable, BeginDelete, WritePassword
      <3>2. \A pc \in {"login", "drop-all", "delete-sessions"} :
               [Idle EXCEPT !.pc = pc, !.user = u, !.at = now] \in Request
        BY RequestTypes
      <3>4. PICK pc \in {"login", "drop-all", "delete-sessions"} :
               req' = [req EXCEPT ![r] = [Idle EXCEPT !.pc = pc, !.user = u, !.at = now]]
        BY <2>12 DEF VerifyLogin, ResetPassword, Disable, BeginDelete
      <3>5. UNCHANGED <<now, sessions, ghosts, history, restarts>>
        BY <2>12 DEF VerifyLogin, ResetPassword, Disable, BeginDelete
      <3>6. RequestsInv'
        BY <3>4, <3>5 DEF Idle, RequestsInv, WithToken, WithUser
      <3> QED BY <1>0, <3>1, <3>2, <3>4, <3>5, <3>6, RequestStep
    <2> QED BY <1>5, <2>1, <2>2, <2>3, <2>4, <2>5, <2>6, <2>7, <2>8, <2>9, <2>10, <2>11, <2>12 DEF Handle
  <1> QED BY <1>1, <1>2, <1>3, <1>4, <1>5 DEF Next

\* The rows keep their types, and a session that a logout, a password change or a removal has ended is
\* not brought back by a request that slides its deadline.
THEOREM EndedSessionsStayEnded == Spec => []SessionInv
  <1>1. RowInv => SessionInv
    BY DEF RowInv, SessionInv
  <1> QED BY <1>1, InitRowInv, NextRowInv, PTL DEF Spec

-----------------------------------------------------------------------------
(* The deadline.                                                           *)

LEMMA InitDeadlineInv == Init => DeadlineInv
  BY DEF Init, DeadlineInv, ReadInv, IdleLimit, Idle

\* Both parts carry over a step that changes no row and no last use, and reads no deadline.
LEMMA DeadlineQuietStep ==
    ASSUME RowInv, DeadlineInv, RowInv',
           \A t \in Tokens : sessions'[t] = sessions[t] \/ sessions'[t] = NoSession,
           UNCHANGED lastUse,
           \A r \in Requests : req'[r].pc = "account" => req'[r] = req[r]
    PROVE  DeadlineInv'
  <1> USE DEF DeadlineInv
  <1>1. IdleLimit'
    BY DEF IdleLimit
  <1>2. ASSUME NEW r \in Requests, req'[r].pc = "account" PROVE req[r].token \in Tokens
    BY <1>2 DEF RowInv, RequestsInv, TypeOK, WithToken
  <1>3. ReadInv'
    BY <1>2 DEF ReadInv
  <1> QED BY <1>1, <1>3

LEMMA NextDeadlineInv == RowInv /\ RowInv' /\ DeadlineInv /\ [Next]_vars => DeadlineInv'
  <1> SUFFICES ASSUME RowInv, RowInv', DeadlineInv, [Next]_vars PROVE DeadlineInv'
    OBVIOUS
  <1> USE DEF ghosts, history
  <1>0. \A r \in Requests : req[r] \in Request
    BY DEF RowInv, TypeOK, Request
  <1>1. CASE UNCHANGED vars
    BY <1>1, DeadlineQuietStep DEF vars
  <1>2. CASE Tick
    BY <1>2, DeadlineQuietStep DEF Tick
  <1>3. CASE Restart
    BY <1>3, DeadlineQuietStep DEF Restart, delete_sessions, Idle
  <1>4. ASSUME NEW u \in Users, Enable(u) PROVE DeadlineInv'
    BY <1>4, DeadlineQuietStep DEF Enable
  <1>5. ASSUME NEW r \in Requests, Handle(r) PROVE DeadlineInv'
    <2>0. \A k \in Requests : k # r => req'[k] = req[k]
      BY <1>5 DEF Handle, CreateLogin, CreateRenewed, FindSession, RefuseUser, AcceptUser, Extend, DropSession,
           Serve, logout, ChangePassword, DropAll, DeleteUser, Present, VerifyLogin, ResetPassword, Disable,
           BeginDelete, Goto, RowInv, TypeOK
    <2>1. CASE CreateLogin(r) \/ CreateRenewed(r)
      <3>1. PICK t \in Tokens \ issued :
               /\ sessions' = [sessions EXCEPT ![t] = [user |-> req[r].user, expires |-> now + SESSION_LIFETIME]]
               /\ lastUse' = [lastUse EXCEPT ![t] = now]
        BY <2>1 DEF CreateLogin, CreateRenewed, create_session
      <3>2. IdleLimit'
        BY <3>1 DEF IdleLimit, DeadlineInv, RowInv, TypeOK
      <3>a. req'[r].pc = "idle"
        BY <2>1 DEF CreateLogin, CreateRenewed, Idle, RowInv, TypeOK
      <3>b. \A k \in Requests : req[k].pc = "account" => req[k].token \in issued
        BY DEF RowInv, RequestsInv, WithToken
      <3>3. \A k \in Requests : req'[k].pc = "account" => req'[k] = req[k] /\ req[k].token \in issued
        BY <2>0, <3>a, <3>b
      <3>c. \A k \in issued : sessions'[k] = sessions[k]
        BY <3>1 DEF RowInv, TypeOK
      <3>4. ReadInv'
        BY <3>3, <3>c DEF ReadInv, DeadlineInv
      <3> QED BY <3>2, <3>4 DEF DeadlineInv
    <2>2. CASE FindSession(r)
      <3>1. req[r].token \in Tokens
        BY <2>2 DEF FindSession, RowInv, RequestsInv, TypeOK, WithToken
      <3>2. UNCHANGED <<sessions, lastUse>>
        BY <2>2 DEF FindSession
      <3>3. req'[r].pc = "account" => req'[r].token = req[r].token /\ req'[r].expires = sessions[req[r].token].expires
        BY <1>0, <2>2 DEF FindSession, Request, Idle, RowInv, TypeOK
      <3>4. sessions[req[r].token].expires \in Nat
        BY <3>1 DEF RowInv, TypeOK
      <3>5. ReadInv'
        BY <2>0, <3>2, <3>3, <3>4 DEF ReadInv, DeadlineInv
      <3> QED BY <3>2, <3>5 DEF DeadlineInv, IdleLimit
    <2>3. CASE AcceptUser(r)
      <3> DEFINE t == req[r].token
      <3>1. t \in Tokens /\ req[r].at \in Nat /\ req[r].expires \in Nat
        BY <1>0, <2>3 DEF AcceptUser, RowInv, RequestsInv, TypeOK, WithToken, Request
      <3>2. \A k \in Requests : req'[k].pc = "account" => req'[k] = req[k]
        BY <2>0, <2>3 DEF AcceptUser, Goto, RowInv, TypeOK
      <3>3. UNCHANGED sessions
        BY <2>3 DEF AcceptUser
      <3>4. CASE renews(req[r].expires, req[r].at)
        BY <2>3, <3>2, <3>3, <3>4, DeadlineQuietStep DEF AcceptUser
      <3>5. CASE ~ renews(req[r].expires, req[r].at)
        <4>1. lastUse' = [lastUse EXCEPT ![t] = Later(@, req[r].at)]
          BY <2>3, <3>5 DEF AcceptUser
        <4>2. sessions[t] # NoSession =>
                 sessions[t].expires >= req[r].at + SESSION_LIFETIME - SESSION_RENEWAL_THRESHOLD
          <5>1. req[r].at + SESSION_LIFETIME - req[r].expires < SESSION_RENEWAL_THRESHOLD
            BY <3>1, <3>5 DEF renews
          <5>2. sessions[t].expires \in Nat
            BY <3>1 DEF RowInv, TypeOK
          <5> QED BY <2>3, <3>1, <5>1, <5>2 DEF AcceptUser, ReadInv, DeadlineInv
        <4>3. lastUse[t] \in Nat /\ sessions[t].expires \in Nat
          BY <3>1 DEF RowInv, TypeOK
        <4>4. IdleLimit'
          BY <3>1, <3>3, <4>1, <4>2, <4>3 DEF IdleLimit, DeadlineInv, Later, RowInv, TypeOK
        <4>5. ReadInv'
          BY <3>2, <3>3 DEF ReadInv, DeadlineInv
        <4> QED BY <4>4, <4>5 DEF DeadlineInv
      <3> QED BY <3>4, <3>5
    <2>4. CASE Extend(r)
      <3> DEFINE t == req[r].token
      <3>1. /\ t \in Tokens /\ req[r].at \in Nat /\ now \in Nat /\ MaxLatency \in Nat
            /\ req[r].at <= now /\ now <= req[r].at + SESSION_RENEWAL_THRESHOLD
        BY <1>0, <2>4 DEF Extend, RowInv, RequestsInv, TypeOK, WithToken, Request
      <3>2. lastUse' = [lastUse EXCEPT ![t] = Later(@, req[r].at)] /\ sessions' = extended(r) /\ now' = now
        BY <2>4 DEF Extend
      <3>3. lastUse[t] \in Nat /\ lastUse[t] <= now
        BY <3>1 DEF RowInv, RowsInv, TypeOK
      <3>4. \A k \in Tokens \ {t} : sessions'[k] = sessions[k] /\ lastUse'[k] = lastUse[k]
        BY <3>1, <3>2 DEF extended, RowInv, TypeOK
      <3>5. sessions'[t] # NoSession => sessions'[t].expires = req[r].at + SESSION_LIFETIME
        BY <3>1, <3>2 DEF extended, RowInv, TypeOK
      <3>6. lastUse'[t] = Later(lastUse[t], req[r].at)
        BY <3>1, <3>2 DEF RowInv, TypeOK
      <3>7. IdleLimit'
        <4> SUFFICES ASSUME NEW k \in Tokens, sessions'[k] # NoSession
                     PROVE  /\ sessions'[k].expires <= lastUse'[k] + SESSION_LIFETIME
                            /\ sessions'[k].expires >= lastUse'[k] + SESSION_LIFETIME - SESSION_RENEWAL_THRESHOLD
          BY DEF IdleLimit
        <4>1. CASE k = t
          BY <3>1, <3>3, <3>5, <3>6, <4>1 DEF Later
        <4>2. CASE k # t
          BY <3>4, <4>2 DEF IdleLimit, DeadlineInv
        <4> QED BY <4>1, <4>2
      <3>8. ReadInv'
        <4> SUFFICES ASSUME NEW k \in Requests, req'[k].pc = "account", sessions'[req'[k].token] # NoSession
                     PROVE  \/ sessions'[req'[k].token].expires >= req'[k].expires
                            \/ sessions'[req'[k].token].expires
                                 >= req'[k].at + SESSION_LIFETIME - SESSION_RENEWAL_THRESHOLD
          BY DEF ReadInv
        <4>1. req'[k] = req[k]
          BY <2>0, <2>4 DEF Extend, Goto, RowInv, TypeOK
        <4>2. req[k].token \in Tokens /\ req[k].at \in Nat /\ req[k].at <= now
          BY <1>0, <4>1 DEF RowInv, RequestsInv, TypeOK, WithToken, Request
        <4>3. CASE req[k].token = t
          BY <3>1, <3>5, <4>1, <4>2, <4>3
        <4>4. CASE req[k].token # t
          BY <3>4, <4>1, <4>2, <4>4 DEF ReadInv, DeadlineInv
        <4> QED BY <4>3, <4>4
      <3> QED BY <3>7, <3>8 DEF DeadlineInv
    <2>5. CASE DropSession(r) \/ logout(r) \/ DropAll(r)
      <3>1. \A t \in Tokens : sessions'[t] = sessions[t] \/ sessions'[t] = NoSession
        BY <2>5 DEF DropSession, logout, DropAll, delete_sessions
      <3>2. req'[r].pc # "account"
        BY <1>0, <2>5 DEF DropSession, logout, DropAll, Idle, Request, RowInv, TypeOK
      <3> QED BY <2>0, <2>5, <3>1, <3>2, DeadlineQuietStep DEF DropSession, logout, DropAll
    <2>6. CASE RefuseUser(r) \/ Serve(r) \/ ChangePassword(r) \/ DeleteUser(r)
      <3>1. req'[r].pc # "account"
        BY <2>6 DEF RefuseUser, Serve, ChangePassword, DeleteUser, Goto, Idle, RowInv, TypeOK
      <3> QED BY <2>0, <2>6, <3>1, DeadlineQuietStep DEF RefuseUser, Serve, ChangePassword, DeleteUser
    <2>7. ASSUME NEW t \in Tokens, Present(r, t) PROVE DeadlineInv'
      <3>1. req'[r].pc # "account"
        BY <2>7 DEF Present, Idle, RowInv, TypeOK
      <3> QED BY <2>0, <2>7, <3>1, DeadlineQuietStep DEF Present
    <2>8. ASSUME NEW u \in Users, VerifyLogin(r, u) \/ ResetPassword(r, u) \/ Disable(r, u) \/ BeginDelete(r, u)
          PROVE  DeadlineInv'
      <3>1. req'[r].pc # "account"
        <4>1. PICK pc \in {"login", "drop-all", "delete-sessions"} :
                 req' = [req EXCEPT ![r] = [Idle EXCEPT !.pc = pc, !.user = u, !.at = now]]
          BY <2>8 DEF VerifyLogin, ResetPassword, Disable, BeginDelete
        <4> QED BY <4>1 DEF Idle, RowInv, TypeOK
      <3> QED BY <2>0, <2>8, <3>1, DeadlineQuietStep DEF VerifyLogin, ResetPassword, Disable, BeginDelete
    <2> QED BY <1>5, <2>1, <2>2, <2>3, <2>4, <2>5, <2>6, <2>7, <2>8 DEF Handle
  <1> QED BY <1>1, <1>2, <1>3, <1>4, <1>5 DEF Next

\* Whatever requests slide a deadline at the same time, and in whatever order their writes arrive, it
\* stays between the lifetime and the lifetime less the threshold after the last use.
THEOREM DeadlineFollowsUse == Spec => []IdleLimit
  <1>1. DeadlineInv => IdleLimit
    BY DEF DeadlineInv
  <1> QED BY <1>1, InitRowInv, NextRowInv, InitDeadlineInv, NextDeadlineInv, PTL DEF Spec

-----------------------------------------------------------------------------
(* A changed password.                                                     *)

LEMMA NextChangeEnds == RowInv /\ ChangeEndsSessions /\ [Next]_vars => ChangeEndsSessions'
  <1> SUFFICES ASSUME RowInv, ChangeEndsSessions, [Next]_vars,
                      NEW t \in Tokens, NEW u, u = sessions'[t].user, u # None, u \notin cut',
                      era'[t] < users'[u].pass
               PROVE  Dropping(u)'
    BY DEF ChangeEndsSessions
  <1> USE DEF ghosts, history
  <1>0. \A r \in Requests : req[r] \in Request
    BY DEF RowInv, TypeOK, Request
  <1>a. era[t] \in Nat /\ sessions[t] \in [user : Users \cup {None}, expires : 0..(now + SESSION_LIFETIME)]
    BY DEF RowInv, TypeOK
  \* If the row, its era and the password are the old ones, somebody was dropping before the step.
  <1>b. ASSUME sessions'[t].user = sessions[t].user, era'[t] = era[t], u \notin cut, users'[u].pass = users[u].pass
        PROVE  Dropping(u)
    BY <1>b DEF ChangeEndsSessions
  <1>1. CASE UNCHANGED vars
    BY <1>1, <1>b DEF vars, Dropping
  <1>2. CASE Tick
    BY <1>2, <1>b DEF Tick, Dropping
  <1>3. CASE Restart
    <2>1. sessions'[t] = sessions[t] /\ era' = era /\ users' = users
      BY <1>3 DEF Restart, delete_sessions, NoSession
    <2>2. cut' = cut \cup {req[r].user : r \in {q \in Requests : req[q].pc \in {"drop-others", "drop-all"}}}
      BY <1>3 DEF Restart
    <2>3. ~ Dropping(u)
      BY <2>2 DEF Dropping
    <2> QED BY <1>b, <2>1, <2>2, <2>3
  <1>4. ASSUME NEW v \in Users, Enable(v) PROVE Dropping(u)'
    <2>1. users'[u].pass = users[u].pass
      BY <1>4, <1>a DEF Enable, RowInv, TypeOK
    <2> QED BY <1>4, <1>b, <2>1 DEF Enable, Dropping
  <1>5. ASSUME NEW r \in Requests, Handle(r) PROVE Dropping(u)'
    <2>0. cut' = cut /\ \A k \in Requests : k # r => req'[k] = req[k]
      BY <1>5 DEF Handle, CreateLogin, CreateRenewed, FindSession, RefuseUser, AcceptUser, Extend, DropSession,
           Serve, logout, ChangePassword, DropAll, DeleteUser, Present, VerifyLogin, ResetPassword, Disable,
           BeginDelete, Goto, RowInv, TypeOK
    <2>1. CASE CreateLogin(r) \/ CreateRenewed(r)
      <3>1. PICK k \in Tokens \ issued :
               /\ sessions' = [sessions EXCEPT ![k] = [user |-> req[r].user, expires |-> now + SESSION_LIFETIME]]
               /\ era' = [era EXCEPT ![k] = users[req[r].user].pass]
        BY <2>1 DEF CreateLogin, CreateRenewed, create_session
      <3>2. users' = users /\ req[r].pc \in {"login", "renew"} /\ req[r].user \in Users
        BY <2>1 DEF CreateLogin, CreateRenewed, RowInv, RequestsInv, WithUser
      <3>3. t # k
        <4> SUFFICES ASSUME t = k PROVE FALSE
          OBVIOUS
        <4>1. u = req[r].user /\ era'[t] = users'[u].pass /\ users'[u].pass \in Nat
          BY <3>1, <3>2 DEF RowInv, TypeOK
        <4> QED BY <4>1
      <3>4. Dropping(u)
        BY <1>b, <2>0, <3>1, <3>2, <3>3 DEF RowInv, TypeOK
      <3> QED BY <2>0, <3>2, <3>4 DEF Dropping
    <2>2. CASE DropAll(r)
      <3>1. req[r].user # u
        BY <2>2 DEF DropAll, delete_sessions, sessions_to_drop, NoSession
      <3>2. sessions'[t] = sessions[t] /\ era' = era /\ users' = users
        BY <2>2 DEF DropAll, delete_sessions, NoSession
      <3> QED BY <1>b, <2>0, <3>1, <3>2 DEF Dropping
    <2>3. CASE ChangePassword(r)
      <3>1. /\ sessions' = sessions /\ era' = era /\ req[r].user \in Users
            /\ req'[r].pc = "drop-others" /\ req'[r].user = req[r].user
            /\ \A v \in Users : v # req[r].user => users'[v] = users[v]
        BY <1>0, <2>3 DEF ChangePassword, WritePassword, Goto, RowInv, TypeOK, RequestsInv, WithUser, Request
      <3>2. CASE u = req[r].user
        BY <3>1, <3>2 DEF Dropping
      <3>3. CASE u # req[r].user
        BY <1>a, <1>b, <2>0, <3>1, <3>3, <2>3 DEF Dropping, ChangePassword
      <3> QED BY <3>2, <3>3
    <2>4. ASSUME NEW v \in Users, ResetPassword(r, v) PROVE Dropping(u)'
      <3>1. /\ sessions' = sessions /\ era' = era /\ req[r].pc = "idle"
            /\ req'[r].pc = "drop-all" /\ req'[r].user = v
            /\ \A w \in Users : w # v => users'[w] = users[w]
        BY <2>4 DEF ResetPassword, WritePassword, RowInv, TypeOK, Idle
      <3>2. CASE u = v
        BY <3>1, <3>2 DEF Dropping
      <3>3. CASE u # v
        BY <1>a, <1>b, <2>0, <3>1, <3>3 DEF Dropping
      <3> QED BY <3>2, <3>3
    <2>5. CASE /\ \A v \in Users : users'[v].pass = users[v].pass
               /\ sessions'[t].user \in {sessions[t].user, None} /\ era' = era
               /\ req[r].pc \notin {"drop-others", "drop-all"}
      BY <1>a, <1>b, <2>0, <2>5 DEF Dropping
    <2>6. CASE FindSession(r) \/ RefuseUser(r) \/ AcceptUser(r) \/ Serve(r)
      BY <2>5, <2>6 DEF FindSession, RefuseUser, AcceptUser, Serve
    <2>7. CASE Extend(r)
      <3>1. sessions'[t].user = sessions[t].user
        BY <1>a, <2>7 DEF Extend, extended, RowInv, TypeOK
      <3> QED BY <2>5, <2>7, <3>1 DEF Extend
    <2>8. CASE DropSession(r) \/ logout(r)
      BY <2>5, <2>8 DEF DropSession, logout, delete_sessions, NoSession
    <2>9. CASE DeleteUser(r)
      <3>1. \A v \in Users : users'[v].pass = users[v].pass
        BY <2>9 DEF DeleteUser, RowInv, TypeOK
      <3> QED BY <2>5, <2>9, <3>1 DEF DeleteUser
    <2>10. ASSUME NEW k \in Tokens, Present(r, k) PROVE Dropping(u)'
      BY <2>5, <2>10 DEF Present
    <2>11. ASSUME NEW v \in Users, VerifyLogin(r, v) \/ BeginDelete(r, v) \/ Disable(r, v) PROVE Dropping(u)'
      <3>1. \A w \in Users : users'[w].pass = users[w].pass
        BY <2>11 DEF VerifyLogin, BeginDelete, Disable, RowInv, TypeOK
      <3> QED BY <2>5, <2>11, <3>1 DEF VerifyLogin, BeginDelete, Disable
    <2> QED BY <1>5, <2>1, <2>2, <2>3, <2>4, <2>6, <2>7, <2>8, <2>9, <2>10, <2>11 DEF Handle
  <1> QED BY <1>1, <1>2, <1>3, <1>4, <1>5 DEF Next

\* A password change or a reset ends every session that was signed in when it took effect, unless a
\* restart cuts it off between its two statements.
THEOREM ChangeEndsEverySession == Spec => []ChangeEndsSessions
  <1>1. Init => ChangeEndsSessions
    BY DEF Init, ChangeEndsSessions, NoSession
  <1> QED BY <1>1, InitRowInv, NextRowInv, NextChangeEnds, PTL DEF Spec
=============================================================================
