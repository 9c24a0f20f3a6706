--------------------------- MODULE UpstreamProofs ---------------------------
(***************************************************************************)
(* Invariance proofs for the two modules about this relay's upstream.      *)
(*                                                                         *)
(* UpstreamLink, for any number of console requests, of credentials        *)
(* obtained one after the other and of requests that are abandoned.        *)
(*                                                                         *)
(* ChangeFeed, for any devices and chains, any capacity of the broadcast   *)
(* channel and of the socket, any number of lost sessions and any number   *)
(* of publishing tasks, as long as no two of them have changes of the same *)
(* device to publish at the same time.                                     *)
(***************************************************************************)
EXTENDS UpstreamLink, ChangeFeed, SequenceTheorems, TLAPS

USE UpstreamLinkAssumption DEF UpstreamLinkAssumption

-----------------------------------------------------------------------------
(* The inductive strengthening.                                            *)

\* A supervisor that is about to settle knows how its session ended.
PathOk(q) == q.pc \in {"withdraw", "settle"} => q.end \in Ends

PathInv == \A k \in Credentials : PathOk(sup[k])

Inside == {"start-wait", "stop-wait", "stop-status"}

\* The request that is inside start() or stop() is the one that holds the lock, start() has its
\* credential, and only a request inside waits for a task, which it has cancelled.
LockInv ==
    /\ \A r \in Requests : req[r].pc \in Inside => holder = r
    /\ holder # None => req[holder].pc \in Inside /\ running = None
    /\ \A r \in Requests : req[r].pc \in {"start-lock", "start-wait"} => req[r].key \in Credentials
    /\ \A r \in Requests : req[r].old # None =>
          req[r].pc \in {"start-wait", "stop-wait"} /\ req[r].old \in cancelled
    /\ detached \subseteq cancelled

\* A task that has not returned is the one in `running`, or the one a request waits for, or nobody
\* waited for it.
RunningInv ==
    \A k \in Credentials : Alive(k) =>
        k \in detached \/ running = k \/ \E r \in Requests : req[r].old = k

\* Without a link, and without tasks that nobody waited for, there is nothing to hand out.
CleanInv ==
    running = None /\ detached = {} =>
        /\ holder = None => reach = None /\ status = "none"
        /\ \A r \in Requests : req[r].pc = "stop-status" => reach = None

LinkInv == TypeOK /\ PathInv /\ LockInv /\ RunningInv /\ CleanInv

-----------------------------------------------------------------------------
(* The supervisor.                                                         *)

\* What a supervisor's step does.
Moved(k, q) ==
    /\ sup[k].pc # "off"
    /\ sup' = [sup EXCEPT ![k] = q]
    /\ q \in Supervisor /\ PathOk(q)
    /\ stored' \in {stored, None} /\ reach' \in {reach, k, None}
    /\ status' \in {"none", "connecting", "connected", "error"}
    /\ UNCHANGED <<spent, lockVars, req, restarts>>

LEMMA SupervisorMoves ==
    ASSUME TypeOK, PathInv, NEW k \in Credentials, Supervise(k) \/ Upstream(k)
    PROVE  \E q : Moved(k, q)
  <1>0. sup[k] \in Supervisor /\ PathOk(sup[k]) /\ sup \in [Credentials -> Supervisor]
    BY DEF TypeOK, PathInv
  <1>s. status \in {"none", "connecting", "connected", "error"}
    BY DEF TypeOK
  <1>o. Off \in Supervisor /\ PathOk(Off)
    BY DEF Off, Supervisor, PathOk
  <1>1. ASSUME NEW end \in Ends, DialFails(k, end) PROVE \E q : Moved(k, q)
    <2> DEFINE q == [pc |-> "settle", end |-> end]
    <2>1. q \in Supervisor /\ PathOk(q)
      BY DEF Supervisor, PathOk
    <2>2. Moved(k, q)
      BY <1>1, <1>s, <2>1 DEF DialFails, Awaits, Moved, linkVars
    <2> QED BY <2>2
  <1>2. ASSUME NEW end \in Ends, PumpEnds(k, end) PROVE \E q : Moved(k, q)
    <2> DEFINE q == [sup[k] EXCEPT !.pc = "withdraw", !.end = end]
    <2>1. q \in Supervisor /\ PathOk(q)
      BY <1>0 DEF Supervisor, PathOk
    <2>2. Moved(k, q)
      BY <1>0, <1>2, <1>s, <2>1 DEF PumpEnds, Awaits, Moved, linkVars
    <2> QED BY <2>2
  <1>3. ASSUME NEW pc \in {"adopt", "mark", "pump", "dial", "forget-reach", "forget-status"},
               sup[k].pc # "off", Goto(k, pc),
               stored' \in {stored, None}, reach' \in {reach, k, None},
               status' \in {"none", "connecting", "connected", "error"},
               UNCHANGED <<spent, lockVars, req, restarts>>
        PROVE  \E q : Moved(k, q)
    <2> DEFINE q == [sup[k] EXCEPT !.pc = pc]
    <2>1. q \in Supervisor /\ PathOk(q)
      BY <1>0 DEF Supervisor, PathOk
    <2>2. Moved(k, q)
      BY <1>0, <1>3, <2>1 DEF Goto, Moved
    <2> QED BY <2>2
  <1>4. CASE Welcomed(k)
    BY <1>3, <1>4, <1>s DEF Welcomed, Awaits, linkVars
  <1>5. CASE AdoptReach(k)
    BY <1>3, <1>5, <1>s DEF AdoptReach
  <1>6. CASE AdoptStatus(k)
    BY <1>3, <1>6, <1>s DEF AdoptStatus, set_state
  <1>7. CASE ReceiveAddresses(k)
    <2>1. sup' = [sup EXCEPT ![k] = sup[k]]
      BY <1>0, <1>7 DEF ReceiveAddresses
    <2>2. Moved(k, sup[k])
      BY <1>0, <1>7, <1>s, <2>1 DEF ReceiveAddresses, Awaits, Moved
    <2> QED BY <2>2
  <1>8. CASE Withdraw(k)
    <2> DEFINE q == [sup[k] EXCEPT !.pc = "settle"]
    <2>1. q \in Supervisor /\ PathOk(q)
      BY <1>0, <1>8 DEF Supervisor, PathOk, Withdraw
    <2>2. Moved(k, q)
      BY <1>0, <1>8, <1>s, <2>1 DEF Withdraw, clear_reach, Goto, Moved
    <2> QED BY <2>2
  <1>9. CASE Settle(k)
    <2> DEFINE q == [Off EXCEPT !.pc = next_step(sup[k].end)]
    <2>0. next_step(sup[k].end) \in {"forget", "off", "backoff"}
      BY <1>0, <1>9 DEF Settle, PathOk, next_step, Ends
    <2>1. q \in Supervisor /\ PathOk(q)
      BY <2>0 DEF Off, Supervisor, PathOk
    <2>2. status' \in {"none", "connecting", "connected", "error"}
      BY <1>9, <1>s DEF Settle, set_state
    <2>3. Moved(k, q)
      BY <1>0, <1>9, <2>1, <2>2 DEF Settle, Moved
    <2> QED BY <2>3
  <1>10. CASE Retry(k)
    BY <1>3, <1>10 DEF Retry, Awaits, set_connecting
  <1>11. CASE ForgetSettings(k)
    BY <1>3, <1>11, <1>s DEF ForgetSettings, linkVars
  <1>12. CASE ForgetReach(k)
    BY <1>3, <1>12, <1>s DEF ForgetReach, clear_reach
  <1>13. CASE ForgetStatus(k)
    <2>1. Moved(k, Off)
      BY <1>13, <1>o DEF ForgetStatus, Moved
    <2> QED BY <2>1
  <1>14. CASE Cancelled(k)
    <2>1. Moved(k, Off)
      BY <1>14, <1>o, <1>s DEF Cancelled, Moved, linkVars
    <2> QED BY <2>1
  <1> QED
    BY <1>1, <1>2, <1>4, <1>5, <1>6, <1>7, <1>8, <1>9, <1>10, <1>11, <1>12, <1>13, <1>14 DEF Supervise, Upstream

\* A supervisor's step keeps LinkInv: there is one to take a step only while a link runs, a request waits
\* or a task is detached.
LEMMA SupervisorKeeps ==
    ASSUME LinkInv, NEW k \in Credentials, Supervise(k) \/ Upstream(k)
    PROVE  LinkInv'
  <1> USE DEF LinkInv
  <1>1. PICK q : Moved(k, q)
    BY SupervisorMoves
  <1>2. /\ sup[k].pc # "off" /\ q \in Supervisor /\ PathOk(q)
        /\ stored' \in {stored, None} /\ reach' \in {reach, k, None}
        /\ status' \in {"none", "connecting", "connected", "error"}
        /\ UNCHANGED <<spent, holder, running, cancelled, detached, abandoned, req, restarts>>
    BY <1>1 DEF Moved, lockVars
  <1>3. /\ \A j \in Credentials : j # k => sup'[j] = sup[j]
        /\ sup'[k] = q /\ sup' \in [Credentials -> Supervisor]
    BY <1>1, <1>2 DEF Moved, TypeOK
  <1>4. TypeOK'
    BY <1>2, <1>3 DEF TypeOK
  <1>5. PathInv'
    BY <1>2, <1>3 DEF PathInv
  <1>6. LockInv'
    BY <1>2 DEF LockInv
  <1>7. k \in detached \/ running = k \/ \E r \in Requests : req[r].old = k
    BY <1>2 DEF RunningInv, Alive
  <1>8. RunningInv'
    BY <1>2, <1>3, <1>7 DEF RunningInv, Alive
  <1>9. CleanInv'
    <2>1. CASE k \in detached \/ running = k
      BY <1>2, <2>1 DEF CleanInv, TypeOK
    <2>2. ASSUME NEW r \in Requests, req[r].old = k PROVE CleanInv'
      <3>1. holder = r /\ req[r].pc \in {"start-wait", "stop-wait"}
        BY <2>2 DEF LockInv, Inside
      <3>2. \A p \in Requests : req[p].pc # "stop-status"
        BY <3>1 DEF LockInv, Inside
      <3> QED BY <1>2, <3>1, <3>2 DEF CleanInv
    <2> QED BY <1>7, <2>1, <2>2
  <1> QED BY <1>4, <1>5, <1>6, <1>8, <1>9

-----------------------------------------------------------------------------
(* Console requests.                                                       *)

LEMMA IdleRecord == Idle \in Request /\ Idle.pc = "idle" /\ Idle.old = None
  BY DEF Idle, Request

\* A request that is outside start() and stop(), and stays there, leaves the link alone.
LEMMA OutsideKeeps ==
    ASSUME LinkInv, NEW r \in Requests, NEW q \in Request, req' = [req EXCEPT ![r] = q],
           UNCHANGED <<reach, status, lockVars, sup, restarts>>,
           stored' \in Credentials \cup {None}, spent' \subseteq Credentials,
           req[r].pc \notin Inside, q.pc \notin Inside, q.old = None,
           q.pc = "start-lock" => q.key \in Credentials
    PROVE  LinkInv'
  <1> USE DEF LinkInv, lockVars
  <1>1. /\ req'[r] = q /\ (\A p \in Requests : p # r => req'[p] = req[p])
        /\ req' \in [Requests -> Request]
    BY DEF TypeOK
  <1>2. TypeOK'
    BY <1>1 DEF TypeOK
  <1>3. PathInv'
    BY DEF PathInv
  <1>4. req[r].old = None /\ holder # r
    BY DEF LockInv, Inside
  <1>5. LockInv'
    <2>1. \A p \in Requests : req'[p].pc \in Inside => holder = p
      BY <1>1 DEF LockInv
    <2>2. holder # None => req'[holder].pc \in Inside /\ running = None
      BY <1>1, <1>4 DEF LockInv, TypeOK
    <2>3. \A p \in Requests : req'[p].pc \in {"start-lock", "start-wait"} => req'[p].key \in Credentials
      BY <1>1 DEF LockInv, Inside
    <2>4. \A p \in Requests : req'[p].old # None =>
              req'[p].pc \in {"start-wait", "stop-wait"} /\ req'[p].old \in cancelled
      BY <1>1 DEF LockInv
    <2> QED BY <2>1, <2>2, <2>3, <2>4 DEF LockInv
  <1>6. RunningInv'
    <2>1. \A p \in Requests, k \in Credentials : req[p].old = k => req'[p].old = k
      BY <1>1, <1>4
    <2> QED BY <2>1 DEF RunningInv, Alive
  <1>7. CleanInv'
    <2>1. \A p \in Requests : req'[p].pc = "stop-status" => req[p].pc = "stop-status"
      BY <1>1 DEF Inside
    <2> QED BY <2>1 DEF CleanInv
  <1> QED BY <1>2, <1>3, <1>5, <1>6, <1>7

\* A request inside start() or stop() is the only one there, and every task is its own, or detached.
LEMMA InsideAlone ==
    ASSUME LinkInv, NEW r \in Requests, req[r].pc \in Inside
    PROVE  /\ holder = r /\ running = None
           /\ \A p \in Requests : p # r => req[p].pc \notin Inside /\ req[p].old = None
           /\ \A k \in Credentials : Alive(k) => k \in detached \/ req[r].old = k
  <1>1. holder = r /\ running = None
    BY DEF LinkInv, LockInv
  <1>2. \A p \in Requests : p # r => req[p].pc \notin Inside /\ req[p].old = None
    BY <1>1 DEF LinkInv, LockInv, Inside
  <1>3. \A k \in Credentials : Alive(k) => k \in detached \/ req[r].old = k
    <2> SUFFICES ASSUME NEW k \in Credentials, Alive(k), k \notin detached PROVE req[r].old = k
      OBVIOUS
    <2>1. running # k
      BY <1>1
    <2>2. PICK p \in Requests : req[p].old = k
      BY <2>1 DEF LinkInv, RunningInv
    <2>3. req[p].old # None
      BY <2>2
    <2> QED BY <1>2, <2>2, <2>3
  <1> QED BY <1>1, <1>2, <1>3

LEMMA OutsideSteps ==
    ASSUME LinkInv, NEW r \in Requests,
           \/ BeginConnect(r) \/ BeginDisconnect(r) \/ JoinFails(r) \/ (\E k \in Credentials : Join(r, k))
           \/ DroppedInLine(r) \/ ClearSettings(r)
    PROVE  LinkInv'
  <1>0. req[r] \in Request /\ req \in [Requests -> Request] /\ stored \in Credentials \cup {None}
        /\ spent \subseteq Credentials
    BY DEF LinkInv, TypeOK
  <1>1. CASE BeginConnect(r) \/ BeginDisconnect(r) \/ JoinFails(r)
    <2>1. PICK pc \in {"idle", "join", "stop-lock"} : req' = [req EXCEPT ![r] = [req[r] EXCEPT !.pc = pc]]
      BY <1>0, <1>1 DEF BeginConnect, BeginDisconnect, JoinFails, Step
    <2> DEFINE q == [req[r] EXCEPT !.pc = pc]
    <2>2. q \in Request /\ q.pc = pc /\ q.old = req[r].old
      <3>1. req[r] \in Request
        BY <1>0
      <3> QED BY <3>1, <2>1 DEF Request
    <2>3. /\ req[r].pc \notin Inside /\ UNCHANGED <<stored, spent, reach, status, lockVars, sup, restarts>>
      BY <1>1 DEF BeginConnect, BeginDisconnect, JoinFails, Inside, linkVars
    <2>4. q.old = None
      BY <2>2, <2>3 DEF LinkInv, LockInv, Inside
    <2>5. q.pc \notin Inside /\ q.pc # "start-lock"
      BY <2>2 DEF Inside
    <2> HIDE DEF q
    <2> QED BY <1>0, <2>1, <2>2, <2>3, <2>4, <2>5, OutsideKeeps DEF q
  <1>2. ASSUME NEW k \in Credentials, Join(r, k) PROVE LinkInv'
    <2> DEFINE q == [pc |-> "start-lock", key |-> k, old |-> None]
    <2>1. q \in Request /\ q.pc = "start-lock" /\ q.key = k /\ q.old = None
      BY DEF Request
    <2>2. /\ req' = [req EXCEPT ![r] = q] /\ req[r].pc \notin Inside
          /\ UNCHANGED <<reach, status, lockVars, sup, restarts>>
          /\ stored' \in Credentials \cup {None} /\ spent' \subseteq Credentials
      <3>1. req' = [req EXCEPT ![r] = q] /\ UNCHANGED <<reach, status, lockVars, sup, restarts>>
        BY <1>2 DEF Join, linkVars
      <3>2. req[r].pc \notin Inside /\ stored' = k /\ spent' = spent \cup {k}
        BY <1>2 DEF Join, Inside
      <3> QED BY <1>0, <3>1, <3>2
    <2>3. q.pc \notin Inside
      BY <2>1 DEF Inside
    <2> HIDE DEF q
    <2> QED BY <2>1, <2>2, <2>3, OutsideKeeps
  <1>3. CASE DroppedInLine(r) \/ ClearSettings(r)
    <2>1. /\ req' = [req EXCEPT ![r] = Idle] /\ req[r].pc \notin Inside
          /\ UNCHANGED <<reach, status, lockVars, sup, restarts>>
          /\ stored' \in Credentials \cup {None} /\ spent' \subseteq Credentials
      BY <1>0, <1>3 DEF DroppedInLine, ClearSettings, Inside, linkVars
    <2>2. Idle \in Request /\ Idle.pc \notin Inside /\ Idle.old = None /\ Idle.pc # "start-lock"
      BY IdleRecord DEF Inside
    <2> QED BY <2>1, <2>2, OutsideKeeps
  <1> QED BY <1>1, <1>2, <1>3

LEMMA AcquireKeeps == ASSUME LinkInv, NEW r \in Requests, Acquire(r) PROVE LinkInv'
  <1> USE DEF LinkInv
  <1> DEFINE pc == IF req[r].pc = "start-lock" THEN "start-wait" ELSE "stop-wait"
             old == IF running # None /\ Alive(running) THEN running ELSE None
             q == [req[r] EXCEPT !.pc = pc, !.old = old]
  <1>1. /\ req[r] \in Request /\ req \in [Requests -> Request] /\ running \in Credentials \cup {None}
        /\ req[r].pc \in {"start-lock", "stop-lock"} /\ holder = None /\ holder' = r /\ running' = None
        /\ cancelled' = cancelled \cup ({running} \ {None})
        /\ UNCHANGED <<stored, spent, reach, status, detached, abandoned, sup, restarts>>
    BY DEF Acquire, linkVars, TypeOK
  <1>2. req' = [req EXCEPT ![r] = q]
    BY <1>1 DEF Acquire
  <1>3. pc \in {"start-wait", "stop-wait"} /\ old \in Credentials \cup {None}
    BY <1>1
  <1>4. q \in Request /\ q.pc = pc /\ q.key = req[r].key /\ q.old = old
    <2> HIDE DEF pc, old
    <2>1. req[r] \in Request
      BY <1>1
    <2> QED BY <1>3, <2>1, <1>1 DEF Request
  <1>5. pc = "start-wait" => req[r].pc = "start-lock"
    OBVIOUS
  <1>6. /\ old # None => old = running
        /\ \A k \in Credentials : running = k /\ Alive(k) => old = k
    OBVIOUS
  <1> HIDE DEF q, pc, old
  <1>7. /\ req'[r] = q /\ (\A p \in Requests : p # r => req'[p] = req[p])
        /\ req' \in [Requests -> Request]
    BY <1>1, <1>2, <1>4
  <1>8. \A p \in Requests : req[p].pc \notin Inside /\ req[p].old = None
    BY <1>1 DEF LockInv, Inside
  <1>9. TypeOK'
    BY <1>1, <1>7 DEF TypeOK
  <1>10. PathInv'
    BY <1>1 DEF PathInv
  <1>11. LockInv'
    <2>1. \A p \in Requests : req'[p].pc \in Inside => holder' = p
      BY <1>1, <1>7, <1>8
    <2>2. req'[r].pc \in Inside
      BY <1>3, <1>4, <1>7 DEF Inside
    <2>3. \A p \in Requests : req'[p].pc \in {"start-lock", "start-wait"} => req'[p].key \in Credentials
      <3>1. q.pc \in {"start-lock", "start-wait"} => q.key \in Credentials
        BY <1>1, <1>3, <1>4, <1>5 DEF LockInv
      <3>2. \A p \in Requests : p # r /\ req[p].pc \in {"start-lock", "start-wait"} => req[p].key \in Credentials
        BY DEF LockInv
      <3> QED BY <1>7, <3>1, <3>2
    <2>4. \A p \in Requests : req'[p].old # None =>
              req'[p].pc \in {"start-wait", "stop-wait"} /\ req'[p].old \in cancelled'
      BY <1>1, <1>3, <1>4, <1>6, <1>7, <1>8
    <2>5. detached' \subseteq cancelled'
      BY <1>1 DEF LockInv
    <2> QED BY <1>1, <2>1, <2>2, <2>3, <2>4, <2>5 DEF LockInv
  <1>12. RunningInv'
    <2> SUFFICES ASSUME NEW k \in Credentials, Alive(k), k \notin detached
                 PROVE  \E p \in Requests : req'[p].old = k
      BY <1>1 DEF RunningInv, Alive
    <2>1. running = k
      BY <1>8 DEF RunningInv
    <2> QED BY <1>4, <1>6, <1>7, <2>1
  <1>13. CleanInv'
    <2>1. holder' # None /\ \A p \in Requests : req'[p].pc # "stop-status"
      BY <1>1, <1>3, <1>4, <1>7, <1>8 DEF Inside
    <2> QED BY <2>1 DEF CleanInv
  <1> QED BY <1>9, <1>10, <1>11, <1>12, <1>13

LEMMA AbandonedKeeps ==
    ASSUME LinkInv, NEW r \in Requests, GiveUpWaiting(r) \/ DroppedWaiting(r) PROVE LinkInv'
  <1> USE DEF LinkInv
  <1>1. /\ req[r].pc \in {"start-wait", "stop-wait"} /\ req[r].old # None
        /\ detached' = detached \cup {req[r].old}
        /\ UNCHANGED <<stored, spent, reach, status, running, cancelled, sup, restarts>>
    BY DEF GiveUpWaiting, DroppedWaiting, Abandoned, linkVars
  <1>2. abandoned' \in 0..MaxAbandoned
    BY DEF GiveUpWaiting, DroppedWaiting, Abandoned, TypeOK
  <1>3. req \in [Requests -> Request] /\ req[r] \in Request /\ req[r].old \in Credentials
    BY <1>1 DEF TypeOK, Request
  <1>4. PICK q \in Request : /\ req' = [req EXCEPT ![r] = q] /\ q.old = None
                             /\ \/ holder' = holder /\ q.pc = req[r].pc /\ q.key = req[r].key
                                \/ holder' = None /\ q.pc = "idle"
    <2>1. CASE GiveUpWaiting(r)
      <3>1. req' = [req EXCEPT ![r] = [req[r] EXCEPT !.old = None]] /\ holder' = holder
        BY <1>3, <2>1 DEF GiveUpWaiting
      <3>2. /\ [req[r] EXCEPT !.old = None] \in Request /\ [req[r] EXCEPT !.old = None].old = None
            /\ [req[r] EXCEPT !.old = None].pc = req[r].pc /\ [req[r] EXCEPT !.old = None].key = req[r].key
        BY <1>3 DEF Request
      <3> QED BY <3>1, <3>2
    <2>2. CASE DroppedWaiting(r)
      BY <2>2, IdleRecord DEF DroppedWaiting
    <2> QED BY <2>1, <2>2
  <1>5. /\ req'[r] = q /\ (\A p \in Requests : p # r => req'[p] = req[p])
        /\ req' \in [Requests -> Request]
    BY <1>3, <1>4
  <1>6. /\ holder = r /\ running = None
        /\ \A p \in Requests : p # r => req[p].pc \notin Inside /\ req[p].old = None
        /\ \A k \in Credentials : Alive(k) => k \in detached \/ req[r].old = k
    BY <1>1, InsideAlone DEF Inside
  <1>7. TypeOK'
    BY <1>1, <1>2, <1>3, <1>4, <1>5 DEF TypeOK
  <1>8. PathInv'
    BY <1>1 DEF PathInv
  <1>9. LockInv'
    <2>1. \A p \in Requests : req'[p].pc \in Inside => holder' = p
      BY <1>4, <1>5, <1>6 DEF Inside
    <2>2. holder' # None => req'[holder'].pc \in Inside /\ running' = None
      BY <1>1, <1>4, <1>5, <1>6 DEF Inside
    <2>3. \A p \in Requests : req'[p].pc \in {"start-lock", "start-wait"} => req'[p].key \in Credentials
      BY <1>1, <1>4, <1>5 DEF LockInv
    <2>4. \A p \in Requests : req'[p].old = None
      BY <1>4, <1>5, <1>6
    <2>5. detached' \subseteq cancelled'
      BY <1>1 DEF LockInv
    <2> QED BY <2>1, <2>2, <2>3, <2>4, <2>5 DEF LockInv
  <1>10. RunningInv'
    BY <1>1, <1>6 DEF RunningInv, Alive
  <1>11. CleanInv'
    BY <1>1 DEF CleanInv
  <1> QED BY <1>7, <1>8, <1>9, <1>10, <1>11

LEMMA StartKeeps == ASSUME LinkInv, NEW r \in Requests, Start(r) PROVE LinkInv'
  <1> USE DEF LinkInv
  <1> DEFINE k == req[r].key
             s == [Off EXCEPT !.pc = "dial"]
  <1>1. /\ req[r].pc = "start-wait" /\ Stopped(req[r].old)
        /\ status' = "connecting" /\ sup' = [sup EXCEPT ![k] = s]
        /\ running' = k /\ holder' = None /\ req' = [req EXCEPT ![r] = Idle]
        /\ UNCHANGED <<stored, spent, reach, cancelled, detached, abandoned, restarts>>
    BY DEF Start, set_connecting
  <1>2. k \in Credentials
    BY <1>1 DEF LockInv
  <1>3. s \in Supervisor /\ PathOk(s)
    BY DEF Off, Supervisor, PathOk
  <1> HIDE DEF k, s
  <1>4. /\ sup' \in [Credentials -> Supervisor] /\ sup'[k] = s
        /\ \A j \in Credentials : j # k => sup'[j] = sup[j]
    BY <1>1, <1>2, <1>3 DEF TypeOK
  <1>5. /\ req'[r] = Idle /\ (\A p \in Requests : p # r => req'[p] = req[p])
        /\ req' \in [Requests -> Request]
    BY <1>1, IdleRecord DEF TypeOK
  <1>6. /\ holder = r /\ running = None
        /\ \A p \in Requests : p # r => req[p].pc \notin Inside /\ req[p].old = None
        /\ \A j \in Credentials : Alive(j) => j \in detached \/ req[r].old = j
    BY <1>1, InsideAlone DEF Inside
  <1>7. \A j \in Credentials : Alive(j) => j \in detached
    BY <1>1, <1>6 DEF Stopped
  <1>8. TypeOK'
    BY <1>1, <1>2, <1>4, <1>5 DEF TypeOK
  <1>9. PathInv'
    BY <1>3, <1>4 DEF PathInv
  <1>10. LockInv'
    <2>1. \A p \in Requests : req'[p].pc \notin Inside /\ req'[p].old = None
      BY <1>5, <1>6, IdleRecord DEF Inside
    <2>2. \A p \in Requests : req'[p].pc \in {"start-lock", "start-wait"} => req'[p].key \in Credentials
      BY <1>5, IdleRecord DEF LockInv
    <2> QED BY <1>1, <2>1, <2>2 DEF LockInv
  <1>11. RunningInv'
    BY <1>1, <1>4, <1>7 DEF RunningInv, Alive
  <1>12. CleanInv'
    BY <1>1, <1>2 DEF CleanInv
  <1> QED BY <1>8, <1>9, <1>10, <1>11, <1>12

LEMMA StopKeeps == ASSUME LinkInv, NEW r \in Requests, StopReach(r) \/ StopStatus(r) PROVE LinkInv'
  <1> USE DEF LinkInv
  <1>0. req[r] \in Request /\ req \in [Requests -> Request]
    BY DEF TypeOK
  <1>i. /\ holder = r /\ running = None
        /\ \A p \in Requests : p # r => req[p].pc \notin Inside /\ req[p].old = None
        /\ \A j \in Credentials : Alive(j) => j \in detached \/ req[r].old = j
    BY InsideAlone DEF StopReach, StopStatus, Inside
  <1>1. CASE StopReach(r)
    <2> DEFINE q == [req[r] EXCEPT !.pc = "stop-status", !.old = None]
    <2>1. q \in Request /\ q.pc = "stop-status" /\ q.key = req[r].key /\ q.old = None
      <3>1. req[r] \in Request /\ None \in Credentials \cup {None}
        BY <1>0
      <3> QED BY <3>1, <1>0 DEF Request
    <2>2. /\ req' = [req EXCEPT ![r] = q] /\ Stopped(req[r].old) /\ reach' = None
          /\ detached' = {k \in detached : Alive(k)}
          /\ UNCHANGED <<stored, spent, status, holder, running, cancelled, abandoned, sup, restarts>>
      BY <1>0, <1>1 DEF StopReach, clear_reach
    <2> HIDE DEF q
    <2>3. /\ req'[r] = q /\ (\A p \in Requests : p # r => req'[p] = req[p])
          /\ req' \in [Requests -> Request]
      BY <1>0, <2>1, <2>2
    <2>4. \A j \in Credentials : Alive(j) => j \in detached'
      BY <1>i, <2>2 DEF Stopped
    <2>5. TypeOK'
      BY <2>2, <2>3 DEF TypeOK
    <2>6. PathInv'
      BY <2>2 DEF PathInv
    <2>7. LockInv'
      <3>1. \A p \in Requests : req'[p].pc \in Inside => holder' = p
        BY <1>i, <2>2, <2>3
      <3>2. holder' # None => req'[holder'].pc \in Inside /\ running' = None
        BY <1>i, <2>1, <2>2, <2>3 DEF Inside
      <3>3. \A p \in Requests : req'[p].pc \in {"start-lock", "start-wait"} => req'[p].key \in Credentials
        BY <2>1, <2>3 DEF LockInv
      <3>4. \A p \in Requests : req'[p].old = None
        BY <1>i, <2>1, <2>3
      <3>5. detached' \subseteq cancelled'
        BY <2>2 DEF LockInv
      <3> QED BY <3>1, <3>2, <3>3, <3>4, <3>5 DEF LockInv
    <2>8. RunningInv'
      BY <2>2, <2>4 DEF RunningInv, Alive
    <2>9. CleanInv'
      BY <1>i, <2>2 DEF CleanInv
    <2> QED BY <2>5, <2>6, <2>7, <2>8, <2>9
  <1>2. CASE StopStatus(r)
    <2> DEFINE q == [req[r] EXCEPT !.pc = "clear"]
    <2>1. q \in Request /\ q.pc = "clear" /\ q.old = req[r].old
      BY <1>0 DEF Request
    <2>2. /\ req' = [req EXCEPT ![r] = q] /\ req[r].pc = "stop-status" /\ status' = "none" /\ holder' = None
          /\ UNCHANGED <<stored, spent, reach, running, cancelled, detached, abandoned, sup, restarts>>
      BY <1>0, <1>2 DEF StopStatus, Step
    <2>3. q.old = None
      BY <2>1, <2>2 DEF LockInv
    <2> HIDE DEF q
    <2>4. /\ req'[r] = q /\ (\A p \in Requests : p # r => req'[p] = req[p])
          /\ req' \in [Requests -> Request]
      BY <1>0, <2>1, <2>2
    <2>5. \A p \in Requests : req'[p].pc \notin Inside /\ req'[p].old = None
      BY <1>i, <2>1, <2>3, <2>4 DEF Inside
    <2>6. \A j \in Credentials : Alive(j) => j \in detached
      <3>1. req[r].old = None
        BY <2>1, <2>3
      <3> QED BY <1>i, <3>1
    <2>7. TypeOK'
      BY <2>2, <2>4 DEF TypeOK
    <2>8. PathInv'
      BY <2>2 DEF PathInv
    <2>9. LockInv'
      <3>1. \A p \in Requests : req'[p].pc \in {"start-lock", "start-wait"} => req'[p].key \in Credentials
        BY <2>1, <2>4 DEF LockInv
      <3> QED BY <2>2, <2>5, <3>1 DEF LockInv
    <2>10. RunningInv'
      BY <2>2, <2>6 DEF RunningInv, Alive
    <2>11. CleanInv'
      BY <1>i, <2>2, <2>5 DEF CleanInv, Inside
    <2> QED BY <2>7, <2>8, <2>9, <2>10, <2>11
  <1> QED BY <1>1, <1>2

-----------------------------------------------------------------------------
(* The link's theorem.                                                     *)

LEMMA LinkInit == Init => LinkInv
  <1> SUFFICES ASSUME Init PROVE LinkInv
    OBVIOUS
  <1>1. Off \in Supervisor /\ Off.pc = "off" /\ PathOk(Off) /\ Idle \in Request /\ Idle.pc = "idle" /\ Idle.old = None
    BY IdleRecord DEF Off, Supervisor, PathOk
  <1>2. sup \in [Credentials -> Supervisor] /\ req \in [Requests -> Request]
    BY <1>1 DEF Init
  <1>3. TypeOK
    BY <1>2 DEF Init, TypeOK
  <1>4. PathInv /\ LockInv /\ RunningInv /\ CleanInv
    BY <1>1 DEF Init, PathInv, LockInv, RunningInv, CleanInv, Alive, Inside
  <1> QED BY <1>3, <1>4 DEF LinkInv

LEMMA RestartKeeps == ASSUME LinkInv, Restart PROVE LinkInv'
  <1>1. Off \in Supervisor /\ PathOk(Off) /\ Off.pc = "off"
    BY DEF Off, Supervisor, PathOk
  <1> DEFINE s == [Off EXCEPT !.pc = "dial"]
  <1>2. s \in Supervisor /\ PathOk(s)
    BY DEF Off, Supervisor, PathOk
  <1>3. /\ sup' = [k \in Credentials |-> IF k = stored THEN s ELSE Off]
    <2>1. stored = None => [k \in Credentials |-> Off] = [k \in Credentials |-> IF k = stored THEN s ELSE Off]
      BY DEF LinkInv
    <2> QED BY <2>1 DEF Restart
  <1> HIDE DEF s
  <1>4. /\ sup' \in [Credentials -> Supervisor]
        /\ \A k \in Credentials : PathOk(sup'[k]) /\ (sup'[k].pc # "off" => k = stored)
    BY <1>1, <1>2, <1>3
  <1>5. /\ status' \in {"none", "connecting"} /\ (stored = None => status' = "none")
        /\ reach' = None /\ running' = stored /\ holder' = None /\ cancelled' = {} /\ detached' = {}
        /\ req' = [r \in Requests |-> Idle]
        /\ UNCHANGED <<stored, spent, abandoned>>
    BY DEF Restart, set_connecting
  <1>6. req' \in [Requests -> Request] /\ \A r \in Requests : req'[r].pc = "idle" /\ req'[r].old = None
    BY <1>5, IdleRecord
  <1>7. restarts' \in 0..MaxRestarts
    BY DEF Restart, LinkInv, TypeOK
  <1>8. TypeOK'
    BY <1>4, <1>5, <1>6, <1>7 DEF LinkInv, TypeOK
  <1>9. PathInv' /\ LockInv'
    BY <1>4, <1>5, <1>6 DEF PathInv, LockInv, Inside
  <1>10. RunningInv' /\ CleanInv'
    BY <1>4, <1>5, <1>6 DEF RunningInv, CleanInv, Alive
  <1> QED BY <1>8, <1>9, <1>10 DEF LinkInv

LEMMA LinkNext == LinkInv /\ [Next]_vars => LinkInv'
  <1> SUFFICES ASSUME LinkInv, [Next]_vars PROVE LinkInv'
    OBVIOUS
  <1>1. CASE UNCHANGED vars
    <2> USE DEF vars, linkVars, lockVars
    <2>1. TypeOK' /\ PathInv' /\ LockInv'
      BY <1>1 DEF LinkInv, TypeOK, PathInv, LockInv
    <2>2. RunningInv' /\ CleanInv'
      BY <1>1 DEF LinkInv, RunningInv, CleanInv, Alive
    <2> QED BY <2>1, <2>2 DEF LinkInv
  <1>2. ASSUME NEW r \in Requests, BeginConnect(r) \/ BeginDisconnect(r) \/ Handle(r) \/ Abandon(r)
        PROVE  LinkInv'
    BY <1>2, OutsideSteps, AcquireKeeps, AbandonedKeeps, StartKeeps, StopKeeps DEF Handle, Abandon
  <1> QED BY <1>1, <1>2, SupervisorKeeps, RestartKeeps DEF Next

\* A join that replaces the running link waits for its task (upstream/mod.rs, stop_running()): however
\* requests queue up, are dropped by their clients or give up waiting, and whatever a session is doing
\* when it is cancelled, two supervisors run at once only when one of them is cancelled and was not
\* waited for; and a stop() that finds every task ended leaves neither addresses nor a status.
THEOREM OneLinkAtATime == Spec => []SupervisorInv
  <1>1. LinkInv => SupervisorInv
    <2> SUFFICES ASSUME LinkInv PROVE SupervisorInv
      OBVIOUS
    <2>1. ASSUME NEW j \in Credentials \ detached, NEW k \in Credentials \ detached, Alive(j), Alive(k)
          PROVE  j = k
      <3>1. CASE holder = None
        <4>1. \A r \in Requests : req[r].old = None
          BY <3>1 DEF LinkInv, LockInv, Inside
        <4> QED BY <2>1, <4>1 DEF LinkInv, RunningInv
      <3>2. CASE holder # None
        <4>1. req[holder].pc \in Inside /\ holder \in Requests
          BY <3>2 DEF LinkInv, LockInv, TypeOK
        <4>2. req[holder].old = j /\ req[holder].old = k
          BY <2>1, <4>1, InsideAlone
        <4> QED BY <4>2
      <3> QED BY <3>1, <3>2
    <2>2. ASSUME running = None, holder = None, detached = {}, NEW k \in Credentials PROVE ~ Alive(k)
      <3>1. \A r \in Requests : req[r].old = None
        BY <2>2 DEF LinkInv, LockInv, Inside
      <3> QED BY <2>2, <3>1 DEF LinkInv, RunningInv
    <2> QED BY <2>1, <2>2 DEF LinkInv, SupervisorInv, LockInv, CleanInv, OneSupervisor, StoppedIsClean
  <1> QED BY <1>1, LinkInit, LinkNext, PTL DEF Spec

-----------------------------------------------------------------------------
(* The change feed.                                                        *)

USE ChangeFeedAssumption DEF ChangeFeedAssumption


\* No task updates a device of which another has a change to publish.  The registry does not see to
\* this: it publishes after its lock is released, so this is what the result depends on.
NobodyOvertakes ==
    \A v, w \in Writers : v # w => \A b \in unsent[v], c \in unsent[w] : b.id # c.id

\* A change of d is yet to be published.
Waiting(d) == \E w \in Writers : \E c \in unsent[w] : c.id = d

\* A change that is yet to be published says what the table says.
CurrentInv == \A w \in Writers : \A c \in unsent[w] : c.via = online[c.id]

\* A change of d is in the receiver's buffer.
Queued(d) == \E i \in 1..Len(queue) : queue[i].id = d

\* The last change of d among the changes q, if there is one, says v.
LastSays(q, d, v) ==
    \A i \in 1..Len(q) : q[i].id = d =>
        q[i].via = v \/ \E j \in 1..Len(q) : j > i /\ q[j].id = d

\* The last change of a device in the buffer says what the table says, unless another one is coming.
QueueInv == pump # "down" => \A d \in Devices : Waiting(d) \/ LastSays(queue, d, online[d])

\* What a frame is about, and what it says about it.
Concerns(f, d) == d \in DOMAIN f.devices
Says(f, d) == f.devices[d]

\* A table k whose last refusals are r stands where a frame that said v of d leaves it.
Settled(k, r, d, v) == k[d] = v \/ (v # <<>> /\ d \in r)

\* Once the frames s have been applied to such a table, it stands where v leaves it.  When x, the table
\* may not be where the last frame left it, and only another frame can settle it.
EndsWith(s, k, r, x, d, v) ==
    \/ \E i \in 1..Len(s) : /\ Concerns(s[i], d) /\ Says(s[i], d) = v
                            /\ \A j \in 1..Len(s) : j > i => ~ Concerns(s[j], d)
    \/ /\ \A i \in 1..Len(s) : ~ Concerns(s[i], d)
       /\ x \/ Settled(k, r, d, v)

frames == wire \o holding

\* Where the frames that are on their way leave the upstream.
Leads(d, v) == EndsWith(frames, known, refused, strayed, d, v)

\* What has been sent, and what is being sent, ends with what the table says, unless there is more to
\* say or the receiver has to be told that it missed something.
BeliefInv ==
    pump = "pumping" /\ ~ lagged /\ peer = "current" =>
        \A d \in Devices : is_routable_for(online[d]) => Waiting(d) \/ Queued(d) \/ Leads(d, online[d])

FeedParts == FeedTypeOK /\ CurrentInv /\ QueueInv /\ BeliefInv

-----------------------------------------------------------------------------
(* What one more frame, and one frame less, does to the upstream's table.  *)

\* A frame that concerns d settles it.
LEMMA FrameSettles ==
    ASSUME NEW s \in Seq(FeedFrame), NEW f \in FeedFrame, NEW k, NEW r, NEW x, NEW d, NEW v,
           Concerns(f, d), Says(f, d) = v
    PROVE  EndsWith(Append(s, f), k, r, x, d, v)
  <1> DEFINE t == Append(s, f)
  <1>1. Len(t) = Len(s) + 1 /\ t[Len(s) + 1] = f /\ Len(s) \in Nat
    BY AppendProperties
  <1> HIDE DEF t
  <1>2. Len(s) + 1 \in 1..Len(t) /\ \A j \in 1..Len(t) : ~ (j > Len(s) + 1)
    BY <1>1
  <1> QED BY <1>1, <1>2 DEF EndsWith, t

\* One that does not leaves it as it was.
LEMMA FrameSkips ==
    ASSUME NEW s \in Seq(FeedFrame), NEW f \in FeedFrame, NEW k, NEW r, NEW x, NEW d, NEW v,
           ~ Concerns(f, d), EndsWith(s, k, r, x, d, v)
    PROVE  EndsWith(Append(s, f), k, r, x, d, v)
  <1> DEFINE t == Append(s, f)
  <1>1. /\ Len(t) = Len(s) + 1 /\ t[Len(s) + 1] = f /\ Len(s) \in Nat
        /\ \A i \in 1..Len(s) : t[i] = s[i]
    BY AppendProperties
  <1> HIDE DEF t
  <1>2. \A j \in 1..Len(t) : j \in 1..Len(s) \/ j = Len(s) + 1
    BY <1>1
  <1>3. ASSUME NEW i \in 1..Len(s), Concerns(s[i], d), Says(s[i], d) = v,
               \A j \in 1..Len(s) : j > i => ~ Concerns(s[j], d)
        PROVE  EndsWith(t, k, r, x, d, v)
    <2>1. i \in 1..Len(t) /\ t[i] = s[i]
      BY <1>1
    <2>2. \A j \in 1..Len(t) : j > i => ~ Concerns(t[j], d)
      BY <1>1, <1>2, <1>3
    <2> QED BY <1>3, <2>1, <2>2 DEF EndsWith
  <1>4. ASSUME \A i \in 1..Len(s) : ~ Concerns(s[i], d), x \/ Settled(k, r, d, v)
        PROVE  EndsWith(t, k, r, x, d, v)
    <2>1. \A i \in 1..Len(t) : ~ Concerns(t[i], d)
      BY <1>1, <1>2, <1>4
    <2> QED BY <1>4, <2>1 DEF EndsWith
  <1> QED BY <1>3, <1>4 DEF EndsWith, t

\* Applying the first frame changes nothing about where the frames lead.
LEMMA FrameApplied ==
    ASSUME NEW s \in Seq(FeedFrame), s # <<>>, NEW k, NEW r, NEW x, NEW k2, NEW r2, NEW x2, NEW d, NEW v,
           EndsWith(s, k, r, x, d, v),
           Concerns(Head(s), d) => Settled(k2, r2, d, Says(Head(s), d)),
           ~ Concerns(Head(s), d) => /\ Settled(k, r, d, v) => Settled(k2, r2, d, v)
                                     /\ x => x2
    PROVE  EndsWith(Tail(s), k2, r2, x2, d, v)
  <1> DEFINE t == Tail(s)
  <1>1. /\ Len(t) = Len(s) - 1 /\ Len(s) \in Nat \ {0} /\ Head(s) = s[1]
        /\ \A i \in 1..Len(t) : t[i] = s[i + 1]
    OBVIOUS
  <1> HIDE DEF t
  <1>3. ASSUME NEW i \in 1..Len(s), Concerns(s[i], d), Says(s[i], d) = v,
               \A j \in 1..Len(s) : j > i => ~ Concerns(s[j], d)
        PROVE  EndsWith(t, k2, r2, x2, d, v)
    <2>1. CASE i = 1
      <3>1. \A j \in 1..Len(t) : ~ Concerns(t[j], d)
        <4> TAKE j \in 1..Len(t)
        <4>1. j + 1 \in 1..Len(s) /\ j + 1 > i /\ t[j] = s[j + 1]
          BY <1>1, <2>1
        <4> QED BY <1>3, <4>1
      <3>2. Settled(k2, r2, d, v)
        BY <1>1, <1>3, <2>1
      <3> QED BY <3>1, <3>2 DEF EndsWith
    <2>2. CASE i # 1
      <3>1. i - 1 \in 1..Len(t) /\ t[i - 1] = s[i]
        BY <1>1, <2>2
      <3>2. \A j \in 1..Len(t) : j > i - 1 => ~ Concerns(t[j], d)
        <4> TAKE j \in 1..Len(t)
        <4>1. j + 1 \in 1..Len(s) /\ t[j] = s[j + 1] /\ (j > i - 1 => j + 1 > i)
          BY <1>1
        <4> QED BY <1>3, <4>1
      <3> QED BY <1>3, <3>1, <3>2 DEF EndsWith
    <2> QED BY <2>1, <2>2
  <1>4. ASSUME \A i \in 1..Len(s) : ~ Concerns(s[i], d), x \/ Settled(k, r, d, v)
        PROVE  EndsWith(t, k2, r2, x2, d, v)
    <2>1. \A j \in 1..Len(t) : ~ Concerns(t[j], d)
      <3> TAKE j \in 1..Len(t)
      <3>1. j + 1 \in 1..Len(s) /\ t[j] = s[j + 1]
        BY <1>1
      <3> QED BY <1>4, <3>1
    <2>2. ~ Concerns(Head(s), d)
      BY <1>1, <1>4
    <2>3. x2 \/ Settled(k2, r2, d, v)
      BY <1>4, <2>2
    <2> QED BY <2>1, <2>3 DEF EndsWith
  <1> QED BY <1>3, <1>4 DEF EndsWith, t

-----------------------------------------------------------------------------
(* What a frame does to the upstream's table.                              *)

LEMMA ChainTypes == <<>> \notin Chains /\ <<>> \in ChainsOrNone /\ Chains \subseteq ChainsOrNone
  <1>1. Len(<<>>) = 0
    OBVIOUS
  <1> QED BY <1>1 DEF ChainsOrNone

\* The three kinds of frames.
LEMMA FrameKinds ==
    ASSUME NEW f \in FeedFrame
    PROVE  /\ f.kind \in {"announce", "online", "offline"}
           /\ DOMAIN f.devices \subseteq Devices
           /\ \A d \in DOMAIN f.devices : f.devices[d] \in ChainsOrNone
           /\ f.kind = "announce" => \A d \in Devices : Concerns(f, d)
           /\ f.kind = "online" => \A d \in DOMAIN f.devices : f.devices[d] # <<>>
  <1>1. CASE f \in [kind : {"announce"}, devices : [Devices -> ChainsOrNone]]
    BY <1>1 DEF Concerns
  <1>2. CASE f \in [kind : {"online"}, devices : UNION {[{d} -> Chains] : d \in Devices}]
    <2>1. PICK d \in Devices : f.devices \in [{d} -> Chains]
      BY <1>2
    <2> QED BY <1>2, <2>1, ChainTypes
  <1>3. CASE f \in [kind : {"offline"}, devices : UNION {[{d} -> {<<>>}] : d \in Devices}]
    <2>1. PICK d \in Devices : f.devices \in [{d} -> {<<>>}]
      BY <1>3
    <2> QED BY <1>3, <2>1, ChainTypes
  <1> QED BY <1>1, <1>2, <1>3 DEF FeedFrame

\* A frame settles the devices it concerns and leaves the others.
LEMMA HandledIs ==
    ASSUME FeedTypeOK, NEW f \in FeedFrame, NEW d \in Devices
    PROVE  /\ Concerns(f, d) => Settled(handle_frame(f), refused_after(f), d, Says(f, d))
           /\ ~ Concerns(f, d) => \A v : Settled(known, refused, d, v) => Settled(handle_frame(f), refused_after(f), d, v)
  <1> DEFINE k == handle_frame(f)
             r == refused_after(f)
  <1>1. k[d] = IF d \notin DOMAIN f.devices THEN known[d]
               ELSE IF f.devices[d] # <<>> /\ installs(known[d], f.devices[d]) THEN f.devices[d]
               ELSE IF f.kind = "online" THEN known[d]
               ELSE <<>>
    BY DEF handle_frame
  <1>2. d \in r <=> IF d \notin DOMAIN f.devices THEN d \in refused
                   ELSE f.devices[d] # <<>> /\ ~ installs(known[d], f.devices[d])
    BY DEF refused_after
  <1>3. f.kind = "online" => \A e \in DOMAIN f.devices : f.devices[e] # <<>>
    BY FrameKinds
  <1> HIDE DEF k, r
  <1>4. Concerns(f, d) => Settled(k, r, d, Says(f, d))
    BY <1>1, <1>2, <1>3 DEF Concerns, Says, Settled
  <1>5. ~ Concerns(f, d) => \A v : Settled(known, refused, d, v) => Settled(k, r, d, v)
    BY <1>1, <1>2 DEF Concerns, Settled
  <1> QED BY <1>4, <1>5 DEF k, r

LEMMA HandledTyped ==
    ASSUME FeedTypeOK, NEW f \in FeedFrame
    PROVE  handle_frame(f) \in [Devices -> ChainsOrNone] /\ refused_after(f) \subseteq Devices
  <1>1. \A d \in DOMAIN f.devices : f.devices[d] \in ChainsOrNone
    BY FrameKinds
  <1>2. \A d \in Devices : known[d] \in ChainsOrNone
    BY DEF FeedTypeOK
  <1> QED BY <1>1, <1>2, ChainTypes DEF handle_frame, refused_after

-----------------------------------------------------------------------------
(* The feed's types.                                                       *)

LEMMA SnapshotIs ==
    ASSUME FeedTypeOK
    PROVE  /\ Snapshot \in FeedFrame
           /\ \A d \in Devices : Concerns(Snapshot, d) /\ (is_routable_for(online[d]) => Says(Snapshot, d) = online[d])
  <1> DEFINE rows == [d \in Devices |-> IF is_routable_for(online[d]) THEN online[d] ELSE <<>>]
  <1>1. rows \in [Devices -> ChainsOrNone]
    BY ChainTypes DEF FeedTypeOK
  <1>2. Snapshot = [kind |-> "announce", devices |-> rows]
    BY DEF Snapshot
  <1>3. \A d \in Devices : d \in DOMAIN rows /\ (is_routable_for(online[d]) => rows[d] = online[d])
    OBVIOUS
  <1> HIDE DEF rows
  <1>4. Snapshot \in [kind : {"announce"}, devices : [Devices -> ChainsOrNone]]
    BY <1>1, <1>2
  <1>5. Snapshot.devices = rows
    BY <1>2
  <1> QED BY <1>3, <1>4, <1>5 DEF Concerns, Says, FeedFrame

\* announcement_frame() says what the change says, except that a chain through the upstream is never
\* announced.
LEMMA AnnouncementIs ==
    ASSUME NEW c \in Changes
    PROVE  \/ announcement_frame(c) = <<>> /\ ~ is_routable_for(c.via)
           \/ \E f \in FeedFrame :
                 /\ announcement_frame(c) = <<f>>
                 /\ \A d \in Devices : Concerns(f, d) <=> d = c.id
                 /\ Says(f, c.id) = c.via
  <1>1. c.id \in Devices /\ c.via \in ChainsOrNone
    BY DEF Changes
  <1> DEFINE one == [d \in {c.id} |-> c.via]
             on == [kind |-> "online", devices |-> one]
             off == [kind |-> "offline", devices |-> one]
  <1>2. CASE c.via = <<>>
    <2>1. one \in [{c.id} -> {<<>>}] /\ DOMAIN one = {c.id} /\ one[c.id] = c.via
      BY <1>2
    <2>2. announcement_frame(c) = <<off>>
      BY <1>2 DEF announcement_frame
    <2> HIDE DEF one
    <2>3. off \in FeedFrame
      BY <1>1, <2>1 DEF FeedFrame
    <2>4. off.devices = one
      OBVIOUS
    <2> HIDE DEF off
    <2> QED BY <2>1, <2>2, <2>3, <2>4 DEF Concerns, Says
  <1>3. CASE c.via # <<>> /\ is_routable_for(c.via)
    <2>1. one \in [{c.id} -> Chains] /\ DOMAIN one = {c.id} /\ one[c.id] = c.via
      BY <1>1, <1>3 DEF ChainsOrNone
    <2>2. announcement_frame(c) = <<on>>
      BY <1>3 DEF announcement_frame
    <2> HIDE DEF one
    <2>3. on \in FeedFrame
      BY <1>1, <2>1 DEF FeedFrame
    <2>4. on.devices = one
      OBVIOUS
    <2> HIDE DEF on
    <2> QED BY <2>1, <2>2, <2>3, <2>4 DEF Concerns, Says
  <1>4. CASE c.via # <<>> /\ ~ is_routable_for(c.via)
    BY <1>4 DEF announcement_frame
  <1> QED BY <1>2, <1>3, <1>4


LEMMA UpdateTyped ==
    ASSUME FeedTypeOK, NEW w \in Writers, Update(w)
    PROVE  online' \in [Devices -> ChainsOrNone] /\ unsent' \in [Writers -> SUBSET Changes]
  <1>1. ASSUME NEW d \in Devices, NEW via \in Chains, RouteOne(w, d, via)
        PROVE  online' \in [Devices -> ChainsOrNone] /\ unsent' \in [Writers -> SUBSET Changes]
    <2>1. via \in ChainsOrNone /\ [id |-> d, via |-> via] \in Changes
      BY ChainTypes DEF Changes
    <2> QED BY <1>1, <2>1 DEF RouteOne, FeedTypeOK
  <1>2. ASSUME NEW gone \in SUBSET Devices, LoseRoutes(w, gone)
        PROVE  online' \in [Devices -> ChainsOrNone] /\ unsent' \in [Writers -> SUBSET Changes]
    <2>1. {[id |-> d, via |-> <<>>] : d \in gone} \subseteq Changes
      BY ChainTypes DEF Changes
    <2>2. online' = [d \in Devices |-> IF d \in gone THEN <<>> ELSE online[d]]
      BY <1>2 DEF LoseRoutes
    <2>3. online' \in [Devices -> ChainsOrNone]
      BY <2>2, ChainTypes DEF FeedTypeOK
    <2> QED BY <1>2, <2>1, <2>3 DEF LoseRoutes, FeedTypeOK
  <1> QED BY <1>1, <1>2 DEF Update

LEMMA PublishTyped ==
    ASSUME FeedTypeOK, NEW w \in Writers, NEW c \in unsent[w], PublishOne(w, c)
    PROVE  unsent' \in [Writers -> SUBSET Changes] /\ online' = online /\ c \in Changes
  BY DEF PublishOne, FeedTypeOK

LEMMA FeedTypes == FeedTypeOK /\ [FeedNext]_feedVars => FeedTypeOK'
  <1> SUFFICES ASSUME FeedTypeOK, [FeedNext]_feedVars PROVE FeedTypeOK'
    OBVIOUS
  <1>1. ASSUME NEW w \in Writers, FeedUpdate(w) PROVE FeedTypeOK'
    <2>1. updates' \in 0..MaxUpdates
      BY <1>1 DEF FeedUpdate, FeedTypeOK
    <2> QED BY <1>1, <2>1, UpdateTyped DEF FeedUpdate, FeedTypeOK, sessionVars, peerVars, historyVars
  <1>2. ASSUME NEW w \in Writers, NEW c \in unsent[w], FeedPublish(w, c) PROVE FeedTypeOK'
    <2>0. c \in Changes /\ queue \in Seq(Changes) /\ Len(queue) \in Nat
      BY DEF FeedTypeOK
    <2>1. /\ queue' \in Seq(Changes) /\ Len(queue') <= CHANGE_CAPACITY
          /\ lagged' \in BOOLEAN /\ lost' \in BOOLEAN
      <3>1. CASE UNCHANGED <<queue, lagged, lost>>
        BY <3>1 DEF FeedTypeOK
      <3>2. CASE queue' = Append(queue, c) /\ Len(queue) < CHANGE_CAPACITY /\ UNCHANGED <<lagged, lost>>
        <4>1. queue' \in Seq(Changes) /\ Len(queue') = Len(queue) + 1
          BY <2>0, <3>2
        <4>2. lagged' \in BOOLEAN /\ lost' \in BOOLEAN
          BY <3>2 DEF FeedTypeOK
        <4> QED BY <2>0, <3>2, <4>1, <4>2
      <3>3. CASE queue' = Append(Tail(queue), c) /\ Len(queue) = CHANGE_CAPACITY /\ lagged' = TRUE /\ lost' = TRUE
        <4>1. queue # <<>>
          BY <2>0, <3>3
        <4>2. Tail(queue) \in Seq(Changes) /\ Len(Tail(queue)) = Len(queue) - 1
          BY <2>0, <4>1
        <4>3. queue' \in Seq(Changes) /\ Len(queue') = Len(queue)
          BY <2>0, <3>3, <4>2
        <4>4. lagged' \in BOOLEAN /\ lost' \in BOOLEAN
          BY <3>3
        <4> QED BY <2>0, <3>3, <4>3, <4>4
      <3> QED BY <1>2, <3>1, <3>2, <3>3 DEF FeedPublish
    <2> QED BY <1>2, <2>1, PublishTyped DEF FeedPublish, FeedTypeOK, peerVars
  <1>3. CASE Subscribe
    <2>1. lagged' \in BOOLEAN /\ lost' \in BOOLEAN
      BY <1>3 DEF Subscribe, FeedTypeOK
    <2>2. late' \subseteq FeedFrame
      <3>1. \A i \in 1..Len(wire) : wire[i] \in FeedFrame
        BY ElementOfSeq DEF FeedTypeOK
      <3> QED BY <1>3, <3>1 DEF Subscribe, FeedTypeOK
    <2> QED BY <1>3, <2>1, <2>2 DEF Subscribe, FeedTypeOK, sourceVars
  <1>4. CASE TakeSnapshot
    <2>1. <<Snapshot>> \in Seq(FeedFrame) /\ Len(<<Snapshot>>) <= 1
      BY SnapshotIs
    <2> QED BY <1>4, <2>1 DEF TakeSnapshot, FeedTypeOK, sourceVars, peerVars, historyVars
  <1>5. CASE RecvChange
    <2>1. queue \in Seq(Changes) /\ queue # <<>> /\ Len(queue) <= CHANGE_CAPACITY
      BY <1>5 DEF RecvChange, FeedTypeOK
    <2>2. Head(queue) \in Changes /\ Tail(queue) \in Seq(Changes) /\ Len(Tail(queue)) <= CHANGE_CAPACITY
      BY <2>1
    <2>3. announcement_frame(Head(queue)) \in Seq(FeedFrame) /\ Len(announcement_frame(Head(queue))) <= 1
      <3>1. \/ announcement_frame(Head(queue)) = <<>>
            \/ \E f \in FeedFrame : announcement_frame(Head(queue)) = <<f>>
        BY <2>2, AnnouncementIs
      <3>2. <<>> \in Seq(FeedFrame) /\ Len(<<>>) <= 1
        OBVIOUS
      <3>3. ASSUME NEW f \in FeedFrame PROVE <<f>> \in Seq(FeedFrame) /\ Len(<<f>>) <= 1
        OBVIOUS
      <3> QED BY <3>1, <3>2, <3>3
    <2> QED BY <1>5, <2>2, <2>3 DEF RecvChange, FeedTypeOK, sourceVars, peerVars, historyVars
  <1>6. CASE RecvLagged
    <2>1. lagged' \in BOOLEAN
      BY <1>6 DEF RecvLagged
    <2>2. <<Snapshot>> \in Seq(FeedFrame) /\ Len(<<Snapshot>>) <= 1
      BY SnapshotIs
    <2> QED BY <1>6, <2>1, <2>2 DEF RecvLagged, FeedTypeOK, sourceVars, peerVars, historyVars
  <1>7. CASE SendFrame
    <2>1. wire \o holding \in Seq(FeedFrame) /\ Len(wire \o holding) = Len(wire) + Len(holding)
      BY ConcatProperties DEF FeedTypeOK
    <2>2. Len(wire') <= WireCapacity
      BY <1>7, <2>1 DEF SendFrame, FeedTypeOK
    <2> QED BY <1>7, <2>1, <2>2 DEF SendFrame, FeedTypeOK, sourceVars, historyVars
  <1>8. CASE UpstreamApply
    <2>1. wire \in Seq(FeedFrame) /\ wire # <<>>
      BY <1>8 DEF UpstreamApply, FeedTypeOK
    <2>2. Tail(wire) \in Seq(FeedFrame) /\ Len(Tail(wire)) <= WireCapacity /\ Head(wire) \in FeedFrame
      BY <2>1 DEF FeedTypeOK
    <2>3. known' \in [Devices -> ChainsOrNone] /\ refused' \subseteq Devices
      BY <1>8, <2>2, HandledTyped DEF UpstreamApply
    <2>4. strayed' \in BOOLEAN
      BY <1>8 DEF UpstreamApply, FeedTypeOK
    <2> QED BY <1>8, <2>2, <2>3, <2>4 DEF UpstreamApply, FeedTypeOK, sourceVars, sessionVars
  <1>9. CASE StrayApply
    <2>1. PICK f \in late : /\ late' = late \ {f} /\ known' = handle_frame(f) /\ refused' = refused_after(f)
                            /\ strayed' = TRUE /\ lost' = TRUE
                            /\ UNCHANGED <<online, unsent, pump, queue, lagged, holding, peer, wire, updates, drops>>
      BY <1>9 DEF StrayApply, sourceVars, sessionVars
    <2>2. f \in FeedFrame /\ late' \subseteq FeedFrame
      BY <2>1 DEF FeedTypeOK
    <2>3. known' \in [Devices -> ChainsOrNone] /\ refused' \subseteq Devices
      BY <2>1, <2>2, HandledTyped
    <2>4. strayed' \in BOOLEAN /\ lost' \in BOOLEAN
      BY <2>1
    <2> QED BY <2>1, <2>2, <2>3, <2>4 DEF FeedTypeOK
  <1>10. CASE LinkDown
    <2>1. lagged' \in BOOLEAN
      BY <1>10 DEF LinkDown
    <2>2. drops' \in 0..MaxDrops
      BY <1>10 DEF LinkDown, FeedTypeOK
    <2> QED BY <1>10, <2>1, <2>2 DEF LinkDown, FeedTypeOK, sourceVars, historyVars
  <1>11. CASE LinkDownSeen
    <2>1. lagged' \in BOOLEAN
      BY <1>11 DEF LinkDownSeen
    <2> QED BY <1>11, <2>1 DEF LinkDownSeen, FeedTypeOK, sourceVars, historyVars
  <1>12. CASE UpstreamDisconnect
    <2>1. known' \in [Devices -> ChainsOrNone]
      BY <1>12, ChainTypes DEF UpstreamDisconnect, Unrouted
    <2>2. drops' \in 0..MaxDrops
      BY <1>12 DEF UpstreamDisconnect, FeedTypeOK
    <2> QED BY <1>12, <2>1, <2>2 DEF UpstreamDisconnect, FeedTypeOK, sourceVars, sessionVars, historyVars
  <1>13. CASE UNCHANGED feedVars
    BY <1>13 DEF feedVars, sourceVars, sessionVars, peerVars, historyVars, FeedTypeOK
  <1> QED BY <1>1, <1>2, <1>3, <1>4, <1>5, <1>6, <1>7, <1>8, <1>9, <1>10, <1>11, <1>12, <1>13 DEF FeedNext, Pump

-----------------------------------------------------------------------------
(* The table's side: what an update and a publication leave behind.        *)

\* A device whose chain an update changes has a change to publish, and every change of the update is
\* current.
LEMMA UpdateLeaves ==
    ASSUME FeedTypeOK, NEW w \in Writers, Update(w)
    PROVE  /\ \A d \in Devices : online'[d] = online[d] \/ \E c \in unsent'[w] : c.id = d
           /\ \A c \in unsent'[w] : c.via = online'[c.id]
           /\ \A v \in Writers \ {w} : unsent'[v] = unsent[v]
           /\ unsent[w] = {}
  <1>1. ASSUME NEW e \in Devices, NEW via \in Chains, RouteOne(w, e, via)
        PROVE  /\ \A d \in Devices : online'[d] = online[d] \/ \E c \in unsent'[w] : c.id = d
               /\ \A c \in unsent'[w] : c.via = online'[c.id]
    <2>1. unsent'[w] = {[id |-> e, via |-> via]} /\ online' = [online EXCEPT ![e] = via]
      BY <1>1 DEF RouteOne, FeedTypeOK
    <2>2. online'[e] = via /\ \A d \in Devices \ {e} : online'[d] = online[d]
      BY <2>1 DEF FeedTypeOK
    <2>3. [id |-> e, via |-> via].id = e /\ [id |-> e, via |-> via].via = via
      OBVIOUS
    <2> QED BY <2>1, <2>2, <2>3
  <1>2. ASSUME NEW gone \in SUBSET Devices, LoseRoutes(w, gone)
        PROVE  /\ \A d \in Devices : online'[d] = online[d] \/ \E c \in unsent'[w] : c.id = d
               /\ \A c \in unsent'[w] : c.via = online'[c.id]
    <2>1. /\ unsent'[w] = {[id |-> d, via |-> <<>>] : d \in gone}
          /\ online' = [d \in Devices |-> IF d \in gone THEN <<>> ELSE online[d]]
      BY <1>2 DEF LoseRoutes, FeedTypeOK
    <2>2. \A d \in Devices : online'[d] = IF d \in gone THEN <<>> ELSE online[d]
      BY <2>1
    <2>3. \A d \in gone : [id |-> d, via |-> <<>>] \in unsent'[w] /\ [id |-> d, via |-> <<>>].id = d
      BY <2>1
    <2>4. ASSUME NEW c \in unsent'[w] PROVE c.via = online'[c.id]
      <3>1. PICK d \in gone : c = [id |-> d, via |-> <<>>]
        BY <2>1
      <3>2. c.id = d /\ c.via = <<>>
        BY <3>1
      <3> QED BY <2>2, <3>2
    <2> QED BY <2>2, <2>3, <2>4
  <1>3. /\ \A v \in Writers \ {w} : unsent'[v] = unsent[v]
        /\ unsent[w] = {}
    BY DEF Update, RouteOne, LoseRoutes, FeedTypeOK
  <1> QED BY <1>1, <1>2, <1>3 DEF Update

LEMMA PublishLeaves ==
    ASSUME FeedTypeOK, NEW w \in Writers, NEW c \in unsent[w], PublishOne(w, c)
    PROVE  /\ c \in unsent[w] /\ online' = online
           /\ \A v \in Writers : unsent'[v] = IF v = w THEN unsent[v] \ {c} ELSE unsent[v]
  BY DEF PublishOne, FeedTypeOK

\* Under NobodyOvertakes, what is yet to be published stays current.
LEMMA CurrentNext ==
    ASSUME FeedTypeOK, CurrentInv, NobodyOvertakes', [FeedNext]_feedVars
    PROVE  CurrentInv'
  <1>1. ASSUME NEW w \in Writers, FeedUpdate(w) PROVE CurrentInv'
    <2>1. Update(w)
      BY <1>1 DEF FeedUpdate
    <2>2. ASSUME NEW v \in Writers, NEW c \in unsent'[v] PROVE c.via = online'[c.id]
      <3>1. CASE v = w
        BY <2>1, <2>2, <3>1, UpdateLeaves
      <3>2. CASE v # w
        <4>1. c \in unsent[v] /\ c.id \in Devices
          BY <2>1, <2>2, <3>2, UpdateLeaves DEF FeedTypeOK, Changes
        <4>2. \A b \in unsent'[w] : b.id # c.id
          BY <2>2, <3>2 DEF NobodyOvertakes
        <4>3. online'[c.id] = online[c.id]
          BY <2>1, <4>1, <4>2, UpdateLeaves
        <4> QED BY <4>1, <4>3 DEF CurrentInv
      <3> QED BY <3>1, <3>2
    <2> QED BY <2>2 DEF CurrentInv
  <1>2. ASSUME NEW w \in Writers, NEW c \in unsent[w], FeedPublish(w, c) PROVE CurrentInv'
    <2>1. PublishOne(w, c)
      BY <1>2 DEF FeedPublish
    <2>2. online' = online /\ \A v \in Writers : unsent'[v] \subseteq unsent[v]
      BY <2>1, PublishLeaves
    <2> QED BY <2>2 DEF CurrentInv
  <1>3. CASE UNCHANGED sourceVars
    BY <1>3 DEF CurrentInv, sourceVars
  <1>4. Pump \/ UpstreamApply \/ StrayApply \/ UpstreamDisconnect \/ LinkDown \/ UNCHANGED feedVars
        => UNCHANGED sourceVars
    BY DEF Pump, Subscribe, TakeSnapshot, RecvChange, RecvLagged, SendFrame, LinkDownSeen, UpstreamApply,
           StrayApply, UpstreamDisconnect, LinkDown, feedVars
  <1> QED BY <1>1, <1>2, <1>3, <1>4 DEF FeedNext

-----------------------------------------------------------------------------
(* The receiver's buffer.                                                  *)

LEMMA LastAppended ==
    ASSUME NEW q \in Seq(Changes), NEW c \in Changes, NEW d, NEW v,
           IF c.id = d THEN c.via = v ELSE LastSays(q, d, v)
    PROVE  LastSays(Append(q, c), d, v)
  <1> DEFINE t == Append(q, c)
  <1>1. /\ Len(t) = Len(q) + 1 /\ t[Len(q) + 1] = c /\ Len(q) \in Nat
        /\ \A i \in 1..Len(q) : t[i] = q[i]
    BY AppendProperties
  <1> HIDE DEF t
  <1>2. ASSUME NEW i \in 1..Len(t), t[i].id = d
        PROVE  t[i].via = v \/ \E j \in 1..Len(t) : j > i /\ t[j].id = d
    <2>1. CASE c.id = d
      <3>1. Len(q) + 1 \in 1..Len(t) /\ (i = Len(q) + 1 \/ Len(q) + 1 > i)
        BY <1>1
      <3> QED BY <1>1, <2>1, <3>1
    <2>2. CASE c.id # d
      <3>1. i \in 1..Len(q) /\ t[i] = q[i]
        BY <1>1, <1>2, <2>2
      <3>2. q[i].via = v \/ \E j \in 1..Len(q) : j > i /\ q[j].id = d
        BY <1>2, <2>2, <3>1 DEF LastSays
      <3>3. \A j \in 1..Len(q) : j \in 1..Len(t) /\ t[j] = q[j]
        BY <1>1
      <3> QED BY <3>1, <3>2, <3>3
    <2> QED BY <2>1, <2>2
  <1> QED BY <1>2 DEF LastSays, t

LEMMA LastOfTail ==
    ASSUME NEW q \in Seq(Changes), q # <<>>, NEW d, NEW v, LastSays(q, d, v)
    PROVE  LastSays(Tail(q), d, v)
  <1> DEFINE t == Tail(q)
  <1>1. /\ Len(t) = Len(q) - 1 /\ Len(q) \in Nat \ {0}
        /\ \A i \in 1..Len(t) : t[i] = q[i + 1]
    OBVIOUS
  <1> HIDE DEF t
  <1>2. ASSUME NEW i \in 1..Len(t), t[i].id = d
        PROVE  t[i].via = v \/ \E j \in 1..Len(t) : j > i /\ t[j].id = d
    <2>1. i + 1 \in 1..Len(q) /\ t[i] = q[i + 1]
      BY <1>1
    <2>2. q[i + 1].via = v \/ \E j \in 1..Len(q) : j > i + 1 /\ q[j].id = d
      BY <1>2, <2>1 DEF LastSays
    <2>3. CASE q[i + 1].via = v
      BY <2>1, <2>3
    <2>4. ASSUME NEW j \in 1..Len(q), j > i + 1, q[j].id = d PROVE \E n \in 1..Len(t) : n > i /\ t[n].id = d
      <3>1. j - 1 \in 1..Len(t) /\ j - 1 > i /\ t[j - 1] = q[j]
        BY <1>1, <2>4
      <3> QED BY <2>4, <3>1
    <2> QED BY <2>2, <2>3, <2>4
  <1> QED BY <1>2 DEF LastSays, t

\* Nothing that an update or a publication does makes a waiting device forgotten, except the
\* publication of its change.
LEMMA WaitingAfterUpdate ==
    ASSUME FeedTypeOK, NEW w \in Writers, Update(w), NEW d \in Devices
    PROVE  Waiting(d)' \/ (~ Waiting(d) /\ online'[d] = online[d])
  <1>1. ASSUME Waiting(d) PROVE Waiting(d)'
    <2>1. PICK v \in Writers : \E c \in unsent[v] : c.id = d
      BY <1>1 DEF Waiting
    <2>2. v # w /\ unsent'[v] = unsent[v]
      BY <2>1, UpdateLeaves
    <2> QED BY <2>1, <2>2 DEF Waiting
  <1>2. ASSUME online'[d] # online[d] PROVE Waiting(d)'
    BY <1>2, UpdateLeaves DEF Waiting
  <1> QED BY <1>1, <1>2

LEMMA WaitingAfterPublish ==
    ASSUME FeedTypeOK, NEW w \in Writers, NEW c \in unsent[w], PublishOne(w, c), NEW d, d # c.id, Waiting(d)
    PROVE  Waiting(d)'
  <1>1. PICK v \in Writers : \E b \in unsent[v] : b.id = d
    BY DEF Waiting
  <1>2. PICK b \in unsent[v] : b.id = d
    BY <1>1
  <1>3. unsent'[v] = IF v = w THEN unsent[v] \ {c} ELSE unsent[v]
    BY PublishLeaves
  <1>4. b # c /\ b \in unsent'[v]
    BY <1>2, <1>3
  <1> QED BY <1>2, <1>4 DEF Waiting

LEMMA QueueNext ==
    ASSUME FeedTypeOK, CurrentInv, QueueInv, [FeedNext]_feedVars
    PROVE  QueueInv'
  <1>1. ASSUME NEW w \in Writers, FeedUpdate(w) PROVE QueueInv'
    <2>1. Update(w) /\ UNCHANGED <<pump, queue>>
      BY <1>1 DEF FeedUpdate, sessionVars
    <2>2. ASSUME pump # "down", NEW d \in Devices PROVE Waiting(d)' \/ LastSays(queue, d, online'[d])
      BY <2>1, <2>2, WaitingAfterUpdate DEF QueueInv
    <2> QED BY <2>1, <2>2 DEF QueueInv
  <1>2. ASSUME NEW w \in Writers, NEW c \in unsent[w], FeedPublish(w, c) PROVE QueueInv'
    <2>1. PublishOne(w, c) /\ UNCHANGED pump /\ c \in Changes
      BY <1>2, PublishTyped DEF FeedPublish
    <2>2. online' = online /\ c.via = online[c.id] /\ c.id \in Devices
      BY <2>1, PublishLeaves DEF CurrentInv, Changes
    <2>3. ASSUME pump # "down", NEW d \in Devices PROVE Waiting(d)' \/ LastSays(queue', d, online[d])
      <3>1. queue \in Seq(Changes)
        BY DEF FeedTypeOK
      <3>2. CASE d # c.id /\ Waiting(d)
        BY <2>1, <3>2, WaitingAfterPublish
      <3>3. CASE d = c.id \/ ~ Waiting(d)
        <4>1. IF c.id = d THEN c.via = online[d] ELSE LastSays(queue, d, online[d])
          BY <2>2, <2>3, <3>3 DEF QueueInv
        <4>2. CASE queue' = Append(queue, c)
          BY <2>1, <3>1, <4>1, <4>2, LastAppended
        <4>3. CASE queue' = Append(Tail(queue), c) /\ Len(queue) = CHANGE_CAPACITY
          <5>1. queue # <<>>
            BY <4>3
          <5>2. Tail(queue) \in Seq(Changes)
            BY <3>1, <5>1
          <5>3. IF c.id = d THEN c.via = online[d] ELSE LastSays(Tail(queue), d, online[d])
            BY <3>1, <4>1, <5>1, LastOfTail
          <5> QED BY <2>1, <4>3, <5>2, <5>3, LastAppended
        <4> QED BY <1>2, <2>3, <4>2, <4>3 DEF FeedPublish
      <3> QED BY <3>2, <3>3
    <2> QED BY <2>1, <2>2, <2>3 DEF QueueInv
  <1>3. CASE Subscribe
    <2>1. queue' = <<>>
      BY <1>3 DEF Subscribe
    <2>2. \A d \in Devices : LastSays(queue', d, online'[d])
      BY <2>1 DEF LastSays
    <2> QED BY <2>2 DEF QueueInv
  <1>4. CASE RecvChange
    <2>1. /\ UNCHANGED <<online, unsent, pump>> /\ queue' = Tail(queue) /\ queue # <<>>
          /\ queue \in Seq(Changes)
      BY <1>4 DEF RecvChange, sourceVars, FeedTypeOK
    <2> QED BY <2>1, LastOfTail DEF QueueInv, Waiting
  <1>5. CASE TakeSnapshot
    <2>1. UNCHANGED <<online, unsent, queue>> /\ pump # "down"
      BY <1>5 DEF TakeSnapshot, sourceVars
    <2> QED BY <2>1 DEF QueueInv, Waiting, LastSays
  <1>6. CASE RecvLagged \/ SendFrame \/ UpstreamApply \/ StrayApply \/ UpstreamDisconnect \/ UNCHANGED feedVars
    <2>1. UNCHANGED <<online, unsent, queue, pump>>
      BY <1>6 DEF RecvLagged, SendFrame, UpstreamApply, StrayApply, UpstreamDisconnect, sourceVars,
                  sessionVars, feedVars
    <2> QED BY <2>1 DEF QueueInv, Waiting, LastSays
  <1>7. CASE LinkDown \/ LinkDownSeen
    BY <1>7 DEF LinkDown, LinkDownSeen, QueueInv
  <1> QED BY <1>1, <1>2, <1>3, <1>4, <1>5, <1>6, <1>7 DEF FeedNext, Pump

-----------------------------------------------------------------------------
(* The frames, and the upstream's table.                                   *)

LEMMA FramesTyped ==
    ASSUME FeedTypeOK
    PROVE  /\ frames \in Seq(FeedFrame) /\ wire \in Seq(FeedFrame) /\ holding \in Seq(FeedFrame)
           /\ holding = <<>> => frames = wire
  BY ConcatProperties, ConcatEmptySeq DEF FeedTypeOK, frames

\* A frame that is written while none is held comes after all the others.
LEMMA OneMoreFrame ==
    ASSUME FeedTypeOK, NEW f \in FeedFrame, wire' = wire, holding' = <<f>>
    PROVE  frames' = Append(wire, f)
  BY FramesTyped, AppendIsConcat DEF frames

\* The frame being sent keeps its place, and the frame applied is the first.
LEMMA SentFrames ==
    ASSUME FeedTypeOK, SendFrame PROVE frames' = frames
  <1>1. wire' = frames /\ holding' = <<>> /\ frames \in Seq(FeedFrame)
    BY FramesTyped DEF SendFrame, frames
  <1> QED BY <1>1, ConcatEmptySeq DEF frames

LEMMA AppliedFrames ==
    ASSUME FeedTypeOK, UpstreamApply
    PROVE  frames # <<>> /\ frames' = Tail(frames) /\ Head(frames) = Head(wire)
  <1>1. wire' = Tail(wire) /\ wire # <<>> /\ holding' = holding
    BY DEF UpstreamApply, sessionVars
  <1>2. wire \in Seq(FeedFrame) /\ holding \in Seq(FeedFrame) /\ frames \in Seq(FeedFrame)
    BY FramesTyped
  <1>3. /\ Len(frames) = Len(wire) + Len(holding)
        /\ \A i \in 1..(Len(wire) + Len(holding)) :
              frames[i] = IF i <= Len(wire) THEN wire[i] ELSE holding[i - Len(wire)]
    BY <1>2, ConcatProperties DEF frames
  <1>4. Len(wire) \in Nat \ {0} /\ Len(holding) \in Nat
    BY <1>1, <1>2
  <1>5. frames # <<>> /\ Head(frames) = Head(wire)
    BY <1>1, <1>2, <1>3, <1>4
  <1>6. /\ Tail(frames) \in Seq(FeedFrame) /\ Len(Tail(frames)) = Len(frames) - 1
        /\ \A i \in 1..Len(Tail(frames)) : Tail(frames)[i] = frames[i + 1]
    BY <1>2, <1>5
  <1>7. /\ Tail(wire) \in Seq(FeedFrame) /\ Len(Tail(wire)) = Len(wire) - 1
        /\ \A i \in 1..Len(Tail(wire)) : Tail(wire)[i] = wire[i + 1]
    BY <1>1, <1>2
  <1> DEFINE t == Tail(wire)
             s == t \o holding
             n == Tail(frames)
  <1>8. /\ s \in Seq(FeedFrame) /\ Len(s) = Len(t) + Len(holding)
        /\ \A i \in 1..(Len(t) + Len(holding)) :
              s[i] = IF i <= Len(t) THEN t[i] ELSE holding[i - Len(t)]
    BY <1>2, <1>7, ConcatProperties
  <1> HIDE DEF t, s, n
  <1>9. Len(n) = Len(s)
    BY <1>3, <1>4, <1>6, <1>7, <1>8 DEF t, n
  <1>10. ASSUME NEW i \in 1..Len(n) PROVE n[i] = s[i]
    <2>1. n[i] = frames[i + 1] /\ i + 1 \in 1..(Len(wire) + Len(holding)) /\ i \in 1..(Len(t) + Len(holding))
      BY <1>3, <1>4, <1>6, <1>8, <1>9, <1>10 DEF n
    <2>2. CASE i <= Len(t)
      <3>1. i + 1 <= Len(wire) /\ i \in 1..Len(Tail(wire))
        BY <1>4, <1>7, <2>1, <2>2 DEF t
      <3>2. s[i] = wire[i + 1]
        BY <1>7, <1>8, <2>1, <2>2, <3>1 DEF t
      <3> QED BY <1>3, <2>1, <3>1, <3>2
    <2>3. CASE ~ (i <= Len(t))
      <3>1. ~ (i + 1 <= Len(wire)) /\ i + 1 - Len(wire) = i - Len(t)
        BY <1>4, <1>7, <2>1, <2>3 DEF t
      <3>2. s[i] = holding[i - Len(t)]
        BY <1>8, <2>1, <2>3
      <3>3. n[i] = holding[i + 1 - Len(wire)]
        BY <1>3, <2>1, <3>1
      <3> QED BY <3>1, <3>2, <3>3
    <2> QED BY <2>2, <2>3
  <1>11. n \in Seq(FeedFrame)
    BY <1>6 DEF n
  <1>12. n = s
    BY <1>8, <1>9, <1>10, <1>11, SeqEqual
  <1>13. frames' = s
    BY <1>1 DEF frames, s, t
  <1> QED BY <1>1, <1>5, <1>12, <1>13 DEF n

\* What the step that takes a change off the buffer does to the frames.
LEMMA ChangeFrame ==
    ASSUME FeedTypeOK, RecvChange
    PROVE  /\ Head(queue) \in Changes /\ frames = wire
           /\ \/ frames' = frames /\ ~ is_routable_for(Head(queue).via)
              \/ \E f \in FeedFrame :
                    /\ frames' = Append(frames, f)
                    /\ \A d \in Devices : Concerns(f, d) <=> d = Head(queue).id
                    /\ Says(f, Head(queue).id) = Head(queue).via
  <1> DEFINE c == Head(queue)
  <1>1. /\ queue \in Seq(Changes) /\ queue # <<>> /\ holding = <<>> /\ wire' = wire
        /\ holding' = announcement_frame(c)
    BY DEF RecvChange, FeedTypeOK, peerVars
  <1>2. c \in Changes
    BY <1>1
  <1>3. frames = wire /\ wire \in Seq(FeedFrame)
    BY <1>1, FramesTyped
  <1> HIDE DEF c
  <1>4. CASE announcement_frame(c) = <<>> /\ ~ is_routable_for(c.via)
    <2>1. frames' = wire
      BY <1>1, <1>3, <1>4, ConcatEmptySeq DEF frames
    <2> QED BY <1>1, <1>2, <1>3, <1>4, <2>1 DEF c
  <1>5. ASSUME NEW f \in FeedFrame, announcement_frame(c) = <<f>>,
               \A d \in Devices : Concerns(f, d) <=> d = c.id,
               Says(f, c.id) = c.via
        PROVE  /\ frames' = Append(frames, f)
               /\ \A d \in Devices : Concerns(f, d) <=> d = c.id
               /\ Says(f, c.id) = c.via
    <2>1. frames' = Append(wire, f)
      BY <1>1, <1>5, OneMoreFrame
    <2> QED BY <1>3, <1>5, <2>1
  <1>6. \/ announcement_frame(c) = <<>> /\ ~ is_routable_for(c.via)
        \/ \E f \in FeedFrame :
              /\ announcement_frame(c) = <<f>>
              /\ \A d \in Devices : Concerns(f, d) <=> d = c.id
              /\ Says(f, c.id) = c.via
    BY <1>2, AnnouncementIs
  <1> QED BY <1>1, <1>2, <1>3, <1>4, <1>5, <1>6 DEF c

\* The upstream's table and what is remembered of it change in its own steps only.
LEMMA TableKept ==
    ASSUME \/ Pump \/ LinkDown \/ UNCHANGED feedVars
           \/ \E w \in Writers : FeedUpdate(w) \/ \E c \in unsent[w] : FeedPublish(w, c)
    PROVE  known' = known /\ refused' = refused /\ strayed' = strayed
  BY DEF Pump, Subscribe, TakeSnapshot, RecvChange, RecvLagged, SendFrame, LinkDownSeen, LinkDown,
         FeedUpdate, FeedPublish, feedVars, peerVars, historyVars

LEMMA AppliedLeads ==
    ASSUME FeedTypeOK, UpstreamApply, NEW d \in Devices, NEW v, Leads(d, v)
    PROVE  Leads(d, v)'
  <1> DEFINE f == Head(wire)
  <1>1. /\ wire \in Seq(FeedFrame) /\ wire # <<>> /\ frames \in Seq(FeedFrame)
        /\ known' = handle_frame(f) /\ refused' = refused_after(f)
        /\ strayed' = (strayed /\ f.kind # "announce")
    BY FramesTyped DEF UpstreamApply
  <1>2. f \in FeedFrame
    BY <1>1
  <1>3. f.kind = "announce" => Concerns(f, d)
    BY <1>2, FrameKinds
  <1> HIDE DEF f
  <1>4. /\ Concerns(f, d) => Settled(known', refused', d, Says(f, d))
        /\ ~ Concerns(f, d) => (Settled(known, refused, d, v) => Settled(known', refused', d, v))
    BY <1>1, <1>2, HandledIs
  <1>5. frames # <<>> /\ frames' = Tail(frames) /\ Head(frames) = f
    BY AppliedFrames DEF f
  <1>6. ~ Concerns(f, d) => (strayed => strayed')
    BY <1>1, <1>3
  <1>7. EndsWith(Tail(frames), known', refused', strayed', d, v)
    BY <1>1, <1>4, <1>5, <1>6, FrameApplied DEF Leads
  <1> QED BY <1>5, <1>7 DEF Leads

LEMMA BeliefNext ==
    ASSUME FeedTypeOK, QueueInv, BeliefInv, [FeedNext]_feedVars
    PROVE  BeliefInv'
  <1> SUFFICES ASSUME pump' = "pumping", ~ lagged', peer' = "current", NEW d \in Devices,
                      is_routable_for(online'[d])
               PROVE  Waiting(d)' \/ Queued(d)' \/ Leads(d, online[d])'
    BY DEF BeliefInv, is_routable_for
  <1>1. frames \in Seq(FeedFrame) /\ wire \in Seq(FeedFrame) /\ queue \in Seq(Changes)
    BY FramesTyped DEF FeedTypeOK
  <1>2. pump = "pumping" /\ ~ lagged /\ peer = "current" /\ is_routable_for(online[d])
            => Waiting(d) \/ Queued(d) \/ Leads(d, online[d])
    BY DEF BeliefInv
  <1>3. ASSUME NEW w \in Writers, FeedUpdate(w)
        PROVE  Waiting(d)' \/ Queued(d)' \/ Leads(d, online[d])'
    <2>1. Update(w) /\ UNCHANGED <<pump, lagged, queue, peer, wire, holding>>
      BY <1>3 DEF FeedUpdate, sessionVars, peerVars
    <2>2. frames' = frames /\ known' = known /\ refused' = refused /\ strayed' = strayed
      BY <1>3, <2>1, TableKept DEF frames
    <2>3. Waiting(d)' \/ (~ Waiting(d) /\ online'[d] = online[d])
      BY <2>1, WaitingAfterUpdate
    <2>4. Queued(d) => Queued(d)'
      BY <2>1 DEF Queued
    <2>5. online'[d] = online[d] /\ Leads(d, online[d]) => Leads(d, online[d])'
      BY <2>2 DEF Leads
    <2> QED BY <1>2, <2>1, <2>3, <2>4, <2>5
  <1>4. ASSUME NEW w \in Writers, NEW c \in unsent[w], FeedPublish(w, c)
        PROVE  Waiting(d)' \/ Queued(d)' \/ Leads(d, online[d])'
    <2>1. PublishOne(w, c) /\ UNCHANGED <<pump, peer, wire, holding>> /\ c \in Changes
      BY <1>4, PublishTyped DEF FeedPublish, peerVars
    <2>2. online' = online
      BY <2>1, PublishLeaves
    <2>3. queue' = Append(queue, c) /\ lagged' = lagged
      BY <1>4, <2>1 DEF FeedPublish
    <2>4. /\ Len(queue') = Len(queue) + 1 /\ queue'[Len(queue) + 1] = c /\ Len(queue) \in Nat
          /\ \A i \in 1..Len(queue) : queue'[i] = queue[i]
      BY <1>1, <2>1, <2>3, AppendProperties
    <2>5. CASE d = c.id
      <3>1. Len(queue) + 1 \in 1..Len(queue')
        BY <2>4
      <3> QED BY <2>4, <2>5, <3>1 DEF Queued
    <2>6. CASE d # c.id
      <3>1. Waiting(d) => Waiting(d)'
        BY <2>1, <2>6, WaitingAfterPublish
      <3>2. \A i \in 1..Len(queue) : i \in 1..Len(queue') /\ queue'[i] = queue[i]
        BY <2>4
      <3>3. Queued(d) => Queued(d)'
        BY <3>2 DEF Queued
      <3>4. frames' = frames /\ known' = known /\ refused' = refused /\ strayed' = strayed
        BY <1>4, <2>1, TableKept DEF frames
      <3>5. Leads(d, online[d]) => Leads(d, online[d])'
        BY <2>2, <3>4 DEF Leads
      <3> QED BY <1>2, <2>1, <2>2, <2>3, <3>1, <3>3, <3>5
    <2> QED BY <2>5, <2>6
  <1>5. CASE TakeSnapshot \/ RecvLagged
    <2>1. wire' = wire /\ holding' = <<Snapshot>> /\ online' = online
      BY <1>5 DEF TakeSnapshot, RecvLagged, sourceVars, peerVars
    <2>2. frames' = Append(wire, Snapshot)
      BY <2>1, SnapshotIs, OneMoreFrame
    <2>3. Concerns(Snapshot, d) /\ Says(Snapshot, d) = online[d] /\ Snapshot \in FeedFrame
      BY <2>1, SnapshotIs
    <2>4. EndsWith(Append(wire, Snapshot), known', refused', strayed', d, online[d])
      BY <1>1, <2>3, FrameSettles
    <2> QED BY <2>1, <2>2, <2>4 DEF Leads
  <1>6. CASE RecvChange
    <2> DEFINE c == Head(queue)
    <2>1. /\ UNCHANGED <<online, unsent, pump, lagged, peer>> /\ queue' = Tail(queue) /\ queue # <<>>
          /\ c = queue[1] /\ 1 \in 1..Len(queue)
      BY <1>1, <1>6 DEF RecvChange, sourceVars, peerVars
    <2>2. Waiting(d) => Waiting(d)'
      BY <2>1 DEF Waiting
    <2>3. /\ Len(queue') = Len(queue) - 1 /\ Len(queue) \in Nat \ {0}
          /\ \A i \in 1..Len(queue') : queue'[i] = queue[i + 1]
      BY <1>1, <2>1
    <2>4. ASSUME NEW j \in 1..Len(queue), j > 1, queue[j].id = d PROVE Queued(d)'
      <3>1. j - 1 \in 1..Len(queue') /\ queue'[j - 1] = queue[j]
        BY <2>3, <2>4
      <3> QED BY <2>4, <3>1 DEF Queued
    <2>5. known' = known /\ refused' = refused /\ strayed' = strayed
      BY <1>6, TableKept DEF Pump
    <2>6. \/ frames' = frames /\ ~ is_routable_for(c.via)
          \/ \E f \in FeedFrame : /\ frames' = Append(frames, f)
                                  /\ Concerns(f, d) <=> d = c.id
                                  /\ d = c.id => Says(f, d) = c.via
      BY <1>6, ChangeFrame
    <2> HIDE DEF c
    <2>7. CASE d = c.id
      <3>1. Waiting(d) \/ c.via = online[d] \/ \E j \in 1..Len(queue) : j > 1 /\ queue[j].id = d
        BY <1>1, <2>1, <2>7 DEF QueueInv, LastSays
      <3>2. ASSUME c.via = online[d] PROVE Leads(d, online[d])'
        <4>1. PICK f \in FeedFrame : frames' = Append(frames, f) /\ Concerns(f, d) /\ Says(f, d) = c.via
          BY <2>1, <2>6, <2>7, <3>2
        <4>2. EndsWith(Append(frames, f), known', refused', strayed', d, online[d])
          BY <1>1, <3>2, <4>1, FrameSettles
        <4> QED BY <2>1, <4>1, <4>2 DEF Leads
      <3> QED BY <2>2, <2>4, <3>1, <3>2
    <2>8. CASE d # c.id
      <3>1. Queued(d) => Queued(d)'
        <4>1. ASSUME NEW i \in 1..Len(queue), queue[i].id = d PROVE Queued(d)'
          <5>1. i # 1
            BY <2>1, <2>8, <4>1
          <5>2. i > 1
            BY <4>1, <5>1
          <5> QED BY <2>4, <4>1, <5>2
        <4> QED BY <4>1 DEF Queued
      <3>2. ASSUME Leads(d, online[d]) PROVE Leads(d, online[d])'
        <4>1. CASE frames' = frames
          BY <2>1, <2>5, <3>2, <4>1 DEF Leads
        <4>2. ASSUME NEW f \in FeedFrame, frames' = Append(frames, f), ~ Concerns(f, d)
              PROVE  Leads(d, online[d])'
          <5>1. EndsWith(Append(frames, f), known, refused, strayed, d, online[d])
            BY <1>1, <3>2, <4>2, FrameSkips DEF Leads
          <5> QED BY <2>1, <2>5, <4>2, <5>1 DEF Leads
        <4> QED BY <2>6, <2>8, <4>1, <4>2
      <3> QED BY <1>2, <2>1, <2>2, <3>1, <3>2
    <2> QED BY <2>7, <2>8
  <1>7. ASSUME SendFrame \/ UpstreamApply \/ StrayApply \/ UNCHANGED feedVars
        PROVE  Waiting(d)' \/ Queued(d)' \/ Leads(d, online[d])'
    <2>1. UNCHANGED <<online, unsent, pump, lagged, queue, peer>>
      BY <1>7 DEF SendFrame, UpstreamApply, StrayApply, sourceVars, sessionVars, peerVars, feedVars
    <2>2. (Waiting(d) => Waiting(d)') /\ (Queued(d) => Queued(d)')
      BY <2>1 DEF Waiting, Queued
    <2>3. ASSUME Leads(d, online[d]) PROVE Leads(d, online[d])'
      <3>1. CASE SendFrame
        BY <2>1, <2>3, <3>1, SentFrames, TableKept DEF Pump, Leads
      <3>2. CASE UNCHANGED feedVars
        BY <2>1, <2>3, <3>2, TableKept DEF Leads, frames, feedVars, peerVars, sessionVars
      <3>3. CASE UpstreamApply
        <4>1. PICK v : v = online[d]
          OBVIOUS
        <4>2. Leads(d, v)'
          BY <2>3, <3>3, <4>1, AppliedLeads
        <4> QED BY <2>1, <4>1, <4>2 DEF Leads
      <3>4. CASE StrayApply
        <4>1. frames' = frames /\ strayed' = TRUE
          BY <3>4 DEF StrayApply, frames, sessionVars
        <4> QED BY <2>1, <2>3, <4>1 DEF Leads, EndsWith
      <3> QED BY <1>7, <3>1, <3>2, <3>3, <3>4
    <2> QED BY <1>2, <2>1, <2>2, <2>3
  <1>8. ~ Subscribe /\ ~ LinkDown /\ ~ LinkDownSeen /\ ~ UpstreamDisconnect
    BY DEF Subscribe, LinkDown, LinkDownSeen, UpstreamDisconnect
  <1> QED BY <1>3, <1>4, <1>5, <1>6, <1>7, <1>8 DEF FeedNext, Pump

-----------------------------------------------------------------------------
(* The feed's theorem.                                                     *)

LEMMA FeedPartsInit == FeedInit => FeedParts
  <1> SUFFICES ASSUME FeedInit PROVE FeedParts
    OBVIOUS
  <1>1. lagged \in BOOLEAN /\ strayed \in BOOLEAN /\ lost \in BOOLEAN
    BY DEF FeedInit
  <1>2. online \in [Devices -> ChainsOrNone] /\ known \in [Devices -> ChainsOrNone]
    BY ChainTypes DEF FeedInit, SourceInit, Unrouted
  <1>3. FeedTypeOK
    BY <1>1, <1>2 DEF FeedInit, SourceInit, FeedTypeOK
  <1>4. CurrentInv /\ QueueInv /\ BeliefInv
    BY DEF FeedInit, SourceInit, CurrentInv, QueueInv, BeliefInv
  <1> QED BY <1>3, <1>4 DEF FeedParts

LEMMA FeedPartsNext == FeedParts /\ NobodyOvertakes' /\ [FeedNext]_feedVars => FeedParts'
  BY FeedTypes, CurrentNext, QueueNext, BeliefNext DEF FeedParts

LEMMA AgreesWhenDrained == FeedParts => FeedInv
  <1> SUFFICES ASSUME FeedParts, Drained, ~ strayed, NEW d \in Devices, is_routable_for(online[d])
               PROVE  known[d] = online[d] \/ (online[d] # <<>> /\ d \in refused)
    BY DEF FeedInv, UpstreamAgrees, AgreesOn, FeedParts
  <1>1. FeedTypeOK /\ BeliefInv
    BY DEF FeedParts
  <1>2. frames = <<>>
    BY <1>1, FramesTyped DEF Drained
  <1>3. ~ Waiting(d) /\ ~ Queued(d)
    BY DEF Drained, Waiting, Queued
  <1>4. Leads(d, online[d])
    BY <1>1, <1>3 DEF BeliefInv, Drained
  <1> QED BY <1>2, <1>4 DEF Leads, EndsWith, Settled

\* As long as no task updates a device of which another has yet to publish a change, the upstream's
\* table agrees with this relay's whenever nothing is on its way and no displaced session of the
\* upstream has interfered since the last snapshot: whatever falls between the subscription and the
\* snapshot, whatever a full broadcast buffer drops, whatever the upstream refuses, and whichever end
\* notices the end of a session first.  The registry publishes after its lock is released, so nothing in
\* it enforces the condition.
THEOREM UpstreamTableAgrees == FeedSpec /\ []NobodyOvertakes => []FeedInv
  <1>1. FeedInit => FeedParts
    BY FeedPartsInit
  <1>2. FeedParts /\ NobodyOvertakes' /\ [FeedNext]_feedVars => FeedParts'
    BY FeedPartsNext
  <1> QED BY <1>1, <1>2, AgreesWhenDrained, PTL DEF FeedSpec

\* With a single publishing task the condition holds by itself.
THEOREM OneWriterAgrees == (\A v, w \in Writers : v = w) => (FeedSpec => []FeedInv)
  <1> SUFFICES ASSUME \A v, w \in Writers : v = w PROVE FeedSpec => []FeedInv
    OBVIOUS
  <1>1. NobodyOvertakes
    BY DEF NobodyOvertakes
  <1> QED BY <1>1, UpstreamTableAgrees, PTL

=============================================================================
