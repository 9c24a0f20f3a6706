---------------------------- MODULE UpstreamLink ----------------------------
(***************************************************************************)
(* The link to the upstream relay: console requests that join and leave an *)
(* upstream, the supervisor task that runs one session after another, and  *)
(* the stored settings (src/src/upstream/mod.rs, session.rs, enroll.rs,    *)
(* settings.rs).                                                           *)
(*                                                                         *)
(* A supervisor is identified by the credential it runs with; every join   *)
(* obtains a new one.  A supervisor can be cancelled only where it awaits: *)
(* while it dials, pumps or sleeps.  Everything between two awaits runs to *)
(* its end, one write at a time, beside the other tasks.                   *)
(*                                                                         *)
(* A request is a future of the server's: when its client goes away it is  *)
(* dropped where it awaits, and what it was about to do is not done.       *)
(*                                                                         *)
(* publish_addresses(), which offers the new list to every attached        *)
(* tunnel, changes nothing of the link's own and is left out.              *)
(***************************************************************************)
EXTENDS Integers

CONSTANTS
    Credentials,
    Requests,            \* slots for console requests
    None,                \* "nothing stored", "no link"
    MaxAbandoned,        \* bound on requests that are dropped, or give up, inside start() or stop()
    MaxRestarts          \* bound on restarts of the relay

ASSUME UpstreamLinkAssumption ==
    /\ None \notin Credentials \cup Requests
    /\ Credentials \cap Requests = {}
    /\ MaxAbandoned \in Nat /\ MaxRestarts \in Nat

VARIABLES
    stored,      \* the upstream in relay_settings
    spent,       \* credentials obtained so far
    reach,       \* UpstreamLink.reach: the credential of the session that contributed it, or None
    status,      \* UpstreamLink.status: the link's state, or "none"
    holder,      \* the request holding the lock on UpstreamLink.running
    running,     \* RunningLink in it
    cancelled,   \* cancelled tokens
    sup,         \* the supervisors: what comes next, and how the session ended
    req,         \* the requests: what comes next, with which credential, and the supervisor it waits for
    detached,    \* history: supervisors that were cancelled and not waited for, until a later stop() finds
                 \* them ended
    abandoned, restarts

linkVars == <<reach, status>>
lockVars == <<holder, running, cancelled, detached, abandoned>>
vars == <<stored, spent, linkVars, lockVars, sup, req, restarts>>

Off == [pc |-> "off", end |-> "none"]
Idle == [pc |-> "idle", key |-> None, old |-> None]

\* A chain that loops is a refusal with an audit record of its own.
Ends == {"interrupted", "refused", "revoked"}

\* A supervisor's task has not returned.
Alive(k) == sup[k].pc # "off"

Init ==
    /\ stored = None /\ spent = {}
    /\ reach = None /\ status = "none"
    /\ holder = None /\ running = None /\ cancelled = {} /\ detached = {}
    /\ sup = [k \in Credentials |-> Off]
    /\ req = [r \in Requests |-> Idle]
    /\ abandoned = 0 /\ restarts = 0

clear_reach == reach' = None

set_connecting == status' = "connecting"

\* set_connected() and set_error() leave a status that is None alone.
set_state(s) == status' = IF status = "none" THEN "none" ELSE s

-----------------------------------------------------------------------------
(* The supervisor and its session.                                         *)

Goto(k, pc) == sup' = [sup EXCEPT ![k].pc = pc]

\* The supervisor awaits at pc and its token is not cancelled: "cancellation wins a tie", so a poll
\* that finds the token cancelled returns.
Awaits(k, pc) == sup[k].pc = pc /\ k \notin cancelled

\* The handshake fails, before anything was adopted.
DialFails(k, end) ==
    /\ Awaits(k, "dial")
    /\ sup' = [sup EXCEPT ![k] = [pc |-> "settle", end |-> end]]
    /\ UNCHANGED <<stored, spent, linkVars, lockVars, req, restarts>>

\* The welcome arrives: adopt() begins.
Welcomed(k) ==
    /\ Awaits(k, "dial")
    /\ Goto(k, "adopt")
    /\ UNCHANGED <<stored, spent, linkVars, lockVars, req, restarts>>

AdoptReach(k) ==
    /\ sup[k].pc = "adopt"
    /\ reach' = k
    /\ Goto(k, "mark")
    /\ UNCHANGED <<stored, spent, status, lockVars, req, restarts>>

AdoptStatus(k) ==
    /\ sup[k].pc = "mark"
    /\ set_state("connected")
    /\ Goto(k, "pump")
    /\ UNCHANGED <<stored, spent, reach, lockVars, req, restarts>>

\* handle_control(): the addresses above changed, and the reach is replaced.
ReceiveAddresses(k) ==
    /\ Awaits(k, "pump")
    /\ reach' = k
    /\ UNCHANGED <<stored, spent, status, lockVars, sup, req, restarts>>

\* pump() returns.
PumpEnds(k, end) ==
    /\ Awaits(k, "pump")
    /\ sup' = [sup EXCEPT ![k].pc = "withdraw", ![k].end = end]
    /\ UNCHANGED <<stored, spent, linkVars, lockVars, req, restarts>>

Withdraw(k) ==
    /\ sup[k].pc = "withdraw"
    /\ clear_reach
    /\ Goto(k, "settle")
    /\ UNCHANGED <<stored, spent, status, lockVars, req, restarts>>

\* Where next_step() sends the supervisor.
next_step(end) ==
    CASE end = "revoked"     -> "forget"
      [] end = "refused"     -> "off"
      [] end = "interrupted" -> "backoff"

Settle(k) ==
    /\ sup[k].pc = "settle"
    /\ IF sup[k].end = "revoked" THEN UNCHANGED status ELSE set_state("error")
    /\ sup' = [sup EXCEPT ![k] = [Off EXCEPT !.pc = next_step(sup[k].end)]]
    /\ UNCHANGED <<stored, spent, reach, lockVars, req, restarts>>

\* The delay is over: the loop starts again.
Retry(k) ==
    /\ Awaits(k, "backoff")
    /\ set_connecting
    /\ Goto(k, "dial")
    /\ UNCHANGED <<stored, spent, reach, lockVars, req, restarts>>

\* forget(): the settings, unless clearing them fails, which is only logged; the reach; the status.
ForgetSettings(k) ==
    /\ sup[k].pc = "forget"
    /\ stored' \in {None, stored}
    /\ Goto(k, "forget-reach")
    /\ UNCHANGED <<spent, linkVars, lockVars, req, restarts>>

ForgetReach(k) ==
    /\ sup[k].pc = "forget-reach"
    /\ clear_reach
    /\ Goto(k, "forget-status")
    /\ UNCHANGED <<stored, spent, status, lockVars, req, restarts>>

ForgetStatus(k) ==
    /\ sup[k].pc = "forget-status"
    /\ status' = "none"
    /\ sup' = [sup EXCEPT ![k] = Off]
    /\ UNCHANGED <<stored, spent, reach, lockVars, req, restarts>>

\* Mutated: the delay between two sessions does not watch the token.
CancelledInSession(k) ==
    /\ sup[k].pc \in {"dial", "pump"}
    /\ k \in cancelled
    /\ sup' = [sup EXCEPT ![k] = Off]
    /\ UNCHANGED <<stored, spent, linkVars, lockVars, req, restarts>>

\* supervise() returns where it awaits; the session is dropped and does not withdraw() anything.
Cancelled(k) ==
    /\ sup[k].pc \in {"dial", "pump", "backoff"}
    /\ k \in cancelled
    /\ sup' = [sup EXCEPT ![k] = Off]
    /\ UNCHANGED <<stored, spent, linkVars, lockVars, req, restarts>>

-----------------------------------------------------------------------------
(* Console requests.                                                       *)

Step(r, pc) == req' = [req EXCEPT ![r].pc = pc]

\* set_upstream(): connect() asks the upstream for a credential ...
BeginConnect(r) ==
    /\ req[r].pc = "idle"
    /\ Step(r, "join")
    /\ UNCHANGED <<stored, spent, linkVars, lockVars, sup, restarts>>

\* ... which may be refused, or the request dropped while it waits for the answer ...
JoinFails(r) ==
    /\ req[r].pc = "join"
    /\ Step(r, "idle")
    /\ UNCHANGED <<stored, spent, linkVars, lockVars, sup, restarts>>

\* ... and stores it, before the link that is running is stopped.
Join(r, k) ==
    /\ req[r].pc = "join"
    /\ k \notin spent
    /\ spent' = spent \cup {k}
    /\ stored' = k
    /\ req' = [req EXCEPT ![r] = [pc |-> "start-lock", key |-> k, old |-> None]]
    /\ UNCHANGED <<linkVars, lockVars, sup, restarts>>

\* clear_upstream(): disconnect().
BeginDisconnect(r) ==
    /\ req[r].pc = "idle"
    /\ Step(r, "stop-lock")
    /\ UNCHANGED <<stored, spent, linkVars, lockVars, sup, restarts>>

\* Mutated: the link is taken out but not cancelled.
Acquire_quietly(r) ==
    /\ req[r].pc \in {"start-lock", "stop-lock"}
    /\ holder = None
    /\ holder' = r /\ running' = None
    /\ req' = [req EXCEPT ![r].pc = IF @ = "start-lock" THEN "start-wait" ELSE "stop-wait",
                          ![r].old = IF running # None /\ Alive(running) THEN running ELSE None]
    /\ UNCHANGED <<stored, spent, linkVars, cancelled, detached, abandoned, sup, restarts>>

\* start() and stop() take the lock, and stop_running() takes the link out, cancels it and waits for
\* its task if that has not ended.
Acquire(r) ==
    /\ req[r].pc \in {"start-lock", "stop-lock"}
    /\ holder = None
    /\ holder' = r /\ running' = None
    /\ cancelled' = cancelled \cup ({running} \ {None})
    /\ req' = [req EXCEPT ![r].pc = IF @ = "start-lock" THEN "start-wait" ELSE "stop-wait",
                          ![r].old = IF running # None /\ Alive(running) THEN running ELSE None]
    /\ UNCHANGED <<stored, spent, linkVars, detached, abandoned, sup, restarts>>

\* The wait is over before the task is.
Abandoned(r) ==
    /\ req[r].pc \in {"start-wait", "stop-wait"} /\ req[r].old # None
    /\ abandoned < MaxAbandoned
    /\ abandoned' = abandoned + 1
    /\ detached' = detached \cup {req[r].old}

\* SHUTDOWN_WAIT passes: stop_running() goes on beside the task.
GiveUpWaiting(r) ==
    /\ Abandoned(r)
    /\ req' = [req EXCEPT ![r].old = None]
    /\ UNCHANGED <<stored, spent, linkVars, holder, running, cancelled, sup, restarts>>

\* The request is dropped: the lock is released, and nothing more is done about the link that was taken
\* out ...
DroppedWaiting(r) ==
    /\ Abandoned(r)
    /\ holder' = None
    /\ req' = [req EXCEPT ![r] = Idle]
    /\ UNCHANGED <<stored, spent, linkVars, running, cancelled, sup, restarts>>

\* ... or it was still queueing for the lock.
DroppedInLine(r) ==
    /\ req[r].pc \in {"start-lock", "stop-lock"}
    /\ req' = [req EXCEPT ![r] = Idle]
    /\ UNCHANGED <<stored, spent, linkVars, lockVars, sup, restarts>>

\* Mutated: the cancelled task is not waited for.
Stopped_at_once(k) == TRUE

\* What stop_running() waits for.
Stopped(k) == k # None => ~ Alive(k)

\* start(), once stop_running() is through.
Start(r) ==
    LET k == req[r].key IN
    /\ req[r].pc = "start-wait"
    /\ Stopped(req[r].old)
    /\ set_connecting
    /\ sup' = [sup EXCEPT ![k] = [Off EXCEPT !.pc = "dial"]]
    /\ running' = k /\ holder' = None
    /\ req' = [req EXCEPT ![r] = Idle]
    /\ UNCHANGED <<stored, spent, reach, cancelled, detached, abandoned, restarts>>

\* stop(), once stop_running() is through.
StopReach(r) ==
    /\ req[r].pc = "stop-wait"
    /\ Stopped(req[r].old)
    /\ clear_reach
    /\ detached' = {k \in detached : Alive(k)}
    /\ req' = [req EXCEPT ![r].pc = "stop-status", ![r].old = None]
    /\ UNCHANGED <<stored, spent, status, holder, running, cancelled, abandoned, sup, restarts>>

StopStatus(r) ==
    /\ req[r].pc = "stop-status"
    /\ status' = "none"
    /\ holder' = None
    /\ Step(r, "clear")
    /\ UNCHANGED <<stored, spent, reach, running, cancelled, detached, abandoned, sup, restarts>>

\* disconnect() goes on without the lock: the settings, unless clearing them fails.
ClearSettings(r) ==
    /\ req[r].pc = "clear"
    /\ stored' \in {None, stored}
    /\ req' = [req EXCEPT ![r] = Idle]
    /\ UNCHANGED <<spent, linkVars, lockVars, sup, restarts>>

-----------------------------------------------------------------------------
\* The process restarts and resume() starts the stored upstream.
Restart ==
    /\ restarts < MaxRestarts
    /\ restarts' = restarts + 1
    /\ reach' = None
    /\ req' = [r \in Requests |-> Idle]
    /\ holder' = None /\ cancelled' = {} /\ detached' = {} /\ running' = stored
    /\ IF stored = None
       THEN status' = "none" /\ sup' = [k \in Credentials |-> Off]
       ELSE /\ set_connecting
            /\ sup' = [k \in Credentials |-> IF k = stored THEN [Off EXCEPT !.pc = "dial"] ELSE Off]
    /\ UNCHANGED <<stored, spent, abandoned>>

\* What a supervisor does by itself once it is not waiting for the upstream or its timer.
Supervise(k) ==
    \/ AdoptReach(k) \/ AdoptStatus(k)
    \/ Withdraw(k) \/ Settle(k) \/ Cancelled(k)
    \/ ForgetSettings(k) \/ ForgetReach(k) \/ ForgetStatus(k)

\* What the upstream, or the passing of time, makes it do.
Upstream(k) ==
    \/ \E end \in Ends : DialFails(k, end) \/ PumpEnds(k, end)
    \/ Welcomed(k) \/ Retry(k) \/ ReceiveAddresses(k)

\* How a request goes on once it has begun.
Handle(r) ==
    \/ JoinFails(r) \/ (\E k \in Credentials : Join(r, k))
    \/ Acquire(r) \/ Start(r)
    \/ StopReach(r) \/ StopStatus(r) \/ ClearSettings(r)

\* What a client that goes away, or the passing of time, does to it.
Abandon(r) == GiveUpWaiting(r) \/ DroppedInLine(r) \/ DroppedWaiting(r)

Next ==
    \/ \E k \in Credentials : Supervise(k) \/ Upstream(k)
    \/ \E r \in Requests : BeginConnect(r) \/ BeginDisconnect(r) \/ Handle(r) \/ Abandon(r)
    \/ Restart

\* Tasks that can run do run, and the lock is granted to whoever waits for it: tokio's mutex queues,
\* which makes the fairness of a request strong.  Nothing makes the upstream answer, nobody has to send
\* a request or to abandon one.
Fairness ==
    /\ \A k \in Credentials : WF_vars(Supervise(k))
    /\ \A r \in Requests : SF_vars(Handle(r))

Spec == Init /\ [][Next]_vars /\ Fairness

-----------------------------------------------------------------------------
(* Properties.                                                             *)

Supervisor == [pc : {"off", "dial", "adopt", "mark", "pump", "withdraw", "settle", "backoff",
                     "forget", "forget-reach", "forget-status"},
               end : Ends \cup {"none"}]
Request == [pc : {"idle", "join", "start-lock", "start-wait", "stop-lock", "stop-wait", "stop-status", "clear"},
            key : Credentials \cup {None}, old : Credentials \cup {None}]

\* Every variable keeps its type.
TypeOK ==
    /\ stored \in Credentials \cup {None} /\ spent \subseteq Credentials
    /\ reach \in Credentials \cup {None} /\ status \in {"none", "connecting", "connected", "error"}
    /\ holder \in Requests \cup {None}
    /\ running \in Credentials \cup {None}
    /\ cancelled \subseteq Credentials /\ detached \subseteq Credentials
    /\ sup \in [Credentials -> Supervisor]
    /\ req \in [Requests -> Request]
    /\ abandoned \in 0..MaxAbandoned /\ restarts \in 0..MaxRestarts

\* A replaced link never runs beside its replacement, so that two sessions do not take turns in
\* overwriting reach and status: of two supervisors that are alive at once, one was cancelled by a
\* request that did not get to wait for it, and ends where it next awaits.
OneSupervisor ==
    /\ \A j, k \in Credentials \ detached : Alive(j) /\ Alive(k) => j = k
    /\ detached \subseteq cancelled

\* "Ends the link and forgets everything it contributed": once stop() has returned, no session that
\* was on its way through adopt() or withdraw() puts anything back.  Left out is what a request leaves
\* behind that was dropped, or gave up, before the task had ended, until the next stop().
StoppedIsClean ==
    running = None /\ holder = None /\ detached = {} =>
        reach = None /\ status = "none" /\ \A k \in Credentials : ~ Alive(k)

Lingers(k) == k \in cancelled /\ Alive(k)

\* A supervisor that is cancelled ends, wherever it is and whether or not anyone waits for it.
CancelledEnds == \A k \in Credentials : Lingers(k) ~> ~ Lingers(k)

\* No request hangs: whatever the session is doing when start() or stop() takes the lock and waits
\* for it, the request is answered.
RequestsAnswered == \A r \in Requests : (req[r].pc # "idle") ~> (req[r].pc = "idle")

\* Supervisors that are between two awaits, and requests, are still going to write something.
AtRest ==
    /\ \A k \in Credentials : sup[k].pc \in {"off", "dial", "pump", "backoff"}
    /\ \A r \in Requests : req[r].pc = "idle"

\* "No address beyond this relay works while the link is down": at rest, the relay hands out
\* addresses of an upstream only while a session with it is up.
ReachIsLive == AtRest /\ reach # None => sup[reach].pc = "pump"

\* The link keeps its types, has one supervisor, and leaves nothing behind when it is stopped.
SupervisorInv == TypeOK /\ OneSupervisor /\ StoppedIsClean
=============================================================================
