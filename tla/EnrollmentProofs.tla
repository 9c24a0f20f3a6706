-------------------------- MODULE EnrollmentProofs --------------------------
(***************************************************************************)
(* Invariance proofs for Enrollment, for any accounts, codes and devices   *)
(* and any number of requests, operators and tunnels at once.              *)
(***************************************************************************)
EXTENDS Enrollment, TLAPS

USE EnrollmentAssumption DEF EnrollmentAssumption

-----------------------------------------------------------------------------
(* The inductive strengthening.                                            *)

\* What a request to /api/enroll carries: a code or an owner once it is looked up, and from the insert
\* to its answer a device that nobody else has and whose credential has not left.
EnrollerInv ==
    /\ \A e \in Enrollers :
          /\ enroll[e].pc \in {"issued", "lost"} => enroll[e].code \in Codes /\ enroll[e].device \in Devices
          /\ enroll[e].pc \in {"idle", "checked"} => enroll[e].device = None
          /\ enroll[e].pc = "checked" /\ enroll[e].code = None => enroll[e].owner \in Users
    /\ \A e \in Enrollers, d \in Devices : enroll[e].device = d => rows[d].state # "none" /\ granted[d] = None
    /\ \A e, f \in Enrollers : enroll[e].device = enroll[f].device /\ enroll[e].device # None => e = f

\* What a console request carries.
OperatorInv ==
    \A o \in Operators :
        /\ ops[o].pc \in {"list", "list-all", "revoke-all", "disown", "delete"} => ops[o].user \in Users
        /\ ops[o].pc \notin {"revoke", "revoke-all"} => ops[o].device = None

\* A credential that left belongs to a row, and a tunnel was opened with one.
CredentialInv ==
    /\ \A d \in Devices : granted[d] # None => rows[d].state # "none"
    /\ \A t \in Tunnels : tunnels[t].pc # "idle" =>
          tunnels[t].device \in Devices /\ granted[tunnels[t].device] # None

\* A live device that its owner's removal has to find is still listed under the owner, and a request
\* that has read the list has it among those that it will revoke.
Owned(d, u) == creator[d] = u /\ rows[d].state = "live" /\ d \notin excused

OwnerInv ==
    /\ \A d \in Devices : rows[d].owner \in {None, creator[d]}
    /\ \A d \in Devices, u \in Users : Owned(d, u) => rows[d].owner = u
    /\ \A o \in Operators, d \in Devices, u \in Users : ops[o].user = u /\ Owned(d, u) =>
          /\ ops[o].pc \in {"revoke", "revoke-all"} => d \in ops[o].todo
          /\ ops[o].pc \notin {"disown", "delete"}

\* A tunnel that nobody has told to close is the one the routing table holds.
CurrentInv ==
    \A t \in Tunnels : tunnels[t].pc = "registered" /\ tunnels[t].told = "no" => current[tunnels[t].device] = t

EnrollInv == TypeOK /\ EnrollerInv /\ OperatorInv /\ CredentialInv /\ OneDevicePerCode /\ LoserRevoked
RemovalInv == OwnerInv /\ RemovedOwnerRevoked
ClosedInv == CurrentInv /\ RevokedIsClosed

-----------------------------------------------------------------------------
(* Types.                                                                  *)

\* The records the actions build are records of their tables.
LEMMA CodeRecords ==
    /\ NoCode \in CodeRow
    /\ \A q \in CodeRow : [q EXCEPT !.expired = TRUE] \in CodeRow /\ [q EXCEPT !.state = "cancelled"] \in CodeRow
    /\ \A u \in Users \cup {None} : [NoCode EXCEPT !.state = "pending", !.owner = u] \in CodeRow
    /\ \A q \in CodeRow, d \in Devices : [q EXCEPT !.state = "used", !.device = d] \in CodeRow
  BY DEF NoCode, CodeRow

LEMMA RowRecords ==
    /\ NoRow \in DeviceRow
    /\ \A u \in Users \cup {None} : [state |-> "live", owner |-> u] \in DeviceRow
    /\ \A q \in DeviceRow : [q EXCEPT !.state = "revoked"] \in DeviceRow /\ [q EXCEPT !.owner = None] \in DeviceRow
  BY DEF NoRow, DeviceRow

LEMMA EnrollerRecords ==
    /\ IdleEnroller \in Enroller
    /\ \A c \in Codes, u \in Users \cup {None} :
          [IdleEnroller EXCEPT !.pc = "checked", !.code = c, !.owner = u] \in Enroller
    /\ \A u \in Users : [IdleEnroller EXCEPT !.pc = "checked", !.owner = u] \in Enroller
    /\ \A q \in Enroller, d \in Devices : [q EXCEPT !.pc = "issued", !.device = d] \in Enroller
    /\ \A q \in Enroller : [q EXCEPT !.pc = "lost"] \in Enroller
  BY DEF IdleEnroller, Enroller

LEMMA OperatorRecords ==
    /\ IdleOperator \in Operator
    /\ \A d \in Devices : [IdleOperator EXCEPT !.pc = "revoke", !.todo = {d}] \in Operator
    /\ \A u \in Users, pc \in {"list", "list-all"} : [IdleOperator EXCEPT !.pc = pc, !.user = u] \in Operator
    /\ \A q \in Operator, ds \in SUBSET Devices, pc \in {"revoke", "revoke-all"} :
          [q EXCEPT !.todo = ds, !.pc = pc] \in Operator
    /\ \A q \in Operator, d \in Devices : [q EXCEPT !.device = d, !.todo = q.todo \ {d}] \in Operator
    /\ \A q \in Operator : [q EXCEPT !.device = None] \in Operator
    /\ \A q \in Operator, pc \in {"disown", "delete"} : [q EXCEPT !.pc = pc] \in Operator
  <1> USE DEF IdleOperator, Operator
  <1>1. IdleOperator \in Operator
    OBVIOUS
  <1>2. ASSUME NEW d \in Devices PROVE [IdleOperator EXCEPT !.pc = "revoke", !.todo = {d}] \in Operator
    OBVIOUS
  <1>3. ASSUME NEW u \in Users, NEW pc \in {"list", "list-all"}
        PROVE  [IdleOperator EXCEPT !.pc = pc, !.user = u] \in Operator
    OBVIOUS
  <1>4. ASSUME NEW q \in Operator, NEW ds \in SUBSET Devices, NEW pc \in {"revoke", "revoke-all"}
        PROVE  [q EXCEPT !.todo = ds, !.pc = pc] \in Operator
    OBVIOUS
  <1>5. ASSUME NEW q \in Operator, NEW d \in Devices PROVE [q EXCEPT !.device = d, !.todo = q.todo \ {d}] \in Operator
    OBVIOUS
  <1>6. ASSUME NEW q \in Operator PROVE [q EXCEPT !.device = None] \in Operator
    OBVIOUS
  <1>7. ASSUME NEW q \in Operator, NEW pc \in {"disown", "delete"} PROVE [q EXCEPT !.pc = pc] \in Operator
    OBVIOUS
  <1> HIDE DEF IdleOperator, Operator
  <1> QED BY <1>1, <1>2, <1>3, <1>4, <1>5, <1>6, <1>7

LEMMA TunnelRecords ==
    /\ IdleTunnel \in Tunnel
    /\ \A d \in Devices : [IdleTunnel EXCEPT !.pc = "authenticated", !.device = d] \in Tunnel
    /\ \A q \in Tunnel, late \in BOOLEAN : [q EXCEPT !.pc = "registered", !.late = late] \in Tunnel
    /\ \A q \in Tunnel, told \in {"told", "lost"} : [q EXCEPT !.told = told] \in Tunnel
    /\ \A q \in Tunnel : q.device \in Devices \cup {None}
  BY DEF IdleTunnel, Tunnel

LEMMA InitTypeOK == Init => TypeOK
  <1>1. /\ NoCode \in CodeRow /\ NoRow \in DeviceRow
        /\ IdleEnroller \in Enroller /\ IdleOperator \in Operator /\ IdleTunnel \in Tunnel
    BY CodeRecords, RowRecords, EnrollerRecords, OperatorRecords, TunnelRecords
  <1> QED BY <1>1 DEF Init, TypeOK

LEMMA CodeStepsType ==
    ASSUME TypeOK, CodeSteps PROVE TypeOK'
  <1> USE DEF TypeOK, history
  <1>1. PICK c \in Codes : Expire(c) \/ cancel_enrollment(c) \/ \E u \in Users \cup {None} : CreateEnrollment(c, u)
    BY DEF CodeSteps
  <1>2. CASE Expire(c)
    BY <1>2, CodeRecords DEF Expire
  <1>3. CASE cancel_enrollment(c)
    BY <1>3, CodeRecords DEF cancel_enrollment
  <1>4. ASSUME NEW u \in Users \cup {None}, CreateEnrollment(c, u) PROVE TypeOK'
    BY <1>4, CodeRecords DEF CreateEnrollment
  <1> QED BY <1>1, <1>2, <1>3, <1>4

LEMMA EnrollStepsType ==
    ASSUME TypeOK, EnrollerInv, EnrollSteps PROVE TypeOK'
  <1> USE DEF TypeOK, dbVars, history
  <1>1. PICK e \in Enrollers :
           \/ \E c \in Codes : LookUpCode(e, c)
           \/ \E u \in Users : LookUpUser(e, u)
           \/ \E d \in Devices : IssueDevice(e, d)
           \/ IssueFails(e) \/ RedeemWon(e) \/ RedeemLost(e) \/ RevokeLoser(e)
    BY DEF EnrollSteps
  <1>2. ASSUME NEW c \in Codes, LookUpCode(e, c) PROVE TypeOK'
    <2>1. codes[c].owner \in Users \cup {None}
      BY DEF CodeRow
    <2> QED BY <1>2, <2>1, EnrollerRecords DEF LookUpCode
  <1>3. ASSUME NEW u \in Users, LookUpUser(e, u) PROVE TypeOK'
    BY <1>3, EnrollerRecords DEF LookUpUser
  <1>4. ASSUME NEW d \in Devices, IssueDevice(e, d) PROVE TypeOK'
    <2>0. enroll[e].owner \in Users \cup {None}
      BY DEF Enroller
    <2>1. enroll' \in [Enrollers -> Enroller]
      <3>1. CASE enroll[e].code = None
        BY <1>4, <3>1, EnrollerRecords DEF IssueDevice
      <3>2. CASE enroll[e].code # None
        <4>1. enroll' = [enroll EXCEPT ![e] = [enroll[e] EXCEPT !.pc = "issued", !.device = d]]
          BY <1>4, <3>2 DEF IssueDevice
        <4> QED BY <4>1, EnrollerRecords
      <3> QED BY <3>1, <3>2
    <2>2. granted' \in [Devices -> Users \cup Codes \cup {None}] /\ creator' \in [Devices -> Users \cup {None}]
      BY <1>4, <2>0 DEF IssueDevice
    <2>3. rows' \in [Devices -> DeviceRow]
      BY <1>4, <2>0, RowRecords DEF IssueDevice
    <2> QED BY <1>4, <2>1, <2>2, <2>3 DEF IssueDevice
  <1>5. CASE IssueFails(e)
    BY <1>5, EnrollerRecords DEF IssueFails
  <1>6. CASE RedeemWon(e)
    <2>1. enroll[e].code \in Codes /\ enroll[e].device \in Devices
      BY <1>6 DEF RedeemWon, EnrollerInv
    <2>2. burnt(enroll[e].code, enroll[e].device) \in CodeRow
      BY <2>1, CodeRecords DEF burnt
    <2> QED BY <1>6, <2>1, <2>2, EnrollerRecords DEF RedeemWon
  <1>7. CASE RedeemLost(e)
    BY <1>7, EnrollerRecords DEF RedeemLost
  <1>8. CASE RevokeLoser(e)
    BY <1>8, EnrollerRecords, RowRecords DEF RevokeLoser
  <1> QED BY <1>1, <1>2, <1>3, <1>4, <1>5, <1>6, <1>7, <1>8

LEMMA TunnelStepsType ==
    ASSUME TypeOK, CredentialInv, TunnelSteps PROVE TypeOK'
  <1> USE DEF TypeOK, dbVars, history
  <1>1. PICK t \in Tunnels : (\E d \in Devices : Authenticate(t, d)) \/ Register(t) \/ EndTunnel(t)
    BY DEF TunnelSteps
  <1>2. ASSUME NEW d \in Devices, Authenticate(t, d) PROVE TypeOK'
    BY <1>2, TunnelRecords DEF Authenticate
  <1>3. CASE Register(t)
    <2>1. tunnels[t].device \in Devices
      BY <1>3 DEF Register, CredentialInv
    <2>2. PICK outcome \in {"told", "lost"} :
             tunnels' = [s \in Tunnels |->
                 IF s = t
                 THEN [tunnels[t] EXCEPT !.pc = "registered", !.late = rows[tunnels[t].device].state = "revoked"]
                 ELSE IF s = current[tunnels[t].device] /\ tunnels[s].told # "told"
                 THEN [tunnels[s] EXCEPT !.told = outcome] ELSE tunnels[s]]
      BY <1>3 DEF Register
    <2>3. tunnels' \in [Tunnels -> Tunnel]
      BY <2>2, TunnelRecords
    <2> QED BY <1>3, <2>1, <2>3 DEF Register
  <1>4. CASE EndTunnel(t)
    BY <1>4, TunnelRecords DEF EndTunnel
  <1> QED BY <1>1, <1>2, <1>3, <1>4

\* close() keeps the tunnels tunnels, and changes nothing of them but what they were told.
LEMMA CloseCommandStep ==
    ASSUME TypeOK, NEW t \in Tunnels, CloseCommand(t)
    PROVE  /\ tunnels' \in [Tunnels -> Tunnel]
           /\ tunnels'[t].told # "no"
           /\ \A s \in Tunnels : /\ tunnels'[s].pc = tunnels[s].pc
                                 /\ tunnels'[s].device = tunnels[s].device
                                 /\ tunnels'[s].late = tunnels[s].late
                                 /\ tunnels'[s].told = "no" => tunnels[s].told = "no"
  <1>1. PICK outcome \in {"told", "lost"} :
           tunnels' = [tunnels EXCEPT ![t].told = IF @ = "told" THEN "told" ELSE outcome]
    BY DEF CloseCommand
  <1> QED BY <1>1 DEF TypeOK, Tunnel

LEMMA OperatorStepsType ==
    ASSUME TypeOK, OperatorSteps PROVE TypeOK'
  <1> USE DEF TypeOK, dbVars, history
  <1>1. PICK o \in Operators :
           \/ \E d \in Devices : BeginRevoke(o, d)
           \/ \E u \in Users : BeginDisable(o, u) \/ BeginDelete(o, u)
           \/ ListDevices(o) \/ RevokeRow(o) \/ RevokeTunnel(o) \/ FinishRevoking(o)
           \/ Disown(o) \/ DeleteUser(o)
    BY DEF OperatorSteps
  <1>2. ASSUME NEW d \in Devices, BeginRevoke(o, d) PROVE TypeOK'
    BY <1>2, OperatorRecords DEF BeginRevoke
  <1>3. ASSUME NEW u \in Users, BeginDisable(o, u) \/ BeginDelete(o, u) PROVE TypeOK'
    <2>1. PICK pc \in {"list", "list-all"} : ops' = [ops EXCEPT ![o] = [IdleOperator EXCEPT !.pc = pc, !.user = u]]
      BY <1>3 DEF BeginDisable, BeginDelete
    <2>2. [IdleOperator EXCEPT !.pc = pc, !.user = u] \in Operator
      BY OperatorRecords
    <2>3. ops' \in [Operators -> Operator]
      BY <2>1, <2>2
    <2>4. users' \in [Users -> {"active", "disabled", "deleted"}]
      BY <1>3 DEF BeginDisable, BeginDelete
    <2> QED BY <1>3, <2>3, <2>4 DEF BeginDisable, BeginDelete
  <1>4. CASE ListDevices(o)
    <2>1. PICK pc \in {"revoke", "revoke-all"} :
             ops' = [ops EXCEPT ![o] =
                        [ops[o] EXCEPT !.todo = {d \in Devices : rows[d].owner = ops[o].user}, !.pc = pc]]
      BY <1>4 DEF ListDevices
    <2>2. ops' \in [Operators -> Operator]
      BY <2>1, OperatorRecords
    <2> QED BY <1>4, <2>2 DEF ListDevices
  <1>5. CASE RevokeRow(o)
    <2>0. ops[o].todo \subseteq Devices
      BY DEF Operator
    <2>1. PICK d \in Devices : /\ rows' = [rows EXCEPT ![d].state = "revoked"]
                               /\ ops' = [ops EXCEPT ![o].device = d, ![o].todo = @ \ {d}]
      BY <1>5, <2>0 DEF RevokeRow
    <2>2. ops' = [ops EXCEPT ![o] = [ops[o] EXCEPT !.device = d, !.todo = ops[o].todo \ {d}]]
      BY <2>1
    <2>3. ops' \in [Operators -> Operator]
      BY <2>2, OperatorRecords
    <2>4. rows' = [rows EXCEPT ![d] = [rows[d] EXCEPT !.state = "revoked"]]
      BY <2>1
    <2>5. rows' \in [Devices -> DeviceRow]
      BY <2>4, RowRecords
    <2> QED BY <1>5, <2>3, <2>5 DEF RevokeRow
  <1>6. CASE RevokeTunnel(o)
    <2>0. ops[o].device \in Devices
      BY <1>6 DEF RevokeTunnel, Operator
    <2>1. tunnels' \in [Tunnels -> Tunnel]
      BY <1>6, <2>0, CloseCommandStep DEF RevokeTunnel
    <2> QED BY <1>6, <2>1, OperatorRecords DEF RevokeTunnel
  <1>7. CASE FinishRevoking(o)
    BY <1>7, OperatorRecords DEF FinishRevoking
  <1>8. CASE Disown(o)
    BY <1>8, OperatorRecords, RowRecords DEF Disown
  <1>9. CASE DeleteUser(o)
    BY <1>9, OperatorRecords DEF DeleteUser
  <1> QED BY <1>1, <1>2, <1>3, <1>4, <1>5, <1>6, <1>7, <1>8, <1>9

LEMMA NextType == TypeOK /\ EnrollerInv /\ CredentialInv /\ [Next]_vars => TypeOK'
  <1> SUFFICES ASSUME TypeOK, EnrollerInv, CredentialInv, [Next]_vars PROVE TypeOK'
    OBVIOUS
  <1>1. CASE UNCHANGED vars
    BY <1>1 DEF TypeOK, vars, dbVars, history
  <1>2. ASSUME NEW d \in Devices, DisconnectAny(d) PROVE TypeOK'
    <2>1. tunnels' \in [Tunnels -> Tunnel]
      BY <1>2, CloseCommandStep DEF DisconnectAny, TypeOK
    <2> QED BY <1>2, <2>1 DEF TypeOK, DisconnectAny, dbVars, history
  <1>3. ASSUME NEW u \in Users, Enable(u) PROVE TypeOK'
    BY <1>3 DEF TypeOK, Enable, history
  <1>4. CASE Restart
    <2>1. IdleEnroller \in Enroller /\ IdleOperator \in Operator /\ IdleTunnel \in Tunnel
      BY EnrollerRecords, OperatorRecords, TunnelRecords
    <2>2. restarts' \in 0..MaxRestarts /\ excused' \subseteq Devices
      BY <1>4 DEF TypeOK, Restart
    <2> QED BY <1>4, <2>1, <2>2 DEF TypeOK, Restart, dbVars
  <1> QED BY <1>1, <1>2, <1>3, <1>4, CodeStepsType, EnrollStepsType, TunnelStepsType, OperatorStepsType DEF Next

-----------------------------------------------------------------------------
(* Codes and enrollment.                                                   *)

\* What the steps do to the fields that the invariants below read.
LEMMA IssueStep ==
    ASSUME TypeOK, EnrollerInv, CredentialInv, NEW e \in Enrollers, NEW d \in Devices, IssueDevice(e, d)
    PROVE  /\ enroll[e].pc = "checked" /\ enroll[e].device = None
           /\ rows[d].state = "none" /\ granted[d] = None
           /\ \A f \in Enrollers : enroll[f].device # d
           /\ rows'[d].state = "live" /\ rows'[d].owner = enroll[e].owner
           /\ \A x \in Devices : x # d => rows'[x] = rows[x] /\ granted'[x] = granted[x] /\ creator'[x] = creator[x]
           /\ \A f \in Enrollers : f # e => enroll'[f] = enroll[f]
           /\ creator'[d] = enroll[e].owner
           /\ excused \subseteq excused'
           /\ \A x \in excused' : x \in excused \/ x = d
           /\ enroll[e].owner # None /\ (users[enroll[e].owner] # "active" \/ Removing(enroll[e].owner)) => d \in excused'
           /\ \/ /\ enroll[e].code = None /\ enroll[e].owner \in Users
                 /\ granted'[d] = enroll[e].owner /\ enroll'[e].pc = "idle" /\ enroll'[e].device = None
              \/ /\ enroll[e].code \in Codes /\ granted'[d] = None
                 /\ enroll'[e].pc = "issued" /\ enroll'[e].device = d /\ enroll'[e].code = enroll[e].code
  <1> USE DEF TypeOK, IssueDevice
  <1>1. /\ enroll[e].pc = "checked" /\ enroll[e].device = None
        /\ enroll[e].code = None => enroll[e].owner \in Users
    BY DEF EnrollerInv
  <1>2. rows[d].state = "none" /\ granted[d] = None
    BY DEF NoRow, CredentialInv
  <1>3. \A f \in Enrollers : enroll[f].device # d
    BY <1>2 DEF EnrollerInv
  <1>4. /\ rows'[d].state = "live" /\ rows'[d].owner = enroll[e].owner
        /\ creator'[d] = enroll[e].owner
        /\ \A x \in Devices : x # d => rows'[x] = rows[x] /\ granted'[x] = granted[x] /\ creator'[x] = creator[x]
        /\ \A f \in Enrollers : f # e => enroll'[f] = enroll[f]
    OBVIOUS
  <1>5. /\ excused \subseteq excused'
        /\ \A x \in excused' : x \in excused \/ x = d
        /\ enroll[e].owner # None /\ (users[enroll[e].owner] # "active" \/ Removing(enroll[e].owner)) => d \in excused'
    OBVIOUS
  <1>6. CASE enroll[e].code = None
    BY <1>1, <1>2, <1>3, <1>4, <1>5, <1>6 DEF IdleEnroller
  <1>7. CASE enroll[e].code # None
    <2>1. enroll[e].code \in Codes
      BY <1>7 DEF Enroller
    <2>2. granted'[d] = None /\ enroll'[e].pc = "issued" /\ enroll'[e].device = d /\ enroll'[e].code = enroll[e].code
      BY <1>2, <1>7 DEF Enroller
    <2> QED BY <1>1, <1>2, <1>3, <1>4, <1>5, <2>1, <2>2
  <1> QED BY <1>6, <1>7

LEMMA RedeemStep ==
    ASSUME TypeOK, EnrollerInv, NEW e \in Enrollers, RedeemWon(e)
    PROVE  /\ enroll[e].code \in Codes /\ enroll[e].device \in Devices
           /\ codes[enroll[e].code].state = "pending"
           /\ codes'[enroll[e].code].state = "used" /\ codes'[enroll[e].code].device = enroll[e].device
           /\ \A c \in Codes : c # enroll[e].code => codes'[c] = codes[c]
           /\ granted'[enroll[e].device] = enroll[e].code
           /\ \A d \in Devices : d # enroll[e].device => granted'[d] = granted[d]
           /\ enroll'[e].pc = "idle" /\ enroll'[e].device = None
           /\ \A f \in Enrollers : f # e => enroll'[f] = enroll[f]
  <1> USE DEF TypeOK, RedeemWon
  <1>1. enroll[e].code \in Codes /\ enroll[e].device \in Devices
    BY DEF EnrollerInv
  <1>2. /\ codes[enroll[e].code].state = "pending"
        /\ codes'[enroll[e].code].state = "used" /\ codes'[enroll[e].code].device = enroll[e].device
    BY <1>1 DEF mark_enrollment_used, is_unsettled, burnt, CodeRow
  <1>3. enroll'[e].pc = "idle" /\ enroll'[e].device = None
    BY DEF IdleEnroller
  <1> QED BY <1>1, <1>2, <1>3

\* A step that revokes rows or takes their owner away, and nothing else of them.
RowsKept == \A d \in Devices : /\ rows'[d].state \in {rows[d].state, "revoked"}
                               /\ rows'[d].owner \in {rows[d].owner, None}

\* The steps of requests to /api/enroll that change no row but the loser's.
LEMMA QuietEnrollStep ==
    ASSUME TypeOK, EnrollerInv, NEW e \in Enrollers,
           (\E c \in Codes : LookUpCode(e, c)) \/ (\E u \in Users : LookUpUser(e, u))
              \/ IssueFails(e) \/ RedeemLost(e) \/ RevokeLoser(e)
    PROVE  /\ UNCHANGED <<users, codes, ops, tunnels, current, history>>
           /\ \A f \in Enrollers : f # e => enroll'[f] = enroll[f]
           /\ \/ /\ enroll'[e].pc \in {"idle", "checked"} /\ enroll'[e].device = None
                 /\ enroll'[e].pc = "checked" /\ enroll'[e].code = None => enroll'[e].owner \in Users
                 /\ \/ enroll[e].device = None /\ rows' = rows
                    \/ enroll[e].device \in Devices /\ rows'[enroll[e].device].state = "revoked"
              \/ /\ enroll'[e].pc = "lost" /\ enroll[e].pc = "issued" /\ rows' = rows
                 /\ enroll'[e].code = enroll[e].code /\ enroll'[e].device = enroll[e].device
           /\ \A d \in Devices : d # enroll[e].device => rows'[d] = rows[d]
           /\ \A d \in Devices : rows'[d].owner = rows[d].owner
  <1> USE DEF TypeOK, dbVars
  <1>1. ASSUME NEW c \in Codes, LookUpCode(e, c)
        PROVE  /\ enroll'[e].pc = "checked" /\ enroll'[e].device = None /\ enroll'[e].code # None
               /\ enroll[e].device = None
    BY <1>1 DEF LookUpCode, IdleEnroller, EnrollerInv
  <1>2. ASSUME NEW u \in Users, LookUpUser(e, u)
        PROVE  /\ enroll'[e].pc = "checked" /\ enroll'[e].device = None /\ enroll'[e].owner = u
               /\ enroll[e].device = None
    BY <1>2 DEF LookUpUser, IdleEnroller, EnrollerInv
  <1>3. CASE \E c \in Codes : LookUpCode(e, c)
    BY <1>1, <1>3 DEF LookUpCode
  <1>4. CASE \E u \in Users : LookUpUser(e, u)
    BY <1>2, <1>4 DEF LookUpUser
  <1>5. CASE IssueFails(e)
    BY <1>5 DEF IssueFails, IdleEnroller, EnrollerInv
  <1>6. CASE RedeemLost(e)
    BY <1>6 DEF RedeemLost, Enroller
  <1>7. CASE RevokeLoser(e)
    <2>1. enroll[e].device \in Devices
      BY <1>7 DEF RevokeLoser, EnrollerInv
    <2>2. /\ rows'[enroll[e].device].state = "revoked"
          /\ \A d \in Devices : rows'[d].owner = rows[d].owner
      BY <1>7, <2>1 DEF RevokeLoser, DeviceRow
    <2> QED BY <1>7, <2>1, <2>2 DEF RevokeLoser, IdleEnroller
  <1> QED BY <1>3, <1>4, <1>5, <1>6, <1>7

LEMMA OperatorStep ==
    ASSUME TypeOK, OperatorSteps
    PROVE  UNCHANGED <<codes, enroll, current, history>> /\ RowsKept
  <1> USE DEF TypeOK, RowsKept, dbVars
  <1>1. PICK o \in Operators :
           \/ \E d \in Devices : BeginRevoke(o, d)
           \/ \E u \in Users : BeginDisable(o, u) \/ BeginDelete(o, u)
           \/ ListDevices(o) \/ RevokeRow(o) \/ RevokeTunnel(o) \/ FinishRevoking(o)
           \/ Disown(o) \/ DeleteUser(o)
    BY DEF OperatorSteps
  <1>2. CASE \/ \E d \in Devices : BeginRevoke(o, d)
             \/ \E u \in Users : BeginDisable(o, u) \/ BeginDelete(o, u)
             \/ ListDevices(o) \/ RevokeTunnel(o) \/ FinishRevoking(o) \/ DeleteUser(o)
    BY <1>2 DEF BeginRevoke, BeginDisable, BeginDelete, ListDevices, RevokeTunnel, FinishRevoking, DeleteUser
  <1>3. CASE RevokeRow(o)
    <2>1. PICK d \in Devices : rows' = [rows EXCEPT ![d].state = "revoked"]
      BY <1>3 DEF RevokeRow, Operator
    <2> QED BY <1>3, <2>1 DEF RevokeRow, DeviceRow
  <1>4. CASE Disown(o)
    BY <1>4 DEF Disown, DeviceRow
  <1> QED BY <1>1, <1>2, <1>3, <1>4

\* Steps of tunnels keep the credential they were opened with, or open with one that left.
LEMMA TunnelStep ==
    ASSUME TypeOK, CredentialInv, TunnelSteps
    PROVE  /\ UNCHANGED <<dbVars, enroll, ops, history>>
           /\ \A t \in Tunnels : tunnels'[t].pc # "idle" =>
                 tunnels'[t].device \in Devices /\ granted[tunnels'[t].device] # None
  <1> USE DEF TypeOK, CredentialInv
  <1>1. PICK t \in Tunnels : (\E d \in Devices : Authenticate(t, d)) \/ Register(t) \/ EndTunnel(t)
    BY DEF TunnelSteps
  <1>2. ASSUME NEW d \in Devices, Authenticate(t, d)
        PROVE  /\ tunnels'[t].device = d /\ granted[d] # None
               /\ \A s \in Tunnels : s # t => tunnels'[s] = tunnels[s]
    BY <1>2 DEF Authenticate, IdleTunnel
  <1>3. CASE \E d \in Devices : Authenticate(t, d)
    <2>1. PICK d \in Devices : Authenticate(t, d)
      BY <1>3
    <2>2. UNCHANGED <<dbVars, enroll, ops, history>>
      BY <2>1 DEF Authenticate
    <2> QED BY <1>2, <2>1, <2>2
  <1>4. CASE Register(t)
    <2>1. \A s \in Tunnels : tunnels'[s].device = tunnels[s].device /\ (s # t => tunnels'[s].pc = tunnels[s].pc)
      BY <1>4 DEF Register, Tunnel
    <2> QED BY <1>4, <2>1 DEF Register
  <1>5. CASE EndTunnel(t)
    BY <1>5 DEF EndTunnel, IdleTunnel
  <1> QED BY <1>1, <1>3, <1>4, <1>5

\* A close command leaves the tunnels' devices and stages alone.
LEMMA CloseStep ==
    ASSUME TypeOK, OperatorSteps \/ \E d \in Devices : DisconnectAny(d)
    PROVE  \A t \in Tunnels : /\ tunnels'[t].pc = tunnels[t].pc /\ tunnels'[t].device = tunnels[t].device
                              /\ tunnels'[t].late = tunnels[t].late
                              /\ tunnels'[t].told = "no" => tunnels[t].told = "no"
  <1>1. ASSUME NEW d \in Devices, current[d] # None, CloseCommand(current[d])
        PROVE  \A t \in Tunnels : /\ tunnels'[t].pc = tunnels[t].pc /\ tunnels'[t].device = tunnels[t].device
                                  /\ tunnels'[t].late = tunnels[t].late
                                  /\ tunnels'[t].told = "no" => tunnels[t].told = "no"
    <2>1. current[d] \in Tunnels
      BY <1>1 DEF TypeOK
    <2> QED BY <1>1, <2>1, CloseCommandStep
  <1>2. CASE \E d \in Devices : DisconnectAny(d)
    BY <1>1, <1>2 DEF DisconnectAny
  <1>3. CASE OperatorSteps
    <2>1. PICK o \in Operators :
           \/ \E d \in Devices : BeginRevoke(o, d)
           \/ \E u \in Users : BeginDisable(o, u) \/ BeginDelete(o, u)
           \/ ListDevices(o) \/ RevokeRow(o) \/ RevokeTunnel(o) \/ FinishRevoking(o)
           \/ Disown(o) \/ DeleteUser(o)
      BY <1>3 DEF OperatorSteps
    <2>2. CASE RevokeTunnel(o)
      <3>1. ops[o].device \in Devices
        BY <2>2 DEF RevokeTunnel, TypeOK, Operator
      <3> QED BY <1>1, <2>2, <3>1 DEF RevokeTunnel
    <2>3. CASE ~ RevokeTunnel(o)
      BY <2>1, <2>3 DEF BeginRevoke, BeginDisable, BeginDelete, ListDevices, RevokeRow, FinishRevoking, Disown, DeleteUser
    <2> QED BY <2>2, <2>3
  <1> QED BY <1>2, <1>3

\* What a request carries survives the steps that leave the requests alone.
LEMMA KeptByQuiet ==
    ASSUME EnrollerInv, LoserRevoked, enroll' = enroll, granted' = granted, excused' = excused, RowsKept
    PROVE  EnrollerInv' /\ LoserRevoked'
  <1>1. EnrollerInv'
    BY DEF EnrollerInv, RowsKept
  <1>2. LoserRevoked'
    BY DEF LoserRevoked, RowsKept
  <1> QED BY <1>1, <1>2

LEMMA EnrollerNext ==
    ASSUME TypeOK, EnrollerInv, CredentialInv, LoserRevoked, EnrollSteps
    PROVE  EnrollerInv' /\ LoserRevoked'
  <1>1. PICK e \in Enrollers :
           \/ \E c \in Codes : LookUpCode(e, c)
           \/ \E u \in Users : LookUpUser(e, u)
           \/ \E d \in Devices : IssueDevice(e, d)
           \/ IssueFails(e) \/ RedeemWon(e) \/ RedeemLost(e) \/ RevokeLoser(e)
    BY DEF EnrollSteps
  <1>2. ASSUME NEW d \in Devices, IssueDevice(e, d) PROVE EnrollerInv' /\ LoserRevoked'
    <2>1. EnrollerInv'
      BY <1>2, IssueStep DEF EnrollerInv
    <2>2. LoserRevoked'
      BY <1>2, IssueStep DEF LoserRevoked
    <2> QED BY <2>1, <2>2
  <1>3. CASE RedeemWon(e)
    <2>0. rows' = rows /\ excused' = excused
      BY <1>3 DEF RedeemWon
    <2>1. EnrollerInv'
      BY <1>3, <2>0, RedeemStep DEF EnrollerInv
    <2>2. LoserRevoked'
      BY <1>3, <2>0, RedeemStep DEF LoserRevoked
    <2> QED BY <2>1, <2>2
  <1>4. CASE \/ \E c \in Codes : LookUpCode(e, c)
             \/ \E u \in Users : LookUpUser(e, u)
             \/ IssueFails(e) \/ RedeemLost(e) \/ RevokeLoser(e)
    <2>0. granted' = granted /\ excused' = excused
      BY <1>4, QuietEnrollStep DEF history
    <2>1. EnrollerInv'
      BY <1>4, <2>0, QuietEnrollStep DEF EnrollerInv
    <2>2. LoserRevoked'
      BY <1>4, <2>0, QuietEnrollStep DEF LoserRevoked
    <2> QED BY <2>1, <2>2
  <1> QED BY <1>1, <1>2, <1>3, <1>4

LEMMA OperatorNext ==
    ASSUME TypeOK, OperatorInv, OperatorSteps PROVE OperatorInv'
  <1> USE DEF TypeOK, OperatorInv
  <1>1. PICK o \in Operators :
           \/ \E d \in Devices : BeginRevoke(o, d)
           \/ \E u \in Users : BeginDisable(o, u) \/ BeginDelete(o, u)
           \/ ListDevices(o) \/ RevokeRow(o) \/ RevokeTunnel(o) \/ FinishRevoking(o)
           \/ Disown(o) \/ DeleteUser(o)
    BY DEF OperatorSteps
  <1>2. ASSUME NEW r, ops' = [ops EXCEPT ![o] = r],
               r.pc \in {"list", "list-all", "revoke-all", "disown", "delete"} => r.user \in Users,
               r.pc \notin {"revoke", "revoke-all"} => r.device = None
        PROVE  OperatorInv'
    BY <1>2
  <1> USE DEF Operator, IdleOperator
  <1>3. CASE \E d \in Devices : BeginRevoke(o, d)
    BY <1>3 DEF BeginRevoke
  <1>4. CASE \E u \in Users : BeginDisable(o, u) \/ BeginDelete(o, u)
    <2>1. PICK u \in Users, pc \in {"list", "list-all"} :
             ops' = [ops EXCEPT ![o] = [IdleOperator EXCEPT !.pc = pc, !.user = u]]
      BY <1>4 DEF BeginDisable, BeginDelete
    <2> QED BY <2>1
  <1>5. CASE ListDevices(o)
    BY <1>5 DEF ListDevices
  <1>6. CASE RevokeRow(o)
    BY <1>6 DEF RevokeRow
  <1>7. CASE RevokeTunnel(o)
    BY <1>7 DEF RevokeTunnel
  <1>8. CASE FinishRevoking(o)
    BY <1>8 DEF FinishRevoking
  <1>9. CASE Disown(o)
    BY <1>9 DEF Disown
  <1>10. CASE DeleteUser(o)
    BY <1>10 DEF DeleteUser
  <1> QED BY <1>1, <1>3, <1>4, <1>5, <1>6, <1>7, <1>8, <1>9, <1>10

LEMMA CodesNext ==
    ASSUME TypeOK, EnrollerInv, CredentialInv, OneDevicePerCode, CodeSteps \/ EnrollSteps
    PROVE  OneDevicePerCode' /\ CredentialInv'
  <1>1. CASE CodeSteps
    <2>1. PICK c \in Codes : Expire(c) \/ cancel_enrollment(c) \/ \E u \in Users \cup {None} : CreateEnrollment(c, u)
      BY <1>1 DEF CodeSteps
    <2>2. codes[c].state # "used" /\ \A x \in Codes : x # c => codes'[x] = codes[x]
      <3>1. CASE Expire(c)
        BY <3>1 DEF TypeOK, Expire
      <3>2. CASE cancel_enrollment(c)
        BY <3>2 DEF TypeOK, cancel_enrollment, is_unsettled
      <3>3. ASSUME NEW u \in Users \cup {None}, CreateEnrollment(c, u)
            PROVE  codes[c].state # "used" /\ \A x \in Codes : x # c => codes'[x] = codes[x]
        BY <3>3 DEF TypeOK, CreateEnrollment, NoCode
      <3> QED BY <2>1, <3>1, <3>2, <3>3
    <2>3. granted' = granted /\ rows' = rows /\ tunnels' = tunnels
      BY <2>1 DEF Expire, cancel_enrollment, CreateEnrollment, history
    <2>4. OneDevicePerCode'
      BY <2>2, <2>3 DEF OneDevicePerCode
    <2> QED BY <2>3, <2>4 DEF CredentialInv
  <1>2. CASE EnrollSteps
    <2>1. PICK e \in Enrollers :
             \/ \E c \in Codes : LookUpCode(e, c)
             \/ \E u \in Users : LookUpUser(e, u)
             \/ \E d \in Devices : IssueDevice(e, d)
             \/ IssueFails(e) \/ RedeemWon(e) \/ RedeemLost(e) \/ RevokeLoser(e)
      BY <1>2 DEF EnrollSteps
    <2>2. ASSUME NEW d \in Devices, IssueDevice(e, d) PROVE OneDevicePerCode' /\ CredentialInv'
      <3>0. codes' = codes /\ tunnels' = tunnels
        BY <2>2 DEF IssueDevice
      <3>1. granted'[d] \notin Codes
        BY <2>2, IssueStep
      <3>2. OneDevicePerCode'
        BY <2>2, <3>0, <3>1, IssueStep DEF OneDevicePerCode
      <3>3. CredentialInv'
        BY <2>2, <3>0, IssueStep DEF CredentialInv
      <3> QED BY <3>2, <3>3
    <2>3. CASE RedeemWon(e)
      <3>0. rows' = rows /\ tunnels' = tunnels
        BY <2>3 DEF RedeemWon
      <3>1. OneDevicePerCode'
        BY <2>3, RedeemStep DEF OneDevicePerCode
      <3>2. rows[enroll[e].device].state # "none"
        BY <2>3, RedeemStep DEF EnrollerInv
      <3>3. CredentialInv'
        BY <2>3, <3>0, <3>2, RedeemStep DEF CredentialInv
      <3> QED BY <3>1, <3>3
    <2>4. CASE \/ \E c \in Codes : LookUpCode(e, c)
               \/ \E u \in Users : LookUpUser(e, u)
               \/ IssueFails(e) \/ RedeemLost(e) \/ RevokeLoser(e)
      <3>1. codes' = codes /\ granted' = granted /\ tunnels' = tunnels
        BY <2>4, QuietEnrollStep DEF history
      <3>2. \A d \in Devices : rows[d].state # "none" => rows'[d].state # "none"
        BY <2>4, QuietEnrollStep
      <3> QED BY <3>1, <3>2 DEF OneDevicePerCode, CredentialInv
    <2> QED BY <2>1, <2>2, <2>3, <2>4
  <1> QED BY <1>1, <1>2

LEMMA RestartStep ==
    ASSUME TypeOK, Restart
    PROVE  /\ \A e \in Enrollers : enroll'[e].pc = "idle" /\ enroll'[e].device = None
           /\ \A o \in Operators : ops'[o].pc = "idle" /\ ops'[o].user = None /\ ops'[o].device = None
           /\ \A t \in Tunnels : tunnels'[t].pc = "idle"
           /\ UNCHANGED <<dbVars, granted, creator>>
           /\ excused \subseteq excused'
           /\ \A d \in Devices : (\E e \in Enrollers : enroll[e].device = d) => d \in excused'
           /\ \A d \in Devices : creator[d] # None /\ Removing(creator[d]) => d \in excused'
  BY DEF Restart, IdleEnroller, IdleOperator, IdleTunnel

LEMMA EnrollInvNext == EnrollInv /\ [Next]_vars => EnrollInv'
  <1> SUFFICES ASSUME EnrollInv, [Next]_vars PROVE EnrollInv'
    OBVIOUS
  <1> USE DEF EnrollInv
  <1>0. TypeOK'
    BY NextType
  <1>1. CASE CodeSteps
    <2>1. UNCHANGED <<enroll, ops, granted, excused, rows>>
      BY <1>1 DEF CodeSteps, Expire, cancel_enrollment, CreateEnrollment, history
    <2>2. EnrollerInv' /\ LoserRevoked' /\ OperatorInv'
      BY <2>1 DEF EnrollerInv, LoserRevoked, OperatorInv
    <2> QED BY <1>0, <1>1, <2>2, CodesNext
  <1>2. CASE EnrollSteps
    <2>1. ops' = ops
      BY <1>2 DEF EnrollSteps, LookUpCode, LookUpUser, IssueDevice, IssueFails, RedeemWon, RedeemLost, RevokeLoser
    <2>2. OperatorInv'
      BY <2>1 DEF OperatorInv
    <2> QED BY <1>0, <1>2, <2>2, CodesNext, EnrollerNext
  <1>3. CASE TunnelSteps \/ UNCHANGED vars
    <2>1. UNCHANGED <<codes, rows, enroll, ops, granted, excused>>
      BY <1>3, TunnelStep DEF vars, dbVars, history
    <2>2. EnrollerInv' /\ LoserRevoked' /\ OperatorInv' /\ OneDevicePerCode'
      BY <2>1 DEF EnrollerInv, LoserRevoked, OperatorInv, OneDevicePerCode
    <2>3. CredentialInv'
      BY <1>3, <2>1, TunnelStep DEF CredentialInv, vars
    <2> QED BY <1>0, <2>2, <2>3
  <1>4. CASE OperatorSteps
    <2>1. UNCHANGED <<codes, enroll, granted, excused>> /\ RowsKept
      BY <1>4, OperatorStep DEF history
    <2>2. CredentialInv'
      BY <1>4, <2>1, CloseStep DEF CredentialInv, RowsKept
    <2>3. OneDevicePerCode'
      BY <2>1 DEF OneDevicePerCode
    <2> QED BY <1>0, <1>4, <2>1, <2>2, <2>3, OperatorNext, KeptByQuiet
  <1>5. CASE \/ \E d \in Devices : DisconnectAny(d)
             \/ \E u \in Users : Enable(u)
    <2>1. UNCHANGED <<codes, rows, enroll, ops, granted, excused>>
      BY <1>5 DEF DisconnectAny, Enable, dbVars, history
    <2>2. EnrollerInv' /\ LoserRevoked' /\ OperatorInv' /\ OneDevicePerCode'
      BY <2>1 DEF EnrollerInv, LoserRevoked, OperatorInv, OneDevicePerCode
    <2>3. CASE \E d \in Devices : DisconnectAny(d)
      BY <1>0, <2>1, <2>2, <2>3, CloseStep DEF CredentialInv
    <2>4. CASE \E u \in Users : Enable(u)
      BY <1>0, <2>1, <2>2, <2>4 DEF CredentialInv, Enable
    <2> QED BY <1>5, <2>3, <2>4
  <1>6. CASE Restart
    <2>1. EnrollerInv'
      BY <1>6, RestartStep DEF EnrollerInv
    <2>2. OperatorInv'
      BY <1>6, RestartStep DEF OperatorInv
    <2>3. CredentialInv' /\ OneDevicePerCode'
      BY <1>6, RestartStep DEF CredentialInv, OneDevicePerCode, dbVars
    <2>4. LoserRevoked'
      BY <1>6, RestartStep DEF LoserRevoked, dbVars
    <2> QED BY <1>0, <2>1, <2>2, <2>3, <2>4
  <1> QED BY <1>1, <1>2, <1>3, <1>4, <1>5, <1>6 DEF Next

LEMMA EnrollInvInit == Init => EnrollInv
  <1> SUFFICES ASSUME Init PROVE EnrollInv
    OBVIOUS
  <1> USE DEF Init, IdleEnroller, IdleOperator, IdleTunnel, NoRow
  <1>1. EnrollerInv /\ OperatorInv
    BY DEF EnrollerInv, OperatorInv
  <1>2. CredentialInv /\ LoserRevoked
    BY DEF CredentialInv, LoserRevoked
  <1>3. OneDevicePerCode
    BY DEF OneDevicePerCode
  <1> QED BY InitTypeOK, <1>1, <1>2, <1>3 DEF EnrollInv

LEMMA EnrollInvAlways == Spec => []EnrollInv
  BY EnrollInvInit, EnrollInvNext, PTL DEF Spec

-----------------------------------------------------------------------------
(* Removing an account.                                                    *)

\* A step that neither issues a device nor moves a request that removes an account: live devices can
\* only get fewer.
LEMMA RemovalQuiet ==
    ASSUME RemovalInv, ops' = ops, creator' = creator, excused \subseteq excused',
           \A d \in Devices : rows'[d].state = "live" => rows[d].state = "live",
           \A d \in Devices : rows'[d].owner = rows[d].owner,
           \A u \in Users : users[u] = "active" => users'[u] = "active", TypeOK
    PROVE  RemovalInv'
  <1>1. \A d \in Devices, u \in Users : Owned(d, u)' => Owned(d, u)
    BY DEF Owned
  <1>2. OwnerInv'
    BY <1>1 DEF RemovalInv, OwnerInv
  <1>3. RemovedOwnerRevoked'
    BY DEF RemovalInv, RemovedOwnerRevoked, Removing, TypeOK
  <1> QED BY <1>2, <1>3 DEF RemovalInv

LEMMA RemovalIssue ==
    ASSUME EnrollInv, RemovalInv, NEW e \in Enrollers, NEW d \in Devices, IssueDevice(e, d)
    PROVE  RemovalInv'
  <1> USE DEF EnrollInv
  <1>0. UNCHANGED <<users, ops>> /\ enroll[e].owner \in Users \cup {None}
    BY DEF IssueDevice, TypeOK, Enroller
  <1>1. \A x \in Devices, u \in Users : Owned(x, u)' =>
           Owned(x, u) \/ (x = d /\ u = enroll[e].owner /\ users[u] = "active" /\ ~ Removing(u))
    BY <1>0, IssueStep DEF Owned
  <1>2. \A x \in Devices : rows'[x].owner \in {None, creator'[x]}
    BY IssueStep DEF RemovalInv, OwnerInv
  <1>3. \A x \in Devices, u \in Users : Owned(x, u)' => rows'[x].owner = u
    BY <1>1, IssueStep DEF RemovalInv, OwnerInv, Owned
  <1>4. \A o \in Operators, x \in Devices, u \in Users : ops[o].user = u /\ Owned(x, u)' =>
           /\ ops[o].pc \in {"revoke", "revoke-all"} => x \in ops[o].todo
           /\ ops[o].pc \notin {"disown", "delete"}
    BY <1>1 DEF RemovalInv, OwnerInv, Removing
  <1>5. OwnerInv'
    BY <1>0, <1>2, <1>3, <1>4 DEF OwnerInv
  <1>6. RemovedOwnerRevoked'
    BY <1>0, IssueStep DEF RemovalInv, RemovedOwnerRevoked, Removing
  <1> QED BY <1>5, <1>6 DEF RemovalInv

\* A request that removes an account moves: nothing else of it changes than its own place, and no
\* device of the account is left when it passes the end of its list.
LEMMA RemovalMove ==
    ASSUME TypeOK, RemovalInv, NEW o \in Operators, NEW r, ops' = [ops EXCEPT ![o] = r],
           UNCHANGED <<creator, excused>>, RowsKept,
           \A d \in Devices, u \in Users : Owned(d, u)' => rows'[d].owner = rows[d].owner,
           \A d \in Devices, u \in Users : Owned(d, u)' /\ users[u] = "active" =>
              users'[u] = "active" \/ (r.user = u /\ r.pc # "idle"),
           \A d \in Devices, u \in Users : Owned(d, u)' /\ ops[o].user = u /\ ops[o].pc # "idle" =>
              r.user = u /\ r.pc # "idle",
           \A d \in Devices, u \in Users : r.user = u /\ Owned(d, u)' =>
              /\ r.pc \in {"revoke", "revoke-all"} => d \in r.todo
              /\ r.pc \notin {"disown", "delete"}
    PROVE  RemovalInv'
  <1>1. \A d \in Devices, u \in Users : Owned(d, u)' => Owned(d, u)
    BY DEF Owned, RowsKept
  <1>2. \A p \in Operators : p # o => ops'[p] = ops[p]
    BY DEF TypeOK
  <1>3. ops'[o] = r
    BY DEF TypeOK
  <1>4. OwnerInv'
    <2>1. \A d \in Devices : rows'[d].owner \in {None, creator'[d]}
      BY DEF RemovalInv, OwnerInv, RowsKept
    <2>2. \A d \in Devices, u \in Users : Owned(d, u)' => rows'[d].owner = u
      BY <1>1 DEF RemovalInv, OwnerInv
    <2>3. \A p \in Operators, d \in Devices, u \in Users : ops'[p].user = u /\ Owned(d, u)' =>
             /\ ops'[p].pc \in {"revoke", "revoke-all"} => d \in ops'[p].todo
             /\ ops'[p].pc \notin {"disown", "delete"}
      BY <1>1, <1>2, <1>3 DEF RemovalInv, OwnerInv
    <2> QED BY <2>1, <2>2, <2>3 DEF OwnerInv
  <1>5. RemovedOwnerRevoked'
    <2> SUFFICES ASSUME NEW d \in Devices, creator[d] # None, rows'[d].state = "live", d \notin excused
                 PROVE  users'[creator[d]] = "active" \/ Removing(creator[d])'
      BY DEF RemovedOwnerRevoked
    <2>1. creator[d] \in Users
      BY DEF TypeOK
    <2>2. Owned(d, creator[d])' /\ Owned(d, creator[d])
      BY <1>1, <2>1 DEF Owned
    <2>3. users[creator[d]] = "active" \/ Removing(creator[d])
      BY <2>2 DEF RemovalInv, RemovedOwnerRevoked, Owned
    <2>4. CASE users[creator[d]] = "active"
      BY <1>3, <2>1, <2>2, <2>4 DEF Removing
    <2>5. ASSUME NEW p \in Operators, ops[p].pc # "idle", ops[p].user = creator[d]
          PROVE  Removing(creator[d])'
      <3>1. CASE p = o
        BY <1>3, <2>1, <2>2, <2>5, <3>1 DEF Removing
      <3>2. CASE p # o
        BY <1>2, <2>5, <3>2 DEF Removing
      <3> QED BY <3>1, <3>2
    <2> QED BY <2>3, <2>4, <2>5 DEF Removing
  <1> QED BY <1>4, <1>5 DEF RemovalInv

LEMMA RemovalOperator ==
    ASSUME EnrollInv, RemovalInv, OperatorSteps PROVE RemovalInv'
  <1> USE DEF EnrollInv
  <1>0. /\ RowsKept /\ UNCHANGED <<creator, excused>>
        /\ \A d \in Devices, u \in Users : Owned(d, u)' => Owned(d, u)
    BY OperatorStep DEF history, Owned, RowsKept
  <1>1. PICK o \in Operators :
           \/ \E d \in Devices : BeginRevoke(o, d)
           \/ \E u \in Users : BeginDisable(o, u) \/ BeginDelete(o, u)
           \/ ListDevices(o) \/ RevokeRow(o) \/ RevokeTunnel(o) \/ FinishRevoking(o)
           \/ Disown(o) \/ DeleteUser(o)
    BY DEF OperatorSteps
  <1>2. ops \in [Operators -> Operator] /\ ops[o] \in Operator
    BY DEF TypeOK
  <1>3. ASSUME NEW d \in Devices, BeginRevoke(o, d) PROVE RemovalInv'
    <2> DEFINE r == [IdleOperator EXCEPT !.pc = "revoke", !.todo = {d}]
    <2>1. r.user = None /\ r.pc = "revoke"
      BY DEF IdleOperator
    <2>2. ops' = [ops EXCEPT ![o] = r] /\ UNCHANGED <<users, rows>> /\ ops[o].pc = "idle"
      BY <1>3 DEF BeginRevoke, dbVars
    <2> HIDE DEF r
    <2> QED BY <1>0, <2>1, <2>2, RemovalMove
  <1>4. ASSUME NEW u \in Users, BeginDisable(o, u) \/ BeginDelete(o, u) PROVE RemovalInv'
    <2>1. PICK pc \in {"list", "list-all"} : ops' = [ops EXCEPT ![o] = [IdleOperator EXCEPT !.pc = pc, !.user = u]]
      BY <1>4 DEF BeginDisable, BeginDelete
    <2> DEFINE r == [IdleOperator EXCEPT !.pc = pc, !.user = u]
    <2>2. r.user = u /\ r.pc = pc
      BY DEF IdleOperator
    <2>3. ops' = [ops EXCEPT ![o] = r]
      BY <2>1
    <2>4. /\ rows' = rows /\ ops[o].pc = "idle"
          /\ \A v \in Users : users[v] = "active" => users'[v] = "active" \/ v = u
      BY <1>4 DEF BeginDisable, BeginDelete, dbVars, TypeOK
    <2> HIDE DEF r
    <2>5. r.pc \notin {"idle", "revoke", "revoke-all", "disown", "delete"}
      BY <2>2
    <2> QED BY <1>0, <2>2, <2>3, <2>4, <2>5, RemovalMove
  <1>5. CASE ListDevices(o)
    <2>1. PICK pc \in {"revoke", "revoke-all"} :
             ops' = [ops EXCEPT ![o] =
                        [ops[o] EXCEPT !.todo = {d \in Devices : rows[d].owner = ops[o].user}, !.pc = pc]]
      BY <1>5 DEF ListDevices
    <2> DEFINE r == [ops[o] EXCEPT !.todo = {d \in Devices : rows[d].owner = ops[o].user}, !.pc = pc]
    <2>2. r.user = ops[o].user /\ r.pc = pc /\ r.todo = {d \in Devices : rows[d].owner = ops[o].user}
      BY <1>2 DEF Operator
    <2>3. ops' = [ops EXCEPT ![o] = r] /\ UNCHANGED <<users, rows>>
      BY <1>5, <2>1 DEF ListDevices, dbVars
    <2> HIDE DEF r
    <2>4. \A d \in Devices, u \in Users : r.user = u /\ Owned(d, u)' => d \in r.todo
      BY <1>0, <2>2 DEF RemovalInv, OwnerInv
    <2> QED BY <1>0, <2>2, <2>3, <2>4, RemovalMove, ZenonT(40)
  <1>6. CASE RevokeRow(o)
    <2>1. PICK d \in Devices : /\ d \in ops[o].todo
                               /\ rows' = [rows EXCEPT ![d].state = "revoked"]
                               /\ ops' = [ops EXCEPT ![o].device = d, ![o].todo = @ \ {d}]
      BY <1>2, <1>6 DEF RevokeRow, Operator
    <2> DEFINE r == [ops[o] EXCEPT !.device = d, !.todo = ops[o].todo \ {d}]
    <2>2. r.user = ops[o].user /\ r.pc = ops[o].pc /\ r.todo = ops[o].todo \ {d}
      BY <1>2 DEF Operator
    <2>3. ops' = [ops EXCEPT ![o] = r] /\ users' = users
      BY <1>2, <1>6, <2>1 DEF RevokeRow
    <2> HIDE DEF r
    <2>4. rows'[d].state = "revoked" /\ \A x \in Devices : rows'[x].owner = rows[x].owner
      BY <2>1 DEF TypeOK, DeviceRow
    <2>5. \A x \in Devices, u \in Users : Owned(x, u)' => x # d
      BY <2>4 DEF Owned
    <2>6. \A x \in Devices, u \in Users : r.user = u /\ Owned(x, u)' =>
             /\ r.pc \in {"revoke", "revoke-all"} => x \in r.todo
             /\ r.pc \notin {"disown", "delete"}
      BY <1>0, <2>2, <2>5 DEF RemovalInv, OwnerInv
    <2> QED BY <1>0, <2>2, <2>3, <2>4, <2>6, RemovalMove
  <1>7. CASE RevokeTunnel(o)
    <2> DEFINE r == [ops[o] EXCEPT !.device = None]
    <2>2. r.user = ops[o].user /\ r.pc = ops[o].pc /\ r.todo = ops[o].todo
      BY <1>2 DEF Operator
    <2>3. ops' = [ops EXCEPT ![o] = r] /\ UNCHANGED <<users, rows>>
      BY <1>2, <1>7 DEF RevokeTunnel, dbVars
    <2> HIDE DEF r
    <2>4. \A x \in Devices, u \in Users : r.user = u /\ Owned(x, u)' =>
             /\ r.pc \in {"revoke", "revoke-all"} => x \in r.todo
             /\ r.pc \notin {"disown", "delete"}
      BY <1>0, <2>2 DEF RemovalInv, OwnerInv
    <2> QED BY <1>0, <2>2, <2>3, <2>4, RemovalMove
  <1>8. CASE FinishRevoking(o)
    <2> DEFINE r == IF ops[o].pc = "revoke" THEN IdleOperator ELSE [ops[o] EXCEPT !.pc = "disown"]
    <2>1. \A d \in Devices, u \in Users : ops[o].user = u => ~ Owned(d, u)
      BY <1>8 DEF FinishRevoking, RemovalInv, OwnerInv
    <2>2. r.user \in {None, ops[o].user}
      BY <1>2 DEF Operator, IdleOperator
    <2>3. ops' = [ops EXCEPT ![o] = r] /\ UNCHANGED <<users, rows>>
      BY <1>2, <1>8 DEF FinishRevoking, dbVars
    <2> HIDE DEF r
    <2>4. \A d \in Devices, u \in Users : ops[o].user = u \/ r.user = u => ~ Owned(d, u)'
      BY <1>0, <2>1, <2>2
    <2>7. \A d \in Devices, u \in Users : Owned(d, u)' /\ users[u] = "active" => users'[u] = "active"
      BY <2>3
    <2>8. \A d \in Devices, u \in Users : Owned(d, u)' => ops[o].user # u
      BY <2>4
    <2>9. \A d \in Devices, u \in Users : Owned(d, u)' => r.user # u
      BY <2>4
    <2>10. \A d \in Devices, u \in Users : Owned(d, u)' => rows'[d].owner = rows[d].owner
      BY <2>3
    <2>11. \A d \in Devices, u \in Users : r.user = u /\ Owned(d, u)' =>
              /\ r.pc \in {"revoke", "revoke-all"} => d \in r.todo
              /\ r.pc \notin {"disown", "delete"}
      BY <2>9
    <2>12. \A d \in Devices, u \in Users : Owned(d, u)' /\ users[u] = "active" =>
              users'[u] = "active" \/ (r.user = u /\ r.pc # "idle")
      BY <2>7
    <2>13. \A d \in Devices, u \in Users : Owned(d, u)' /\ ops[o].user = u /\ ops[o].pc # "idle" =>
              r.user = u /\ r.pc # "idle"
      BY <2>8
    <2> QED BY <1>0, <2>3, <2>10, <2>11, <2>12, <2>13, RemovalMove
  <1>9. CASE Disown(o)
    <2> DEFINE r == [ops[o] EXCEPT !.pc = "delete"]
    <2>1. \A d \in Devices, u \in Users : ops[o].user = u => ~ Owned(d, u)
      BY <1>9 DEF Disown, RemovalInv, OwnerInv
    <2>2. r.user = ops[o].user /\ r.pc = "delete"
      BY <1>2 DEF Operator
    <2>3. ops' = [ops EXCEPT ![o] = r] /\ users' = users
      BY <1>2, <1>9 DEF Disown
    <2>4. \A d \in Devices : rows[d].owner # ops[o].user => rows'[d] = rows[d]
      BY <1>9 DEF Disown
    <2> HIDE DEF r
    <2>5. \A d \in Devices, u \in Users : Owned(d, u)' => rows'[d].owner = rows[d].owner
      <3>1. \A d \in Devices, u \in Users : Owned(d, u)' => rows[d].owner = u /\ ops[o].user # u
        BY <1>0, <2>1 DEF RemovalInv, OwnerInv
      <3> QED BY <2>4, <3>1
    <2>6. \A d \in Devices, u \in Users : ops[o].user = u \/ r.user = u => ~ Owned(d, u)'
      BY <1>0, <2>1, <2>2
    <2>7. \A d \in Devices, u \in Users : Owned(d, u)' /\ users[u] = "active" => users'[u] = "active"
      BY <2>3
    <2>8. \A d \in Devices, u \in Users : Owned(d, u)' => ops[o].user # u
      BY <2>6
    <2>9. \A d \in Devices, u \in Users : Owned(d, u)' => r.user # u
      BY <2>6
    <2>10. \A d \in Devices, u \in Users : Owned(d, u)' => rows'[d].owner = rows[d].owner
      BY <2>5
    <2>11. \A d \in Devices, u \in Users : r.user = u /\ Owned(d, u)' =>
              /\ r.pc \in {"revoke", "revoke-all"} => d \in r.todo
              /\ r.pc \notin {"disown", "delete"}
      BY <2>9
    <2>12. \A d \in Devices, u \in Users : Owned(d, u)' /\ users[u] = "active" =>
              users'[u] = "active" \/ (r.user = u /\ r.pc # "idle")
      BY <2>7
    <2>13. \A d \in Devices, u \in Users : Owned(d, u)' /\ ops[o].user = u /\ ops[o].pc # "idle" =>
              r.user = u /\ r.pc # "idle"
      BY <2>8
    <2> QED BY <1>0, <2>3, <2>10, <2>11, <2>12, <2>13, RemovalMove
  <1>10. CASE DeleteUser(o)
    <2>1. \A d \in Devices, u \in Users : ops[o].user = u => ~ Owned(d, u)
      BY <1>10 DEF DeleteUser, RemovalInv, OwnerInv
    <2>2. IdleOperator.user = None
      BY DEF IdleOperator
    <2>3. ops' = [ops EXCEPT ![o] = IdleOperator] /\ rows' = rows
      BY <1>10 DEF DeleteUser
    <2>4. \A u \in Users : u # ops[o].user => users'[u] = users[u]
      BY <1>10 DEF DeleteUser, TypeOK
    <2>5. \A d \in Devices, u \in Users : ops[o].user = u \/ IdleOperator.user = u => ~ Owned(d, u)'
      BY <1>0, <2>1, <2>2
    <2>7. \A d \in Devices, u \in Users : Owned(d, u)' /\ users[u] = "active" => users'[u] = "active"
      BY <2>4, <2>5
    <2>8. \A d \in Devices, u \in Users : Owned(d, u)' => ops[o].user # u
      BY <2>5
    <2>9. \A d \in Devices, u \in Users : Owned(d, u)' => IdleOperator.user # u
      BY <2>5
    <2>10. \A d \in Devices, u \in Users : Owned(d, u)' => rows'[d].owner = rows[d].owner
      BY <2>3
    <2>11. \A d \in Devices, u \in Users : IdleOperator.user = u /\ Owned(d, u)' =>
              /\ IdleOperator.pc \in {"revoke", "revoke-all"} => d \in IdleOperator.todo
              /\ IdleOperator.pc \notin {"disown", "delete"}
      BY <2>9
    <2>12. \A d \in Devices, u \in Users : Owned(d, u)' /\ users[u] = "active" =>
              users'[u] = "active" \/ (IdleOperator.user = u /\ IdleOperator.pc # "idle")
      BY <2>7
    <2>13. \A d \in Devices, u \in Users : Owned(d, u)' /\ ops[o].user = u /\ ops[o].pc # "idle" =>
              IdleOperator.user = u /\ IdleOperator.pc # "idle"
      BY <2>8
    <2> QED BY <1>0, <2>3, <2>10, <2>11, <2>12, <2>13, RemovalMove
  <1> QED BY <1>1, <1>3, <1>4, <1>5, <1>6, <1>7, <1>8, <1>9, <1>10

LEMMA RemovalNext == EnrollInv /\ RemovalInv /\ [Next]_vars => RemovalInv'
  <1> SUFFICES ASSUME EnrollInv, RemovalInv, [Next]_vars PROVE RemovalInv'
    OBVIOUS
  <1>0. TypeOK /\ EnrollerInv /\ CredentialInv
    BY DEF EnrollInv
  <1>1. CASE \/ CodeSteps \/ TunnelSteps \/ UNCHANGED vars
             \/ \E d \in Devices : DisconnectAny(d)
             \/ \E u \in Users : Enable(u)
    <2>1. CASE CodeSteps
      BY <1>0, <2>1, RemovalQuiet DEF CodeSteps, Expire, cancel_enrollment, CreateEnrollment, history
    <2>2. CASE TunnelSteps \/ UNCHANGED vars
      BY <1>0, <2>2, TunnelStep, RemovalQuiet DEF vars, dbVars, history
    <2>3. CASE \E d \in Devices : DisconnectAny(d)
      BY <1>0, <2>3, RemovalQuiet DEF DisconnectAny, dbVars, history
    <2>4. CASE \E u \in Users : Enable(u)
      <3>1. \A u \in Users : users[u] = "active" => users'[u] = "active"
        BY <1>0, <2>4 DEF Enable, TypeOK
      <3>2. UNCHANGED <<rows, ops, creator, excused>>
        BY <2>4 DEF Enable, history
      <3> QED BY <1>0, <3>1, <3>2, RemovalQuiet
    <2> QED BY <1>1, <2>1, <2>2, <2>3, <2>4
  <1>2. CASE EnrollSteps
    <2>1. PICK e \in Enrollers :
             \/ \E c \in Codes : LookUpCode(e, c)
             \/ \E u \in Users : LookUpUser(e, u)
             \/ \E d \in Devices : IssueDevice(e, d)
             \/ IssueFails(e) \/ RedeemWon(e) \/ RedeemLost(e) \/ RevokeLoser(e)
      BY <1>2 DEF EnrollSteps
    <2>2. CASE \E d \in Devices : IssueDevice(e, d)
      BY <2>2, RemovalIssue
    <2>3. CASE RedeemWon(e)
      BY <1>0, <2>3, RemovalQuiet DEF RedeemWon
    <2>4. CASE \/ \E c \in Codes : LookUpCode(e, c)
               \/ \E u \in Users : LookUpUser(e, u)
               \/ IssueFails(e) \/ RedeemLost(e) \/ RevokeLoser(e)
      <3>1. UNCHANGED <<users, ops, creator, excused>>
        BY <1>0, <2>4, QuietEnrollStep DEF history
      <3>2. \A d \in Devices : /\ rows'[d].state = "live" => rows[d].state = "live"
                               /\ rows'[d].owner = rows[d].owner
        BY <1>0, <2>4, QuietEnrollStep
      <3> QED BY <1>0, <3>1, <3>2, RemovalQuiet
    <2> QED BY <2>1, <2>2, <2>3, <2>4
  <1>3. CASE OperatorSteps
    BY <1>3, RemovalOperator
  <1>4. CASE Restart
    <2>1. \A d \in Devices, u \in Users : Owned(d, u)' => Owned(d, u) /\ ~ Removing(u)
      BY <1>0, <1>4, RestartStep DEF Owned, dbVars
    <2>2. OwnerInv'
      BY <1>0, <1>4, <2>1, RestartStep DEF RemovalInv, OwnerInv, dbVars
    <2>3. RemovedOwnerRevoked'
      BY <1>0, <1>4, RestartStep DEF RemovalInv, RemovedOwnerRevoked, dbVars
    <2> QED BY <2>2, <2>3 DEF RemovalInv
  <1> QED BY <1>1, <1>2, <1>3, <1>4 DEF Next

LEMMA RemovalInit == Init => RemovalInv
  BY DEF Init, RemovalInv, OwnerInv, Owned, RemovedOwnerRevoked, NoRow

-----------------------------------------------------------------------------
(* Revocation and the tunnel.                                              *)

\* Both parts of ClosedInv speak of a tunnel and its device.
ClosedStep(t) ==
    LET d == tunnels[t].device IN
    tunnels[t].pc = "registered" =>
        /\ tunnels[t].told = "no" => current[d] = t
        /\ rows[d].state = "revoked" /\ ~ tunnels[t].late
               => tunnels[t].told # "no" \/ \E o \in Operators : ops[o].device = d

LEMMA ClosedIsStep == ClosedInv <=> \A t \in Tunnels : ClosedStep(t)
  BY DEF ClosedInv, CurrentInv, RevokedIsClosed, ClosedStep

\* Steps that leave the tunnels and the pending revocations alone, and revoke only rows whose
\* credential never left.
LEMMA ClosedQuiet ==
    ASSUME CredentialInv, ClosedInv, UNCHANGED <<tunnels, current, ops>>,
           \A d \in Devices : rows'[d].state = "revoked" => rows[d].state = "revoked" \/ granted[d] = None
    PROVE  ClosedInv'
  <1>1. \A t \in Tunnels : ClosedStep(t)'
    BY ClosedIsStep DEF ClosedStep, CredentialInv
  <1> QED BY <1>1 DEF ClosedInv, CurrentInv, RevokedIsClosed, ClosedStep

LEMMA ClosedTunnel ==
    ASSUME TypeOK, CredentialInv, ClosedInv, TunnelSteps PROVE ClosedInv'
  <1>0. UNCHANGED <<rows, ops>>
    BY TunnelStep DEF dbVars
  <1>1. PICK t \in Tunnels : (\E d \in Devices : Authenticate(t, d)) \/ Register(t) \/ EndTunnel(t)
    BY DEF TunnelSteps
  <1>2. ASSUME NEW s \in Tunnels PROVE ClosedStep(s)'
    <2>0. ClosedStep(s)
      BY ClosedIsStep
    <2>1. CASE \E d \in Devices : Authenticate(t, d)
      <3>1. current' = current /\ tunnels'[t].pc = "authenticated" /\ (s # t => tunnels'[s] = tunnels[s])
        BY <2>1 DEF Authenticate, IdleTunnel, TypeOK
      <3> QED BY <1>0, <2>0, <3>1 DEF ClosedStep
    <2>2. CASE Register(t)
      <3>1. tunnels[t].device \in Devices /\ current' = [current EXCEPT ![tunnels[t].device] = t]
        BY <2>2 DEF Register, CredentialInv
      <3>2. CASE s = t
        <4>1. /\ tunnels'[s].device = tunnels[s].device
              /\ rows[tunnels[s].device].state = "revoked" => tunnels'[s].late
          <5> DEFINE late == rows[tunnels[s].device].state = "revoked"
          <5>1. tunnels[s] \in Tunnel /\ tunnels'[s] = [tunnels[s] EXCEPT !.pc = "registered", !.late = late]
            BY <2>2, <3>2 DEF Register, TypeOK
          <5> HIDE DEF late
          <5>2. tunnels'[s].device = tunnels[s].device /\ tunnels'[s].late = late
            BY <5>1 DEF Tunnel
          <5> QED BY <5>2 DEF late
        <4> QED BY <1>0, <3>1, <3>2, <4>1 DEF ClosedStep, TypeOK
      <3>3. CASE s # t
        <4>1. /\ tunnels'[s].device = tunnels[s].device /\ tunnels'[s].pc = tunnels[s].pc
              /\ tunnels'[s].late = tunnels[s].late
              /\ tunnels'[s].told = "no" => tunnels[s].told = "no" /\ s # current[tunnels[t].device]
          <5>1. PICK outcome \in {"told", "lost"} :
                   tunnels'[s] = IF s = current[tunnels[t].device] /\ tunnels[s].told # "told"
                                 THEN [tunnels[s] EXCEPT !.told = outcome] ELSE tunnels[s]
            BY <2>2, <3>3 DEF Register
          <5>2. tunnels[s] \in Tunnel
            BY DEF TypeOK
          <5>3. CASE s = current[tunnels[t].device] /\ tunnels[s].told # "told"
            BY <5>1, <5>2, <5>3 DEF Tunnel
          <5>4. CASE ~ (s = current[tunnels[t].device] /\ tunnels[s].told # "told")
            BY <5>1, <5>4
          <5> QED BY <5>3, <5>4
        <4> QED BY <1>0, <2>0, <3>1, <3>3, <4>1 DEF ClosedStep, TypeOK
      <3> QED BY <3>2, <3>3
    <2>3. CASE EndTunnel(t)
      <3>1. tunnels'[t].pc = "idle" /\ (s # t => tunnels'[s] = tunnels[s])
        BY <2>3 DEF EndTunnel, IdleTunnel, TypeOK
      <3>2. \A d \in Devices : current'[d] # current[d] => current[d] = t
        BY <2>3 DEF EndTunnel, TypeOK
      <3>3. tunnels[s].pc = "registered" => tunnels[s].device \in Devices
        BY DEF CredentialInv
      <3> QED BY <1>0, <2>0, <3>1, <3>2, <3>3 DEF ClosedStep
    <2> QED BY <1>1, <2>1, <2>2, <2>3
  <1> QED BY <1>2 DEF ClosedInv, CurrentInv, RevokedIsClosed, ClosedStep

\* The pending revocations that a step adds, and the ones it ends.
LEMMA ClosedOperator ==
    ASSUME TypeOK, OperatorInv, CredentialInv, ClosedInv, OperatorSteps PROVE ClosedInv'
  <1>0. current' = current
    BY OperatorStep
  <1>1. PICK o \in Operators :
           \/ \E d \in Devices : BeginRevoke(o, d)
           \/ \E u \in Users : BeginDisable(o, u) \/ BeginDelete(o, u)
           \/ ListDevices(o) \/ RevokeRow(o) \/ RevokeTunnel(o) \/ FinishRevoking(o)
           \/ Disown(o) \/ DeleteUser(o)
    BY DEF OperatorSteps
  <1>2. ASSUME NEW t \in Tunnels PROVE ClosedStep(t)'
    <2>0. /\ ClosedStep(t)
          /\ tunnels[t].pc = "registered" => tunnels[t].device \in Devices
          /\ tunnels'[t].pc = tunnels[t].pc /\ tunnels'[t].device = tunnels[t].device
          /\ tunnels'[t].late = tunnels[t].late
          /\ tunnels'[t].told = "no" => tunnels[t].told = "no"
      BY ClosedIsStep, CloseStep DEF CredentialInv
    <2>1. CASE RevokeRow(o)
      <3>1. PICK d \in Devices : /\ rows' = [rows EXCEPT ![d].state = "revoked"]
                                 /\ ops' = [ops EXCEPT ![o].device = d, ![o].todo = @ \ {d}]
        BY <2>1 DEF RevokeRow, TypeOK, Operator
      <3>2. ops'[o].device = d /\ ops[o].device = None /\ \A p \in Operators : p # o => ops'[p] = ops[p]
        BY <2>1, <3>1 DEF RevokeRow, TypeOK, Operator
      <3>3. \A x \in Devices : x # d => rows'[x] = rows[x]
        BY <3>1 DEF TypeOK
      <3> QED BY <1>0, <2>0, <3>2, <3>3 DEF ClosedStep
    <2>2. CASE RevokeTunnel(o)
      <3>1. ops[o].device \in Devices /\ rows' = rows
        BY <2>2 DEF RevokeTunnel, TypeOK, Operator, dbVars
      <3>2. ops'[o].device = None /\ \A p \in Operators : p # o => ops'[p] = ops[p]
        BY <2>2 DEF RevokeTunnel, TypeOK, Operator
      <3>3. current[ops[o].device] = t => tunnels'[t].told # "no"
        BY <2>2, <3>1, CloseCommandStep DEF RevokeTunnel
      <3> QED BY <1>0, <2>0, <3>1, <3>2, <3>3 DEF ClosedStep
    <2>3. CASE ~ RevokeRow(o) /\ ~ RevokeTunnel(o)
      <3>1. \A d \in Devices : rows'[d].state = rows[d].state
        <4>1. CASE Disown(o)
          BY <4>1 DEF Disown, TypeOK, DeviceRow
        <4>2. CASE ~ Disown(o)
          BY <1>1, <2>3, <4>2 DEF BeginRevoke, BeginDisable, BeginDelete, ListDevices, FinishRevoking, DeleteUser, dbVars
        <4> QED BY <4>1, <4>2
      <3>2. \A p \in Operators : ops'[p].device = ops[p].device
        <4>1. \A p \in Operators : p # o => ops'[p] = ops[p]
          BY <1>1, <2>3 DEF BeginRevoke, BeginDisable, BeginDelete, ListDevices, FinishRevoking, Disown, DeleteUser, TypeOK
        <4>2. CASE ListDevices(o) \/ Disown(o)
          BY <4>1, <4>2 DEF ListDevices, Disown, TypeOK, Operator
        <4>3. CASE ~ ListDevices(o) /\ ~ Disown(o)
          <5>1. ops[o].device = None
            BY <1>1, <2>3, <4>3 DEF BeginRevoke, BeginDisable, BeginDelete, FinishRevoking, DeleteUser, OperatorInv
          <5>2. CASE FinishRevoking(o)
            BY <4>1, <5>1, <5>2 DEF FinishRevoking, IdleOperator, TypeOK, Operator
          <5>3. CASE DeleteUser(o)
            BY <4>1, <5>1, <5>3 DEF DeleteUser, IdleOperator, TypeOK
          <5>4. ASSUME NEW d \in Devices, BeginRevoke(o, d) PROVE ops'[o].device = None
            BY <5>4 DEF BeginRevoke, IdleOperator, TypeOK
          <5>5. ASSUME NEW u \in Users, BeginDisable(o, u) PROVE ops'[o].device = None
            BY <5>5 DEF BeginDisable, IdleOperator, TypeOK
          <5>6. ASSUME NEW u \in Users, BeginDelete(o, u) PROVE ops'[o].device = None
            BY <5>6 DEF BeginDelete, IdleOperator, TypeOK
          <5> QED BY <1>1, <2>3, <4>1, <4>3, <5>1, <5>2, <5>3, <5>4, <5>5, <5>6
        <4> QED BY <4>2, <4>3
      <3> QED BY <1>0, <2>0, <3>1, <3>2 DEF ClosedStep
    <2> QED BY <2>1, <2>2, <2>3
  <1> QED BY <1>2 DEF ClosedInv, CurrentInv, RevokedIsClosed, ClosedStep

LEMMA ClosedNext == EnrollInv /\ ClosedInv /\ [Next]_vars => ClosedInv'
  <1> SUFFICES ASSUME EnrollInv, ClosedInv, [Next]_vars PROVE ClosedInv'
    OBVIOUS
  <1>0. TypeOK /\ EnrollerInv /\ OperatorInv /\ CredentialInv
    BY DEF EnrollInv
  <1>1. CASE CodeSteps \/ UNCHANGED vars \/ \E u \in Users : Enable(u)
    <2>1. UNCHANGED <<rows, tunnels, current, ops>>
      BY <1>1 DEF CodeSteps, Expire, cancel_enrollment, CreateEnrollment, Enable, vars, dbVars
    <2> QED BY <1>0, <2>1, ClosedQuiet
  <1>2. CASE EnrollSteps
    <2>1. PICK e \in Enrollers :
             \/ \E c \in Codes : LookUpCode(e, c)
             \/ \E u \in Users : LookUpUser(e, u)
             \/ \E d \in Devices : IssueDevice(e, d)
             \/ IssueFails(e) \/ RedeemWon(e) \/ RedeemLost(e) \/ RevokeLoser(e)
      BY <1>2 DEF EnrollSteps
    <2>2. UNCHANGED <<tunnels, current, ops>>
      BY <2>1 DEF LookUpCode, LookUpUser, IssueDevice, IssueFails, RedeemWon, RedeemLost, RevokeLoser
    <2>3. \A d \in Devices : rows'[d].state = "revoked" => rows[d].state = "revoked" \/ granted[d] = None
      <3>1. CASE \E d \in Devices : IssueDevice(e, d)
        BY <1>0, <3>1, IssueStep
      <3>2. CASE RedeemWon(e)
        BY <3>2 DEF RedeemWon
      <3>3. CASE \/ \E c \in Codes : LookUpCode(e, c)
                 \/ \E u \in Users : LookUpUser(e, u)
                 \/ IssueFails(e) \/ RedeemLost(e) \/ RevokeLoser(e)
        BY <1>0, <3>3, QuietEnrollStep DEF EnrollerInv
      <3> QED BY <2>1, <3>1, <3>2, <3>3
    <2> QED BY <1>0, <2>2, <2>3, ClosedQuiet
  <1>3. CASE \E d \in Devices : DisconnectAny(d)
    <2>1. UNCHANGED <<rows, current, ops>>
      BY <1>3 DEF DisconnectAny, dbVars
    <2>2. \A t \in Tunnels : ClosedStep(t)'
      BY <1>0, <1>3, <2>1, CloseStep, ClosedIsStep DEF ClosedStep
    <2> QED BY <2>2 DEF ClosedInv, CurrentInv, RevokedIsClosed, ClosedStep
  <1>4. CASE Restart
    BY <1>0, <1>4, RestartStep DEF ClosedInv, CurrentInv, RevokedIsClosed
  <1> QED BY <1>0, <1>1, <1>2, <1>3, <1>4, ClosedTunnel, ClosedOperator DEF Next

LEMMA ClosedInit == Init => ClosedInv
  BY DEF Init, ClosedInv, CurrentInv, RevokedIsClosed, IdleTunnel

-----------------------------------------------------------------------------
(* The theorems.                                                           *)

\* "Burning the code last and checking the result" makes a code one-time (api/enroll.rs): however
\* many requests redeem it at once, and whatever is cancelled or expires between their statements,
\* one credential leaves at most.
THEOREM CodesAreOneTime == Spec => []CodeInv
  <1>1. EnrollInv => CodeInv
    BY DEF EnrollInv, CodeInv
  <1> QED BY <1>1, EnrollInvAlways, PTL

\* A request that loses the race for its code does not leave a usable row behind (api/enroll.rs).
THEOREM LosersAreRevoked == Spec => []LoserRevoked
  <1>1. EnrollInv => LoserRevoked
    BY DEF EnrollInv
  <1> QED BY <1>1, EnrollInvAlways, PTL

\* Disabling or deleting an account (api/users.rs) leaves it no live device but those enrolled while
\* that was going on, whatever else is enrolled, revoked or removed between its statements.
THEOREM RemovalRevokesDevices == Spec => []RemovedOwnerRevoked
  <1>1. RemovalInv => RemovedOwnerRevoked
    BY DEF RemovalInv
  <1> QED BY <1>1, EnrollInvAlways, RemovalInit, RemovalNext, PTL DEF Spec

\* Revoking a device (api/devices.rs) reaches every tunnel that was registered before its row was
\* marked, however reconnects interleave with the request.
THEOREM RevocationClosesTunnels == Spec => []RevokedIsClosed
  <1>1. ClosedInv => RevokedIsClosed
    BY DEF ClosedInv
  <1> QED BY <1>1, EnrollInvAlways, ClosedInit, ClosedNext, PTL DEF Spec
=============================================================================
