--------------------------- MODULE StartupProofs ---------------------------
(***************************************************************************)
(* Invariance proofs for Startup: for any number of processes, crashes and *)
(* commands, whatever start is cut wherever.                               *)
(***************************************************************************)
EXTENDS Startup, FiniteSetTheorems, TLAPS

USE StartupAssumption DEF StartupAssumption

-----------------------------------------------------------------------------
(* The inductive strengthening.                                            *)

\* serve() after its relay id is known, and within the writing of a certificate.
Identified == {"users", "create", "announce", "resume", "tls", "read-cert", "write-cert", "open-key", "write-key",
               "key-mode", "load", "bind"}
Writing == {"write-cert", "open-key", "write-key"}
ServeOnly == (Identified \ {"announce"}) \cup {"relay-id", "new-id", "serving", "stopping"}

\* Where each command can be.
PathInv ==
    \A p \in Processes :
        /\ proc[p].cmd = "none" <=> At(p, "down")
        /\ At(p, "down") => proc[p] = Down
        /\ proc[p].pc \in ServeOnly => proc[p].cmd = "serve"
        /\ At(p, "join") => proc[p].cmd = "link"
        /\ At(p, "password") => proc[p].cmd = "reset"
        /\ At(p, "announce") => proc[p].cmd \in {"serve", "reset"}
        /\ proc[p].pc \in {"dir", "dir-mode"} => proc[p].cmd # "reset"

\* No two relays between their first step and their listener.
OneStarting == \A p, q \in Processes : Starting(p) /\ Starting(q) => p = q

\* The id that was served is the stored one, and so is the one a starting relay is about to serve.
IdInv ==
    /\ \A i \in served.ids : i = disk.relayId /\ i # 0
    /\ \A p \in Processes :
          /\ At(p, "new-id") => disk.relayId = 0
          /\ proc[p].cmd = "serve" /\ proc[p].pc \in Identified => proc[p].id = disk.relayId /\ disk.relayId # 0

\* The certificate that was served is the stored one and has a key; a certificate is only written
\* while none was served, and what a starting relay is about to serve is the stored one.
CertInv ==
    /\ \A c \in served.certs : c = disk.cert /\ c # 0 /\ disk.key # 0
    /\ \A p \in Processes :
          /\ proc[p].pc \in Writing => served.certs = {}
          /\ proc[p].pc \in {"open-key", "write-key"} => proc[p].secret = disk.cert /\ disk.cert # 0
          /\ proc[p].pc \in {"key-mode", "load"} =>
                proc[p].secret \in {disk.cert, Torn} /\ disk.cert # 0 /\ disk.key # 0
          /\ At(p, "bind") /\ tls => proc[p].secret = disk.cert /\ disk.cert # 0 /\ disk.key # 0

\* Past ensure_admin_exists() there is an account, and its password was shown, is about to be, or was
\* lost to a crash.
AdminInv ==
    /\ \A p \in Processes :
          proc[p].pc \in (ServeOnly \cup {"announce"}) \ {"relay-id", "new-id", "users", "create"} => disk.admin # 0
    /\ disk.admin # 0 => \/ disk.admin \in shown \/ cut
                         \/ \E p \in Processes : At(p, "announce") /\ proc[p].secret = disk.admin

\* Past the directory it is narrow, or was warned about; before that a fresh directory holds no secret.
ModeInv ==
    /\ \A p \in Processes :
          /\ At(p, "dir-mode") => disk.dir # "none"
          /\ proc[p].cmd # "reset" /\ proc[p].pc \notin {"down", "dir", "dir-mode"} => disk.dir \in {"narrow", "stuck"}
    /\ served.ids = {} /\ disk.dir \notin {"narrow", "stuck"} =>
          disk.admin = 0 /\ ~ disk.upstream /\ disk.keyMode = "none"

StartInv == TypeOK /\ PathInv /\ OneStarting /\ IdInv /\ CertInv /\ AdminInv /\ ModeInv

-----------------------------------------------------------------------------
LEMMA InitStartInv == Init => StartInv
  <1> SUFFICES ASSUME Init PROVE StartInv
    OBVIOUS
  <1> USE DEF Init
  <1>1. TypeOK
    <2>1. /\ FreshDisk \in Disk
          /\ \A cert \in 0..1 : OldDisk(cert) \in Disk
          /\ Down \in Process
      BY DEF FreshDisk, OldDisk, Disk, Modes, Down, Process, Pcs
    <2>2. disk \in Disk /\ proc \in [Processes -> Process]
      BY <2>1
    <2>3. last \in [id : Nat, password : Nat, cert : Nat]
      BY <2>2 DEF Disk
    <2>4. /\ {} \in SUBSET Nat /\ {1} \in SUBSET Nat
          /\ \A cert \in 0..1 : {cert} \ {0} \subseteq Nat
      OBVIOUS
    <2>5. shown \subseteq Nat \cup {Torn} /\ served \in [ids : SUBSET Nat, certs : SUBSET (Nat \cup {Torn})]
      BY <2>4
    <2>6. crashes \in 0..MaxCrashes /\ commands \in 0..MaxCommands
      OBVIOUS
    <2> QED BY <2>2, <2>3, <2>5, <2>6 DEF TypeOK
  <1>2. PathInv /\ OneStarting
    BY DEF PathInv, OneStarting, Down, At, Starting, ServeOnly, Identified
  <1>3. IdInv /\ CertInv /\ AdminInv /\ ModeInv
    BY DEF IdInv, CertInv, AdminInv, ModeInv, Down, At, FreshDisk, OldDisk, Identified, Writing, ServeOnly
  <1> QED BY <1>1, <1>2, <1>3 DEF StartInv

LEMMA DiskClosed ==
    ASSUME NEW d \in Disk
    PROVE  /\ \A m \in Modes : /\ [d EXCEPT !.dir = m] \in Disk /\ [d EXCEPT !.db = m] \in Disk
                             /\ [d EXCEPT !.tlsDir = m] \in Disk /\ [d EXCEPT !.keyMode = m] \in Disk
                             /\ [d EXCEPT !.key = Torn, !.keyMode = m] \in Disk
           /\ [d EXCEPT !.schema = "current"] \in Disk
           /\ \A k \in Nat \cup {Torn} : [d EXCEPT !.key = k] \in Disk
           /\ {d.dir, d.db, d.tlsDir, d.keyMode} \subseteq Modes
  BY DEF Disk

\* restrict_to_owner() makes a mode narrow or warns of it, and leaves alone what is not there.
LEMMA Restricted ==
    ASSUME NEW m \in Modes, NEW mode \in restrict_to_owner(m)
    PROVE  mode \in Modes /\ (m # "none" => mode \in {"narrow", "stuck"}) /\ (m = "none" => mode = "none")
  BY DEF restrict_to_owner, tightened, Modes

\* A process that is over is Down and holds nothing.
LEMMA EndsTyped ==
    ASSUME TypeOK, NEW p \in Processes, Ends(p)
    PROVE  /\ proc' \in [Processes -> Process]
           /\ port' \in Processes \cup {Nobody}
           /\ \A k \in Processes : At(k, "down")' => port' # k
  <1>1. Down \in Process
    BY DEF Down, Process, Pcs
  <1> QED BY <1>1 DEF Ends, TypeOK, At

LEMMA FailTyped == ASSUME TypeOK, NEW p \in Processes, Fail(p) PROVE TypeOK'
  BY EndsTyped DEF Fail, TypeOK

LEMMA StepTyped ==
    ASSUME TypeOK, NEW p \in Processes, NEW from, NEW d \in Disk, NEW to, Step(p, from, d, to),
           to \in Pcs, from # "down", to # "down"
    PROVE  TypeOK'
  <1> DEFINE q == [proc[p] EXCEPT !.pc = to]
  <1>1. proc[p] \in Process
    BY DEF TypeOK
  <1>2. q \in Process /\ q.pc = to
    BY <1>1 DEF Process
  <1>3. proc' = [proc EXCEPT ![p] = q]
    BY DEF Step, Goto
  <1> HIDE DEF q
  <1> QED BY <1>2, <1>3 DEF Step, TypeOK, At

LEMMA TypeStep == StartInv /\ [Next]_vars => TypeOK'
  <1> SUFFICES ASSUME StartInv, [Next]_vars PROVE TypeOK'
    OBVIOUS
  <1>1. ASSUME NEW p \in Processes, NEW cmd \in {"serve", "link", "reset"}, Start(p, cmd) PROVE TypeOK'
    <2> DEFINE q == [Down EXCEPT !.cmd = cmd, !.pc = IF cmd = "reset" THEN "open" ELSE "dir"]
    <2>1. q \in Process /\ q.pc # "down"
      BY DEF Down, Process, Pcs
    <2> HIDE DEF q
    <2> QED BY <1>1, <2>1 DEF q, Start, StartInv, TypeOK, At
  <1>2. ASSUME NEW p \in Processes, CreateDirectory(p) PROVE TypeOK'
    <2>1. [disk EXCEPT !.dir = IF @ = "none" THEN "open" ELSE @] \in Disk
      BY DiskClosed DEF StartInv, TypeOK, Modes
    <2> QED BY <1>2, <2>1, StepTyped DEF CreateDirectory, StartInv, Pcs
  <1>3. ASSUME NEW p \in Processes, NarrowDirectory(p) PROVE TypeOK'
    <2>1. ASSUME NEW mode \in restrict_to_owner(disk.dir) PROVE [disk EXCEPT !.dir = mode] \in Disk
      BY <2>1, DiskClosed, Restricted DEF StartInv, TypeOK, Modes
    <2> QED BY <1>3, <2>1, StepTyped DEF NarrowDirectory, StartInv, Pcs
  <1>4. ASSUME NEW p \in Processes, OpenDatabase(p) PROVE TypeOK'
    <2>1. [disk EXCEPT !.db = IF @ = "none" THEN "open" ELSE @] \in Disk
      BY DiskClosed DEF StartInv, TypeOK, Modes
    <2> QED BY <1>4, <2>1, StepTyped, FailTyped DEF OpenDatabase, StartInv, Pcs
  <1>5. ASSUME NEW p \in Processes, NarrowDatabase(p) PROVE TypeOK'
    <2>1. ASSUME NEW mode \in restrict_to_owner(disk.db) PROVE [disk EXCEPT !.db = mode] \in Disk
      BY <2>1, DiskClosed, Restricted DEF StartInv, TypeOK, Modes
    <2> QED BY <1>5, <2>1, StepTyped DEF NarrowDatabase, StartInv, Pcs
  <1>6. ASSUME NEW p \in Processes, Migrate(p) PROVE TypeOK'
    <2>1. [disk EXCEPT !.schema = "current"] \in Disk
      BY DiskClosed DEF StartInv, TypeOK, Modes
    <2> QED BY <1>6, <2>1, StepTyped DEF Migrate, AfterOpen, TypeOK, StartInv, Pcs
  <1>7. ASSUME NEW p \in Processes, AddColumn(p) PROVE TypeOK'
    <2>1. [disk EXCEPT !.schema = "current"] \in Disk
      BY DiskClosed DEF StartInv, TypeOK, Modes
    <2> QED BY <1>7, <2>1, StepTyped, FailTyped DEF AddColumn, AfterOpen, StartInv, Pcs
  <1>8. ASSUME NEW p \in Processes, ReadRelayId(p) PROVE TypeOK'
    BY <1>8 DEF ReadRelayId, Goto, StartInv, TypeOK, Disk, Process, Pcs, At
  <1>9. ASSUME NEW p \in Processes, WriteRelayId(p) PROVE TypeOK'
    BY <1>9 DEF WriteRelayId, Goto, StartInv, TypeOK, Disk, Process, Pcs, At
  <1>10. ASSUME NEW p \in Processes, CountUsers(p) PROVE TypeOK'
    BY <1>10, StepTyped DEF CountUsers, StartInv, Pcs, TypeOK
  <1>11. ASSUME NEW p \in Processes, CreateUser(p) PROVE TypeOK'
    BY <1>11 DEF CreateUser, StorePassword, Goto, StartInv, TypeOK, Disk, Process, Pcs, At
  <1>12. ASSUME NEW p \in Processes, AnnouncePassword(p) PROVE TypeOK'
    <2>1. CASE proc[p].cmd = "serve"
      BY <1>12, <2>1 DEF AnnouncePassword, Goto, StartInv, TypeOK, Process, Pcs, At
    <2>2. CASE proc[p].cmd # "serve"
      BY <1>12, <2>2, EndsTyped DEF AnnouncePassword, StartInv, TypeOK, Process
    <2> QED BY <2>1, <2>2
  <1>13. ASSUME NEW p \in Processes, Resume(p) PROVE TypeOK'
    BY <1>13, StepTyped DEF Resume, StartInv, TypeOK, Pcs
  <1>14. ASSUME NEW p \in Processes, PrepareTlsDirectory(p) PROVE TypeOK'
    <2>1. ASSUME NEW mode \in restrict_to_owner(IF disk.tlsDir = "none" THEN "open" ELSE disk.tlsDir) PROVE [disk EXCEPT !.tlsDir = mode] \in Disk
      BY <2>1, DiskClosed, Restricted DEF StartInv, TypeOK, Modes
    <2> QED BY <1>14, <2>1, StepTyped DEF PrepareTlsDirectory, StartInv, Pcs
  <1>15. ASSUME NEW p \in Processes, ReadMaterial(p) PROVE TypeOK'
    <2> DEFINE to == IF material_there(disk) THEN "key-mode" ELSE "write-cert"
               q == [proc[p] EXCEPT !.secret = material(disk), !.pc = to]
    <2>1. proc[p] \in Process /\ material(disk) \in Nat \cup {Torn} /\ to \in Pcs /\ to # "down"
      BY DEF StartInv, TypeOK, Disk, material, Pcs
    <2> HIDE DEF to
    <2>2. q \in Process /\ q.pc = to
      BY <2>1 DEF Process
    <2>3. proc' = [proc EXCEPT ![p] = q]
      BY <1>15 DEF ReadMaterial, to
    <2> HIDE DEF q
    <2>4. \A k \in Processes : At(k, "down")' => At(k, "down")
      BY <2>1, <2>2, <2>3 DEF At, StartInv, TypeOK
    <2>5. proc' \in [Processes -> Process]
      BY <2>2, <2>3 DEF StartInv, TypeOK
    <2> QED BY <1>15, <2>4, <2>5 DEF ReadMaterial, StartInv, TypeOK
  <1>16. ASSUME NEW p \in Processes, WriteCertificate(p) PROVE TypeOK'
    BY <1>16 DEF WriteCertificate, Goto, StartInv, TypeOK, Disk, Process, Pcs, At
  <1>17. ASSUME NEW p \in Processes, OpenKey(p) PROVE TypeOK'
    <2>1. [disk EXCEPT !.key = Torn, !.keyMode = IF @ = "none" THEN "open" ELSE @] \in Disk
      BY DiskClosed DEF StartInv, TypeOK, Modes
    <2> QED BY <1>17, <2>1, StepTyped DEF OpenKey, StartInv, Pcs
  <1>18. ASSUME NEW p \in Processes, WriteKey(p) PROVE TypeOK'
    <2>1. proc[p].secret \in Nat \cup {Torn}
      BY DEF StartInv, TypeOK, Process
    <2>2. [disk EXCEPT !.key = proc[p].secret] \in Disk
      BY <2>1, DiskClosed DEF StartInv, TypeOK
    <2> QED BY <1>18, <2>2, StepTyped DEF WriteKey, StartInv, Pcs
  <1>19. ASSUME NEW p \in Processes, NarrowKey(p) PROVE TypeOK'
    <2>1. ASSUME NEW mode \in restrict_to_owner(disk.keyMode) PROVE [disk EXCEPT !.keyMode = mode] \in Disk
      BY <2>1, DiskClosed, Restricted DEF StartInv, TypeOK, Modes
    <2> QED BY <1>19, <2>1, StepTyped DEF NarrowKey, StartInv, Pcs
  <1>20. ASSUME NEW p \in Processes, LoadMaterial(p) PROVE TypeOK'
    BY <1>20, StepTyped, FailTyped DEF LoadMaterial, StartInv, Pcs, TypeOK
  <1>21. ASSUME NEW p \in Processes, Bind(p) PROVE TypeOK'
    <2>1. CASE port = Nobody
      BY <1>21, <2>1 DEF Bind, Goto, StartInv, TypeOK, Process, Pcs, At
    <2>2. CASE port # Nobody
      BY <1>21, <2>2, FailTyped DEF Bind, StartInv
    <2> QED BY <2>1, <2>2
  <1>22. ASSUME NEW p \in Processes, StopLink(p) PROVE TypeOK'
    BY <1>22, FailTyped DEF StopLink, StartInv
  <1>23. ASSUME NEW p \in Processes, Join(p) PROVE TypeOK'
    <2>1. disk' \in Disk
      <3>1. [disk EXCEPT !.upstream = TRUE] \in Disk
        BY DEF StartInv, TypeOK, Disk
      <3> QED BY <1>23, <3>1 DEF Join, StartInv, TypeOK
    <2> QED BY <1>23, <2>1, EndsTyped DEF Join, StartInv, TypeOK
  <1>24. ASSUME NEW p \in Processes, ResetPassword(p) PROVE TypeOK'
    <2>1. CASE disk.admin # 0
      BY <1>24, <2>1 DEF ResetPassword, StorePassword, StartInv, TypeOK, Process, Disk, Pcs, At
    <2>2. CASE disk.admin = 0
      BY <1>24, <2>2, FailTyped DEF ResetPassword, StartInv
    <2> QED BY <2>1, <2>2
  <1>25. ASSUME NEW p \in Processes, StopListening(p) PROVE TypeOK'
    BY <1>25 DEF StopListening, Serving, Goto, StartInv, TypeOK, Disk, Process, Pcs, At
  <1>26. ASSUME NEW p \in Processes, Crash(p) PROVE TypeOK'
    BY <1>26, EndsTyped DEF Crash, StartInv, TypeOK
  <1>27. CASE UNCHANGED vars
    BY <1>27 DEF vars, StartInv, TypeOK, At
  <1> QED BY <1>1, <1>2, <1>3, <1>4, <1>5, <1>6, <1>7, <1>8, <1>9, <1>10, <1>11, <1>12, <1>13, <1>14, <1>15,
      <1>16, <1>17, <1>18, <1>19, <1>20, <1>21, <1>22, <1>23, <1>24, <1>25, <1>26, <1>27 DEF Next,
      Proceed

\* A process that ends, other than between storing a password and printing it, disturbs nothing.
LEMMA EndsKeeps ==
    ASSUME StartInv, NEW p \in Processes, Ends(p), ~ At(p, "announce"),
           UNCHANGED <<disk, tls, served, shown, cut>>
    PROVE  /\ PathInv' /\ OneStarting' /\ IdInv' /\ CertInv' /\ AdminInv' /\ ModeInv'
  <1>1. /\ proc'[p] = Down
        /\ \A k \in Processes : k # p => proc'[k] = proc[k]
    BY DEF Ends, StartInv, TypeOK
  <1>2. PathInv' /\ OneStarting'
    BY <1>1 DEF StartInv, PathInv, OneStarting, Starting, Down, At, ServeOnly, Identified
  <1>3. IdInv'
    BY <1>1 DEF StartInv, IdInv, Down, At, Identified
  <1>4. CertInv'
    BY <1>1 DEF StartInv, CertInv, Down, At, Writing
  <1>5. AdminInv'
    BY <1>1 DEF StartInv, AdminInv, Down, At, ServeOnly, Identified
  <1>6. ModeInv'
    BY <1>1 DEF StartInv, ModeInv, Down, At
  <1> QED BY <1>2, <1>3, <1>4, <1>5, <1>6

LEMMA FailKeeps ==
    ASSUME StartInv, NEW p \in Processes, Fail(p), ~ At(p, "announce")
    PROVE  /\ PathInv' /\ OneStarting' /\ IdInv' /\ CertInv' /\ AdminInv' /\ ModeInv'
  BY EndsKeeps DEF Fail

\* migrate() goes on with what it found, to where the command belongs, or fails.
Migrated(p, to) ==
    /\ proc[p].pc \in {"migrate", "alter"} /\ proc[p].cmd # "none"
    /\ proc' = [proc EXCEPT ![p].pc = to]
    /\ to \in {"alter", "relay-id", "join", "password"}
    /\ to = "relay-id" => proc[p].cmd = "serve"
    /\ to = "join" => proc[p].cmd = "link"
    /\ to = "password" => proc[p].cmd = "reset"
    /\ disk'.dir = disk.dir /\ disk'.db = disk.db /\ disk'.tlsDir = disk.tlsDir /\ disk'.keyMode = disk.keyMode
    /\ disk'.relayId = disk.relayId /\ disk'.admin = disk.admin /\ disk'.cert = disk.cert /\ disk'.key = disk.key
    /\ disk'.upstream = disk.upstream
    /\ UNCHANGED <<tls, port, last, shown, served, cut, crashes, commands>>

LEMMA MigrationStep ==
    ASSUME StartInv, NEW p \in Processes, Migrate(p) \/ AddColumn(p)
    PROVE  (At(p, "alter") /\ Fail(p)) \/ \E to : Migrated(p, to)
  <1> DEFINE after == AfterOpen(p)
  <1>1. proc[p].pc \in {"migrate", "alter"} /\ proc[p].cmd \in {"serve", "link", "reset"}
    BY DEF StartInv, TypeOK, Process, PathInv, Migrate, AddColumn, Step, At
  <1>2. /\ after \in {"relay-id", "join", "password"}
        /\ after = "relay-id" => proc[p].cmd = "serve"
        /\ after = "join" => proc[p].cmd = "link"
        /\ after = "password" => proc[p].cmd = "reset"
    BY <1>1 DEF AfterOpen
  <1> DEFINE d == [disk EXCEPT !.schema = "current"]
  <1>3. /\ d.dir = disk.dir /\ d.db = disk.db /\ d.tlsDir = disk.tlsDir /\ d.keyMode = disk.keyMode
        /\ d.relayId = disk.relayId /\ d.admin = disk.admin /\ d.cert = disk.cert /\ d.key = disk.key /\ d.upstream = disk.upstream
    BY DEF StartInv, TypeOK, Disk
  <1>4. \/ At(p, "alter") /\ Fail(p)
        \/ Step(p, "migrate", disk, "alter")
        \/ Step(p, "migrate", d, after)
        \/ Step(p, "alter", d, after)
    BY DEF Migrate, AddColumn
  <1> HIDE DEF after, d
  <1>5. CASE Step(p, "migrate", disk, "alter")
    <2>1. Migrated(p, "alter")
      BY <1>1, <1>5 DEF Migrated, Step, Goto
    <2> QED BY <2>1
  <1>6. CASE Step(p, "migrate", d, after)
    <2>1. Migrated(p, after)
      BY <1>1, <1>2, <1>3, <1>6 DEF Migrated, Step, Goto
    <2> QED BY <2>1
  <1>7. CASE Step(p, "alter", d, after)
    <2>1. Migrated(p, after)
      BY <1>1, <1>2, <1>3, <1>7 DEF Migrated, Step, Goto
    <2> QED BY <2>1
  <1> QED BY <1>4, <1>5, <1>6, <1>7

LEMMA PathStep == StartInv /\ TypeOK' /\ [Next]_vars => PathInv'
  <1> SUFFICES ASSUME StartInv, TypeOK', [Next]_vars PROVE PathInv'
    OBVIOUS
  <1> USE DEF StartInv, TypeOK, Disk, Process, PathInv, At, Goto, Step, Down, ServeOnly, Identified
  <1>1. ASSUME NEW p \in Processes, NEW cmd \in {"serve", "link", "reset"}, Start(p, cmd) PROVE PathInv'
    BY <1>1 DEF Start
  <1>2. ASSUME NEW p \in Processes, CreateDirectory(p) PROVE PathInv'
    BY <1>2 DEF CreateDirectory
  <1>3. ASSUME NEW p \in Processes, NarrowDirectory(p) PROVE PathInv'
    BY <1>3 DEF NarrowDirectory
  <1>4. ASSUME NEW p \in Processes, OpenDatabase(p) PROVE PathInv'
    <2>1. CASE disk.dir # "none"
      <3>1. Step(p, "open", [disk EXCEPT !.db = IF @ = "none" THEN "open" ELSE @], "db-mode")
        BY <1>4, <2>1 DEF OpenDatabase
      <3> QED BY <3>1, <2>1
    <2>2. CASE disk.dir = "none"
      BY <1>4, <2>2, FailKeeps DEF OpenDatabase
    <2> QED BY <2>1, <2>2
  <1>5. ASSUME NEW p \in Processes, NarrowDatabase(p) PROVE PathInv'
    BY <1>5 DEF NarrowDatabase
  <1>6. ASSUME NEW p \in Processes, Migrate(p) \/ AddColumn(p) PROVE PathInv'
    <2>1. ASSUME At(p, "alter"), Fail(p) PROVE PathInv'
      BY <2>1, FailKeeps
    <2>2. ASSUME NEW to, Migrated(p, to) PROVE PathInv'
      <3> SUFFICES ASSUME NEW k \in Processes PROVE PathInv!(k)'
        BY DEF PathInv
      <3>1. CASE k = p
        BY <2>2, <3>1 DEF Migrated
      <3>2. CASE k # p
        BY <2>2, <3>2 DEF Migrated
      <3> QED BY <3>1, <3>2
    <2> QED BY <1>6, <2>1, <2>2, MigrationStep
  <1>7. ASSUME NEW p \in Processes, ReadRelayId(p) PROVE PathInv'
    BY <1>7 DEF ReadRelayId
  <1>8. ASSUME NEW p \in Processes, WriteRelayId(p) PROVE PathInv'
    <2>1. /\ proc'[p].cmd = proc[p].cmd /\ proc'[p].pc = "users" /\ proc[p].pc = "new-id"
          /\ \A k \in Processes : k # p => proc'[k] = proc[k]
      BY <1>8 DEF WriteRelayId
    <2> QED BY <2>1
  <1>9. ASSUME NEW p \in Processes, CountUsers(p) PROVE PathInv'
    BY <1>9 DEF CountUsers
  <1>10. ASSUME NEW p \in Processes, CreateUser(p) PROVE PathInv'
    BY <1>10 DEF CreateUser, StorePassword
  <1>11. ASSUME NEW p \in Processes, AnnouncePassword(p) PROVE PathInv'
    <2>1. CASE proc[p].cmd = "serve"
      BY <1>11, <2>1 DEF AnnouncePassword
    <2>2. CASE proc[p].cmd # "serve"
      <3>1. proc'[p] = Down /\ \A k \in Processes : k # p => proc'[k] = proc[k]
        BY <1>11, <2>2 DEF AnnouncePassword, Ends
      <3> QED BY <1>11, <3>1 DEF AnnouncePassword
    <2> QED BY <2>1, <2>2
  <1>12. ASSUME NEW p \in Processes, Resume(p) PROVE PathInv'
    BY <1>12 DEF Resume
  <1>13. ASSUME NEW p \in Processes, PrepareTlsDirectory(p) PROVE PathInv'
    BY <1>13 DEF PrepareTlsDirectory
  <1>14. ASSUME NEW p \in Processes, ReadMaterial(p) PROVE PathInv'
    <2> DEFINE to == IF material_there(disk) THEN "key-mode" ELSE "write-cert"
    <2>1. /\ proc'[p].cmd = proc[p].cmd /\ proc'[p].pc = to /\ to \in {"key-mode", "write-cert"}
          /\ proc[p].pc = "read-cert" /\ \A k \in Processes : k # p => proc'[k] = proc[k]
      BY <1>14 DEF ReadMaterial
    <2> HIDE DEF to
    <2> QED BY <2>1
  <1>15. ASSUME NEW p \in Processes, WriteCertificate(p) PROVE PathInv'
    BY <1>15 DEF WriteCertificate
  <1>16. ASSUME NEW p \in Processes, OpenKey(p) PROVE PathInv'
    BY <1>16 DEF OpenKey
  <1>17. ASSUME NEW p \in Processes, WriteKey(p) PROVE PathInv'
    BY <1>17 DEF WriteKey
  <1>18. ASSUME NEW p \in Processes, NarrowKey(p) PROVE PathInv'
    BY <1>18 DEF NarrowKey
  <1>19. ASSUME NEW p \in Processes, LoadMaterial(p) PROVE PathInv'
    <2>1. CASE proc[p].secret # Torn
      <3>1. Step(p, "load", disk, "bind")
        BY <1>19, <2>1 DEF LoadMaterial
      <3> QED BY <3>1, <2>1
    <2>2. CASE proc[p].secret = Torn
      BY <1>19, <2>2, FailKeeps DEF LoadMaterial
    <2> QED BY <2>1, <2>2
  <1>20. ASSUME NEW p \in Processes, Bind(p) PROVE PathInv'
    <2>1. CASE port = Nobody
      BY <1>20, <2>1 DEF Bind
    <2>2. CASE port # Nobody
      BY <1>20, <2>2, FailKeeps DEF Bind
    <2> QED BY <2>1, <2>2
  <1>21. ASSUME NEW p \in Processes, StopLink(p) PROVE PathInv'
    BY <1>21, FailKeeps DEF StopLink
  <1>22. ASSUME NEW p \in Processes, Join(p) PROVE PathInv'
    BY <1>22 DEF Join, Ends
  <1>23. ASSUME NEW p \in Processes, ResetPassword(p) PROVE PathInv'
    <2>1. CASE disk.admin # 0
      <3>1. StorePassword(p, "password")
        BY <1>23, <2>1 DEF ResetPassword
      <3> QED BY <3>1, <2>1 DEF StorePassword
    <2>2. CASE disk.admin = 0
      BY <1>23, <2>2, FailKeeps DEF ResetPassword
    <2> QED BY <2>1, <2>2
  <1>24. ASSUME NEW p \in Processes, StopListening(p) PROVE PathInv'
    BY <1>24 DEF StopListening, Serving
  <1>25. ASSUME NEW p \in Processes, Crash(p) PROVE PathInv'
    <2>1. CASE At(p, "announce")
      BY <1>25, <2>1 DEF Crash, Ends
    <2>2. CASE ~ At(p, "announce")
      BY <1>25, <2>2 DEF Crash, Ends
    <2> QED BY <2>1, <2>2
  <1>26. CASE UNCHANGED vars
    BY <1>26 DEF vars
  <1> HIDE DEF StartInv, TypeOK, Disk, Process, PathInv, At, Goto, Step, Down, ServeOnly, Identified
  <1> QED BY <1>1, <1>2, <1>3, <1>4, <1>5, <1>6, <1>7, <1>8, <1>9, <1>10, <1>11, <1>12, <1>13, <1>14, <1>15,
      <1>16, <1>17, <1>18, <1>19, <1>20, <1>21, <1>22, <1>23, <1>24, <1>25, <1>26 DEF Next, Proceed

LEMMA StartingStep == StartInv /\ TypeOK' /\ [Next]_vars => OneStarting'
  <1> SUFFICES ASSUME StartInv, TypeOK', [Next]_vars PROVE OneStarting'
    OBVIOUS
  <1> USE DEF StartInv, TypeOK, Disk, Process, PathInv, OneStarting, At, Goto, Step, Down, Starting
  <1>1. ASSUME NEW p \in Processes, NEW cmd \in {"serve", "link", "reset"}, Start(p, cmd) PROVE OneStarting'
    BY <1>1 DEF Start
  <1>2. ASSUME NEW p \in Processes, CreateDirectory(p) PROVE OneStarting'
    BY <1>2 DEF CreateDirectory
  <1>3. ASSUME NEW p \in Processes, NarrowDirectory(p) PROVE OneStarting'
    BY <1>3 DEF NarrowDirectory
  <1>4. ASSUME NEW p \in Processes, OpenDatabase(p) PROVE OneStarting'
    <2>1. CASE disk.dir # "none"
      <3>1. Step(p, "open", [disk EXCEPT !.db = IF @ = "none" THEN "open" ELSE @], "db-mode")
        BY <1>4, <2>1 DEF OpenDatabase
      <3> QED BY <3>1, <2>1
    <2>2. CASE disk.dir = "none"
      BY <1>4, <2>2, FailKeeps DEF OpenDatabase
    <2> QED BY <2>1, <2>2
  <1>5. ASSUME NEW p \in Processes, NarrowDatabase(p) PROVE OneStarting'
    BY <1>5 DEF NarrowDatabase
  <1>6. ASSUME NEW p \in Processes, Migrate(p) \/ AddColumn(p) PROVE OneStarting'
    <2>1. ASSUME At(p, "alter"), Fail(p) PROVE OneStarting'
      BY <2>1, FailKeeps
    <2>2. ASSUME NEW to, Migrated(p, to) PROVE OneStarting'
      BY <2>2 DEF Migrated
    <2> QED BY <1>6, <2>1, <2>2, MigrationStep
  <1>7. ASSUME NEW p \in Processes, ReadRelayId(p) PROVE OneStarting'
    BY <1>7 DEF ReadRelayId
  <1>8. ASSUME NEW p \in Processes, WriteRelayId(p) PROVE OneStarting'
    BY <1>8 DEF WriteRelayId
  <1>9. ASSUME NEW p \in Processes, CountUsers(p) PROVE OneStarting'
    BY <1>9 DEF CountUsers
  <1>10. ASSUME NEW p \in Processes, CreateUser(p) PROVE OneStarting'
    BY <1>10 DEF CreateUser, StorePassword
  <1>11. ASSUME NEW p \in Processes, AnnouncePassword(p) PROVE OneStarting'
    <2>1. CASE proc[p].cmd = "serve"
      BY <1>11, <2>1 DEF AnnouncePassword
    <2>2. CASE proc[p].cmd # "serve"
      <3>1. proc'[p] = Down /\ \A k \in Processes : k # p => proc'[k] = proc[k]
        BY <1>11, <2>2 DEF AnnouncePassword, Ends
      <3> QED BY <1>11, <3>1 DEF AnnouncePassword
    <2> QED BY <2>1, <2>2
  <1>12. ASSUME NEW p \in Processes, Resume(p) PROVE OneStarting'
    BY <1>12 DEF Resume
  <1>13. ASSUME NEW p \in Processes, PrepareTlsDirectory(p) PROVE OneStarting'
    BY <1>13 DEF PrepareTlsDirectory
  <1>14. ASSUME NEW p \in Processes, ReadMaterial(p) PROVE OneStarting'
    BY <1>14 DEF ReadMaterial, material
  <1>15. ASSUME NEW p \in Processes, WriteCertificate(p) PROVE OneStarting'
    BY <1>15 DEF WriteCertificate
  <1>16. ASSUME NEW p \in Processes, OpenKey(p) PROVE OneStarting'
    BY <1>16 DEF OpenKey
  <1>17. ASSUME NEW p \in Processes, WriteKey(p) PROVE OneStarting'
    BY <1>17 DEF WriteKey
  <1>18. ASSUME NEW p \in Processes, NarrowKey(p) PROVE OneStarting'
    BY <1>18 DEF NarrowKey
  <1>19. ASSUME NEW p \in Processes, LoadMaterial(p) PROVE OneStarting'
    <2>1. CASE proc[p].secret # Torn
      <3>1. Step(p, "load", disk, "bind")
        BY <1>19, <2>1 DEF LoadMaterial
      <3> QED BY <3>1, <2>1
    <2>2. CASE proc[p].secret = Torn
      BY <1>19, <2>2, FailKeeps DEF LoadMaterial
    <2> QED BY <2>1, <2>2
  <1>20. ASSUME NEW p \in Processes, Bind(p) PROVE OneStarting'
    <2>1. CASE port = Nobody
      BY <1>20, <2>1 DEF Bind
    <2>2. CASE port # Nobody
      BY <1>20, <2>2, FailKeeps DEF Bind
    <2> QED BY <2>1, <2>2
  <1>21. ASSUME NEW p \in Processes, StopLink(p) PROVE OneStarting'
    BY <1>21, FailKeeps DEF StopLink
  <1>22. ASSUME NEW p \in Processes, Join(p) PROVE OneStarting'
    BY <1>22 DEF Join, Ends
  <1>23. ASSUME NEW p \in Processes, ResetPassword(p) PROVE OneStarting'
    <2>1. CASE disk.admin # 0
      <3>1. StorePassword(p, "password")
        BY <1>23, <2>1 DEF ResetPassword
      <3> QED BY <3>1, <2>1 DEF StorePassword
    <2>2. CASE disk.admin = 0
      BY <1>23, <2>2, FailKeeps DEF ResetPassword
    <2> QED BY <2>1, <2>2
  <1>24. ASSUME NEW p \in Processes, StopListening(p) PROVE OneStarting'
    BY <1>24 DEF StopListening, Serving
  <1>25. ASSUME NEW p \in Processes, Crash(p) PROVE OneStarting'
    <2>1. CASE At(p, "announce")
      BY <1>25, <2>1 DEF Crash, Ends
    <2>2. CASE ~ At(p, "announce")
      BY <1>25, <2>2 DEF Crash, Ends
    <2> QED BY <2>1, <2>2
  <1>26. CASE UNCHANGED vars
    BY <1>26 DEF vars
  <1> HIDE DEF StartInv, TypeOK, Disk, Process, PathInv, OneStarting, At, Goto, Step, Down, Starting
  <1> QED BY <1>1, <1>2, <1>3, <1>4, <1>5, <1>6, <1>7, <1>8, <1>9, <1>10, <1>11, <1>12, <1>13, <1>14, <1>15,
      <1>16, <1>17, <1>18, <1>19, <1>20, <1>21, <1>22, <1>23, <1>24, <1>25, <1>26 DEF Next, Proceed

LEMMA IdStep == StartInv /\ TypeOK' /\ [Next]_vars => IdInv'
  <1> SUFFICES ASSUME StartInv, TypeOK', [Next]_vars PROVE IdInv'
    OBVIOUS
  <1> USE DEF StartInv, TypeOK, Disk, Process, PathInv, OneStarting, At, Goto, Step, Down, Starting,
      ServeOnly, Identified, IdInv
  <1>1. ASSUME NEW p \in Processes, NEW cmd \in {"serve", "link", "reset"}, Start(p, cmd) PROVE IdInv'
    BY <1>1 DEF Start
  <1>2. ASSUME NEW p \in Processes, CreateDirectory(p) PROVE IdInv'
    BY <1>2 DEF CreateDirectory
  <1>3. ASSUME NEW p \in Processes, NarrowDirectory(p) PROVE IdInv'
    BY <1>3 DEF NarrowDirectory
  <1>4. ASSUME NEW p \in Processes, OpenDatabase(p) PROVE IdInv'
    <2>1. CASE disk.dir # "none"
      <3>1. Step(p, "open", [disk EXCEPT !.db = IF @ = "none" THEN "open" ELSE @], "db-mode")
        BY <1>4, <2>1 DEF OpenDatabase
      <3> QED BY <3>1, <2>1
    <2>2. CASE disk.dir = "none"
      BY <1>4, <2>2, FailKeeps DEF OpenDatabase
    <2> QED BY <2>1, <2>2
  <1>5. ASSUME NEW p \in Processes, NarrowDatabase(p) PROVE IdInv'
    BY <1>5 DEF NarrowDatabase
  <1>6. ASSUME NEW p \in Processes, Migrate(p) \/ AddColumn(p) PROVE IdInv'
    <2>1. ASSUME At(p, "alter"), Fail(p) PROVE IdInv'
      BY <2>1, FailKeeps
    <2>2. ASSUME NEW to, Migrated(p, to) PROVE IdInv'
      BY <2>2 DEF Migrated
    <2> QED BY <1>6, <2>1, <2>2, MigrationStep
  <1>7. ASSUME NEW p \in Processes, ReadRelayId(p) PROVE IdInv'
    BY <1>7 DEF ReadRelayId
  <1>8. ASSUME NEW p \in Processes, WriteRelayId(p) PROVE IdInv'
    BY <1>8 DEF WriteRelayId
  <1>9. ASSUME NEW p \in Processes, CountUsers(p) PROVE IdInv'
    BY <1>9 DEF CountUsers
  <1>10. ASSUME NEW p \in Processes, CreateUser(p) PROVE IdInv'
    BY <1>10 DEF CreateUser, StorePassword
  <1>11. ASSUME NEW p \in Processes, AnnouncePassword(p) PROVE IdInv'
    <2>1. CASE proc[p].cmd = "serve"
      BY <1>11, <2>1 DEF AnnouncePassword
    <2>2. CASE proc[p].cmd # "serve"
      <3>1. proc'[p] = Down /\ \A k \in Processes : k # p => proc'[k] = proc[k]
        BY <1>11, <2>2 DEF AnnouncePassword, Ends
      <3> QED BY <1>11, <3>1 DEF AnnouncePassword
    <2> QED BY <2>1, <2>2
  <1>12. ASSUME NEW p \in Processes, Resume(p) PROVE IdInv'
    BY <1>12 DEF Resume
  <1>13. ASSUME NEW p \in Processes, PrepareTlsDirectory(p) PROVE IdInv'
    BY <1>13 DEF PrepareTlsDirectory
  <1>14. ASSUME NEW p \in Processes, ReadMaterial(p) PROVE IdInv'
    BY <1>14 DEF ReadMaterial, material
  <1>15. ASSUME NEW p \in Processes, WriteCertificate(p) PROVE IdInv'
    BY <1>15 DEF WriteCertificate
  <1>16. ASSUME NEW p \in Processes, OpenKey(p) PROVE IdInv'
    BY <1>16 DEF OpenKey
  <1>17. ASSUME NEW p \in Processes, WriteKey(p) PROVE IdInv'
    BY <1>17 DEF WriteKey
  <1>18. ASSUME NEW p \in Processes, NarrowKey(p) PROVE IdInv'
    BY <1>18 DEF NarrowKey
  <1>19. ASSUME NEW p \in Processes, LoadMaterial(p) PROVE IdInv'
    <2>1. CASE proc[p].secret # Torn
      <3>1. Step(p, "load", disk, "bind")
        BY <1>19, <2>1 DEF LoadMaterial
      <3> QED BY <3>1, <2>1
    <2>2. CASE proc[p].secret = Torn
      BY <1>19, <2>2, FailKeeps DEF LoadMaterial
    <2> QED BY <2>1, <2>2
  <1>20. ASSUME NEW p \in Processes, Bind(p) PROVE IdInv'
    <2>1. CASE port = Nobody
      BY <1>20, <2>1 DEF Bind
    <2>2. CASE port # Nobody
      BY <1>20, <2>2, FailKeeps DEF Bind
    <2> QED BY <2>1, <2>2
  <1>21. ASSUME NEW p \in Processes, StopLink(p) PROVE IdInv'
    BY <1>21, FailKeeps DEF StopLink
  <1>22. ASSUME NEW p \in Processes, Join(p) PROVE IdInv'
    BY <1>22 DEF Join, Ends
  <1>23. ASSUME NEW p \in Processes, ResetPassword(p) PROVE IdInv'
    <2>1. CASE disk.admin # 0
      <3>1. StorePassword(p, "password")
        BY <1>23, <2>1 DEF ResetPassword
      <3> QED BY <3>1, <2>1 DEF StorePassword
    <2>2. CASE disk.admin = 0
      BY <1>23, <2>2, FailKeeps DEF ResetPassword
    <2> QED BY <2>1, <2>2
  <1>24. ASSUME NEW p \in Processes, StopListening(p) PROVE IdInv'
    BY <1>24 DEF StopListening, Serving
  <1>25. ASSUME NEW p \in Processes, Crash(p) PROVE IdInv'
    <2>1. CASE At(p, "announce")
      BY <1>25, <2>1 DEF Crash, Ends
    <2>2. CASE ~ At(p, "announce")
      BY <1>25, <2>2 DEF Crash, Ends
    <2> QED BY <2>1, <2>2
  <1>26. CASE UNCHANGED vars
    BY <1>26 DEF vars
  <1> HIDE DEF StartInv, TypeOK, Disk, Process, PathInv, OneStarting, At, Goto, Step, Down, Starting,
      ServeOnly, Identified, IdInv
  <1> QED BY <1>1, <1>2, <1>3, <1>4, <1>5, <1>6, <1>7, <1>8, <1>9, <1>10, <1>11, <1>12, <1>13, <1>14, <1>15,
      <1>16, <1>17, <1>18, <1>19, <1>20, <1>21, <1>22, <1>23, <1>24, <1>25, <1>26 DEF Next, Proceed

LEMMA CertStep == StartInv /\ TypeOK' /\ [Next]_vars => CertInv'
  <1> SUFFICES ASSUME StartInv, TypeOK', [Next]_vars PROVE CertInv'
    OBVIOUS
  <1> USE DEF StartInv, TypeOK, Disk, Process, PathInv, OneStarting, At, Goto, Step, Down, Starting,
      ServeOnly, Identified, CertInv, Writing
  <1>1. ASSUME NEW p \in Processes, NEW cmd \in {"serve", "link", "reset"}, Start(p, cmd) PROVE CertInv'
    BY <1>1 DEF Start
  <1>2. ASSUME NEW p \in Processes, CreateDirectory(p) PROVE CertInv'
    BY <1>2 DEF CreateDirectory
  <1>3. ASSUME NEW p \in Processes, NarrowDirectory(p) PROVE CertInv'
    BY <1>3 DEF NarrowDirectory
  <1>4. ASSUME NEW p \in Processes, OpenDatabase(p) PROVE CertInv'
    <2>1. CASE disk.dir # "none"
      <3>1. Step(p, "open", [disk EXCEPT !.db = IF @ = "none" THEN "open" ELSE @], "db-mode")
        BY <1>4, <2>1 DEF OpenDatabase
      <3> QED BY <3>1, <2>1
    <2>2. CASE disk.dir = "none"
      BY <1>4, <2>2, FailKeeps DEF OpenDatabase
    <2> QED BY <2>1, <2>2
  <1>5. ASSUME NEW p \in Processes, NarrowDatabase(p) PROVE CertInv'
    BY <1>5 DEF NarrowDatabase
  <1>6. ASSUME NEW p \in Processes, Migrate(p) \/ AddColumn(p) PROVE CertInv'
    <2>1. ASSUME At(p, "alter"), Fail(p) PROVE CertInv'
      BY <2>1, FailKeeps
    <2>2. ASSUME NEW to, Migrated(p, to) PROVE CertInv'
      BY <2>2 DEF Migrated
    <2> QED BY <1>6, <2>1, <2>2, MigrationStep
  <1>7. ASSUME NEW p \in Processes, ReadRelayId(p) PROVE CertInv'
    BY <1>7 DEF ReadRelayId
  <1>8. ASSUME NEW p \in Processes, WriteRelayId(p) PROVE CertInv'
    BY <1>8 DEF WriteRelayId
  <1>9. ASSUME NEW p \in Processes, CountUsers(p) PROVE CertInv'
    BY <1>9 DEF CountUsers
  <1>10. ASSUME NEW p \in Processes, CreateUser(p) PROVE CertInv'
    BY <1>10 DEF CreateUser, StorePassword
  <1>11. ASSUME NEW p \in Processes, AnnouncePassword(p) PROVE CertInv'
    <2>1. CASE proc[p].cmd = "serve"
      BY <1>11, <2>1 DEF AnnouncePassword
    <2>2. CASE proc[p].cmd # "serve"
      <3>1. proc'[p] = Down /\ \A k \in Processes : k # p => proc'[k] = proc[k]
        BY <1>11, <2>2 DEF AnnouncePassword, Ends
      <3> QED BY <1>11, <3>1 DEF AnnouncePassword
    <2> QED BY <2>1, <2>2
  <1>12. ASSUME NEW p \in Processes, Resume(p) PROVE CertInv'
    BY <1>12 DEF Resume
  <1>13. ASSUME NEW p \in Processes, PrepareTlsDirectory(p) PROVE CertInv'
    BY <1>13 DEF PrepareTlsDirectory
  <1>14. ASSUME NEW p \in Processes, ReadMaterial(p) PROVE CertInv'
    BY <1>14 DEF ReadMaterial, material
  <1>15. ASSUME NEW p \in Processes, WriteCertificate(p) PROVE CertInv'
    BY <1>15 DEF WriteCertificate
  <1>16. ASSUME NEW p \in Processes, OpenKey(p) PROVE CertInv'
    BY <1>16 DEF OpenKey
  <1>17. ASSUME NEW p \in Processes, WriteKey(p) PROVE CertInv'
    BY <1>17 DEF WriteKey
  <1>18. ASSUME NEW p \in Processes, NarrowKey(p) PROVE CertInv'
    BY <1>18 DEF NarrowKey
  <1>19. ASSUME NEW p \in Processes, LoadMaterial(p) PROVE CertInv'
    <2>1. CASE proc[p].secret # Torn
      <3>1. Step(p, "load", disk, "bind")
        BY <1>19, <2>1 DEF LoadMaterial
      <3> QED BY <3>1, <2>1
    <2>2. CASE proc[p].secret = Torn
      BY <1>19, <2>2, FailKeeps DEF LoadMaterial
    <2> QED BY <2>1, <2>2
  <1>20. ASSUME NEW p \in Processes, Bind(p) PROVE CertInv'
    <2>1. CASE port = Nobody
      <3>1. /\ proc' = [proc EXCEPT ![p].pc = "serving"] /\ disk' = disk /\ tls' = tls /\ proc[p].pc = "bind"
            /\ served'.certs = IF tls THEN served.certs \cup {proc[p].secret} ELSE served.certs
        BY <1>20, <2>1 DEF Bind
      <3>2. \A k \in Processes : proc[k].pc \in Writing => k = p
        BY <3>1
      <3>3. \A c \in served'.certs : c = disk.cert /\ c # 0 /\ disk.key # 0
        BY <3>1
      <3> QED BY <3>1, <3>2, <3>3
    <2>2. CASE port # Nobody
      BY <1>20, <2>2, FailKeeps DEF Bind
    <2> QED BY <2>1, <2>2
  <1>21. ASSUME NEW p \in Processes, StopLink(p) PROVE CertInv'
    BY <1>21, FailKeeps DEF StopLink
  <1>22. ASSUME NEW p \in Processes, Join(p) PROVE CertInv'
    BY <1>22 DEF Join, Ends
  <1>23. ASSUME NEW p \in Processes, ResetPassword(p) PROVE CertInv'
    <2>1. CASE disk.admin # 0
      <3>1. StorePassword(p, "password")
        BY <1>23, <2>1 DEF ResetPassword
      <3> QED BY <3>1, <2>1 DEF StorePassword
    <2>2. CASE disk.admin = 0
      BY <1>23, <2>2, FailKeeps DEF ResetPassword
    <2> QED BY <2>1, <2>2
  <1>24. ASSUME NEW p \in Processes, StopListening(p) PROVE CertInv'
    BY <1>24 DEF StopListening, Serving
  <1>25. ASSUME NEW p \in Processes, Crash(p) PROVE CertInv'
    <2>1. CASE At(p, "announce")
      BY <1>25, <2>1 DEF Crash, Ends
    <2>2. CASE ~ At(p, "announce")
      BY <1>25, <2>2 DEF Crash, Ends
    <2> QED BY <2>1, <2>2
  <1>26. CASE UNCHANGED vars
    BY <1>26 DEF vars
  <1> HIDE DEF StartInv, TypeOK, Disk, Process, PathInv, OneStarting, At, Goto, Step, Down, Starting,
      ServeOnly, Identified, CertInv, Writing
  <1> QED BY <1>1, <1>2, <1>3, <1>4, <1>5, <1>6, <1>7, <1>8, <1>9, <1>10, <1>11, <1>12, <1>13, <1>14, <1>15,
      <1>16, <1>17, <1>18, <1>19, <1>20, <1>21, <1>22, <1>23, <1>24, <1>25, <1>26 DEF Next, Proceed

LEMMA AdminStep == StartInv /\ TypeOK' /\ [Next]_vars => AdminInv'
  <1> SUFFICES ASSUME StartInv, TypeOK', [Next]_vars PROVE AdminInv'
    OBVIOUS
  <1> USE DEF StartInv, TypeOK, Disk, Process, PathInv, OneStarting, At, Goto, Step, Down, Starting,
      ServeOnly, Identified, AdminInv
  <1>1. ASSUME NEW p \in Processes, NEW cmd \in {"serve", "link", "reset"}, Start(p, cmd) PROVE AdminInv'
    BY <1>1 DEF Start
  <1>2. ASSUME NEW p \in Processes, CreateDirectory(p) PROVE AdminInv'
    BY <1>2 DEF CreateDirectory
  <1>3. ASSUME NEW p \in Processes, NarrowDirectory(p) PROVE AdminInv'
    BY <1>3 DEF NarrowDirectory
  <1>4. ASSUME NEW p \in Processes, OpenDatabase(p) PROVE AdminInv'
    <2>1. CASE disk.dir # "none"
      <3>1. Step(p, "open", [disk EXCEPT !.db = IF @ = "none" THEN "open" ELSE @], "db-mode")
        BY <1>4, <2>1 DEF OpenDatabase
      <3> QED BY <3>1, <2>1
    <2>2. CASE disk.dir = "none"
      BY <1>4, <2>2, FailKeeps DEF OpenDatabase
    <2> QED BY <2>1, <2>2
  <1>5. ASSUME NEW p \in Processes, NarrowDatabase(p) PROVE AdminInv'
    BY <1>5 DEF NarrowDatabase
  <1>6. ASSUME NEW p \in Processes, Migrate(p) \/ AddColumn(p) PROVE AdminInv'
    <2>1. ASSUME At(p, "alter"), Fail(p) PROVE AdminInv'
      BY <2>1, FailKeeps
    <2>2. ASSUME NEW to, Migrated(p, to) PROVE AdminInv'
      BY <2>2 DEF Migrated
    <2> QED BY <1>6, <2>1, <2>2, MigrationStep
  <1>7. ASSUME NEW p \in Processes, ReadRelayId(p) PROVE AdminInv'
    BY <1>7 DEF ReadRelayId
  <1>8. ASSUME NEW p \in Processes, WriteRelayId(p) PROVE AdminInv'
    <2>1. /\ proc[p].pc = "new-id" /\ proc'[p].pc = "users" /\ \A k \in Processes : k # p => proc'[k] = proc[k]
          /\ disk'.admin = disk.admin /\ UNCHANGED <<shown, cut>>
      BY <1>8 DEF WriteRelayId
    <2>2. AdminInv
      OBVIOUS
    <2> HIDE DEF StartInv, TypeOK, PathInv, OneStarting, Step
    <2>3. \A k \in Processes : At(k, "announce") => proc'[k] = proc[k]
      BY <2>1
    <2> QED BY <2>1, <2>2, <2>3
  <1>9. ASSUME NEW p \in Processes, CountUsers(p) PROVE AdminInv'
    BY <1>9 DEF CountUsers
  <1>10. ASSUME NEW p \in Processes, CreateUser(p) PROVE AdminInv'
    BY <1>10 DEF CreateUser, StorePassword
  <1>11. ASSUME NEW p \in Processes, AnnouncePassword(p) PROVE AdminInv'
    <2>1. /\ At(p, "announce") /\ proc'[p].pc \in {"resume", "down"}
          /\ \A k \in Processes : k # p => proc'[k] = proc[k]
          /\ shown' = shown \cup {proc[p].secret} /\ UNCHANGED <<disk, cut>>
      BY <1>11 DEF AnnouncePassword, Ends
    <2>2. disk.admin # 0
      BY <2>1
    <2>3. disk.admin \in shown' \/ cut' \/ \E k \in Processes : At(k, "announce")' /\ proc'[k].secret = disk.admin
      <3>1. CASE disk.admin = proc[p].secret \/ disk.admin \in shown \/ cut
        BY <2>1, <3>1
      <3>2. CASE ~ (disk.admin = proc[p].secret \/ disk.admin \in shown \/ cut)
        <4>1. PICK k \in Processes : At(k, "announce") /\ proc[k].secret = disk.admin
          BY <2>2, <3>2
        <4> QED BY <2>1, <3>2, <4>1
      <3> QED BY <3>1, <3>2
    <2> QED BY <2>1, <2>2, <2>3
  <1>12. ASSUME NEW p \in Processes, Resume(p) PROVE AdminInv'
    BY <1>12 DEF Resume
  <1>13. ASSUME NEW p \in Processes, PrepareTlsDirectory(p) PROVE AdminInv'
    BY <1>13 DEF PrepareTlsDirectory
  <1>14. ASSUME NEW p \in Processes, ReadMaterial(p) PROVE AdminInv'
    BY <1>14 DEF ReadMaterial, material
  <1>15. ASSUME NEW p \in Processes, WriteCertificate(p) PROVE AdminInv'
    BY <1>15 DEF WriteCertificate
  <1>16. ASSUME NEW p \in Processes, OpenKey(p) PROVE AdminInv'
    BY <1>16 DEF OpenKey
  <1>17. ASSUME NEW p \in Processes, WriteKey(p) PROVE AdminInv'
    BY <1>17 DEF WriteKey
  <1>18. ASSUME NEW p \in Processes, NarrowKey(p) PROVE AdminInv'
    BY <1>18 DEF NarrowKey
  <1>19. ASSUME NEW p \in Processes, LoadMaterial(p) PROVE AdminInv'
    <2>1. CASE proc[p].secret # Torn
      <3>1. Step(p, "load", disk, "bind")
        BY <1>19, <2>1 DEF LoadMaterial
      <3> QED BY <3>1, <2>1
    <2>2. CASE proc[p].secret = Torn
      BY <1>19, <2>2, FailKeeps DEF LoadMaterial
    <2> QED BY <2>1, <2>2
  <1>20. ASSUME NEW p \in Processes, Bind(p) PROVE AdminInv'
    <2>1. CASE port = Nobody
      BY <1>20, <2>1 DEF Bind
    <2>2. CASE port # Nobody
      BY <1>20, <2>2, FailKeeps DEF Bind
    <2> QED BY <2>1, <2>2
  <1>21. ASSUME NEW p \in Processes, StopLink(p) PROVE AdminInv'
    BY <1>21, FailKeeps DEF StopLink
  <1>22. ASSUME NEW p \in Processes, Join(p) PROVE AdminInv'
    BY <1>22 DEF Join, Ends
  <1>23. ASSUME NEW p \in Processes, ResetPassword(p) PROVE AdminInv'
    <2>1. CASE disk.admin # 0
      <3>1. StorePassword(p, "password")
        BY <1>23, <2>1 DEF ResetPassword
      <3> QED BY <3>1, <2>1 DEF StorePassword
    <2>2. CASE disk.admin = 0
      BY <1>23, <2>2, FailKeeps DEF ResetPassword
    <2> QED BY <2>1, <2>2
  <1>24. ASSUME NEW p \in Processes, StopListening(p) PROVE AdminInv'
    BY <1>24 DEF StopListening, Serving
  <1>25. ASSUME NEW p \in Processes, Crash(p) PROVE AdminInv'
    <2>1. CASE At(p, "announce")
      BY <1>25, <2>1 DEF Crash, Ends
    <2>2. CASE ~ At(p, "announce")
      BY <1>25, <2>2 DEF Crash, Ends
    <2> QED BY <2>1, <2>2
  <1>26. CASE UNCHANGED vars
    BY <1>26 DEF vars
  <1> HIDE DEF StartInv, TypeOK, Disk, Process, PathInv, OneStarting, At, Goto, Step, Down, Starting,
      ServeOnly, Identified, AdminInv
  <1> QED BY <1>1, <1>2, <1>3, <1>4, <1>5, <1>6, <1>7, <1>8, <1>9, <1>10, <1>11, <1>12, <1>13, <1>14, <1>15,
      <1>16, <1>17, <1>18, <1>19, <1>20, <1>21, <1>22, <1>23, <1>24, <1>25, <1>26 DEF Next, Proceed

LEMMA ModeStep == StartInv /\ TypeOK' /\ [Next]_vars => ModeInv'
  <1> SUFFICES ASSUME StartInv, TypeOK', [Next]_vars PROVE ModeInv'
    OBVIOUS
  <1> USE DEF StartInv, TypeOK, Disk, Process, PathInv, OneStarting, At, Goto, Step, Down, Starting,
      ServeOnly, Identified, ModeInv, tightened, Modes
  <1>1. ASSUME NEW p \in Processes, NEW cmd \in {"serve", "link", "reset"}, Start(p, cmd) PROVE ModeInv'
    BY <1>1 DEF Start
  <1>2. ASSUME NEW p \in Processes, CreateDirectory(p) PROVE ModeInv'
    BY <1>2 DEF CreateDirectory
  <1>3. ASSUME NEW p \in Processes, NarrowDirectory(p) PROVE ModeInv'
    <2>1. PICK mode \in restrict_to_owner(disk.dir) : Step(p, "dir-mode", [disk EXCEPT !.dir = mode], "open")
      BY <1>3 DEF NarrowDirectory
    <2>2. disk.dir \in Modes /\ disk.dir # "none"
      BY <2>1
    <2>3. mode \in {"narrow", "stuck"}
      BY <2>2, Restricted
    <2>4. disk'.dir \in {"narrow", "stuck"} /\ served' = served
      BY <2>1, <2>3
    <2> HIDE DEF StartInv, TypeOK, PathInv, OneStarting, Step
    <2> QED BY <2>4
  <1>4. ASSUME NEW p \in Processes, OpenDatabase(p) PROVE ModeInv'
    <2>1. CASE disk.dir # "none"
      <3>1. Step(p, "open", [disk EXCEPT !.db = IF @ = "none" THEN "open" ELSE @], "db-mode")
        BY <1>4, <2>1 DEF OpenDatabase
      <3> QED BY <3>1, <2>1
    <2>2. CASE disk.dir = "none"
      BY <1>4, <2>2, FailKeeps DEF OpenDatabase
    <2> QED BY <2>1, <2>2
  <1>5. ASSUME NEW p \in Processes, NarrowDatabase(p) PROVE ModeInv'
    BY <1>5 DEF NarrowDatabase
  <1>6. ASSUME NEW p \in Processes, Migrate(p) \/ AddColumn(p) PROVE ModeInv'
    <2>1. ASSUME At(p, "alter"), Fail(p) PROVE ModeInv'
      BY <2>1, FailKeeps
    <2>2. ASSUME NEW to, Migrated(p, to) PROVE ModeInv'
      BY <2>2 DEF Migrated
    <2> QED BY <1>6, <2>1, <2>2, MigrationStep
  <1>7. ASSUME NEW p \in Processes, ReadRelayId(p) PROVE ModeInv'
    BY <1>7 DEF ReadRelayId
  <1>8. ASSUME NEW p \in Processes, WriteRelayId(p) PROVE ModeInv'
    BY <1>8 DEF WriteRelayId
  <1>9. ASSUME NEW p \in Processes, CountUsers(p) PROVE ModeInv'
    BY <1>9 DEF CountUsers
  <1>10. ASSUME NEW p \in Processes, CreateUser(p) PROVE ModeInv'
    BY <1>10 DEF CreateUser, StorePassword
  <1>11. ASSUME NEW p \in Processes, AnnouncePassword(p) PROVE ModeInv'
    <2>1. CASE proc[p].cmd = "serve"
      BY <1>11, <2>1 DEF AnnouncePassword
    <2>2. CASE proc[p].cmd # "serve"
      <3>1. proc'[p] = Down /\ \A k \in Processes : k # p => proc'[k] = proc[k]
        BY <1>11, <2>2 DEF AnnouncePassword, Ends
      <3> QED BY <1>11, <3>1 DEF AnnouncePassword
    <2> QED BY <2>1, <2>2
  <1>12. ASSUME NEW p \in Processes, Resume(p) PROVE ModeInv'
    BY <1>12 DEF Resume
  <1>13. ASSUME NEW p \in Processes, PrepareTlsDirectory(p) PROVE ModeInv'
    BY <1>13 DEF PrepareTlsDirectory
  <1>14. ASSUME NEW p \in Processes, ReadMaterial(p) PROVE ModeInv'
    BY <1>14 DEF ReadMaterial, material
  <1>15. ASSUME NEW p \in Processes, WriteCertificate(p) PROVE ModeInv'
    BY <1>15 DEF WriteCertificate
  <1>16. ASSUME NEW p \in Processes, OpenKey(p) PROVE ModeInv'
    BY <1>16 DEF OpenKey
  <1>17. ASSUME NEW p \in Processes, WriteKey(p) PROVE ModeInv'
    BY <1>17 DEF WriteKey
  <1>18. ASSUME NEW p \in Processes, NarrowKey(p) PROVE ModeInv'
    BY <1>18 DEF NarrowKey
  <1>19. ASSUME NEW p \in Processes, LoadMaterial(p) PROVE ModeInv'
    <2>1. CASE proc[p].secret # Torn
      <3>1. Step(p, "load", disk, "bind")
        BY <1>19, <2>1 DEF LoadMaterial
      <3> QED BY <3>1, <2>1
    <2>2. CASE proc[p].secret = Torn
      BY <1>19, <2>2, FailKeeps DEF LoadMaterial
    <2> QED BY <2>1, <2>2
  <1>20. ASSUME NEW p \in Processes, Bind(p) PROVE ModeInv'
    <2>1. CASE port = Nobody
      BY <1>20, <2>1 DEF Bind
    <2>2. CASE port # Nobody
      BY <1>20, <2>2, FailKeeps DEF Bind
    <2> QED BY <2>1, <2>2
  <1>21. ASSUME NEW p \in Processes, StopLink(p) PROVE ModeInv'
    BY <1>21, FailKeeps DEF StopLink
  <1>22. ASSUME NEW p \in Processes, Join(p) PROVE ModeInv'
    BY <1>22 DEF Join, Ends
  <1>23. ASSUME NEW p \in Processes, ResetPassword(p) PROVE ModeInv'
    <2>1. CASE disk.admin # 0
      <3>1. StorePassword(p, "password")
        BY <1>23, <2>1 DEF ResetPassword
      <3> QED BY <3>1, <2>1 DEF StorePassword
    <2>2. CASE disk.admin = 0
      BY <1>23, <2>2, FailKeeps DEF ResetPassword
    <2> QED BY <2>1, <2>2
  <1>24. ASSUME NEW p \in Processes, StopListening(p) PROVE ModeInv'
    BY <1>24 DEF StopListening, Serving
  <1>25. ASSUME NEW p \in Processes, Crash(p) PROVE ModeInv'
    <2>1. CASE At(p, "announce")
      BY <1>25, <2>1 DEF Crash, Ends
    <2>2. CASE ~ At(p, "announce")
      BY <1>25, <2>2 DEF Crash, Ends
    <2> QED BY <2>1, <2>2
  <1>26. CASE UNCHANGED vars
    BY <1>26 DEF vars
  <1> HIDE DEF StartInv, TypeOK, Disk, Process, PathInv, OneStarting, At, Goto, Step, Down, Starting,
      ServeOnly, Identified, ModeInv, tightened, Modes
  <1> QED BY <1>1, <1>2, <1>3, <1>4, <1>5, <1>6, <1>7, <1>8, <1>9, <1>10, <1>11, <1>12, <1>13, <1>14, <1>15,
      <1>16, <1>17, <1>18, <1>19, <1>20, <1>21, <1>22, <1>23, <1>24, <1>25, <1>26 DEF Next, Proceed

LEMMA NextStartInv == StartInv /\ [Next]_vars => StartInv'
  <1> SUFFICES ASSUME StartInv, [Next]_vars PROVE StartInv'
    OBVIOUS
  <1>1. TypeOK'
    BY TypeStep
  <1> QED BY <1>1, PathStep, StartingStep, IdStep, CertStep, AdminStep, ModeStep DEF StartInv

LEMMA StartIsInductive == Spec => []StartInv
  <1>1. Init => StartInv
    BY InitStartInv
  <1>2. StartInv /\ [Next]_vars => StartInv'
    BY NextStartInv
  <1> QED BY <1>1, <1>2, PTL DEF Spec

LEMMA AtMostOne == ASSUME NEW S, NEW x, S \subseteq {x} PROVE Cardinality(S) <= 1
  <1>1. CASE S = {}
    BY <1>1, FS_EmptySet
  <1>2. CASE S # {}
    <2>1. S = {x}
      BY <1>2
    <2>2. Cardinality({x}) = 1
      BY FS_Singleton
    <2> QED BY <2>1, <2>2
  <1> QED BY <1>1, <1>2

\* prepare() and tls::configure(): whatever start was cut at whatever write, and whatever command ran
\* beside it, browsers, devices and downstream relays never meet a second relay id or certificate.
THEOREM OneIdentity == Spec => []IdentityInv
  <1>1. StartInv => IdentityInv
    <2> SUFFICES ASSUME StartInv PROVE IdentityInv
      OBVIOUS
    <2>1. served.ids \subseteq {disk.relayId} /\ served.certs \subseteq {disk.cert}
      BY DEF StartInv, IdInv, CertInv
    <2>2. RelayIdStable /\ CertificateStable
      BY <2>1, AtMostOne DEF RelayIdStable, CertificateStable
    <2> QED BY <2>2 DEF IdentityInv, StartInv
  <1> QED BY <1>1, StartIsInductive, PTL

\* ensure_admin_exists() and reset_password(): a relay that serves has an account, and its password was
\* printed, is about to be, or was lost because a crash came between storing and printing it.
THEOREM OperatorKnowsPassword == Spec => []AdminKnown
  <1>1. StartInv => AdminKnown
    BY DEF StartInv, AdminInv, AdminKnown, Serving, At, ServeOnly, Identified
  <1> QED BY <1>1, StartIsInductive, PTL

\* prepare_data_directory() and restrict_to_owner(): no other account of the host reads the database or
\* the private key in a new directory at any moment, nor in an old one that serve or link has passed,
\* unless it warned that the directory could not be narrowed.
THEOREM SecretsStayPrivate == Spec => []SecretsUnreadable
  <1>1. StartInv => SecretsUnreadable
    BY DEF StartInv, TypeOK, Disk, Modes, ModeInv, SecretsUnreadable, Readable
  <1> QED BY <1>1, StartIsInductive, PTL
=============================================================================
