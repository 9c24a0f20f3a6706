------------------------------ MODULE Startup ------------------------------
(***************************************************************************)
(* What happens to a data directory over many starts: serve, `link' and    *)
(* `admin reset-password' (src/src/server.rs, bootstrap.rs, tls.rs,        *)
(* paths.rs, db/mod.rs), each a sequence of writes that a crash may cut    *)
(* anywhere, on a fresh directory or on one that an earlier version left.  *)
(*                                                                         *)
(* Two processes may be at it at once: a command beside a running relay,   *)
(* or a second serve started by mistake.  An identifier, a password or a   *)
(* certificate is its number in the order they were generated, 0 for none. *)
(***************************************************************************)
EXTENDS Naturals, FiniteSets

CONSTANTS
    Processes,
    Service,      \* the process the service manager starts again
    Nobody,
    Torn,         \* a private key of which only the file exists: fs::write() was cut after it opened it
    MaxCrashes,   \* bound on crashes
    MaxCommands   \* bound on what the operator starts by hand

ASSUME StartupAssumption ==
    /\ Service \in Processes /\ Nobody \notin Processes
    /\ Torn \notin Nat
    /\ {MaxCrashes, MaxCommands} \subseteq Nat

VARIABLES
    disk,     \* the data directory
    tls,      \* --tls self-signed rather than off
    proc,     \* each process: its command, where it is, and its locals
    port,     \* who listens
    last,     \* identifiers, passwords and certificates generated so far
    shown,    \* passwords printed on a terminal
    served,   \* history: relay ids and certificates that browsers and devices have met
    cut,      \* history: a crash came between storing a password and printing it
    crashes, commands

vars == <<disk, tls, proc, port, last, shown, served, cut, crashes, commands>>

Down == [cmd |-> "none", pc |-> "down", id |-> 0, secret |-> 0]

FreshDisk == [dir |-> "none", db |-> "none", schema |-> "none", relayId |-> 0, admin |-> 0,
              upstream |-> FALSE, tlsDir |-> "none", cert |-> 0, key |-> 0, keyMode |-> "none"]

\* What a version before the narrowing and the later columns left behind, having served or not.
OldDisk(cert) == [dir |-> "open", db |-> "open", schema |-> "old", relayId |-> 1, admin |-> 1,
                  upstream |-> FALSE, tlsDir |-> IF cert = 0 THEN "none" ELSE "open", cert |-> cert, key |-> cert,
                  keyMode |-> IF cert = 0 THEN "none" ELSE "open"]

Init ==
    /\ tls \in BOOLEAN
    /\ \/ disk = FreshDisk /\ served = [ids |-> {}, certs |-> {}] /\ shown = {}
       \/ \E cert \in 0..1 :
            /\ disk = OldDisk(cert)
            /\ served = [ids |-> {1}, certs |-> {cert} \ {0}] /\ shown = {1}
    /\ last = [id |-> disk.relayId, password |-> disk.admin, cert |-> disk.cert]
    /\ proc = [p \in Processes |-> Down]
    /\ port = Nobody /\ cut = FALSE /\ crashes = 0 /\ commands = 0

-----------------------------------------------------------------------------
(* Processes.                                                              *)

At(p, pc) == proc[p].pc = pc
Goto(p, pc) == proc' = [proc EXCEPT ![p].pc = pc]
\* serve() between its first step and its listener.
Starting(p) == proc[p].cmd = "serve" /\ proc[p].pc \notin {"serving", "stopping", "down"}
Serving(p) == At(p, "serving")

\* The process is over, and the kernel closes what it had open.
Ends(p) ==
    /\ proc' = [proc EXCEPT ![p] = Down]
    /\ port' = IF port = p THEN Nobody ELSE port

\* serve() and link() begin with the directory, reset_password() with the database.  Two relays are
\* not started at the same moment.
Start(p, cmd) ==
    /\ At(p, "down")
    /\ cmd = "serve" => ~ \E q \in Processes : Starting(q)
    /\ p # Service => commands < MaxCommands
    /\ p = Service => cmd = "serve"
    /\ commands' = IF p = Service THEN commands ELSE commands + 1
    /\ proc' = [proc EXCEPT ![p] = [Down EXCEPT !.cmd = cmd, !.pc = IF cmd = "reset" THEN "open" ELSE "dir"]]
    /\ UNCHANGED <<disk, tls, port, last, shown, served, cut, crashes>>

Crash(p) ==
    /\ ~ At(p, "down")
    /\ crashes < MaxCrashes
    /\ crashes' = crashes + 1
    /\ cut' = (cut \/ At(p, "announce"))
    /\ Ends(p)
    /\ UNCHANGED <<disk, tls, last, shown, served, commands>>

\* An error ends the command with a message.
Fail(p) == Ends(p) /\ UNCHANGED <<disk, tls, last, shown, served, cut, crashes, commands>>

\* The usual step: something is written to the directory and the process goes on.
Step(p, from, d, to) ==
    /\ At(p, from)
    /\ disk' = d
    /\ Goto(p, to)
    /\ UNCHANGED <<tls, port, last, shown, served, cut, crashes, commands>>

-----------------------------------------------------------------------------
(* The data directory and the database, which all three commands open.     *)

\* mode::tightened(): bits are only ever removed.
tightened(mode) == IF mode \in {"open", "stuck"} THEN "narrow" ELSE mode

\* restrict_to_owner(): a filesystem that cannot express the permission is warned about, and the mode
\* stays as it is.
restrict_to_owner(mode) == {tightened(mode)} \cup IF mode \in {"open", "stuck"} THEN {"stuck"} ELSE {}

\* prepare_data_directory(): created under the umask ...
CreateDirectory(p) ==
    Step(p, "dir", [disk EXCEPT !.dir = IF @ = "none" THEN "open" ELSE @], "dir-mode")

\* Mutated: only a directory that holds nothing yet is narrowed.
NarrowNewDirectory(p) ==
    \E mode \in IF disk.db = "none" THEN restrict_to_owner(disk.dir) ELSE {disk.dir} :
        Step(p, "dir-mode", [disk EXCEPT !.dir = mode], "open")

\* ... and narrowed, whether it was there or not.
NarrowDirectory(p) ==
    \E mode \in restrict_to_owner(disk.dir) : Step(p, "dir-mode", [disk EXCEPT !.dir = mode], "open")

\* Database::open(): SQLite creates the file, not the directory.
OpenDatabase(p) ==
    \/ disk.dir # "none" /\ Step(p, "open", [disk EXCEPT !.db = IF @ = "none" THEN "open" ELSE @], "db-mode")
    \/ At(p, "open") /\ disk.dir = "none" /\ Fail(p)

NarrowDatabase(p) ==
    \E mode \in restrict_to_owner(disk.db) : Step(p, "db-mode", [disk EXCEPT !.db = mode], "migrate")

AfterOpen(p) ==
    CASE proc[p].cmd = "serve" -> "relay-id" [] proc[p].cmd = "link" -> "join" [] OTHER -> "password"

\* migrate(): the tables are created if they are not there; a missing column is looked for ...
Migrate(p) ==
    \/ disk.schema = "old" /\ Step(p, "migrate", disk, "alter")
    \/ disk.schema # "old" /\ Step(p, "migrate", [disk EXCEPT !.schema = "current"], AfterOpen(p))

\* ... and added by ensure_column(), which fails if another process was faster.
AddColumn(p) ==
    \/ disk.schema = "old" /\ Step(p, "alter", [disk EXCEPT !.schema = "current"], AfterOpen(p))
    \/ At(p, "alter") /\ disk.schema # "old" /\ Fail(p)

-----------------------------------------------------------------------------
(* prepare().                                                              *)

\* read_or_initialize_setting(): an id that is there is read back ...
ReadRelayId(p) ==
    /\ At(p, "relay-id")
    /\ proc' = [proc EXCEPT ![p].id = disk.relayId, ![p].pc = IF disk.relayId = 0 THEN "new-id" ELSE "users"]
    /\ UNCHANGED <<disk, tls, port, last, shown, served, cut, crashes, commands>>

\* ... and one that is not is generated and written.
WriteRelayId(p) ==
    /\ At(p, "new-id")
    /\ last' = [last EXCEPT !.id = @ + 1]
    /\ disk' = [disk EXCEPT !.relayId = last'.id]
    /\ proc' = [proc EXCEPT ![p].id = last'.id, ![p].pc = "users"]
    /\ UNCHANGED <<tls, port, shown, served, cut, crashes, commands>>

\* A password is generated, stored and audited; announce_password() comes afterwards.
StorePassword(p, from) ==
    /\ At(p, from)
    /\ last' = [last EXCEPT !.password = @ + 1]
    /\ disk' = [disk EXCEPT !.admin = last'.password]
    /\ proc' = [proc EXCEPT ![p].secret = last'.password, ![p].pc = "announce"]
    /\ UNCHANGED <<tls, port, shown, served, cut, crashes, commands>>

\* ensure_admin_exists()
CountUsers(p) == Step(p, "users", disk, IF disk.admin = 0 THEN "create" ELSE "resume")
CreateUser(p) == StorePassword(p, "create")

\* Mutated: on the first start nothing is printed.
AnnounceResets(p) ==
    /\ At(p, "announce")
    /\ shown' = IF proc[p].cmd = "serve" THEN shown ELSE shown \cup {proc[p].secret}
    /\ IF proc[p].cmd = "serve" THEN Goto(p, "resume") /\ UNCHANGED port ELSE Ends(p)
    /\ UNCHANGED <<disk, tls, last, served, cut, crashes, commands>>

\* announce_password(), after which reset_password() is done.
AnnouncePassword(p) ==
    /\ At(p, "announce")
    /\ shown' = shown \cup {proc[p].secret}
    /\ IF proc[p].cmd = "serve" THEN Goto(p, "resume") /\ UNCHANGED port ELSE Ends(p)
    /\ UNCHANGED <<disk, tls, last, served, cut, crashes, commands>>

\* upstream::resume(): a stored upstream is dialled, before the listener is bound; UpstreamLink has the
\* rest of that.
Resume(p) == Step(p, "resume", disk, IF tls THEN "tls" ELSE "bind")

-----------------------------------------------------------------------------
(* tls::configure() with --tls self-signed.                                *)

PrepareTlsDirectory(p) ==
    \E mode \in restrict_to_owner(IF disk.tlsDir = "none" THEN "open" ELSE disk.tlsDir) :
        Step(p, "tls", [disk EXCEPT !.tlsDir = mode], "read-cert")

\* Mutated: the certificate alone is enough.
certificate_there(d) == d.cert # 0

\* MaterialPaths::read(): both files.
material_there(d) == d.cert # 0 /\ d.key # 0

\* What is read: a pair that belongs together, or one that does not.
material(d) == IF d.key = d.cert THEN d.cert ELSE Torn

\* Mutated: a key that others could have read is replaced.
ReadPrivateMaterial(p) ==
    /\ At(p, "read-cert")
    /\ proc' = [proc EXCEPT ![p].secret = material(disk),
                            ![p].pc = IF material_there(disk) /\ disk.keyMode = "narrow" THEN "key-mode" ELSE "write-cert"]
    /\ UNCHANGED <<disk, tls, port, last, shown, served, cut, crashes, commands>>

\* load_or_generate()
ReadMaterial(p) ==
    /\ At(p, "read-cert")
    /\ proc' = [proc EXCEPT ![p].secret = material(disk),
                            ![p].pc = IF material_there(disk) THEN "key-mode" ELSE "write-cert"]
    /\ UNCHANGED <<disk, tls, port, last, shown, served, cut, crashes, commands>>

\* MaterialPaths::write(): the certificate, then the key, whose file exists before it has content.
WriteCertificate(p) ==
    /\ At(p, "write-cert")
    /\ last' = [last EXCEPT !.cert = @ + 1]
    /\ disk' = [disk EXCEPT !.cert = last'.cert]
    /\ proc' = [proc EXCEPT ![p].secret = last'.cert, ![p].pc = "open-key"]
    /\ UNCHANGED <<tls, port, shown, served, cut, crashes, commands>>

OpenKey(p) ==
    Step(p, "open-key", [disk EXCEPT !.key = Torn, !.keyMode = IF @ = "none" THEN "open" ELSE @], "write-key")

WriteKey(p) == Step(p, "write-key", [disk EXCEPT !.key = proc[p].secret], "key-mode")

NarrowKey(p) ==
    \E mode \in restrict_to_owner(disk.keyMode) : Step(p, "key-mode", [disk EXCEPT !.keyMode = mode], "load")

\* load(): the key has to belong to the certificate.
LoadMaterial(p) ==
    \/ proc[p].secret # Torn /\ Step(p, "load", disk, "bind")
    \/ At(p, "load") /\ proc[p].secret = Torn /\ Fail(p)

-----------------------------------------------------------------------------
(* The listener, the stop and the two commands.                            *)

\* bind() and serve_on(), or "port already in use".
Bind(p) ==
    \/ /\ At(p, "bind") /\ port = Nobody
       /\ port' = p
       /\ Goto(p, "serving")
       /\ served' = [ids |-> served.ids \cup {proc[p].id},
                     certs |-> IF tls THEN served.certs \cup {proc[p].secret} ELSE served.certs]
       /\ UNCHANGED <<disk, tls, last, shown, cut, crashes, commands>>
    \/ At(p, "bind") /\ port # Nobody /\ Fail(p)

\* shut_down_on(): the listener is told first, then the upstream link is stopped.
StopListening(p) ==
    /\ Serving(p)
    /\ Goto(p, "stopping")
    /\ port' = Nobody
    /\ UNCHANGED <<disk, tls, last, shown, served, cut, crashes, commands>>

StopLink(p) == At(p, "stopping") /\ Fail(p)

\* link(): enroll::join() stores the credential, or the upstream refuses the code.
Join(p) ==
    /\ At(p, "join")
    /\ disk' \in {disk, [disk EXCEPT !.upstream = TRUE]}
    /\ Ends(p)
    /\ UNCHANGED <<tls, last, shown, served, cut, crashes, commands>>

\* reset_password(): the account has to exist.
ResetPassword(p) ==
    \/ disk.admin # 0 /\ StorePassword(p, "password")
    \/ At(p, "password") /\ disk.admin = 0 /\ Fail(p)

Proceed(p) ==
    \/ CreateDirectory(p) \/ NarrowDirectory(p) \/ OpenDatabase(p) \/ NarrowDatabase(p) \/ Migrate(p) \/ AddColumn(p)
    \/ ReadRelayId(p) \/ WriteRelayId(p) \/ CountUsers(p) \/ CreateUser(p) \/ AnnouncePassword(p) \/ Resume(p)
    \/ PrepareTlsDirectory(p) \/ ReadMaterial(p) \/ WriteCertificate(p) \/ OpenKey(p) \/ WriteKey(p) \/ NarrowKey(p)
    \/ LoadMaterial(p) \/ Bind(p) \/ StopLink(p) \/ Join(p) \/ ResetPassword(p)

Next ==
    \E p \in Processes :
        \/ \E cmd \in {"serve", "link", "reset"} : Start(p, cmd)
        \/ Proceed(p) \/ StopListening(p) \/ Crash(p)

\* A running process goes on, and the service manager restarts the relay.
Fairness ==
    /\ \A p \in Processes : WF_vars(Proceed(p))
    /\ WF_vars(Start(Service, "serve"))

Spec == Init /\ [][Next]_vars /\ Fairness

-----------------------------------------------------------------------------
(* Properties.                                                             *)

Modes == {"none", "open", "stuck", "narrow"}
Disk == [dir : Modes, db : Modes, schema : {"none", "old", "current"}, relayId : Nat, admin : Nat, upstream : BOOLEAN,
         tlsDir : Modes, cert : Nat, key : Nat \cup {Torn}, keyMode : Modes]
Pcs == {"down", "dir", "dir-mode", "open", "db-mode", "migrate", "alter", "relay-id", "new-id", "users", "create", "announce",
        "resume", "tls", "read-cert", "write-cert", "open-key", "write-key", "key-mode", "load", "bind", "serving", "stopping",
        "join", "password"}
Process == [cmd : {"none", "serve", "link", "reset"}, pc : Pcs, id : Nat, secret : Nat \cup {Torn}]

\* Every variable keeps its type, and a process that is down does not hold the port.
TypeOK ==
    /\ disk \in Disk /\ tls \in BOOLEAN /\ cut \in BOOLEAN
    /\ proc \in [Processes -> Process]
    /\ port \in Processes \cup {Nobody}
    /\ last \in [id : Nat, password : Nat, cert : Nat]
    /\ shown \subseteq Nat \cup {Torn}
    /\ served \in [ids : SUBSET Nat, certs : SUBSET (Nat \cup {Torn})]
    /\ crashes \in 0..MaxCrashes /\ commands \in 0..MaxCommands
    /\ \A p \in Processes : At(p, "down") => port # p

\* "generated once and then read back for the life of the data directory, because devices and
\* downstream relays remember it": whatever start is cut wherever, nobody ever meets a second id.
RelayIdStable == Cardinality(served.ids) <= 1

\* "a device that pinned its fingerprint keeps trusting it across restarts": a certificate that was
\* served is the one every later start serves, also when an earlier start was cut in writing it.
CertificateStable == Cardinality(served.certs) <= 1

\* A relay that serves has an account whose password its operator was shown, or is about to be,
\* unless a crash came just before it was printed.
AdminKnown ==
    (\E p \in Processes : Serving(p)) =>
        /\ disk.admin # 0
        /\ disk.admin \in shown \/ cut \/ \E p \in Processes : At(p, "announce") /\ proc[p].secret = disk.admin

\* Whether another account of the host can read the accounts and the upstream's credential in the
\* database, or the private key, without anyone having been warned that the directory stays open.
Readable ==
    /\ disk.dir = "open"
    /\ \/ disk.db # "narrow" /\ (disk.admin # 0 \/ disk.upstream)
       \/ disk.tlsDir # "narrow" /\ disk.keyMode \in {"open", "stuck"}

\* "both land on disk readable by every local account ... Each is therefore narrowed": nothing can be
\* read by others in a new directory, at any moment of its creation, nor in an old one once serve or
\* link has got past it, unless the operator was warned that the directory could not be narrowed.
\* (reset_password() narrows the database only.)
SecretsUnreadable ==
    Readable => /\ served.ids # {}
                /\ \A p \in Processes : proc[p].cmd # "reset" => proc[p].pc \in {"down", "dir", "dir-mode"}

\* A relay that is started again after every crash serves again, unless a crash left the key's file
\* without its key.
Recovers == []<>(disk.key = Torn \/ \E p \in Processes : Serving(p))

\* Whatever was cut wherever, devices and browsers meet one relay id and one certificate.
IdentityInv == TypeOK /\ RelayIdStable /\ CertificateStable
=============================================================================
