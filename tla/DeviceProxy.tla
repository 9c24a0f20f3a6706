---------------------------- MODULE DeviceProxy ----------------------------
(***************************************************************************)
(* One browser request on its way to a device: routed by host and path     *)
(* (src/src/server.rs), admitted by the device's access policy (access.rs),*)
(* sent over a pooled or a new stream (proxy.rs), while policies, console  *)
(* sessions and tunnels change under it.  A second entry is the stream an  *)
(* upstream relay opens for a device here (upstream/forward.rs).           *)
(*                                                                         *)
(* The device's row, the session, the online check, the route and the      *)
(* stream are five reads at five moments.  Registry and ConsoleSession     *)
(* model the tables behind them.                                           *)
(***************************************************************************)
EXTENDS DeviceAddress, FiniteSets

CONSTANTS
    Users, Admins, Owner,  \* console accounts, and whose the devices with a row are
    Enrolled,     \* devices with a row here; the others are announced by a downstream relay
    Requests,     \* the browser requests that may arrive
    Configs,      \* the options: --subdomain-base or none, and whether the relay terminates TLS itself
    Ports,
    Segments,     \* what lies between two slashes of a path, or two dots of a host name
    MaxTunnel     \* bound on the tunnels that connect

\* A device's policy and owner; the owner's account may be deleted.
Row == [access : {"public", "relay-login"}, owner : Users \cup {NoValue}]

\* How a request reaches the handler, and how it ends.
Entries == {"path", "subdomain", "upstream"}
Answers == {"relay", "error", "to-directory", "to-path-form", "to-login", "forbidden", "offline", "unknown",
            "bad-request", "bad-gateway", "dropped", "served"}

ASSUME DeviceProxyAssumption ==
    /\ Enrolled \subseteq Devices /\ Admins \subseteq Users /\ Owner \in Users
    /\ NoValue \notin Devices \cup Users \cup Row \cup Entries \cup Answers
    /\ MaxTunnel \in Nat

Hosts == [labels : Seq(Segments), port : Ports]

\* Ids are not empty, the relay's own host is not one that a device would have, and a path has a slash.
\* A request names the host of its URL in the Host header, or over HTTP/2 in no header at all.
ASSUME AddressAssumption ==
    /\ Devices \cup {"d", Empty} \subseteq Segments /\ Empty \notin Devices
    /\ NoValue \notin Hosts /\ PublicHost \in Hosts
    /\ \A c \in Configs : c.base # NoValue =>
          c.base \in Seq(Segments) /\ ~ (Tail(PublicHost.labels) = c.base /\ Head(PublicHost.labels) \in Devices)
    /\ \A q \in Requests :
          /\ {"host", "path", "headers"} \subseteq DOMAIN q /\ DOMAIN q.headers = HeaderNames
          /\ q.host \in Hosts /\ q.path \in Seq(Segments) \ {<<>>} /\ q.headers["host"] \in {<<>>, <<q.host>>}

VARIABLES
    rows,       \* the access policy and owner of each device with a row
    signedIn,   \* the accounts whose browser holds a live session
    table,      \* the tunnel the routing table has for each device, 0 for none
    alive,      \* the tunnels whose socket works
    lastTunnel, \* tunnels connected so far
    recalled,   \* devices registry.last_known() remembers
    pool,       \* the tunnels that carry an idle keep-alive connection, by device
    req,        \* the request being handled
    seen,       \* history: what held at some moment since the request arrived
    wasDown     \* history: the device could not be reached at some moment since

tableVars == <<table, alive, lastTunnel, recalled>>
vars == <<config, rows, signedIn, tableVars, pool, req, seen, wasDown>>

NoRequest == [pc |-> "idle", entry |-> NoValue, device |-> NoValue, rest |-> <<>>, from |-> NoValue,
              asked |-> NoValue, row |-> NoValue, via |-> 0, sent |-> NoHeaders, answer |-> NoValue, setCookies |-> {},
              redirects |-> 0]

NothingSeen == [public |-> FALSE, reachable |-> FALSE, signedIn |-> FALSE]

RowOf(d) == IF d \in Enrolled THEN rows[d] ELSE NoValue
\* DeviceRecord::is_reachable_by()
is_reachable_by(row, u) == u \in Admins \/ row.owner = u

\* What a look at the tables shows of a request of user u for device d: whether the policy asks for
\* nothing, whether u owns or administers d, and whether u is signed in.
Sight(d, u, r, users) ==
    [public |-> d \notin Enrolled \/ r[d].access = "public",
     reachable |-> d \in Enrolled /\ u # NoValue /\ is_reachable_by(r[d], u),
     signedIn |-> u \in users]

Online(d) == table[d] # 0
Reachable(d) == table[d] \in alive

Init ==
    /\ config \in Configs
    /\ rows = [d \in Enrolled |-> [access |-> "public", owner |-> Owner]]
    /\ signedIn = {}
    /\ table = [d \in Devices |-> 0] /\ alive = {} /\ lastTunnel = 0 /\ recalled = {}
    /\ pool = [d \in Devices |-> {}]
    /\ req = NoRequest
    /\ seen = NothingSeen /\ wasDown = FALSE

-----------------------------------------------------------------------------
(* Routing.                                                                *)

Target(pc, entry, device, rest) == [pc |-> pc, entry |-> entry, device |-> device, rest |-> rest]

\* dispatch(), behind require_csrf_marker() and the relay's own routes.  "relay" stands for every
\* answer the relay gives itself.
dispatch(path) ==
    LET p == parse_device_path(path) IN
    IF path[1] = "api" \/ p.shape = "none" THEN Target("relay", NoValue, NoValue, <<>>)
    ELSE IF p.shape = "needs-slash" THEN Target("slash", "path", p.device, <<>>)
    ELSE Target("lookup", "path", p.device, p.rest)

\* host_header(): the header only; the authority of an HTTP/2 request is not looked at.
host_header(q) == IF q.headers["host"] = <<>> THEN NoValue ELSE Head(q.headers["host"])

\* Mutated: the relay's own paths are its own on every host.
route_own_paths_first(q) ==
    LET d == device_from_host(host_header(q)) IN
    IF q.path[1] # "api" /\ d # NoValue THEN Target("lookup", "subdomain", d, trim_slashes(q.path))
    ELSE dispatch(q.path)

\* route_device_host() is the outermost layer of router(): a device's own host takes everything.
route_device_host(q) ==
    LET d == device_from_host(host_header(q)) IN
    IF d # NoValue THEN Target("lookup", "subdomain", d, trim_slashes(q.path)) ELSE dispatch(q.path)

\* A request arrives, the one the browser asked for first or one that follows a redirect.
Arrive(q, asked, redirects) ==
    LET t == route_device_host(q) IN
    /\ req' = [NoRequest EXCEPT !.pc = t.pc, !.entry = t.entry, !.device = t.device, !.rest = t.rest,
                                !.from = q, !.asked = asked, !.redirects = redirects]
    /\ seen' = Sight(t.device, q.user, rows, signedIn)
    /\ wasDown' = (t.device \notin Devices \/ ~ Reachable(t.device))

Receive(q) ==
    /\ req.pc = "idle"
    /\ Arrive(q, q, 0)
    /\ UNCHANGED <<config, rows, signedIn, tableVars, pool>>

\* carry(): the upstream relay opens a stream; the HTTP in it is not looked at.
ReceiveStream(d) ==
    /\ req.pc = "idle"
    /\ req' = [NoRequest EXCEPT !.pc = "connect", !.entry = "upstream", !.device = d]
    /\ seen' = Sight(d, NoValue, rows, signedIn)
    /\ wasDown' = ~ Reachable(d)
    /\ UNCHANGED <<config, rows, signedIn, tableVars, pool>>

\* The handler returns; what it held is dropped.
Answer(answer) == req' = [req EXCEPT !.pc = "answered", !.answer = answer, !.row = NoValue, !.via = 0]

\* The relay's own routes, and /d/<id> without its slash.
AnswerLocally ==
    /\ req.pc \in {"relay", "slash"}
    /\ Answer(IF req.pc = "slash" THEN "to-directory" ELSE "relay")
    /\ UNCHANGED <<config, rows, signedIn, tableVars, pool, seen, wasDown>>

\* The same request at another address, over the same version of HTTP.
Redirected(q, url) ==
    [q EXCEPT !.host = url.host, !.path = url.path,
              !.headers["host"] = IF @ = <<>> THEN <<>> ELSE <<url.host>>]

\* The answer is delivered, and the browser follows a redirect to a device.  From the login page it
\* comes back to where it was, signed in or not.
Follow ==
    LET target == IF req.answer = "to-path-form" THEN path_form_url(req.device, req.rest)
                  ELSE [host |-> req.from.host,
                        path |-> IF req.answer = "to-directory" THEN path_base(req.device) \o <<Empty>>
                                 ELSE base_path(req) \o req.rest]
    IN  /\ req.pc = "answered"
        /\ req.answer \in {"to-path-form", "to-directory", "to-login"}
        /\ Arrive(Redirected(req.from, target), req.asked,
                  IF req.answer = "to-login" THEN req.redirects ELSE req.redirects + 1)
        /\ UNCHANGED <<config, rows, signedIn, tableVars, pool>>

Done ==
    /\ req.pc = "answered"
    /\ req' = NoRequest
    /\ seen' = NothingSeen /\ wasDown' = FALSE
    /\ UNCHANGED <<config, rows, signedIn, tableVars, pool>>

-----------------------------------------------------------------------------
(* forward().                                                              *)

\* The device's row, which the rest of the request goes by.
FindDevice ==
    /\ req.pc = "lookup"
    /\ req' = [req EXCEPT !.pc = "guard", !.row = RowOf(req.device)]
    /\ UNCHANGED <<config, rows, signedIn, tableVars, pool, seen, wasDown>>

FindDeviceFails ==
    /\ req.pc = "lookup"
    /\ Answer("error")
    /\ UNCHANGED <<config, rows, signedIn, tableVars, pool, seen, wasDown>>

\* signed_in_user(): the account behind the cookie; a failing lookup is "not signed in".
signed_in_user ==
    IF carries_session(req.from.headers) /\ req.from.user \in signedIn THEN {req.from.user, NoValue} ELSE {NoValue}

\* Mutated: an upgrade is not asked for a session.
guard_pages_only(user) ==
    CASE req.row = NoValue \/ req.row.access = "public" \/ is_websocket_upgrade(req.from.headers) -> "pass"
      [] req.entry = "subdomain" -> "to-path-form"
      [] user = NoValue -> "to-login"
      [] is_reachable_by(req.row, user) -> "pass"
      [] OTHER -> "forbidden"

\* access::guard(): a device without a row is another relay's to guard.
guard(user) ==
    CASE req.row = NoValue -> "pass"
      [] req.row # NoValue /\ req.row.access = "public" -> "pass"
      [] req.row # NoValue /\ req.row.access # "public" /\ req.entry = "subdomain" -> "to-path-form"
      [] OTHER -> IF user = NoValue THEN "to-login"
                  ELSE IF is_reachable_by(req.row, user) THEN "pass" ELSE "forbidden"

Admit ==
    /\ req.pc = "guard"
    /\ \E user \in signed_in_user :
          IF guard(user) = "pass" THEN req' = [req EXCEPT !.pc = "online"] ELSE Answer(guard(user))
    /\ UNCHANGED <<config, rows, signedIn, tableVars, pool, seen, wasDown>>

\* unreachable_page(): by the row that was read, or by what the routing table remembers.
unreachable_page ==
    IF req.row # NoValue \/ req.device \in recalled THEN "offline" ELSE "unknown"

\* is_online(), and the request of the hop into the tunnel; tunnel_uri() may find no URI for it.
CheckOnline ==
    /\ req.pc = "online"
    /\ IF req.device \in Devices /\ Online(req.device)
       THEN LET h == req.from.headers IN
            \/ req' = [req EXCEPT !.pc = IF is_websocket_upgrade(h) THEN "connect" ELSE "client",
                                  !.sent = prepare_request_headers(h, resolve(h, req.from.peer),
                                               base_path(req), is_websocket_upgrade(h))]
            \/ Answer("bad-request")
       ELSE Answer(unreachable_page)
    /\ UNCHANGED <<config, rows, signedIn, tableVars, pool, seen, wasDown>>

\* hyper's client takes an idle connection to this device; a broken one is dropped and another tried.
UsePooled ==
    /\ req.pc = "client"
    /\ \E t \in pool[req.device] :
          /\ pool' = [pool EXCEPT ![req.device] = @ \ {t}]
          /\ req' = IF t \in alive THEN [req EXCEPT !.pc = "exchange", !.via = t] ELSE req
    /\ UNCHANGED <<config, rows, signedIn, tableVars, seen, wasDown>>

\* ... or asks the connector for a new one.
UseConnector ==
    /\ req.pc = "client"
    /\ pool[req.device] = {}
    /\ req' = [req EXCEPT !.pc = "connect"]
    /\ UNCHANGED <<config, rows, signedIn, tableVars, pool, seen, wasDown>>

\* The page for a stream that could not be opened; the upstream just sees its stream dropped.
CannotConnect ==
    Answer(CASE req.entry = "upstream" -> "dropped"
             [] req.entry # "upstream" /\ is_websocket_upgrade(req.from.headers) -> "offline"
             [] OTHER -> unreachable_page)

\* TunnelConnector::call(): the route ...
TakeRoute ==
    /\ req.pc = "connect"
    /\ IF Online(req.device) THEN req' = [req EXCEPT !.pc = "opening", !.via = table[req.device]]
       ELSE CannotConnect
    /\ UNCHANGED <<config, rows, signedIn, tableVars, pool, seen, wasDown>>

\* ... and open_stream() on its link, which may not be the route any more.
OpenStream ==
    /\ req.pc = "opening"
    /\ req.via \in alive
    /\ req' = [req EXCEPT !.pc = "exchange"]
    /\ UNCHANGED <<config, rows, signedIn, tableVars, pool, seen, wasDown>>

\* TunnelError: the tunnel is gone, or opens no stream within OPEN_STREAM_TIMEOUT.
OpenFails ==
    /\ req.pc = "opening"
    /\ CannotConnect
    /\ UNCHANGED <<config, rows, signedIn, tableVars, pool, seen, wasDown>>

\* The device answers.  A plain connection goes back to the pool, an upgraded one is bridged until
\* either side ends it.
Exchange(names) ==
    /\ req.pc = "exchange"
    /\ req.via \in alive
    /\ req' = [req EXCEPT !.pc = "answered", !.answer = "served", !.row = NoValue, !.via = 0,
                          !.setCookies = IF req.entry = "upstream" THEN {} ELSE refuse_console_session_cookies(names)]
    /\ pool' = IF req.entry # "upstream" /\ ~ is_websocket_upgrade(req.from.headers)
               THEN [pool EXCEPT ![req.device] = @ \cup {req.via}] ELSE pool
    /\ UNCHANGED <<config, rows, signedIn, tableVars, seen, wasDown>>

\* Mutated: every error of the client is the offline page.
ExchangeFailsAsOffline ==
    /\ req.pc = "exchange"
    /\ CannotConnect
    /\ UNCHANGED <<config, rows, signedIn, tableVars, pool, seen, wasDown>>

\* The exchange fails after the stream was opened: the device's fault, not its absence.
ExchangeFails ==
    /\ req.pc = "exchange"
    /\ Answer(IF req.entry = "upstream" THEN "dropped" ELSE "bad-gateway")
    /\ UNCHANGED <<config, rows, signedIn, tableVars, pool, seen, wasDown>>

-----------------------------------------------------------------------------
(* What changes meanwhile.                                                 *)

Observe(r, users) ==
    seen' = IF req.pc = "idle" THEN NothingSeen
            ELSE LET now == Sight(req.device, IF req.entry = "upstream" THEN NoValue ELSE req.from.user, r, users)
                 IN  [f \in DOMAIN seen |-> seen[f] \/ now[f]]

\* apply_update() with a new access policy, by the owner or an administrator.
UpdateAccess(d, access) ==
    /\ rows[d].access # access
    /\ rows' = [rows EXCEPT ![d].access = access]
    /\ Observe(rows', signedIn)
    /\ UNCHANGED <<config, signedIn, tableVars, pool, req, wasDown>>

\* disown_devices_of(), when the owner is deleted; SignOut and TunnelDown are what else that does.
Disown ==
    /\ \E d \in Enrolled : rows[d].owner # NoValue
    /\ rows' = [d \in Enrolled |-> [rows[d] EXCEPT !.owner = NoValue]]
    /\ Observe(rows', signedIn)
    /\ UNCHANGED <<config, signedIn, tableVars, pool, req, wasDown>>

SignIn(u) ==
    /\ u \notin signedIn
    /\ signedIn' = signedIn \cup {u}
    /\ Observe(rows, signedIn')
    /\ UNCHANGED <<config, rows, tableVars, pool, req, wasDown>>

SignOut(u) ==
    /\ u \in signedIn
    /\ signedIn' = signedIn \ {u}
    /\ UNCHANGED <<config, rows, tableVars, pool, req, seen, wasDown>>

\* A tunnel for d registers, displacing another whose socket may live on for a while.  A route that
\* was taken to that one is not taken again.
TunnelUp(d) ==
    /\ lastTunnel < MaxTunnel
    /\ lastTunnel' = lastTunnel + 1
    /\ table' = [table EXCEPT ![d] = lastTunnel']
    /\ alive' = alive \cup {lastTunnel'}
    /\ recalled' = recalled \ {d}
    /\ UNCHANGED <<config, rows, signedIn, pool, req, seen, wasDown>>

\* A tunnel's socket is lost; every stream on it breaks.
TunnelBreaks(t) ==
    /\ t \in alive
    /\ alive' = alive \ {t}
    /\ wasDown' = (wasDown \/ (req.device \in Devices /\ table[req.device] = t))
    /\ UNCHANGED <<config, rows, signedIn, table, lastTunnel, recalled, pool, req, seen>>

\* withdraw_device() remembers what a downstream relay announced.
remember(d) == IF d \in Enrolled THEN recalled ELSE recalled \cup {d}

\* disconnect() or withdraw_device(): the device leaves the routing table.  One that was announced is
\* remembered unless its link has gone as well.
TunnelDown(d) ==
    /\ Online(d)
    /\ table' = [table EXCEPT ![d] = 0]
    /\ recalled' \in {recalled, remember(d)}
    /\ wasDown' = (wasDown \/ req.device = d)
    /\ UNCHANGED <<config, rows, signedIn, alive, lastTunnel, pool, req, seen>>

Forwarding ==
    \/ AnswerLocally \/ Follow \/ Done \/ FindDevice \/ FindDeviceFails \/ Admit \/ CheckOnline
    \/ UsePooled \/ UseConnector \/ TakeRoute \/ OpenStream \/ OpenFails \/ ExchangeFails
    \/ \E names \in {{}, {"session", "own"}} : Exchange(names)

Meanwhile ==
    \/ \E d \in Enrolled, access \in {"public", "relay-login"} : UpdateAccess(d, access)
    \/ Disown
    \/ \E u \in Users : SignIn(u) \/ SignOut(u)
    \/ \E d \in Devices : TunnelUp(d) \/ TunnelDown(d)
    \/ \E t \in alive : TunnelBreaks(t)

Next ==
    \/ \E q \in Requests : Receive(q)
    \/ \E d \in Devices : ReceiveStream(d)
    \/ Forwarding \/ Meanwhile

Spec == Init /\ [][Next]_vars

-----------------------------------------------------------------------------
(* Properties.                                                             *)

\* Every variable keeps its type.
TypeOK ==
    /\ config \in Configs
    /\ rows \in [Enrolled -> Row]
    /\ signedIn \subseteq Users
    /\ table \in [Devices -> 0..MaxTunnel] /\ alive \subseteq 1..MaxTunnel /\ lastTunnel \in 0..MaxTunnel
    /\ recalled \subseteq Devices \ Enrolled
    /\ pool \in [Devices -> SUBSET (1..MaxTunnel)]
    /\ DOMAIN req = DOMAIN NoRequest
    /\ req.pc \in {"idle", "relay", "slash", "lookup", "guard", "online", "client", "connect", "opening", "exchange",
                   "answered"}
    /\ req.via \in 0..MaxTunnel
    /\ seen \in [DOMAIN NothingSeen -> BOOLEAN] /\ wasDown \in BOOLEAN

\* The request got past the policy: it reached the device, or was told something about it.
Passed == req.pc \in {"online", "client", "connect", "opening", "exchange"}
          \/ req.answer \in {"served", "offline", "bad-gateway", "bad-request"}

\* Some policy and some session that held since the request arrived let it through.
Admissible == seen.public \/ (req.entry = "path" /\ seen.reachable /\ seen.signedIn)

\* "relay-login covers every request to the device - the page, its assets and the /ws upgrade.  A
\* stranger cannot even learn whether the device is online": with policies, owners and sessions
\* changing at any moment, a browser gets past the guard only if they allowed it since it asked.
GuardedRequests == req.entry \in {"path", "subdomain"} /\ Passed => Admissible

\* "its policy belongs to the relay it actually enrolled with, and that relay enforces it on its own
\* hop": a stream that comes down from an upstream relay reaches a device only if its policy lets a
\* request without a session through.
GuardedStreams == req.entry = "upstream" /\ req.pc = "exchange" => Admissible

\* "calling that 'offline' would send the user to check a computer that is running fine": a browser
\* is told that a device is offline or unknown only if at some moment since it asked the device had no
\* tunnel that works, or the tunnel that its stream was being opened on is not the device's any more,
\* or works and did not open it in time.  In the last two cases the computer may be running fine.
OfflineIsTrue ==
    [][req.answer = NoValue /\ req'.answer \in {"offline", "unknown"} =>
           wasDown \/ (req.pc = "opening" /\ (req.via # table[req.device] \/ req.via \in alive))]_vars

\* The host is the device d's own.
IsHostOf(d, host) == config.base # NoValue /\ host.labels = <<d>> \o config.base
IsDeviceHost(host) == \E d \in Devices : IsHostOf(d, host)

\* The URL names rest on the device d: on the device's own host what follows the slashes, elsewhere
\* what follows the device's directory, which may be written without its slash.
Names(url, d, rest) ==
    \/ /\ IsHostOf(d, url.host)
       /\ rest = <<Empty>> \/ rest[1] # Empty
       /\ \E i \in 1..Len(url.path) :
             (\A j \in 1..(i - 1) : url.path[j] = Empty) /\ rest = SubSeq(url.path, i, Len(url.path))
    \/ /\ ~ IsDeviceHost(url.host)
       /\ d # Empty /\ url.path \in {path_base(d) \o rest, path_base(d)}
       /\ url.path = path_base(d) => rest = <<Empty>>

NamesDevice(url) ==
    \/ IsDeviceHost(url.host)
    \/ \E d \in Segments \ {Empty} : Len(url.path) >= 2 /\ SubSeq(url.path, 1, 2) = path_base(d)

\* What a request is: the relay is told the host, or it has no part in what the URL names.
HostIsTold(q) == q.headers["host"] # <<>> \/ ~ IsDeviceHost(q.host)

\* A browser that sends its Host header gets what its URL names, of the device that its URL names, after
\* every redirect and with any policy: on its own host a device takes the paths the relay serves
\* elsewhere, and no other name leads to one.  So does one that does not, over HTTP/2, on any host that
\* is not a device's own.
RoutedAsMeant ==
    req.asked # NoValue /\ HostIsTold(req.asked) =>
        /\ req.pc = "relay" => ~ NamesDevice(req.asked)
        /\ req.rest # <<>> => Names(req.asked, req.device, req.rest)

\* The address the relay advertises for a device names it, and is routed to it.
AdvertisedIsRouted ==
    \A d \in Devices :
        LET url == device_url(d)
            told == [path |-> url.path, headers |-> [NoHeaders EXCEPT !["host"] = <<url.host>>]]
        IN  Names(url, d, <<Empty>>) /\ route_device_host(told).device = d

\* A browser is not sent around in circles, whatever the policy does meanwhile: one redirect, to the
\* path form or to the directory, then the login page or the device.
RedirectsEnd == req.redirects <= 1

\* When the first Cookie field is text, the console's session never crosses a tunnel, whichever field
\* carries it; and no device sets it.  Behind a first field that is not text it does cross.
SessionStaysHere ==
    /\ LET cookies == req.sent["cookie"] IN
       (req.from # NoValue /\ req.from.headers["cookie"] # <<>> /\ Head(req.from.headers["cookie"]).text)
         => \A i \in 1..Len(cookies) : "session" \notin cookies[i].names
    /\ "session" \notin req.setCookies

\* What the device is told about the browser is the relay's own word: one address, which is the
\* peer's unless a trusted proxy names one in front of plain HTTP, and one base; no header of the
\* browser adds to it or takes it away.
ToldByRelay ==
    req.pc \in {"client", "connect", "opening", "exchange"} /\ req.entry # "upstream" =>
        /\ LET claimed == req.from.headers["x-forwarded-for"] IN
           req.sent["x-forwarded-for"] =
              <<IF config.tls \/ req.from.peer # "proxy" \/ claimed = <<>> \/ Head(claimed) \in {"malformed", NoValue}
                THEN req.from.peer ELSE Head(claimed)>>
        /\ req.sent["x-termexo-base"] = <<base_path(req)>>
        /\ req.sent["te"] = <<>>

\* Requests are routed to what their URLs name, over at most one redirect.
RoutingInv == TypeOK /\ RoutedAsMeant /\ AdvertisedIsRouted /\ RedirectsEnd
=============================================================================
