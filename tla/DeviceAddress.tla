--------------------------- MODULE DeviceAddress ---------------------------
(***************************************************************************)
(* How a device is addressed and what a request looks like when it leaves  *)
(* for it: the two forms of an address and how they are read back          *)
(* (src/src/address.rs, config.rs, proxy.rs), what the relay believes about*)
(* the browser (forwarded.rs) and the headers it passes on (proxy.rs).     *)
(*                                                                         *)
(* A host name is the sequence of its labels, a path the sequence of what  *)
(* lies between its slashes: /d/x is <<"d", "x">> and /d/x/ is             *)
(* <<"d", "x", "">>.  A header map is a function from names to the fields  *)
(* of that name, none when it is absent: over HTTP/2 there is no Host.     *)
(***************************************************************************)
EXTENDS Naturals, Sequences

CONSTANTS
    Devices,     \* well-formed device ids
    NoValue,     \* Option::None
    PublicHost   \* the host of --public-url: its labels and port

VARIABLE config  \* the options the relay was started with; they do not change

-----------------------------------------------------------------------------
(* Addresses.                                                              *)

\* What lies between two slashes next to each other, or behind the last one.
Empty == ""

path_base(d) == <<"d", d>>

\* DeviceTarget::base_path(): what the device has to put before its own links.
base_path(target) == IF target.entry = "path" THEN path_base(target.device) ELSE <<>>

\* The address the relay advertises: the subdomain form when there is one.
device_url(d) ==
    IF config.base = NoValue
    THEN [host |-> PublicHost, path |-> path_base(d) \o <<Empty>>]
    ELSE [host |-> [labels |-> <<d>> \o config.base, port |-> PublicHost.port], path |-> <<Empty>>]

path_form_url(d, rest) == [host |-> PublicHost, path |-> path_base(d) \o rest]

\* normalize_host(): port, case and trailing dot are the browser's to choose.
normalize_host(host) == host.labels

\* SubdomainBase::label_of(): exactly one label in front of the base.
label_of(labels) ==
    IF Len(labels) = Len(config.base) + 1 /\ Tail(labels) = config.base THEN Head(labels) ELSE NoValue

\* device_from_host(): the label has to be a well-formed device id.
device_from_host(host) ==
    IF config.base = NoValue \/ host = NoValue THEN NoValue
    ELSE LET label == label_of(normalize_host(host)) IN IF label \in Devices THEN label ELSE NoValue

\* parse_device_path()
parse_device_path(path) ==
    IF Len(path) < 2 \/ path[1] # "d" \/ path[2] = Empty THEN [shape |-> "none", device |-> NoValue, rest |-> <<>>]
    ELSE IF Len(path) = 2 THEN [shape |-> "needs-slash", device |-> path[2], rest |-> <<>>]
    ELSE [shape |-> "resource", device |-> path[2], rest |-> SubSeq(path, 3, Len(path))]

\* trim_start_matches('/') of the path on a device's own host.
trim_slashes(path) ==
    LET first == CHOOSE i \in 1..Len(path) :
                    /\ i = Len(path) \/ path[i] # Empty
                    /\ \A j \in 1..(i - 1) : path[j] = Empty
    IN  SubSeq(path, first, Len(path))

-----------------------------------------------------------------------------
(* Headers.                                                                *)

HeaderNames == {"connection", "upgrade", "te", "cookie", "x-forwarded-for", "x-termexo-base", "host"}
HopByHop == {"connection", "upgrade", "te"}
NoHeaders == [n \in HeaderNames |-> <<>>]

\* One Cookie field: the cookies it names, and whether its value is text.
CookieField(names, text) == [names |-> names, text |-> text]

is_websocket_upgrade(h) == h["upgrade"] # <<>> /\ Head(h["upgrade"]) = "websocket"

\* strip_hop_by_hop(): the fixed names and those the first Connection field lists.
strip_hop_by_hop(h, keepUpgrade) ==
    LET listed == IF h["connection"] = <<>> THEN {} ELSE Head(h["connection"])
        kept == IF keepUpgrade THEN {"connection", "upgrade"} ELSE {}
    IN  [n \in HeaderNames |-> IF n \in (HopByHop \cup listed) \ kept THEN <<>> ELSE h[n]]

without_session(names) == names \ {"session"}

\* Mutated: a header of nothing but the session is passed on.
take_session_when_shared(h) ==
    IF h["cookie"] = <<>> \/ without_session(Head(h["cookie"]).names) = {} THEN h
    ELSE [h EXCEPT !["cookie"] = <<CookieField(without_session(Head(h["cookie"]).names), TRUE)>>]

\* take_console_session(): reads the first Cookie field, and what is left of it replaces them all.
take_console_session(h) ==
    IF h["cookie"] = <<>> \/ ~ Head(h["cookie"]).text THEN h
    ELSE LET left == without_session(Head(h["cookie"]).names)
         IN  [h EXCEPT !["cookie"] = IF left = {} THEN <<>> ELSE <<CookieField(left, TRUE)>>]

\* Mutated: the relay's own entries are set before the hop-by-hop ones are removed.
prepare_headers_set_first(h, ip, base, websocket) ==
    strip_hop_by_hop(
        [take_console_session(h) EXCEPT !["x-forwarded-for"] = <<ip>>, !["x-termexo-base"] = <<base>>,
                                        !["host"] = <<>>], websocket)

\* prepare_request_headers(): stripped first, so that nothing the browser lists removes what is set.
prepare_request_headers(h, ip, base, websocket) ==
    [take_console_session(strip_hop_by_hop(h, websocket)) EXCEPT
        !["host"] = <<>>, !["x-forwarded-for"] = <<ip>>, !["x-termexo-base"] = <<base>>]

\* refuse_console_session_cookies() on the names a device's response sets.
refuse_console_session_cookies(names) == without_session(names)

\* first_forwarded_address(): the first entry of a field, if it is an address.
first_forwarded_address(fields) ==
    IF fields = <<>> \/ Head(fields) = "malformed" THEN NoValue ELSE Head(fields)

\* forwarded::resolve(): forwarding headers count only from a trusted proxy in front of plain HTTP.
resolve(h, peer) ==
    LET trusted == ~ config.tls /\ peer = "proxy"
        ip == first_forwarded_address(h["x-forwarded-for"])
    IN  IF trusted /\ ip # NoValue THEN ip ELSE peer

\* read_session_cookies(): the session cookie is in a field that is text.
carries_session(h) ==
    \E i \in 1..Len(h["cookie"]) :
        LET field == h["cookie"][i] IN field.text /\ "session" \in field.names
=============================================================================
