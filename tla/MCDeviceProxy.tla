--------------------------- MODULE MCDeviceProxy ---------------------------
(***************************************************************************)
(* A small instance of DeviceProxy for TLC: a device with a row and one    *)
(* that is announced, its owner and another account, with and without      *)
(* device subdomains.                                                      *)
(***************************************************************************)
EXTENDS DeviceProxy

CONSTANTS d1, d2, u1, u2

MCPublicHost == [labels |-> <<"relay", "test">>, port |-> 8443]
\* Behind a proxy with path addresses only, and with device subdomains and its own certificate.
MCConfigs == {[base |-> NoValue, tls |-> FALSE], [base |-> MCPublicHost.labels, tls |-> TRUE]}

Cookies(fields) == [NoHeaders EXCEPT !["cookie"] = fields]
SessionFirst == Cookies(<<CookieField({"session", "own"}, TRUE)>>)
SessionOnly == Cookies(<<CookieField({"session"}, TRUE)>>)
SessionLast == Cookies(<<CookieField({"own"}, TRUE), CookieField({"session"}, TRUE)>>)
NotText == Cookies(<<CookieField({"own"}, FALSE), CookieField({"session"}, TRUE)>>)
Upgrading(h) == [h EXCEPT !["connection"] = <<{"upgrade"}>>, !["upgrade"] = <<"websocket">>]
Claiming(h, first) == [h EXCEPT !["x-forwarded-for"] = <<first, "more">>, !["te"] = <<"te">>,
                                !["connection"] = <<{"x-forwarded-for", "x-termexo-base"}>>]

\* A browser request with its Host header, and the same over HTTP/2.
Ask(host, path, headers, user, peer) ==
    [host |-> host, path |-> path, headers |-> [headers EXCEPT !["host"] = <<host>>], user |-> user, peer |-> peer]
Http2(q) == [q EXCEPT !.headers["host"] = <<>>]

Under(labels, port) == [labels |-> labels \o MCPublicHost.labels, port |-> port]

\* Requests by the path form, with every kind of header.
PathRequests ==
    {Ask(MCPublicHost, <<"d", d1, "ws">>, Upgrading(SessionLast), u, "browser") : u \in {u1, u2}}
    \cup {Ask(MCPublicHost, <<"d", d1, "ws">>, Claiming(NotText, "claimed"), u1, "proxy"),
          Http2(Ask(MCPublicHost, <<"d", d2, "", "ws">>, Claiming(SessionFirst, "malformed"), u1, "proxy"))}
    \cup {Http2(Ask(MCPublicHost, <<"d", d>>, NoHeaders, NoValue, "browser")) : d \in {d1, "nobody"}}

\* What the relay answers itself.
RelayRequests ==
    {Ask(MCPublicHost, p, NoHeaders, NoValue, "browser") : p \in {<<"d", "">>, <<"api", "x">>}}

\* Names under the base: a device's own host takes every path, other names fall through, and so does
\* a device's own host over HTTP/2.
HostRequests ==
    {Ask(Under(<<d1>>, 443), <<"api", "x">>, SessionFirst, u1, "browser"),
     Ask(Under(<<d1>>, 8443), <<"", "ws">>, Upgrading(SessionOnly), u1, "browser"),
     Http2(Ask(Under(<<d1>>, 8443), <<"">>, NoHeaders, NoValue, "browser"))}
    \cup {Ask(Under(labels, 8443), <<"">>, NoHeaders, NoValue, "browser") :
        labels \in {<<"www">>, <<"x", d1>>, <<d1, d2>>}}

MCSegments == {d1, d2, "d", "", "api", "x", "ws", "www", "nobody", "relay", "test"}
MCRequests == PathRequests \cup RelayRequests \cup HostRequests
=============================================================================
