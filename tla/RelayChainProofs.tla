-------------------------- MODULE RelayChainProofs --------------------------
(***************************************************************************)
(* Invariance proofs for RelayChain, for any number of relays, any hop     *)
(* budget and any number of joins, in whatever circle they are joined.     *)
(***************************************************************************)
EXTENDS RelayChain, SequenceTheorems, WellFoundedInduction, TLAPS

USE RelayChainAssumption DEF RelayChainAssumption

-----------------------------------------------------------------------------
(* The inductive strengthening.                                            *)

\* No relay is its own upstream.
UpInv == \A r \in Relays : up[r] # r

\* A welcome comes from some relay, and reaches one whose link is down.
OfferInv == \A r \in Relays : offer[r] = NoOffer \/ (offer[r].from \in Relays /\ up[r] = None)

\* A path that an announcement of r may carry: a simple one that begins with r, or none.
Announced(r, via) == via # <<>> => via[1] = r /\ IsInjective(via)

\* What is on the wire was a simple path when it was sent, whatever its sender's table says now.
WireInv == \A r \in Relays : \A i \in 1..Len(wire[r]) : Announced(r, wire[r][i].via)

\* So is what a session that is down at one end has yet to read; a registered one is not up again.
SessionOK(s) ==
    /\ s.from # s.to
    /\ s.registered => up[s.from] # s.to
    /\ \A i \in 1..Len(s.frames) : Announced(s.from, s.frames[i].via)

EndingInv == \A s \in ending : SessionOK(s)

\* What a table may hold for the device: nothing, the device itself, or a path that was accepted.
GoodRoute(r, route) ==
    \/ route = NoRoute \/ route = Direct(r)
    \/ /\ route.src # r /\ route.src \in Relays /\ route.hops # <<>> /\ route.hops[1] = route.src
       /\ IsInjective(route.hops) /\ r \notin ToSet(route.hops)
       /\ Len(route.hops) < MAX_HOPS

TableInv == \A r \in Relays : GoodRoute(r, routes[r])

\* A stream that is on its way is on its way to some relay.
MovingInv == stream.state = "moving" => stream.at \in Relays

ChainInv == TypeOK /\ UpInv /\ OfferInv /\ WireInv /\ EndingInv /\ TableInv /\ MovingInv

-----------------------------------------------------------------------------
(* Paths.                                                                  *)

LEMMA ToSetIs ==
    ASSUME NEW s \in Seq(Relays) PROVE \A x : x \in ToSet(s) <=> \E i \in 1..Len(s) : s[i] = x
  BY DEF ToSet

\* A relay that is not on a simple path makes a simple path before it, and behind it.
LEMMA ConsInjective ==
    ASSUME NEW s \in Seq(Relays), NEW r \in Relays
    PROVE  IsInjective(<<r>> \o s) <=> IsInjective(s) /\ r \notin ToSet(s)
  <1> DEFINE c == <<r>> \o s
  <1>1. /\ c \in Seq(Relays) /\ Len(c) = Len(s) + 1 /\ c[1] = r
        /\ \A i \in 1..Len(s) : c[i + 1] = s[i]
    OBVIOUS
  <1>2. DOMAIN c = 1..(Len(s) + 1) /\ DOMAIN s = 1..Len(s) /\ Len(s) \in Nat
    BY <1>1
  <1> HIDE DEF c
  <1>3. ASSUME IsInjective(c) PROVE IsInjective(s) /\ r \notin ToSet(s)
    <2>1. ASSUME NEW i \in 1..Len(s), NEW j \in 1..Len(s), s[i] = s[j] PROVE i = j
      <3>1. i + 1 \in DOMAIN c /\ j + 1 \in DOMAIN c /\ c[i + 1] = c[j + 1]
        BY <1>1, <1>2, <2>1
      <3>2. i + 1 = j + 1
        BY <1>3, <3>1 DEF IsInjective
      <3> QED BY <1>2, <3>2
    <2>2. ASSUME NEW i \in 1..Len(s), s[i] = r PROVE FALSE
      <3>1. i + 1 \in DOMAIN c /\ 1 \in DOMAIN c /\ c[i + 1] = c[1]
        BY <1>1, <1>2, <2>2
      <3>2. i + 1 = 1
        BY <1>3, <3>1 DEF IsInjective
      <3> QED BY <1>2, <3>2
    <2> QED BY <1>2, <2>1, <2>2, ToSetIs DEF IsInjective
  <1>4. ASSUME IsInjective(s), r \notin ToSet(s) PROVE IsInjective(c)
    <2>1. \A i \in 1..Len(s) : s[i] # r
      BY <1>4, ToSetIs
    <2>2. ASSUME NEW i \in 1..(Len(s) + 1), NEW j \in 1..(Len(s) + 1), c[i] = c[j] PROVE i = j
      <3>1. \A k \in 1..(Len(s) + 1) : k = 1 \/ (k - 1 \in 1..Len(s) /\ c[k] = s[k - 1])
        BY <1>1, <1>2
      <3>2. CASE i = 1
        BY <1>1, <2>1, <2>2, <3>1, <3>2
      <3>3. CASE j = 1
        BY <1>1, <2>1, <2>2, <3>1, <3>3
      <3>4. CASE i # 1 /\ j # 1
        <4>1. i - 1 \in DOMAIN s /\ j - 1 \in DOMAIN s /\ s[i - 1] = s[j - 1]
          BY <1>2, <2>2, <3>1, <3>4
        <4>2. i - 1 = j - 1
          BY <1>4, <4>1 DEF IsInjective
        <4> QED BY <1>2, <4>2
      <3> QED BY <3>2, <3>3, <3>4
    <2> QED BY <1>2, <2>2 DEF IsInjective
  <1> QED BY <1>3, <1>4 DEF c

LEMMA EmptyInjective == IsInjective(<<>>) /\ \A r \in Relays : IsInjective(<<r>>)
  BY DEF IsInjective

\* An accepted path is one that every relay along it carries a stream on.
LEMMA FitsBudget ==
    ASSUME NEW s \in Seq(Relays), NEW r \in Relays, IsInjective(s), r \notin ToSet(s), Len(s) < MAX_HOPS,
           NEW k \in 1..Len(s), NEW c \in Seq(Relays), Len(c) = k,
           \A i \in 1..k : c[i] = IF i = 1 THEN r ELSE s[i - 1]
    PROVE  extend_refuses(s[k], c) = "no"
  <1>1. ASSUME NEW i \in 1..k, c[i] = s[k] PROVE FALSE
    <2>1. i = 1 \/ (i - 1 \in 1..(k - 1) /\ c[i] = s[i - 1])
      OBVIOUS
    <2>2. s[k] # r
      BY ToSetIs
    <2>3. i = 1 \/ (i - 1 \in DOMAIN s /\ k \in DOMAIN s /\ i - 1 # k)
      BY <2>1
    <2> QED BY <1>1, <2>1, <2>2, <2>3 DEF IsInjective
  <1>2. s[k] \notin ToSet(c)
    BY <1>1, ToSetIs
  <1> QED BY <1>2 DEF extend_refuses

-----------------------------------------------------------------------------
(* What a relay sends.                                                     *)

\* The row of frames on r's link, one row of TypeOK and of WireInv.
GoodRow(r, w) ==
    /\ w \in Seq(Frame) /\ Len(w) <= WireBound + 1
    /\ \A i \in 1..Len(w) : Announced(r, w[i].via)

\* An entry with hops is an accepted path, and so is every entry through another relay.
LEMMA AcceptedPath ==
    ASSUME NEW r \in Relays, NEW route \in Route, GoodRoute(r, route),
           route.hops # <<>> \/ (route # NoRoute /\ route.src # r)
    PROVE  /\ route.src # r /\ route.src \in Relays /\ route.hops # <<>> /\ route.hops[1] = route.src
           /\ IsInjective(route.hops) /\ r \notin ToSet(route.hops)
           /\ Len(route.hops) < MAX_HOPS
  <1>1. route # NoRoute /\ route # Direct(r)
    BY DEF NoRoute, Direct
  <1> QED BY <1>1 DEF GoodRoute

LEMMA ViaIsSimple ==
    ASSUME NEW r \in Relays, NEW route \in Route, GoodRoute(r, route)
    PROVE  ViaOf(r, route) \in Seq(Relays) /\ Announced(r, ViaOf(r, route))
  <1>1. route.hops \in Seq(Relays)
    BY DEF Route
  <1>2. <<r>> \o route.hops \in Seq(Relays) /\ (<<r>> \o route.hops)[1] = r
    BY <1>1
  <1>3. IsInjective(route.hops) /\ r \notin ToSet(route.hops)
    <2>1. CASE route.hops = <<>>
      BY <2>1, EmptyInjective DEF ToSet
    <2>2. CASE route.hops # <<>>
      BY <2>2, AcceptedPath
    <2> QED BY <2>1, <2>2
  <1> QED BY <1>1, <1>2, <1>3, ConsInjective DEF ViaOf, Announced

LEMMA ChangeFramesGood ==
    ASSUME NEW r \in Relays, NEW route \in Route, GoodRoute(r, route), NEW u
    PROVE  /\ ChangeFrames(r, route, u) \in Seq(Frame) /\ Len(ChangeFrames(r, route, u)) <= 1
           /\ \A i \in 1..Len(ChangeFrames(r, route, u)) : Announced(r, ChangeFrames(r, route, u)[i].via)
  <1> DEFINE via == ViaOf(r, route)
  <1>1. via \in Seq(Relays) /\ Announced(r, via)
    BY ViaIsSimple
  <1> HIDE DEF via
  <1>2. /\ [kind |-> "offline", via |-> <<>>] \in Frame /\ Announced(r, <<>>)
        /\ [kind |-> "online", via |-> via] \in Frame
    BY <1>1 DEF Frame, Announced
  <1>3. \/ ChangeFrames(r, route, u) = <<>>
        \/ ChangeFrames(r, route, u) = <<[kind |-> "offline", via |-> <<>>]>>
        \/ ChangeFrames(r, route, u) = <<[kind |-> "online", via |-> via]>>
    BY DEF ChangeFrames, via
  <1>4. ASSUME NEW f \in Frame, Announced(r, f.via)
        PROVE  <<f>> \in Seq(Frame) /\ Len(<<f>>) <= 1 /\ \A i \in 1..Len(<<f>>) : Announced(r, <<f>>[i].via)
    BY <1>4
  <1>5. Announced(r, [kind |-> "offline", via |-> <<>>].via) /\ Announced(r, [kind |-> "online", via |-> via].via)
    BY <1>1, <1>2
  <1>6. CASE ChangeFrames(r, route, u) = <<>>
    BY <1>6
  <1>7. CASE ChangeFrames(r, route, u) = <<[kind |-> "offline", via |-> <<>>]>>
    BY <1>2, <1>4, <1>5, <1>7
  <1>8. CASE ChangeFrames(r, route, u) = <<[kind |-> "online", via |-> via]>>
    BY <1>2, <1>4, <1>5, <1>8
  <1> QED BY <1>3, <1>6, <1>7, <1>8

LEMMA LongerRow ==
    ASSUME NEW r \in Relays, NEW w, GoodRow(r, w), Len(w) < WireBound,
           NEW route \in Route, GoodRoute(r, route), NEW u
    PROVE  GoodRow(r, w \o ChangeFrames(r, route, u))
  <1> DEFINE cf == ChangeFrames(r, route, u)
  <1>1. cf \in Seq(Frame) /\ Len(cf) <= 1 /\ \A i \in 1..Len(cf) : Announced(r, cf[i].via)
    BY ChangeFramesGood
  <1> HIDE DEF cf
  <1>2. w \in Seq(Frame) /\ \A i \in 1..Len(w) : Announced(r, w[i].via)
    BY DEF GoodRow
  <1>3. /\ w \o cf \in Seq(Frame) /\ Len(w \o cf) = Len(w) + Len(cf)
        /\ \A i \in 1..(Len(w) + Len(cf)) :
               (w \o cf)[i] = IF i <= Len(w) THEN w[i] ELSE cf[i - Len(w)]
    BY <1>1, <1>2, ConcatProperties
  <1>4. ASSUME NEW i \in 1..Len(w \o cf) PROVE Announced(r, (w \o cf)[i].via)
    <2>1. Len(w) \in Nat /\ Len(cf) \in Nat
      BY <1>1, <1>2
    <2>2. CASE i <= Len(w)
      BY <1>2, <1>3, <2>1, <2>2
    <2>3. CASE ~ (i <= Len(w))
      <3>1. i - Len(w) \in 1..Len(cf) /\ (w \o cf)[i] = cf[i - Len(w)]
        BY <1>3, <2>1, <2>3
      <3> QED BY <1>1, <3>1
    <2> QED BY <2>2, <2>3
  <1>5. Len(w \o cf) <= WireBound + 1
    BY <1>1, <1>2, <1>3
  <1> QED BY <1>3, <1>4, <1>5 DEF GoodRow, cf

LEMMA ShorterRow ==
    ASSUME NEW r \in Relays, NEW w, GoodRow(r, w), w # <<>>
    PROVE  GoodRow(r, Tail(w)) /\ Head(w) \in Frame /\ Announced(r, Head(w).via)
  <1>1. w \in Seq(Frame) /\ Len(w) <= WireBound + 1 /\ \A i \in 1..Len(w) : Announced(r, w[i].via)
    BY DEF GoodRow
  <1>2. /\ Tail(w) \in Seq(Frame) /\ Len(Tail(w)) = Len(w) - 1 /\ Len(w) \in Nat \ {0}
        /\ \A i \in 1..Len(Tail(w)) : Tail(w)[i] = w[i + 1]
    BY <1>1
  <1>3. Head(w) = w[1] /\ Head(w) \in Frame
    BY <1>1
  <1>4. ASSUME NEW i \in 1..Len(Tail(w)) PROVE Announced(r, Tail(w)[i].via)
    <2>1. i + 1 \in 1..Len(w) /\ Tail(w)[i] = w[i + 1]
      BY <1>2
    <2> QED BY <1>1, <2>1
  <1>5. Len(Tail(w)) <= WireBound + 1
    BY <1>1, <1>2
  <1> QED BY <1>1, <1>2, <1>3, <1>4, <1>5 DEF GoodRow

-----------------------------------------------------------------------------
(* What a step leaves behind: the rows, the tables, the stream.            *)

LEMMA RowsAreGood ==
    ASSUME TypeOK, WireInv PROVE \A r \in Relays : GoodRow(r, wire[r])
  BY DEF TypeOK, WireInv, GoodRow

RowsOK(w) == w \in [Relays -> Seq(Frame)] /\ \A r \in Relays : GoodRow(r, w[r])

LEMMA RerouteKeeps ==
    ASSUME ChainInv, NEW r \in Relays, NEW route \in Route, GoodRoute(r, route), Reroute(r, route)
    PROVE  routes' \in [Relays -> Route] /\ TableInv' /\ RowsOK(wire')
  <1> DEFINE w == wire[r] \o ChangeFrames(r, route, up[r])
  <1>1. GoodRow(r, wire[r]) /\ Len(wire[r]) < WireBound
    BY RowsAreGood DEF ChainInv, Reroute
  <1>2. GoodRow(r, w)
    BY <1>1, LongerRow
  <1>3. wire' = [wire EXCEPT ![r] = w] /\ routes' = [routes EXCEPT ![r] = route]
    BY DEF Reroute
  <1>4. /\ wire \in [Relays -> Seq(Frame)] /\ routes \in [Relays -> Route]
        /\ \A x \in Relays : GoodRow(x, wire[x]) /\ GoodRoute(x, routes[x])
    BY RowsAreGood DEF ChainInv, TypeOK, TableInv
  <1>5. w \in Seq(Frame)
    BY <1>2 DEF GoodRow
  <1> HIDE DEF w
  <1>6. wire' \in [Relays -> Seq(Frame)] /\ \A x \in Relays : wire'[x] = IF x = r THEN w ELSE wire[x]
    BY <1>3, <1>4, <1>5
  <1>7. routes' \in [Relays -> Route] /\ \A x \in Relays : routes'[x] = IF x = r THEN route ELSE routes[x]
    BY <1>3, <1>4
  <1> QED BY <1>2, <1>4, <1>6, <1>7 DEF RowsOK, TableInv

\* A frame of r is read by u: what comes into the table is good, and so is what u says of it.
LEMMA ReceiveKeeps ==
    ASSUME ChainInv, NEW u \in Relays, NEW r \in Relays, u # r, NEW f \in Frame, Announced(r, f.via),
           NEW w, RowsOK(w), w[u] = wire[u], Receive(u, r, f, w)
    PROVE  routes' \in [Relays -> Route] /\ TableInv' /\ RowsOK(wire')
  <1> DEFINE route == Taken(u, r, f)
             row == wire[u] \o ChangeFrames(u, route, up[u])
  <1>1. /\ routes \in [Relays -> Route] /\ w \in [Relays -> Seq(Frame)]
        /\ \A x \in Relays : GoodRow(x, w[x]) /\ GoodRoute(x, routes[x])
    BY DEF ChainInv, TypeOK, TableInv, RowsOK
  <1>2. CASE ~ (Accepts(u, f.via) \/ Withdraws(u, r, f))
    BY <1>1, <1>2 DEF Receive, TableInv
  <1>3. CASE Accepts(u, f.via) \/ Withdraws(u, r, f)
    <2>1. /\ routes' = [routes EXCEPT ![u] = route] /\ Len(wire[u]) < WireBound
          /\ wire' = [w EXCEPT ![u] = row]
      BY <1>1, <1>3 DEF Receive
    <2>2. route \in Route /\ GoodRoute(u, route)
      <3>1. CASE Accepts(u, f.via)
        <4>1. route = [src |-> r, hops |-> f.via] /\ f.via \in Seq(Relays)
          BY <3>1 DEF Taken, Frame
        <4>2. [src |-> r, hops |-> f.via] \in Route
          BY <4>1 DEF Route
        <4>3. GoodRoute(u, [src |-> r, hops |-> f.via])
          BY <3>1, <4>1 DEF GoodRoute, Accepts, is_announcement_routable, Announced
        <4> QED BY <4>1, <4>2, <4>3
      <3>2. CASE ~ Accepts(u, f.via)
        BY <3>2 DEF Taken, NoRoute, Route, GoodRoute
      <3> QED BY <3>1, <3>2
    <2> HIDE DEF route
    <2>3. GoodRow(u, row) /\ row \in Seq(Frame)
      <3>1. GoodRow(u, wire[u])
        BY <1>1
      <3>2. GoodRow(u, row)
        BY <2>1, <2>2, <3>1, LongerRow
      <3> QED BY <3>2 DEF GoodRow
    <2> HIDE DEF row
    <2>4. wire' \in [Relays -> Seq(Frame)] /\ \A x \in Relays : wire'[x] = IF x = u THEN row ELSE w[x]
      BY <1>1, <2>1, <2>3
    <2>5. routes' \in [Relays -> Route] /\ \A x \in Relays : routes'[x] = IF x = u THEN route ELSE routes[x]
      BY <1>1, <2>1, <2>2
    <2> QED BY <1>1, <2>2, <2>3, <2>4, <2>5 DEF RowsOK, TableInv
  <1> QED BY <1>2, <1>3

LEMMA DeliverKeeps ==
    ASSUME ChainInv, NEW r \in Relays, Deliver(r)
    PROVE  routes' \in [Relays -> Route] /\ TableInv' /\ RowsOK(wire')
  <1> DEFINE u == up[r]
             f == Head(wire[r])
             t == Tail(wire[r])
             w == [wire EXCEPT ![r] = t]
  <1>1. u \in Relays /\ u # r /\ wire[r] # <<>>
    BY DEF Deliver, ChainInv, TypeOK, UpInv
  <1>2. wire \in [Relays -> Seq(Frame)] /\ \A x \in Relays : GoodRow(x, wire[x])
    BY RowsAreGood DEF ChainInv, TypeOK
  <1>3. GoodRow(r, t) /\ t \in Seq(Frame) /\ f \in Frame /\ Announced(r, f.via)
    BY <1>1, <1>2, ShorterRow DEF GoodRow
  <1>4. Receive(u, r, f, w)
    BY <1>2 DEF Deliver
  <1> HIDE DEF u, f, t
  <1>5. w \in [Relays -> Seq(Frame)] /\ \A x \in Relays : w[x] = IF x = r THEN t ELSE wire[x]
    BY <1>2, <1>3
  <1> HIDE DEF w
  <1>6. RowsOK(w) /\ w[u] = wire[u]
    BY <1>1, <1>2, <1>3, <1>5 DEF RowsOK
  <1> QED BY <1>1, <1>3, <1>4, <1>6, ReceiveKeeps

\* What is known of a session that the upstream has not ended.
LEMMA EndingSession ==
    ASSUME ChainInv, NEW s \in ending
    PROVE  /\ s \in Session /\ s.from \in Relays /\ s.to \in Relays /\ s.from # s.to /\ s.registered \in BOOLEAN
           /\ s.registered => up[s.from] # s.to
           /\ s.frames \in Seq(Frame) /\ \A i \in 1..Len(s.frames) : Announced(s.from, s.frames[i].via)
  <1>1. s \in Session /\ SessionOK(s)
    BY DEF ChainInv, TypeOK, EndingInv
  <1> QED BY <1>1 DEF Session, SessionOK

\* The session that has read its first frame.
LEMMA SessionReads ==
    ASSUME ChainInv, NEW s \in ending, s.frames # <<>>
    PROVE  LET t == [s EXCEPT !.frames = Tail(s.frames)] IN
           /\ t \in Session /\ SessionOK(t) /\ t.from = s.from /\ t.to = s.to /\ t.registered = s.registered
           /\ Head(s.frames) \in Frame /\ Announced(s.from, Head(s.frames).via)
  <1> DEFINE w == s.frames
             t == [s EXCEPT !.frames = Tail(w)]
  <1>1. /\ s \in Session /\ w \in Seq(Frame) /\ s.from # s.to /\ (s.registered => up[s.from] # s.to)
        /\ \A i \in 1..Len(w) : Announced(s.from, w[i].via)
    BY EndingSession
  <1>2. /\ Tail(w) \in Seq(Frame) /\ Len(Tail(w)) = Len(w) - 1 /\ Len(w) \in Nat \ {0}
        /\ \A i \in 1..Len(Tail(w)) : Tail(w)[i] = w[i + 1]
        /\ Head(w) = w[1] /\ Head(w) \in Frame
    BY <1>1
  <1>3. t \in Session /\ t.from = s.from /\ t.to = s.to /\ t.registered = s.registered /\ t.frames = Tail(w)
    BY <1>1, <1>2 DEF Session
  <1>4. ASSUME NEW i \in 1..Len(Tail(w)) PROVE Announced(s.from, Tail(w)[i].via)
    <2>1. i + 1 \in 1..Len(w) /\ Tail(w)[i] = w[i + 1]
      BY <1>2
    <2> QED BY <1>1, <2>1
  <1>5. Announced(s.from, Head(w).via)
    BY <1>1, <1>2
  <1> HIDE DEF t
  <1>6. SessionOK(t)
    BY <1>1, <1>3, <1>4 DEF SessionOK
  <1> QED BY <1>2, <1>3, <1>5, <1>6 DEF t

LEMMA LateKeeps ==
    ASSUME ChainInv, NEW s \in ending, DeliverLate(s)
    PROVE  /\ routes' \in [Relays -> Route] /\ TableInv' /\ RowsOK(wire')
           /\ ending' \subseteq Session /\ EndingInv' /\ strayed' \subseteq Relays \X Relays
  <1> DEFINE t == [s EXCEPT !.frames = Tail(s.frames)]
  <1>1. /\ s \in Session /\ s.from \in Relays /\ s.to \in Relays /\ s.from # s.to
        /\ Head(s.frames) \in Frame /\ Announced(s.from, Head(s.frames).via)
        /\ t \in Session /\ SessionOK(t)
    BY EndingSession, SessionReads DEF DeliverLate
  <1>2. RowsOK(wire)
    BY RowsAreGood DEF RowsOK, ChainInv, TypeOK
  <1>3. Receive(s.to, s.from, Head(s.frames), wire)
    BY DEF DeliverLate
  <1>4. routes' \in [Relays -> Route] /\ TableInv' /\ RowsOK(wire')
    BY <1>1, <1>2, <1>3, ReceiveKeeps
  <1>5. ending' = (ending \ {s}) \cup {t} /\ up' = up /\ (strayed' = strayed \/ strayed' = strayed \cup {<<s.from, s.to>>})
    BY DEF DeliverLate, chainVars
  <1> HIDE DEF t
  <1>6. ending' \subseteq Session /\ strayed' \subseteq Relays \X Relays
    BY <1>1, <1>5 DEF ChainInv, TypeOK
  <1>7. EndingInv'
    BY <1>1, <1>5 DEF ChainInv, EndingInv, SessionOK
  <1> QED BY <1>4, <1>6, <1>7

LEMMA EndedIs == \A st \in {"none", "delivered", "failed"} : Ended(st) \in Stream /\ Ended(st).state = st
  BY DEF Ended, Stream

LEMMA CarryKeeps ==
    ASSUME ChainInv, NEW x \in Relays, Routed(x), NEW hops \in Seq(Relays), Carry(x, hops)
    PROVE  stream' \in Stream /\ MovingInv'
  <1>1. routes[x].src \in Relays
    <2>1. GoodRoute(x, routes[x]) /\ routes[x] # NoRoute
      BY DEF ChainInv, TableInv, Routed
    <2>2. CASE routes[x] = Direct(x)
      BY <2>2 DEF Direct
    <2>3. CASE routes[x] # Direct(x)
      BY <2>1, <2>3 DEF GoodRoute
    <2> QED BY <2>2, <2>3
  <1>2. CASE stream' = Ended("delivered") \/ stream' = Ended("failed")
    BY <1>2, EndedIs DEF MovingInv
  <1>3. CASE stream' = [state |-> "moving", at |-> routes[x].src, hops |-> hops]
    BY <1>1, <1>3 DEF Stream, MovingInv
  <1> QED BY <1>2, <1>3 DEF Carry

-----------------------------------------------------------------------------
(* Every step keeps the chain's invariant.                                 *)

\* The links and the handshakes, which no announcement or stream step touches.
LinksOK ==
    /\ up \in [Relays -> Relays \cup {None}] /\ UpInv
    /\ chain \in [Relays -> Seq(Relays)]
    /\ offer \in [Relays -> Offer] /\ OfferInv
    /\ ending \subseteq Session /\ EndingInv /\ strayed \subseteq Relays \X Relays
    /\ moves \in 0..MaxMoves /\ toggles \in 0..MaxToggles

\* The three concerns that a step may touch make up the invariant.
LEMMA ChainParts ==
    ChainInv <=> /\ LinksOK
                 /\ routes \in [Relays -> Route] /\ TableInv
                 /\ RowsOK(wire)
                 /\ stream \in Stream /\ steady \in BOOLEAN /\ MovingInv
  BY DEF ChainInv, TypeOK, WireInv, LinksOK, RowsOK, GoodRow

LEMMA ChainInit == Init => ChainInv
  <1> SUFFICES ASSUME Init PROVE ChainInv
    OBVIOUS
  <1> USE DEF Init
  <1>1. LinksOK
    BY DEF LinksOK, UpInv, OfferInv, NoOffer, Offer, EndingInv
  <1>2. routes \in [Relays -> Route] /\ TableInv
    BY DEF Route, NoRoute, TableInv, GoodRoute
  <1>3. RowsOK(wire)
    BY DEF RowsOK, GoodRow
  <1>4. stream \in Stream /\ steady \in BOOLEAN /\ MovingInv
    BY EndedIs DEF MovingInv
  <1> QED BY <1>1, <1>2, <1>3, <1>4, ChainParts

LEMMA HandshakeKeeps ==
    ASSUME ChainInv, NEW r \in Relays, NEW u \in Relays,
           Welcome(r, u) \/ RefuseLoop(r) \/ Adopt(r) \/ LinkDown(r)
    PROVE  LinksOK' /\ RowsOK(wire')
  <1>1. /\ LinksOK /\ RowsOK(wire)
        /\ up \in [Relays -> Relays \cup {None}] /\ UpInv
        /\ chain \in [Relays -> Seq(Relays)] /\ offer \in [Relays -> Offer]
        /\ OfferInv /\ ending \subseteq Session /\ EndingInv /\ strayed \subseteq Relays \X Relays
        /\ moves \in 0..MaxMoves /\ toggles \in 0..MaxToggles
    BY ChainParts DEF LinksOK
  <1>2. NoOffer \in Offer
    BY DEF NoOffer, Offer
  <1>e. UNCHANGED <<up, ending>> => EndingInv'
    BY <1>1 DEF EndingInv, SessionOK
  <1>3. CASE Welcome(r, u)
    <2>1. [from |-> u, chain |-> chain[u]] \in Offer
      BY <1>1 DEF Offer
    <2>2. offer' \in [Relays -> Offer] /\ OfferInv' /\ moves' \in 0..MaxMoves
      BY <1>1, <1>3, <2>1 DEF Welcome, OfferInv
    <2> QED BY <1>1, <1>3, <1>e, <2>2 DEF Welcome, tableVars, LinksOK, UpInv
  <1>4. CASE RefuseLoop(r)
    <2>1. offer' \in [Relays -> Offer] /\ OfferInv'
      BY <1>1, <1>2, <1>4 DEF RefuseLoop, OfferInv
    <2> QED BY <1>1, <1>4, <1>e, <2>1 DEF RefuseLoop, tableVars, LinksOK, UpInv
  <1>5. CASE Adopt(r)
    <2> DEFINE from == offer[r].from
               above == offer[r].chain
               first == SnapshotFrame(r, from)
    <2>1. from \in Relays \cup {None} /\ above \in Seq(Relays)
      BY <1>1 DEF Offer
    <2>2. /\ from # r /\ offer[r] # NoOffer
          /\ up' = [up EXCEPT ![r] = from] /\ chain' = [chain EXCEPT ![r] = chain_of(from, above)]
          /\ ending' = {IF s.from = r /\ s.to = from THEN [s EXCEPT !.registered = FALSE] ELSE s : s \in ending}
          /\ wire' = [wire EXCEPT ![r] = <<first>>]
          /\ offer' = [offer EXCEPT ![r] = NoOffer] /\ UNCHANGED <<strayed, moves, toggles>>
      BY <1>5 DEF Adopt, refuse_loop
    <2>3. first \in Frame /\ Announced(r, first.via)
      <3>1. routes[r] \in Route /\ GoodRoute(r, routes[r])
        BY DEF ChainInv, TypeOK, TableInv
      <3>2. first = [kind |-> "announce", via |-> <<>>] \/ first = [kind |-> "announce", via |-> ViaOf(r, routes[r])]
        BY DEF SnapshotFrame
      <3>3. ViaOf(r, routes[r]) \in Seq(Relays) /\ Announced(r, ViaOf(r, routes[r]))
        BY <3>1, ViaIsSimple
      <3>4. Announced(r, <<>>) /\ <<>> \in Seq(Relays)
        BY DEF Announced
      <3>5. CASE first = [kind |-> "announce", via |-> <<>>]
        BY <3>4, <3>5 DEF Frame
      <3>6. CASE first = [kind |-> "announce", via |-> ViaOf(r, routes[r])]
        BY <3>3, <3>6 DEF Frame
      <3> QED BY <3>2, <3>5, <3>6
    <2> HIDE DEF from, above, first
    <2>4. GoodRow(r, <<first>>)
      BY <2>3 DEF GoodRow
    <2>5. RowsOK(wire')
      <3>1. wire \in [Relays -> Seq(Frame)] /\ <<first>> \in Seq(Frame)
        BY <1>1, <2>3 DEF RowsOK
      <3>2. wire' \in [Relays -> Seq(Frame)] /\ \A x \in Relays : wire'[x] = IF x = r THEN <<first>> ELSE wire[x]
        BY <2>2, <3>1
      <3> QED BY <1>1, <2>4, <3>2 DEF RowsOK
    <2>6. chain_of(from, above) \in Seq(Relays)
      <3>1. from \in Relays
        BY <1>1, <2>2 DEF OfferInv, from
      <3> QED BY <2>1, <3>1 DEF chain_of
    <2>7. up' \in [Relays -> Relays \cup {None}] /\ UpInv'
      BY <1>1, <2>1, <2>2 DEF UpInv
    <2>8. chain' \in [Relays -> Seq(Relays)] /\ offer' \in [Relays -> Offer] /\ OfferInv'
      BY <1>1, <1>2, <2>2, <2>6 DEF OfferInv
    <2>9. ending' \subseteq Session /\ EndingInv'
      <3>1. ASSUME NEW q \in ending' PROVE q \in Session /\ SessionOK(q)'
        <4>0. PICK s \in ending :
                  q = IF s.from = r /\ s.to = from THEN [s EXCEPT !.registered = FALSE] ELSE s
          BY <2>2, <3>1
        <4>1. /\ s \in Session /\ s.from # s.to /\ s.from \in Relays /\ s.to \in Relays
              /\ s.registered => up[s.from] # s.to
              /\ \A i \in 1..Len(s.frames) : Announced(s.from, s.frames[i].via)
          BY EndingSession
        <4>2. CASE s.from = r /\ s.to = from
          <5>1. q \in Session /\ q.from = s.from /\ q.to = s.to /\ ~ q.registered /\ q.frames = s.frames
            BY <4>0, <4>1, <4>2 DEF Session
          <5> QED BY <4>1, <5>1 DEF SessionOK
        <4>3. CASE ~ (s.from = r /\ s.to = from)
          <5>1. up'[s.from] = IF s.from = r THEN from ELSE up[s.from]
            BY <1>1, <2>2, <4>1
          <5>2. s.registered => up'[s.from] # s.to
            BY <4>1, <4>3, <5>1
          <5>3. q = s
            BY <4>0, <4>3
          <5> QED BY <4>1, <5>2, <5>3 DEF SessionOK
        <4> QED BY <4>2, <4>3
      <3> QED BY <3>1 DEF EndingInv
    <2> QED BY <1>1, <2>2, <2>5, <2>7, <2>8, <2>9 DEF LinksOK
  <1>6. CASE LinkDown(r)
    <2>s. PICK s : s = [from |-> r, to |-> up[r], registered |-> TRUE, frames |-> wire[r]]
      OBVIOUS
    <2>0. /\ up[r] \in Relays /\ up[r] # r /\ GoodRow(r, wire[r]) /\ wire[r] \in Seq(Frame)
          /\ up' = [up EXCEPT ![r] = None] /\ chain' = [chain EXCEPT ![r] = <<>>]
          /\ wire' = [wire EXCEPT ![r] = <<>>] /\ ending' = ending \cup {s}
          /\ UNCHANGED <<offer, strayed, toggles>>
      BY <1>1, <1>6, <2>s DEF LinkDown, RowsOK, UpInv
    <2>1. up' \in [Relays -> Relays \cup {None}] /\ UpInv' /\ chain' \in [Relays -> Seq(Relays)]
      BY <1>1, <2>0 DEF UpInv
    <2>2. GoodRow(r, <<>>)
      BY DEF GoodRow
    <2>3. RowsOK(wire')
      <3>1. wire \in [Relays -> Seq(Frame)] /\ <<>> \in Seq(Frame)
        BY <1>1 DEF RowsOK
      <3>2. wire' \in [Relays -> Seq(Frame)] /\ \A x \in Relays : wire'[x] = IF x = r THEN <<>> ELSE wire[x]
        BY <2>0, <3>1
      <3> QED BY <1>1, <2>2, <3>2 DEF RowsOK
    <2>4. s \in Session /\ s.from = r /\ s.to = up[r] /\ s.frames = wire[r]
      BY <2>0, <2>s DEF Session
    <2>5. EndingInv'
      <3>1. SessionOK(s)'
        <4>1. up'[r] = None /\ \A i \in 1..Len(wire[r]) : Announced(r, wire[r][i].via)
          BY <1>1, <2>0 DEF GoodRow
        <4> QED BY <2>0, <2>4, <4>1 DEF SessionOK
      <3>2. ASSUME NEW q \in ending PROVE SessionOK(q)'
        <4>1. q \in Session /\ SessionOK(q)
          BY <1>1 DEF EndingInv
        <4>2. q.from \in Relays /\ q.to \in Relays /\ q.to # None
          BY <4>1 DEF Session
        <4>3. q.registered => up'[q.from] # q.to
          <5>1. up'[q.from] = IF q.from = r THEN None ELSE up[q.from]
            BY <1>1, <2>0, <4>2
          <5> QED BY <4>1, <4>2, <5>1 DEF SessionOK
        <4> QED BY <4>1, <4>3 DEF SessionOK
      <3> QED BY <2>0, <3>1, <3>2 DEF EndingInv
    <2>6. OfferInv' /\ moves' \in 0..MaxMoves
      BY <1>1, <1>6, <2>0 DEF LinkDown, OfferInv
    <2> QED BY <1>1, <2>0, <2>1, <2>3, <2>4, <2>5, <2>6 DEF LinksOK
  <1> QED BY <1>3, <1>4, <1>5, <1>6

LEMMA TogglesKeep ==
    ASSUME ChainInv, Attach \/ Detach
    PROVE  LinksOK' /\ routes' \in [Relays -> Route] /\ TableInv' /\ RowsOK(wire')
  <1>1. /\ Direct(Home) \in Route /\ GoodRoute(Home, Direct(Home))
        /\ NoRoute \in Route /\ GoodRoute(Home, NoRoute)
    BY DEF Direct, NoRoute, Route, GoodRoute
  <1>2. Reroute(Home, Direct(Home)) \/ Reroute(Home, NoRoute)
    BY DEF Attach, Detach
  <1>3. routes' \in [Relays -> Route] /\ TableInv' /\ RowsOK(wire')
    BY <1>1, <1>2, RerouteKeeps
  <1>4. LinksOK /\ UNCHANGED <<up, chain, offer, ending, strayed, moves>> /\ toggles' \in 0..MaxToggles
    BY ChainParts DEF Attach, Detach, chainVars, LinksOK
  <1> QED BY <1>3, <1>4 DEF LinksOK, UpInv, OfferInv, EndingInv, SessionOK

LEMMA EndSessionKeeps ==
    ASSUME ChainInv, NEW s \in ending, EndSession(s)
    PROVE  LinksOK' /\ routes' \in [Relays -> Route] /\ TableInv' /\ RowsOK(wire')
  <1> DEFINE u == s.to
  <1>1. u \in Relays /\ NoRoute \in Route /\ GoodRoute(u, NoRoute)
    BY EndingSession DEF NoRoute, Route, GoodRoute
  <1>2. Reroute(u, NoRoute) \/ UNCHANGED <<routes, wire>>
    BY DEF EndSession
  <1>3. LinksOK'
    <2>1. LinksOK
      BY ChainParts
    <2>2. ending' \subseteq ending /\ strayed' \subseteq strayed /\ UNCHANGED <<up, chain, offer, moves, toggles>>
      BY DEF EndSession, chainVars
    <2>3. EndingInv'
      BY <2>1, <2>2 DEF LinksOK, EndingInv, SessionOK
    <2> QED BY <2>1, <2>2, <2>3 DEF LinksOK, UpInv, OfferInv
  <1> HIDE DEF u
  <1>4. CASE Reroute(u, NoRoute)
    BY <1>1, <1>3, <1>4, RerouteKeeps
  <1>5. CASE UNCHANGED <<routes, wire>>
    BY <1>3, <1>5, ChainParts DEF TableInv
  <1> QED BY <1>2, <1>4, <1>5

LEMMA StreamKeeps ==
    ASSUME ChainInv, Forward \/ \E r \in Relays : OpenStream(r)
    PROVE  stream' \in Stream /\ MovingInv'
  <1>1. stream \in Stream /\ stream.hops \in Seq(Relays)
    BY DEF ChainInv, TypeOK, Stream
  <1>2. ASSUME NEW r \in Relays, OpenStream(r) PROVE stream' \in Stream /\ MovingInv'
    <2>1. <<>> \in Seq(Relays) /\ <<r>> \in Seq(Relays)
      OBVIOUS
    <2>2. Routed(r) /\ (Carry(r, <<>>) \/ Carry(r, <<r>>))
      BY <1>2 DEF OpenStream
    <2> QED BY <2>1, <2>2, CarryKeeps
  <1>3. CASE Forward
    <2> DEFINE x == stream.at
               longer == Append(stream.hops, x)
    <2>1. x \in Relays /\ longer \in Seq(Relays)
      BY <1>1, <1>3 DEF Forward, ChainInv, MovingInv
    <2>2. stream' = Ended("failed") \/ (Routed(x) /\ Carry(x, longer))
      BY <1>3 DEF Forward
    <2> HIDE DEF x, longer
    <2> QED BY <2>1, <2>2, CarryKeeps, EndedIs DEF MovingInv
  <1> QED BY <1>2, <1>3

LEMMA ChainNext == ChainInv /\ [Next]_vars => ChainInv'
  <1> SUFFICES ASSUME ChainInv, [Next]_vars PROVE ChainInv'
    OBVIOUS
  <1> DEFINE Tables == routes \in [Relays -> Route] /\ TableInv
             Moving == stream \in Stream /\ steady \in BOOLEAN /\ MovingInv
  <1>1. LinksOK /\ Tables /\ RowsOK(wire) /\ Moving
    BY ChainParts
  <1>2. SUFFICES LinksOK' /\ Tables' /\ RowsOK(wire') /\ Moving'
    BY <1>2 DEF ChainInv, TypeOK, WireInv, LinksOK, RowsOK, GoodRow
  <1>3. UNCHANGED <<up, chain, offer, ending, strayed, moves, toggles>> => LinksOK'
    BY <1>1 DEF LinksOK, UpInv, OfferInv, EndingInv, SessionOK
  <1>4. UNCHANGED routes => Tables'
    BY <1>1 DEF TableInv
  <1>5. UNCHANGED wire => RowsOK(wire')
    BY <1>1
  <1>6. stream' = stream /\ (steady' = FALSE \/ steady' = steady) => Moving'
    BY <1>1 DEF MovingInv
  <1>7. ASSUME Update, steady' = FALSE PROVE LinksOK' /\ Tables' /\ RowsOK(wire') /\ Moving'
    <2>1. Moving'
      <3>1. stream' = stream
        BY <1>7 DEF Update, Welcome, RefuseLoop, Adopt, LinkDown, Deliver, DeliverLate, EndSession, Attach, Detach
      <3> QED BY <1>6, <1>7, <3>1
    <2>2. ASSUME NEW r \in Relays, NEW u \in Relays, Welcome(r, u) \/ RefuseLoop(r) \/ Adopt(r) \/ LinkDown(r)
          PROVE  LinksOK' /\ Tables' /\ RowsOK(wire')
      <3>1. UNCHANGED routes
        BY <2>2 DEF Welcome, RefuseLoop, Adopt, LinkDown, tableVars
      <3> QED BY <1>4, <2>2, <3>1, HandshakeKeeps
    <2>3. ASSUME NEW r \in Relays, Deliver(r) PROVE LinksOK' /\ Tables' /\ RowsOK(wire')
      <3>1. UNCHANGED <<up, chain, offer, ending, moves, toggles>> /\ strayed' \subseteq strayed
        BY <2>3 DEF Deliver, chainVars
      <3>2. LinksOK'
        BY <1>1, <3>1 DEF LinksOK, UpInv, OfferInv, EndingInv, SessionOK
      <3> QED BY <2>3, <3>2, DeliverKeeps
    <2>4. ASSUME NEW s \in ending, DeliverLate(s) PROVE LinksOK' /\ Tables' /\ RowsOK(wire')
      <3>1. UNCHANGED <<up, chain, offer, moves, toggles>>
        BY <2>4 DEF DeliverLate, chainVars
      <3>2. LinksOK'
        BY <1>1, <2>4, <3>1, LateKeeps DEF LinksOK, UpInv, OfferInv
      <3> QED BY <2>4, <3>2, LateKeeps
    <2> HIDE DEF Tables, Moving
    <2> QED BY <1>7, <2>1, <2>2, <2>3, <2>4, EndSessionKeeps, TogglesKeep DEF Update, Tables
  <1>8. CASE Forward \/ \E r \in Relays : OpenStream(r)
    <2>1. UNCHANGED <<up, chain, offer, ending, strayed, moves, toggles>> /\ UNCHANGED routes /\ UNCHANGED wire
      BY <1>8 DEF Forward, OpenStream, chainVars, tableVars
    <2>2. steady' \in BOOLEAN
      BY <1>1, <1>8 DEF Forward, OpenStream, Settled
    <2> QED BY <1>3, <1>4, <1>5, <1>8, <2>1, <2>2, StreamKeeps
  <1>9. CASE UNCHANGED vars
    BY <1>3, <1>4, <1>5, <1>6, <1>9 DEF vars, chainVars, tableVars
  <1> HIDE DEF Tables, Moving
  <1> QED BY <1>7, <1>8, <1>9 DEF Next

LEMMA ChainHolds == Spec => []ChainInv
  BY ChainInit, ChainNext, PTL DEF Spec

-----------------------------------------------------------------------------
(* Routes and streams.                                                     *)

\* However the relays are joined, and however late the announcements arrive, what a table holds is a
\* simple path of relays that starts with the link it is opened on, comes back through nobody, and is
\* short enough that no relay along it refuses the stream for its hop list: is_announcement_routable()
\* at the one end and extend() at the other draw the same line.
THEOREM RoutesAreWellFormed == Spec => []RouteInv
  <1>1. ChainInv => RouteInv
    <2> SUFFICES ASSUME ChainInv PROVE RouteInv
      OBVIOUS
    <2>1. \A r \in Relays : routes[r] \in Route /\ routes[r].hops \in Seq(Relays) /\ GoodRoute(r, routes[r])
      BY DEF ChainInv, TypeOK, TableInv, Route
    <2>2. ASSUME NEW r \in Relays
          PROVE  IsInjective(routes[r].hops) /\ r \notin ToSet(routes[r].hops)
      <3>1. CASE routes[r].hops = <<>>
        BY <3>1, EmptyInjective DEF ToSet
      <3>2. CASE routes[r].hops # <<>>
        BY <2>1, <3>2, AcceptedPath
      <3> QED BY <3>1, <3>2
    <2>3. RoutesAreSimplePaths
      <3>1. ASSUME NEW r \in Relays, Routed(r) PROVE IsInjective(<<r>> \o routes[r].hops)
        BY <2>1, <2>2, ConsInjective
      <3>2. ASSUME NEW r \in Relays, Routed(r), routes[r].src # r PROVE routes[r].hops[1] = routes[r].src
        BY <2>1, <3>2, AcceptedPath DEF Routed
      <3> QED BY <3>1, <3>2 DEF RoutesAreSimplePaths
    <2>4. RoutesFitBudget
      <3> SUFFICES ASSUME NEW r \in Relays, NEW k \in 1..Len(routes[r].hops)
                   PROVE  extend_refuses(routes[r].hops[k], <<r>> \o SubSeq(routes[r].hops, 1, k - 1)) = "no"
        BY DEF RoutesFitBudget
      <3>1. routes[r].hops # <<>>
        OBVIOUS
      <3>2. Len(routes[r].hops) < MAX_HOPS
        BY <2>1, <3>1, AcceptedPath
      <3> DEFINE h == routes[r].hops
                 before == SubSeq(h, 1, k - 1)
      <3>3. /\ before \in Seq(Relays) /\ Len(before) = k - 1
            /\ \A i \in 1..(k - 1) : before[i] = h[i]
        BY <2>1, SubSeqProperties
      <3> HIDE DEF before
      <3>4. /\ <<r>> \o before \in Seq(Relays) /\ Len(<<r>> \o before) = k
            /\ \A i \in 1..k : (<<r>> \o before)[i] = IF i = 1 THEN r ELSE h[i - 1]
        BY <3>3
      <3>5. h \in Seq(Relays) /\ IsInjective(h) /\ r \notin ToSet(h) /\ Len(h) < MAX_HOPS /\ k \in 1..Len(h)
        BY <2>1, <2>2, <3>2
      <3> HIDE DEF h
      <3>6. extend_refuses(h[k], <<r>> \o before) = "no"
        BY <3>4, <3>5, FitsBudget
      <3> QED BY <3>6 DEF h, before
    <2> QED BY <2>3, <2>4 DEF RouteInv, ChainInv
  <1> QED BY <1>1, ChainHolds, PTL

-----------------------------------------------------------------------------
(* What an upstream has been told.                                         *)

\* A relay that is routed through has a session here: one that is up, one that is ending and still
\* registered, or one that was displaced and had the last word.
HeldInv ==
    \A x, u \in Relays : routes[u].src = x /\ x # u =>
        \/ up[x] = u \/ <<x, u>> \in strayed
        \/ \E s \in ending : s.registered /\ s.from = x /\ s.to = u

\* What x has told u last is its present route; or x has meanwhile found another one that is no longer,
\* but that runs through u, so that u is not told of it.
Stands(x, u, route, via) ==
    via # <<>> =>
        /\ route # NoRoute
        /\ \/ via = ViaOf(x, route)
           \/ ~ is_routable_for(x, route, u) /\ Len(ViaOf(x, route)) <= Len(via)

\* The frames w of x to u, where u has the hops p from x: none leads through u, a new path is no longer
\* than the one before it unless that was withdrawn, and the last one stands.
Conveys(x, u, route, w, p) ==
    /\ \A i \in 1..Len(w) :
          /\ u \notin ToSet(w[i].via)
          /\ w[i].kind = "online" =>
                /\ w[i].via # <<>>
                /\ LET q == IF i = 1 THEN p ELSE w[i - 1].via IN q # <<>> => Len(w[i].via) <= Len(q)
    /\ Stands(x, u, route, IF w = <<>> THEN p ELSE w[Len(w)].via)

\* The hops that u has from x.
HopsFrom(x, entry) == IF entry.src = x THEN entry.hops ELSE <<>>

\* What u has from x by x's own present session.
Said(x, u) == IF <<x, u>> \in strayed THEN <<>> ELSE HopsFrom(x, routes[u])

ToldInv ==
    \A x, u \in Relays : up[x] = u => Conveys(x, u, routes[x], wire[x], Said(x, u))

\* Every set of numbers has a least one.
LEMMA LeastNumber ==
    ASSUME NEW T \in SUBSET Nat, T # {}
    PROVE  \E m \in T : \A n \in T : m <= n
  <1> DEFINE R == OpToRel(<, Nat)
  <1>1. R = {p \in Nat \X Nat : p[1] < p[2]}
    BY DEF OpToRel
  <1>2. IsWellFoundedOn(R, Nat)
    BY NatLessThanWellFounded
  <1> HIDE DEF R
  <1>3. PICK m \in T : \A n \in T : ~ (<<n, m>> \in R)
    BY <1>2, WFMin
  <1>4. ASSUME NEW n \in T PROVE m <= n
    <2>1. ~ (<<n, m>> \in R) /\ m \in Nat /\ n \in Nat
      BY <1>3, <1>4
    <2> QED BY <1>1, <2>1
  <1> QED BY <1>3, <1>4

\* Once nothing is in flight, the relay a route is opened on has a shorter route, and it is the rest of
\* this one, or else it runs through the relay that holds this one.
LEMMA NextHop ==
    ASSUME ChainInv, HeldInv, ToldInv, Settled, NEW r \in Relays, Routed(r), routes[r].src # r
    PROVE  LET x == routes[r].src IN
           /\ x \in Relays /\ up[x] = r /\ Routed(x)
           /\ Len(routes[x].hops) < Len(routes[r].hops)
           /\ routes[r].hops = ViaOf(x, routes[x]) \/ r \in ToSet(routes[x].hops)
  <1> DEFINE x == routes[r].src
  <1>1. \A y \in Relays : routes[y] \in Route /\ routes[y].hops \in Seq(Relays) /\ GoodRoute(y, routes[y])
    BY DEF ChainInv, TypeOK, TableInv, Route
  <1>2. x \in Relays /\ routes[r].hops # <<>>
    BY <1>1, AcceptedPath DEF Routed
  <1>3. up[x] = r /\ wire[x] = <<>>
    BY <1>2 DEF HeldInv, Settled
  <1>4. Stands(x, r, routes[x], routes[r].hops)
    <2>1. Said(x, r) = routes[r].hops
      BY DEF Said, Settled, HopsFrom
    <2> QED BY <1>2, <1>3, <2>1 DEF ToldInv, Conveys
  <1> HIDE DEF x
  <1>5. Len(ViaOf(x, routes[x])) = Len(routes[x].hops) + 1 /\ Len(routes[x].hops) \in Nat
    BY <1>1, <1>2 DEF ViaOf
  <1>6. r \in ToSet(ViaOf(x, routes[x])) => r \in ToSet(routes[x].hops)
    <2>1. x # r
      BY DEF x
    <2>2. \A i \in 1..(Len(routes[x].hops) + 1) :
              (<<x>> \o routes[x].hops)[i] = IF i = 1 THEN x ELSE routes[x].hops[i - 1]
      BY <1>1, <1>2
    <2>3. ViaOf(x, routes[x]) \in Seq(Relays)
      BY <1>1, <1>2 DEF ViaOf
    <2> SUFFICES ASSUME NEW i \in 1..Len(ViaOf(x, routes[x])), ViaOf(x, routes[x])[i] = r
                 PROVE  r \in ToSet(routes[x].hops)
      BY <2>3, ToSetIs
    <2>4. i # 1 /\ i - 1 \in 1..Len(routes[x].hops) /\ routes[x].hops[i - 1] = r
      BY <1>5, <2>1, <2>2 DEF ViaOf
    <2> QED BY <1>1, <1>2, <2>4, ToSetIs
  <1>7. /\ routes[x] # NoRoute
        /\ \/ routes[r].hops = ViaOf(x, routes[x])
           \/ r \in ToSet(ViaOf(x, routes[x])) /\ Len(ViaOf(x, routes[x])) <= Len(routes[r].hops)
    BY <1>2, <1>4 DEF Stands, is_routable_for
  <1>8. Len(routes[r].hops) \in Nat
    BY <1>1
  <1> QED BY <1>2, <1>3, <1>5, <1>6, <1>7, <1>8 DEF Routed, x

\* A relay's route cannot run through one whose route is longer: follow the shortest such route to its
\* next hop, and there is a shorter one.
LEMMA NobodyComesBack ==
    ASSUME ChainInv, HeldInv, ToldInv, Settled
    PROVE  ~ \E q, r \in Relays : r \in ToSet(routes[q].hops) /\ Len(routes[q].hops) < Len(routes[r].hops)
  <1> DEFINE L(y) == Len(routes[y].hops)
             Bad == {q \in Relays : \E r \in Relays : r \in ToSet(routes[q].hops) /\ L(q) < L(r)}
  <1>1. \A y \in Relays : routes[y] \in Route /\ routes[y].hops \in Seq(Relays) /\ GoodRoute(y, routes[y])
    BY DEF ChainInv, TypeOK, TableInv, Route
  <1>2. \A y \in Relays : L(y) \in Nat
    BY <1>1
  <1> SUFFICES ASSUME Bad # {} PROVE FALSE
    OBVIOUS
  <1>3. PICK m \in {L(y) : y \in Bad} : \A n \in {L(y) : y \in Bad} : m <= n
    <2>1. {L(y) : y \in Bad} \in SUBSET Nat /\ {L(y) : y \in Bad} # {}
      BY <1>2
    <2> HIDE DEF Bad, L
    <2> QED BY <2>1, LeastNumber
  <1>4. PICK q \in Bad : L(q) = m
    BY <1>3
  <1>5. \A y \in Bad : L(q) <= L(y)
    BY <1>3, <1>4
  <1>6. PICK r \in Relays : r \in ToSet(routes[q].hops) /\ L(q) < L(r)
    BY <1>4
  <1> DEFINE x == routes[q].src
  <1>7. q \in Relays /\ routes[q].hops # <<>>
    BY <1>4, <1>6 DEF ToSet
  <1>8. routes[q].src # q /\ Routed(q)
    BY <1>1, <1>7, AcceptedPath DEF Routed, NoRoute
  <1>9. x \in Relays /\ L(x) < L(q) /\ (routes[q].hops = ViaOf(x, routes[x]) \/ q \in ToSet(routes[x].hops))
    BY <1>7, <1>8, NextHop
  <1>10. ~ (L(q) <= L(x))
    BY <1>2, <1>7, <1>9
  <1>11. x \notin Bad
    BY <1>5, <1>10
  <1>12. q \notin ToSet(routes[x].hops)
    BY <1>7, <1>9, <1>11
  <1>13. routes[q].hops = <<x>> \o routes[x].hops
    BY <1>9, <1>12 DEF ViaOf
  <1>14. r = x \/ r \in ToSet(routes[x].hops)
    <2>1. PICK i \in 1..Len(routes[q].hops) : routes[q].hops[i] = r
      BY <1>1, <1>6, <1>7, ToSetIs
    <2>2. routes[x].hops \in Seq(Relays)
      BY <1>1, <1>9
    <2> HIDE DEF x
    <2> DEFINE h == routes[x].hops
    <2>3. /\ Len(<<x>> \o h) = Len(h) + 1 /\ Len(h) \in Nat
          /\ \A j \in 1..(Len(h) + 1) : (<<x>> \o h)[j] = IF j = 1 THEN x ELSE h[j - 1]
      BY <1>9, <2>2
    <2> HIDE DEF h
    <2>4. i \in 1..(Len(h) + 1) /\ r = IF i = 1 THEN x ELSE h[i - 1]
      BY <1>13, <2>1, <2>3 DEF h
    <2>5. i = 1 \/ i - 1 \in 1..Len(h)
      BY <2>3, <2>4
    <2> QED BY <2>2, <2>4, <2>5, ToSetIs DEF h
  <1>15. L(x) < L(r)
    <2>1. L(x) \in Nat /\ L(q) \in Nat /\ L(r) \in Nat /\ L(x) < L(q) /\ L(q) < L(r)
      BY <1>2, <1>6, <1>7, <1>9
    <2> HIDE DEF L
    <2> QED BY <2>1
  <1>16. r # x
    BY <1>2, <1>9, <1>15
  <1> QED BY <1>9, <1>11, <1>14, <1>15, <1>16

-----------------------------------------------------------------------------
(* What steps do to what an upstream has been told.                        *)

\* An upstream that no longer has the device from x has nothing to be corrected.
LEMMA ConveysForgotten ==
    ASSUME NEW x, NEW u, NEW route, NEW w, NEW p, Conveys(x, u, route, w, p)
    PROVE  Conveys(x, u, route, w, <<>>)
  BY DEF Conveys, Stands

\* The first frame takes the place of what the upstream had.
LEMMA ConveysRest ==
    ASSUME NEW x, NEW u, NEW route, NEW w \in Seq(Frame), w # <<>>, NEW p, Conveys(x, u, route, w, p)
    PROVE  Conveys(x, u, route, Tail(w), Head(w).via)
  <1> DEFINE t == Tail(w)
             h == Head(w).via
  <1>1. /\ Len(t) = Len(w) - 1 /\ Len(w) \in Nat \ {0} /\ h = w[1].via
        /\ \A i \in 1..Len(t) : t[i] = w[i + 1] /\ i + 1 \in 1..Len(w)
        /\ t = <<>> <=> Len(t) = 0
    <2>1. Len(w) \in Nat \ {0} /\ Tail(w) \in Seq(Frame) /\ Len(Tail(w)) = Len(w) - 1
      OBVIOUS
    <2>2. Head(w) = w[1] /\ \A i \in 1..Len(Tail(w)) : Tail(w)[i] = w[i + 1]
      OBVIOUS
    <2>3. \A i \in 1..Len(Tail(w)) : i + 1 \in 1..Len(w)
      BY <2>1
    <2>4. Tail(w) = <<>> <=> Len(Tail(w)) = 0
      BY <2>1, EmptySeq
    <2> QED BY <2>1, <2>2, <2>3, <2>4
  <1> HIDE DEF t, h
  <1>2. ASSUME NEW i \in 1..Len(t)
        PROVE  /\ u \notin ToSet(t[i].via)
               /\ t[i].kind = "online" =>
                     /\ t[i].via # <<>>
                     /\ LET q == IF i = 1 THEN h ELSE t[i - 1].via IN q # <<>> => Len(t[i].via) <= Len(q)
    <2>1. i + 1 \in 1..Len(w) /\ t[i] = w[i + 1] /\ i + 1 # 1 /\ (i + 1) - 1 = i
      BY <1>1
    <2>2. (IF i = 1 THEN h ELSE t[i - 1].via) = w[i].via
      BY <1>1
    <2> QED BY <2>1, <2>2 DEF Conveys
  <1>3. (IF t = <<>> THEN h ELSE t[Len(t)].via) = w[Len(w)].via
    BY <1>1
  <1>4. Stands(x, u, route, w[Len(w)].via)
    BY DEF Conveys
  <1> QED BY <1>2, <1>3, <1>4 DEF Conveys, t, h

\* A snapshot says what is so, whatever the upstream had.
LEMMA ConveysSnapshot ==
    ASSUME NEW x \in Relays, NEW u, NEW p
    PROVE  Conveys(x, u, routes[x], <<SnapshotFrame(x, u)>>, p)
  <1> DEFINE f == SnapshotFrame(x, u)
  <1>1. /\ f.kind = "announce" /\ u \notin ToSet(f.via) /\ Stands(x, u, routes[x], f.via)
    <2>1. CASE Routed(x) /\ is_routable_for(x, routes[x], u)
      BY <2>1 DEF SnapshotFrame, is_routable_for, Stands, Routed
    <2>2. CASE ~ (Routed(x) /\ is_routable_for(x, routes[x], u))
      BY <2>2 DEF SnapshotFrame, Stands, ToSet
    <2> QED BY <2>1, <2>2
  <1> HIDE DEF f
  <1>2. <<f>> # <<>> /\ Len(<<f>>) = 1 /\ <<f>>[1] = f
    OBVIOUS
  <1> QED BY <1>1, <1>2 DEF Conveys, f

\* One more frame stands if it says what is so and is no longer than the path before it.
LEMMA ConveysOneMore ==
    ASSUME NEW x, NEW u, NEW old, NEW new, NEW w \in Seq(Frame), NEW p, Conveys(x, u, old, w, p),
           NEW f \in Frame, u \notin ToSet(f.via), Stands(x, u, new, f.via),
           f.kind = "online" =>
               /\ f.via # <<>>
               /\ LET q == IF w = <<>> THEN p ELSE w[Len(w)].via IN q # <<>> => Len(f.via) <= Len(q)
    PROVE  Conveys(x, u, new, w \o <<f>>, p)
  <1> DEFINE t == w \o <<f>>
             n == Len(w)
  <1>1. /\ n \in Nat /\ Len(t) = n + 1 /\ t # <<>> /\ t[n + 1] = f
        /\ \A i \in 1..n : t[i] = w[i]
        /\ w = <<>> <=> n = 0
    <2>1. n \in Nat /\ Len(t) = n + 1 /\ t[n + 1] = f
      OBVIOUS
    <2>2. \A i \in 1..n : t[i] = w[i]
      OBVIOUS
    <2>3. (w = <<>> <=> n = 0) /\ t # <<>>
      OBVIOUS
    <2> QED BY <2>1, <2>2, <2>3
  <1> HIDE DEF t
  <1>2. ASSUME NEW i \in 1..Len(t)
        PROVE  /\ u \notin ToSet(t[i].via)
               /\ t[i].kind = "online" =>
                     /\ t[i].via # <<>>
                     /\ LET q == IF i = 1 THEN p ELSE t[i - 1].via IN q # <<>> => Len(t[i].via) <= Len(q)
    <2>1. CASE i = n + 1
      <3>1. (IF i = 1 THEN p ELSE t[i - 1].via) = IF w = <<>> THEN p ELSE w[Len(w)].via
        BY <1>1, <2>1
      <3> QED BY <1>1, <2>1, <3>1
    <2>2. CASE i # n + 1
      <3>1. i \in 1..Len(w) /\ t[i] = w[i] /\ (i # 1 => t[i - 1] = w[i - 1])
        BY <1>1, <2>2
      <3> QED BY <3>1 DEF Conveys
    <2> QED BY <2>1, <2>2
  <1>3. Stands(x, u, new, IF t = <<>> THEN p ELSE t[Len(t)].via)
    BY <1>1
  <1> QED BY <1>2, <1>3 DEF Conveys, t

\* A new entry is a withdrawal, a first one, or no longer than the one before it.
Betters(old, new) == new = NoRoute \/ old = NoRoute \/ Len(new.hops) <= Len(old.hops)

\* What announcement_frame() makes of such a change, if anything, leaves the last word standing.
LEMMA ConveysChange ==
    ASSUME NEW x \in Relays, NEW u \in Relays, NEW old \in Route, NEW new \in Route, Betters(old, new),
           NEW w \in Seq(Frame), NEW p \in Seq(Relays), Conveys(x, u, old, w, p)
    PROVE  Conveys(x, u, new, w \o ChangeFrames(x, new, u), p)
  <1> DEFINE via == ViaOf(x, new)
             last == IF w = <<>> THEN p ELSE w[Len(w)].via
  <1>1. Stands(x, u, old, last) /\ last \in Seq(Relays)
    <2>1. w # <<>> => w[Len(w)] \in Frame
      OBVIOUS
    <2> QED BY <2>1 DEF Conveys, Frame
  <1>2. /\ Len(via) = Len(new.hops) + 1 /\ Len(new.hops) \in Nat /\ via # <<>> /\ via \in Seq(Relays)
        /\ Len(ViaOf(x, old)) = Len(old.hops) + 1 /\ Len(old.hops) \in Nat
    <2>1. new.hops \in Seq(Relays) /\ old.hops \in Seq(Relays)
      BY DEF Route
    <2> QED BY <2>1 DEF ViaOf
  <1>3. u \in Relays /\ u # None
    OBVIOUS
  <1>4. new # NoRoute /\ last # <<>> => Len(via) <= Len(last)
    <2> HIDE DEF last, via
    <2> SUFFICES ASSUME new # NoRoute, last # <<>> PROVE Len(via) <= Len(last)
      OBVIOUS
    <2>1. old # NoRoute /\ (last = ViaOf(x, old) \/ Len(ViaOf(x, old)) <= Len(last))
      BY <1>1 DEF Stands
    <2>2. Len(via) <= Len(ViaOf(x, old))
      BY <1>2, <2>1 DEF Betters
    <2>3. Len(last) \in Nat
      BY <1>1
    <2> QED BY <1>2, <2>1, <2>2, <2>3
  <1> HIDE DEF via, last
  <1>5. CASE new = NoRoute
    <2> DEFINE f == [kind |-> "offline", via |-> <<>>]
    <2>1. ChangeFrames(x, new, u) = <<f>>
      BY <1>3, <1>5 DEF ChangeFrames
    <2>2. f \in Frame /\ f.kind # "online" /\ u \notin ToSet(f.via) /\ Stands(x, u, new, f.via)
      BY DEF Frame, ToSet, Stands
    <2> HIDE DEF f
    <2> QED BY <2>1, <2>2, ConveysOneMore
  <1>6. CASE new # NoRoute /\ is_routable_for(x, new, u)
    <2> DEFINE f == [kind |-> "online", via |-> via]
    <2>1. ChangeFrames(x, new, u) = <<f>>
      BY <1>3, <1>6 DEF ChangeFrames, via
    <2>2. /\ f \in Frame /\ f.via = via /\ f.via # <<>> /\ u \notin ToSet(f.via) /\ Stands(x, u, new, f.via)
          /\ last # <<>> => Len(f.via) <= Len(last)
      <3>1. f.via = via /\ f \in Frame
        BY <1>2 DEF Frame
      <3>2. u \notin ToSet(via) /\ Stands(x, u, new, via)
        BY <1>6 DEF is_routable_for, Stands, via
      <3> HIDE DEF f
      <3> QED BY <1>2, <1>4, <1>6, <3>1, <3>2
    <2> HIDE DEF f
    <2> QED BY <2>1, <2>2, ConveysOneMore DEF last
  <1>7. CASE new # NoRoute /\ ~ is_routable_for(x, new, u)
    <2>1. w \o ChangeFrames(x, new, u) = w
      BY <1>3, <1>7 DEF ChangeFrames
    <2>2. Stands(x, u, new, last)
      BY <1>4, <1>7 DEF Stands, via
    <2> QED BY <2>1, <2>2 DEF Conveys, last
  <1> QED BY <1>5, <1>6, <1>7

\* What the steps start from.
LEMMA RowTypes ==
    ASSUME ChainInv
    PROVE  /\ up \in [Relays -> Relays \cup {None}] /\ \A x \in Relays : up[x] # x
           /\ wire \in [Relays -> Seq(Frame)] /\ routes \in [Relays -> Route]
           /\ \A x, y \in Relays : GoodRoute(x, routes[x]) /\ HopsFrom(y, routes[x]) \in Seq(Relays)
           /\ \A x, y \in Relays : Said(x, y) \in Seq(Relays)
  <1>1. \A x, y \in Relays : HopsFrom(y, routes[x]) \in Seq(Relays)
    BY DEF ChainInv, TypeOK, HopsFrom, Route
  <1> QED BY <1>1 DEF ChainInv, TypeOK, UpInv, TableInv, Said

\* Of the links other than the one from r to u nothing is forgotten that a displaced session did.
OthersKept(r, u) ==
    \A x, v \in Relays : x # r \/ v # u => (<<x, v>> \in strayed' <=> <<x, v>> \in strayed)

\* The entry of u changes to one from r, or to its own device, or to none, and u says so.  What others
\* have told u is gone with the entry that was there; w is what was left on the links before.
LEMMA EntryChanges ==
    ASSUME ChainInv, ToldInv, NEW u \in Relays, NEW r \in Relays, NEW route \in Route,
           Betters(routes[u], route), route.src \in {r, u, None},
           NEW w \in [Relays -> Seq(Frame)], \A x \in Relays : w[x] = wire[x] \/ (x = r /\ up[r] = u),
           up' = up, routes' = [routes EXCEPT ![u] = route],
           wire' = [w EXCEPT ![u] = @ \o ChangeFrames(u, route, up[u])],
           OthersKept(r, u), up[r] = u => Conveys(r, u, routes[r], w[r], Said(r, u)')
    PROVE  ToldInv'
  <1>1. /\ routes \in [Relays -> Route] /\ \A x \in Relays : up[x] # x
        /\ \A x, y \in Relays : Said(x, y) \in Seq(Relays)
    BY RowTypes
  <1>2. /\ \A x \in Relays : routes'[x] = IF x = u THEN route ELSE routes[x]
        /\ \A x \in Relays : wire'[x] = IF x = u THEN w[x] \o ChangeFrames(u, route, up[u]) ELSE w[x]
    BY <1>1
  <1> SUFFICES ASSUME NEW x \in Relays, NEW v \in Relays, up[x] = v
               PROVE  Conveys(x, v, routes'[x], wire'[x], Said(x, v)')
    BY DEF ToldInv
  <1>3. Conveys(x, v, routes[x], wire[x], Said(x, v)) /\ x # v
    BY <1>1 DEF ToldInv
  <1>4. CASE x = u
    <2>1. routes[x] \in Route /\ w[x] = wire[x] /\ w[x] \in Seq(Frame) /\ Said(x, v) \in Seq(Relays)
      BY <1>1, <1>4
    <2>2. Conveys(x, v, route, w[x] \o ChangeFrames(x, route, v), Said(x, v))
      BY <1>3, <1>4, <2>1, ConveysChange
    <2>3. routes'[v] = routes[v] /\ (<<x, v>> \in strayed' <=> <<x, v>> \in strayed)
      BY <1>2, <1>3, <1>4 DEF OthersKept
    <2>4. Said(x, v)' = Said(x, v)
      BY <2>3 DEF Said, HopsFrom
    <2>5. routes'[x] = route /\ wire'[x] = w[x] \o ChangeFrames(x, route, v)
      BY <1>2, <1>4
    <2> QED BY <2>2, <2>4, <2>5
  <1>5. CASE x # u /\ v = u /\ x = r
    BY <1>2, <1>5
  <1>6. CASE x # u /\ v = u /\ x # r
    <2>1. Said(x, v)' = <<>>
      BY <1>2, <1>6 DEF Said, HopsFrom
    <2>2. routes'[x] = routes[x] /\ wire'[x] = wire[x]
      BY <1>2, <1>6
    <2> QED BY <1>3, <2>1, <2>2, ConveysForgotten
  <1>7. CASE x # u /\ v # u
    <2>1. routes'[v] = routes[v] /\ (<<x, v>> \in strayed' <=> <<x, v>> \in strayed)
      BY <1>2, <1>7 DEF OthersKept
    <2>2. Said(x, v)' = Said(x, v)
      BY <2>1 DEF Said, HopsFrom
    <2>3. routes'[x] = routes[x] /\ wire'[x] = wire[x]
      BY <1>2, <1>7
    <2> QED BY <1>3, <2>2, <2>3
  <1> QED BY <1>4, <1>5, <1>6, <1>7

\* No entry changes.
LEMMA EntriesStay ==
    ASSUME ChainInv, ToldInv, NEW u \in Relays, NEW r \in Relays, up' = up, routes' = routes,
           \A x \in Relays : wire'[x] = wire[x] \/ (x = r /\ up[r] = u),
           OthersKept(r, u), up[r] = u => Conveys(r, u, routes[r], wire'[r], Said(r, u)')
    PROVE  ToldInv'
  <1> SUFFICES ASSUME NEW x \in Relays, NEW v \in Relays, up[x] = v, x # r \/ v # u
               PROVE  Conveys(x, v, routes'[x], wire'[x], Said(x, v)')
    BY DEF ToldInv
  <1>1. Said(x, v)' = Said(x, v)
    <2>1. <<x, v>> \in strayed' <=> <<x, v>> \in strayed
      BY DEF OthersKept
    <2> QED BY <2>1 DEF Said
  <1>2. wire'[x] = wire[x]
    OBVIOUS
  <1> QED BY <1>1, <1>2 DEF ToldInv

\* The entry of u becomes a route of r's, or none, and u says so.
EntryBecomes(u, r, route, w) ==
    /\ Betters(routes[u], route) /\ route.src \in {r, None}
    /\ routes' = [routes EXCEPT ![u] = route]
    /\ wire' = [w EXCEPT ![u] = @ \o ChangeFrames(u, route, up[u])]

\* A frame is read: what the upstream makes of it is what was said, or nothing, if a path that it says is
\* new is no longer than the one that is there.
LEMMA ReceiveTells ==
    ASSUME ChainInv, NEW u \in Relays, NEW r \in Relays, u # r, NEW f \in Frame,
           NEW w \in [Relays -> Seq(Frame)], Receive(u, r, f, w)
    PROVE  /\ \/ routes' = routes /\ wire' = w
              \/ \E route \in Route : EntryBecomes(u, r, route, w)
           /\ \/ /\ f.kind = "online"
                 /\ \/ u \in ToSet(f.via) \/ f.via = <<>>
                    \/ HopsFrom(r, routes[u]) # <<>> /\ ~ (Len(f.via) <= Len(HopsFrom(r, routes[u])))
              \/ HopsFrom(r, routes'[u]) \in {<<>>, f.via}
  <1> DEFINE via == f.via
             taken == [src |-> r, hops |-> via]
  <1>1. routes \in [Relays -> Route] /\ GoodRoute(u, routes[u]) /\ routes[u] \in Route
    BY RowTypes
  <1>2. via \in Seq(Relays) /\ f.kind \in {"online", "offline", "announce"}
    BY DEF Frame
  <1>3. taken \in Route /\ NoRoute \in Route /\ NoRoute.src = None
    BY <1>2 DEF Route, NoRoute
  <1>4. CASE Accepts(u, via)
    <2>1. Betters(routes[u], taken)
      BY <1>4 DEF Accepts, Betters, Routed, replaces
    <2>2. /\ routes' = [routes EXCEPT ![u] = taken]
          /\ wire' = [w EXCEPT ![u] = @ \o ChangeFrames(u, taken, up[u])]
      BY <1>4 DEF Receive, Taken
    <2>3. HopsFrom(r, routes'[u]) = via
      BY <1>1, <2>2 DEF HopsFrom
    <2>4. EntryBecomes(u, r, taken, w)
      BY <2>1, <2>2 DEF EntryBecomes
    <2> HIDE DEF taken
    <2> QED BY <1>3, <2>3, <2>4
  <1>5. CASE ~ Accepts(u, via) /\ Withdraws(u, r, f)
    <2>1. /\ routes' = [routes EXCEPT ![u] = NoRoute]
          /\ wire' = [w EXCEPT ![u] = @ \o ChangeFrames(u, NoRoute, up[u])]
      BY <1>5 DEF Receive, Taken
    <2>2. HopsFrom(r, routes'[u]) = <<>>
      BY <1>1, <1>3, <2>1 DEF HopsFrom
    <2>3. Betters(routes[u], NoRoute)
      BY DEF Betters
    <2>4. EntryBecomes(u, r, NoRoute, w)
      BY <1>3, <2>1, <2>3 DEF EntryBecomes
    <2> QED BY <1>3, <2>2, <2>4
  <1>6. CASE ~ Accepts(u, via) /\ ~ Withdraws(u, r, f)
    <2>1. routes' = routes /\ wire' = w
      BY <1>6 DEF Receive
    <2>2. CASE routes[u].src # r
      BY <2>1, <2>2 DEF HopsFrom
    <2>3. CASE routes[u].src = r
      <3>1. f.kind = "online"
        BY <1>2, <1>6, <2>3 DEF Withdraws
      <3>2. routes[u] # NoRoute /\ routes[u].hops \in Seq(Relays)
        BY <1>1, <1>3, <2>3 DEF Route
      <3>3. routes[u].hops # <<>> /\ Len(routes[u].hops) < MAX_HOPS
        BY <1>1, <2>3, <3>2, AcceptedPath
      <3> SUFFICES ASSUME u \notin ToSet(via), via # <<>>, Len(via) <= Len(routes[u].hops) PROVE FALSE
        BY <2>1, <2>3, <3>1, <3>3 DEF HopsFrom
      <3>4. Len(via) \in Nat /\ Len(routes[u].hops) \in Nat
        BY <1>2, <3>2
      <3>5. Len(via) < MAX_HOPS
        BY <3>3, <3>4
      <3> QED BY <1>6, <2>3, <3>5 DEF Accepts, is_announcement_routable, replaces
    <2> QED BY <2>2, <2>3
  <1> QED BY <1>4, <1>5, <1>6

\* A frame is read by the session that is up.
LEMMA DeliverTells ==
    ASSUME ChainInv, ToldInv, NEW r \in Relays, Deliver(r) PROVE ToldInv'
  <1> DEFINE u == up[r]
             f == Head(wire[r])
             w == [wire EXCEPT ![r] = Tail(@)]
  <1>1. /\ wire \in [Relays -> Seq(Frame)] /\ u \in Relays /\ u # r /\ wire[r] # <<>> /\ up' = up
        /\ wire[r] \in Seq(Frame)
    BY RowTypes DEF Deliver, chainVars
  <1>2. f \in Frame /\ Tail(wire[r]) \in Seq(Frame) /\ f = wire[r][1] /\ 1 \in 1..Len(wire[r])
    BY <1>1
  <1>3. /\ w \in [Relays -> Seq(Frame)] /\ w[r] = Tail(wire[r])
        /\ \A x \in Relays : w[x] = wire[x] \/ (x = r /\ up[r] = u)
    BY <1>1, <1>2
  <1>4. Receive(u, r, f, w)
    BY <1>1 DEF Deliver
  <1>5. Conveys(r, u, routes[r], wire[r], Said(r, u))
    BY <1>1 DEF ToldInv
  <1>6. Conveys(r, u, routes[r], w[r], f.via)
    BY <1>1, <1>3, <1>5, ConveysRest
  <1>7. OthersKept(r, u) /\ (f.kind = "announce" \/ strayed' = strayed)
        /\ (f.kind = "announce" => <<r, u>> \notin strayed')
    BY DEF Deliver, OthersKept
  <1>8. Conveys(r, u, routes[r], w[r], Said(r, u)')
    <2>1. CASE <<r, u>> \in strayed'
      <3>1. Said(r, u)' = <<>>
        BY <1>1, <2>1 DEF Said
      <3> QED BY <1>6, <3>1, ConveysForgotten
    <2>2. CASE <<r, u>> \notin strayed'
      <3>1. Said(r, u)' = HopsFrom(r, routes'[u])
        BY <1>1, <2>2 DEF Said, HopsFrom
      <3>2. f.kind = "online" =>
                /\ u \notin ToSet(f.via) /\ f.via # <<>>
                /\ HopsFrom(r, routes[u]) # <<>> => Len(f.via) <= Len(HopsFrom(r, routes[u]))
        <4>1. f.kind = "online" => Said(r, u) = HopsFrom(r, routes[u])
          BY <1>7, <2>2 DEF Said
        <4> QED BY <1>2, <1>5, <4>1 DEF Conveys
      <3>3. HopsFrom(r, routes'[u]) \in {<<>>, f.via}
        <4> HIDE DEF u, f, w
        <4> QED BY <1>1, <1>2, <1>3, <1>4, <3>2, ReceiveTells
      <3> QED BY <1>6, <3>1, <3>3, ConveysForgotten
    <2> QED BY <2>1, <2>2
  <1> HIDE DEF f, w
  <1>9. CASE routes' = routes /\ wire' = w
    BY <1>1, <1>3, <1>7, <1>8, <1>9, EntriesStay
  <1>10. ASSUME NEW route \in Route, EntryBecomes(u, r, route, w) PROVE ToldInv'
    BY <1>1, <1>3, <1>7, <1>8, <1>10, EntryChanges DEF EntryBecomes
  <1> HIDE DEF u
  <1> QED BY <1>1, <1>2, <1>3, <1>4, <1>9, <1>10, ReceiveTells

\* A frame is read by a session that is ending: if the relay's next one is up, this one was displaced.
LEMMA LateTells ==
    ASSUME ChainInv, ToldInv, NEW s \in ending, DeliverLate(s) PROVE ToldInv'
  <1> DEFINE u == s.to
             r == s.from
             f == Head(s.frames)
  <1>1. /\ wire \in [Relays -> Seq(Frame)] /\ u \in Relays /\ r \in Relays /\ u # r /\ up' = up
        /\ f \in Frame /\ (s.registered => up[r] # u)
    BY RowTypes, EndingSession, SessionReads DEF DeliverLate, chainVars
  <1>2. Receive(u, r, f, wire)
    BY DEF DeliverLate
  <1>3. OthersKept(r, u)
    BY DEF DeliverLate, OthersKept
  <1>4. ASSUME up[r] = u PROVE Conveys(r, u, routes[r], wire[r], Said(r, u)')
    <2>1. <<r, u>> \in strayed'
      BY <1>1, <1>4 DEF DeliverLate
    <2>2. Said(r, u)' = <<>>
      BY <2>1 DEF Said
    <2> QED BY <1>1, <1>4, <2>2, ConveysForgotten DEF ToldInv
  <1> HIDE DEF f, u, r
  <1>5. CASE routes' = routes /\ wire' = wire
    BY <1>1, <1>3, <1>4, <1>5, EntriesStay
  <1>6. ASSUME NEW route \in Route, EntryBecomes(u, r, route, wire) PROVE ToldInv'
    BY <1>1, <1>3, <1>4, <1>6, EntryChanges DEF EntryBecomes
  <1> QED BY <1>1, <1>2, <1>5, <1>6, ReceiveTells

\* An entry changes by itself: its own device's, or one whose session has ended.
LEMMA RerouteTells ==
    ASSUME ChainInv, ToldInv, NEW u \in Relays, NEW r \in Relays, up[r] # u, NEW route \in Route,
           Betters(routes[u], route), route.src \in {u, None}, up' = up, OthersKept(r, u), Reroute(u, route)
    PROVE  ToldInv'
  <1>1. wire \in [Relays -> Seq(Frame)]
    BY RowTypes
  <1>2. /\ routes' = [routes EXCEPT ![u] = route]
        /\ wire' = [wire EXCEPT ![u] = @ \o ChangeFrames(u, route, up[u])]
    BY DEF Reroute
  <1> QED BY <1>1, <1>2, EntryChanges

LEMMA TogglesTell ==
    ASSUME ChainInv, ToldInv, Attach \/ Detach PROVE ToldInv'
  <1>1. up[Home] # Home /\ routes[Home] \in Route
    BY RowTypes
  <1>2. up' = up /\ OthersKept(Home, Home)
    BY DEF Attach, Detach, chainVars, OthersKept
  <1>3. CASE Attach
    <2>1. Direct(Home) \in Route /\ Direct(Home).src = Home /\ Direct(Home).hops = <<>>
      BY DEF Direct, Route
    <2>2. routes[Home].hops \in Seq(Relays)
      BY <1>1 DEF Route
    <2>3. Betters(routes[Home], Direct(Home))
      BY <2>1, <2>2 DEF Betters
    <2> QED BY <1>1, <1>2, <1>3, <2>1, <2>3, RerouteTells DEF Attach
  <1>4. CASE Detach
    <2>1. NoRoute \in Route /\ NoRoute.src = None /\ Betters(routes[Home], NoRoute)
      BY DEF NoRoute, Route, Betters
    <2> QED BY <1>1, <1>2, <1>4, <2>1, RerouteTells DEF Detach
  <1> QED BY <1>3, <1>4

LEMMA EndSessionTells ==
    ASSUME ChainInv, ToldInv, NEW s \in ending, EndSession(s) PROVE ToldInv'
  <1> DEFINE u == s.to
             r == s.from
  <1>1. u \in Relays /\ r \in Relays /\ up' = up /\ (s.registered => up[r] # u)
    BY EndingSession DEF EndSession, chainVars
  <1>2. OthersKept(r, u)
    BY DEF EndSession, OthersKept
  <1>3. (~ s.registered => strayed' = strayed) /\ (Reroute(u, NoRoute) \/ UNCHANGED <<routes, wire>>)
    BY DEF EndSession
  <1>4. Reroute(u, NoRoute) => s.registered \/ UNCHANGED <<routes, wire>>
    BY DEF EndSession
  <1> HIDE DEF u, r
  <1>5. CASE s.registered /\ Reroute(u, NoRoute)
    <2>1. NoRoute \in Route /\ NoRoute.src = None /\ Betters(routes[u], NoRoute)
      BY DEF NoRoute, Route, Betters
    <2> QED BY <1>1, <1>2, <1>5, <2>1, RerouteTells
  <1>6. CASE s.registered /\ UNCHANGED <<routes, wire>>
    BY <1>1, <1>2, <1>6, EntriesStay
  <1>7. CASE ~ s.registered /\ UNCHANGED <<routes, wire>>
    BY <1>1, <1>3, <1>7 DEF ToldInv, Said
  <1> QED BY <1>3, <1>4, <1>5, <1>6, <1>7

\* A relay that joins sends what is so; one whose link goes down has nobody to tell.
LEMMA HandshakeTells ==
    ASSUME ChainInv, ToldInv, NEW r \in Relays, Adopt(r) \/ LinkDown(r) PROVE ToldInv'
  <1>1. up \in [Relays -> Relays \cup {None}] /\ wire \in [Relays -> Seq(Frame)]
    BY RowTypes
  <1>2. UNCHANGED <<routes, strayed>>
    BY DEF Adopt, LinkDown
  <1>3. \A x, v \in Relays : Said(x, v)' = Said(x, v)
    BY <1>2 DEF Said
  <1> SUFFICES ASSUME NEW x \in Relays, NEW v \in Relays, up'[x] = v
               PROVE  Conveys(x, v, routes[x], wire'[x], Said(x, v))
    BY <1>2, <1>3 DEF ToldInv
  <1>4. CASE x # r
    <2>1. up'[x] = up[x] /\ wire'[x] = wire[x]
      BY <1>1, <1>4 DEF Adopt, LinkDown
    <2> QED BY <2>1 DEF ToldInv
  <1>5. CASE x = r
    <2>1. Adopt(r)
      BY <1>1, <1>5 DEF LinkDown
    <2>2. up' = [up EXCEPT ![r] = offer[r].from] /\ wire' = [wire EXCEPT ![r] = <<SnapshotFrame(r, offer[r].from)>>]
      BY <2>1 DEF Adopt
    <2>3. v = offer[r].from /\ wire'[x] = <<SnapshotFrame(x, v)>>
      BY <1>1, <1>5, <2>2
    <2> QED BY <2>3, ConveysSnapshot
  <1> QED BY <1>4, <1>5

LEMMA ToldNext == ChainInv /\ ToldInv /\ [Next]_vars => ToldInv'
  <1> SUFFICES ASSUME ChainInv, ToldInv, [Next]_vars PROVE ToldInv'
    OBVIOUS
  <1>1. ASSUME UNCHANGED <<up, routes, wire, strayed>> PROVE ToldInv'
    BY <1>1 DEF ToldInv, Said
  <1>2. ASSUME Update PROVE ToldInv'
    <2>1. ASSUME NEW r \in Relays, NEW u \in Relays, Welcome(r, u) \/ RefuseLoop(r) PROVE ToldInv'
      <3>1. UNCHANGED <<up, routes, wire, strayed>>
        BY <2>1 DEF Welcome, RefuseLoop, tableVars
      <3> QED BY <1>1, <3>1
    <2> QED BY <1>2, <2>1, HandshakeTells, DeliverTells, LateTells, EndSessionTells, TogglesTell DEF Update
  <1>3. CASE Forward \/ \E r \in Relays : OpenStream(r)
    <2>1. UNCHANGED <<up, routes, wire, strayed>>
      BY <1>3 DEF Forward, OpenStream, chainVars, tableVars
    <2> QED BY <1>1, <2>1
  <1>4. CASE UNCHANGED vars
    BY <1>1, <1>4 DEF vars, chainVars, tableVars
  <1> QED BY <1>2, <1>3, <1>4 DEF Next

-----------------------------------------------------------------------------
(* Whose sessions the routes are.                                          *)

\* One link of HeldInv.
Held(x, u) ==
    \/ up[x] = u \/ <<x, u>> \in strayed
    \/ \E s \in ending : s.registered /\ s.from = x /\ s.to = u

\* A route that a step installs is one of r's at u, which r's session holds after it; the others keep theirs.
LEMMA HeldKept ==
    ASSUME ChainInv, HeldInv, NEW r \in Relays, NEW u \in Relays,
           \A v \in Relays : \/ routes'[v].src = routes[v].src \/ routes'[v].src \in {v, None}
                             \/ v = u /\ routes'[v].src = r,
           \A x, v \in Relays : routes'[v].src = x /\ x # v /\ Held(x, v) => Held(x, v)',
           routes'[u].src = r /\ routes[u].src # r => Held(r, u)'
    PROVE  HeldInv'
  <1> SUFFICES ASSUME NEW x \in Relays, NEW v \in Relays, routes'[v].src = x, x # v
               PROVE  Held(x, v)'
    BY DEF HeldInv, Held
  <1>1. CASE routes[v].src = x
    <2>1. Held(x, v)
      BY <1>1 DEF HeldInv, Held
    <2> QED BY <2>1
  <1>2. CASE routes[v].src # x
    <2>1. v = u /\ x = r
      BY <1>2
    <2> QED BY <1>2, <2>1
  <1> QED BY <1>1, <1>2

\* What a frame of r can do to u's entry.
LEMMA ReceiveMoves ==
    ASSUME ChainInv, NEW u \in Relays, NEW r \in Relays, NEW f, NEW w, Receive(u, r, f, w)
    PROVE  \A v \in Relays : \/ routes'[v].src = routes[v].src \/ routes'[v].src \in {v, None}
                             \/ v = u /\ routes'[v].src = r
  <1>1. routes \in [Relays -> Route] /\ Taken(u, r, f).src \in {r, None}
    BY RowTypes DEF Taken, NoRoute
  <1> QED BY <1>1 DEF Receive

LEMMA DeliverHolds ==
    ASSUME ChainInv, HeldInv, NEW r \in Relays, Deliver(r) PROVE HeldInv'
  <1> DEFINE u == up[r]
  <1>1. u \in Relays /\ up' = up /\ ending' = ending
    BY RowTypes DEF Deliver, chainVars
  <1>2. \A v \in Relays : \/ routes'[v].src = routes[v].src \/ routes'[v].src \in {v, None}
                          \/ v = u /\ routes'[v].src = r
    BY <1>1, ReceiveMoves DEF Deliver
  <1>3. \A x, v \in Relays : Held(x, v) => Held(x, v)'
    <2>1. \A x, v \in Relays : <<x, v>> \in strayed => <<x, v>> \in strayed' \/ up[x] = v
      BY DEF Deliver
    <2> QED BY <1>1, <2>1 DEF Held
  <1>4. Held(r, u)'
    BY <1>1 DEF Held
  <1> QED BY <1>1, <1>2, <1>3, <1>4, HeldKept

LEMMA LateHolds ==
    ASSUME ChainInv, HeldInv, NEW s \in ending, DeliverLate(s) PROVE HeldInv'
  <1> DEFINE u == s.to
             r == s.from
  <1>0. PICK t : t = [s EXCEPT !.frames = Tail(@)]
    OBVIOUS
  <1>1. /\ s \in Session /\ u \in Relays /\ r \in Relays /\ up' = up /\ strayed \subseteq strayed'
        /\ ending' = (ending \ {s}) \cup {t}
        /\ s.registered \/ <<r, u>> \in strayed'
    BY <1>0, EndingSession DEF DeliverLate, chainVars
  <1>2. t.from = r /\ t.to = u /\ t.registered = s.registered /\ t \in ending'
    BY <1>0, <1>1 DEF Session
  <1>3. \A v \in Relays : \/ routes'[v].src = routes[v].src \/ routes'[v].src \in {v, None}
                          \/ v = u /\ routes'[v].src = r
    BY <1>1, ReceiveMoves DEF DeliverLate
  <1>4. ASSUME NEW x \in Relays, NEW v \in Relays, Held(x, v) PROVE Held(x, v)'
    <2>1. CASE up[x] = v \/ <<x, v>> \in strayed
      BY <1>1, <2>1 DEF Held
    <2>2. ASSUME NEW q \in ending, q.registered, q.from = x, q.to = v PROVE Held(x, v)'
      <3>1. CASE q = s
        BY <1>2, <2>2, <3>1 DEF Held
      <3>2. CASE q # s
        BY <1>1, <2>2, <3>2 DEF Held
      <3> QED BY <3>1, <3>2
    <2> QED BY <1>4, <2>1, <2>2 DEF Held
  <1>5. Held(r, u)'
    BY <1>1, <1>2 DEF Held
  <1> HIDE DEF u, r
  <1> QED BY <1>1, <1>3, <1>4, <1>5, HeldKept

LEMMA EndSessionHolds ==
    ASSUME ChainInv, HeldInv, NEW s \in ending, EndSession(s) PROVE HeldInv'
  <1> DEFINE u == s.to
             r == s.from
  <1>1. /\ u \in Relays /\ r \in Relays /\ u # r /\ up' = up /\ ending' = ending \ {s}
        /\ routes \in [Relays -> Route] /\ s.registered \in BOOLEAN
    BY EndingSession, RowTypes DEF EndSession, chainVars
  <1>2. CASE s.registered
    <2>1. /\ \A v \in Relays : routes'[v].src = routes[v].src \/ routes'[v].src = None
          /\ routes'[u].src # r
      <3>1. NoRoute.src = None
        BY DEF NoRoute
      <3>2. CASE routes[u].src = r
        <4>1. routes' = [routes EXCEPT ![u] = NoRoute]
          BY <1>2, <3>2 DEF EndSession, Reroute
        <4> QED BY <1>1, <3>1, <4>1
      <3>3. CASE routes[u].src # r
        BY <1>2, <3>3 DEF EndSession
      <3> QED BY <3>2, <3>3
    <2>2. strayed' = strayed \ {<<r, u>>}
      BY <1>2 DEF EndSession
    <2>3. ASSUME NEW x \in Relays, NEW v \in Relays, Held(x, v), x # r \/ v # u PROVE Held(x, v)'
      <3>1. <<x, v>> \in strayed => <<x, v>> \in strayed'
        BY <2>2, <2>3
      <3>2. \A q \in ending : q.from = x /\ q.to = v => q \in ending'
        BY <1>1, <2>3
      <3> QED BY <1>1, <2>3, <3>1, <3>2 DEF Held
    <2> HIDE DEF u, r
    <2> QED BY <1>1, <2>1, <2>3, HeldKept
  <1>3. CASE ~ s.registered
    <2>1. UNCHANGED <<routes, strayed>>
      BY <1>3 DEF EndSession
    <2>2. \A q \in ending : q.registered => q \in ending'
      BY <1>1, <1>3
    <2> QED BY <1>1, <2>1, <2>2 DEF HeldInv
  <1> QED BY <1>1, <1>2, <1>3

LEMMA AdoptHolds ==
    ASSUME ChainInv, HeldInv, NEW r \in Relays, Adopt(r) PROVE HeldInv'
  <1> DEFINE u == offer[r].from
  <1>1. /\ up \in [Relays -> Relays \cup {None}] /\ up[r] = None /\ u \in Relays
    BY RowTypes DEF Adopt, ChainInv, OfferInv
  <1>2. /\ up' = [up EXCEPT ![r] = u] /\ UNCHANGED <<routes, strayed>>
        /\ ending' = {IF s.from = r /\ s.to = u THEN [s EXCEPT !.registered = FALSE] ELSE s : s \in ending}
    BY DEF Adopt
  <1> HIDE DEF u
  <1>3. ASSUME NEW x \in Relays, NEW v \in Relays, Held(x, v) PROVE Held(x, v)'
    <2>1. CASE x = r /\ v = u
      BY <1>1, <1>2, <2>1 DEF Held
    <2>2. CASE ~ (x = r /\ v = u)
      <3>1. up[x] = v => up'[x] = v
        BY <1>1, <1>2, <2>2
      <3>2. \A q \in ending : q.from = x /\ q.to = v => q \in ending'
        BY <1>2, <2>2
      <3> QED BY <1>2, <1>3, <3>1, <3>2 DEF Held
    <2> QED BY <2>1, <2>2
  <1>4. ASSUME NEW x \in Relays, NEW v \in Relays, routes'[v].src = x, x # v PROVE Held(x, v)'
    <2>1. Held(x, v)
      BY <1>2, <1>4 DEF HeldInv, Held
    <2> QED BY <1>3, <2>1
  <1> QED BY <1>4 DEF HeldInv, Held

LEMMA LinkDownHolds ==
    ASSUME ChainInv, HeldInv, NEW r \in Relays, LinkDown(r) PROVE HeldInv'
  <1>0. PICK t : t = [from |-> r, to |-> up[r], registered |-> TRUE, frames |-> wire[r]]
    OBVIOUS
  <1>1. /\ up \in [Relays -> Relays \cup {None}] /\ up' = [up EXCEPT ![r] = None]
        /\ UNCHANGED <<routes, strayed>> /\ ending' = ending \cup {t}
    BY <1>0, RowTypes DEF LinkDown
  <1>2. t.from = r /\ t.to = up[r] /\ t.registered
    BY <1>0
  <1>3. ASSUME NEW x \in Relays, NEW v \in Relays, Held(x, v) PROVE Held(x, v)'
    <2>1. CASE x = r /\ up[x] = v
      BY <1>1, <1>2, <2>1 DEF Held
    <2>2. CASE ~ (x = r /\ up[x] = v)
      <3>1. up[x] = v => up'[x] = v
        BY <1>1, <2>2
      <3> QED BY <1>1, <1>3, <3>1 DEF Held
    <2> QED BY <2>1, <2>2
  <1> QED BY <1>1, <1>3 DEF HeldInv, Held

LEMMA TogglesHold ==
    ASSUME ChainInv, HeldInv, Attach \/ Detach PROVE HeldInv'
  <1>1. routes \in [Relays -> Route] /\ UNCHANGED <<up, ending, strayed>>
    BY RowTypes DEF Attach, Detach, chainVars
  <1>2. \A v \in Relays : routes'[v].src = routes[v].src \/ routes'[v].src \in {v, None}
    <2>1. NoRoute.src = None /\ Direct(Home).src = Home
      BY DEF NoRoute, Direct
    <2>2. routes' = [routes EXCEPT ![Home] = Direct(Home)] \/ routes' = [routes EXCEPT ![Home] = NoRoute]
      BY DEF Attach, Detach, Reroute
    <2> QED BY <1>1, <2>1, <2>2
  <1> QED BY <1>1, <1>2 DEF HeldInv

LEMMA HeldNext == ChainInv /\ HeldInv /\ [Next]_vars => HeldInv'
  <1> SUFFICES ASSUME ChainInv, HeldInv, [Next]_vars PROVE HeldInv'
    OBVIOUS
  <1>1. ASSUME UNCHANGED <<up, routes, ending, strayed>> PROVE HeldInv'
    BY <1>1 DEF HeldInv
  <1>2. ASSUME Update PROVE HeldInv'
    <2>1. ASSUME NEW r \in Relays, NEW u \in Relays, Welcome(r, u) \/ RefuseLoop(r) PROVE HeldInv'
      <3>1. UNCHANGED <<up, routes, ending, strayed>>
        BY <2>1 DEF Welcome, RefuseLoop, tableVars
      <3> QED BY <1>1, <3>1
    <2> QED BY <1>2, <2>1, AdoptHolds, LinkDownHolds, DeliverHolds, LateHolds, EndSessionHolds, TogglesHold
            DEF Update
  <1>3. CASE Forward \/ \E r \in Relays : OpenStream(r)
    <2>1. UNCHANGED <<up, routes, ending, strayed>>
      BY <1>3 DEF Forward, OpenStream, chainVars, tableVars
    <2> QED BY <1>1, <2>1
  <1>4. CASE UNCHANGED vars
    BY <1>1, <1>4 DEF vars, chainVars, tableVars
  <1> QED BY <1>2, <1>3, <1>4 DEF Next

LEMMA ToldInit == Init => HeldInv /\ ToldInv
  <1> SUFFICES ASSUME Init PROVE HeldInv /\ ToldInv
    OBVIOUS
  <1>1. \A x \in Relays : up[x] = None /\ routes[x].src = None
    BY DEF Init, NoRoute
  <1> QED BY <1>1 DEF HeldInv, ToldInv

LEMMA ToldHolds == Spec => [](HeldInv /\ ToldInv)
  <1> DEFINE I == HeldInv /\ ToldInv
  <1>1. ChainInv /\ I /\ [Next]_vars => I'
    BY HeldNext, ToldNext
  <1>2. Init => I
    BY ToldInit
  <1> HIDE DEF I
  <1>3. Spec => []I
    BY <1>1, <1>2, ChainHolds, PTL DEF Spec
  <1> QED BY <1>3 DEF I

\* Once the announcements have settled the tables agree along the chain.  What u was told last stands,
\* and nobody's route runs back through a relay with a longer one, so what u was told is what is so.
LEMMA SettledAgree ==
    ASSUME ChainInv, HeldInv, ToldInv PROVE SettledRoutesAgree
  <1> SUFFICES ASSUME Settled, NEW r \in Relays, Routed(r), routes[r].src # r, NEW x, x = routes[r].src
               PROVE  up[x] = r /\ Routed(x) /\ routes[r].hops = ViaOf(x, routes[x])
    BY DEF SettledRoutesAgree
  <1>1. /\ x \in Relays /\ up[x] = r /\ Routed(x) /\ Len(routes[x].hops) < Len(routes[r].hops)
        /\ routes[r].hops = ViaOf(x, routes[x]) \/ r \in ToSet(routes[x].hops)
    BY NextHop
  <1> QED BY <1>1, NobodyComesBack

\* Once the announcements have settled, every route is opened on a link that is up and is the route of
\* the relay at the other end, one further: for any number of relays, however they are joined, with
\* frames that are read late and sessions that overlap, as long as none that was displaced has the last
\* word.
THEOREM SettledTablesAgree == Spec => []SettledRoutesAgree
  <1>1. ChainInv /\ (HeldInv /\ ToldInv) => SettledRoutesAgree
    BY SettledAgree
  <1> QED BY <1>1, ChainHolds, ToldHolds, PTL

-----------------------------------------------------------------------------
(* Streams.                                                                *)

\* The stream st has reached the k-th hop of r's route, and from there on the route is that relay's own.
OnRoute(st, r, k) ==
    LET h == routes[r].hops
        rest == routes[st.at].hops
    IN  /\ st.at = h[k] /\ Routed(st.at)
        /\ Len(st.hops) = k /\ \A i \in 1..k : st.hops[i] = IF i = 1 THEN r ELSE h[i - 1]
        /\ Len(rest) = Len(h) - k /\ \A i \in 1..Len(rest) : rest[i] = h[k + i]

\* While nothing changes, a stream that was opened in settled tables keeps to the route of the relay
\* that opened it.
SteadyInv ==
    steady =>
        /\ Settled /\ stream.state \in {"moving", "delivered"}
        /\ stream.state = "moving" =>
              \E r \in Relays : \E k \in 1..Len(routes[r].hops) : OnRoute(stream, r, k)

\* Once the tables have settled, a relay that is not the device's own has a link to the next one.
LEMMA SettledHop ==
    ASSUME ChainInv, SettledRoutesAgree, Settled, NEW x \in Relays, Routed(x), routes[x].src # x
    PROVE  /\ routes[x].src \in Relays /\ Routed(routes[x].src)
           /\ LinkUp(x, routes[x]) /\ <<routes[x].src, x>> \notin strayed
           /\ routes[x].hops = <<routes[x].src>> \o routes[routes[x].src].hops
           /\ routes[routes[x].src].hops \in Seq(Relays)
  <1>1. \A y \in Relays : routes[y] \in Route /\ GoodRoute(y, routes[y])
    BY RowTypes
  <1>2. routes[x].src \in Relays
    BY <1>1, AcceptedPath DEF Routed
  <1>3. routes[routes[x].src].hops \in Seq(Relays)
    BY <1>1, <1>2 DEF Route
  <1>4. up[routes[x].src] = x /\ Routed(routes[x].src) /\ routes[x].hops = ViaOf(routes[x].src, routes[routes[x].src])
    BY DEF SettledRoutesAgree
  <1>5. <<routes[x].src, x>> \notin strayed
    BY DEF Settled
  <1> QED BY <1>2, <1>3, <1>4, <1>5 DEF LinkUp, ViaOf

\* So a stream is delivered there, or goes on to that next relay.
LEMMA SettledCarry ==
    ASSUME ChainInv, SettledRoutesAgree, Settled, NEW x \in Relays, Routed(x), NEW hops, Carry(x, hops)
    PROVE  \/ routes[x].src = x /\ stream' = Ended("delivered")
           \/ routes[x].src # x /\ stream' = [state |-> "moving", at |-> routes[x].src, hops |-> hops]
  BY SettledHop DEF Carry, LinkUp

LEMMA StreamOnly ==
    ASSUME UNCHANGED <<routes, wire, ending, strayed>>, NEW st, st = stream',
           steady' =>
               /\ Settled /\ st.state \in {"moving", "delivered"}
               /\ st.state = "moving" => \E r \in Relays : \E k \in 1..Len(routes[r].hops) : OnRoute(st, r, k)
    PROVE  SteadyInv'
  <1>1. \A r, k : OnRoute(stream, r, k)' <=> OnRoute(st, r, k)
    BY DEF OnRoute, Routed
  <1>2. Settled' <=> Settled
    BY DEF Settled
  <1> QED BY <1>1, <1>2 DEF SteadyInv

LEMMA OpenKeepsRoute ==
    ASSUME ChainInv, SettledRoutesAgree, NEW r \in Relays, OpenStream(r) PROVE SteadyInv'
  <1>1. Routed(r) /\ steady' = Settled /\ UNCHANGED <<routes, wire, ending, strayed>>
        /\ Carry(r, IF routes[r].src = r THEN <<>> ELSE <<r>>)
    BY DEF OpenStream, tableVars
  <1> SUFFICES ASSUME Settled, NEW st, st = stream'
               PROVE  /\ st.state \in {"moving", "delivered"}
                      /\ st.state = "moving" =>
                            \E q \in Relays : \E k \in 1..Len(routes[q].hops) : OnRoute(st, q, k)
    BY <1>1, StreamOnly
  <1>2. CASE routes[r].src = r
    <2>1. stream' = Ended("delivered")
      BY <1>1, <1>2, SettledCarry
    <2> QED BY <2>1 DEF Ended
  <1>3. CASE routes[r].src # r
    <2> DEFINE x == routes[r].src
               h == routes[x].hops
    <2>1. x \in Relays /\ Routed(x) /\ routes[r].hops = <<x>> \o h /\ h \in Seq(Relays)
      BY <1>1, <1>3, SettledHop
    <2>2. st = [state |-> "moving", at |-> x, hops |-> <<r>>]
      BY <1>1, <1>3, SettledCarry
    <2>3. st.state = "moving" /\ st.at = x /\ st.hops = <<r>>
      BY <2>2
    <2> HIDE DEF x
    <2>4. /\ Len(<<x>> \o h) = Len(h) + 1 /\ Len(h) \in Nat /\ (<<x>> \o h)[1] = x
          /\ \A i \in 1..Len(h) : (<<x>> \o h)[1 + i] = h[i]
      BY <2>1
    <2>5. 1 \in 1..Len(routes[r].hops) /\ OnRoute(st, r, 1)
      <3>1. Len(st.hops) = 1 /\ \A i \in 1..1 : st.hops[i] = r
        BY <2>3
      <3> HIDE DEF h
      <3>2. Len(h) = Len(routes[r].hops) - 1 /\ routes[r].hops[1] = x /\ 1 \in 1..Len(routes[r].hops)
        BY <2>1, <2>4
      <3> QED BY <2>1, <2>3, <2>4, <3>1, <3>2 DEF OnRoute, h
    <2> QED BY <2>3, <2>5
  <1> QED BY <1>2, <1>3

LEMMA ForwardKeepsRoute ==
    ASSUME ChainInv, SettledRoutesAgree, SteadyInv, Forward PROVE SteadyInv'
  <1>1. stream.state = "moving" /\ UNCHANGED <<steady, routes, wire, ending, strayed>>
    BY DEF Forward, tableVars
  <1> SUFFICES ASSUME steady, NEW st, st = stream'
               PROVE  /\ st.state \in {"moving", "delivered"}
                      /\ st.state = "moving" =>
                            \E q \in Relays : \E k \in 1..Len(routes[q].hops) : OnRoute(st, q, k)
    <2>1. steady => Settled
      BY DEF SteadyInv
    <2> QED BY <1>1, <2>1, StreamOnly
  <1>2. Settled
    BY DEF SteadyInv
  <1>3. PICK r \in Relays : \E k \in 1..Len(routes[r].hops) : OnRoute(stream, r, k)
    BY <1>1 DEF SteadyInv
  <1>4. PICK k \in 1..Len(routes[r].hops) : OnRoute(stream, r, k)
    BY <1>3
  <1> DEFINE h == routes[r].hops
             x == stream.at
             c == stream.hops
             rest == routes[x].hops
  <1>5. /\ x \in Relays /\ c \in Seq(Relays) /\ h \in Seq(Relays) /\ rest \in Seq(Relays)
        /\ routes[r] \in Route /\ GoodRoute(r, routes[r])
    <2>1. x \in Relays /\ c \in Seq(Relays)
      BY <1>1 DEF ChainInv, MovingInv, TypeOK, Stream
    <2> QED BY <2>1, RowTypes DEF Route
  <1>6. /\ x = h[k] /\ Routed(x) /\ Len(c) = k /\ \A i \in 1..k : c[i] = IF i = 1 THEN r ELSE h[i - 1]
        /\ Len(rest) = Len(h) - k /\ \A i \in 1..Len(rest) : rest[i] = h[k + i]
    BY <1>4 DEF OnRoute
  <1>7. IsInjective(h) /\ r \notin ToSet(h) /\ Len(h) < MAX_HOPS
    <2>1. h # <<>>
      OBVIOUS
    <2> QED BY <1>5, <2>1, AcceptedPath
  <1>8. extend_refuses(x, c) = "no"
    <2>1. h \in Seq(Relays) /\ c \in Seq(Relays) /\ k \in 1..Len(h)
      BY <1>4, <1>5
    <2>2. Len(c) = k /\ (\A i \in 1..k : c[i] = IF i = 1 THEN r ELSE h[i - 1]) /\ x = h[k]
      BY <1>6
    <2> HIDE DEF h, x, c, rest
    <2>3. extend_refuses(h[k], c) = "no"
      BY <1>7, <2>1, <2>2, FitsBudget
    <2> QED BY <2>2, <2>3
  <1>9. Carry(x, Append(c, x))
    BY <1>6, <1>8 DEF Forward
  <1>10. CASE routes[x].src = x
    <2>1. stream' = Ended("delivered")
      BY <1>2, <1>5, <1>6, <1>9, <1>10, SettledCarry
    <2> QED BY <2>1 DEF Ended
  <1>11. CASE routes[x].src # x
    <2> DEFINE y == routes[x].src
               g == routes[y].hops
               d == Append(c, x)
    <2>1. y \in Relays /\ Routed(y) /\ rest = <<y>> \o g /\ g \in Seq(Relays)
      BY <1>2, <1>5, <1>6, <1>11, SettledHop
    <2>2. st = [state |-> "moving", at |-> y, hops |-> d]
      BY <1>2, <1>5, <1>6, <1>9, <1>11, SettledCarry
    <2>3. st.state = "moving" /\ st.at = y /\ st.hops = d
      BY <2>2
    <2>4. /\ Len(d) = k + 1 /\ d[k + 1] = x /\ \A i \in 1..k : d[i] = c[i]
      BY <1>5, <1>6
    <2> HIDE DEF h, x, c, y, g, d, rest
    <2>5. /\ Len(rest) = Len(g) + 1 /\ Len(g) \in Nat /\ rest[1] = y
          /\ \A i \in 1..Len(g) : rest[i + 1] = g[i] /\ i + 1 \in 1..(Len(g) + 1)
      BY <2>1
    <2>6. Len(h) \in Nat /\ k \in Nat /\ k + 1 \in 1..Len(h) /\ Len(g) = Len(h) - (k + 1)
      <3>1. Len(h) \in Nat /\ k \in Nat \ {0}
        BY <1>5 DEF h
      <3>2. Len(g) + 1 = Len(h) - k
        BY <1>6, <2>5
      <3> QED BY <2>5, <3>1, <3>2
    <2>7. y = h[k + 1]
      BY <1>6, <2>5
    <2>8. \A i \in 1..(k + 1) : d[i] = IF i = 1 THEN r ELSE h[i - 1]
      <3> SUFFICES ASSUME NEW i \in 1..(k + 1) PROVE d[i] = IF i = 1 THEN r ELSE h[i - 1]
        OBVIOUS
      <3>1. CASE i = k + 1
        <4>1. i # 1 /\ i - 1 = k
          BY <2>6, <3>1
        <4> QED BY <1>6, <2>4, <3>1, <4>1
      <3>2. CASE i # k + 1
        <4>1. i \in 1..k
          BY <2>6, <3>2
        <4> QED BY <1>6, <2>4, <4>1
      <3> QED BY <3>1, <3>2
    <2>9. \A i \in 1..Len(g) : g[i] = h[(k + 1) + i]
      <3> SUFFICES ASSUME NEW i \in 1..Len(g) PROVE g[i] = h[(k + 1) + i]
        OBVIOUS
      <3>1. g[i] = rest[i + 1] /\ i + 1 \in 1..Len(rest) /\ k + (i + 1) = (k + 1) + i
        BY <2>5, <2>6
      <3> QED BY <1>6, <3>1
    <2>10. OnRoute(st, r, k + 1)
      BY <2>1, <2>3, <2>4, <2>6, <2>7, <2>8, <2>9 DEF OnRoute, h, g
    <2> QED BY <2>3, <2>6, <2>10 DEF h
  <1> QED BY <1>10, <1>11

LEMMA SteadyNext == ChainInv /\ SettledRoutesAgree /\ SteadyInv /\ [Next]_vars => SteadyInv'
  <1> SUFFICES ASSUME ChainInv, SettledRoutesAgree, SteadyInv, [Next]_vars PROVE SteadyInv'
    OBVIOUS
  <1>1. CASE steady' = FALSE
    BY <1>1 DEF SteadyInv
  <1>2. CASE UNCHANGED vars
    BY <1>2 DEF vars, chainVars, tableVars, SteadyInv, Settled, OnRoute, Routed
  <1> QED BY <1>1, <1>2, OpenKeepsRoute, ForwardKeepsRoute DEF Next

\* A stream that is opened once the tables have settled, and under which nothing changes, is handed from
\* relay to relay until the device has it: no relay refuses it as a loop or for the length of its hop
\* list, none lacks a route, and none has lost the link.  It follows the route of the relay that opened it
\* hop by hop, so the accepted length of that route is what it needs.
THEOREM SettledStreamsReachDevice == Spec => []SettledStreamsArrive
  <1>1. Init => SteadyInv
    BY DEF Init, SteadyInv
  <1>2. SteadyInv => SettledStreamsArrive
    BY DEF SteadyInv, SettledStreamsArrive
  <1> QED BY <1>1, <1>2, SteadyNext, ChainHolds, SettledTablesAgree, PTL DEF Spec
=============================================================================
