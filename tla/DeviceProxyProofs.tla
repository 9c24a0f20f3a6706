------------------------- MODULE DeviceProxyProofs -------------------------
(***************************************************************************)
(* Invariance proofs for DeviceProxy, for any devices, accounts, requests, *)
(* options and number of tunnels.                                          *)
(***************************************************************************)
EXTENDS DeviceProxy, SequenceTheorems, WellFoundedInduction, TLAPS

-----------------------------------------------------------------------------
(* Paths: a path is not empty, there is at least its slash.                *)

Path(rest) == rest \in Seq(Segments) /\ rest # <<>>

\* Every set of numbers has a least one.
LEMMA LeastNumber ==
    ASSUME NEW T \in SUBSET Nat, T # {}
    PROVE  \E m \in T : \A n \in T : m <= n
  <1> DEFINE R == OpToRel(<, Nat)
  <1>1. R = {p \in Nat \X Nat : p[1] < p[2]}
    BY DEF OpToRel
  <1>2. IsWellFoundedOn(R, Nat)
    BY NatLessThanWellFounded
  <1> HIDE DEF R
  <1>3. PICK m \in T : \A n \in T : ~ (<<n, m>> \in R)
    BY <1>2, WFMin
  <1>4. ASSUME NEW n \in T PROVE m <= n
    <2>1. ~ (<<n, m>> \in R) /\ m \in Nat /\ n \in Nat
      BY <1>3, <1>4
    <2> QED BY <1>1, <2>1
  <1> QED BY <1>3, <1>4

\* A path has a first segment and a segment at each of its places.
LEMMA PathSegments ==
    ASSUME NEW path, Path(path)
    PROVE  Len(path) \in Nat \ {0} /\ \A i \in 1..Len(path) : path[i] \in Segments
  BY EmptySeq, ElementOfSeq DEF Path

\* What is left of a path when its first segments are taken off.
LEMMA RestOfPath ==
    ASSUME NEW path, Path(path), NEW i \in 1..Len(path)
    PROVE  /\ Path(SubSeq(path, i, Len(path))) /\ Len(SubSeq(path, i, Len(path))) = Len(path) - i + 1
           /\ \A j \in 1..(Len(path) - i + 1) : SubSeq(path, i, Len(path))[j] = path[i + j - 1]
  <1> DEFINE n == Len(path)
             s == SubSeq(path, i, n)
  <1>1. n \in Int /\ i \in Int /\ i <= n /\ n - i + 1 > 0 /\ \A j \in i..n : path[j] \in Segments
    BY PathSegments
  <1> HIDE DEF n
  <1>2. /\ s \in Seq(Segments) /\ Len(s) = IF i <= n THEN n - i + 1 ELSE 0
        /\ \A j \in 1..(n - i + 1) : s[j] = path[i + j - 1]
    BY <1>1, SubSeqProperties
  <1> HIDE DEF s
  <1>3. s # <<>>
    BY <1>1, <1>2, EmptySeq
  <1> QED BY <1>1, <1>2, <1>3 DEF Path, s, n

\* What is left of a path on a device's own host: what follows the slashes it starts with.
LeftOf(path, rest) ==
    /\ rest = <<Empty>> \/ rest[1] # Empty
    /\ \E i \in 1..Len(path) : (\A j \in 1..(i - 1) : path[j] = Empty) /\ rest = SubSeq(path, i, Len(path))

LEMMA TrimmedPath ==
    ASSUME NEW path, Path(path)
    PROVE  Path(trim_slashes(path)) /\ LeftOf(path, trim_slashes(path))
  <1> DEFINE n == Len(path)
             T == {i \in 1..n : i = n \/ path[i] # Empty}
             First(i) == (i = n \/ path[i] # Empty) /\ \A j \in 1..(i - 1) : path[j] = Empty
             first == CHOOSE i \in 1..n : First(i)
             s == SubSeq(path, first, n)
  <1>1. n \in Nat \ {0}
    BY PathSegments
  <1>2. trim_slashes(path) = s
    BY DEF trim_slashes
  <1> HIDE DEF n
  <1>3. n \in T /\ T \in SUBSET Nat
    BY <1>1
  <1>4. PICK m \in T : \A k \in T : m <= k
    <2> HIDE DEF T
    <2> QED BY <1>3, LeastNumber
  <1>5. m \in 1..n /\ (m = n \/ path[m] # Empty)
    BY <1>4
  <1>6. ASSUME NEW j \in 1..(m - 1) PROVE path[j] = Empty
    <2>1. j \in 1..n /\ j # n /\ ~ (m <= j)
      BY <1>1, <1>5
    <2> QED BY <1>4, <2>1
  <1>7. \E i \in 1..n : First(i)
    BY <1>5, <1>6
  <1>8. first \in 1..n /\ First(first)
    <2> HIDE DEF First
    <2> QED BY <1>7
  <1> HIDE DEF first, s
  <1>9. Path(s) /\ Len(s) = n - first + 1 /\ \A j \in 1..(n - first + 1) : s[j] = path[first + j - 1]
    BY <1>8, RestOfPath DEF n, s
  <1>10. 1 \in 1..(n - first + 1) /\ first + 1 - 1 = first
    BY <1>1, <1>8
  <1>11. s[1] = path[first]
    BY <1>9, <1>10
  <1>12. s = <<Empty>> \/ s[1] # Empty
    <2> SUFFICES ASSUME s[1] = Empty PROVE s = <<Empty>>
      OBVIOUS
    <2>1. first = n
      BY <1>8, <1>11
    <2>2. Len(s) = 1
      BY <1>1, <1>9, <2>1
    <2>3. Empty \in Segments
      BY AddressAssumption DEF AddressAssumption
    <2>4. <<Empty>> \in Seq(Segments) /\ Len(<<Empty>>) = 1 /\ <<Empty>>[1] = Empty
      BY <2>3
    <2>5. \A j \in 1..Len(s) : s[j] = <<Empty>>[j]
      BY <2>2, <2>4
    <2> QED BY <1>9, <2>2, <2>4, <2>5, SeqEqual DEF Path
  <1> QED BY <1>2, <1>8, <1>9, <1>12 DEF LeftOf, n, s

LEMMA ParsedPath ==
    ASSUME NEW path, Path(path), NEW p, p = parse_device_path(path), p.shape # "none"
    PROVE  /\ p.device \in Segments /\ p.device # Empty /\ p.shape \in {"needs-slash", "resource"}
           /\ p.shape = "resource" => Path(p.rest) /\ path = path_base(p.device) \o p.rest
           /\ p.shape = "needs-slash" => path = path_base(p.device)
  <1> DEFINE n == Len(path)
  <1>0. n \in Nat /\ \A i \in 1..n : path[i] \in Segments
    BY PathSegments
  <1>1. ~ (n < 2 \/ path[1] # "d" \/ path[2] = Empty)
    BY DEF parse_device_path
  <1>2. /\ n = 2 => p = [shape |-> "needs-slash", device |-> path[2], rest |-> <<>>]
        /\ n # 2 => p = [shape |-> "resource", device |-> path[2], rest |-> SubSeq(path, 3, n)]
    BY <1>1 DEF parse_device_path
  <1>3. n # 2 => Path(SubSeq(path, 3, n))
    <2> SUFFICES ASSUME n # 2 PROVE Path(SubSeq(path, 3, n))
      OBVIOUS
    <2>1. 3 \in 1..n
      <3> HIDE DEF n
      <3> QED BY <1>0, <1>1
    <2> QED BY <2>1, RestOfPath
  <1>4. path[1] = "d" /\ path[2] \in Segments /\ path[2] # Empty
    BY <1>0, <1>1
  <1>5. CASE n = 2
    <2> DEFINE b == <<"d", path[2]>>
    <2>1. "d" \in Segments
      BY AddressAssumption DEF AddressAssumption
    <2>2. b \in Seq(Segments) /\ Len(b) = 2 /\ b[1] = "d" /\ b[2] = path[2]
      BY <1>4, <2>1
    <2> HIDE DEF b
    <2>3. \A j \in 1..Len(path) : path[j] = b[j]
      BY <1>4, <1>5, <2>2
    <2>4. path = b
      BY <1>5, <2>2, <2>3, SeqEqual DEF Path
    <2>5. path = path_base(path[2])
      BY <2>4 DEF path_base, b
    <2> HIDE DEF n
    <2>6. p.shape = "needs-slash" /\ p.device = path[2]
      BY <1>2, <1>5
    <2> QED BY <1>4, <2>5, <2>6
  <1>6. CASE n # 2
    <2> DEFINE s == SubSeq(path, 3, n)
               b == <<"d", path[2]>>
               c == b \o s
    <2>0. p = [shape |-> "resource", device |-> path[2], rest |-> s] /\ Path(s)
      BY <1>2, <1>3, <1>6
    <2>1. 3 \in 1..n /\ n \in Nat /\ n - 3 + 1 = n - 2 /\ n > 2
      <3> HIDE DEF n
      <3> QED BY <1>0, <1>1, <1>6
    <2>2. Len(s) = n - 2 /\ \A j \in 1..(n - 2) : s[j] = path[3 + j - 1]
      BY <2>1, RestOfPath
    <2>3. b \in Seq(Segments) /\ Len(b) = 2 /\ b[1] = "d" /\ b[2] = path[2]
      BY <1>4, AddressAssumption DEF AddressAssumption
    <2> HIDE DEF s, b
    <2>4. s \in Seq(Segments)
      BY <2>0 DEF Path
    <2>5. /\ c \in Seq(Segments) /\ Len(c) = 2 + (n - 2)
          /\ \A i \in 1..(2 + (n - 2)) : c[i] = IF i <= 2 THEN b[i] ELSE s[i - 2]
      <3>1. /\ c \in Seq(Segments) /\ Len(c) = Len(b) + Len(s)
            /\ \A i \in 1..(Len(b) + Len(s)) : c[i] = IF i <= Len(b) THEN b[i] ELSE s[i - Len(b)]
        BY <2>3, <2>4, ConcatProperties
      <3> HIDE DEF c, n
      <3> QED BY <2>2, <2>3, <3>1
    <2> HIDE DEF c
    <2>6. Len(c) = Len(path)
      BY <2>1, <2>5 DEF n
    <2>7. ASSUME NEW j \in 1..n PROVE path[j] = c[j]
      <3>1. CASE j <= 2
        BY <1>4, <2>1, <2>3, <2>5, <3>1
      <3>2. CASE j > 2
        <4>1. j - 2 \in 1..(n - 2) /\ 3 + (j - 2) - 1 = j /\ ~ (j <= 2) /\ j \in 1..(2 + (n - 2))
          BY <2>1, <2>7, <3>2
        <4> QED BY <2>2, <2>5, <4>1
      <3> QED BY <2>1, <2>7, <3>1, <3>2
    <2>8. path = c
      BY <2>5, <2>6, <2>7, SeqEqual DEF Path, n
    <2>9. p.device = path[2] /\ p.shape = "resource" /\ p.rest = s
      BY <2>0
    <2>10. path = path_base(p.device) \o p.rest
      BY <2>8, <2>9 DEF path_base, c, b
    <2> QED BY <1>4, <2>0, <2>9, <2>10
  <1> QED BY <1>5, <1>6

\* The path form is read as the device with the path that was put behind it.
LEMMA PathFormParsed ==
    ASSUME NEW d \in Segments, d # Empty, NEW rest, Path(rest)
    PROVE  /\ (path_base(d) \o rest)[1] = "d" /\ Path(path_base(d) \o rest)
           /\ parse_device_path(path_base(d) \o rest) = [shape |-> "resource", device |-> d, rest |-> rest]
  <1> DEFINE path == <<"d", d>> \o rest
             n == Len(rest)
  <1>1. /\ <<"d", d>> \in Seq(Segments) /\ Len(<<"d", d>>) = 2 /\ <<"d", d>>[1] = "d" /\ <<"d", d>>[2] = d
    <2>1. "d" \in Segments
      BY AddressAssumption DEF AddressAssumption
    <2> QED BY <2>1
  <1>2. rest \in Seq(Segments) /\ n \in Nat \ {0}
    BY PathSegments DEF Path
  <1>3. /\ path \in Seq(Segments) /\ Len(path) = 2 + n
        /\ \A i \in 1..(2 + n) : path[i] = IF i <= 2 THEN <<"d", d>>[i] ELSE rest[i - 2]
    BY <1>1, <1>2, ConcatProperties
  <1> HIDE DEF path, n
  <1>4. path[1] = "d" /\ path[2] = d
    BY <1>1, <1>2, <1>3
  <1>5. Path(path)
    BY <1>2, <1>3, EmptySeq DEF Path
  <1>6. SubSeq(path, 3, Len(path)) = rest
    <2> DEFINE s == SubSeq(path, 3, Len(path))
    <2>1. 3 \in 1..Len(path) /\ Len(path) - 3 + 1 = n
      BY <1>2, <1>3
    <2>2. Path(s) /\ Len(s) = n /\ \A j \in 1..n : s[j] = path[3 + j - 1]
      BY <1>5, <2>1, RestOfPath
    <2> HIDE DEF s
    <2>3. \A j \in 1..n : s[j] = rest[j]
      BY <1>2, <1>3, <2>2
    <2>4. s = rest
      BY <1>2, <2>2, <2>3, SeqEqual DEF Path, n
    <2> QED BY <2>4 DEF s
  <1>7. Len(path) # 2 /\ ~ (Len(path) < 2)
    BY <1>2, <1>3
  <1>8. parse_device_path(path) = [shape |-> "resource", device |-> d, rest |-> rest]
    BY <1>4, <1>6, <1>7 DEF parse_device_path
  <1> QED BY <1>4, <1>5, <1>8 DEF path_base, path

-----------------------------------------------------------------------------
USE DeviceProxyAssumption DEF DeviceProxyAssumption

-----------------------------------------------------------------------------
(* The inductive strengthening.                                            *)

\* On the way to the device there is one, what is let in came from a browser or the upstream, and
\* nothing is answered yet.
Towards == {"client", "connect", "opening", "exchange"}
HandlerInv ==
    /\ req.pc \in Towards => req.device \in Devices
    /\ req.pc \in {"lookup", "guard", "online"} => req.entry \in {"path", "subdomain"}
    /\ req.pc # "answered" => req.answer = NoValue

\* Whatever the tables show now of a request in flight was seen.
Asking == IF req.entry = "upstream" THEN NoValue ELSE req.from.user
SightInv ==
    req.pc # "idle" =>
        LET now == Sight(req.device, Asking, rows, signedIn) IN
        /\ now.public => seen.public
        /\ now.reachable => seen.reachable
        /\ now.signedIn => seen.signedIn

\* The row that the guard goes by held since the request arrived, though perhaps not any more.
RowInv ==
    req.pc = "guard" =>
        /\ req.row = NoValue => seen.public
        /\ req.row # NoValue =>
             /\ req.row \in Row
             /\ req.row.access = "public" => seen.public
             /\ \A u \in Users : u = req.from.user /\ is_reachable_by(req.row, u) => seen.reachable

GuardInv == TypeOK /\ HandlerInv /\ SightInv /\ RowInv /\ GuardedRequests

\* A device that cannot be reached now was not reachable at some moment since the request arrived.
DownInv == req.pc # "idle" /\ (req.device \notin Devices \/ ~ Reachable(req.device)) => wasDown

-----------------------------------------------------------------------------
(* The steps of the handler, by what they do to the request.               *)

Fields == {"pc", "entry", "device", "rest", "from", "asked", "row", "via", "sent", "answer", "setCookies", "redirects"}

LEMMA FieldsAre == DOMAIN NoRequest = Fields
  BY DEF NoRequest, Fields

\* What the handler never changes.
Same == /\ req'.entry = req.entry /\ req'.device = req.device /\ req'.from = req.from
        /\ req'.rest = req.rest /\ req'.asked = req.asked /\ req'.redirects = req.redirects
Still == UNCHANGED <<config, rows, signedIn, tableVars>>

\* The handler answers, for good or because it could not reach the device.
Replies(a) == req'.pc = "answered" /\ req'.answer = a /\ req'.row = NoValue /\ req'.via = 0

\* The handler goes on to another step.
Proceeds(from, to) == req.pc = from /\ req'.pc = to /\ req'.answer = req.answer

LEMMA AnswerReplies ==
    ASSUME DOMAIN req = DOMAIN NoRequest, NEW a, Answer(a)
    PROVE  Replies(a) /\ Same /\ DOMAIN req' = DOMAIN NoRequest
  BY FieldsAre DEF Answer, Replies, Same, Fields

\* Every way a handler can go on.
HandlerStep ==
    \/ req.pc = "relay" /\ Replies("relay") /\ pool' = pool /\ wasDown' = wasDown
    \/ req.pc = "slash" /\ Replies("to-directory") /\ pool' = pool /\ wasDown' = wasDown
    \/ req.pc = "lookup" /\ Replies("error") /\ pool' = pool /\ wasDown' = wasDown
    \/ Proceeds("lookup", "guard") /\ req'.row = RowOf(req.device) /\ req'.via = req.via /\ pool' = pool /\ wasDown' = wasDown
    \/ /\ req.pc = "guard" /\ pool' = pool /\ wasDown' = wasDown
       /\ \E user \in signed_in_user :
             IF guard(user) = "pass" THEN Proceeds("guard", "online") /\ req'.via = req.via ELSE Replies(guard(user))
    \/ /\ req.pc = "online" /\ pool' = pool /\ wasDown' = wasDown
       /\ IF req.device \in Devices /\ Online(req.device)
          THEN \/ \E to \in {"connect", "client"} : Proceeds("online", to) /\ req'.via = req.via
               \/ Replies("bad-request")
          ELSE \E a \in {"offline", "unknown"} : Replies(a)
    \/ /\ req.pc = "client" /\ wasDown' = wasDown
       /\ \E t \in pool[req.device] : pool' = [pool EXCEPT ![req.device] = @ \ {t}]
       /\ \/ req' = req
          \/ \E t \in pool[req.device] : Proceeds("client", "exchange") /\ req'.via = t
    \/ Proceeds("client", "connect") /\ req'.via = req.via /\ pool' = pool /\ wasDown' = wasDown
    \/ /\ req.pc = "connect" /\ pool' = pool /\ wasDown' = wasDown
       /\ IF Online(req.device) THEN Proceeds("connect", "opening") /\ req'.via = table[req.device]
          ELSE \E a \in {"dropped", "offline", "unknown"} : Replies(a)
    \/ Proceeds("opening", "exchange") /\ req'.via = req.via /\ pool' = pool /\ wasDown' = wasDown
    \/ req.pc = "opening" /\ wasDown' = wasDown /\ pool' = pool /\ \E a \in {"dropped", "offline", "unknown"} : Replies(a)
    \/ req.pc = "exchange" /\ wasDown' = wasDown /\ pool' = pool /\ \E a \in {"dropped", "bad-gateway"} : Replies(a)
    \/ /\ req.pc = "exchange" /\ wasDown' = wasDown /\ Replies("served") /\ req.via \in alive
       /\ pool' \in {pool, [pool EXCEPT ![req.device] = @ \cup {req.via}]}

Handles ==
    \/ AnswerLocally \/ FindDevice \/ FindDeviceFails \/ Admit \/ CheckOnline
    \/ UsePooled \/ UseConnector \/ TakeRoute \/ OpenStream \/ OpenFails \/ ExchangeFails
    \/ \E names \in {{}, {"session", "own"}} : Exchange(names)

LEMMA HandlerSteps ==
    ASSUME TypeOK, Handles
    PROVE  HandlerStep /\ Same /\ Still /\ seen' = seen /\ DOMAIN req' = DOMAIN NoRequest
  <1>0. DOMAIN req = DOMAIN NoRequest /\ DOMAIN req = Fields
    BY FieldsAre DEF TypeOK
  <1>1. CASE AnswerLocally
    BY <1>0, <1>1, AnswerReplies DEF AnswerLocally, HandlerStep, Still, tableVars
  <1>2. CASE FindDevice
    BY <1>0, <1>2 DEF FindDevice, HandlerStep, Same, Still, Proceeds, Fields, tableVars
  <1>3. CASE FindDeviceFails
    BY <1>0, <1>3, AnswerReplies DEF FindDeviceFails, HandlerStep, Still, tableVars
  <1>4. CASE Admit
    <2>1. PICK user \in signed_in_user :
             IF guard(user) = "pass" THEN req' = [req EXCEPT !.pc = "online"] ELSE Answer(guard(user))
      BY <1>4 DEF Admit
    <2>2. CASE guard(user) = "pass"
      <3>1. Proceeds("guard", "online") /\ req'.via = req.via /\ Same /\ DOMAIN req' = DOMAIN NoRequest
        BY <1>0, <1>4, <2>1, <2>2 DEF Admit, Same, Proceeds, Fields
      <3>2. HandlerStep
        BY <1>4, <2>2, <3>1 DEF Admit, HandlerStep
      <3> QED BY <1>4, <3>1, <3>2 DEF Admit, Still, tableVars
    <2>3. CASE guard(user) # "pass"
      <3>1. Replies(guard(user)) /\ Same /\ DOMAIN req' = DOMAIN NoRequest
        BY <1>0, <2>1, <2>3, AnswerReplies
      <3>2. HandlerStep
        BY <1>4, <2>3, <3>1 DEF Admit, HandlerStep
      <3> QED BY <1>4, <3>1, <3>2 DEF Admit, Still, tableVars
    <2> QED BY <2>2, <2>3
  <1>5. CASE CheckOnline
    <2>1. CASE ~ (req.device \in Devices /\ Online(req.device))
      <3>1. unreachable_page \in {"offline", "unknown"}
        BY DEF unreachable_page
      <3>2. Replies(unreachable_page) /\ Same /\ DOMAIN req' = DOMAIN NoRequest
        BY <1>0, <1>5, <2>1, AnswerReplies DEF CheckOnline
      <3>3. HandlerStep
        BY <1>5, <2>1, <3>1, <3>2 DEF CheckOnline, HandlerStep
      <3> QED BY <1>5, <3>2, <3>3 DEF CheckOnline, Still, tableVars
    <2>2. CASE req.device \in Devices /\ Online(req.device) /\ Answer("bad-request")
      <3>1. Replies("bad-request") /\ Same /\ DOMAIN req' = DOMAIN NoRequest
        BY <1>0, <2>2, AnswerReplies
      <3>3. HandlerStep
        BY <1>5, <2>2, <3>1 DEF CheckOnline, HandlerStep
      <3> QED BY <1>5, <3>1, <3>3 DEF CheckOnline, Still, tableVars
    <2>3. CASE req.device \in Devices /\ Online(req.device) /\ ~ Answer("bad-request")
      <3>1. PICK to \in {"connect", "client"} : \E sent : req' = [req EXCEPT !.pc = to, !.sent = sent]
        BY <1>5, <2>3 DEF CheckOnline
      <3>2. Proceeds("online", to) /\ req'.via = req.via /\ Same /\ DOMAIN req' = DOMAIN NoRequest
        BY <1>0, <1>5, <3>1 DEF CheckOnline, Same, Proceeds, Fields
      <3>3. HandlerStep
        BY <1>5, <2>3, <3>2 DEF CheckOnline, HandlerStep
      <3> QED BY <1>5, <3>2, <3>3 DEF CheckOnline, Still, tableVars
    <2> QED BY <2>1, <2>2, <2>3
  <1>6. CASE UsePooled
    <2>1. PICK t \in pool[req.device] :
             /\ pool' = [pool EXCEPT ![req.device] = @ \ {t}]
             /\ req' = IF t \in alive THEN [req EXCEPT !.pc = "exchange", !.via = t] ELSE req
      BY <1>6 DEF UsePooled
    <2>2. CASE t \in alive
      <3>1. Proceeds("client", "exchange") /\ req'.via = t /\ Same /\ DOMAIN req' = DOMAIN NoRequest
        BY <1>0, <1>6, <2>1, <2>2 DEF UsePooled, Same, Proceeds, Fields
      <3>2. HandlerStep
        BY <1>6, <2>1, <3>1 DEF UsePooled, HandlerStep
      <3> QED BY <1>6, <3>1, <3>2 DEF UsePooled, Still, tableVars
    <2>3. CASE t \notin alive
      <3>1. req' = req
        BY <2>1, <2>3
      <3>2. HandlerStep
        BY <1>6, <2>1, <3>1 DEF UsePooled, HandlerStep
      <3> QED BY <1>0, <1>6, <3>1, <3>2 DEF UsePooled, Same, Still, tableVars
    <2> QED BY <2>2, <2>3
  <1>7. CASE UseConnector
    BY <1>0, <1>7 DEF UseConnector, HandlerStep, Same, Still, Proceeds, Fields, tableVars
  <1>8. ASSUME CannotConnect
        PROVE  (\E a \in {"dropped", "offline", "unknown"} : Replies(a)) /\ Same /\ DOMAIN req' = DOMAIN NoRequest
    <2>1. PICK a \in {"dropped", "offline", "unknown"} : Answer(a)
      BY <1>8 DEF CannotConnect, unreachable_page
    <2> QED BY <1>0, <2>1, AnswerReplies
  <1>9. CASE TakeRoute
    <2>1. CASE Online(req.device)
      BY <1>0, <1>9, <2>1 DEF TakeRoute, HandlerStep, Same, Still, Proceeds, Fields, tableVars
    <2>2. CASE ~ Online(req.device)
      BY <1>8, <1>9, <2>2 DEF TakeRoute, HandlerStep, Still, tableVars
    <2> QED BY <2>1, <2>2
  <1>10. CASE OpenStream
    BY <1>0, <1>10 DEF OpenStream, HandlerStep, Same, Still, Proceeds, Fields, tableVars
  <1>11. CASE OpenFails
    BY <1>8, <1>11 DEF OpenFails, HandlerStep, Still, tableVars
  <1>12. CASE ExchangeFails
    <2>1. PICK a \in {"dropped", "bad-gateway"} : Answer(a)
      BY <1>12 DEF ExchangeFails
    <2> QED BY <1>0, <1>12, <2>1, AnswerReplies DEF ExchangeFails, HandlerStep, Still, tableVars
  <1>13. ASSUME NEW names \in {{}, {"session", "own"}}, Exchange(names)
         PROVE  HandlerStep /\ Same /\ Still /\ seen' = seen /\ DOMAIN req' = DOMAIN NoRequest
    <2>1. PICK cookies : req' = [req EXCEPT !.pc = "answered", !.answer = "served", !.row = NoValue, !.via = 0,
                                            !.setCookies = cookies]
      BY <1>13 DEF Exchange
    <2>2. Replies("served") /\ Same /\ DOMAIN req' = DOMAIN NoRequest
      BY <1>0, <2>1 DEF Replies, Same, Fields
    <2>3. pool' \in {pool, [pool EXCEPT ![req.device] = @ \cup {req.via}]}
      BY <1>13 DEF Exchange
    <2>4. HandlerStep
      BY <1>13, <2>2, <2>3 DEF Exchange, HandlerStep
    <2> QED BY <1>13, <2>2, <2>4 DEF Exchange, Still, tableVars
  <1> QED BY <1>1, <1>2, <1>3, <1>4, <1>5, <1>6, <1>7, <1>9, <1>10, <1>11, <1>12, <1>13 DEF Handles

-----------------------------------------------------------------------------
(* The other steps: a request arrives or is over, and the tables change.   *)

LEMMA Distinct ==
    /\ NoValue # "path" /\ NoValue # "subdomain" /\ NoValue # "upstream"
    /\ NoValue \notin {"served", "offline", "bad-gateway", "bad-request", "unknown"}
    /\ NoValue \notin Row
  BY DEF Entries, Answers

\* A request that arrives is looked up, or answered by the relay itself.
Arrives(q) ==
    /\ req'.pc \in {"lookup", "slash", "relay"} /\ req'.entry \in {"path", "subdomain", NoValue}
    /\ req'.pc = "lookup" => req'.entry \in {"path", "subdomain"}
    /\ req'.from = q /\ req'.row = NoValue /\ req'.via = 0 /\ req'.answer = NoValue
    /\ DOMAIN req' = DOMAIN NoRequest
    /\ seen' = Sight(req'.device, q.user, rows, signedIn)
    /\ wasDown' = (req'.device \notin Devices \/ ~ Reachable(req'.device))

LEMMA ArriveStep == ASSUME NEW q, NEW a, NEW n, Arrive(q, a, n) PROVE Arrives(q)
  <1> DEFINE t == route_device_host(q)
  <1>1. /\ t.pc \in {"lookup", "slash", "relay"} /\ t.entry \in {"path", "subdomain", NoValue}
        /\ t.pc = "lookup" => t.entry \in {"path", "subdomain"}
    <2>1. \A path : LET d == dispatch(path) IN
             /\ d.pc \in {"lookup", "slash", "relay"} /\ d.entry \in {"path", NoValue}
             /\ d.pc = "lookup" => d.entry = "path"
      <3> SUFFICES ASSUME NEW path, NEW d, d = dispatch(path)
                   PROVE  /\ d.pc \in {"lookup", "slash", "relay"} /\ d.entry \in {"path", NoValue}
                          /\ d.pc = "lookup" => d.entry = "path"
        BY Zenon
      <3> DEFINE p == parse_device_path(path)
      <3>1. \/ d = Target("lookup", "path", p.device, p.rest)
            \/ d = Target("slash", "path", p.device, <<>>)
            \/ d = Target("relay", NoValue, NoValue, <<>>)
        <4> HIDE DEF p
        <4> QED BY DEF dispatch, p
      <3> HIDE DEF p
      <3> QED BY <3>1 DEF Target
    <2>2. CASE device_from_host(host_header(q)) # NoValue
      BY <2>2 DEF route_device_host, Target
    <2>3. CASE device_from_host(host_header(q)) = NoValue
      <3>1. t = dispatch(q.path)
        BY <2>3 DEF route_device_host
      <3> HIDE DEF t
      <3> QED BY <2>1, <3>1
    <2> QED BY <2>2, <2>3
  <1>2. /\ req' = [NoRequest EXCEPT !.pc = t.pc, !.entry = t.entry, !.device = t.device, !.rest = t.rest,
                                    !.from = q, !.asked = a, !.redirects = n]
        /\ seen' = Sight(t.device, q.user, rows, signedIn)
        /\ wasDown' = (t.device \notin Devices \/ ~ Reachable(t.device))
    BY DEF Arrive
  <1> HIDE DEF t
  <1>3. /\ req'.pc = t.pc /\ req'.entry = t.entry /\ req'.device = t.device /\ req'.from = q
        /\ req'.row = NoValue /\ req'.via = 0 /\ req'.answer = NoValue /\ DOMAIN req' = DOMAIN NoRequest
    BY <1>2 DEF NoRequest
  <1> QED BY <1>1, <1>2, <1>3 DEF Arrives

\* A stream from the upstream relay goes straight to the connector.
Opens(d) ==
    /\ req'.pc = "connect" /\ req'.entry = "upstream" /\ req'.device = d
    /\ req'.row = NoValue /\ req'.via = 0 /\ req'.answer = NoValue
    /\ DOMAIN req' = DOMAIN NoRequest
    /\ seen' = Sight(d, NoValue, rows, signedIn)
    /\ wasDown' = ~ Reachable(d)

LEMMA OpensStep == ASSUME NEW d \in Devices, ReceiveStream(d) PROVE Opens(d) /\ Still
  BY DEF ReceiveStream, Opens, Still, NoRequest, tableVars

Over == req' = NoRequest /\ seen' = NothingSeen /\ wasDown' = FALSE

LEMMA Triple ==
    ASSUME NEW a \in BOOLEAN, NEW b \in BOOLEAN, NEW c \in BOOLEAN
    PROVE  [public |-> a, reachable |-> b, signedIn |-> c] \in [{"public", "reachable", "signedIn"} -> BOOLEAN]
  OBVIOUS

LEMMA NothingTyped ==
    /\ DOMAIN NothingSeen = {"public", "reachable", "signedIn"}
    /\ NothingSeen \in [DOMAIN NothingSeen -> BOOLEAN]
  <1>1. DOMAIN NothingSeen = {"public", "reachable", "signedIn"}
    BY DEF NothingSeen
  <1>2. NothingSeen \in [{"public", "reachable", "signedIn"} -> BOOLEAN]
    BY Triple, Zenon DEF NothingSeen
  <1> QED BY <1>1, <1>2

LEMMA SightTyped ==
    ASSUME NEW d, NEW u, NEW r, NEW users PROVE Sight(d, u, r, users) \in [DOMAIN NothingSeen -> BOOLEAN]
  <1> DEFINE a == d \notin Enrolled \/ r[d].access = "public"
             b == d \in Enrolled /\ u # NoValue /\ is_reachable_by(r[d], u)
             c == u \in users
  <1>1. a \in BOOLEAN /\ b \in BOOLEAN /\ c \in BOOLEAN
    OBVIOUS
  <1>2. Sight(d, u, r, users) = [public |-> a, reachable |-> b, signedIn |-> c]
    BY DEF Sight
  <1> HIDE DEF a, b, c
  <1> QED BY <1>1, <1>2, Triple, NothingTyped

\* What is seen is what was seen and what the tables show now.
LEMMA ObserveStep ==
    ASSUME TypeOK, NEW r, NEW users, Observe(r, users)
    PROVE  LET now == Sight(req.device, Asking, r, users) IN
           /\ req.pc = "idle" => seen' = NothingSeen
           /\ req.pc # "idle" => /\ seen'.public = (seen.public \/ now.public)
                                 /\ seen'.reachable = (seen.reachable \/ now.reachable)
                                 /\ seen'.signedIn = (seen.signedIn \/ now.signedIn)
           /\ seen' \in [DOMAIN NothingSeen -> BOOLEAN]
  <1> DEFINE now == Sight(req.device, Asking, r, users)
  <1>1. DOMAIN NothingSeen = {"public", "reachable", "signedIn"} /\ NothingSeen \in [DOMAIN NothingSeen -> BOOLEAN]
    BY NothingTyped
  <1>2. seen \in [{"public", "reachable", "signedIn"} -> BOOLEAN]
    BY <1>1 DEF TypeOK
  <1>3. seen' = IF req.pc = "idle" THEN NothingSeen ELSE [f \in DOMAIN seen |-> seen[f] \/ now[f]]
    BY DEF Observe, Asking
  <1> HIDE DEF now
  <1>4. CASE req.pc = "idle"
    <2>1. seen' = NothingSeen
      BY <1>3, <1>4
    <2> QED BY <1>1, <1>4, <2>1
  <1>5. CASE req.pc # "idle"
    <2>1. seen' = [f \in {"public", "reachable", "signedIn"} |-> seen[f] \/ now[f]]
      BY <1>2, <1>3, <1>5
    <2>2. seen' \in [{"public", "reachable", "signedIn"} -> BOOLEAN]
      BY <1>2, <2>1
    <2>3. /\ seen'.public = (seen.public \/ now.public)
          /\ seen'.reachable = (seen.reachable \/ now.reachable)
          /\ seen'.signedIn = (seen.signedIn \/ now.signedIn)
      BY <2>1
    <2> QED BY <1>1, <1>5, <2>2, <2>3 DEF now
  <1> QED BY <1>4, <1>5

\* Policies, owners and sessions change, and what they allow now has been seen.
PolicyChanges ==
    /\ UNCHANGED <<config, tableVars, pool, req, wasDown>>
    /\ rows' \in [Enrolled -> Row] /\ signedIn' \subseteq Users
    /\ seen' \in [DOMAIN NothingSeen -> BOOLEAN]
    /\ req.pc # "idle" =>
         LET now == Sight(req.device, Asking, rows', signedIn')
             before == Sight(req.device, Asking, rows, signedIn) IN
         /\ seen.public => seen'.public
         /\ seen.reachable => seen'.reachable
         /\ seen.signedIn => seen'.signedIn
         /\ now.public => seen'.public \/ before.public
         /\ now.reachable => seen'.reachable \/ before.reachable
         /\ now.signedIn => seen'.signedIn \/ before.signedIn

LEMMA PolicySteps ==
    ASSUME TypeOK,
           \/ \E d \in Enrolled, access \in {"public", "relay-login"} : UpdateAccess(d, access)
           \/ Disown
           \/ \E u \in Users : SignIn(u) \/ SignOut(u)
    PROVE  PolicyChanges
  <1>0. /\ rows \in [Enrolled -> Row] /\ signedIn \subseteq Users
        /\ seen \in [DOMAIN NothingSeen -> BOOLEAN] /\ NothingSeen \in [DOMAIN NothingSeen -> BOOLEAN]
    BY NothingTyped DEF TypeOK
  <1>1. ASSUME rows' \in [Enrolled -> Row], signedIn' \subseteq Users, Observe(rows', signedIn'),
               UNCHANGED <<config, tableVars, pool, req, wasDown>>
        PROVE  PolicyChanges
    BY <1>1, ObserveStep DEF PolicyChanges
  <1>2. ASSUME NEW d \in Enrolled, NEW access \in {"public", "relay-login"}, UpdateAccess(d, access)
        PROVE  PolicyChanges
    <2>1. rows' \in [Enrolled -> Row]
      BY <1>0, <1>2 DEF UpdateAccess, Row
    <2>2. Observe(rows', signedIn') /\ UNCHANGED <<config, tableVars, pool, req, wasDown>> /\ signedIn' = signedIn
      BY <1>2 DEF UpdateAccess
    <2> QED BY <1>0, <1>1, <2>1, <2>2
  <1>3. CASE Disown
    <2>1. rows' \in [Enrolled -> Row]
      BY <1>0, <1>3 DEF Disown, Row
    <2>2. Observe(rows', signedIn') /\ UNCHANGED <<config, tableVars, pool, req, wasDown>> /\ signedIn' = signedIn
      BY <1>3 DEF Disown
    <2> QED BY <1>0, <1>1, <2>1, <2>2
  <1>4. ASSUME NEW u \in Users, SignIn(u) PROVE PolicyChanges
    <2>1. Observe(rows', signedIn') /\ UNCHANGED <<config, tableVars, pool, req, wasDown>>
          /\ rows' = rows /\ signedIn' \subseteq Users
      BY <1>0, <1>4 DEF SignIn
    <2> QED BY <1>0, <1>1, <2>1
  <1>5. ASSUME NEW u \in Users, SignOut(u) PROVE PolicyChanges
    <2>1. /\ UNCHANGED <<config, rows, tableVars, pool, req, seen, wasDown>>
          /\ signedIn' \subseteq signedIn
      BY <1>5 DEF SignOut
    <2>2. LET now == Sight(req.device, Asking, rows', signedIn')
              before == Sight(req.device, Asking, rows, signedIn) IN
          /\ now.public => before.public
          /\ now.reachable => before.reachable
          /\ now.signedIn => before.signedIn
      BY <2>1 DEF Sight
    <2> QED BY <1>0, <2>1, <2>2 DEF PolicyChanges
  <1> QED BY <1>2, <1>3, <1>4, <1>5

\* Tunnels come and go; a request whose device loses its tunnel remembers it.
TunnelChanges ==
    /\ UNCHANGED <<config, rows, signedIn, pool, req, seen>>
    /\ table' \in [Devices -> 0..MaxTunnel] /\ alive' \subseteq 1..MaxTunnel /\ lastTunnel' \in 0..MaxTunnel
    /\ recalled' \subseteq Devices \ Enrolled
    /\ wasDown' \in BOOLEAN /\ (wasDown => wasDown')
    /\ req.device \in Devices /\ ~ (table'[req.device] \in alive') => wasDown' \/ ~ Reachable(req.device)

LEMMA TunnelSteps ==
    ASSUME TypeOK, (\E d \in Devices : TunnelUp(d) \/ TunnelDown(d)) \/ (\E t \in alive : TunnelBreaks(t))
    PROVE  TunnelChanges
  <1> USE DEF TypeOK
  <1>1. ASSUME NEW d \in Devices, TunnelUp(d) PROVE TunnelChanges
    <2>1. lastTunnel + 1 \in 1..MaxTunnel /\ lastTunnel' = lastTunnel + 1
      BY <1>1 DEF TunnelUp
    <2> QED BY <1>1, <2>1 DEF TunnelUp, TunnelChanges, Reachable
  <1>2. ASSUME NEW d \in Devices, TunnelDown(d) PROVE TunnelChanges
    <2>1. recalled' \subseteq Devices \ Enrolled
      BY <1>2 DEF TunnelDown, remember
    <2>2. table' = [table EXCEPT ![d] = 0] /\ alive' = alive /\ wasDown' = (wasDown \/ req.device = d)
      BY <1>2 DEF TunnelDown
    <2>3. req.device \in Devices /\ ~ (table'[req.device] \in alive') => wasDown' \/ ~ Reachable(req.device)
      BY <2>2 DEF Reachable
    <2>4. table' \in [Devices -> 0..MaxTunnel] /\ wasDown' \in BOOLEAN /\ (wasDown => wasDown')
      BY <2>2
    <2> QED BY <1>2, <2>1, <2>2, <2>3, <2>4 DEF TunnelDown, TunnelChanges
  <1>3. ASSUME NEW t \in alive, TunnelBreaks(t) PROVE TunnelChanges
    BY <1>3 DEF TunnelBreaks, TunnelChanges, Reachable
  <1> QED BY <1>1, <1>2, <1>3

\* Every step, by what it does to the request.
LEMMA NextIs ==
    ASSUME TypeOK, [Next]_vars
    PROVE  \/ \E q : Arrives(q) /\ Still /\ pool' = pool
           \/ \E d \in Devices : Opens(d) /\ Still /\ pool' = pool
           \/ Over /\ Still /\ pool' = pool
           \/ Handles
           \/ PolicyChanges
           \/ TunnelChanges
           \/ UNCHANGED vars
  <1>1. ASSUME NEW q \in Requests, Receive(q) PROVE \E k : Arrives(k) /\ Still /\ pool' = pool
    BY <1>1, ArriveStep DEF Receive, Still, tableVars
  <1>2. ASSUME NEW d \in Devices, ReceiveStream(d) PROVE Opens(d) /\ Still /\ pool' = pool
    BY <1>2, OpensStep DEF ReceiveStream
  <1>3. CASE Follow
    <2>1. PICK q, a, n : Arrive(q, a, n)
      BY <1>3 DEF Follow
    <2>2. Still /\ pool' = pool
      BY <1>3 DEF Follow, Still, tableVars
    <2> QED BY <2>1, <2>2, ArriveStep
  <1>4. CASE Done
    BY <1>4 DEF Done, Over, Still, tableVars
  <1>5. Forwarding => Handles \/ Follow \/ Done
    BY DEF Forwarding, Handles
  <1>6. Meanwhile => PolicyChanges \/ TunnelChanges
    BY PolicySteps, TunnelSteps DEF Meanwhile
  <1> QED BY <1>1, <1>2, <1>3, <1>4, <1>5, <1>6 DEF Next

-----------------------------------------------------------------------------
LEMMA InitGuardInv == Init => GuardInv /\ DownInv /\ ToldByRelay
  <1> SUFFICES ASSUME Init PROVE GuardInv /\ DownInv /\ ToldByRelay
    OBVIOUS
  <1>1. /\ req.pc = "idle" /\ req.entry = NoValue /\ req.answer = NoValue /\ req.via = 0
        /\ DOMAIN req = DOMAIN NoRequest
    BY DEF Init, NoRequest
  <1>2. TypeOK
    <2>1. [access |-> "public", owner |-> Owner] \in Row
      BY DEF Row
    <2>2. rows \in [Enrolled -> Row]
      BY <2>1 DEF Init
    <2>3. seen \in [DOMAIN NothingSeen -> BOOLEAN]
      BY NothingTyped DEF Init
    <2>4. /\ table \in [Devices -> 0..MaxTunnel] /\ pool \in [Devices -> SUBSET (1..MaxTunnel)]
          /\ lastTunnel \in 0..MaxTunnel /\ alive \subseteq 1..MaxTunnel
      BY DEF Init
    <2>5. wasDown \in BOOLEAN /\ config \in Configs /\ signedIn \subseteq Users /\ recalled \subseteq Devices \ Enrolled
      BY DEF Init
    <2> QED BY <1>1, <2>2, <2>3, <2>4, <2>5 DEF TypeOK
  <1>3. HandlerInv /\ SightInv /\ RowInv /\ DownInv
    BY <1>1 DEF HandlerInv, SightInv, RowInv, DownInv, Towards
  <1>4. GuardedRequests /\ ToldByRelay
    BY <1>1, Distinct DEF GuardedRequests, ToldByRelay, Passed
  <1> QED BY <1>2, <1>3, <1>4 DEF GuardInv

LEMMA TypeStep == GuardInv /\ [Next]_vars => TypeOK'
  <1> SUFFICES ASSUME GuardInv, [Next]_vars PROVE TypeOK'
    OBVIOUS
  <1>0. TypeOK /\ HandlerInv
    BY DEF GuardInv
  <1>1. ASSUME NEW q, Arrives(q), Still, pool' = pool PROVE TypeOK'
    <2>1. seen' \in [DOMAIN NothingSeen -> BOOLEAN] /\ wasDown' \in BOOLEAN
      BY <1>1, SightTyped DEF Arrives
    <2> QED BY <1>0, <1>1, <2>1 DEF TypeOK, Arrives, Still, tableVars
  <1>2. ASSUME NEW d \in Devices, Opens(d), Still, pool' = pool PROVE TypeOK'
    <2>1. seen' \in [DOMAIN NothingSeen -> BOOLEAN] /\ wasDown' \in BOOLEAN
      BY <1>2, SightTyped DEF Opens
    <2> QED BY <1>0, <1>2, <2>1 DEF TypeOK, Opens, Still, tableVars
  <1>3. ASSUME Over, Still, pool' = pool PROVE TypeOK'
    <2>1. seen' \in [DOMAIN NothingSeen -> BOOLEAN] /\ wasDown' \in BOOLEAN
      BY <1>3, NothingTyped DEF Over
    <2>2. req'.pc = "idle" /\ req'.via = 0 /\ DOMAIN req' = DOMAIN NoRequest
      BY <1>3 DEF Over, NoRequest
    <2> QED BY <1>0, <1>3, <2>1, <2>2 DEF TypeOK, Still, tableVars
  <1>4. CASE Handles
    <2>1. HandlerStep /\ Same /\ Still /\ seen' = seen /\ DOMAIN req' = DOMAIN NoRequest
      BY <1>0, <1>4, HandlerSteps
    <2>2. /\ pool \in [Devices -> SUBSET (1..MaxTunnel)] /\ alive \subseteq 1..MaxTunnel /\ wasDown \in BOOLEAN
          /\ table \in [Devices -> 0..MaxTunnel] /\ req.via \in 0..MaxTunnel
          /\ req.pc \in Towards => req.device \in Devices
      BY <1>0 DEF TypeOK, HandlerInv
    <2>3. pool' \in [Devices -> SUBSET (1..MaxTunnel)]
      BY <2>1, <2>2 DEF HandlerStep, Towards
    <2>4. req'.via \in 0..MaxTunnel
      BY <2>1, <2>2 DEF HandlerStep, Towards, Replies
    <2>5. req'.pc \in {"guard", "online", "client", "connect", "opening", "exchange", "answered"}
      BY <2>1 DEF HandlerStep, Replies, Proceeds
    <2>6. wasDown' \in BOOLEAN
      BY <1>4, <2>2 DEF Handles, AnswerLocally, FindDevice, FindDeviceFails, Admit, CheckOnline, UsePooled, UseConnector,
                       TakeRoute, OpenStream, OpenFails, ExchangeFails, Exchange
    <2> QED BY <1>0, <2>1, <2>3, <2>4, <2>5, <2>6 DEF TypeOK, Still, tableVars
  <1>5. CASE PolicyChanges
    BY <1>0, <1>5 DEF TypeOK, PolicyChanges, tableVars
  <1>6. CASE TunnelChanges
    BY <1>0, <1>6 DEF TypeOK, TunnelChanges
  <1>7. CASE UNCHANGED vars
    BY <1>0, <1>7 DEF TypeOK, vars, tableVars
  <1> QED BY <1>0, <1>1, <1>2, <1>3, <1>4, <1>5, <1>6, <1>7, NextIs

\* What guard() lets through was allowed since the request arrived.
LEMMA GuardAdmits ==
    ASSUME GuardInv, req.pc = "guard", NEW user \in signed_in_user, guard(user) = "pass"
    PROVE  Admissible
  <1>1. CASE req.row = NoValue \/ req.row.access = "public"
    BY <1>1 DEF GuardInv, RowInv, Admissible
  <1>2. CASE ~ (req.row = NoValue \/ req.row.access = "public")
    <2>1. user # NoValue /\ is_reachable_by(req.row, user) /\ req.entry # "subdomain"
      BY <1>2 DEF guard
    <2>2. req.entry = "path"
      BY <2>1 DEF GuardInv, HandlerInv
    <2>3. user = req.from.user /\ user \in signedIn /\ user \in Users
      BY <2>1 DEF signed_in_user, GuardInv, TypeOK
    <2>4. seen.reachable
      BY <1>2, <2>1, <2>3 DEF GuardInv, RowInv
    <2>5. Asking = user
      BY <2>2, <2>3 DEF Asking
    <2>6. seen.signedIn
      BY <2>3, <2>5 DEF GuardInv, SightInv, Sight
    <2> QED BY <2>2, <2>4, <2>6 DEF Admissible
  <1> QED BY <1>1, <1>2

LEMMA HandlesKeepsGuard ==
    ASSUME GuardInv, Handles PROVE (HandlerInv /\ SightInv /\ RowInv /\ GuardedRequests)'
  <1>0. TypeOK /\ HandlerInv /\ SightInv /\ RowInv /\ GuardedRequests
    BY DEF GuardInv
  <1>1. HandlerStep /\ Same /\ Still /\ seen' = seen
    BY <1>0, HandlerSteps
  <1>2. HandlerInv'
    <2>1. req'.pc \in Towards => req'.device \in Devices
      BY <1>0, <1>1 DEF HandlerStep, HandlerInv, Towards, Same, Replies, Proceeds
    <2>2. req'.pc \in {"lookup", "guard", "online"} => req'.entry \in {"path", "subdomain"}
      BY <1>0, <1>1 DEF HandlerStep, HandlerInv, Same, Replies, Proceeds
    <2>3. req'.pc # "answered" => req'.answer = NoValue
      BY <1>0, <1>1 DEF HandlerStep, HandlerInv, Replies, Proceeds
    <2> QED BY <2>1, <2>2, <2>3 DEF HandlerInv
  <1>3. SightInv'
    <2>1. Asking' = Asking /\ rows' = rows /\ signedIn' = signedIn /\ req'.device = req.device
      BY <1>1 DEF Asking, Same, Still
    <2>2. req.pc # "idle"
      BY <1>1 DEF HandlerStep, Proceeds
    <2> QED BY <1>0, <1>1, <2>1, <2>2 DEF SightInv, Sight
  <1>4. RowInv'
    <2> SUFFICES ASSUME req'.pc = "guard" PROVE RowInv'
      BY DEF RowInv
    <2>1. req.pc = "lookup" /\ req'.row = RowOf(req.device)
      BY <1>1 DEF HandlerStep, Replies, Proceeds
    <2>2. CASE req.device \notin Enrolled
      <3>1. seen.public
        BY <1>0, <2>1, <2>2 DEF SightInv, Sight
      <3> QED BY <1>1, <2>1, <2>2, <3>1 DEF RowInv, RowOf
    <2>3. CASE req.device \in Enrolled
      <3>1. req'.row = rows[req.device] /\ req'.row \in Row /\ req'.row # NoValue
        BY <1>0, <2>1, <2>3, Distinct DEF RowOf, TypeOK
      <3>2. Asking = req'.from.user
        BY <1>0, <1>1, <2>1 DEF Asking, Same, HandlerInv
      <3>3. req'.row.access = "public" => seen.public
        BY <1>0, <2>1, <2>3, <3>1 DEF SightInv, Sight
      <3>4. \A u \in Users : u = req'.from.user /\ is_reachable_by(req'.row, u) => seen.reachable
        BY <1>0, <2>1, <2>3, <3>1, <3>2 DEF SightInv, Sight
      <3> QED BY <1>1, <3>1, <3>3, <3>4 DEF RowInv
    <2> QED BY <2>2, <2>3
  <1>5. GuardedRequests'
    <2> SUFFICES ASSUME req'.entry \in {"path", "subdomain"}, Passed' PROVE Admissible'
      BY DEF GuardedRequests
    <2>1. Admissible' = Admissible
      BY <1>1 DEF Admissible, Same
    <2>2. \/ Passed
          \/ req.pc = "guard" /\ \E user \in signed_in_user : guard(user) = "pass"
      <3>1. req.pc # "answered" /\ req.answer = NoValue
        BY <1>0, <1>1 DEF HandlerStep, Proceeds, HandlerInv
      <3>2. ASSUME NEW user, Replies(guard(user)), guard(user) # "pass" PROVE FALSE
        BY <3>2 DEF Passed, Replies, guard
      <3> QED BY <1>1, <3>1, <3>2, Distinct DEF HandlerStep, Passed, Replies, Proceeds
    <2>3. Admissible
      BY <1>0, <1>1, <2>2, GuardAdmits DEF GuardedRequests, Same
    <2> QED BY <2>1, <2>3
  <1> QED BY <1>2, <1>3, <1>4, <1>5

LEMMA GuardStep == GuardInv /\ [Next]_vars => GuardInv'
  <1> SUFFICES ASSUME GuardInv, [Next]_vars PROVE (HandlerInv /\ SightInv /\ RowInv /\ GuardedRequests)'
    BY TypeStep DEF GuardInv
  <1>0. TypeOK /\ HandlerInv /\ SightInv /\ RowInv /\ GuardedRequests
    BY DEF GuardInv
  <1>1. ASSUME NEW q, Arrives(q), Still PROVE (HandlerInv /\ SightInv /\ RowInv /\ GuardedRequests)'
    <2>1. HandlerInv' /\ RowInv'
      BY <1>1 DEF Arrives, HandlerInv, RowInv, Towards
    <2>2. Asking' = q.user
      BY <1>1, Distinct DEF Arrives, Asking
    <2>3. SightInv'
      BY <1>1, <2>2 DEF Arrives, Still, SightInv
    <2>4. GuardedRequests'
      BY <1>1, Distinct DEF Arrives, GuardedRequests, Passed
    <2> QED BY <2>1, <2>3, <2>4
  <1>2. ASSUME NEW d \in Devices, Opens(d), Still PROVE (HandlerInv /\ SightInv /\ RowInv /\ GuardedRequests)'
    <2>1. HandlerInv' /\ RowInv' /\ GuardedRequests'
      BY <1>2 DEF Opens, HandlerInv, RowInv, Towards, GuardedRequests
    <2>2. Asking' = NoValue
      BY <1>2 DEF Opens, Asking
    <2>3. SightInv'
      BY <1>2, <2>2 DEF Opens, Still, SightInv
    <2> QED BY <2>1, <2>3
  <1>3. ASSUME Over PROVE (HandlerInv /\ SightInv /\ RowInv /\ GuardedRequests)'
    <2>1. req'.pc = "idle" /\ req'.entry = NoValue /\ req'.answer = NoValue
      BY <1>3 DEF Over, NoRequest
    <2> QED BY <2>1, Distinct DEF HandlerInv, SightInv, RowInv, GuardedRequests, Towards
  <1>4. CASE Handles
    BY <1>4, HandlesKeepsGuard
  <1>5. CASE PolicyChanges
    <2>1. req' = req /\ Asking' = Asking
      BY <1>5 DEF PolicyChanges, Asking
    <2>2. HandlerInv'
      BY <1>0, <2>1 DEF HandlerInv
    <2>3. SightInv'
      BY <1>0, <1>5, <2>1 DEF PolicyChanges, SightInv
    <2>4. RowInv'
      BY <1>0, <1>5, <2>1 DEF PolicyChanges, RowInv
    <2>5. GuardedRequests'
      <3>1. CASE req.pc = "idle"
        BY <1>0, <2>1, <3>1, Distinct DEF GuardedRequests, Passed, HandlerInv
      <3>2. CASE req.pc # "idle"
        BY <1>0, <1>5, <2>1, <3>2 DEF PolicyChanges, GuardedRequests, Passed, Admissible
      <3> QED BY <3>1, <3>2
    <2> QED BY <2>2, <2>3, <2>4, <2>5
  <1>6. ASSUME UNCHANGED <<req, rows, signedIn, seen>> PROVE (HandlerInv /\ SightInv /\ RowInv /\ GuardedRequests)'
    BY <1>0, <1>6 DEF HandlerInv, SightInv, RowInv, GuardedRequests, Passed, Admissible, Asking
  <1>7. CASE TunnelChanges \/ UNCHANGED vars
    BY <1>6, <1>7 DEF TunnelChanges, vars
  <1> QED BY <1>0, <1>1, <1>2, <1>3, <1>4, <1>5, <1>7, NextIs

LEMMA DownStep == GuardInv /\ DownInv /\ [Next]_vars => DownInv'
  <1> SUFFICES ASSUME GuardInv, DownInv, [Next]_vars PROVE DownInv'
    OBVIOUS
  <1>0. TypeOK /\ HandlerInv
    BY DEF GuardInv
  <1>1. ASSUME NEW q, Arrives(q), Still PROVE DownInv'
    BY <1>1 DEF Arrives, Still, tableVars, DownInv, Reachable
  <1>2. ASSUME NEW d \in Devices, Opens(d), Still PROVE DownInv'
    BY <1>2 DEF Opens, Still, tableVars, DownInv, Reachable
  <1>3. ASSUME Over PROVE DownInv'
    <2>1. req'.pc = "idle"
      BY <1>3 DEF Over, NoRequest
    <2> QED BY <2>1 DEF DownInv
  <1>4. CASE Handles
    <2>1. HandlerStep /\ Same /\ Still
      BY <1>0, <1>4, HandlerSteps
    <2>2. wasDown' = wasDown /\ req.pc # "idle"
      BY <2>1 DEF HandlerStep, Proceeds
    <2> QED BY <2>1, <2>2 DEF DownInv, Same, Still, tableVars, Reachable
  <1>5. CASE PolicyChanges \/ UNCHANGED vars
    BY <1>5 DEF PolicyChanges, vars, tableVars, DownInv, Reachable
  <1>6. CASE TunnelChanges
    BY <1>6 DEF TunnelChanges, DownInv, Reachable
  <1> QED BY <1>0, <1>1, <1>2, <1>3, <1>4, <1>5, <1>6, NextIs

\* What every step keeps to that answers offline or unknown.
OfflineAnswer ==
    req.answer = NoValue /\ req'.answer \in {"offline", "unknown"} =>
        wasDown \/ (req.pc = "opening" /\ (req.via # table[req.device] \/ req.via \in alive))

LEMMA OfflineStep == GuardInv /\ DownInv /\ [Next]_vars => OfflineAnswer
  <1> SUFFICES ASSUME GuardInv, DownInv, [Next]_vars,
                      req.answer = NoValue, req'.answer \in {"offline", "unknown"}
               PROVE  wasDown \/ (req.pc = "opening" /\ (req.via # table[req.device] \/ req.via \in alive))
    BY DEF OfflineAnswer
  <1>0. TypeOK /\ HandlerInv
    BY DEF GuardInv
  <1>1. req'.answer # NoValue
    BY Distinct
  <1>2. Handles
    <2>1. req' # req /\ \A q : ~ Arrives(q)
      BY <1>1 DEF Arrives
    <2>2. ~ Over
      BY <1>1 DEF Over, NoRequest
    <2>3. \A d \in Devices : ~ Opens(d)
      BY <1>1 DEF Opens
    <2>4. ~ PolicyChanges /\ ~ TunnelChanges /\ ~ UNCHANGED vars
      BY <2>1 DEF PolicyChanges, TunnelChanges, vars
    <2> QED BY <1>0, <2>1, <2>2, <2>3, <2>4, NextIs
  <1>3. HandlerStep
    BY <1>0, <1>2, HandlerSteps
  <1>4. req.pc # "idle"
    BY <1>3 DEF HandlerStep, Proceeds
  <1>5. ~ (req.device \in Devices /\ table[req.device] \in alive) => wasDown
    BY <1>4 DEF DownInv, Reachable
  <1>6. ~ (req.device \in Devices /\ Online(req.device)) => wasDown
    BY <1>0, <1>5 DEF Online, TypeOK
  <1>7. ASSUME NEW user PROVE guard(user) \notin {"offline", "unknown"}
    BY DEF guard
  <1>8. CASE req.pc = "opening"
    BY <1>5, <1>8
  <1>9. CASE req.pc # "opening"
    <2>1. req.pc \in {"online", "connect"} /\ ~ (req.device \in Devices /\ Online(req.device))
      BY <1>1, <1>3, <1>7, <1>9 DEF HandlerStep, Replies, Proceeds
    <2> QED BY <1>6, <2>1
  <1> QED BY <1>8, <1>9

-----------------------------------------------------------------------------
(* What the device is told.                                                *)

\* What prepare_request_headers() makes of a browser's headers, whatever those are.
LEMMA HeadersAreOurs ==
    ASSUME NEW h, NEW ip, NEW base, NEW websocket \in BOOLEAN
    PROVE  LET sent == prepare_request_headers(h, ip, base, websocket) IN
           sent["x-forwarded-for"] = <<ip>> /\ sent["x-termexo-base"] = <<base>> /\ sent["te"] = <<>>
  <1> DEFINE stripped == strip_hop_by_hop(h, websocket)
             taken == take_console_session(stripped)
  <1>1. stripped["te"] = <<>> /\ DOMAIN stripped = HeaderNames
    BY DEF strip_hop_by_hop, HeaderNames, HopByHop
  <1> HIDE DEF stripped
  <1>2. taken["te"] = <<>> /\ DOMAIN taken = HeaderNames
    <2>1. taken = stripped \/ \E cookies : taken = [stripped EXCEPT !["cookie"] = cookies]
      BY DEF take_console_session
    <2> HIDE DEF taken
    <2> QED BY <1>1, <2>1 DEF HeaderNames
  <1>3. prepare_request_headers(h, ip, base, websocket) =
            [taken EXCEPT !["host"] = <<>>, !["x-forwarded-for"] = <<ip>>, !["x-termexo-base"] = <<base>>]
    BY DEF prepare_request_headers, stripped
  <1> HIDE DEF taken
  <1> QED BY <1>2, <1>3 DEF HeaderNames

LEMMA SentOnce == ASSUME TypeOK, Handles, ~ CheckOnline PROVE req'.sent = req.sent
  <1>0. DOMAIN req = Fields
    BY FieldsAre DEF TypeOK
  <1>1. ASSUME NEW a, Answer(a) PROVE req'.sent = req.sent
    BY <1>0, <1>1 DEF Answer, Fields
  <1>2. CASE AnswerLocally \/ FindDeviceFails \/ OpenFails \/ ExchangeFails
    BY <1>1, <1>2 DEF AnswerLocally, FindDeviceFails, OpenFails, ExchangeFails, CannotConnect
  <1>3. CASE FindDevice \/ UseConnector \/ OpenStream
    BY <1>0, <1>3 DEF FindDevice, UseConnector, OpenStream, Fields
  <1>4. CASE Admit
    BY <1>0, <1>1, <1>4 DEF Admit, Fields
  <1>5. CASE UsePooled
    BY <1>0, <1>5 DEF UsePooled, Fields
  <1>6. CASE TakeRoute
    BY <1>0, <1>1, <1>6 DEF TakeRoute, CannotConnect, Fields
  <1>7. ASSUME NEW names, Exchange(names) PROVE req'.sent = req.sent
    BY <1>0, <1>7 DEF Exchange, Fields
  <1> QED BY <1>2, <1>3, <1>4, <1>5, <1>6, <1>7 DEF Handles

LEMMA ToldStep == GuardInv /\ ToldByRelay /\ [Next]_vars => ToldByRelay'
  <1> SUFFICES ASSUME GuardInv, ToldByRelay, [Next]_vars,
                      req'.pc \in Towards, req'.entry # "upstream"
               PROVE  ToldByRelay'
    BY DEF ToldByRelay, Towards
  <1>0. TypeOK /\ HandlerInv
    BY DEF GuardInv
  <1>1. ASSUME NEW q, Arrives(q) PROVE FALSE
    BY <1>1 DEF Arrives, Towards
  <1>2. ASSUME NEW d \in Devices, Opens(d) PROVE FALSE
    BY <1>2 DEF Opens
  <1>3. ASSUME Over PROVE FALSE
    BY <1>3 DEF Over, NoRequest, Towards
  <1>4. ASSUME Handles, ~ CheckOnline PROVE ToldByRelay'
    <2>1. HandlerStep /\ Same /\ Still /\ req'.sent = req.sent
      BY <1>0, <1>4, HandlerSteps, SentOnce
    <2>2. req.pc # "online"
      BY <1>4 DEF Handles, AnswerLocally, FindDevice, FindDeviceFails, Admit, UsePooled, UseConnector, TakeRoute,
                  OpenStream, OpenFails, ExchangeFails, Exchange
    <2>3. req.pc \in Towards
      BY <2>1, <2>2 DEF HandlerStep, Replies, Proceeds, Towards
    <2>4. base_path(req') = base_path(req) /\ config' = config
      BY <2>1 DEF Same, Still, base_path
    <2> QED BY <2>1, <2>3, <2>4 DEF ToldByRelay, Towards, Same
  <1>5. CASE CheckOnline
    <2> DEFINE h == req.from.headers
               ip == resolve(h, req.from.peer)
               websocket == is_websocket_upgrade(h)
               sent == prepare_request_headers(h, ip, base_path(req), websocket)
    <2>1. Same /\ Still
      BY <1>0, <1>5, HandlerSteps DEF Handles
    <2>2. ~ \E a : Answer(a)
      <3>1. ASSUME NEW a, Answer(a) PROVE FALSE
        BY <1>0, <3>1, AnswerReplies DEF TypeOK, Replies, Towards
      <3> QED BY <3>1
    <2>3. \E to : req' = [req EXCEPT !.pc = to, !.sent = sent]
      BY <1>5, <2>2 DEF CheckOnline
    <2>4. req'.sent = sent
      <3> HIDE DEF sent
      <3> QED BY <1>0, <2>3, FieldsAre DEF TypeOK, Fields
    <2>5. websocket \in BOOLEAN
      BY DEF is_websocket_upgrade
    <2>6. /\ sent["x-forwarded-for"] = <<ip>> /\ sent["x-termexo-base"] = <<base_path(req)>> /\ sent["te"] = <<>>
      <3> HIDE DEF websocket, ip
      <3> QED BY <2>5, HeadersAreOurs
    <2>7. ip = IF \/ config.tls \/ req.from.peer # "proxy" \/ h["x-forwarded-for"] = <<>>
                  \/ Head(h["x-forwarded-for"]) \in {"malformed", NoValue}
               THEN req.from.peer ELSE Head(h["x-forwarded-for"])
      BY DEF resolve, first_forwarded_address
    <2>8. base_path(req') = base_path(req) /\ config' = config /\ req'.from = req.from
      BY <2>1 DEF Same, Still, base_path
    <2> HIDE DEF sent, ip
    <2> QED BY <2>4, <2>6, <2>7, <2>8 DEF ToldByRelay
  <1>6. ASSUME req' = req, config' = config PROVE ToldByRelay'
    BY <1>6 DEF ToldByRelay, base_path
  <1>7. CASE PolicyChanges \/ TunnelChanges \/ UNCHANGED vars
    BY <1>6, <1>7 DEF PolicyChanges, TunnelChanges, vars
  <1> QED BY <1>0, <1>1, <1>2, <1>3, <1>4, <1>5, <1>7, NextIs

-----------------------------------------------------------------------------
LEMMA GuardIsInductive == Spec => [](GuardInv /\ DownInv /\ ToldByRelay)
  <1>1. Init => GuardInv /\ DownInv /\ ToldByRelay
    BY InitGuardInv
  <1>2. GuardInv /\ DownInv /\ ToldByRelay /\ [Next]_vars => (GuardInv /\ DownInv /\ ToldByRelay)'
    BY GuardStep, DownStep, ToldStep
  <1> QED BY <1>1, <1>2, PTL DEF Spec

\* access::guard() over five reads at five moments: with policies, owners and sessions changing between
\* any two of them, a browser gets to a relay-login device, or learns that it is offline, only if some
\* policy and some session since it asked allowed it.
THEOREM PolicyCoversRequests == Spec => []GuardedRequests
  <1>1. GuardInv => GuardedRequests
    BY DEF GuardInv
  <1> QED BY <1>1, GuardIsInductive, PTL

\* unreachable_page() and bridge_websocket(): a browser is told offline or unknown only if the device
\* had no working tunnel at some moment since the request arrived, whatever tunnel a pooled connection is
\* on, or when the tunnel its stream was being opened on has been displaced or did not open it in time.
THEOREM OfflineMeansDown == Spec => OfflineIsTrue
  <1>1. GuardInv /\ DownInv /\ [Next]_vars => [OfflineAnswer]_vars
    BY OfflineStep
  <1> QED BY <1>1, GuardIsInductive, PTL DEF Spec, OfflineIsTrue, OfflineAnswer

\* prepare_request_headers() and forwarded::resolve(): whatever headers a browser sends, the device is
\* told one address and one base, both the relay's own word.
THEOREM RelaySpeaksForBrowser == Spec => []ToldByRelay
  BY GuardIsInductive, PTL

-----------------------------------------------------------------------------
(* Redirects.                                                              *)

\* A request as a browser sends it: the Host header is the host of its URL, or there is none.
IsRequest(q) ==
    /\ {"host", "path", "headers"} \subseteq DOMAIN q /\ DOMAIN q.headers = HeaderNames
    /\ q.host \in Hosts /\ q.headers["host"] \in {<<>>, <<q.host>>}

\* What the browser asked for, where the relay can know it.
Told(q) == q # NoValue /\ HostIsTold(q)

\* While a request may still be sent on, its device and path are what the URL that was asked for names.
MeantInv ==
    /\ req.entry \in {"path", "subdomain"} => req.device \in Segments /\ req.device # Empty /\ IsRequest(req.from)
    /\ req.pc \in {"lookup", "guard"} \/ req.answer \in {"to-path-form", "to-login"} => Path(req.rest)
    /\ Told(req.asked) =>
          /\ req.pc = "relay" => ~ NamesDevice(req.asked)
          /\ req.rest # <<>> => Names(req.asked, req.device, req.rest)
          /\ req.pc = "slash" \/ req.answer = "to-directory" =>
                ~ IsDeviceHost(req.asked.host) /\ req.asked.path = path_base(req.device)

\* A redirect leads to the path form, off a device's own host, and from there only to the login page.
RedirectInv ==
    /\ req.redirects \in {0, 1}
    /\ req.entry = "path" => device_from_host(host_header(req.from)) = NoValue
    /\ req.answer = "to-path-form" => req.entry = "subdomain"
    /\ req.pc = "slash" \/ req.answer \in {"to-directory", "to-login"} => req.entry = "path"
    /\ req.entry = "subdomain" \/ req.pc = "slash" \/ req.answer = "to-directory" => req.redirects = 0

RouteStrength == MeantInv /\ RedirectInv

\* With a base domain, its labels.
LEMMA BaseTyped == ASSUME TypeOK, config.base # NoValue PROVE config.base \in Seq(Segments)
  BY AddressAssumption DEF TypeOK, AddressAssumption

\* Reading a host and writing it are inverse: label_of() finds d exactly in front of the base.
LEMMA HostsAreRead ==
    ASSUME TypeOK, NEW host \in Hosts
    PROVE  /\ device_from_host(host) # NoValue =>
                 device_from_host(host) \in Devices /\ IsHostOf(device_from_host(host), host)
           /\ \A d \in Devices : IsHostOf(d, host) => device_from_host(host) = d
  <1> DEFINE labels == host.labels
  <1>0. labels \in Seq(Segments) /\ host # NoValue
    BY AddressAssumption DEF AddressAssumption, Hosts
  <1>1. ASSUME device_from_host(host) # NoValue
        PROVE  device_from_host(host) \in Devices /\ IsHostOf(device_from_host(host), host)
    <2> DEFINE d == label_of(labels)
    <2>1. config.base # NoValue /\ d \in Devices /\ device_from_host(host) = d
      BY <1>1 DEF device_from_host, normalize_host
    <2>2. Len(labels) = Len(config.base) + 1 /\ Tail(labels) = config.base /\ d = Head(labels)
      <3>1. d # NoValue
        BY <2>1
      <3> QED BY <3>1 DEF label_of
    <2>3. config.base \in Seq(Segments)
      BY <2>1, BaseTyped
    <2>4. labels # <<>>
      <3>1. Len(config.base) \in Nat
        BY <2>3
      <3> QED BY <2>2, <3>1
    <2> HIDE DEF d, labels
    <2>5. labels = <<Head(labels)>> \o Tail(labels)
      BY <1>0, <2>4
    <2> QED BY <2>1, <2>2, <2>5 DEF IsHostOf, labels
  <1>2. ASSUME NEW d \in Devices, IsHostOf(d, host) PROVE device_from_host(host) = d
    <2>1. config.base # NoValue /\ labels = <<d>> \o config.base
      BY <1>2 DEF IsHostOf
    <2>2. config.base \in Seq(Segments) /\ d \in Segments
      BY <2>1, BaseTyped, AddressAssumption DEF AddressAssumption
    <2> HIDE DEF labels
    <2>3. Len(labels) = Len(config.base) + 1 /\ Tail(labels) = config.base /\ Head(labels) = d
      BY <2>1, <2>2
    <2>4. label_of(labels) = d
      BY <2>3 DEF label_of
    <2> QED BY <1>0, <2>1, <2>4 DEF device_from_host, normalize_host, labels
  <1> QED BY <1>1, <1>2

\* host_header(): the host of the URL, or nothing.
LEMMA HeaderIsHost ==
    ASSUME NEW q, q.headers["host"] \in {<<>>, <<q.host>>}
    PROVE  /\ q.headers["host"] = <<>> => host_header(q) = NoValue
           /\ q.headers["host"] # <<>> => host_header(q) = q.host
  BY DEF host_header

\* The relay's own host is not a device's.
LEMMA OwnHost == ASSUME TypeOK PROVE device_from_host(PublicHost) = NoValue
  <1>1. CASE config.base = NoValue
    BY <1>1 DEF device_from_host
  <1>2. CASE config.base # NoValue
    <2>1. ~ (Tail(PublicHost.labels) = config.base /\ Head(PublicHost.labels) \in Devices)
      BY <1>2, AddressAssumption DEF TypeOK, AddressAssumption
    <2>2. label_of(PublicHost.labels) \notin Devices
      BY <2>1 DEF label_of
    <2> QED BY <2>2 DEF device_from_host, normalize_host
  <1> QED BY <1>1, <1>2

\* A path that is not parsed as a device's does not start with a device's directory.
LEMMA NotParsed ==
    ASSUME NEW path, Path(path), path[1] = "api" \/ parse_device_path(path).shape = "none",
           NEW d \in Segments \ {Empty}, Len(path) >= 2
    PROVE  SubSeq(path, 1, 2) # path_base(d)
  <1> SUFFICES ASSUME SubSeq(path, 1, 2) = path_base(d) PROVE FALSE
    OBVIOUS
  <1> DEFINE b == <<"d", d>>
             s == SubSeq(path, 1, 2)
  <1>1. Len(path) \in Nat /\ \A i \in 1..2 : path[i] \in Segments
    BY PathSegments
  <1>2. /\ Len(s) = IF 1 <= 2 THEN 2 - 1 + 1 ELSE 0
        /\ \A j \in 1..(2 - 1 + 1) : s[j] = path[1 + j - 1]
    BY <1>1, SubSeqProperties
  <1>3. s = b /\ b[1] = "d" /\ b[2] = d
    BY DEF path_base
  <1> HIDE DEF s, b
  <1>4. path[1] = "d" /\ path[2] = d
    BY <1>2, <1>3
  <1>5. parse_device_path(path).shape \in {"needs-slash", "resource"}
    <2>1. ~ (Len(path) < 2 \/ path[1] # "d" \/ path[2] = Empty)
      BY <1>1, <1>4
    <2>2. \/ parse_device_path(path) = [shape |-> "needs-slash", device |-> path[2], rest |-> <<>>]
          \/ parse_device_path(path) = [shape |-> "resource", device |-> path[2], rest |-> SubSeq(path, 3, Len(path))]
      BY <2>1 DEF parse_device_path
    <2> QED BY <2>2
  <1> QED BY <1>4, <1>5

LEMMA BehindDirectory ==
    ASSUME NEW d \in Segments, NEW rest, Path(rest)
    PROVE  path_base(d) \o rest # path_base(d)
  <1> DEFINE b == <<"d", d>>
  <1>1. b \in Seq(Segments) /\ Len(b) = 2
    BY AddressAssumption DEF AddressAssumption
  <1>2. rest \in Seq(Segments) /\ Len(rest) \in Nat \ {0}
    BY PathSegments DEF Path
  <1> HIDE DEF b
  <1>3. Len(b \o rest) = Len(b) + Len(rest)
    <2>1. b \in Seq(Segments) /\ rest \in Seq(Segments)
      BY <1>1, <1>2
    <2> HIDE DEF Path
    <2> QED BY <2>1, ConcatProperties
  <1>4. Len(b \o rest) # Len(b)
    BY <1>1, <1>2, <1>3
  <1>5. path_base(d) = b
    BY DEF path_base, b
  <1> QED BY <1>4, <1>5

\* On a host that is no device's, rest behind the device's directory is named by the path that says so.
LEMMA PathNames ==
    ASSUME NEW url, NEW d, d # Empty, ~ IsDeviceHost(url.host), NEW rest, Path(rest),
           \/ url.path = path_base(d) \o rest /\ d \in Segments
           \/ url.path = path_base(d) /\ rest = <<Empty>>
    PROVE  Names(url, d, rest)
  <1>1. url.path = path_base(d) \o rest /\ d \in Segments => url.path # path_base(d)
    BY BehindDirectory
  <1> QED BY <1>1 DEF Names

\* Where a request is routed to, on the first hop as on any other.
LEMMA FirstHop ==
    ASSUME TypeOK, NEW q, IsRequest(q), Path(q.path), NEW t, t = route_device_host(q)
    PROVE  /\ t.entry \in {"path", "subdomain"} => t.device \in Segments /\ t.device # Empty
           /\ t.pc = "lookup" => Path(t.rest)
           /\ t.pc # "lookup" => t.rest = <<>>
           /\ t.entry = "path" => device_from_host(host_header(q)) = NoValue
           /\ t.pc = "slash" => t.entry = "path"
           /\ t.entry \in {"path", "subdomain", NoValue} /\ t.pc \in {"lookup", "slash", "relay"}
           /\ HostIsTold(q) =>
                /\ t.pc = "relay" => ~ NamesDevice(q)
                /\ t.pc = "lookup" => Names(q, t.device, t.rest)
                /\ t.pc = "slash" => ~ IsDeviceHost(q.host) /\ q.path = path_base(t.device)
  <1> DEFINE d == device_from_host(host_header(q))
  <1>0. q.host \in Hosts /\ q.headers["host"] \in {<<>>, <<q.host>>}
    BY DEF IsRequest
  <1>1. CASE d # NoValue
    <2>1. host_header(q) # NoValue
      BY <1>1 DEF device_from_host
    <2>2. host_header(q) = q.host
      BY <1>0, <2>1, HeaderIsHost
    <2>3. d \in Devices /\ IsHostOf(d, q.host)
      BY <1>0, <1>1, <2>2, HostsAreRead
    <2>4. t = Target("lookup", "subdomain", d, trim_slashes(q.path))
      BY <1>1 DEF route_device_host
    <2>5. Path(trim_slashes(q.path)) /\ LeftOf(q.path, trim_slashes(q.path))
      BY TrimmedPath
    <2> HIDE DEF d
    <2>6. t.pc = "lookup" /\ t.entry = "subdomain" /\ t.rest = trim_slashes(q.path) /\ t.device = d
      BY <2>4 DEF Target
    <2>7. Names(q, d, trim_slashes(q.path))
      BY <2>3, <2>5 DEF Names, LeftOf
    <2> QED BY <2>3, <2>5, <2>6, <2>7, AddressAssumption DEF AddressAssumption
  <1>2. CASE d = NoValue
    <2> DEFINE p == parse_device_path(q.path)
    <2>1. p.shape # "none" =>
             /\ p.device \in Segments /\ p.device # Empty /\ p.shape \in {"needs-slash", "resource"}
             /\ p.shape = "resource" => Path(p.rest) /\ q.path = path_base(p.device) \o p.rest
             /\ p.shape = "needs-slash" => q.path = path_base(p.device)
      BY ParsedPath
    <2>2. t = dispatch(q.path)
      BY <1>2 DEF route_device_host
    <2>3. HostIsTold(q) => ~ IsDeviceHost(q.host)
      <3> SUFFICES ASSUME HostIsTold(q), NEW e \in Devices, IsHostOf(e, q.host) PROVE FALSE
        BY DEF IsDeviceHost
      <3>1. q.headers["host"] # <<>>
        BY DEF HostIsTold, IsDeviceHost
      <3>2. device_from_host(q.host) = e
        BY <1>0, HostsAreRead
      <3>3. d = e
        BY <1>0, <3>1, <3>2, HeaderIsHost
      <3> QED BY <1>2, <3>3
    <2>4. q.path[1] = "api" \/ p.shape = "none" => (HostIsTold(q) => ~ NamesDevice(q))
      <3> SUFFICES ASSUME q.path[1] = "api" \/ p.shape = "none", HostIsTold(q), NamesDevice(q) PROVE FALSE
        OBVIOUS
      <3>1. PICK e \in Segments \ {Empty} : Len(q.path) >= 2 /\ SubSeq(q.path, 1, 2) = path_base(e)
        BY <2>3 DEF NamesDevice
      <3> QED BY <3>1, NotParsed
    <2> HIDE DEF p, d
    <2>5. \/ p.shape = "resource" /\ t = Target("lookup", "path", p.device, p.rest)
          \/ p.shape = "needs-slash" /\ t = Target("slash", "path", p.device, <<>>)
          \/ (q.path[1] = "api" \/ p.shape = "none") /\ t = Target("relay", NoValue, NoValue, <<>>)
      BY <2>1, <2>2 DEF dispatch, p
    <2>6. CASE p.shape = "resource" /\ t = Target("lookup", "path", p.device, p.rest)
      <3>1. t.pc = "lookup" /\ t.entry = "path" /\ t.device = p.device /\ t.rest = p.rest
        BY <2>6 DEF Target
      <3>2. HostIsTold(q) => Names(q, p.device, p.rest)
        BY <2>1, <2>3, <2>6, PathNames
      <3> QED BY <1>2, <2>1, <2>6, <3>1, <3>2 DEF d
    <2>7. CASE p.shape = "needs-slash" /\ t = Target("slash", "path", p.device, <<>>)
      <3>1. t.pc = "slash" /\ t.entry = "path" /\ t.device = p.device /\ t.rest = <<>>
        BY <2>7 DEF Target
      <3> QED BY <1>2, <2>1, <2>3, <2>7, <3>1 DEF d
    <2>8. CASE (q.path[1] = "api" \/ p.shape = "none") /\ t = Target("relay", NoValue, NoValue, <<>>)
      <3>1. t.pc = "relay" /\ t.entry = NoValue /\ t.rest = <<>>
        BY <2>8 DEF Target
      <3> QED BY <2>4, <2>8, <3>1, Distinct
    <2> QED BY <2>5, <2>6, <2>7, <2>8
  <1> QED BY <1>1, <1>2

\* The path form leads to the device, with the path that was put behind it.
LEMMA PathForm ==
    ASSUME NEW d \in Segments, d # Empty, NEW rest, Path(rest),
           NEW q, q.path = path_base(d) \o rest, device_from_host(host_header(q)) = NoValue
    PROVE  route_device_host(q) = Target("lookup", "path", d, rest)
  <1> DEFINE p == parse_device_path(q.path)
  <1>1. q.path[1] = "d" /\ p = [shape |-> "resource", device |-> d, rest |-> rest]
    BY PathFormParsed
  <1> HIDE DEF p
  <1>2. p.shape = "resource" /\ p.device = d /\ p.rest = rest
    BY <1>1
  <1>3. dispatch(q.path) = Target("lookup", "path", d, rest)
    BY <1>1, <1>2 DEF dispatch, p
  <1> QED BY <1>3 DEF route_device_host

\* The address that is advertised names the device and leads to it.
LEMMA Advertised == ASSUME TypeOK PROVE AdvertisedIsRouted
  <1> DEFINE Q(url) == [path |-> url.path, headers |-> [NoHeaders EXCEPT !["host"] = <<url.host>>]]
  <1> SUFFICES ASSUME NEW d \in Devices
               PROVE  Names(device_url(d), d, <<Empty>>) /\ route_device_host(Q(device_url(d))).device = d
    BY DEF AdvertisedIsRouted
  <1>1. d \in Segments /\ d # Empty /\ d # NoValue /\ Empty \in Segments
    BY AddressAssumption DEF AddressAssumption
  <1>2. Path(<<Empty>>)
    BY <1>1 DEF Path
  <1>3. PICK url : url = device_url(d)
    OBVIOUS
  <1>4. PICK q : q = Q(url)
    OBVIOUS
  <1>5. q.path = url.path /\ host_header(q) = url.host
    <2>1. PICK path, host, h : path = url.path /\ host = url.host /\ h = [NoHeaders EXCEPT !["host"] = <<host>>]
      OBVIOUS
    <2>2. h["host"] = <<host>>
      BY <2>1 DEF NoHeaders, HeaderNames
    <2>3. q = [path |-> path, headers |-> h]
      BY <1>4, <2>1
    <2>4. q.path = path /\ q.headers["host"] = <<host>>
      BY <2>2, <2>3
    <2> QED BY <2>1, <2>4 DEF host_header
  <1>6. CASE config.base = NoValue
    <2>1. url.host = PublicHost /\ url.path = path_base(d) \o <<Empty>>
      BY <1>3, <1>6 DEF device_url
    <2>2. PublicHost # NoValue
      BY AddressAssumption DEF AddressAssumption
    <2>3. q.path = path_base(d) \o <<Empty>> /\ host_header(q) = PublicHost
      BY <1>5, <2>1
    <2>4. device_from_host(host_header(q)) = NoValue /\ ~ IsDeviceHost(url.host)
      BY <1>6 DEF device_from_host, IsDeviceHost, IsHostOf
    <2>5. route_device_host(q) = Target("lookup", "path", d, <<Empty>>)
      BY <1>1, <1>2, <2>3, <2>4, PathForm
    <2>6. Names(url, d, <<Empty>>)
      BY <1>1, <1>2, <2>1, <2>4, PathNames
    <2> QED BY <1>3, <1>4, <2>5, <2>6 DEF Target
  <1>7. CASE config.base # NoValue
    <2> DEFINE labels == <<d>> \o config.base
               host == [labels |-> labels, port |-> PublicHost.port]
    <2>1. labels \in Seq(Segments)
      BY <1>1, <1>7, BaseTyped
    <2>2. url.host = host /\ url.path = <<Empty>>
      BY <1>3, <1>7 DEF device_url
    <2>3. PublicHost.port \in Ports
      BY AddressAssumption DEF AddressAssumption, Hosts
    <2> HIDE DEF labels
    <2>4. host \in Hosts /\ host.labels = labels
      BY <2>1, <2>3 DEF Hosts
    <2> HIDE DEF host
    <2>5. IsHostOf(d, host) /\ host # NoValue
      BY <1>7, <2>4, AddressAssumption DEF IsHostOf, labels, AddressAssumption
    <2>6. device_from_host(host) = d
      BY <2>4, <2>5, HostsAreRead
    <2>7. q.path = <<Empty>> /\ host_header(q) = host
      BY <1>5, <2>2
    <2>8. route_device_host(q) = Target("lookup", "subdomain", d, trim_slashes(q.path))
      BY <1>1, <2>6, <2>7 DEF route_device_host
    <2>9. Names(url, d, <<Empty>>)
      <3> DEFINE e == <<Empty>>
      <3>1. Len(e) = 1 /\ SubSeq(e, 1, 1) = e
        <4>1. e \in Seq(Segments)
          BY <1>1
        <4>2. Len(e) = 1 /\ SubSeq(e, 1, Len(e)) = e
          BY <4>1, SubSeqFull
        <4> QED BY <4>2
      <3>2. 1 \in 1..Len(e) /\ (\A j \in 1..(1 - 1) : e[j] = Empty) /\ e = SubSeq(e, 1, Len(e))
        BY <3>1
      <3>3. \E i \in 1..Len(e) : (\A j \in 1..(i - 1) : e[j] = Empty) /\ e = SubSeq(e, i, Len(e))
        BY <3>2
      <3> QED BY <2>2, <2>5, <3>3 DEF Names
    <2> QED BY <1>3, <1>4, <2>8, <2>9 DEF Target
  <1> QED BY <1>6, <1>7

\* The options do not change, so neither does what an address names or leads to.
LEMMA OptionsStand ==
    ASSUME config' = config
    PROVE  /\ Told(req.asked)' <=> Told(req'.asked)
           /\ NamesDevice(req.asked)' <=> NamesDevice(req'.asked)
           /\ Names(req.asked, req.device, req.rest)' <=> Names(req'.asked, req'.device, req'.rest)
           /\ IsDeviceHost(req.asked.host)' <=> IsDeviceHost(req'.asked.host)
           /\ device_from_host(host_header(req.from))' = device_from_host(host_header(req'.from))
  <1>1. /\ IsDeviceHost(req.asked.host)' <=> IsDeviceHost(req'.asked.host)
        /\ IsHostOf(req.device, req.asked.host)' <=> IsHostOf(req'.device, req'.asked.host)
    BY DEF IsDeviceHost, IsHostOf
  <1>2. Told(req.asked)' <=> Told(req'.asked)
    BY <1>1 DEF Told, HostIsTold
  <1>3. NamesDevice(req.asked)' <=> NamesDevice(req'.asked)
    BY <1>1 DEF NamesDevice, path_base
  <1>4. Names(req.asked, req.device, req.rest)' <=> Names(req'.asked, req'.device, req'.rest)
    BY <1>1 DEF Names, path_base
  <1>5. device_from_host(host_header(req.from))' = device_from_host(host_header(req'.from))
    BY DEF device_from_host, label_of, host_header
  <1> QED BY <1>1, <1>2, <1>3, <1>4, <1>5

\* The fields of a request that arrives.
LEMMA ArrivesAt ==
    ASSUME NEW q, NEW a, NEW n, Arrive(q, a, n), NEW t, t = route_device_host(q)
    PROVE  /\ req'.pc = t.pc /\ req'.entry = t.entry /\ req'.device = t.device /\ req'.rest = t.rest
           /\ req'.from = q /\ req'.asked = a /\ req'.redirects = n /\ req'.answer = NoValue
  <1>1. req' = [NoRequest EXCEPT !.pc = t.pc, !.entry = t.entry, !.device = t.device, !.rest = t.rest,
                                 !.from = q, !.asked = a, !.redirects = n]
    BY DEF Arrive
  <1> QED BY <1>1 DEF NoRequest

LEMMA NoRedirectYet == NoValue \notin {"to-path-form", "to-directory", "to-login"}
  BY DEF Answers

\* The browser's first address.
LEMMA ReceiveKeepsRoute ==
    ASSUME TypeOK, NEW q \in Requests, Receive(q)
    PROVE  RouteStrength'
  <1>1. Arrive(q, q, 0) /\ config' = config
    BY DEF Receive
  <1>2. PICK t : t = route_device_host(q)
    OBVIOUS
  <1>3. /\ req'.pc = t.pc /\ req'.entry = t.entry /\ req'.device = t.device /\ req'.rest = t.rest
        /\ req'.from = q /\ req'.asked = q /\ req'.redirects = 0 /\ req'.answer = NoValue
    BY <1>1, <1>2, ArrivesAt
  <1>4. Path(q.path) /\ IsRequest(q)
    BY AddressAssumption DEF AddressAssumption, Path, IsRequest
  <1>5. /\ t.entry \in {"path", "subdomain"} => t.device \in Segments /\ t.device # Empty
        /\ t.pc = "lookup" => Path(t.rest)
        /\ t.pc # "lookup" => t.rest = <<>>
        /\ t.entry = "path" => device_from_host(host_header(q)) = NoValue
        /\ t.pc = "slash" => t.entry = "path"
        /\ t.entry \in {"path", "subdomain", NoValue} /\ t.pc \in {"lookup", "slash", "relay"}
        /\ HostIsTold(q) =>
             /\ t.pc = "relay" => ~ NamesDevice(q)
             /\ t.pc = "lookup" => Names(q, t.device, t.rest)
             /\ t.pc = "slash" => ~ IsDeviceHost(q.host) /\ q.path = path_base(t.device)
    BY <1>2, <1>4, FirstHop
  <1>6. /\ Told(req.asked)' <=> Told(q)
        /\ NamesDevice(req.asked)' <=> NamesDevice(q)
        /\ Names(req.asked, req.device, req.rest)' <=> Names(q, t.device, t.rest)
        /\ IsDeviceHost(req.asked.host)' <=> IsDeviceHost(q.host)
        /\ device_from_host(host_header(req.from))' = device_from_host(host_header(q))
    BY <1>1, <1>3, OptionsStand
  <1>7. MeantInv'
    <2>1. /\ req'.entry \in {"path", "subdomain"} => req'.device \in Segments /\ req'.device # Empty /\ IsRequest(req'.from)
          /\ req'.pc \in {"lookup", "guard"} \/ req'.answer \in {"to-path-form", "to-login"} => Path(req'.rest)
      BY <1>3, <1>4, <1>5, NoRedirectYet
    <2>2. Told(q) =>
            /\ t.pc = "relay" => ~ NamesDevice(q)
            /\ t.rest # <<>> => Names(q, t.device, t.rest)
            /\ t.pc = "slash" => ~ IsDeviceHost(q.host) /\ q.path = path_base(t.device)
      BY <1>5 DEF Told
    <2> QED BY <1>3, <1>6, <2>1, <2>2, NoRedirectYet DEF MeantInv, IsRequest, Path, path_base
  <1>8. RedirectInv'
    BY <1>3, <1>5, <1>6, NoRedirectYet DEF RedirectInv
  <1> QED BY <1>7, <1>8 DEF RouteStrength

\* A redirect to the path form of what was asked for, on a host that is no device's.
LEMMA RedirectKeepsRoute ==
    ASSUME NEW q, NEW a, NEW n \in {0, 1}, NEW rest, Arrive(q, a, n), config' = config,
           IsRequest(q), Path(rest), NEW d \in Segments, d # Empty,
           Told(a) => Names(a, d, rest),
           q.path = path_base(d) \o rest, device_from_host(host_header(q)) = NoValue
    PROVE  RouteStrength'
  <1>1. PICK t : t = route_device_host(q)
    OBVIOUS
  <1>2. t = Target("lookup", "path", d, rest)
    BY <1>1, PathForm
  <1>3. /\ req'.pc = "lookup" /\ req'.entry = "path" /\ req'.device = d /\ req'.rest = rest
        /\ req'.from = q /\ req'.asked = a /\ req'.redirects = n /\ req'.answer = NoValue
    <2>1. t.pc = "lookup" /\ t.entry = "path" /\ t.device = d /\ t.rest = rest
      BY <1>2 DEF Target
    <2>2. /\ req'.pc = t.pc /\ req'.entry = t.entry /\ req'.device = t.device /\ req'.rest = t.rest
          /\ req'.from = q /\ req'.asked = a /\ req'.redirects = n /\ req'.answer = NoValue
      BY <1>1, ArrivesAt
    <2> QED BY <2>1, <2>2
  <1>4. /\ Told(req.asked)' <=> Told(a)
        /\ Names(req.asked, req.device, req.rest)' <=> Names(a, d, rest)
        /\ device_from_host(host_header(req.from))' = device_from_host(host_header(q))
    BY <1>3, OptionsStand
  <1>5. MeantInv'
    BY <1>3, <1>4, NoRedirectYet DEF MeantInv, IsRequest, Path
  <1>6. RedirectInv'
    BY <1>3, <1>4, NoRedirectYet DEF RedirectInv
  <1> QED BY <1>5, <1>6 DEF RouteStrength

\* What a redirected request is.
LEMMA RedirectedIs ==
    ASSUME NEW r, IsRequest(r), NEW url, url.host \in Hosts, NEW q, q = Redirected(r, url)
    PROVE  /\ IsRequest(q) /\ q.path = url.path
           /\ r.headers["host"] = <<>> => host_header(q) = NoValue
           /\ r.headers["host"] # <<>> => host_header(q) = url.host
  <1> DEFINE field == IF r.headers["host"] = <<>> THEN <<>> ELSE <<url.host>>
             h == [r.headers EXCEPT !["host"] = field]
  <1>1. {"host", "path", "headers"} \subseteq DOMAIN r /\ DOMAIN r.headers = HeaderNames
    BY DEF IsRequest
  <1>2. q = [r EXCEPT !.host = url.host, !.path = url.path, !.headers = h]
    BY DEF Redirected
  <1>3. DOMAIN h = HeaderNames /\ h["host"] = field
    <2> HIDE DEF field
    <2> QED BY <1>1 DEF HeaderNames
  <1> HIDE DEF h
  <1>4. q.host = url.host /\ q.path = url.path /\ q.headers = h /\ DOMAIN q = DOMAIN r
    BY <1>1, <1>2
  <1>5. field \in {<<>>, <<url.host>>}
    OBVIOUS
  <1>6. IsRequest(q)
    <2> HIDE DEF field
    <2> QED BY <1>1, <1>3, <1>4, <1>5 DEF IsRequest
  <1>7. /\ r.headers["host"] = <<>> => q.headers["host"] = <<>>
        /\ r.headers["host"] # <<>> => q.headers["host"] = <<url.host>>
    BY <1>3, <1>4
  <1> QED BY <1>4, <1>6, <1>7 DEF host_header

\* The browser follows a redirect: off a device's own host, to the directory, or back from the login page.
LEMMA FollowKeepsRoute == ASSUME TypeOK, HandlerInv, RouteStrength, Follow PROVE RouteStrength'
  <1> DEFINE d == req.device
  <1>1. req.pc = "answered" /\ config' = config
    BY DEF Follow
  <1>2. req.answer \in {"to-path-form", "to-directory", "to-login"} /\ req.entry \in {"path", "subdomain"}
    BY DEF Follow, RouteStrength, RedirectInv
  <1>3. d \in Segments /\ d # Empty /\ IsRequest(req.from) /\ req.from.host \in Hosts
    BY <1>1, <1>2 DEF RouteStrength, MeantInv, IsRequest
  <1>4. ASSUME NEW rest, Path(rest), NEW n \in {0, 1}, Told(req.asked) => Names(req.asked, d, rest),
               NEW url, url.path = path_base(d) \o rest,
               Arrive(Redirected(req.from, url), req.asked, n),
               \/ url.host = PublicHost
               \/ url.host = req.from.host /\ device_from_host(host_header(req.from)) = NoValue
        PROVE  RouteStrength'
    <2>1. PICK q : q = Redirected(req.from, url)
      OBVIOUS
    <2>2. PublicHost \in Hosts
      BY AddressAssumption DEF AddressAssumption
    <2>3. /\ IsRequest(q) /\ q.path = path_base(d) \o rest
          /\ req.from.headers["host"] = <<>> => host_header(q) = NoValue
          /\ req.from.headers["host"] # <<>> => host_header(q) = url.host
      BY <1>3, <1>4, <2>1, <2>2, RedirectedIs
    <2>4. device_from_host(host_header(q)) = NoValue
      <3>1. CASE req.from.headers["host"] = <<>>
        BY <2>3, <3>1 DEF device_from_host
      <3>2. CASE req.from.headers["host"] # <<>> /\ url.host = PublicHost
        BY <2>3, <3>2, OwnHost
      <3>3. CASE req.from.headers["host"] # <<>> /\ url.host = req.from.host /\ device_from_host(host_header(req.from)) = NoValue
        <4>1. host_header(req.from) = req.from.host
          BY <1>3, <3>3, HeaderIsHost DEF IsRequest
        <4> QED BY <2>3, <3>3, <4>1
      <3> QED BY <1>4, <3>1, <3>2, <3>3
    <2>5. Arrive(q, req.asked, n)
      BY <1>4, <2>1
    <2>6. PICK a : a = req.asked
      OBVIOUS
    <2>7. PICK e : e = req.device
      OBVIOUS
    <2>8. /\ e \in Segments /\ e # Empty /\ Arrive(q, a, n) /\ (Told(a) => Names(a, e, rest))
          /\ q.path = path_base(e) \o rest
      BY <1>3, <1>4, <2>3, <2>5, <2>6, <2>7
    <2> QED BY <1>1, <1>4, <2>3, <2>4, <2>8, RedirectKeepsRoute
  <1>5. CASE req.answer = "to-path-form"
    <2>1. PICK url : url = path_form_url(d, req.rest)
      OBVIOUS
    <2>2. url.host = PublicHost /\ url.path = path_base(d) \o req.rest
      BY <2>1 DEF path_form_url
    <2>3. Arrive(Redirected(req.from, url), req.asked, req.redirects + 1)
      BY <1>5, <2>1 DEF Follow
    <2>4. req.redirects + 1 = 1
      BY <1>5 DEF RouteStrength, RedirectInv
    <2>5. Path(req.rest) /\ (Told(req.asked) => Names(req.asked, d, req.rest))
      BY <1>5 DEF RouteStrength, MeantInv, Path
    <2>6. PICK rest : rest = req.rest
      OBVIOUS
    <2> QED BY <1>4, <2>2, <2>3, <2>4, <2>5, <2>6
  <1>6. CASE req.answer = "to-directory"
    <2>1. PICK url : url = [host |-> req.from.host, path |-> path_base(d) \o <<Empty>>]
      OBVIOUS
    <2>2. url.host = req.from.host /\ url.path = path_base(d) \o <<Empty>>
      BY <2>1
    <2>3. Arrive(Redirected(req.from, url), req.asked, req.redirects + 1)
      BY <1>6, <2>1 DEF Follow
    <2>4. req.redirects + 1 = 1 /\ device_from_host(host_header(req.from)) = NoValue
      BY <1>6 DEF RouteStrength, RedirectInv
    <2>5. Path(<<Empty>>)
      BY AddressAssumption DEF Path, AddressAssumption
    <2>6. Told(req.asked) => Names(req.asked, d, <<Empty>>)
      <3> SUFFICES ASSUME Told(req.asked) PROVE Names(req.asked, d, <<Empty>>)
        OBVIOUS
      <3>1. ~ IsDeviceHost(req.asked.host) /\ req.asked.path = path_base(d)
        BY <1>6 DEF RouteStrength, MeantInv
      <3> QED BY <1>3, <2>5, <3>1, PathNames
    <2> QED BY <1>4, <2>2, <2>3, <2>4, <2>5, <2>6
  <1>7. CASE req.answer = "to-login"
    <2>1. req.entry = "path" /\ req.redirects \in {0, 1} /\ device_from_host(host_header(req.from)) = NoValue
      BY <1>7 DEF RouteStrength, RedirectInv
    <2>2. PICK url : url = [host |-> req.from.host, path |-> path_base(d) \o req.rest]
      OBVIOUS
    <2>3. url.host = req.from.host /\ url.path = path_base(d) \o req.rest
      BY <2>2
    <2>4. Arrive(Redirected(req.from, url), req.asked, req.redirects)
      BY <1>7, <2>1, <2>2 DEF Follow, base_path
    <2>5. Path(req.rest) /\ (Told(req.asked) => Names(req.asked, d, req.rest))
      BY <1>7 DEF RouteStrength, MeantInv, Path
    <2>6. PICK rest : rest = req.rest
      OBVIOUS
    <2>7. PICK n : n = req.redirects
      OBVIOUS
    <2> QED BY <1>4, <2>1, <2>3, <2>4, <2>5, <2>6, <2>7
  <1> QED BY <1>2, <1>5, <1>6, <1>7

\* guard() sends a browser away only to the path form, from a device's own host, or to the login page.
LEMMA GuardAnswers ==
    ASSUME NEW user
    PROVE  /\ guard(user) \in {"pass", "to-path-form", "to-login", "forbidden"}
           /\ guard(user) = "to-path-form" => req.entry = "subdomain"
           /\ guard(user) = "to-login" => req.entry # "subdomain"
  <1>1. CASE req.row = NoValue \/ req.row.access = "public"
    <2>1. guard(user) = "pass"
      BY <1>1 DEF guard
    <2> QED BY <2>1
  <1>2. CASE ~ (req.row = NoValue \/ req.row.access = "public") /\ req.entry = "subdomain"
    <2>1. guard(user) = "to-path-form"
      BY <1>2 DEF guard
    <2> QED BY <1>2, <2>1
  <1>3. CASE ~ (req.row = NoValue \/ req.row.access = "public") /\ req.entry # "subdomain"
    <2>1. guard(user) \in {"pass", "to-login", "forbidden"}
      BY <1>3 DEF guard
    <2> QED BY <1>3, <2>1
  <1> QED BY <1>1, <1>2, <1>3

\* What a step of the handler leaves of where the browser may be sent: a redirect is answered only
\* out of "slash" and out of guard().
LEMMA HandlerRedirects ==
    ASSUME TypeOK, HandlerInv, HandlerStep
    PROVE  /\ req'.pc # "idle" /\ req'.pc # "lookup" /\ req'.pc # "slash"
           /\ req.pc # "idle" /\ req'.pc # "relay"
           /\ req'.pc = "guard" => req.pc = "lookup" \/ req.pc = "guard"
           /\ req'.answer = "to-directory" => req.pc = "slash"
           /\ req'.answer \in {"to-path-form", "to-login"} => req.pc = "guard"
           /\ req'.answer = "to-path-form" => req.entry = "subdomain"
           /\ req'.answer = "to-login" => req.entry = "path"
  <1>1. req.pc # "answered" /\ req.pc # "idle" /\ req.answer = NoValue
    BY DEF HandlerInv, HandlerStep, Proceeds
  <1>2. CASE req.pc = "guard"
    <2>1. PICK user : IF guard(user) = "pass" THEN Proceeds("guard", "online") ELSE Replies(guard(user))
      BY <1>2 DEF HandlerStep, Proceeds
    <2>2. req.entry \in {"path", "subdomain"}
      BY <1>2 DEF HandlerInv
    <2>3. CASE guard(user) = "pass"
      BY <1>1, <1>2, <2>1, <2>3, NoRedirectYet DEF Proceeds
    <2>4. CASE guard(user) # "pass"
      BY <1>1, <1>2, <2>1, <2>2, <2>4, GuardAnswers DEF Replies
    <2> QED BY <2>3, <2>4
  <1>3. CASE req.pc # "guard"
    BY <1>1, <1>3, NoRedirectYet DEF HandlerStep, Proceeds, Replies
  <1> QED BY <1>2, <1>3

LEMMA HandlesKeepsRoute == ASSUME TypeOK, HandlerInv, RouteStrength, Handles PROVE RouteStrength'
  <1>1. HandlerStep /\ Same /\ Still
    BY HandlerSteps
  <1>2. config' = config
    BY <1>1 DEF Still
  <1>3. /\ req'.pc # "lookup" /\ req'.pc # "slash" /\ req.pc # "idle" /\ req'.pc # "relay"
        /\ req'.pc = "guard" => req.pc \in {"lookup", "guard"}
        /\ req'.answer = "to-directory" => req.pc = "slash"
        /\ req'.answer \in {"to-path-form", "to-login"} => req.pc = "guard"
        /\ req'.answer = "to-path-form" => req.entry = "subdomain"
        /\ req'.answer = "to-login" => req.entry = "path"
    BY <1>1, HandlerRedirects
  <1>4. /\ Told(req.asked)' <=> Told(req.asked)
        /\ Names(req.asked, req.device, req.rest)' <=> Names(req.asked, req.device, req.rest)
        /\ IsDeviceHost(req.asked.host)' <=> IsDeviceHost(req.asked.host)
        /\ device_from_host(host_header(req.from))' = device_from_host(host_header(req.from))
    BY <1>1, <1>2, OptionsStand DEF Same
  <1>5. MeantInv'
    <2>1. IsRequest(req.from)' <=> IsRequest(req.from)
      BY <1>1 DEF Same, IsRequest
    <2>2. Path(req.rest)' <=> Path(req.rest)
      BY <1>1 DEF Same, Path
    <2> QED BY <1>1, <1>3, <1>4, <2>1, <2>2 DEF RouteStrength, MeantInv, Same, path_base
  <1>6. RedirectInv'
    BY <1>1, <1>3, <1>4 DEF RouteStrength, RedirectInv, Same
  <1> QED BY <1>5, <1>6 DEF RouteStrength

LEMMA RouteInit == Init => RouteStrength
  <1> SUFFICES ASSUME Init PROVE RouteStrength
    OBVIOUS
  <1>1. req.pc = "idle" /\ req.entry = NoValue /\ req.answer = NoValue /\ req.asked = NoValue /\ req.redirects = 0
    BY DEF Init, NoRequest
  <1> QED BY <1>1, NoRedirectYet, Distinct DEF RouteStrength, MeantInv, RedirectInv, Told

LEMMA RouteStep == GuardInv /\ RouteStrength /\ [Next]_vars => RouteStrength'
  <1> SUFFICES ASSUME GuardInv, RouteStrength, [Next]_vars PROVE RouteStrength'
    OBVIOUS
  <1>0. TypeOK /\ HandlerInv
    BY DEF GuardInv
  <1>1. ASSUME NEW q \in Requests, Receive(q) PROVE RouteStrength'
    BY <1>0, <1>1, ReceiveKeepsRoute
  <1>2. ASSUME req'.redirects = 0, req'.answer = NoValue, req'.asked = NoValue,
               req'.pc \in {"connect", "idle"}, req'.entry \in {"upstream", NoValue}
        PROVE  RouteStrength'
    BY <1>2, NoRedirectYet, Distinct DEF RouteStrength, MeantInv, RedirectInv, Told
  <1>3. ASSUME NEW d \in Devices, ReceiveStream(d) PROVE RouteStrength'
    <2>1. req' = [NoRequest EXCEPT !.pc = "connect", !.entry = "upstream", !.device = d]
      BY <1>3 DEF ReceiveStream
    <2>2. /\ req'.redirects = 0 /\ req'.answer = NoValue /\ req'.asked = NoValue
          /\ req'.pc = "connect" /\ req'.entry = "upstream"
      BY <2>1 DEF NoRequest
    <2> QED BY <1>2, <2>2
  <1>4. CASE Done
    <2>1. req' = NoRequest
      BY <1>4 DEF Done
    <2>2. req'.redirects = 0 /\ req'.answer = NoValue /\ req'.asked = NoValue /\ req'.pc = "idle" /\ req'.entry = NoValue
      BY <2>1 DEF NoRequest
    <2> QED BY <1>2, <2>2
  <1>5. CASE Follow
    BY <1>0, <1>5, FollowKeepsRoute
  <1>6. CASE Handles
    BY <1>0, <1>6, HandlesKeepsRoute
  <1>7. ASSUME req' = req, config' = config PROVE RouteStrength'
    <2>1. /\ Told(req.asked)' <=> Told(req.asked)
          /\ NamesDevice(req.asked)' <=> NamesDevice(req.asked)
          /\ Names(req.asked, req.device, req.rest)' <=> Names(req.asked, req.device, req.rest)
          /\ IsDeviceHost(req.asked.host)' <=> IsDeviceHost(req.asked.host)
          /\ device_from_host(host_header(req.from))' = device_from_host(host_header(req.from))
      BY <1>7, OptionsStand
    <2>2. (IsRequest(req.from)' <=> IsRequest(req.from)) /\ (Path(req.rest)' <=> Path(req.rest))
      BY <1>7 DEF IsRequest, Path
    <2> QED BY <1>7, <2>1, <2>2 DEF RouteStrength, MeantInv, RedirectInv, path_base
  <1>8. CASE Meanwhile
    <2>1. PolicyChanges \/ TunnelChanges
      BY <1>0, <1>8, PolicySteps, TunnelSteps DEF Meanwhile
    <2> QED BY <1>7, <2>1 DEF PolicyChanges, TunnelChanges
  <1>9. CASE UNCHANGED vars
    BY <1>7, <1>9 DEF vars
  <1>10. Forwarding => Handles \/ Follow \/ Done
    BY DEF Forwarding, Handles
  <1> QED BY <1>1, <1>3, <1>4, <1>5, <1>6, <1>8, <1>9, <1>10 DEF Next

\* route_device_host(), dispatch() and the redirects of access::guard() and redirect_to_directory(): a
\* request whose Host header the relay can read, or that is on no device's own host, is routed to exactly
\* the device and the resource its URL names, on the first hop and after every redirect; there is never
\* more than one of those whatever the policy does meanwhile; and the address that the relay advertises
\* leads to its device when it is told the host.  For any base domain, any hosts and any paths.
THEOREM RequestsKeepTarget == Spec => []RoutingInv
  <1>1. Init => GuardInv /\ RouteStrength
    BY InitGuardInv, RouteInit
  <1>2. GuardInv /\ RouteStrength /\ [Next]_vars => (GuardInv /\ RouteStrength)'
    BY GuardStep, RouteStep
  <1>3. GuardInv /\ RouteStrength => RoutingInv
    <2> SUFFICES ASSUME GuardInv, RouteStrength PROVE RoutingInv
      OBVIOUS
    <2>1. TypeOK
      BY DEF GuardInv
    <2>2. RedirectsEnd
      BY DEF RouteStrength, RedirectInv, RedirectsEnd
    <2>3. RoutedAsMeant
      BY DEF RouteStrength, MeantInv, Told, RoutedAsMeant
    <2>4. AdvertisedIsRouted
      BY <2>1, Advertised
    <2> QED BY <2>1, <2>2, <2>3, <2>4 DEF RoutingInv
  <1> QED BY <1>1, <1>2, <1>3, PTL DEF Spec

-----------------------------------------------------------------------------
(* The console's session.                                                  *)

\* What is left of a browser's cookies when the first field is text: no session in any field.
LEMMA SessionTaken ==
    ASSUME NEW h, NEW ip, NEW base, NEW websocket \in BOOLEAN, h["cookie"] # <<>> => Head(h["cookie"]).text
    PROVE  LET cookies == prepare_request_headers(h, ip, base, websocket)["cookie"] IN
           \A i \in 1..Len(cookies) : "session" \notin cookies[i].names
  <1> DEFINE stripped == strip_hop_by_hop(h, websocket)
             taken == take_console_session(stripped)
             left == without_session(Head(stripped["cookie"]).names)
             Clean(cookies) == \A i \in 1..Len(cookies) : "session" \notin cookies[i].names
  <1>1. DOMAIN stripped = HeaderNames /\ stripped["cookie"] \in {<<>>, h["cookie"]}
    BY DEF strip_hop_by_hop, HeaderNames
  <1> HIDE DEF stripped
  <1>2. "session" \notin left
    BY DEF without_session
  <1>3. Clean(<<>>) /\ Clean(<<CookieField(left, TRUE)>>)
    <2> HIDE DEF left
    <2> QED BY <1>2 DEF CookieField
  <1>4. DOMAIN taken = HeaderNames /\ Clean(taken["cookie"])
    <2>1. CASE stripped["cookie"] = <<>>
      <3>1. taken = stripped
        BY <2>1 DEF take_console_session
      <3> QED BY <1>1, <1>3, <2>1, <3>1
    <2>2. CASE stripped["cookie"] # <<>>
      <3>1. Head(stripped["cookie"]).text
        BY <1>1, <2>2
      <3>2. taken = [stripped EXCEPT !["cookie"] = IF left = {} THEN <<>> ELSE <<CookieField(left, TRUE)>>]
        BY <2>2, <3>1 DEF take_console_session
      <3> HIDE DEF taken, left
      <3>3. DOMAIN taken = HeaderNames /\ taken["cookie"] \in {<<>>, <<CookieField(left, TRUE)>>}
        BY <1>1, <3>2 DEF HeaderNames
      <3> HIDE DEF Clean
      <3> QED BY <1>3, <3>3
    <2> QED BY <2>1, <2>2
  <1>5. prepare_request_headers(h, ip, base, websocket) =
            [taken EXCEPT !["host"] = <<>>, !["x-forwarded-for"] = <<ip>>, !["x-termexo-base"] = <<base>>]
    BY DEF prepare_request_headers, stripped
  <1> HIDE DEF taken, Clean
  <1>6. prepare_request_headers(h, ip, base, websocket)["cookie"] = taken["cookie"]
    BY <1>4, <1>5 DEF HeaderNames
  <1> QED BY <1>4, <1>6 DEF Clean

\* Nothing is sent before the browser's headers are prepared.
LEMMA NothingSent ==
    ASSUME NEW r, r.sent = NoHeaders, r.setCookies = {}
    PROVE  (\A i \in 1..Len(r.sent["cookie"]) : "session" \notin r.sent["cookie"][i].names) /\ "session" \notin r.setCookies
  <1>1. r.sent["cookie"] = <<>>
    BY DEF NoHeaders, HeaderNames
  <1> QED BY <1>1

LEMMA CookiesRefused ==
    ASSUME TypeOK, Handles, "session" \notin req.setCookies
    PROVE  "session" \notin req'.setCookies
  <1>0. DOMAIN req = Fields
    BY FieldsAre DEF TypeOK
  <1>1. ASSUME NEW a, Answer(a) PROVE req'.setCookies = req.setCookies
    BY <1>0, <1>1 DEF Answer, Fields
  <1>2. CASE AnswerLocally \/ FindDeviceFails \/ OpenFails \/ ExchangeFails
    BY <1>1, <1>2 DEF AnswerLocally, FindDeviceFails, OpenFails, ExchangeFails, CannotConnect
  <1>3. CASE FindDevice \/ UseConnector \/ OpenStream
    BY <1>0, <1>3 DEF FindDevice, UseConnector, OpenStream, Fields
  <1>4. CASE Admit
    BY <1>0, <1>1, <1>4 DEF Admit, Fields
  <1>5. CASE CheckOnline
    <2>1. (\E a : Answer(a)) \/ \E to, sent : req' = [req EXCEPT !.pc = to, !.sent = sent]
      BY <1>5 DEF CheckOnline
    <2> QED BY <1>0, <1>1, <2>1 DEF Fields
  <1>6. CASE UsePooled
    BY <1>0, <1>6 DEF UsePooled, Fields
  <1>7. CASE TakeRoute
    BY <1>0, <1>1, <1>7 DEF TakeRoute, CannotConnect, Fields
  <1>8. ASSUME NEW names, Exchange(names) PROVE "session" \notin req'.setCookies
    <2> DEFINE cookies == IF req.entry = "upstream" THEN {} ELSE refuse_console_session_cookies(names)
    <2>1. "session" \notin cookies
      BY DEF refuse_console_session_cookies, without_session
    <2>2. req' = [req EXCEPT !.pc = "answered", !.answer = "served", !.row = NoValue, !.via = 0, !.setCookies = cookies]
      BY <1>8 DEF Exchange
    <2> HIDE DEF cookies
    <2> QED BY <1>0, <2>1, <2>2 DEF Fields
  <1> QED BY <1>2, <1>3, <1>4, <1>5, <1>6, <1>7, <1>8 DEF Handles

LEMMA SessionStep == GuardInv /\ SessionStaysHere /\ [Next]_vars => SessionStaysHere'
  <1> SUFFICES ASSUME GuardInv, SessionStaysHere, [Next]_vars PROVE SessionStaysHere'
    OBVIOUS
  <1>0. TypeOK /\ HandlerInv
    BY DEF GuardInv
  <1>1. ASSUME req'.sent = NoHeaders, req'.setCookies = {} PROVE SessionStaysHere'
    BY <1>1, NothingSent DEF SessionStaysHere
  <1>2. ASSUME NEW q, NEW a, NEW n, Arrive(q, a, n) PROVE SessionStaysHere'
    <2> DEFINE t == route_device_host(q)
    <2>1. req' = [NoRequest EXCEPT !.pc = t.pc, !.entry = t.entry, !.device = t.device, !.rest = t.rest,
                                   !.from = q, !.asked = a, !.redirects = n]
      BY <1>2 DEF Arrive
    <2> HIDE DEF t
    <2>2. req'.sent = NoHeaders /\ req'.setCookies = {}
      BY <2>1 DEF NoRequest
    <2> QED BY <1>1, <2>2
  <1>3. ASSUME NEW q \in Requests, Receive(q) PROVE SessionStaysHere'
    BY <1>2, <1>3 DEF Receive
  <1>4. CASE Follow
    <2>1. PICK q, a, n : Arrive(q, a, n)
      BY <1>4 DEF Follow
    <2> QED BY <1>2, <2>1
  <1>5. ASSUME NEW d \in Devices, ReceiveStream(d) PROVE SessionStaysHere'
    <2>1. req' = [NoRequest EXCEPT !.pc = "connect", !.entry = "upstream", !.device = d]
      BY <1>5 DEF ReceiveStream
    <2>2. req'.sent = NoHeaders /\ req'.setCookies = {}
      BY <2>1 DEF NoRequest
    <2> QED BY <1>1, <2>2
  <1>6. CASE Done
    <2>1. req' = NoRequest
      BY <1>6 DEF Done
    <2>2. req'.sent = NoHeaders /\ req'.setCookies = {}
      BY <2>1 DEF NoRequest
    <2> QED BY <1>1, <2>2
  <1>7. CASE Handles
    <2>1. "session" \notin req'.setCookies /\ req'.from = req.from
      BY <1>0, <1>7, CookiesRefused, HandlerSteps DEF SessionStaysHere, Same
    <2>2. CASE req'.sent = req.sent
      BY <2>1, <2>2 DEF SessionStaysHere
    <2>3. CASE req'.sent # req.sent
      <3> DEFINE h == req.from.headers
                 ip == resolve(h, req.from.peer)
                 websocket == is_websocket_upgrade(h)
                 sent == prepare_request_headers(h, ip, base_path(req), websocket)
      <3>1. CheckOnline
        BY <1>0, <1>7, <2>3, SentOnce
      <3>2. ~ \E a : Answer(a)
        BY <1>0, <2>3, FieldsAre DEF TypeOK, Answer, Fields
      <3>3. \E to : req' = [req EXCEPT !.pc = to, !.sent = sent]
        BY <3>1, <3>2 DEF CheckOnline
      <3>4. req'.sent = sent
        <4> HIDE DEF sent
        <4> QED BY <1>0, <3>3, FieldsAre DEF TypeOK, Fields
      <3>5. websocket \in BOOLEAN
        BY DEF is_websocket_upgrade
      <3>6. h["cookie"] # <<>> /\ Head(h["cookie"]).text => \A i \in 1..Len(sent["cookie"]) : "session" \notin sent["cookie"][i].names
        <4> HIDE DEF websocket, ip, h
        <4> QED BY <3>5, SessionTaken
      <3> HIDE DEF sent
      <3> QED BY <2>1, <3>4, <3>6 DEF SessionStaysHere
    <2> QED BY <2>2, <2>3
  <1>8. ASSUME req' = req PROVE SessionStaysHere'
    BY <1>8 DEF SessionStaysHere
  <1>9. CASE Meanwhile \/ UNCHANGED vars
    <2>1. req' = req
      BY <1>0, <1>9, PolicySteps, TunnelSteps DEF Meanwhile, PolicyChanges, TunnelChanges, vars
    <2> QED BY <1>8, <2>1
  <1>10. Forwarding => Handles \/ Follow \/ Done
    BY DEF Forwarding, Handles
  <1> QED BY <1>3, <1>4, <1>5, <1>6, <1>7, <1>9, <1>10 DEF Next

\* take_console_session() and refuse_console_session_cookies(): when the browser's first Cookie field is
\* text, its console session never crosses a tunnel, whatever the headers list as hop-by-hop and
\* whichever field carries it, and no device's answer sets it.
THEOREM SessionNeverCrosses == Spec => []SessionStaysHere
  <1>1. Init => SessionStaysHere
    <2>1. Init => req.sent = NoHeaders /\ req.setCookies = {}
      BY DEF Init, NoRequest
    <2> QED BY <2>1, NothingSent DEF SessionStaysHere
  <1>2. GuardInv /\ SessionStaysHere /\ [Next]_vars => SessionStaysHere'
    BY SessionStep
  <1> QED BY <1>1, <1>2, GuardIsInductive, PTL DEF Spec
=============================================================================
