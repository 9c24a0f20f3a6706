------------------------- MODULE TunnelSessionProofs -------------------------
(***************************************************************************)
(* Invariance proofs for TunnelSession, for any number of callers and any  *)
(* capacity of the channels and of the multiplexer.                        *)
(***************************************************************************)
EXTENDS TunnelSession, SequenceTheorems, FiniteSetTheorems, TLAPS

LEMMA Capacities ==
    /\ COMMAND_CAPACITY \in Nat \ {0} /\ FRAME_QUEUE_CAPACITY \in Nat \ {0}
    /\ MAX_CONCURRENT_STREAMS \in Nat \ {0} /\ MaxRequests \in Nat \ {0}
  BY TunnelSessionAssumption DEF TunnelSessionAssumption

-----------------------------------------------------------------------------
(* The inductive strengthening.                                            *)

\* The caller c waits for a request in the queue q, and for one at most.
In(q, c) == \E i \in 1..Len(q) : q[i] = c
Once(q, c) == \A i, j \in 1..Len(q) : q[i] = c /\ q[j] = c => i = j

\* OneRequestPerCaller without counting: a request moves from the one queue to the other, and ends
\* when its caller stops waiting.
OneRequest ==
    \A c \in Callers :
        /\ Once(opens, c) /\ Once(pending, c) /\ ~ (In(opens, c) /\ In(pending, c))
        /\ caller[c] = "waiting" <=> In(opens, c) \/ In(pending, c)

FiniteStreams == IsFiniteSet(streams)

-----------------------------------------------------------------------------
(* Queues of requests.                                                     *)

Reply == Callers \cup {Nobody}

LEMMA QueueGrows ==
    ASSUME NEW q \in Seq(Reply), NEW x \in Reply, NEW c
    PROVE  /\ In(Append(q, x), c) <=> In(q, c) \/ x = c
           /\ Once(q, c) /\ (x = c => ~ In(q, c)) => Once(Append(q, x), c)
  <1> DEFINE t == Append(q, x)
  <1>1. /\ Len(t) = Len(q) + 1 /\ t[Len(q) + 1] = x /\ Len(q) \in Nat
        /\ \A i \in 1..Len(q) : t[i] = q[i]
    BY AppendProperties
  <1> HIDE DEF t
  <1>2. \A i \in 1..Len(t) : i \in 1..Len(q) \/ i = Len(q) + 1
    BY <1>1
  <1>3. Len(q) + 1 \in 1..Len(t) /\ \A i \in 1..Len(q) : i \in 1..Len(t)
    BY <1>1
  <1>4. In(t, c) <=> In(q, c) \/ x = c
    BY <1>1, <1>2, <1>3 DEF In
  <1>5. ASSUME Once(q, c), x = c => ~ In(q, c) PROVE Once(t, c)
    BY <1>1, <1>2, <1>5 DEF Once, In
  <1> QED BY <1>4, <1>5 DEF t

LEMMA QueueShrinks ==
    ASSUME NEW q \in Seq(Reply), q # <<>>, NEW c
    PROVE  /\ In(q, c) <=> Head(q) = c \/ In(Tail(q), c)
           /\ Once(q, c) => Once(Tail(q), c) /\ (Head(q) = c => ~ In(Tail(q), c))
  <1> DEFINE t == Tail(q)
  <1>1. /\ Len(t) = Len(q) - 1 /\ Len(q) \in Nat \ {0} /\ Head(q) = q[1]
        /\ \A i \in 1..Len(t) : t[i] = q[i + 1]
    OBVIOUS
  <1> HIDE DEF t
  <1>2. /\ 1 \in 1..Len(q) /\ \A i \in 1..Len(t) : i + 1 \in 1..Len(q) /\ i + 1 # 1
        /\ \A i \in 1..Len(q) : i = 1 \/ (i - 1 \in 1..Len(t) /\ q[i] = t[i - 1])
    BY <1>1
  <1>3. In(q, c) <=> q[1] = c \/ In(t, c)
    BY <1>1, <1>2 DEF In
  <1>4. ASSUME Once(q, c), NEW i \in 1..Len(t), NEW j \in 1..Len(t), t[i] = c, t[j] = c PROVE i = j
    <2>1. i + 1 = j + 1
      BY <1>1, <1>2, <1>4 DEF Once
    <2> QED BY <2>1
  <1>5. ASSUME Once(q, c), q[1] = c, In(t, c) PROVE FALSE
    BY <1>1, <1>2, <1>5 DEF Once, In
  <1> QED BY <1>1, <1>3, <1>4, <1>5 DEF Once, t

LEMMA QueueAbandoned ==
    ASSUME NEW q \in Seq(Reply), NEW b \in Callers
    PROVE  /\ Abandoned(q, b) \in Seq(Reply) /\ Len(Abandoned(q, b)) = Len(q)
           /\ ~ In(Abandoned(q, b), b) /\ Once(Abandoned(q, b), b)
           /\ \A c \in Callers \ {b} : /\ In(Abandoned(q, b), c) <=> In(q, c)
                                       /\ Once(q, c) => Once(Abandoned(q, b), c)
  <1> DEFINE t == Abandoned(q, b)
  <1>1. Len(q) \in Nat /\ DOMAIN q = 1..Len(q) /\ \A i \in 1..Len(q) : q[i] \in Reply
    OBVIOUS
  <1>2. t = [i \in 1..Len(q) |-> IF q[i] = b THEN Nobody ELSE q[i]]
    BY <1>1 DEF Abandoned
  <1>3. \A i \in 1..Len(q) : (IF q[i] = b THEN Nobody ELSE q[i]) \in Reply
    BY <1>1 DEF Reply
  <1>4. t \in Seq(Reply) /\ Len(t) = Len(q)
    BY <1>1, <1>2, <1>3, IsASeq
  <1>5. \A i \in 1..Len(q) : t[i] = IF q[i] = b THEN Nobody ELSE q[i]
    BY <1>2
  <1> HIDE DEF t
  <1>6. Nobody \notin Callers
    BY TunnelSessionAssumption DEF TunnelSessionAssumption
  <1>7. ~ In(t, b) /\ Once(t, b)
    BY <1>4, <1>5, <1>6 DEF In, Once
  <1>8. ASSUME NEW c \in Callers \ {b} PROVE (In(t, c) <=> In(q, c)) /\ (Once(q, c) => Once(t, c))
    <2>1. \A i \in 1..Len(q) : t[i] = c <=> q[i] = c
      BY <1>5, <1>6
    <2> QED BY <1>4, <2>1 DEF In, Once
  <1> QED BY <1>4, <1>7, <1>8 DEF t

LEMMA QueueEmpty == \A c : ~ In(<<>>, c) /\ Once(<<>>, c)
  BY DEF In, Once

\* Counting: the requests of one caller in a queue.
LEMMA QueueCount ==
    ASSUME NEW q \in Seq(Reply), NEW c, Once(q, c)
    PROVE  Cardinality({i \in 1..Len(q) : q[i] = c}) = IF In(q, c) THEN 1 ELSE 0
  <1> DEFINE S == {i \in 1..Len(q) : q[i] = c}
  <1>1. CASE In(q, c)
    <2>1. PICK i \in 1..Len(q) : q[i] = c
      BY <1>1 DEF In
    <2>2. S = {i}
      BY <2>1 DEF Once
    <2> QED BY <1>1, <2>2, FS_Singleton
  <1>2. CASE ~ In(q, c)
    <2>1. S = {}
      BY <1>2 DEF In
    <2> QED BY <1>2, <2>1, FS_EmptySet
  <1> QED BY <1>1, <1>2

-----------------------------------------------------------------------------
(* The tasks and their channels.                                           *)

Commands == {q \in Seq({"control", "close"}) : Len(q) <= COMMAND_CAPACITY}

\* The two halves of TypeOK.
TasksOK ==
    /\ run \in {"serving", "draining", "ended"}
    /\ reader \in {"reading", "queueing", "stopped"}
    /\ writer \in {"selecting", "sending", "closing", "stopped"}
    /\ driver \in {"running", "stopped"}
    /\ inbound \in 0..FRAME_QUEUE_CAPACITY /\ data \in 0..FRAME_QUEUE_CAPACITY
    /\ outgoing \in Commands
    /\ shutdown \in BOOLEAN
    /\ peer \in {"reads", "stalled", "gone"} /\ asked \in {"no", "queued"}

RequestsOK ==
    /\ opens \in Seq(Reply) /\ Len(opens) <= COMMAND_CAPACITY
    /\ pending \in Seq(Reply)
    /\ caller \in [Callers -> {"idle", "offering", "waiting", "holding"}]
    /\ streams \subseteq Reply

LEMMA TypeParts == TypeOK <=> TasksOK /\ RequestsOK
  BY DEF TypeOK, TasksOK, RequestsOK, Commands, Reply

\* A command is queued while there is room, and dropped otherwise.
LEMMA TrySendFits ==
    ASSUME NEW q \in Commands, NEW m \in {"control", "close"}
    PROVE  try_send(q, m) \in Commands
  <1>1. q \in Seq({"control", "close"}) /\ Len(q) <= COMMAND_CAPACITY
    BY DEF Commands
  <1>2. CASE Accepts(q)
    <2>1. Len(q) < COMMAND_CAPACITY
      BY <1>2 DEF Accepts
    <2>2. Append(q, m) \in Seq({"control", "close"}) /\ Len(Append(q, m)) = Len(q) + 1
      BY <1>1, AppendProperties
    <2>3. Len(Append(q, m)) <= COMMAND_CAPACITY
      BY <1>1, <2>1, <2>2, Capacities
    <2> QED BY <1>2, <2>2, <2>3 DEF try_send, Commands
  <1>3. CASE ~ Accepts(q)
    BY <1>3 DEF try_send
  <1> QED BY <1>2, <1>3

LEMMA FewerCommands ==
    ASSUME NEW q \in Commands, q # <<>> PROVE Tail(q) \in Commands
  <1>1. q \in Seq({"control", "close"}) /\ Len(q) <= COMMAND_CAPACITY
    BY DEF Commands
  <1>2. Tail(q) \in Seq({"control", "close"}) /\ Len(Tail(q)) = Len(q) - 1
    BY <1>1
  <1>3. Len(Tail(q)) <= COMMAND_CAPACITY
    BY <1>1, <1>2, Capacities
  <1> QED BY <1>2, <1>3 DEF Commands

LEMMA TasksNext ==
    ASSUME TasksOK, [Next]_vars PROVE TasksOK'
  <1>1. "control" \in {"control", "close"} /\ "close" \in {"control", "close"}
    OBVIOUS
  <1>2. outgoing \in Commands /\ FRAME_QUEUE_CAPACITY \in Nat /\ <<>> \in Commands
    <2>1. <<>> \in Seq({"control", "close"}) /\ Len(<<>>) <= COMMAND_CAPACITY
      BY Capacities
    <2> QED BY <2>1, Capacities DEF TasksOK, Commands
  <1>3. CASE HandleSteps
    <2>1. outgoing' \in Commands
      <3>1. \/ outgoing' = try_send(outgoing, "close")
            \/ outgoing' = try_send(try_send(outgoing, "control"), "close")
            \/ outgoing' = try_send(outgoing, "control")
        BY <1>3 DEF HandleSteps, Close, RevokeTunnel, SendFrame
      <3> QED BY <1>1, <1>2, <3>1, TrySendFits
    <2>2. asked' \in {"no", "queued"}
      BY <1>3 DEF HandleSteps, Close, RevokeTunnel, SendFrame, TasksOK
    <2>3. UNCHANGED <<run, reader, writer, driver, inbound, data, shutdown, peer>>
      BY <1>3 DEF HandleSteps, Close, RevokeTunnel, SendFrame
    <2> QED BY <2>1, <2>2, <2>3 DEF TasksOK
  <1>4. ASSUME NEW c \in Callers, CallerSteps(c) PROVE TasksOK'
    <2>1. UNCHANGED <<run, reader, writer, driver, channels, peer, asked>>
      BY <1>4 DEF CallerSteps, BeginOpen, Offer, OfferRefused, GiveUp, DropStream
    <2> QED BY <2>1 DEF TasksOK, channels
  <1>5. CASE DriverSteps
    <2>1. CASE TakeRequest \/ OpenStream
      BY <2>1 DEF TakeRequest, OpenStream, TasksOK, channels
    <2>2. CASE DriverEnds
      <3>1. inbound' \in 0..FRAME_QUEUE_CAPACITY
        BY <1>2, <2>2 DEF DriverEnds, StopDriver
      <3> QED BY <2>2, <3>1 DEF DriverEnds, StopDriver, TasksOK
    <2>3. CASE DriverReads
      BY <1>2, <2>3 DEF DriverReads, TasksOK
    <2>4. CASE DriverWrites
      BY <1>2, <2>4 DEF DriverWrites, TasksOK
    <2> QED BY <1>5, <2>1, <2>2, <2>3, <2>4 DEF DriverSteps
  <1>6. CASE WriterSteps
    <2>1. CASE WriteData
      BY <1>2, <2>1 DEF WriteData, TasksOK
    <2>2. CASE WritePing \/ WriteEnds \/ Sent
      <3>1. writer' \in {"selecting", "sending", "closing", "stopped"}
        BY <2>2 DEF WritePing, WriteEnds, Sent
      <3> QED BY <2>2, <3>1 DEF WritePing, WriteEnds, Sent, TasksOK, channels
    <2>3. CASE WriteCommand
      <3>1. outgoing' \in Commands
        BY <1>2, <2>3, FewerCommands DEF WriteCommand
      <3>2. writer' \in {"selecting", "sending", "closing", "stopped"}
        BY <2>3 DEF WriteCommand
      <3> QED BY <2>3, <3>1, <3>2 DEF WriteCommand, TasksOK
    <2>4. CASE WriterStops
      <3>1. shutdown' \in BOOLEAN
        BY <2>4 DEF WriterStops
      <3>2. data' \in 0..FRAME_QUEUE_CAPACITY /\ outgoing' \in Commands
        BY <1>2, <2>4 DEF WriterStops
      <3> QED BY <2>4, <3>1, <3>2 DEF WriterStops, TasksOK
    <2> QED BY <1>6, <2>1, <2>2, <2>3, <2>4 DEF WriterSteps
  <1>7. CASE ReaderSteps
    <2>1. CASE ReadText
      <3>1. outgoing' \in Commands
        BY <1>1, <1>2, <2>1, TrySendFits DEF ReadText
      <3> QED BY <2>1, <3>1 DEF ReadText, TasksOK
    <2>2. CASE ReadBinary \/ ReadShutdown \/ ReadIdle \/ ReadClosed \/ QueueRefused
      <3>1. /\ reader' \in {"reading", "queueing", "stopped"}
            /\ UNCHANGED <<run, writer, driver, channels, peer, asked>>
        BY <2>2 DEF ReadBinary, ReadShutdown, ReadIdle, ReadClosed, QueueRefused
      <3> QED BY <3>1 DEF TasksOK, channels
    <2>3. CASE QueueBinary
      BY <1>2, <2>3 DEF QueueBinary, TasksOK
    <2> QED BY <1>7, <2>1, <2>2, <2>3 DEF ReaderSteps
  <1>8. CASE RunSteps
    <2>1. CASE BeginTeardown
      <3>1. outgoing' \in Commands
        BY <1>1, <1>2, <2>1, TrySendFits DEF BeginTeardown
      <3>2. inbound' \in 0..FRAME_QUEUE_CAPACITY
        BY <1>2, <2>1 DEF BeginTeardown, StopDriver
      <3> QED BY <2>1, <3>1, <3>2 DEF BeginTeardown, StopDriver, TasksOK
    <2>2. CASE FinishTeardown
      BY <2>2 DEF FinishTeardown, TasksOK, channels
    <2> QED BY <1>8, <2>1, <2>2 DEF RunSteps
  <1>9. CASE PeerSteps
    BY <1>9 DEF PeerSteps, PeerStalls, PeerRecovers, PeerGoes, TasksOK, channels
  <1>10. CASE UNCHANGED vars
    BY <1>10 DEF vars, channels, TasksOK
  <1> QED BY <1>3, <1>4, <1>5, <1>6, <1>7, <1>8, <1>9, <1>10 DEF Next

-----------------------------------------------------------------------------
(* The requests and the streams.                                           *)

AnsweredInv == RequestsOK /\ FiniteStreams /\ StreamsHaveCallers /\ OneRequest

\* The steps that touch them.
LEMMA RequestSteps ==
    ASSUME [Next]_vars
    PROVE  \/ UNCHANGED requests
           \/ \E c \in Callers : CallerSteps(c)
           \/ TakeRequest \/ OpenStream
           \/ StopDriver
  BY DEF Next, HandleSteps, Close, RevokeTunnel, SendFrame, DriverSteps, DriverEnds, DriverReads, DriverWrites,
         WriterSteps, WriteData, WritePing, WriteCommand, WriteEnds, Sent, WriterStops,
         ReaderSteps, ReadText, ReadBinary, QueueBinary, ReadShutdown, ReadIdle, ReadClosed, QueueRefused,
         RunSteps, BeginTeardown, FinishTeardown, PeerSteps, PeerStalls, PeerRecovers, PeerGoes, vars

\* A caller that changes its state, without a request or a stream before or after it, disturbs nothing.
LEMMA CallerMoves ==
    ASSUME AnsweredInv, NEW c \in Callers, NEW st \in {"idle", "offering"},
           caller[c] \notin {"waiting", "holding"},
           caller' = [caller EXCEPT ![c] = st], UNCHANGED <<opens, pending, streams>>
    PROVE  AnsweredInv'
  <1>1. /\ caller \in [Callers -> {"idle", "offering", "waiting", "holding"}] /\ caller'[c] = st
        /\ \A b \in Callers \ {c} : caller'[b] = caller[b]
    BY DEF AnsweredInv, RequestsOK
  <1>2. RequestsOK' /\ FiniteStreams'
    BY <1>1 DEF AnsweredInv, RequestsOK, FiniteStreams
  <1>3. StreamsHaveCallers'
    <2>1. c \notin streams
      BY DEF AnsweredInv, StreamsHaveCallers
    <2> QED BY <1>1, <2>1 DEF AnsweredInv, StreamsHaveCallers
  <1>4. OneRequest'
    <2>1. \A b \in Callers : caller'[b] = "waiting" <=> caller[b] = "waiting"
      BY <1>1
    <2> QED BY <2>1 DEF AnsweredInv, OneRequest
  <1> QED BY <1>2, <1>3, <1>4 DEF AnsweredInv

LEMMA OfferKeeps ==
    ASSUME AnsweredInv, NEW c \in Callers, Offer(c) PROVE AnsweredInv'
  <1>1. /\ caller \in [Callers -> {"idle", "offering", "waiting", "holding"}] /\ caller[c] = "offering"
        /\ caller'[c] = "waiting" /\ \A b \in Callers \ {c} : caller'[b] = caller[b]
        /\ caller' \in [Callers -> {"idle", "offering", "waiting", "holding"}]
        /\ opens \in Seq(Reply) /\ opens' = Append(opens, c) /\ Len(opens) < COMMAND_CAPACITY
        /\ c \in Reply /\ pending' = pending /\ streams' = streams
    BY DEF AnsweredInv, RequestsOK, Offer, Reply
  <1>2. opens' \in Seq(Reply) /\ Len(opens') <= COMMAND_CAPACITY
    BY <1>1, AppendProperties, Capacities
  <1>3. RequestsOK' /\ FiniteStreams'
    BY <1>1, <1>2 DEF AnsweredInv, RequestsOK, FiniteStreams
  <1>4. StreamsHaveCallers'
    <2>1. c \notin streams
      BY <1>1 DEF AnsweredInv, StreamsHaveCallers
    <2> QED BY <1>1, <2>1 DEF AnsweredInv, StreamsHaveCallers
  <1>5. ASSUME NEW b \in Callers
        PROVE  /\ Once(opens', b) /\ Once(pending, b) /\ ~ (In(opens', b) /\ In(pending, b))
               /\ caller'[b] = "waiting" <=> In(opens', b) \/ In(pending, b)
    <2>1. /\ Once(opens, b) /\ Once(pending, b) /\ ~ (In(opens, b) /\ In(pending, b))
          /\ caller[b] = "waiting" <=> In(opens, b) \/ In(pending, b)
      BY DEF AnsweredInv, OneRequest
    <2>2. In(opens', b) <=> In(opens, b) \/ c = b
      BY <1>1, QueueGrows
    <2>3. Once(opens, b) /\ (c = b => ~ In(opens, b)) => Once(opens', b)
      BY <1>1, QueueGrows
    <2> QED BY <1>1, <2>1, <2>2, <2>3
  <1>6. OneRequest'
    BY <1>1, <1>5 DEF OneRequest
  <1> QED BY <1>3, <1>4, <1>6 DEF AnsweredInv

LEMMA GiveUpKeeps ==
    ASSUME AnsweredInv, NEW c \in Callers, GiveUp(c) PROVE AnsweredInv'
  <1>1. /\ caller \in [Callers -> {"idle", "offering", "waiting", "holding"}] /\ caller[c] = "waiting"
        /\ caller'[c] = "idle" /\ \A b \in Callers \ {c} : caller'[b] = caller[b]
        /\ caller' \in [Callers -> {"idle", "offering", "waiting", "holding"}]
        /\ opens \in Seq(Reply) /\ pending \in Seq(Reply) /\ Len(opens) <= COMMAND_CAPACITY
        /\ opens' = Abandoned(opens, c) /\ pending' = Abandoned(pending, c) /\ streams' = streams
    BY DEF AnsweredInv, RequestsOK, GiveUp
  <1>2. opens' \in Seq(Reply) /\ Len(opens') <= COMMAND_CAPACITY /\ pending' \in Seq(Reply)
    BY <1>1, QueueAbandoned
  <1>3. RequestsOK' /\ FiniteStreams'
    BY <1>1, <1>2 DEF AnsweredInv, RequestsOK, FiniteStreams
  <1>4. StreamsHaveCallers'
    <2>1. c \notin streams
      BY <1>1 DEF AnsweredInv, StreamsHaveCallers
    <2> QED BY <1>1, <2>1 DEF AnsweredInv, StreamsHaveCallers
  <1>5. ASSUME NEW b \in Callers
        PROVE  /\ Once(opens', b) /\ Once(pending', b) /\ ~ (In(opens', b) /\ In(pending', b))
               /\ caller'[b] = "waiting" <=> In(opens', b) \/ In(pending', b)
    <2>1. /\ Once(opens, b) /\ Once(pending, b) /\ ~ (In(opens, b) /\ In(pending, b))
          /\ caller[b] = "waiting" <=> In(opens, b) \/ In(pending, b)
      BY DEF AnsweredInv, OneRequest
    <2>2. CASE b = c
      BY <1>1, <2>2, QueueAbandoned
    <2>3. CASE b # c
      <3>1. /\ In(opens', b) <=> In(opens, b)
            /\ In(pending', b) <=> In(pending, b)
            /\ Once(opens', b) /\ Once(pending', b)
        BY <1>1, <2>1, <2>3, QueueAbandoned
      <3> QED BY <1>1, <2>1, <2>3, <3>1
    <2> QED BY <2>2, <2>3
  <1>6. OneRequest'
    BY <1>5 DEF OneRequest
  <1> QED BY <1>3, <1>4, <1>6 DEF AnsweredInv

LEMMA DropStreamKeeps ==
    ASSUME AnsweredInv, NEW c \in Callers, DropStream(c) PROVE AnsweredInv'
  <1>1. /\ caller \in [Callers -> {"idle", "offering", "waiting", "holding"}] /\ caller[c] = "holding"
        /\ caller'[c] = "idle" /\ \A b \in Callers \ {c} : caller'[b] = caller[b]
        /\ caller' \in [Callers -> {"idle", "offering", "waiting", "holding"}]
        /\ opens' = opens /\ pending' = pending /\ streams' = streams \ {c}
        /\ IsFiniteSet(streams) /\ Cardinality(streams) <= MAX_CONCURRENT_STREAMS
    BY DEF AnsweredInv, RequestsOK, DropStream, FiniteStreams, StreamsHaveCallers
  <1>2. /\ IsFiniteSet(streams') /\ Cardinality(streams) \in Nat /\ Cardinality(streams') \in Nat
        /\ Cardinality(streams') <= Cardinality(streams)
    <2>1. Cardinality(streams \ {c}) = IF c \in streams THEN Cardinality(streams) - 1 ELSE Cardinality(streams)
      BY <1>1, FS_RemoveElement
    <2>2. IsFiniteSet(streams \ {c})
      BY <1>1, FS_RemoveElement
    <2> QED BY <1>1, <2>1, <2>2, FS_CardinalityType
  <1>3. Cardinality(streams') <= MAX_CONCURRENT_STREAMS
    BY <1>1, <1>2, Capacities
  <1>4. RequestsOK' /\ FiniteStreams'
    BY <1>1, <1>2 DEF AnsweredInv, RequestsOK, FiniteStreams
  <1>5. \A b \in streams' : b \in Callers /\ caller'[b] = "holding"
    BY <1>1 DEF AnsweredInv, StreamsHaveCallers
  <1>6. OneRequest'
    <2>1. \A b \in Callers : caller'[b] = "waiting" <=> caller[b] = "waiting"
      BY <1>1
    <2> QED BY <1>1, <2>1 DEF AnsweredInv, OneRequest
  <1> QED BY <1>3, <1>4, <1>5, <1>6 DEF AnsweredInv, StreamsHaveCallers

LEMMA TakeRequestKeeps ==
    ASSUME AnsweredInv, TakeRequest PROVE AnsweredInv'
  <1> DEFINE x == Head(opens)
  <1>1. /\ opens \in Seq(Reply) /\ opens # <<>> /\ pending \in Seq(Reply) /\ Len(opens) <= COMMAND_CAPACITY
        /\ opens' = Tail(opens) /\ pending' = Append(pending, x) /\ caller' = caller /\ streams' = streams
    BY DEF AnsweredInv, RequestsOK, TakeRequest
  <1>2. x \in Reply /\ opens' \in Seq(Reply) /\ Len(opens') = Len(opens) - 1 /\ pending' \in Seq(Reply)
    BY <1>1
  <1>3. Len(opens') <= COMMAND_CAPACITY
    BY <1>1, <1>2, Capacities
  <1> HIDE DEF x
  <1>4. RequestsOK' /\ FiniteStreams' /\ StreamsHaveCallers'
    BY <1>1, <1>2, <1>3 DEF AnsweredInv, RequestsOK, FiniteStreams, StreamsHaveCallers
  <1>5. ASSUME NEW b \in Callers
        PROVE  /\ Once(opens', b) /\ Once(pending', b) /\ ~ (In(opens', b) /\ In(pending', b))
               /\ caller'[b] = "waiting" <=> In(opens', b) \/ In(pending', b)
    <2>1. /\ Once(opens, b) /\ Once(pending, b) /\ ~ (In(opens, b) /\ In(pending, b))
          /\ caller[b] = "waiting" <=> In(opens, b) \/ In(pending, b)
      BY DEF AnsweredInv, OneRequest
    <2>2. /\ In(opens, b) <=> x = b \/ In(opens', b)
          /\ Once(opens', b) /\ (x = b => ~ In(opens', b))
      BY <1>1, <2>1, QueueShrinks DEF x
    <2>3. /\ In(pending', b) <=> In(pending, b) \/ x = b
          /\ Once(pending, b) /\ (x = b => ~ In(pending, b)) => Once(pending', b)
      BY <1>1, <1>2, QueueGrows
    <2> QED BY <1>1, <2>1, <2>2, <2>3
  <1>6. OneRequest'
    BY <1>5 DEF OneRequest
  <1> QED BY <1>4, <1>6 DEF AnsweredInv

\* The reply goes to the caller that waits for it, or the stream is dropped.
LEMMA OpenStreamKeeps ==
    ASSUME AnsweredInv, OpenStream PROVE AnsweredInv'
  <1> DEFINE x == Head(pending)
  <1>1. /\ opens' = opens /\ pending \in Seq(Reply) /\ pending # <<>> /\ pending' = Tail(pending)
        /\ streams' = streams \cup opened_stream(x)
        /\ caller' = (IF x = Nobody THEN caller ELSE [caller EXCEPT ![x] = "holding"])
        /\ Cardinality(streams) < MAX_CONCURRENT_STREAMS /\ IsFiniteSet(streams)
        /\ caller \in [Callers -> {"idle", "offering", "waiting", "holding"}]
    BY DEF AnsweredInv, RequestsOK, OpenStream, FiniteStreams
  <1>2. x \in Reply /\ pending' \in Seq(Reply)
    BY <1>1
  <1>3. \A b \in Callers : /\ In(pending, b) <=> x = b \/ In(pending', b)
                           /\ Once(pending, b) => Once(pending', b) /\ (x = b => ~ In(pending', b))
    BY <1>1, QueueShrinks
  <1> HIDE DEF x
  <1>4. CASE x = Nobody
    <2>1. streams' = streams /\ caller' = caller /\ x \notin Callers
      BY <1>1, <1>4, TunnelSessionAssumption DEF opened_stream, TunnelSessionAssumption
    <2>2. RequestsOK' /\ FiniteStreams' /\ StreamsHaveCallers'
      BY <1>1, <1>2, <2>1 DEF AnsweredInv, RequestsOK, FiniteStreams, StreamsHaveCallers
    <2>3. OneRequest'
      BY <1>1, <1>3, <2>1 DEF AnsweredInv, OneRequest
    <2> QED BY <2>2, <2>3 DEF AnsweredInv
  <1>5. CASE x # Nobody
    <2>1. x \in Callers /\ streams' = streams \cup {x} /\ caller' = [caller EXCEPT ![x] = "holding"]
      BY <1>1, <1>2, <1>5 DEF opened_stream, Reply
    <2>2. /\ caller'[x] = "holding" /\ \A b \in Callers \ {x} : caller'[b] = caller[b]
          /\ caller' \in [Callers -> {"idle", "offering", "waiting", "holding"}]
      BY <1>1, <2>1
    <2>3. IsFiniteSet(streams') /\ Cardinality(streams') <= MAX_CONCURRENT_STREAMS
      <3>1. /\ IsFiniteSet(streams \cup {x})
            /\ Cardinality(streams \cup {x}) = IF x \in streams THEN Cardinality(streams) ELSE Cardinality(streams) + 1
        BY <1>1, FS_AddElement
      <3>2. Cardinality(streams) \in Nat
        BY <1>1, FS_CardinalityType
      <3>3. Cardinality(streams \cup {x}) <= MAX_CONCURRENT_STREAMS
        <4> DEFINE n == Cardinality(streams)
                   m == Cardinality(streams \cup {x})
        <4>1. n \in Nat /\ n < MAX_CONCURRENT_STREAMS /\ (m = n \/ m = n + 1)
          BY <1>1, <3>1, <3>2
        <4> HIDE DEF n, m
        <4>2. m <= MAX_CONCURRENT_STREAMS
          BY <4>1, Capacities
        <4> QED BY <4>2 DEF m
      <3> QED BY <2>1, <3>1, <3>3
    <2>4. RequestsOK' /\ FiniteStreams'
      BY <1>1, <1>2, <2>1, <2>2, <2>3 DEF AnsweredInv, RequestsOK, FiniteStreams
    <2>5. StreamsHaveCallers'
      <3>1. \A b \in streams' : b \in Callers /\ caller'[b] = "holding"
        BY <2>1, <2>2 DEF AnsweredInv, StreamsHaveCallers
      <3> QED BY <2>3, <3>1 DEF StreamsHaveCallers
    <2>6. ASSUME NEW b \in Callers
          PROVE  /\ Once(opens, b) /\ Once(pending', b) /\ ~ (In(opens, b) /\ In(pending', b))
                 /\ caller'[b] = "waiting" <=> In(opens, b) \/ In(pending', b)
      <3>1. /\ Once(opens, b) /\ Once(pending, b) /\ ~ (In(opens, b) /\ In(pending, b))
            /\ caller[b] = "waiting" <=> In(opens, b) \/ In(pending, b)
        BY DEF AnsweredInv, OneRequest
      <3>2. /\ In(pending, b) <=> x = b \/ In(pending', b)
            /\ Once(pending', b) /\ (x = b => ~ In(pending', b))
        BY <1>3, <3>1
      <3> QED BY <2>2, <3>1, <3>2
    <2>7. OneRequest'
      BY <1>1, <2>6 DEF OneRequest
    <2> QED BY <2>4, <2>5, <2>7 DEF AnsweredInv
  <1> QED BY <1>4, <1>5

LEMMA StopDriverKeeps ==
    ASSUME AnsweredInv, StopDriver PROVE AnsweredInv'
  <1>1. /\ opens' = <<>> /\ pending' = <<>> /\ streams' = {}
        /\ caller \in [Callers -> {"idle", "offering", "waiting", "holding"}]
        /\ caller' = [c \in Callers |-> IF caller[c] = "waiting" THEN "idle" ELSE caller[c]]
    BY DEF AnsweredInv, RequestsOK, StopDriver
  <1>2. /\ caller' \in [Callers -> {"idle", "offering", "waiting", "holding"}]
        /\ \A c \in Callers : caller'[c] # "waiting"
    BY <1>1
  <1>3. RequestsOK'
    BY <1>1, <1>2, Capacities DEF RequestsOK
  <1>4. FiniteStreams' /\ StreamsHaveCallers'
    BY <1>1, FS_EmptySet, Capacities DEF FiniteStreams, StreamsHaveCallers
  <1>5. OneRequest'
    BY <1>1, <1>2, QueueEmpty DEF OneRequest
  <1> QED BY <1>3, <1>4, <1>5 DEF AnsweredInv

LEMMA AnsweredNext == AnsweredInv /\ [Next]_vars => AnsweredInv'
  <1> SUFFICES ASSUME AnsweredInv, [Next]_vars PROVE AnsweredInv'
    OBVIOUS
  <1>1. CASE UNCHANGED requests
    BY <1>1 DEF requests, AnsweredInv, RequestsOK, FiniteStreams, StreamsHaveCallers, OneRequest
  <1>2. ASSUME NEW c \in Callers, CallerSteps(c) PROVE AnsweredInv'
    <2>1. CASE BeginOpen(c)
      BY <2>1, CallerMoves DEF BeginOpen
    <2>2. CASE OfferRefused(c)
      BY <2>2, CallerMoves DEF OfferRefused
    <2> QED BY <1>2, <2>1, <2>2, OfferKeeps, GiveUpKeeps, DropStreamKeeps DEF CallerSteps
  <1>3. CASE TakeRequest \/ OpenStream \/ StopDriver
    BY <1>3, TakeRequestKeeps, OpenStreamKeeps, StopDriverKeeps
  <1> QED BY <1>1, <1>2, <1>3, RequestSteps

LEMMA TunnelInit == Init => TasksOK /\ AnsweredInv
  <1> SUFFICES ASSUME Init PROVE TasksOK /\ AnsweredInv
    OBVIOUS
  <1>1. shutdown \in BOOLEAN
    BY DEF Init
  <1>2. outgoing \in Commands
    BY Capacities DEF Init, Commands
  <1>3. TasksOK
    BY <1>1, <1>2, Capacities DEF Init, TasksOK
  <1>4. RequestsOK
    BY Capacities DEF Init, RequestsOK
  <1>5. FiniteStreams /\ StreamsHaveCallers
    BY FS_EmptySet, Capacities DEF Init, FiniteStreams, StreamsHaveCallers
  <1>6. OneRequest
    BY QueueEmpty DEF Init, OneRequest
  <1> QED BY <1>3, <1>4, <1>5, <1>6 DEF AnsweredInv

-----------------------------------------------------------------------------
(* The theorem.                                                            *)

\* However many callers ask, give up and ask again, while requests wait in the channel and in the
\* driver and whichever task ends first: a caller waits for exactly one request, a request whose
\* caller gave up is never answered to it, and every stream the multiplexer holds, of which there are
\* never more than it may have, has a caller that holds it.
THEOREM RequestsHaveCallers == Spec => []RequestInv
  <1>1. TasksOK /\ AnsweredInv => RequestInv
    <2> SUFFICES ASSUME TasksOK, AnsweredInv PROVE RequestInv
      OBVIOUS
    <2>1. TypeOK /\ StreamsHaveCallers
      BY TypeParts DEF AnsweredInv
    <2>2. ASSUME NEW c \in Callers
          PROVE  Cardinality({i \in 1..Len(opens) : opens[i] = c})
                     + Cardinality({i \in 1..Len(pending) : pending[i] = c})
                     = IF caller[c] = "waiting" THEN 1 ELSE 0
      <3>1. /\ Once(opens, c) /\ Once(pending, c) /\ ~ (In(opens, c) /\ In(pending, c))
            /\ caller[c] = "waiting" <=> In(opens, c) \/ In(pending, c)
            /\ opens \in Seq(Reply) /\ pending \in Seq(Reply)
        BY DEF AnsweredInv, OneRequest, RequestsOK
      <3>2. /\ Cardinality({i \in 1..Len(opens) : opens[i] = c}) = IF In(opens, c) THEN 1 ELSE 0
            /\ Cardinality({i \in 1..Len(pending) : pending[i] = c}) = IF In(pending, c) THEN 1 ELSE 0
        BY <3>1, QueueCount
      <3> QED BY <3>1, <3>2
    <2> QED BY <2>1, <2>2 DEF RequestInv, OneRequestPerCaller
  <1>2. TasksOK /\ [Next]_vars => TasksOK'
    BY TasksNext
  <1> QED BY <1>1, <1>2, TunnelInit, AnsweredNext, PTL DEF Spec
=============================================================================
