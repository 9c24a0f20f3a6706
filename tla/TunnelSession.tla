--------------------------- MODULE TunnelSession ---------------------------
(***************************************************************************)
(* The tasks of one live tunnel and the channels between them              *)
(* (src/src/tunnel/session.rs), from the moment run() has registered it,   *)
(* and the handle through which requests ask it for streams                *)
(* (src/src/tunnel/handle.rs).                                             *)
(*                                                                         *)
(*     socket -> reader -> inbound -> driver -> data -> writer -> socket   *)
(*     callers -> opens -> driver        callers -> outgoing -> writer     *)
(*                                                                         *)
(* All four channels are bounded.  The reader, the writer and the driver   *)
(* each may be the first to end, and each must bring the others down: only *)
(* then does run() take the device out of the routing table.               *)
(***************************************************************************)
EXTENDS Naturals, Sequences, FiniteSets

CONSTANTS
    Callers,           \* tasks that ask for streams, one request each at a time
    Nobody,            \* the reply of a request whose caller has gone
    COMMAND_CAPACITY, FRAME_QUEUE_CAPACITY, MAX_CONCURRENT_STREAMS,
    MaxRequests        \* bound on the requests that are queued in the tunnel

ASSUME TunnelSessionAssumption ==
    /\ Nobody \notin Callers
    /\ {COMMAND_CAPACITY, FRAME_QUEUE_CAPACITY, MAX_CONCURRENT_STREAMS, MaxRequests} \subseteq Nat \ {0}

VARIABLES
    run,        \* where run() is: "serving", "draining" (it waits for the writer) or "ended"
    reader,     \* read_frames()
    writer,     \* write_frames()
    driver,     \* drive_multiplexer()
    inbound,    \* binary frames queued for the driver
    data,       \* binary frames queued for the writer
    outgoing,   \* commands queued for the writer
    shutdown,   \* the watch channel by which the writer ends the reader
    opens,      \* requests in the channel, by the caller that waits for the reply
    pending,    \* requests the driver holds
    caller,     \* what each caller of open_stream() is doing
    streams,    \* the callers whose stream the multiplexer holds
    peer,       \* the other end of the socket
    asked       \* what became of the last close() of a handle

channels == <<inbound, data, outgoing, shutdown>>
requests == <<opens, pending, caller, streams>>
vars == <<run, reader, writer, driver, channels, requests, peer, asked>>

Init ==
    /\ run = "serving" /\ reader = "reading" /\ writer = "selecting" /\ driver = "running"
    /\ inbound = 0 /\ data = 0 /\ outgoing = <<>> /\ shutdown = FALSE
    /\ opens = <<>> /\ pending = <<>> /\ streams = {}
    /\ caller = [c \in Callers |-> "idle"]
    /\ peer = "reads" /\ asked = "no"

-----------------------------------------------------------------------------
(* The handle.                                                             *)

\* try_send() finds the writer's queue open and not full.
Accepts(queue) == writer # "stopped" /\ Len(queue) < COMMAND_CAPACITY

\* try_send() of one command: dropped without a word when the writer is gone or far behind.
try_send(queue, command) == IF Accepts(queue) THEN Append(queue, command) ELSE queue

\* close() through a handle: disconnect_tunnel(), or the close of a displaced tunnel.
Close ==
    /\ run = "serving"
    /\ outgoing' = try_send(outgoing, "close")
    /\ asked' = IF Accepts(outgoing) THEN "queued" ELSE asked
    /\ UNCHANGED <<run, reader, writer, driver, inbound, data, shutdown, requests, peer>>

\* revoke_tunnel(): the notice and the close are two commands.
RevokeTunnel ==
    LET noticed == try_send(outgoing, "control") IN
    /\ run = "serving"
    /\ outgoing' = try_send(noticed, "close")
    /\ asked' = IF Accepts(noticed) THEN "queued" ELSE asked
    /\ UNCHANGED <<run, reader, writer, driver, inbound, data, shutdown, requests, peer>>

\* send_frame() from elsewhere, such as an address list pushed to every tunnel.
SendFrame ==
    /\ run = "serving"
    /\ outgoing' = try_send(outgoing, "control")
    /\ UNCHANGED <<run, reader, writer, driver, inbound, data, shutdown, requests, peer, asked>>

\* open_stream(): a request is made and offered to the channel.
BeginOpen(c) ==
    /\ caller[c] = "idle"
    /\ Len(opens) + Len(pending) < MaxRequests
    /\ caller' = [caller EXCEPT ![c] = "offering"]
    /\ UNCHANGED <<run, reader, writer, driver, channels, opens, pending, streams, peer, asked>>

\* opens.send().await: waits for room, and no timeout covers the wait.
Offer(c) ==
    /\ caller[c] = "offering"
    /\ driver # "stopped"
    /\ Len(opens) < COMMAND_CAPACITY
    /\ opens' = Append(opens, c)
    /\ caller' = [caller EXCEPT ![c] = "waiting"]
    /\ UNCHANGED <<run, reader, writer, driver, channels, pending, streams, peer, asked>>

\* The driver is gone: TunnelError::Closed.
OfferRefused(c) ==
    /\ caller[c] = "offering"
    /\ driver = "stopped"
    /\ caller' = [caller EXCEPT ![c] = "idle"]
    /\ UNCHANGED <<run, reader, writer, driver, channels, opens, pending, streams, peer, asked>>

\* Mutated: the receiver of the reply outlives the timeout.
StillAwaited(queue, c) == queue

\* The queue with the reply to c dropped.
Abandoned(queue, c) == [i \in DOMAIN queue |-> IF queue[i] = c THEN Nobody ELSE queue[i]]

\* OPEN_STREAM_TIMEOUT, or the browser that wanted the stream is gone.  The request stays queued.
GiveUp(c) ==
    /\ caller[c] = "waiting"
    /\ caller' = [caller EXCEPT ![c] = "idle"]
    /\ opens' = Abandoned(opens, c)
    /\ pending' = Abandoned(pending, c)
    /\ UNCHANGED <<run, reader, writer, driver, channels, streams, peer, asked>>

\* The caller is done with its stream, or finds that the tunnel under it is gone.
DropStream(c) ==
    /\ caller[c] = "holding"
    /\ caller' = [caller EXCEPT ![c] = "idle"]
    /\ streams' = streams \ {c}
    /\ UNCHANGED <<run, reader, writer, driver, channels, opens, pending, peer, asked>>

-----------------------------------------------------------------------------
(* drive_multiplexer().                                                    *)

\* Mutated: requests are only taken while none waits for a stream.
TakeRequestWhenIdle ==
    /\ driver # "stopped"
    /\ opens # <<>> /\ pending = <<>>
    /\ pending' = Append(pending, Head(opens))
    /\ opens' = Tail(opens)
    /\ UNCHANGED <<run, reader, writer, driver, channels, caller, streams, peer, asked>>

\* Every request is taken off the channel, whether or not a stream can be opened.
TakeRequest ==
    /\ driver # "stopped"
    /\ opens # <<>>
    /\ pending' = Append(pending, Head(opens))
    /\ opens' = Tail(opens)
    /\ UNCHANGED <<run, reader, writer, driver, channels, caller, streams, peer, asked>>

\* The stream the multiplexer keeps for the first request: one that nobody takes is dropped, which
\* resets it.
opened_stream(c) == {c} \ {Nobody}

\* poll_new_outbound() is ready with a stream for the first request.  The preface its caller writes
\* first fits the buffer every stream has.
OpenStream ==
    LET c == Head(pending) IN
    /\ driver # "stopped"
    /\ pending # <<>>
    /\ Cardinality(streams) < MAX_CONCURRENT_STREAMS
    /\ pending' = Tail(pending)
    /\ streams' = streams \cup opened_stream(c)
    /\ caller' = IF c = Nobody THEN caller ELSE [caller EXCEPT ![c] = "holding"]
    /\ UNCHANGED <<run, reader, writer, driver, channels, opens, peer, asked>>

\* The driver task ends: its ends of inbound, data and opens are dropped, every request it holds is
\* answered Closed, every stream breaks.
StopDriver ==
    /\ driver' = "stopped"
    /\ inbound' = 0
    /\ opens' = <<>> /\ pending' = <<>> /\ streams' = {}
    /\ caller' = [c \in Callers |-> IF caller[c] = "waiting" THEN "idle" ELSE caller[c]]

\* The multiplexer fails: an error of poll_new_outbound(), the stream limit among them, an error or
\* the end of poll_next_inbound(), or a write to a writer that is gone.
DriverEnds ==
    /\ driver = "running"
    /\ StopDriver
    /\ UNCHANGED <<run, reader, writer, data, outgoing, shutdown, peer, asked>>

\* The multiplexer reads a queued frame: answers to streams, or a stream of the peer, which is dropped.
DriverReads ==
    /\ driver # "stopped"
    /\ inbound > 0
    /\ inbound' = inbound - 1
    /\ UNCHANGED <<run, reader, writer, driver, data, outgoing, shutdown, requests, peer, asked>>

\* The multiplexer writes a frame.
DriverWrites ==
    /\ driver # "stopped" /\ writer # "stopped"
    /\ data < FRAME_QUEUE_CAPACITY
    /\ data' = data + 1
    /\ UNCHANGED <<run, reader, writer, driver, inbound, outgoing, shutdown, requests, peer, asked>>

-----------------------------------------------------------------------------
(* write_frames().                                                         *)

\* The branches of the select that send something and come back.
WriteData ==
    /\ writer = "selecting"
    /\ data > 0
    /\ data' = data - 1
    /\ writer' = "sending"
    /\ UNCHANGED <<run, reader, driver, inbound, outgoing, shutdown, requests, peer, asked>>

WritePing ==
    /\ writer = "selecting"
    /\ writer' = "sending"
    /\ UNCHANGED <<run, reader, driver, channels, requests, peer, asked>>

\* Mutated: a close is sent like any other frame and the loop goes on.
WriteCommandOn ==
    /\ writer = "selecting"
    /\ outgoing # <<>>
    /\ outgoing' = Tail(outgoing)
    /\ writer' = "sending"
    /\ UNCHANGED <<run, reader, driver, inbound, data, shutdown, requests, peer, asked>>

\* A control frame is sent; a close frame is sent and leaves the loop.
WriteCommand ==
    /\ writer = "selecting"
    /\ outgoing # <<>>
    /\ outgoing' = Tail(outgoing)
    /\ writer' = IF Head(outgoing) = "close" THEN "closing" ELSE "sending"
    /\ UNCHANGED <<run, reader, driver, inbound, data, shutdown, requests, peer, asked>>

\* data.recv() is None: the multiplexer is gone and what it had written is sent.
WriteEnds ==
    /\ writer = "selecting"
    /\ data = 0 /\ driver = "stopped"
    /\ writer' = "closing"
    /\ UNCHANGED <<run, reader, driver, channels, requests, peer, asked>>

\* sink.send().await returns: the peer has room, or the socket has failed.
Sent ==
    /\ writer = "sending"
    /\ peer # "stalled"
    /\ writer' = IF peer = "reads" THEN "selecting" ELSE "closing"
    /\ UNCHANGED <<run, reader, driver, channels, requests, peer, asked>>

\* sink.close().await returns, and the reader is told.
WriterStops ==
    /\ writer = "closing"
    /\ peer # "stalled"
    /\ writer' = "stopped"
    /\ shutdown' = TRUE
    /\ data' = 0 /\ outgoing' = <<>>
    /\ UNCHANGED <<run, reader, driver, inbound, requests, peer, asked>>

-----------------------------------------------------------------------------
(* read_frames() and what run() does after it.                             *)

\* A text frame: a ping is answered with a pong, the announcements are Registry's.
ReadText ==
    /\ reader = "reading" /\ peer # "gone"
    /\ \/ outgoing' = try_send(outgoing, "control")
       \/ UNCHANGED outgoing
    /\ UNCHANGED <<run, reader, writer, driver, inbound, data, shutdown, requests, peer, asked>>

\* A binary frame: the reader waits for room in inbound, and watches nothing else meanwhile.
ReadBinary ==
    /\ reader = "reading" /\ peer # "gone"
    /\ reader' = "queueing"
    /\ UNCHANGED <<run, writer, driver, channels, requests, peer, asked>>

QueueBinary ==
    /\ reader = "queueing"
    /\ driver # "stopped"
    /\ inbound < FRAME_QUEUE_CAPACITY
    /\ inbound' = inbound + 1
    /\ reader' = "reading"
    /\ UNCHANGED <<run, writer, driver, data, outgoing, shutdown, requests, peer, asked>>

\* The reader returns: shutdown, IDLE_TIMEOUT without a frame, a close or an error of the socket, or
\* a driver that is gone.
ReadShutdown ==
    /\ reader = "reading" /\ shutdown
    /\ reader' = "stopped"
    /\ UNCHANGED <<run, writer, driver, channels, requests, peer, asked>>

ReadIdle ==
    /\ reader = "reading"
    /\ reader' = "stopped"
    /\ UNCHANGED <<run, writer, driver, channels, requests, peer, asked>>

ReadClosed ==
    /\ reader = "reading" /\ peer = "gone"
    /\ reader' = "stopped"
    /\ UNCHANGED <<run, writer, driver, channels, requests, peer, asked>>

QueueRefused ==
    /\ reader = "queueing" /\ driver = "stopped"
    /\ reader' = "stopped"
    /\ UNCHANGED <<run, writer, driver, channels, requests, peer, asked>>

\* Mutated: the clean-up relies on the close command.
BeginTeardownPolitely ==
    /\ run = "serving" /\ reader = "stopped"
    /\ run' = "draining"
    /\ outgoing' = try_send(outgoing, "close")
    /\ UNCHANGED <<reader, writer, driver, inbound, data, shutdown, requests, peer, asked>>

\* run() after read_frames(): handle.close(), which may be dropped, and driver.abort().  A poll of the
\* driver that is under way finishes; what it does counts as done before.
BeginTeardown ==
    /\ run = "serving" /\ reader = "stopped"
    /\ run' = "draining"
    /\ outgoing' = try_send(outgoing, "close")
    /\ StopDriver
    /\ UNCHANGED <<reader, writer, data, shutdown, peer, asked>>

\* writer.await has returned: registry.disconnect(), record_device_disconnection() and the audit entry.
FinishTeardown ==
    /\ run = "draining" /\ writer = "stopped"
    /\ run' = "ended"
    /\ UNCHANGED <<reader, writer, driver, channels, requests, peer, asked>>

-----------------------------------------------------------------------------
(* The peer and the network under the socket.                              *)

PeerStalls ==
    /\ peer = "reads" /\ peer' = "stalled"
    /\ UNCHANGED <<run, reader, writer, driver, channels, requests, asked>>

\* A stalled socket becomes writable again, or fails.
PeerRecovers ==
    /\ peer = "stalled" /\ peer' \in {"reads", "gone"}
    /\ UNCHANGED <<run, reader, writer, driver, channels, requests, asked>>

PeerGoes ==
    /\ peer = "reads" /\ peer' = "gone"
    /\ UNCHANGED <<run, reader, writer, driver, channels, requests, asked>>

HandleSteps == Close \/ RevokeTunnel \/ SendFrame
CallerSteps(c) == BeginOpen(c) \/ Offer(c) \/ OfferRefused(c) \/ GiveUp(c) \/ DropStream(c)
DriverSteps == TakeRequest \/ OpenStream \/ DriverEnds \/ DriverReads \/ DriverWrites
WriterSteps == WriteData \/ WritePing \/ WriteCommand \/ WriteEnds \/ Sent \/ WriterStops
ReaderSteps ==
    ReadText \/ ReadBinary \/ QueueBinary \/ ReadShutdown \/ ReadIdle \/ ReadClosed \/ QueueRefused
RunSteps == BeginTeardown \/ FinishTeardown
PeerSteps == PeerStalls \/ PeerRecovers \/ PeerGoes

Next ==
    \/ HandleSteps \/ DriverSteps \/ WriterSteps \/ ReaderSteps \/ RunSteps \/ PeerSteps
    \/ \E c \in Callers : CallerSteps(c)

\* The tasks are scheduled, and so are the callers, whose timer runs.  tokio's select polls its
\* branches in random order and its channels queue those who wait, so a branch that is ready again
\* and again is taken: strong fairness for what competes with endless traffic.  Nothing makes the
\* multiplexer open a stream, or a frame or a request arrive.
Fairness ==
    /\ WF_vars(TakeRequest) /\ WF_vars(DriverReads)
    /\ SF_vars(WriteCommand) /\ SF_vars(WriteData \/ WriteEnds) /\ SF_vars(Sent \/ WriterStops)
    /\ SF_vars(ReadShutdown) /\ WF_vars(QueueBinary \/ QueueRefused \/ ReadClosed)
    /\ WF_vars(RunSteps)
    /\ \A c \in Callers : SF_vars(Offer(c) \/ OfferRefused(c) \/ GiveUp(c))

\* The kernel gives up on a peer that does not acknowledge; one that acknowledges and never reads
\* again is outside what the relay can end (see ReadIdle).
Network == WF_vars(PeerRecovers)

Spec == Init /\ [][Next]_vars /\ Fairness /\ Network

-----------------------------------------------------------------------------
(* Properties.                                                             *)

\* Every variable keeps its type and every queue its bound.
TypeOK ==
    /\ run \in {"serving", "draining", "ended"}
    /\ reader \in {"reading", "queueing", "stopped"}
    /\ writer \in {"selecting", "sending", "closing", "stopped"}
    /\ driver \in {"running", "stopped"}
    /\ inbound \in 0..FRAME_QUEUE_CAPACITY /\ data \in 0..FRAME_QUEUE_CAPACITY
    /\ outgoing \in Seq({"control", "close"}) /\ Len(outgoing) <= COMMAND_CAPACITY
    /\ shutdown \in BOOLEAN
    /\ opens \in Seq(Callers \cup {Nobody}) /\ Len(opens) <= COMMAND_CAPACITY
    /\ pending \in Seq(Callers \cup {Nobody})
    /\ caller \in [Callers -> {"idle", "offering", "waiting", "holding"}]
    /\ streams \subseteq Callers \cup {Nobody}
    /\ peer \in {"reads", "stalled", "gone"} /\ asked \in {"no", "queued"}

\* A request that timed out leaves nothing behind: the stream opened for it later is not held, and
\* every stream that counts towards MAX_CONCURRENT_STREAMS has a caller that reads it.
StreamsHaveCallers ==
    /\ Cardinality(streams) <= MAX_CONCURRENT_STREAMS
    /\ \A c \in streams : c \in Callers /\ caller[c] = "holding"

\* The caller whose reply was dropped is never answered by a request made before: a caller waits for
\* exactly one request in the queues.
OneRequestPerCaller ==
    \A c \in Callers :
        Cardinality({i \in 1..Len(opens) : opens[i] = c}) + Cardinality({i \in 1..Len(pending) : pending[i] = c})
            = IF caller[c] = "waiting" THEN 1 ELSE 0

\* open_stream() returns, with a stream, Closed or OpenTimeout, whatever the tunnel is doing: also
\* while it waits for room in the channel, which no timeout covers.
OpensAreAnswered ==
    \A c \in Callers : caller[c] \in {"offering", "waiting"} ~> caller[c] \notin {"offering", "waiting"}

\* Whichever task of the tunnel ends first, run() takes the device out of the routing table: also
\* when the close command is dropped and when the reader waits for room in inbound.
OneEndsAll ==
    (reader = "stopped" \/ writer = "stopped" \/ driver = "stopped") ~> run = "ended"

\* A close command that was queued ends the tunnel, behind whatever else is queued.
CloseEndsTunnel == asked = "queued" ~> run = "ended"

\* The queues keep their bounds, and requests and streams their callers, through every timeout.
RequestInv == TypeOK /\ StreamsHaveCallers /\ OneRequestPerCaller
=============================================================================
