-------------------------- MODULE HttpConnectStream --------------------------
(* An HTTP-CONNECT frontend (pkg/server/tunnel.go): the hijacked client      *)
(* connection presented as a ProxyStream.  Send is called by the dispatcher  *)
(* (one call at a time, under Frontend.sendLock) and queues what follows the *)
(* 200 response for a writer goroutine (http_connect_frontend_writer.go);    *)
(* Recv is called by the frontend's receive loop; closeWithBackend aborts    *)
(* the stream at any time.                                                   *)
(*                                                                           *)
(* A DATA payload is its number.  The client may stop reading, or go away.   *)
EXTENDS Integers, Sequences

CONSTANTS
  QueueSizes, \* the values of frontendWriteChannelSize; 0 disables the queue
  MaxSend,    \* bound: DATA packets sent to the client
  MaxRead     \* bound: DATA packets read from it

VARIABLES
  queueSize,
  send,       \* Send: idle, hello, refuse, sync, try, put, metric, closing
  sending,    \* its packet: a DATA number, or CloseRsp
  nextData,
  phase,      \* of the connection: new, up (its dial is answered), over
  connectID, connected,
  writeCh, writer,     \* serveFrontendWrites: off, check, take, metric, write,
  writing,             \* ... end, done; and the packet it holds
  full, stopped, gauge,    \* frontendWriteQueueMetrics; the shared gauge
  closer, closed,      \* closeOnce: no, stopping, done; the closed channel
  aborted,    \* closeWithBackend has called Close
  recv, reads,
  peer,       \* the client: there, fin (sends no more), gone
  toClient,   \* what the client was sent
  accepted    \* DATA for which Send returned, or will return, nil

sendVars == <<send, sending, nextData, phase, accepted>>
writerVars == <<writer, writing>>
metricVars == <<full, stopped, gauge>>
closeVars == <<closer, closed, aborted>>
recvVars == <<recv, reads>>
conn == <<connectID, connected>>
state == <<sendVars, writerVars, writeCh, metricVars, closeVars, recvVars, conn,
           peer, toClient>>
vars == <<queueSize, state>>

CloseRsp == 0
HasQueue == queueSize > 0

Init ==
  /\ queueSize \in QueueSizes
  /\ send = "idle" /\ sending = CloseRsp /\ nextData = 1 /\ phase = "new"
  /\ connectID = 0 /\ connected = FALSE
  /\ writeCh = <<>> /\ writer = "off" /\ writing = CloseRsp
  /\ full = FALSE /\ stopped = FALSE /\ gauge = 0
  /\ closer = "no" /\ closed = FALSE /\ aborted = FALSE
  /\ recv = "dial" /\ reads = 0 /\ peer = "there"
  /\ toClient = <<>> /\ accepted = <<>>

-----------------------------------------------------------------------------
(* The socket and the full-queue gauge *)

(* conn.Write blocks while the client does not read, and fails once either *)
(* side has closed the connection.                                         *)
Writes(x) == ~closed /\ peer # "gone" /\ toClient' = Append(toClient, x)
WriteFails == (closed \/ peer = "gone") /\ UNCHANGED toClient

(* Mutant: an update after the stream was closed counts again. *)
UpdateStopped ==
  LET now == Len(writeCh) = queueSize
  IN  /\ full' = now /\ UNCHANGED stopped
      /\ gauge' = IF now = full THEN gauge ELSE IF now THEN gauge + 1 ELSE gauge - 1

(* Looks at the queue under the lock, not at what the caller saw. *)
updateFrontendWriteQueueMetric ==
  LET now == Len(writeCh) = queueSize
  IN  IF stopped \/ now = full THEN UNCHANGED metricVars
      ELSE /\ full' = now /\ UNCHANGED stopped
           /\ gauge' = IF now THEN gauge + 1 ELSE gauge - 1

stopFrontendWriteQueueMetric ==
  /\ stopped' = TRUE /\ full' = FALSE
  /\ gauge' = IF full /\ ~stopped THEN gauge - 1 ELSE gauge

-----------------------------------------------------------------------------
(* Send *)

SendGoto(pc) == send' = pc /\ UNCHANGED <<nextData, phase>>
SendOnly == <<metricVars, closeVars, recvVars, peer>>

(* DIAL_RSP: the connection ID is set before the response is written. *)
SendDialOk ==
  /\ send = "idle" /\ phase = "new" /\ phase' = "up" /\ connectID' = 1
  /\ send' = "hello"
  /\ UNCHANGED <<SendOnly, writerVars, writeCh, connected, sending, nextData,
                 accepted, toClient>>

(* Mutant: the writer and Recv do not wait for the response. *)
ConnectFirst ==
  /\ send = "hello"
  /\ connected' = TRUE
  /\ IF ~connected
       THEN SendGoto("hello") /\ UNCHANGED <<writerVars, toClient>>
       ELSE /\ Writes("200") /\ SendGoto("idle")
            /\ writer' = (IF HasQueue THEN "check" ELSE "off")
            /\ UNCHANGED writing
  /\ UNCHANGED <<SendOnly, writeCh, connectID, sending, accepted>>

SendHello ==
  /\ send = "hello"
  /\ \/ /\ Writes("200") /\ SendGoto("idle") /\ connected' = TRUE
        /\ writer' = (IF HasQueue THEN "check" ELSE "off")
        /\ UNCHANGED writing
     \/ WriteFails /\ SendGoto("closing") /\ UNCHANGED <<connected, writerVars>>
  /\ UNCHANGED <<SendOnly, writeCh, connectID, sending, accepted>>

(* A DIAL_RSP with an error, or DIAL_CLS. *)
SendDialFailure ==
  /\ send = "idle" /\ phase = "new" /\ phase' = "up"
  /\ send' \in {"refuse", "closing"}
  /\ UNCHANGED <<SendOnly, writerVars, writeCh, conn, sending, nextData,
                 accepted, toClient>>

SendRefuse ==
  /\ send = "refuse" /\ (Writes("error") \/ WriteFails) /\ SendGoto("closing")
  /\ UNCHANGED <<SendOnly, writerVars, writeCh, conn, sending, accepted>>

(* Mutant: DATA is written around the queue. *)
SendDataDirect ==
  /\ send = "idle" /\ phase = "up" /\ connected /\ nextData <= MaxSend
  /\ send' = (IF HasQueue /\ writeCh = <<>> THEN "try" ELSE "sync")
  /\ sending' = nextData /\ nextData' = nextData + 1
  /\ UNCHANGED <<SendOnly, writerVars, writeCh, conn, phase, accepted, toClient>>

SendData ==
  /\ send = "idle" /\ phase = "up" /\ connected /\ nextData <= MaxSend
  /\ send' = (IF HasQueue THEN "try" ELSE "sync")
  /\ sending' = nextData /\ nextData' = nextData + 1
  /\ UNCHANGED <<SendOnly, writerVars, writeCh, conn, phase, accepted, toClient>>

SendSync ==
  /\ send = "sync" /\ SendGoto("idle")
  /\ \/ Writes(sending) /\ accepted' = Append(accepted, sending)
     \/ WriteFails /\ UNCHANGED accepted
  /\ UNCHANGED <<SendOnly, writerVars, writeCh, conn, sending>>

(* Mutant: CLOSE_RSP closes the connection over the queue. *)
SendCloseAtOnce ==
  /\ send = "idle" /\ phase # "new" /\ phase' = "over" /\ sending' = CloseRsp
  /\ send' = "closing"
  /\ UNCHANGED <<SendOnly, writerVars, writeCh, conn, nextData, accepted, toClient>>

(* Mutant: CLOSE_RSP is queued although there is no queue. *)
SendCloseQueued ==
  /\ send = "idle" /\ phase # "new" /\ phase' = "over" /\ sending' = CloseRsp
  /\ send' = (IF connected THEN "try" ELSE "closing")
  /\ UNCHANGED <<SendOnly, writerVars, writeCh, conn, nextData, accepted, toClient>>

(* CLOSE_RSP: behind the data, if there is a writer.  The connection has   *)
(* left established, so no DATA follows; another CLOSE_RSP may.            *)
SendClose ==
  /\ send = "idle" /\ phase # "new" /\ phase' = "over" /\ sending' = CloseRsp
  /\ send' = (IF HasQueue /\ connected THEN "try" ELSE "closing")
  /\ UNCHANGED <<SendOnly, writerVars, writeCh, conn, nextData, accepted, toClient>>

EnqueueCheck ==
  /\ send = "try" /\ SendGoto(IF closed THEN "idle" ELSE "put")
  /\ UNCHANGED <<SendOnly, writerVars, writeCh, conn, sending, accepted, toClient>>

(* Mutant: the blocked Send waits for the queue alone. *)
EnqueueBlind ==
  /\ send = "put" /\ Len(writeCh) < queueSize
  /\ writeCh' = Append(writeCh, sending) /\ SendGoto("metric")
  /\ accepted' = IF sending = CloseRsp THEN accepted ELSE Append(accepted, sending)
  /\ UNCHANGED <<SendOnly, writerVars, conn, sending, toClient>>

(* Mutant: the capacity is off by one. *)
EnqueueOver ==
  /\ send = "put" /\ Len(writeCh) <= queueSize
  /\ writeCh' = Append(writeCh, sending) /\ SendGoto("metric")
  /\ accepted' = IF sending = CloseRsp THEN accepted ELSE Append(accepted, sending)
  /\ UNCHANGED <<SendOnly, writerVars, conn, sending, toClient>>

(* enqueueWrite waits for space in the queue or for the close; when both   *)
(* are there, select takes either.                                         *)
Enqueue ==
  /\ send = "put"
  /\ \/ /\ Len(writeCh) < queueSize
        /\ writeCh' = Append(writeCh, sending) /\ SendGoto("metric")
        /\ accepted' = IF sending = CloseRsp THEN accepted
                                             ELSE Append(accepted, sending)
     \/ closed /\ SendGoto("idle") /\ UNCHANGED <<writeCh, accepted>>
  /\ UNCHANGED <<SendOnly, writerVars, conn, sending, toClient>>

EnqueueMetric ==
  /\ send = "metric" /\ SendGoto("idle") /\ updateFrontendWriteQueueMetric
  /\ UNCHANGED <<closeVars, recvVars, peer, writerVars, writeCh, conn, sending,
                 accepted, toClient>>

SendClosed ==
  /\ send = "closing" /\ closer = "done" /\ SendGoto("idle")
  /\ UNCHANGED <<SendOnly, writerVars, writeCh, conn, sending, accepted, toClient>>

-----------------------------------------------------------------------------
(* serveFrontendWrites *)

WriterOnly == <<sendVars, closeVars, recvVars, conn, peer>>

WriterCheck ==
  /\ writer = "check" /\ writer' = (IF closed THEN "end" ELSE "take")
  /\ UNCHANGED <<WriterOnly, writing, writeCh, metricVars, toClient>>

WriterTake ==
  /\ writer = "take"
  /\ \/ /\ writeCh # <<>> /\ writeCh' = Tail(writeCh)
        /\ writing' = Head(writeCh) /\ writer' = "metric"
     \/ closed /\ writer' = "end" /\ UNCHANGED <<writeCh, writing>>
  /\ UNCHANGED <<WriterOnly, metricVars, toClient>>

WriterMetric ==
  /\ writer = "metric" /\ updateFrontendWriteQueueMetric
  /\ writer' = (IF writing = CloseRsp THEN "end" ELSE "write")
  /\ UNCHANGED <<WriterOnly, writing, writeCh, toClient>>

WriterWrite ==
  /\ writer = "write"
  /\ \/ Writes(writing) /\ writer' = "check"
     \/ WriteFails /\ writer' = "end"
  /\ UNCHANGED <<WriterOnly, writing, writeCh, metricVars>>

WriterDone ==
  /\ writer = "end" /\ closer = "done" /\ writer' = "done"
  /\ UNCHANGED <<WriterOnly, writing, writeCh, metricVars, toClient>>

-----------------------------------------------------------------------------
(* close *)

CloseOnly == <<sendVars, writerVars, writeCh, recvVars, conn, peer, toClient>>

(* Close, called by closeWithBackend. *)
Abort == /\ ~aborted /\ phase # "new" /\ aborted' = TRUE
         /\ UNCHANGED <<CloseOnly, metricVars, closer, closed>>

(* The first of Send, the writer, the abort and release runs closeOnce. *)
CloseStop ==
  /\ closer = "no"
  /\ send = "closing" \/ writer = "end" \/ aborted \/ recv = "over"
  /\ stopFrontendWriteQueueMetric /\ closer' = "stopping"
  /\ UNCHANGED <<CloseOnly, closed, aborted>>

CloseDone ==
  /\ closer = "stopping" /\ closer' = "done" /\ closed' = TRUE
  /\ UNCHANGED <<CloseOnly, metricVars, aborted>>

-----------------------------------------------------------------------------
(* Recv *)

RecvOnly == <<sendVars, writerVars, writeCh, metricVars, closeVars, conn, peer,
              toClient>>

(* The CONNECT request is the DIAL_REQ; then wait for its outcome. *)
RecvDial == recv = "dial" /\ recv' = "wait" /\ UNCHANGED <<RecvOnly, reads>>

RecvWait ==
  /\ recv = "wait"
  /\ \/ connected /\ recv' = "read"
     \/ closed /\ recv' = "over"
  /\ UNCHANGED <<RecvOnly, reads>>

RecvData ==
  /\ recv = "read" /\ peer = "there" /\ ~closed /\ reads < MaxRead
  /\ reads' = reads + 1 /\ UNCHANGED <<RecvOnly, recv>>

(* The read fails; proxy returns, and ServeHTTP releases the stream. *)
RecvEnds ==
  /\ recv = "read" /\ (closed \/ peer # "there") /\ recv' = "over"
  /\ UNCHANGED <<RecvOnly, reads>>

(* The client stops sending, or goes away. *)
PeerEnds ==
  /\ \/ peer = "there" /\ peer' \in {"fin", "gone"}
     \/ peer = "fin" /\ peer' = "gone"
  /\ UNCHANGED <<sendVars, writerVars, writeCh, metricVars, closeVars, recvVars,
                 conn, toClient>>

-----------------------------------------------------------------------------
Sending == SendHello \/ SendRefuse \/ SendSync \/ EnqueueCheck \/ Enqueue
           \/ EnqueueMetric \/ SendClosed
Writer == WriterCheck \/ WriterTake \/ WriterMetric \/ WriterWrite \/ WriterDone
Receiving == RecvDial \/ RecvWait \/ RecvData \/ RecvEnds

Next ==
  /\ UNCHANGED queueSize
  /\ \/ SendDialOk \/ SendDialFailure \/ SendData \/ SendClose
     \/ Sending \/ Writer \/ Receiving
     \/ Abort \/ CloseStop \/ CloseDone \/ PeerEnds

Spec == Init /\ [][Next]_vars

(* Goroutines run, but nothing makes the client read: a write completes    *)
(* only by failing.                                                        *)
Fairness ==
  /\ WF_state((WriteFails /\ (SendHello \/ SendRefuse \/ SendSync))
              \/ EnqueueCheck \/ Enqueue \/ EnqueueMetric \/ SendClosed)
  /\ WF_state(WriterCheck \/ WriterTake \/ WriterMetric
              \/ (WriteFails /\ WriterWrite) \/ WriterDone)
  /\ WF_state(CloseStop) /\ WF_state(CloseDone)
  /\ WF_state(RecvDial \/ RecvWait \/ RecvEnds)

FairSpec == Spec /\ Fairness

(* A client that reads, or goes away. *)
ClientReads == WF_state(Sending) /\ WF_state(Writer)

-----------------------------------------------------------------------------
(* Every variable has its type, and the queue keeps its capacity. *)
TypeOK ==
  /\ send \in {"idle", "hello", "refuse", "sync", "try", "put", "metric", "closing"}
  /\ writer \in {"off", "check", "take", "metric", "write", "end", "done"}
  /\ recv \in {"dial", "wait", "read", "over"} /\ closer \in {"no", "stopping", "done"}
  /\ Len(writeCh) <= queueSize /\ gauge \in Int /\ connectID \in {0, 1}

Count(n) == [i \in 1..n |-> i]

(* The client is sent one HTTP response, and tunnel bytes only after a     *)
(* 200, in the order the agent sent them and with none missing, whatever   *)
(* the queue, the synchronous path and the close do.                       *)
ResponseThenBytes ==
  \/ toClient \in {<<>>, <<"error">>}
  \/ toClient[1] = "200" /\ Tail(toClient) = Count(Len(toClient) - 1)

(* A tunnel byte read from the client carries the connection ID: Recv      *)
(* reads only after DIAL_RSP assigned it and the 200 was written.          *)
ReadsAreConnected == recv = "read" => connectID # 0 /\ toClient # <<>>

(* A close that the agent asked for loses nothing: unless the stream was   *)
(* aborted or the client went away, a closed tunnel has been sent all the  *)
(* DATA that Send accepted, although the queue still held it when the      *)
(* CLOSE_RSP came.                                                         *)
OrderedCloseLosesNothing ==
  closed /\ connected /\ ~aborted /\ peer = "there"
    => toClient = <<"200">> \o accepted

(* The full-queue gauge counts this stream once while its queue is full    *)
(* and not at all after it was closed, whatever the order of the updates   *)
(* by Send, by the writer and by the close.                                *)
GaugeIsExact ==
  /\ gauge = IF full THEN 1 ELSE 0
  /\ stopped => ~full
  /\ HasQueue /\ ~stopped /\ "metric" \notin {send, writer}
       => full = (Len(writeCh) = queueSize)

(* An abort releases everyone: the Send that waits for queue space, the    *)
(* writer blocked on a client that does not read, and Recv.  (An abort is  *)
(* for good, so []<> says here that it leads to this; so is the end of the *)
(* connection below.)                                                      *)
AbortReleases ==
  []<>(aborted => send = "idle" /\ writer \in {"off", "done"} /\ recv = "over")

(* With a client that reads or goes away, the connection is closed after   *)
(* CLOSE_RSP and the goroutines of the stream end.                         *)
CloseEndsStream ==
  ClientReads =>
    []<>(phase = "over" => closed /\ writer \in {"off", "done"} /\ recv = "over")

=============================================================================
