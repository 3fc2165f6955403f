---------------------------- MODULE MCFrontends -----------------------------
(* The ways into the server other than the gRPC frontend of ProxyServer      *)
(* (pkg/server) in one run: part chooses, once, the behaviour of an          *)
(* in-process connection, an HTTP-CONNECT stream, or the forward proxy.  The *)
(* fairness of a part is a condition of its liveness properties, except for  *)
(* the connections: with no dial made, none of their fair actions is enabled.*)
EXTENDS ForwardProxy, Sequences

CONSTANTS
  Loads, c1, c2, Conn, MaxBuffered, Window, NoConn,
  QueueSizes, MaxSend, MaxRead

VARIABLES
  part,
  load, sc, pending, established, send, queued, queueSending, disp, stream,
  returned, in, toAgent, remote, dataSent, wire,
  queueSize, feSend, sending, nextData, phase, connectID, connected, writeCh,
  writer, writing, full, stopped, gauge, closer, closed, aborted, recv, reads,
  peer, toClient, accepted

conns == <<load, sc, pending, established, send, queued, queueSending, disp, stream,
           returned, in, toAgent, remote, dataSent, wire>>
http == <<queueSize, feSend, sending, nextData, phase, connectID, connected, writeCh,
          writer, writing, full, stopped, gauge, closer, closed, aborted, recv, reads,
          peer, toClient, accepted>>

(* The loads of the in-process connections: one with more data than its      *)
(* buffer holds, one with data both ways, both on an agent stream that may   *)
(* end, and two dials of which the agent answers only one.                   *)
ConnLoads ==
  LET One(d, w) == [conns |-> {c1}, answered |-> {c1}, breaks |-> {"eof", "broken"},
                    data |-> d, writes |-> w]
  IN  {One(2, 0), One(1, 1),
       [conns |-> {c1, c2}, answered |-> {c1}, breaks |-> {}, data |-> 0, writes |-> 0]}

Conns == INSTANCE ServerConn
Http == INSTANCE HttpConnectStream WITH send <- feSend

FrontendsInit ==
  /\ part \in {"conn", "http", "forward"} /\ Conns!Init /\ Http!Init /\ Init
  /\ part = "conn" \/ load.data = 0
  /\ part = "http" \/ queueSize = 0

FrontendsNext ==
  \/ part = "conn" /\ Conns!Next /\ UNCHANGED <<part, http, vars>>
  \/ part = "http" /\ Http!Next /\ UNCHANGED <<part, conns, vars>>
  \/ part = "forward" /\ Next /\ UNCHANGED <<part, conns, http>>

FrontendsSpec ==
  /\ FrontendsInit /\ [][FrontendsNext]_<<part, conns, http, vars>>
  /\ Conns!Fairness

(* All parts keep their types and bounds; packets in the queue of an agent   *)
(* (queueSend) have a goroutine that sends them; and the full-queue gauge    *)
(* counts an HTTP-CONNECT stream exactly while its queue is full.            *)
FrontendsAreSound ==
  /\ TypeOK /\ Conns!TypeOK /\ Http!TypeOK
  /\ Conns!QueuedHasSender /\ Http!GaugeIsExact

(* The bytes of an in-process connection are whole both ways: what the agent *)
(* gets is a prefix of what was written, also behind a Write whose deadline  *)
(* expired, and Read returns all data that came before the end it reports.   *)
ConnBytesAreWhole == Conns!WritesArriveInOrder /\ Conns!EndIsComplete

(* However Close, the dial timeout, DIAL_RSP and the end of the agent's      *)
(* stream interleave, a connection that the agent opened for the server is   *)
(* in use or on its way to be closed, and a closed one is in no table.       *)
ConnsAreAccountedFor == Conns!RemoteIsAccountedFor /\ Conns!ClosedIsForgotten

(* Behind an agent that does not read, the callers of dial, Write and Close  *)
(* are released; closing a connection releases the dispatcher that waits for *)
(* its reader; and a dial that was given up is closed at the agent.          *)
ConnsAreReleased ==
  /\ Conns!CallersAreReleased /\ Conns!DispatcherIsReleased
  /\ Conns!AbandonedIsClosed

(* The HTTP client gets one response, and after a 200 the tunnel's bytes in  *)
(* order, all of them if the agent closes; its own bytes are read only on a  *)
(* connection that has its ID.                                               *)
ResponseIsWhole ==
  /\ Http!ResponseThenBytes /\ Http!ReadsAreConnected /\ Http!OrderedCloseLosesNothing

(* An abort releases Send, the writer and Recv wherever they wait, and       *)
(* CLOSE_RSP, which queues behind the data, ends the stream; the pool of an  *)
(* agent that ended is discarded.                                            *)
HttpStreamsEnd ==
  /\ Http!Fairness => Http!AbortReleases /\ Http!CloseEndsStream
  /\ Fairness => DeadPoolsGo

=============================================================================
