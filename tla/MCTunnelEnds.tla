---------------------------- MODULE MCTunnelEnds ----------------------------
(* The two ends of a tunnel, the client library (konnectivity-client) and    *)
(* the agent, in one run: part chooses, once, the behaviour of a gRPC tunnel *)
(* (single-use, or the child of a reusable one), of a reusable tunnel that   *)
(* counts on its children, or of an agent's client.  In a part that rests no *)
(* call is in progress, and none of its fair actions is enabled.             *)
EXTENDS ReusableTunnel

CONSTANTS
  Caller, ReadCap, MaxData,
  c1, c2, Cap, Window

VARIABLES
  part,
  reusable, stream, in, ctxDone, tunnelClosing, servePC, servePkt, started,
  callPC, result, requested, pendingDial, cancelCh, canceller, registered,
  readCh, readClosed, closeCh, rdata, reading, connPC, awaiter, status, gauge,
  server, dataSent, accepted, readBytes, closeReqs, panicked,
  load, agentStream, stopped, agentIn, inFlight, drain, serve, exitList, ep,
  packets, agentPanicked

tunnel ==
  <<reusable, stream, in, ctxDone, tunnelClosing, servePC, servePkt, started,
    callPC, result, requested, pendingDial, cancelCh, canceller, registered,
    readCh, readClosed, closeCh, rdata, reading, connPC, awaiter, status, gauge,
    server, dataSent, accepted, readBytes, closeReqs, panicked>>
agent == <<load, agentStream, stopped, agentIn, inFlight, drain, serve, exitList, ep,
           packets, agentPanicked>>

Tunnel == INSTANCE GrpcTunnel
  WITH closing <- tunnelClosing, dialPC <- callPC, outcome <- result

(* The loads of an agent's client: a connection with data both ways, one     *)
(* whose agent drains, and two that are only opened and closed.              *)
Agent == INSTANCE AgentClient WITH
  Conn <- {c1, c2},
  Loads <- {
    [conns |-> {c1}, drain |-> FALSE, ends |-> TRUE, packets |-> 2, remote |-> 1],
    [conns |-> {c1}, drain |-> TRUE, ends |-> TRUE, packets |-> 0, remote |-> 2],
    [conns |-> {c1, c2}, drain |-> FALSE, ends |-> FALSE, packets |-> 0, remote |-> 0]},
  stream <- agentStream, in <- agentIn, panicked <- agentPanicked

EndsInit ==
  /\ part \in {"tunnel", "reusable", "agent"} /\ Init /\ Tunnel!Init /\ Agent!Init
  /\ part = "tunnel" \/ ~reusable
  /\ part = "agent" \/ load.drain

EndsNext ==
  \/ part = "tunnel" /\ Tunnel!Next /\ UNCHANGED <<part, vars, agent>>
  \/ part = "reusable" /\ Next /\ UNCHANGED <<part, tunnel, agent>>
  \/ part = "agent" /\ Agent!Next /\ UNCHANGED <<part, vars, tunnel>>

EndsSpec ==
  /\ EndsInit /\ [][EndsNext]_<<part, vars, tunnel, agent>>
  /\ Fairness /\ Tunnel!Fairness /\ Agent!Fairness

(* All parts keep their types and the capacities of their channels; no       *)
(* channel is closed twice, whoever of serve, closeAll, Close, CLOSE_RSP and *)
(* the agent's clean-up closes it; the gauge of connection states counts a   *)
(* tunnel once while it lasts and then not at all; and an agent's Serve      *)
(* leaves open only what was dialed too late for it to see.                  *)
EndsAreSound ==
  /\ TypeOK /\ Tunnel!TypeOK /\ Agent!TypeOK
  /\ Tunnel!NoDoubleClose /\ Agent!NoDoubleClose
  /\ Tunnel!GaugeTotalIsExact /\ Agent!ExitLeavesNothing

(* No byte is misplaced or lost unnoticed at either end: Read returns the    *)
(* bytes of the DATA packets in order, and a connection that lost some, as a *)
(* slow reader does, is not kept as if it were whole; the agent sends all    *)
(* that the remote sent before its end, and CLOSE_RSP behind it, as the last *)
(* that the server hears of the connection.                                  *)
BytesAreWhole ==
  /\ Tunnel!ReadsInOrder /\ Tunnel!NoSilentGap
  /\ Agent!CloseRspIsLast /\ Agent!EverythingReadIsSent

(* A tunnel comes to its end: DialContext returns, also when it gave up      *)
(* while serve was handing it the result; a dial that fails, or the closing  *)
(* of its connection, ends the tunnel; serve ends when the stream is cut,    *)
(* and releases the Read of a registered connection.                         *)
TunnelsEnd ==
  /\ Tunnel!DialReturns /\ Tunnel!FailedDialEndsTunnel /\ Tunnel!CloseReleasesTunnel
  /\ Tunnel!CutEndsServe /\ Tunnel!RegisteredReadReturns

(* Every call of a reusable tunnel returns, whatever is being set up when it *)
(* is made or given up: Close for all its callers, a dial when its request   *)
(* or the tunnel ends; and the child of a failed dial ends by itself.        *)
ReusableReturns == CloseReturns /\ DialReturns /\ FailedChildEnds

(* An agent's client that stops releases every connection and goroutine,     *)
(* also those dialed too late for Serve to see, and no clean-up hangs, as    *)
(* long as writes to the remotes end.                                        *)
EndpointsAreReleased == Agent!EndpointsAreReleased /\ Agent!CloseIsCarriedOut

=============================================================================
