----------------------------- MODULE ServerConn -----------------------------
(* Connections the proxy server dials for itself (pkg/server/conn.go,      *)
(* ProxyServer.DialContext) over one agent connection: the dialing caller, *)
(* the user of the net.Conn (Read, Write with a deadline, Close), the      *)
(* dispatcher of the agent's packets (serveRecvBackend) and the shared     *)
(* send path of the Backend (sendLock, queueSend).                         *)
(*                                                                         *)
(* A Backend send blocks while the agent has Window packets to read.  A    *)
(* DATA payload is its number in the stream, read in one piece.  Deadlines *)
(* pass, and callers cancel, at any time.                                  *)
EXTENDS Integers, Sequences, FiniteSets

CONSTANTS
  Conn,         \* dials, and the connection an agent makes for each
  MaxBuffered,  \* serverConn.maxBuffered
  Window,       \* packets the transport takes before Send blocks
  DialTimeout,  \* backendDialTimeout > 0
  Loads,        \* bounds: the loads to choose from
  NoConn

VARIABLES
  load,         \* conns that are dialed; those that are answered; breaks, how the
                \* agent stream may end: subset of {"eof", "broken"}; data, writes:
                \* bounds on the packets of the agent and of the user
  sc,           \* per dial: the serverConn, its dialer and its user
  pending, established,
  send,         \* per sending goroutine: its packet and how far SendContext is
  queued, queueSending,
  disp,         \* serveRecvBackend: what it does, and for which connection
  stream, returned,    \* the agent stream; connect has returned
  in, toAgent,  \* packets from and to the agent
  remote, dataSent, wire    \* what the agent holds, has sent and has been sent

table == <<pending, established>>
queue == <<queued, queueSending>>
agentSide == <<stream, returned, remote, dataSent>>
state == <<sc, table, send, queue, disp, in, toAgent, wire, agentSide>>
vars == <<load, state>>

Pkt(type, c) == [type |-> type, conn |-> c, n |-> 0]
Data(c, k) == [type |-> "DATA", conn |-> c, n |-> k]

DialSend(c) == <<"dial", c>>
WriteSend(c) == <<"write", c>>
QueueSend == <<"queue", NoConn>>
DispSend == <<"disp", NoConn>>
Sender == ({"dial", "write"} \X Conn) \cup {QueueSend, DispSend}

NoSend == [st |-> "idle", pkt |-> Pkt("none", NoConn)]
NewConn == [
  dial |-> "new",      \* new, sending, waiting, closing, open, failed
  connected |-> FALSE, \* connID # 0
  dialErr |-> FALSE,
  buffered |-> 0, closed |-> FALSE, localClosed |-> FALSE,
  closer |-> "no",     \* closeOnce: no, marked, done
  hook |-> FALSE,      \* closeWithBackend is registered
  read |-> 0, eof |-> FALSE,
  write |-> "idle",    \* writePacket: idle, busy
  writeErr |-> FALSE, wrote |-> 0 ]

Init ==
  /\ load \in Loads
  /\ sc = [c \in Conn |-> NewConn] /\ pending = {} /\ established = {}
  /\ send = [s \in Sender |-> NoSend] /\ queued = <<>> /\ queueSending = FALSE
  /\ disp = [pc |-> "recv", conn |-> NoConn]
  /\ stream = "open" /\ returned = FALSE /\ in = <<>> /\ toAgent = <<>>
  /\ remote = {} /\ dataSent = [c \in Conn |-> 0] /\ wire = [c \in Conn |-> <<>>]

-----------------------------------------------------------------------------
(* Backend: SendContext, queueSend *)

(* backend.Context() *)
CtxDone == stream = "broken" \/ returned

(* The context a send was started with.  The caller that gives up cancels  *)
(* it; Close cancels that of a Write.                                      *)
Cancelled(s) ==
  CASE s[1] = "dial"  -> CtxDone \/ sc[s[2]].dial # "sending"
    [] s[1] = "write" -> sc[s[2]].localClosed \/ sc[s[2]].write # "busy"
    [] OTHER          -> CtxDone

StartSend(s, p) == send' = [send EXCEPT ![s] = [st |-> "waiting", pkt |-> p]]
SendGoto(s, st) == send' = [send EXCEPT ![s].st = st]
SendOnly == <<sc, table, queue, disp, in, agentSide>>

(* lockSend, and the second look at the context. *)
lockSend(s) ==
  /\ send[s].st = "waiting"
  /\ \A t \in Sender : send[t].st # "sending"
  /\ SendGoto(s, IF Cancelled(s) THEN "failed" ELSE "sending")
  /\ UNCHANGED <<SendOnly, toAgent, wire>>

SendAborted(s) ==
  /\ send[s].st = "waiting" /\ Cancelled(s) /\ SendGoto(s, "failed")
  /\ UNCHANGED <<SendOnly, toAgent, wire>>

(* conn.Send, which only the end of the stream interrupts. *)
SendDone(s) ==
  LET p == send[s].pkt
  IN  /\ send[s].st = "sending"
      /\ \/ /\ ~CtxDone /\ Len(toAgent) < Window
            /\ toAgent' = Append(toAgent, p) /\ SendGoto(s, "sent")
            /\ wire' = IF p.type = "DATA"
                         THEN [wire EXCEPT ![p.conn] = Append(@, p.n)] ELSE wire
         \/ CtxDone /\ SendGoto(s, "failed") /\ UNCHANGED <<toAgent, wire>>
      /\ UNCHANGED SendOnly

Ended(s) == send[s].st \in {"sent", "failed"}

(* Appends to the queue, and starts its sender if it has none. *)
queueSend(p) == queued' = Append(queued, p) /\ queueSending' = TRUE

(* Mutant: the queue is found empty, and queueSending cleared later. *)
sendQueuedStale ==
  /\ queueSending /\ (send[QueueSend].st = "idle" \/ Ended(QueueSend))
  /\ \/ /\ queued # <<>> /\ queued' = Tail(queued)
        /\ StartSend(QueueSend, Head(queued)) /\ UNCHANGED queueSending
     \/ /\ Ended(QueueSend) /\ queueSending' = FALSE
        /\ send' = [send EXCEPT ![QueueSend] = NoSend] /\ UNCHANGED queued
  /\ UNCHANGED <<sc, table, disp, in, toAgent, wire, agentSide>>

(* One goroutine takes packets until the queue is empty. *)
sendQueued ==
  /\ queueSending /\ (send[QueueSend].st = "idle" \/ Ended(QueueSend))
  /\ \/ /\ queued # <<>> /\ queued' = Tail(queued)
        /\ StartSend(QueueSend, Head(queued)) /\ UNCHANGED queueSending
     \/ /\ queued = <<>> /\ queueSending' = FALSE
        /\ send' = [send EXCEPT ![QueueSend] = NoSend] /\ UNCHANGED queued
  /\ UNCHANGED <<sc, table, disp, in, toAgent, wire, agentSide>>

-----------------------------------------------------------------------------
(* dialBackend *)

DialOnly == <<established, disp, in, toAgent, wire, agentSide>>

dialBackend(c) ==
  /\ sc[c].dial = "new" /\ c \in load.conns
  /\ pending' = pending \cup {c} /\ sc' = [sc EXCEPT ![c].dial = "sending"]
  /\ StartSend(DialSend(c), Pkt("DIAL_REQ", c))
  /\ UNCHANGED <<DialOnly, queue>>

DialSent(c) ==
  /\ sc[c].dial = "sending" /\ send[DialSend(c)].st = "sent"
  /\ sc' = [sc EXCEPT ![c].dial = "waiting"]
  /\ UNCHANGED <<DialOnly, pending, send, queue>>

(* failDial: the agent is told only by the one who removes the dial. *)
failDial(c, tellAgent) ==
  /\ pending' = pending \ {c}
  /\ IF tellAgent /\ c \in pending THEN queueSend(Pkt("DIAL_CLS", c))
                                   ELSE UNCHANGED queue
  /\ sc' = [sc EXCEPT ![c].dial = "closing"]
  /\ UNCHANGED <<DialOnly, send>>

(* The send failed, or it has no result yet when its context ends. *)
DialSendFails(c) ==
  /\ sc[c].dial = "sending" /\ send[DialSend(c)].st # "sent"
  /\ send[DialSend(c)].st = "failed" \/ CtxDone
  /\ failDial(c, FALSE)

(* The caller's context, or backendDialTimeout. *)
DialGivesUp(c) ==
  \/ sc[c].dial = "sending" /\ send[DialSend(c)].st # "sent" /\ failDial(c, FALSE)
  \/ sc[c].dial = "waiting" /\ failDial(c, TRUE)

DialBackendGone(c) == sc[c].dial = "waiting" /\ CtxDone /\ failDial(c, FALSE)

DialRefused(c) ==
  /\ sc[c].dial = "waiting" /\ sc[c].dialErr
  /\ sc' = [sc EXCEPT ![c].dial = "closing"]
  /\ UNCHANGED <<DialOnly, pending, send, queue>>

DialConnected(c) ==
  /\ sc[c].dial = "waiting" /\ sc[c].connected
  /\ sc' = [sc EXCEPT ![c].dial = "open"]
  /\ UNCHANGED <<DialOnly, pending, send, queue>>

-----------------------------------------------------------------------------
(* serverConn *)

UserOnly == <<disp, in, toAgent, wire, agentSide>>

(* Close, called by the failed dial, by the user, or by closeWithBackend.  *)
CloseStart(c) ==
  /\ sc[c].closer = "no"
  /\ \/ sc[c].dial = "closing" \/ sc[c].dial = "open"
     \/ sc[c].hook /\ stream = "broken"
  /\ sc' = [sc EXCEPT ![c].closer = "marked", ![c].closed = TRUE,
                      ![c].localClosed = TRUE]
  /\ UNCHANGED <<UserOnly, table, send, queue>>

(* Mutant: the CLOSE_REQ is sent by Close itself, after the others. *)
CloseSync(c) ==
  /\ sc[c].closer = "marked"
  /\ \A s \in Sender : send[s].st # "sending"
  /\ sc' = [sc EXCEPT ![c].closer = "done"]
  /\ IF ~sc[c].connected
       THEN pending' = pending \ {c} /\ UNCHANGED <<established, queue>>
       ELSE /\ established' = established \ {c} /\ UNCHANGED pending
            /\ IF c \in established THEN queueSend(Pkt("CLOSE_REQ", c))
                                    ELSE UNCHANGED queue
  /\ UNCHANGED <<UserOnly, send>>

(* Mutant: a connection the dialer never saw is not closed on the agent. *)
CloseQuietly(c) ==
  /\ sc[c].closer = "marked" /\ sc' = [sc EXCEPT ![c].closer = "done"]
  /\ IF ~sc[c].connected
       THEN pending' = pending \ {c} /\ UNCHANGED <<established, queue>>
       ELSE /\ established' = established \ {c} /\ UNCHANGED pending
            /\ IF sc[c].dial = "open" THEN queueSend(Pkt("CLOSE_REQ", c))
                                      ELSE UNCHANGED queue
  /\ UNCHANGED <<UserOnly, send>>

(* The rest of it, outside mu: connID was read inside. *)
CloseFinish(c) ==
  /\ sc[c].closer = "marked" /\ sc' = [sc EXCEPT ![c].closer = "done"]
  /\ IF ~sc[c].connected
       THEN pending' = pending \ {c} /\ UNCHANGED <<established, queue>>
       ELSE /\ established' = established \ {c} /\ UNCHANGED pending
            /\ IF c \in established THEN queueSend(Pkt("CLOSE_REQ", c))
                                    ELSE UNCHANGED queue
  /\ UNCHANGED <<UserOnly, send>>

DialReturns(c) ==
  /\ sc[c].dial = "closing" /\ sc[c].closer = "done"
  /\ sc' = [sc EXCEPT ![c].dial = "failed"]
  /\ UNCHANGED <<UserOnly, table, send, queue>>

Read(c) ==
  /\ sc[c].dial = "open" /\ ~sc[c].localClosed
  /\ \/ /\ sc[c].buffered > 0
        /\ sc' = [sc EXCEPT ![c].buffered = @ - 1, ![c].read = @ + 1]
     \/ /\ sc[c].buffered = 0 /\ sc[c].closed /\ ~sc[c].eof
        /\ sc' = [sc EXCEPT ![c].eof = TRUE]
  /\ UNCHANGED <<UserOnly, table, send, queue>>

(* writePacket, in one goroutine, hands the packet to another. *)
WriteStart(c) ==
  /\ sc[c].dial = "open" /\ sc[c].write = "idle" /\ sc[c].wrote < load.writes
  /\ ~sc[c].closed /\ ~sc[c].writeErr
  /\ sc' = [sc EXCEPT ![c].write = "busy"]
  /\ StartSend(WriteSend(c), Data(c, sc[c].wrote + 1))
  /\ UNCHANGED <<UserOnly, table, queue>>

WriteEnds(c) ==
  /\ sc[c].write = "busy"
  /\ \/ /\ send[WriteSend(c)].st = "sent"
        /\ sc' = [sc EXCEPT ![c].write = "idle", ![c].wrote = @ + 1]
     \/ /\ send[WriteSend(c)].st = "failed" \/ sc[c].localClosed
        /\ sc' = [sc EXCEPT ![c].write = "idle"]
  /\ UNCHANGED <<UserOnly, table, send, queue>>

(* Mutant: a timeout fails only the Write it interrupts. *)
WriteTimeoutForgotten(c) ==
  /\ sc[c].write = "busy" /\ sc' = [sc EXCEPT ![c].write = "idle"]
  /\ UNCHANGED <<UserOnly, table, send, queue>>

(* The deadline passes: the send is left behind, and the error is kept. *)
WriteTimesOut(c) ==
  /\ sc[c].write = "busy"
  /\ sc' = [sc EXCEPT ![c].write = "idle", ![c].writeErr = TRUE]
  /\ UNCHANGED <<UserOnly, table, send, queue>>

-----------------------------------------------------------------------------
(* serveRecvBackend *)

DispOnly == <<queue, toAgent, wire, agentSide>>
DispGoto(pc, c) == disp' = [pc |-> pc, conn |-> c]

Dispatch(type) == /\ disp.pc = "recv" /\ in # <<>> /\ Head(in).type = type
                  /\ in' = Tail(in) /\ UNCHANGED DispOnly

(* sendBackendClose waits for the send. *)
sendBackendClose(c) ==
  DispGoto("send", c) /\ StartSend(DispSend, Pkt("CLOSE_REQ", c))

DispSent ==
  /\ disp.pc = "send" /\ Ended(DispSend) /\ DispGoto("recv", NoConn)
  /\ UNCHANGED <<DispOnly, sc, table, send, in>>

(* Mutant: a late DIAL_RSP is dropped. *)
DropLateDialRsp ==
  LET c == Head(in).conn
  IN  /\ Dispatch("DIAL_RSP") /\ pending' = pending \ {c}
      /\ IF c \in pending THEN DispGoto("establish", c) ELSE UNCHANGED disp
      /\ UNCHANGED <<sc, established, send>>

(* Claims the dial.  A connection nobody waits for is closed. *)
RecvDialRsp ==
  LET c == Head(in).conn
  IN  /\ Dispatch("DIAL_RSP") /\ pending' = pending \ {c}
      /\ IF c \in pending THEN DispGoto("establish", c) /\ UNCHANGED send
                          ELSE sendBackendClose(c)
      /\ UNCHANGED <<sc, established>>

(* A DIAL_RSP with an error, or a DIAL_CLS, goes to dialErrCh. *)
RecvDialFailure ==
  LET c == Head(in).conn
  IN  /\ Dispatch("DIAL_FAILED") /\ pending' = pending \ {c}
      /\ sc' = [sc EXCEPT ![c].dialErr = @ \/ c \in pending]
      /\ UNCHANGED <<established, send, disp>>

Establish(c) ==
  /\ disp = [pc |-> "establish", conn |-> c] /\ DispGoto("accept", c)
  /\ established' = established \cup {c} /\ sc' = [sc EXCEPT ![c].hook = TRUE]
  /\ UNCHANGED <<DispOnly, pending, send, in>>

(* Mutant: a connection closed meanwhile is accepted. *)
AcceptClosed(c) ==
  /\ disp = [pc |-> "accept", conn |-> c]
  /\ sc' = [sc EXCEPT ![c].connected = TRUE] /\ DispGoto("recv", NoConn)
  /\ UNCHANGED <<DispOnly, table, send, in>>

(* handleDialSuccess; when it refuses, the connection is closed. *)
handleDialSuccess(c) ==
  /\ disp = [pc |-> "accept", conn |-> c]
  /\ \/ /\ ~sc[c].closed /\ sc' = [sc EXCEPT ![c].connected = TRUE]
        /\ DispGoto("recv", NoConn) /\ UNCHANGED <<table, send>>
     \/ /\ sc[c].closed /\ established' = established \ {c}
        /\ sendBackendClose(c) /\ UNCHANGED <<sc, pending>>
  /\ UNCHANGED <<DispOnly, in>>

RecvData ==
  LET c == Head(in).conn
  IN  /\ Dispatch("DATA")
      /\ IF c \in established THEN DispGoto("data", c) /\ UNCHANGED send
                              ELSE sendBackendClose(c)
      /\ UNCHANGED <<sc, table>>

(* Mutant: a full buffer drops the packet. *)
DropData(c) ==
  /\ disp = [pc |-> "data", conn |-> c]
  /\ IF sc[c].closed \/ sc[c].buffered >= MaxBuffered THEN UNCHANGED sc
     ELSE sc' = [sc EXCEPT ![c].buffered = @ + 1]
  /\ DispGoto("recv", NoConn) /\ UNCHANGED <<DispOnly, table, send, in>>

(* Mutant: only space in the buffer ends the wait. *)
AwaitSpace(c) ==
  /\ disp = [pc |-> "data", conn |-> c] /\ sc[c].buffered < MaxBuffered
  /\ sc' = IF sc[c].closed THEN sc ELSE [sc EXCEPT ![c].buffered = @ + 1]
  /\ DispGoto("recv", NoConn) /\ UNCHANGED <<DispOnly, table, send, in>>

(* handleData waits for space in the buffer, or for the close. *)
handleData(c) ==
  /\ disp = [pc |-> "data", conn |-> c]
  /\ \/ sc[c].closed /\ UNCHANGED sc
     \/ /\ ~sc[c].closed /\ sc[c].buffered < MaxBuffered
        /\ sc' = [sc EXCEPT ![c].buffered = @ + 1]
  /\ DispGoto("recv", NoConn) /\ UNCHANGED <<DispOnly, table, send, in>>

handleClose(C) ==
  sc' = [c \in Conn |-> IF c \in C THEN [sc[c] EXCEPT !.closed = TRUE] ELSE sc[c]]

RecvCloseRsp ==
  LET c == Head(in).conn
  IN  /\ Dispatch("CLOSE_RSP") /\ established' = established \ {c}
      /\ handleClose({c} \cap established)
      /\ UNCHANGED <<pending, send, disp>>

(* recvCh is closed: pending dials fail, established connections end. *)
FailPending ==
  /\ disp.pc = "recv" /\ in = <<>> /\ stream # "open"
  /\ sc' = [c \in Conn |-> IF c \in pending THEN [sc[c] EXCEPT !.dialErr = TRUE]
                                             ELSE sc[c]]
  /\ pending' = {} /\ DispGoto("closeAll", NoConn)
  /\ UNCHANGED <<DispOnly, established, send, in>>

CloseEstablished ==
  /\ disp.pc = "closeAll" /\ handleClose(established) /\ established' = {}
  /\ DispGoto("over", NoConn)
  /\ UNCHANGED <<DispOnly, pending, send, in>>

-----------------------------------------------------------------------------
(* The agent and its stream *)

EnvOnly == <<sc, table, send, queue, disp, wire>>

AgentSays(type, c) ==
  in' = IF stream = "open" THEN Append(in, Pkt(type, c)) ELSE in

(* The agent takes a packet.  It ignores DIAL_CLS. *)
AgentReads ==
  LET c == Head(toAgent).conn
  IN  /\ toAgent # <<>> /\ ~CtxDone /\ toAgent' = Tail(toAgent)
      /\ CASE Head(toAgent).type = "DIAL_REQ" /\ c \in load.answered ->
               \/ AgentSays("DIAL_RSP", c) /\ remote' = remote \cup {c}
               \/ AgentSays("DIAL_FAILED", c) /\ UNCHANGED remote
           [] Head(toAgent).type = "CLOSE_REQ" ->
               AgentSays("CLOSE_RSP", c) /\ remote' = remote \ {c}
           [] OTHER -> UNCHANGED <<in, remote>>
      /\ UNCHANGED <<EnvOnly, stream, returned, dataSent>>

AgentData(c) ==
  /\ stream = "open" /\ c \in remote /\ dataSent[c] < load.data
  /\ dataSent' = [dataSent EXCEPT ![c] = @ + 1] /\ AgentSays("DATA", c)
  /\ UNCHANGED <<EnvOnly, toAgent, stream, returned, remote>>

AgentCloses(c) ==
  /\ stream = "open" /\ c \in remote /\ remote' = remote \ {c}
  /\ AgentSays("CLOSE_RSP", c)
  /\ UNCHANGED <<EnvOnly, toAgent, stream, returned, dataSent>>

(* A stream that breaks may lose any suffix of what it carries. *)
StreamEnds(how) ==
  /\ stream = "open" /\ stream' = how
  /\ \E n \in 0..Len(in) :
       (how = "eof" => n = Len(in)) /\ in' = SubSeq(in, 1, n)
  /\ UNCHANGED <<EnvOnly, toAgent, returned, remote, dataSent>>

(* The receive loop of connect saw the end, and connect returns. *)
ConnectReturns ==
  /\ stream # "open" /\ ~returned /\ returned' = TRUE
  /\ UNCHANGED <<EnvOnly, in, toAgent, stream, remote, dataSent>>

-----------------------------------------------------------------------------
Dialing(c) == dialBackend(c) \/ DialSent(c) \/ DialSendFails(c) \/ DialGivesUp(c)
              \/ DialBackendGone(c) \/ DialRefused(c) \/ DialConnected(c)
              \/ DialReturns(c)
Using(c) == CloseStart(c) \/ CloseFinish(c) \/ Read(c) \/ WriteStart(c)
            \/ WriteEnds(c) \/ WriteTimesOut(c)
Sending(s) == lockSend(s) \/ SendAborted(s) \/ SendDone(s)
Receiving == RecvDialRsp \/ RecvDialFailure \/ RecvData \/ RecvCloseRsp
             \/ DispSent \/ FailPending \/ CloseEstablished
             \/ \E c \in Conn : Establish(c) \/ handleDialSuccess(c) \/ handleData(c)
Agent == AgentReads \/ (\E c \in Conn : AgentData(c) \/ AgentCloses(c))

Next ==
  /\ UNCHANGED load
  /\ \/ \E c \in Conn : Dialing(c) \/ Using(c)
     \/ \E s \in Sender : Sending(s)
     \/ sendQueued \/ Receiving \/ Agent
     \/ (\E how \in load.breaks : StreamEnds(how)) \/ ConnectReturns

Spec == Init /\ [][Next]_vars

(* Goroutines run; with DialTimeout the timer fires.  Nothing makes the     *)
(* agent read.                                                             *)
Fairness ==
  /\ \A c \in Conn :
       /\ WF_state(DialSent(c) \/ DialSendFails(c) \/ DialBackendGone(c)
                  \/ DialRefused(c) \/ DialConnected(c) \/ DialReturns(c))
       /\ WF_state(DialTimeout /\ DialGivesUp(c))
       /\ WF_state(sc[c].dial = "closing" /\ CloseStart(c))
       /\ WF_state(sc[c].hook /\ stream = "broken" /\ CloseStart(c))
       /\ WF_state(CloseFinish(c)) /\ WF_state(WriteEnds(c))
  /\ \A s \in Sender : WF_state(Sending(s))
  /\ WF_state(sendQueued) /\ WF_state(Receiving) /\ WF_state(ConnectReturns)

FairSpec == Spec /\ Fairness

(* The agent reads, and so do the users of the connections. *)
AgentGoesOn == WF_state(AgentReads) /\ \A c \in Conn : WF_state(Read(c))

-----------------------------------------------------------------------------
(* Every variable has its type; the buffer and the transport keep their    *)
(* bounds, and SendContext lets one send into the stream at a time.        *)
TypeOK ==
  /\ \A c \in Conn :
       /\ sc[c].dial \in {"new", "sending", "waiting", "closing", "open", "failed"}
       /\ sc[c].closer \in {"no", "marked", "done"}
       /\ sc[c].buffered \in 0..MaxBuffered /\ sc[c].write \in {"idle", "busy"}
  /\ pending \subseteq Conn /\ established \subseteq Conn /\ remote \subseteq Conn
  /\ Len(toAgent) <= Window
  /\ Cardinality({s \in Sender : send[s].st = "sending"}) <= 1
  /\ disp.pc \in {"recv", "establish", "accept", "data", "send", "closeAll", "over"}

CloseOnItsWay(c) ==
  LET p == Pkt("CLOSE_REQ", c)
  IN  \/ \E i \in DOMAIN queued : queued[i] = p
      \/ \E i \in DOMAIN toAgent : toAgent[i] = p
      \/ \E s \in {QueueSend, DispSend} :
           send[s].pkt = p /\ send[s].st \in {"waiting", "sending"}

(* No connection leaks on the agent, whichever of DIAL_RSP, the giving up  *)
(* of the dialer and Close comes first: while the agent stream is up, a    *)
(* connection the agent holds is about to be announced, is being handled   *)
(* by the dispatcher, is established and not closed, or a CLOSE_REQ for it *)
(* is queued, being sent or sent.                                          *)
RemoteIsAccountedFor ==
  \A c \in remote : stream = "open" =>
    \/ \E i \in DOMAIN in : in[i] = Pkt("DIAL_RSP", c)
    \/ disp.conn = c /\ disp.pc \in {"establish", "accept"}
    \/ c \in established /\ sc[c].closer # "done"
    \/ CloseOnItsWay(c)

(* A packet accepted by queueSend is not stranded between the goroutine    *)
(* that finds the queue empty and the caller that finds it running.        *)
QueuedHasSender == queued # <<>> => queueSending

(* After Close has returned, the server's maps no longer know the          *)
(* connection, except while the dispatcher is about to find it closed.     *)
ClosedIsForgotten ==
  \A c \in Conn : sc[c].closer = "done" =>
    c \notin pending \cup established \/ disp.conn = c

(* The agent is sent the packets of a connection's Writes in order, with   *)
(* none missing in between and none twice, and each one Write reported as  *)
(* written, although a timed-out Write leaves its send behind.             *)
WritesArriveInOrder ==
  \A c \in Conn : /\ wire[c] = [i \in 1..Len(wire[c]) |-> i]
                  /\ sc[c].wrote <= Len(wire[c])

(* A Read that reports the end of the stream has returned everything the   *)
(* agent sent, unless the agent stream broke: a close by the agent does    *)
(* not overtake data, however small the buffer.                            *)
EndIsComplete ==
  \A c \in Conn : sc[c].eof /\ stream # "broken" => sc[c].read = dataSent[c]

(* A stalled agent, one that never reads again, holds no caller: with a    *)
(* dial timeout every dial returns, Close returns, and so does a Write     *)
(* that Close interrupts.  (A connection is dialed and closed once, so     *)
(* []<> says here that each call leads to its return; likewise below.)     *)
CallersAreReleased ==
  \A c \in Conn :
    /\ []<>(sc[c].dial \in {"new", "open", "failed"})
    /\ []<>(sc[c].closer # "no" => sc[c].closer = "done" /\ sc[c].write = "idle")

(* Close releases the dispatcher that waits in handleData for space in the *)
(* connection's buffer, so the other connections of the agent go on.       *)
DispatcherIsReleased ==
  \A c \in Conn : []<>~(disp = [pc |-> "data", conn |-> c] /\ sc[c].localClosed)

(* A connection that was closed, or whose dial was given up, is closed on  *)
(* the agent too, if the agent reads and its stream lasts.                 *)
AbandonedIsClosed ==
  AgentGoesOn =>
    \A c \in Conn : []<>~(sc[c].closer = "done" /\ c \in remote /\ stream = "open")

=============================================================================
