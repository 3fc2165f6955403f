---------------------------- MODULE AgentClient ----------------------------
(* The agent's side of one server connection (pkg/agent/client.go):       *)
(* Client.Serve, the receive loop, and per DIAL_REQ an endpointConn with  *)
(* the goroutines that dial, read from the remote (remoteToSendChannel),  *)
(* send to the server (sendChannelToProxy) and write to the remote        *)
(* (dataChannelToRemote), their bounded channels, and the clean-up that   *)
(* ends them all.                                                         *)
(*                                                                        *)
(* Channels hold packets that are not told apart, so a channel is its     *)
(* length.  A send or a close on a closed channel that the code recovers  *)
(* from is a step; one that it does not recover from sets panicked.       *)
(* Send blocks while Window packets are unread by the server (gRPC flow   *)
(* control).  Waiting on a channel or on the sync.Once is a guard.        *)
EXTENDS Integers, Sequences, FiniteSets

CONSTANTS
  Conn,       \* the DIAL_REQs, each with the connection ID it is given
  Cap,        \* xfrChannelSize
  Window,     \* packets in flight to the server
  Loads       \* bounds: the loads to choose from

VARIABLES
  load,       \* conns that are dialed; drain, ends: whether drainCh is ever closed,
              \* and remotes end; packets, remote: bounds on DATA and CLOSE_REQ, and
              \* on the packets of a remote
  stream,     \* "up", "eof" (the server ended it) or "broken"
  stopped,    \* stopCh is closed: the ClientSet has dropped and closed this client
  in,         \* packets from the server
  inFlight,   \* packets sent and not yet read by the server
  drain,      \* sendDrainWhenRequested: idle, requested, over
  serve,      \* Serve: what it does, and for which connection
  exitList,   \* the connections Serve still has to clean up on exit
  ep,         \* per connection: the endpointConn and its goroutines
  packets,    \* per connection: how many packets the server has sent
  panicked

state == <<stream, stopped, in, inFlight, drain, serve, exitList, ep, packets,
           panicked>>
vars == <<load, state>>

Idle == [
  dial |-> "none",         \* none, dialing, answer, spawn, unsent, over
  dialDone |-> FALSE,
  conn |-> "none",         \* none, open, closed
  registered |-> FALSE,    \* in connManager
  dataCh |-> 0, dataClosed |-> FALSE,
  sendCh |-> 0, sendClosed |-> FALSE, sendDone |-> FALSE,
  reader |-> "off",        \* off, read, put, clean, gone
  sender |-> "off",        \* off, loop, send, drain, gone
  writer |-> "off",        \* off, loop, write, drain, gone
  cleaner |-> "off",       \* the goroutine after a failed DIAL_RSP: off, clean, gone
  clean |-> "idle",        \* cleanOnce: idle, dial, wait, send, data, rest, done
  by |-> "none",           \* who runs cleanFunc
  remote |-> "alive",      \* alive, eof, reset
  sent |-> 0, read |-> 0,  \* packets the remote sent, and the reader read
  wire |-> <<>> ]          \* packets sent to the server about it

Init ==
  /\ load \in Loads
  /\ stream = "up" /\ stopped = FALSE /\ in = <<>> /\ inFlight = 0
  /\ drain = "idle" /\ serve = [pc |-> "recv", conn |-> {}] /\ exitList = {}
  /\ ep = [c \in Conn |-> Idle] /\ packets = [c \in Conn |-> 0]
  /\ panicked = FALSE

-----------------------------------------------------------------------------
(* Client.Send, Client.Close and the connection manager *)

(* removeClient: the first caller closes the gRPC connection and stopCh. *)
Stop == stopped' = TRUE /\ stream' = "broken"

SendOk == stream = "up" /\ inFlight < Window /\ inFlight' = inFlight + 1
          /\ UNCHANGED <<stream, stopped>>

(* An error other than io.EOF removes the client. *)
SendFails == /\ stream # "up" /\ UNCHANGED inFlight
             /\ IF stream = "broken" THEN Stop ELSE UNCHANGED <<stream, stopped>>

Wire(c, type) == Append(ep[c].wire, type)
Packet(type, c) == [type |-> type, conn |-> c]
Registered == {c \in Conn : ep[c].registered}

ServeGoto(pc, c) == serve' = [pc |-> pc, conn |-> c]
ServeOnly == <<inFlight, drain, packets, panicked>>
EndpointOnly == <<in, drain, serve, exitList, packets>>
NoSend == UNCHANGED <<stream, stopped, inFlight>>

(* cleanup: the first caller makes cleanOnce run cleanFunc. *)
Enter(e, who) == IF e.clean = "idle" THEN [e EXCEPT !.clean = "dial", !.by = who]
                                     ELSE e

-----------------------------------------------------------------------------
(* Serve *)

(* stopCh is looked at before Recv; an error of Recv removes the client. *)
ServeEnds ==
  /\ serve.pc = "recv"
  /\ \/ stopped /\ UNCHANGED <<stream, stopped>>
     \/ (stream = "broken" \/ (stream = "eof" /\ in = <<>>)) /\ Stop
  /\ ServeGoto("exit", {}) /\ exitList' = Registered
  /\ UNCHANGED <<ServeOnly, in, ep>>

Recv(type) == /\ serve.pc = "recv" /\ ~stopped /\ in # <<>>
              /\ Head(in).type = type
              /\ in' = Tail(in) /\ UNCHANGED <<stream, stopped>>

(* DIAL_REQ: a goroutine dials. *)
ServeDialReq ==
  /\ Recv("DIAL_REQ")
  /\ ep' = [ep EXCEPT ![Head(in).conn].dial = "dialing"]
  /\ UNCHANGED <<ServeOnly, serve, exitList>>

(* DATA: to the endpoint's channel, or refused. *)
ServeData ==
  LET c == Head(in).conn
  IN  /\ Recv("DATA")
      /\ ServeGoto(IF ep[c].registered THEN "data" ELSE "refuse", {c})
      /\ UNCHANGED <<ServeOnly, exitList, ep>>

(* Mutant: the channel is not bounded. *)
sendViaUnbounded(c) ==
  /\ serve = [pc |-> "data", conn |-> {c}]
  /\ IF ep[c].dataClosed THEN UNCHANGED ep
     ELSE ep' = [ep EXCEPT ![c].dataCh = @ + 1]
  /\ ServeGoto("recv", {})
  /\ UNCHANGED <<ServeOnly, stream, stopped, in, exitList>>

(* sendViaDataChannel blocks while the channel is full, and recovers when *)
(* it has been closed.                                                    *)
sendViaDataChannel(c) ==
  /\ serve = [pc |-> "data", conn |-> {c}]
  /\ \/ ep[c].dataClosed /\ UNCHANGED ep
     \/ /\ ~ep[c].dataClosed /\ ep[c].dataCh < Cap
        /\ ep' = [ep EXCEPT ![c].dataCh = @ + 1]
  /\ ServeGoto("recv", {})
  /\ UNCHANGED <<ServeOnly, stream, stopped, in, exitList>>

(* CLOSE_REQ: the endpoint is cleaned up here, or refused. *)
ServeCloseReq ==
  LET c == Head(in).conn
  IN  /\ Recv("CLOSE_REQ")
      /\ IF ep[c].registered
         THEN ServeGoto("clean", {c}) /\ ep' = [ep EXCEPT ![c] = Enter(@, "serve")]
         ELSE ServeGoto("refuse", {c}) /\ UNCHANGED ep
      /\ UNCHANGED <<ServeOnly, exitList>>

(* Whatever comes of sending it, the loop goes on. *)
ServeRefuse(c) ==
  /\ serve = [pc |-> "refuse", conn |-> {c}]
  /\ \/ SendOk /\ ep' = [ep EXCEPT ![c].wire = Wire(c, "REFUSED")]
     \/ SendFails /\ UNCHANGED ep
  /\ ServeGoto("recv", {})
  /\ UNCHANGED <<in, drain, exitList, packets, panicked>>

ServeCleaned(c) ==
  /\ serve = [pc |-> "clean", conn |-> {c}] /\ ep[c].clean = "done"
  /\ ServeGoto("recv", {})
  /\ UNCHANGED <<ServeOnly, stream, stopped, in, exitList, ep>>

(* Mutant: leaves the endpoints to their own goroutines. *)
ServeExitAtOnce ==
  /\ serve.pc = "exit" /\ exitList' = {} /\ ServeGoto("gone", {})
  /\ UNCHANGED <<ServeOnly, stream, stopped, in, ep>>

(* The deferred functions: every listed endpoint, then removeClient. *)
ServeExit ==
  /\ serve.pc = "exit"
  /\ IF exitList = {} THEN ServeGoto("gone", {}) /\ UNCHANGED <<exitList, ep>>
     ELSE \E c \in exitList :
            /\ exitList' = exitList \ {c}
            /\ ep' = [ep EXCEPT ![c] = Enter(@, "serve")]
            /\ ServeGoto("exitClean", {c})
  /\ UNCHANGED <<ServeOnly, stream, stopped, in>>

ServeExitCleaned(c) ==
  /\ serve = [pc |-> "exitClean", conn |-> {c}] /\ ep[c].clean = "done"
  /\ ServeGoto("exit", {})
  /\ UNCHANGED <<ServeOnly, stream, stopped, in, exitList, ep>>

-----------------------------------------------------------------------------
(* The dial goroutine *)

(* net.DialTimeout succeeds: the connection is added before DIAL_RSP is   *)
(* sent.                                                                  *)
DialOk(c) ==
  /\ ep[c].dial = "dialing"
  /\ ep' = [ep EXCEPT ![c].dial = "answer", ![c].conn = "open", ![c].registered = TRUE]
  /\ NoSend /\ UNCHANGED <<EndpointOnly, panicked>>

(* ... or fails: DIAL_RSP with the error, and nothing to clean up. *)
DialFails(c) ==
  /\ ep[c].dial = "dialing"
  /\ \/ SendOk /\ ep' = [ep EXCEPT ![c].wire = Wire(c, "DIAL_ERR"), ![c].dial = "over",
                                   ![c].sendDone = TRUE, ![c].dialDone = TRUE]
     \/ SendFails /\ ep' = [ep EXCEPT ![c].dial = "over", ![c].sendDone = TRUE,
                                      ![c].dialDone = TRUE]
  /\ UNCHANGED <<EndpointOnly, panicked>>

DialAnswer(c) ==
  /\ ep[c].dial = "answer"
  /\ \/ SendOk /\ ep' = [ep EXCEPT ![c].wire = Wire(c, "DIAL_RSP"), ![c].dial = "spawn"]
     \/ SendFails /\ ep' = [ep EXCEPT ![c].dial = "unsent"]
  /\ UNCHANGED <<EndpointOnly, panicked>>

(* The goroutines of the endpoint start, and dialDone is closed. *)
DialSpawn(c) ==
  /\ ep[c].dial = "spawn"
  /\ ep' = [ep EXCEPT ![c].dial = "over", ![c].dialDone = TRUE, ![c].reader = "read",
                      ![c].sender = "loop", ![c].writer = "loop"]
  /\ NoSend /\ UNCHANGED <<EndpointOnly, panicked>>

(* Mutant: nobody cleans up what could not be announced. *)
DialUnsentKept(c) ==
  /\ ep[c].dial = "unsent"
  /\ ep' = [ep EXCEPT ![c].dial = "over", ![c].sendDone = TRUE, ![c].dialDone = TRUE]
  /\ NoSend /\ UNCHANGED <<EndpointOnly, panicked>>

(* DIAL_RSP could not be sent: nobody will close sendDone, and the        *)
(* clean-up runs in a goroutine of its own.                               *)
DialUnsent(c) ==
  /\ ep[c].dial = "unsent"
  /\ ep' = [ep EXCEPT ![c] = Enter([@ EXCEPT !.dial = "over", !.sendDone = TRUE,
                               !.dialDone = TRUE, !.cleaner = "clean"], "cleaner")]
  /\ NoSend /\ UNCHANGED <<EndpointOnly, panicked>>

-----------------------------------------------------------------------------
(* remoteToSendChannel *)

(* Read returns data, the end of the stream, or an error. *)
ReaderRead(c) ==
  LET e == ep[c]
      ends == \/ e.conn = "closed" \/ e.remote = "reset"
              \/ e.remote = "eof" /\ e.read = e.sent
  IN  /\ e.reader = "read"
      /\ \/ /\ e.conn = "open" /\ e.remote # "reset" /\ e.read < e.sent
            /\ ep' = [ep EXCEPT ![c].reader = "put", ![c].read = @ + 1]
         \/ /\ ends
            /\ ep' = [ep EXCEPT ![c] = Enter([@ EXCEPT !.reader = "clean"], "reader")]
      /\ NoSend /\ UNCHANGED <<EndpointOnly, panicked>>

(* Into sendCh; a closed one panics, which runs the deferred clean-up and *)
(* is recovered from; stopCh ends the loop.                               *)
ReaderPut(c) ==
  /\ ep[c].reader = "put"
  /\ \/ /\ ~ep[c].sendClosed /\ ep[c].sendCh < Cap
        /\ ep' = [ep EXCEPT ![c].sendCh = @ + 1, ![c].reader = "read"]
     \/ /\ ep[c].sendClosed \/ stopped
        /\ ep' = [ep EXCEPT ![c] = Enter([@ EXCEPT !.reader = "clean"], "reader")]
  /\ NoSend /\ UNCHANGED <<EndpointOnly, panicked>>

(* Whoever else called cleanup waits for the first. *)
CleanedReturn(c) ==
  /\ ep[c].clean = "done"
  /\ \/ ep[c].reader = "clean" /\ ep' = [ep EXCEPT ![c].reader = "gone"]
     \/ ep[c].cleaner = "clean" /\ ep' = [ep EXCEPT ![c].cleaner = "gone"]
  /\ NoSend /\ UNCHANGED <<EndpointOnly, panicked>>

-----------------------------------------------------------------------------
(* sendChannelToProxy: until sendCh is closed and empty, or a send fails  *)
(* and the rest is discarded; then sendDone is closed.                    *)

SenderTake(c) ==
  /\ ep[c].sender = "loop" /\ ep[c].sendCh > 0
  /\ ep' = [ep EXCEPT ![c].sender = "send", ![c].sendCh = @ - 1]
  /\ NoSend /\ UNCHANGED <<EndpointOnly, panicked>>

SenderSend(c) ==
  /\ ep[c].sender = "send"
  /\ \/ SendOk /\ ep' = [ep EXCEPT ![c].wire = Wire(c, "DATA"), ![c].sender = "loop"]
     \/ SendFails /\ ep' = [ep EXCEPT ![c].sender = "drain"]
  /\ UNCHANGED <<EndpointOnly, panicked>>

(* Mutant: stops as soon as the channel is closed, with data left in it. *)
SenderEndsEarly(c) ==
  /\ ep[c].sender \in {"loop", "drain"} /\ ep[c].sendClosed
  /\ ep' = [ep EXCEPT ![c].sender = "gone", ![c].sendDone = TRUE]
  /\ NoSend /\ UNCHANGED <<EndpointOnly, panicked>>

(* Mutant: after a failed send sendDone stays open. *)
SenderEndsQuietly(c) ==
  /\ ep[c].sender \in {"loop", "drain"} /\ ep[c].sendClosed
  /\ ep[c].sendCh = 0 \/ ep[c].sender = "drain"
  /\ ep' = [ep EXCEPT ![c].sender = "gone", ![c].sendCh = 0,
                      ![c].sendDone = (ep[c].sender = "loop")]
  /\ NoSend /\ UNCHANGED <<EndpointOnly, panicked>>

SenderEnds(c) ==
  /\ ep[c].sender \in {"loop", "drain"} /\ ep[c].sendClosed
  /\ ep[c].sendCh = 0 \/ ep[c].sender = "drain"
  /\ ep' = [ep EXCEPT ![c].sender = "gone", ![c].sendCh = 0, ![c].sendDone = TRUE]
  /\ panicked' = (panicked \/ ep[c].sendDone)
  /\ NoSend /\ UNCHANGED EndpointOnly

SenderDiscard(c) ==
  /\ ep[c].sender = "drain" /\ ep[c].sendCh > 0 /\ ~ep[c].sendClosed
  /\ ep' = [ep EXCEPT ![c].sendCh = 0]
  /\ NoSend /\ UNCHANGED <<EndpointOnly, panicked>>

-----------------------------------------------------------------------------
(* dataChannelToRemote *)

WriterTake(c) ==
  /\ ep[c].writer = "loop" /\ ep[c].dataCh > 0
  /\ ep' = [ep EXCEPT ![c].writer = "write", ![c].dataCh = @ - 1]
  /\ NoSend /\ UNCHANGED <<EndpointOnly, panicked>>

(* Write blocks for as long as the remote does not read; a short write is *)
(* continued and is part of the step.                                     *)
WriterWrite(c) ==
  LET e == ep[c]
  IN  /\ e.writer = "write"
      /\ \/ /\ e.conn = "open" /\ e.remote # "reset"
            /\ ep' = [ep EXCEPT ![c].writer = "loop"]
         \/ /\ e.conn = "closed" \/ e.remote = "reset"
            /\ ep' = [ep EXCEPT ![c].writer = "drain"]
      /\ NoSend /\ UNCHANGED <<EndpointOnly, panicked>>

WriterEnds(c) ==
  LET e == ep[c]
  IN  /\ e.writer \in {"loop", "drain"} /\ e.dataClosed
      /\ e.dataCh = 0 \/ e.writer = "drain"
      /\ ep' = [ep EXCEPT ![c].writer = "gone", ![c].dataCh = 0]
      /\ NoSend /\ UNCHANGED <<EndpointOnly, panicked>>

WriterDiscard(c) ==
  /\ ep[c].writer = "drain" /\ ep[c].dataCh > 0 /\ ~ep[c].dataClosed
  /\ ep' = [ep EXCEPT ![c].dataCh = 0]
  /\ NoSend /\ UNCHANGED <<EndpointOnly, panicked>>

-----------------------------------------------------------------------------
(* cleanFunc *)

CleanGoto(c, pc) == ep' = [ep EXCEPT ![c].clean = pc]

(* <-dialDone; close(sendCh) *)
CleanStart(c) ==
  /\ ep[c].clean = "dial" /\ ep[c].dialDone
  /\ ep' = [ep EXCEPT ![c].clean = "wait", ![c].sendClosed = TRUE]
  /\ panicked' = (panicked \/ ep[c].sendClosed)
  /\ NoSend /\ UNCHANGED EndpointOnly

(* Mutant: does not wait for what is queued. *)
CleanNoWait(c) ==
  /\ ep[c].clean = "wait"
  /\ CleanGoto(c, "send")
  /\ NoSend /\ UNCHANGED <<EndpointOnly, panicked>>

(* <-sendDone *)
CleanWait(c) ==
  /\ ep[c].clean = "wait" /\ ep[c].sendDone
  /\ CleanGoto(c, "send")
  /\ NoSend /\ UNCHANGED <<EndpointOnly, panicked>>

(* CLOSE_RSP, sent or not. *)
CleanSend(c) ==
  /\ ep[c].clean = "send"
  /\ \/ SendOk /\ ep' = [ep EXCEPT ![c].wire = Wire(c, "CLOSE_RSP"), ![c].clean = "data"]
     \/ SendFails /\ CleanGoto(c, "data")
  /\ UNCHANGED <<EndpointOnly, panicked>>

(* close(dataCh) *)
CleanData(c) ==
  /\ ep[c].clean = "data"
  /\ ep' = [ep EXCEPT ![c].clean = "rest", ![c].dataClosed = TRUE]
  /\ panicked' = (panicked \/ ep[c].dataClosed)
  /\ NoSend /\ UNCHANGED EndpointOnly

(* Mutant: the function may run again. *)
CleanRestAgain(c) ==
  /\ ep[c].clean = "rest"
  /\ ep' = [ep EXCEPT ![c].clean = "idle", ![c].registered = FALSE, ![c].conn = "closed"]
  /\ NoSend /\ UNCHANGED <<EndpointOnly, panicked>>

(* connManager.Delete; conn.Close *)
CleanRest(c) ==
  /\ ep[c].clean = "rest"
  /\ ep' = [ep EXCEPT ![c].clean = "done", ![c].registered = FALSE, ![c].conn = "closed"]
  /\ NoSend /\ UNCHANGED <<EndpointOnly, panicked>>

-----------------------------------------------------------------------------
(* sendDrainWhenRequested, probe *)

DrainRequested ==
  /\ load.drain /\ drain = "idle" /\ drain' = "requested"
  /\ UNCHANGED <<stream, stopped, in, inFlight, serve, exitList, ep, packets, panicked>>

SendDrain ==
  /\ drain = "requested" /\ drain' = "over"
  /\ (stopped /\ NoSend) \/ SendOk \/ SendFails
  /\ UNCHANGED <<in, serve, exitList, ep, packets, panicked>>

(* A connection that is no longer ready is given up. *)
Probe ==
  /\ ~stopped /\ stream = "broken" /\ Stop
  /\ UNCHANGED <<in, inFlight, drain, serve, exitList, ep, packets, panicked>>

-----------------------------------------------------------------------------
(* The server and the remotes *)

ServerReads ==
  /\ inFlight > 0 /\ inFlight' = inFlight - 1
  /\ UNCHANGED <<stream, stopped, in, drain, serve, exitList, ep, packets, panicked>>

(* DIAL_REQ, and DATA or CLOSE_REQ once the connection ID is known. *)
ServerSends(c) ==
  /\ stream = "up" /\ c \in load.conns
  /\ \/ /\ ep[c].dial = "none" /\ Packet("DIAL_REQ", c) \notin {in[i] : i \in DOMAIN in}
        /\ in' = Append(in, Packet("DIAL_REQ", c)) /\ UNCHANGED packets
     \/ /\ \E i \in DOMAIN ep[c].wire : ep[c].wire[i] = "DIAL_RSP"
        /\ packets[c] < load.packets /\ packets' = [packets EXCEPT ![c] = @ + 1]
        /\ \E type \in {"DATA", "CLOSE_REQ"} : in' = Append(in, Packet(type, c))
  /\ UNCHANGED <<stream, stopped, inFlight, drain, serve, exitList, ep, panicked>>

StreamEnds ==
  /\ stream = "up" /\ stream' \in {"eof", "broken"}
  /\ UNCHANGED <<stopped, in, inFlight, drain, serve, exitList, ep, packets, panicked>>

RemoteActs(c) ==
  /\ ep[c].conn = "open" /\ ep[c].remote = "alive"
  /\ \/ ep[c].sent < load.remote /\ ep' = [ep EXCEPT ![c].sent = @ + 1]
     \/ load.ends /\ \E how \in {"eof", "reset"} : ep' = [ep EXCEPT ![c].remote = how]
  /\ NoSend /\ UNCHANGED <<EndpointOnly, panicked>>

-----------------------------------------------------------------------------
Serve == \/ ServeEnds \/ ServeDialReq \/ ServeData \/ ServeCloseReq \/ ServeExit
         \/ \E c \in Conn : \/ sendViaDataChannel(c) \/ ServeRefuse(c)
                            \/ ServeCleaned(c) \/ ServeExitCleaned(c)
Dialer(c) == DialOk(c) \/ DialFails(c) \/ DialAnswer(c) \/ DialSpawn(c) \/ DialUnsent(c)
Reader(c) == ReaderRead(c) \/ ReaderPut(c) \/ CleanedReturn(c)
Sender(c) == SenderTake(c) \/ SenderSend(c) \/ SenderEnds(c) \/ SenderDiscard(c)
Writer(c) == WriterTake(c) \/ WriterWrite(c) \/ WriterEnds(c) \/ WriterDiscard(c)
Clean(c) == CleanStart(c) \/ CleanWait(c) \/ CleanSend(c) \/ CleanData(c) \/ CleanRest(c)

Next ==
  /\ UNCHANGED load
  /\ \/ Serve \/ DrainRequested \/ SendDrain \/ Probe \/ ServerReads \/ StreamEnds
     \/ \E c \in Conn : \/ Dialer(c) \/ Reader(c) \/ Sender(c) \/ Writer(c) \/ Clean(c)
                        \/ ServerSends(c) \/ RemoteActs(c)

Spec == Init /\ [][Next]_vars

(* Goroutines run on, a dial ends, the server reads, and a write to the    *)
(* remote ends.                                                            *)
Fairness ==
  /\ WF_state(Serve) /\ WF_state(Probe) /\ WF_state(ServerReads)
  /\ \A c \in Conn : /\ WF_state(Dialer(c)) /\ WF_state(Reader(c)) /\ WF_state(Sender(c))
                     /\ WF_state(Writer(c)) /\ WF_state(Clean(c))

FairSpec == Spec /\ Fairness

-----------------------------------------------------------------------------
(* Properties *)

(* Every variable has the type of what it models, and no channel holds    *)
(* more than its capacity.                                                *)
TypeOK ==
  /\ stream \in {"up", "eof", "broken"} /\ stopped \in BOOLEAN
  /\ inFlight \in 0..Window /\ drain \in {"idle", "requested", "over"}
  /\ serve.pc \in {"recv", "data", "clean", "refuse", "exit", "exitClean", "gone"}
  /\ exitList \subseteq Conn
  /\ \A c \in Conn : /\ ep[c].dataCh \in 0..Cap /\ ep[c].sendCh \in 0..Cap
                     /\ ep[c].conn \in {"none", "open", "closed"}
                     /\ ep[c].read \in 0..ep[c].sent

(* No channel is closed twice, although the receive loop, the reader and  *)
(* the goroutine of a failed answer all call cleanup.                     *)
NoDoubleClose == ~panicked

Count(c, type) == Cardinality({i \in DOMAIN ep[c].wire : ep[c].wire[i] = type})

(* What the server hears of a connection: its DIAL_RSP, then data, then   *)
(* at most one CLOSE_RSP of the clean-up, and after that only refusals of *)
(* late packets.                                                          *)
CloseRspIsLast == \A c \in Conn : \A i, j \in DOMAIN ep[c].wire :
  /\ ep[c].wire[i] = "DIAL_RSP" => i = 1
  /\ (i < j /\ ep[c].wire[i] = "CLOSE_RSP") => ep[c].wire[j] = "REFUSED"

(* When the remote ends the connection, everything it sent before is on   *)
(* the wire in front of CLOSE_RSP.                                        *)
EverythingReadIsSent == \A c \in Conn :
  (Count(c, "CLOSE_RSP") > 0 /\ ep[c].by = "reader" /\ ep[c].remote = "eof")
  => Count(c, "DATA") = ep[c].sent

Over(c) == /\ ep[c].dial \in {"none", "over"} /\ ep[c].conn # "open"
           /\ {ep[c].reader, ep[c].sender, ep[c].writer, ep[c].cleaner}
                \subseteq {"off", "gone"}

(* When the client exits, every connection to a remote is closed and no   *)
(* goroutine is left; dials that finish later included.  This is so when  *)
(* a write to a remote ends, which no deadline in the code makes it do.   *)
(* (stopped does not end, so []<> says here that it leads to this; so it  *)
(* does below for a clean-up.)                                            *)
EndpointsAreReleased ==
  []<>(stopped => serve.pc = "gone" /\ \A c \in Conn : Over(c))

(* A clean-up that has started is finished, in whatever state the dial,   *)
(* the sender and the stream are: the receive loop, which runs it on      *)
(* CLOSE_REQ, does not hang in it.                                        *)
CloseIsCarriedOut == \A c \in Conn :
  []<>(ep[c].clean \in {"idle", "done"})

(* When Serve has returned, a connection is open only if it was dialed    *)
(* too late for Serve to see it, and then its own goroutines, which       *)
(* cannot announce it any more, clean it up.                              *)
ExitLeavesNothing ==
  serve.pc = "gone" => \A c \in Conn : ep[c].conn = "open" =>
     ep[c].dial \in {"answer", "unsent"} \/ ep[c].cleaner = "clean"

=============================================================================
