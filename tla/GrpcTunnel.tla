----------------------------- MODULE GrpcTunnel -----------------------------
(* The single-stream tunnel of the konnectivity client                    *)
(* (konnectivity-client/pkg/client: grpcTunnel in client.go, conn in      *)
(* conn.go): the serve goroutine that takes packets off the Proxy stream, *)
(* the one DialContext call a tunnel serves, the net.Conn it returns, the *)
(* goroutine that awaits CLOSE_RSP, and the client_connections gauge.     *)
(*                                                                        *)
(* A channel hand-over is one step of both sides.  Every select is a      *)
(* choice among the cases that are ready.  The proxy server is the        *)
(* environment: per dial it sends one DIAL_RSP or DIAL_CLS, and then DATA *)
(* and one CLOSE_RSP for the connection; the stream may end or break at   *)
(* any time.  A DATA packet carries two bytes, so that a Read may take    *)
(* one of them and keep the other in rdata.                               *)
EXTENDS Integers, Sequences, SequencesExt, Functions

CONSTANTS
  Caller,        \* the calls of DialContext on this tunnel
  ReadCap,       \* capacity of conn.readCh
  MaxData        \* bound: DATA packets the server sends

VARIABLES
  reusable,    \* grpcConn.Close is the streamCancel of a reusable tunnel
  stream,      \* "open", "eof" (the server ended it) or "broken"
  in,          \* packets on their way to Recv
  ctxDone,     \* tunnelCtx is done
  closing,     \* t.closing
  servePC,     \* serve: recv, result, deliver; deferred: close, closeAll, metric, signal, done
  servePkt,    \* the packet serve works on
  started,     \* t.started
  dialPC,      \* per caller
  outcome,     \* what DialContext returned: none, conn or error
  requested,   \* the dial got as far as sending DIAL_REQ
  pendingDial, \* the dial is in t.pendingDial
  cancelCh,    \* closed: nobody receives from resCh
  canceller,   \* sendDialClose and closeTunnel: off, run, done
  registered,  \* the connection is in t.conns
  readCh, readClosed, closeCh,   \* channels of the conn (closeCh: empty, message)
  rdata,       \* bytes left over by the last Read
  reading,     \* a Read call waits on readCh
  connPC,      \* conn.Close: open, closing, closed
  awaiter,     \* awaitCloseResponse: off, wait, done
  status, gauge,                 \* prevStatus, client_connections
  server, dataSent,              \* the proxy server's side
  accepted, readBytes,           \* history: bytes put into readCh, bytes read
  closeReqs,                     \* history: CLOSE_REQs sent
  panicked                       \* a channel was closed twice

streamVars == <<stream, in, ctxDone>>
serveVars == <<servePC, servePkt>>
dialVars == <<started, dialPC, outcome, requested, pendingDial, cancelCh, canceller>>
chanVars == <<readCh, readClosed, closeCh>>
userVars == <<rdata, reading, readBytes>>
metricVars == <<status, gauge>>
serverVars == <<server, dataSent>>
state == <<streamVars, closing, serveVars, dialVars, registered, chanVars,
           userVars, connPC, awaiter, metricVars, serverVars, accepted,
           closeReqs, panicked>>
vars == <<reusable, state>>

(* What serve leaves alone, what the user of the connection leaves alone. *)
byServe == <<closing, dialVars, userVars, connPC, awaiter, serverVars>>
byUser == <<serveVars, dialVars, registered, metricVars, serverVars, accepted,
            panicked>>

Status == {"created", "dialing", "ok"}
Pkt(type, n) == [type |-> type, n |-> n]
NoPkt == Pkt("none", 0)
Prefix(s, n) == SubSeq(s, 1, n)
Bytes(n) == <<<<n, 1>>, <<n, 2>>>>
done == servePC = "done"

(* newUnstartedTunnel, for either kind of tunnel, and serve just started. *)
Init ==
  /\ reusable \in BOOLEAN
  /\ stream = "open" /\ in = <<>> /\ ctxDone = FALSE /\ closing = FALSE
  /\ servePC = "recv" /\ servePkt = NoPkt
  /\ started = FALSE /\ dialPC = [c \in Caller |-> "idle"]
  /\ outcome = [c \in Caller |-> "none"]
  /\ requested = FALSE /\ pendingDial = FALSE /\ cancelCh = FALSE
  /\ canceller = "off" /\ registered = FALSE
  /\ readCh = <<>> /\ readClosed = FALSE /\ closeCh = "empty"
  /\ rdata = <<>> /\ reading = FALSE /\ readBytes = <<>>
  /\ connPC = "open" /\ awaiter = "off"
  /\ status = "created"
  /\ gauge = [s \in Status |-> IF s = "created" THEN 1 ELSE 0]
  /\ server = "idle" /\ dataSent = 0
  /\ accepted = <<>> /\ closeReqs = 0 /\ panicked = FALSE

-----------------------------------------------------------------------------
(* Send fails once the stream has ended. *)
SendOK == stream = "open"

(* grpcConn.Close: the stream fails, with any of the packets on their way *)
(* lost; for a child of a reusable tunnel it also cancels tunnelCtx.      *)
CloseGrpcConn ==
  /\ stream' = "broken"
  /\ \E n \in 0..Len(in) : in' = Prefix(in, n)
  /\ ctxDone' = (ctxDone \/ reusable)

closeTunnel == closing' = TRUE /\ CloseGrpcConn

(* pendingDialManager and connectionManager, for the one dial of a tunnel. *)
PendingAdd == pendingDial' = TRUE
PendingRemove == pendingDial' = FALSE
ConnsAdd == registered' = TRUE
ConnsRemove == registered' = FALSE

(* Mutant: the old status keeps the tunnel. *)
SwapStatusKept(new) ==
  /\ status' = new /\ gauge' = [gauge EXCEPT ![new] = @ + 1]

(* updateMetric, after its look at Done. *)
SwapStatus(new) ==
  /\ status' = new
  /\ gauge' = [gauge EXCEPT ![status] = @ - 1, ![new] = @ + 1]

CloseReadCh == readClosed' = TRUE /\ panicked' = (panicked \/ readClosed)

-----------------------------------------------------------------------------
(* serve *)

(* Recv returns io.EOF or an error. *)
RecvFails ==
  /\ servePC = "recv"
  /\ stream = "broken" \/ (stream = "eof" /\ in = <<>>)
  /\ servePC' = "close"
  /\ UNCHANGED <<byServe, streamVars, servePkt, registered,
                 chanVars, metricVars, accepted, closeReqs, panicked>>

Take(type) == servePC = "recv" /\ in # <<>> /\ Head(in).type = type
Pop == in' = Tail(in) /\ UNCHANGED <<stream, ctxDone>>

(* A packet received once the tunnel is closing ends the loop. *)
RecvWhileClosing ==
  /\ servePC = "recv" /\ in # <<>> /\ closing
  /\ Pop /\ servePC' = "close"
  /\ UNCHANGED <<byServe, servePkt, registered, chanVars,
                 metricVars, accepted, closeReqs, panicked>>

(* DIAL_RSP or DIAL_CLS: without a pending dial the tunnel is not needed  *)
(* any more; otherwise the result is handed over.                         *)
RecvDialResult ==
  LET pkt == Head(in)
  IN  /\ ~closing
      /\ Take("DIAL_RSP") \/ Take("DIAL_ERR") \/ Take("DIAL_CLS")
      /\ Pop /\ servePkt' = pkt
      /\ servePC' = IF pendingDial THEN "result" ELSE "close"
      /\ IF pendingDial /\ pkt.type = "DIAL_RSP" THEN SwapStatus("ok")
                                                 ELSE UNCHANGED metricVars
      /\ UNCHANGED <<byServe, registered, chanVars, accepted,
                     closeReqs, panicked>>

(* The dialer takes the result from the unbuffered resCh. *)
HandOver(c) ==
  LET ok == servePkt.type = "DIAL_RSP"
  IN  /\ servePC = "result" /\ dialPC[c] = "wait"
      /\ servePC' = IF ok THEN "recv" ELSE "close"
      /\ dialPC' = [dialPC EXCEPT ![c] = IF ok THEN "add" ELSE "leave"]
      /\ UNCHANGED <<streamVars, closing, servePkt, started,
                     outcome, requested, pendingDial, cancelCh, canceller,
                     registered, chanVars, userVars, connPC, awaiter,
                     metricVars, serverVars, accepted, closeReqs, panicked>>

(* ... or it gave up, or the tunnel's context ended. *)
ResultDropped ==
  /\ servePC = "result" /\ (cancelCh \/ ctxDone)
  /\ servePC' = "close"
  /\ UNCHANGED <<byServe, streamVars, servePkt, registered,
                 chanVars, metricVars, accepted, closeReqs, panicked>>

(* DATA of an unknown connection is answered with CLOSE_REQ. *)
RecvData ==
  /\ ~closing /\ Take("DATA") /\ Pop
  /\ servePkt' = Head(in)
  /\ servePC' = IF registered THEN "deliver" ELSE "recv"
  /\ closeReqs' = IF ~registered /\ SendOK THEN closeReqs + 1 ELSE closeReqs
  /\ UNCHANGED <<byServe, registered, chanVars, metricVars,
                 accepted, panicked>>

(* Mutant: a reader that falls behind loses the packet and keeps the tunnel. *)
DeliverOrDrop ==
  /\ servePC = "deliver" /\ servePC' = "recv"
  /\ IF Len(readCh) < ReadCap
     THEN /\ readCh' = Append(readCh, servePkt.n)
          /\ accepted' = accepted \o Bytes(servePkt.n)
     ELSE UNCHANGED <<readCh, accepted>>
  /\ UNCHANGED <<byServe, streamVars, servePkt, registered,
                 readClosed, closeCh, metricVars, closeReqs, panicked>>

(* The packet goes into readCh ... *)
Deliver ==
  /\ servePC = "deliver" /\ Len(readCh) < ReadCap
  /\ readCh' = Append(readCh, servePkt.n)
  /\ accepted' = accepted \o Bytes(servePkt.n)
  /\ servePC' = "recv"
  /\ UNCHANGED <<byServe, streamVars, servePkt, registered,
                 readClosed, closeCh, metricVars, closeReqs, panicked>>

(* ... or the reader is too slow and the tunnel is given up, or the       *)
(* tunnel's context ended and the next Recv will fail.                    *)
DeliverGivenUp ==
  /\ servePC = "deliver"
  /\ servePC' \in {"close"} \cup (IF ctxDone THEN {"recv"} ELSE {})
  /\ UNCHANGED <<byServe, streamVars, servePkt, registered,
                 chanVars, metricVars, accepted, closeReqs, panicked>>

(* Mutant: the connection stays in t.conns. *)
RecvCloseRspKept ==
  /\ ~closing /\ Take("CLOSE_RSP") /\ Pop
  /\ IF registered
     THEN CloseReadCh /\ closeCh' = "message" /\ servePC' = "close"
     ELSE UNCHANGED <<readClosed, panicked, closeCh, servePC>>
  /\ UNCHANGED <<byServe, servePkt, registered, readCh, metricVars, accepted,
                 closeReqs>>

(* CLOSE_RSP: ends the connection and the tunnel; for a connection that   *)
(* is not in t.conns it is ignored.                                       *)
RecvCloseRsp ==
  /\ ~closing /\ Take("CLOSE_RSP") /\ Pop
  /\ IF registered
     THEN /\ CloseReadCh /\ closeCh' = "message" /\ ConnsRemove
          /\ servePC' = "close"
     ELSE UNCHANGED <<readClosed, panicked, closeCh, registered, servePC>>
  /\ UNCHANGED <<byServe, servePkt, readCh, metricVars, accepted, closeReqs>>

(* The deferred function of serve, one call at a time. *)
ServeClose ==
  /\ servePC = "close" /\ servePC' = "closeAll"
  /\ CloseGrpcConn
  /\ UNCHANGED <<byServe, servePkt, registered, chanVars,
                 metricVars, accepted, closeReqs, panicked>>

(* Mutant: the channels of the remaining connections stay open. *)
ServeCloseNone ==
  /\ servePC = "closeAll" /\ servePC' = "metric"
  /\ UNCHANGED <<byServe, streamVars, servePkt, registered,
                 chanVars, metricVars, accepted, closeReqs, panicked>>

ServeCloseAll ==
  /\ servePC = "closeAll" /\ servePC' = "metric"
  /\ IF registered THEN CloseReadCh ELSE UNCHANGED <<readClosed, panicked>>
  /\ UNCHANGED <<byServe, streamVars, servePkt, registered,
                 readCh, closeCh, metricVars, accepted, closeReqs>>

closeMetric ==
  /\ servePC = "metric" /\ servePC' = "signal"
  /\ gauge' = [gauge EXCEPT ![status] = @ - 1]
  /\ UNCHANGED <<byServe, streamVars, servePkt, registered,
                 chanVars, status, accepted, closeReqs, panicked>>

ServeDone ==
  /\ servePC = "signal" /\ servePC' = "done"
  /\ UNCHANGED <<byServe, streamVars, servePkt, registered,
                 chanVars, metricVars, accepted, closeReqs, panicked>>

-----------------------------------------------------------------------------
(* dialContext *)

DialGoto(c, pc) == dialPC' = [dialPC EXCEPT ![c] = pc]
Return(c, what) ==
  DialGoto(c, "returned") /\ outcome' = [outcome EXCEPT ![c] = what]
DialOnly == <<streamVars, closing, serveVars, registered, chanVars, userVars,
              connPC, awaiter, serverVars, accepted, closeReqs, panicked>>

(* The first call takes the tunnel; it fails if the tunnel is done or the *)
(* protocol is not tcp.  Any other call fails.                            *)
DialStart(c) ==
  /\ dialPC[c] = "idle"
  /\ started' = TRUE
  /\ \/ (started \/ done) /\ Return(c, "error")
     \/ ~started /\ Return(c, "error")                 \* protocol
     \/ ~started /\ ~done /\ DialGoto(c, "metric") /\ UNCHANGED outcome
  /\ UNCHANGED <<DialOnly, metricVars, requested, pendingDial, cancelCh,
                 canceller>>

(* updateMetric: looks at Done, ... *)
DialMetric(c) ==
  /\ dialPC[c] = "metric"
  /\ DialGoto(c, IF done THEN "send" ELSE "swap")
  /\ UNCHANGED <<DialOnly, metricVars, started, outcome, requested,
                 pendingDial, cancelCh, canceller>>

(* ... and then swaps the status. *)
DialSwap(c) ==
  /\ dialPC[c] = "swap" /\ DialGoto(c, "send")
  /\ SwapStatus("dialing")
  /\ UNCHANGED <<DialOnly, started, outcome, requested, pendingDial,
                 cancelCh, canceller>>

(* pendingDial.add, and DIAL_REQ is sent. *)
DialSend(c) ==
  /\ dialPC[c] = "send"
  /\ PendingAdd
  /\ requested' = TRUE
  /\ server' = IF SendOK THEN "dialed" ELSE server
  /\ DialGoto(c, IF SendOK THEN "wait" ELSE "leave")
  /\ UNCHANGED <<streamVars, closing, serveVars, registered, chanVars,
                 userVars, connPC, awaiter, metricVars, dataSent, accepted,
                 closeReqs, panicked, started, outcome, cancelCh, canceller>>

(* Mutant: no limit on the wait but the request's own context. *)
DialNeverGivenUp(c) ==
  /\ dialPC[c] = "wait" /\ ctxDone /\ DialGoto(c, "leave")
  /\ canceller' = "run"
  /\ UNCHANGED <<DialOnly, metricVars, started, outcome, requested,
                 pendingDial, cancelCh>>

(* Nothing came within 30 seconds, or requestCtx is done; a goroutine     *)
(* tells the server and closes the tunnel.                                *)
DialGivenUp(c) ==
  /\ dialPC[c] = "wait" /\ DialGoto(c, "leave")
  /\ canceller' = "run"
  /\ UNCHANGED <<DialOnly, metricVars, started, outcome, requested,
                 pendingDial, cancelCh>>

DialTunnelClosed(c) ==
  /\ dialPC[c] = "wait" /\ done /\ DialGoto(c, "leave")
  /\ UNCHANGED <<DialOnly, metricVars, started, outcome, requested,
                 pendingDial, cancelCh, canceller>>

(* The result was a connection: conns.add. *)
DialAdd(c) ==
  /\ dialPC[c] = "add" /\ DialGoto(c, "leave")
  /\ ConnsAdd
  /\ outcome' = [outcome EXCEPT ![c] = "conn"]
  /\ UNCHANGED <<streamVars, closing, serveVars, chanVars, userVars, connPC,
                 awaiter, metricVars, serverVars, accepted, closeReqs,
                 panicked, started, requested, pendingDial, cancelCh,
                 canceller>>

(* Mutant: the call returns without closing cancelCh. *)
DialLeaveQuietly(c) ==
  /\ dialPC[c] = "leave"
  /\ Return(c, IF outcome[c] = "conn" THEN "conn" ELSE "error")
  /\ PendingRemove
  /\ UNCHANGED <<DialOnly, metricVars, started, requested, cancelCh,
                 canceller>>

(* The deferred calls: pendingDial.remove, close(cancelCh). *)
DialLeave(c) ==
  /\ dialPC[c] = "leave"
  /\ Return(c, IF outcome[c] = "conn" THEN "conn" ELSE "error")
  /\ PendingRemove /\ cancelCh' = TRUE
  /\ UNCHANGED <<DialOnly, metricVars, started, requested, canceller>>

(* Mutant: tells the server and leaves the tunnel open. *)
CancelDialOnly ==
  /\ canceller = "run" /\ canceller' = "done"
  /\ server' = IF SendOK THEN "closed" ELSE server
  /\ UNCHANGED <<streamVars, closing, serveVars, registered, chanVars,
                 userVars, connPC, awaiter, metricVars, dataSent, accepted,
                 closeReqs, panicked, started, dialPC, outcome, requested,
                 pendingDial, cancelCh>>

(* sendDialClose, then closeTunnel. *)
CancelDial ==
  /\ canceller = "run" /\ canceller' = "done"
  /\ server' = IF SendOK THEN "closed" ELSE server
  /\ closeTunnel
  /\ UNCHANGED <<serveVars, registered, chanVars, userVars, connPC, awaiter,
                 metricVars, dataSent, accepted, closeReqs, panicked,
                 started, dialPC, outcome, requested, pendingDial, cancelCh>>

-----------------------------------------------------------------------------
(* conn *)

HasConn == \E c \in Caller : dialPC[c] = "returned" /\ outcome[c] = "conn"

ReadStart ==
  /\ HasConn /\ ~reading /\ reading' = TRUE
  /\ UNCHANGED <<byUser, streamVars, closing, chanVars, rdata, readBytes,
                 connPC, awaiter, closeReqs>>

(* Mutant: what did not fit into the buffer is thrown away. *)
ReadDataCut ==
  /\ reading /\ reading' = FALSE
  /\ rdata' = <<>> /\ readCh # <<>> /\ readCh' = Tail(readCh)
  /\ \E n \in 1..2 : readBytes' = readBytes \o Prefix(Bytes(Head(readCh)), n)
  /\ UNCHANGED <<byUser, streamVars, closing, readClosed, closeCh, connPC,
                 awaiter, closeReqs>>

(* Bytes left over from the last Read, or else the next packet; as many   *)
(* as the caller's buffer holds.                                          *)
ReadData ==
  LET data == IF rdata # <<>> THEN rdata ELSE Bytes(Head(readCh))
  IN  /\ reading /\ reading' = FALSE
      /\ rdata # <<>> \/ readCh # <<>>
      /\ readCh' = IF rdata # <<>> THEN readCh ELSE Tail(readCh)
      /\ \E n \in 1..Len(data) :
           /\ readBytes' = readBytes \o Prefix(data, n)
           /\ rdata' = SubSeq(data, n + 1, Len(data))
      /\ UNCHANGED <<byUser, streamVars, closing, readClosed, closeCh,
                     connPC, awaiter, closeReqs>>

ReadEOF ==
  /\ reading /\ rdata = <<>> /\ readCh = <<>> /\ readClosed
  /\ reading' = FALSE
  /\ UNCHANGED <<byUser, streamVars, closing, chanVars, rdata, readBytes,
                 connPC, awaiter, closeReqs>>

(* Close: the first call takes c.closing; when the tunnel is done there   *)
(* is nobody to tell.                                                     *)
CloseStart ==
  /\ HasConn /\ connPC = "open"
  /\ IF done THEN connPC' = "closed" /\ closeTunnel
             ELSE connPC' = "closing" /\ UNCHANGED <<streamVars, closing>>
  /\ UNCHANGED <<byUser, chanVars, userVars, awaiter, closeReqs>>

(* ... CLOSE_REQ is sent, whatever comes of it, and its answer awaited. *)
CloseSend ==
  /\ connPC = "closing" /\ connPC' = "closed"
  /\ closeReqs' = IF SendOK THEN closeReqs + 1 ELSE closeReqs
  /\ awaiter' = "wait"
  /\ UNCHANGED <<byUser, streamVars, closing, chanVars, userVars>>

(* Mutant: only an answer or the end of the tunnel releases it. *)
awaitCloseResponseForever ==
  /\ awaiter = "wait" /\ awaiter' = "done"
  /\ closeCh = "message" \/ done
  /\ closeTunnel
  /\ UNCHANGED <<byUser, chanVars, userVars, connPC, closeReqs>>

(* The answer, the end of the tunnel, or CloseTimeout: any of them can be *)
(* first.                                                                 *)
awaitCloseResponse ==
  /\ awaiter = "wait" /\ awaiter' = "done"
  /\ closeTunnel
  /\ UNCHANGED <<byUser, chanVars, userVars, connPC, closeReqs>>

-----------------------------------------------------------------------------
(* The proxy server and the transport *)

ServerSends(type, n) ==
  /\ stream = "open"
  /\ in' = Append(in, Pkt(type, n))
  /\ UNCHANGED <<stream, ctxDone, closing, serveVars, dialVars, registered,
                 chanVars, userVars, connPC, awaiter, metricVars, accepted,
                 closeReqs, panicked>>

ServerAnswers ==
  /\ server = "dialed" /\ UNCHANGED dataSent
  /\ \/ ServerSends("DIAL_RSP", 0) /\ server' = "up"
     \/ ServerSends("DIAL_ERR", 0) /\ server' = "closed"
     \/ ServerSends("DIAL_CLS", 0) /\ server' = "closed"

ServerData ==
  /\ server = "up" /\ dataSent < MaxData
  /\ ServerSends("DATA", dataSent + 1)
  /\ dataSent' = dataSent + 1 /\ UNCHANGED server

ServerCloses ==
  /\ server = "up" /\ ServerSends("CLOSE_RSP", 0)
  /\ server' = "closed" /\ UNCHANGED dataSent

(* The server ends the stream, the transport breaks, or the owner cancels *)
(* tunnelCtx.                                                             *)
StreamEnds ==
  /\ stream = "open"
  /\ \/ stream' = "eof" /\ UNCHANGED <<in, ctxDone>>
     \/ /\ stream' = "broken" /\ ctxDone' \in {ctxDone, TRUE}
        /\ \E n \in 0..Len(in) : in' = Prefix(in, n)
  /\ UNCHANGED <<byServe, serveVars, registered, chanVars, metricVars,
                 accepted, closeReqs, panicked>>

-----------------------------------------------------------------------------
Serve == \/ RecvFails \/ RecvWhileClosing \/ RecvDialResult \/ ResultDropped
         \/ RecvData \/ Deliver \/ DeliverGivenUp \/ RecvCloseRsp
         \/ ServeClose \/ ServeCloseAll \/ closeMetric \/ ServeDone
         \/ \E c \in Caller : HandOver(c)

Dialing(c) == \/ DialMetric(c) \/ DialSwap(c) \/ DialSend(c) \/ DialGivenUp(c)
              \/ DialTunnelClosed(c) \/ DialAdd(c) \/ DialLeave(c)

ReadReturns == ReadData \/ ReadEOF

Next ==
  /\ UNCHANGED reusable
  /\ \/ Serve
     \/ \E c \in Caller : DialStart(c) \/ Dialing(c)
     \/ CancelDial \/ ReadStart \/ ReadReturns
     \/ CloseStart \/ CloseSend \/ awaitCloseResponse
     \/ ServerAnswers \/ ServerData \/ ServerCloses \/ StreamEnds

Spec == Init /\ [][Next]_vars

(* Every goroutine runs on and every timer fires. *)
Fairness ==
  /\ WF_state(Serve) /\ WF_state(CancelDial) /\ WF_state(awaitCloseResponse)
  /\ WF_state(CloseSend) /\ WF_state(ReadReturns)
  /\ \A c \in Caller : WF_state(Dialing(c))

FairSpec == Spec /\ Fairness

-----------------------------------------------------------------------------
(* Properties *)

(* Every variable has the type of what it models. *)
TypeOK ==
  /\ stream \in {"open", "eof", "broken"} /\ ctxDone \in BOOLEAN
  /\ closing \in BOOLEAN
  /\ in \in Seq([type : {"DIAL_RSP", "DIAL_ERR", "DIAL_CLS", "DATA", "CLOSE_RSP"},
                 n : 0..MaxData])
  /\ servePC \in {"recv", "result", "deliver", "close", "closeAll", "metric",
                  "signal", "done"}
  /\ dialPC \in [Caller -> {"idle", "metric", "swap", "send", "wait", "add",
                            "leave", "returned"}]
  /\ outcome \in [Caller -> {"none", "conn", "error"}]
  /\ registered \in BOOLEAN /\ Len(readCh) <= ReadCap
  /\ readClosed \in BOOLEAN /\ closeCh \in {"empty", "message"}
  /\ status \in Status /\ gauge \in [Status -> Int]
  /\ closeReqs \in Nat

(* No channel of a connection is closed twice, whether CLOSE_RSP, the end *)
(* of the stream or a cancelled context ends the tunnel: CLOSE_RSP takes  *)
(* the connection out of t.conns before closeAll runs.                    *)
NoDoubleClose == ~panicked

(* Read returns the bytes that serve put into readCh, in order and        *)
(* without a gap, however the packets are cut by the callers' buffers.    *)
ReadsInOrder == IsPrefix(readBytes, accepted)

(* A connection that lost data is not kept: when the server's bytes did   *)
(* not all get into readCh, although the dialer has its connection and    *)
(* the packets are taken, the tunnel is on its way down or the server has *)
(* been asked to close the connection.                                    *)
NoSilentGap ==
  (HasConn /\ servePC = "recv" /\ stream = "open" /\ in = <<>>
     /\ Len(accepted) < 2 * dataSent)
  => closing \/ closeReqs > 0

(* DialContext always returns: a dialer that waits is released by the     *)
(* answer, by its timer, by its context or by the end of the tunnel.      *)
(* (A call is made once, so []<> says here that it leads to the return;   *)
(* the conditions of the next three hold for good in the same way.)       *)
DialReturns == \A c \in Caller :
  []<>(dialPC[c] \in {"idle", "returned"})

(* Whoever gives a dial up does not leave the serve goroutine and its     *)
(* stream behind: once a dial that was requested has failed the tunnel    *)
(* ends.                                                                  *)
FailedDialEndsTunnel ==
  []<>(requested /\ ~HasConn /\ (\A c \in Caller : dialPC[c] \in {"idle", "returned"})
         => done)

(* Closing the connection releases the tunnel, even when the proxy never  *)
(* acknowledges.                                                          *)
CloseReleasesTunnel == []<>(connPC = "closed" => done)

(* When the stream is cut the serve goroutine ends, whatever it waits for *)
(* (an unread channel, a dialer that left): what Close of a reusable      *)
(* tunnel waits for.                                                      *)
CutEndsServe == []<>(stream = "broken" => done)

(* A Read on a connection that is in t.conns when the tunnel ends is      *)
(* released: closeAll closes its channel, and a closed channel ends it.   *)
RegisteredReadReturns ==
  /\ [][registered /\ servePC = "closeAll" /\ servePC' # "closeAll" => readClosed']_vars
  /\ []<>~(reading /\ readClosed)

(* The statuses of client_connections together count the tunnel once until *)
(* closeMetric and not at all after it, although dialContext and serve     *)
(* update the metric without a lock.                                       *)
GaugeTotalIsExact ==
  FoldFunction(+, 0, gauge) = IF servePC \in {"signal", "done"} THEN 0 ELSE 1

=============================================================================
