----------------------------- MODULE ProxyServer -----------------------------
(***************************************************************************)
(* The dial and connection life cycle inside one proxy server              *)
(* (pkg/server/server.go): the pending-dial and established maps, the      *)
(* goroutines that serve each frontend stream (proxy, serveRecvFrontend)   *)
(* and each agent connection (connect, serveRecvBackend), the dial timers, *)
(* and the clean-up that runs when either side goes away.                  *)
(*                                                                         *)
(* One action is one critical section (PendingDialManager.mu, fmu) plus    *)
(* the sends that follow it and touch neither map.  A receive channel and  *)
(* the transport behind it are one FIFO; a stream that breaks may lose any *)
(* suffix of it.  Frontend clients, agents and gRPC are the environment.   *)
(*                                                                         *)
(* A *ProxyClientConnection is named by its dial ID.  Backend selection is *)
(* any registered connection here; BackendManagers models the choice.      *)
(***************************************************************************)
EXTENDS Integers, Sequences, FiniteSets

CONSTANTS
  Frontend,      \* frontend streams
  Dial,          \* dial IDs (DIAL_REQ.Random)
  Backend,       \* agent connections
  Agent,         \* agent IDs
  FrontendOf,    \* the stream a dial is requested on
  AgentOf,       \* the agent ID of a connection
  HttpFrontend,  \* the streams that are io.Closers (HTTP-CONNECT)
  DialTimeout,   \* backendDialTimeout > 0
  FrontendEnds,  \* how frontend streams may end: "eof", "broken"
  BackendEnds,   \* how agent streams may end: "eof", "broken", "retire"
  MaxConn,       \* bound: connection IDs an agent connection hands out
  MaxSend,       \* bound: packets a frontend client sends
  MaxData,       \* bound: DATA packets an agent sends on a connection
  StrayConn,     \* connection IDs a client uses without having been told
  NoDial, NoBackend

ConnID == 1..MaxConn

ASSUME ConstantsAssumption ==
  /\ FrontendOf \in [Dial -> Frontend]
  /\ AgentOf \in [Backend -> Agent]
  /\ HttpFrontend \subseteq Frontend
  /\ DialTimeout \in BOOLEAN
  /\ FrontendEnds \subseteq {"eof", "broken"}
  /\ BackendEnds \subseteq {"eof", "broken", "retire"}
  /\ MaxConn \in Nat /\ MaxSend \in Nat /\ MaxData \in Nat
  /\ StrayConn \subseteq ConnID
  /\ NoDial \notin Dial /\ NoBackend \notin Backend
  /\ IsFiniteSet(Dial)

VARIABLES
  \* shared maps
  pending,       \* keys of PendingDialManager.pendingDial
  established,   \* established[agent][connID], NoDial when absent
  dialBackend,   \* ProxyClientConnection.backend
  connectID,     \* ProxyClientConnection.connectID
  dialsInFlight, \* Backend.dialsInFlight
  \* one frontend stream each
  fePC, feStream, feIn, feBackend, feDial, firstConnID, feTodo,
  \* one agent connection each
  beConn, beStream, beIn, bePC, beDial, toAgent,
  \* goroutines and callbacks that outlive a step
  timers,        \* armed startPendingDialTimeout goroutines
  abandoned,     \* DIAL_REQ sends given up inside the transport
  hooks,         \* closeWithBackend callbacks
  \* the environment
  sent,          \* packets each client has sent
  asked,         \* dials requested so far
  remote,        \* remote[b][c]: the dial whose connection the agent holds
  nextConnID, dataSent,
  \* history
  answers,       \* dial outcomes handed to the frontend
  told           \* connections whose close was handed to the frontend

maps == <<pending, established, dialBackend, connectID, dialsInFlight>>
feVars == <<fePC, feStream, feIn, feBackend, feDial, firstConnID, feTodo>>
beVars == <<beConn, beStream, beIn, bePC, beDial>>
asyncVars == <<timers, abandoned, hooks>>
clientVars == <<sent, asked>>
agentVars == <<remote, nextConnID, dataSent>>
history == <<answers, told>>
vars == <<maps, feVars, beVars, toAgent, asyncVars, clientVars, agentVars,
          history>>

Pkt(t, d, c) == [type |-> t, dial |-> d, conn |-> c]
Packet ==
  [type : {"DIAL_REQ", "DIAL_RSP", "DIAL_CLS"}, dial : Dial, conn : 0..MaxConn]
  \cup
  [type : {"DATA", "CLOSE_REQ", "CLOSE_RSP"}, dial : {NoDial}, conn : ConnID]

Prefix(s, n) == SubSeq(s, 1, n)

-----------------------------------------------------------------------------
(* Streams *)

(* backend.Context(): ends with the transport, or when connect returns. *)
CtxAlive(b) == beConn[b] = "up" /\ beStream[b] \in {"open", "eof"}

(* Backend.Send: delivered to the transport, or an error and dropped. *)
Deliver(b, pkts) ==
  IF CtxAlive(b) THEN [toAgent EXCEPT ![b] = @ \cup pkts] ELSE toAgent

(* Frontend.Send succeeds until the transport breaks or the handler       *)
(* returns; after a half-close (eof) it still does.                       *)
SendOK(f) == feStream[f] \in {"open", "eof"} /\ fePC[f] # "done"

(* A stream that ends cleanly delivers what it carries; one that breaks   *)
(* may lose any suffix of it.                                             *)
FeStreamEnds(f, how) ==
  /\ feStream' = [feStream EXCEPT ![f] = how]
  /\ \E n \in 0..Len(feIn[f]) :
       /\ how = "eof" => n = Len(feIn[f])
       /\ feIn' = [feIn EXCEPT ![f] = Prefix(@, n)]

Registered == {b \in Backend : beConn[b] = "up"}

-----------------------------------------------------------------------------
(* PendingDialManager, established *)

(* Mutant: a batch of removed dials is subtracted as one. *)
InFlightAfterOne(removed) ==
  [b \in Backend |-> dialsInFlight[b] -
     (IF \E d \in removed : dialBackend[d] = b THEN 1 ELSE 0)]

InFlightAfter(removed) ==
  [b \in Backend |-> dialsInFlight[b] -
     Cardinality({d \in removed : dialBackend[d] = b})]

(* Add: the entry it replaces, if any, gives its backend's count back. *)
PendingAdd(d, b) ==
  /\ dialsInFlight' = [InFlightAfter({d} \cap pending) EXCEPT ![b] = @ + 1]
  /\ pending' = pending \cup {d}
  /\ dialBackend' = [dialBackend EXCEPT ![d] = b]

(* Mutant: subtracts also for dials that are no longer pending. *)
PendingRemoveBlindly(S) ==
  dialsInFlight' = InFlightAfter(S) /\ pending' = pending \ S

(* Mutant: forgets the count. *)
PendingRemoveUncounted(S) == pending' = pending \ S /\ UNCHANGED dialsInFlight

(* Remove, removeForBackend and removeForStream. *)
PendingRemove(S) ==
  /\ dialsInFlight' = InFlightAfter(S \cap pending)
  /\ pending' = pending \ S

EstablishedDials == {established[a][c] : a \in Agent, c \in ConnID} \ {NoDial}

removeEstablished(S) ==
  established' = [a \in Agent |-> [c \in ConnID |->
     IF established[a][c] \in S THEN NoDial ELSE established[a][c]]]

Answer(S, kind) == answers' = [d \in Dial |->
                     IF d \in S THEN Append(answers[d], kind) ELSE answers[d]]

(* The dials of stream f whose client knows them by connection ID c. *)
ConnsOf(f, c) == {d \in Dial : FrontendOf[d] = f /\ connectID[d] = c}

-----------------------------------------------------------------------------
(* serveRecvFrontend: the head packet of an open or draining stream *)

FeHead(f, type) ==
  fePC[f] = "serve" /\ feIn[f] # <<>> /\ Head(feIn[f]).type = type

FePop(f) == feIn' = [feIn EXCEPT ![f] = Tail(@)]
FeGoto(f, pc) == fePC' = [fePC EXCEPT ![f] = pc]

(* DIAL_REQ: getBackend. *)
FeGetBackend(f) ==
  /\ FeHead(f, "DIAL_REQ")
  /\ \E b \in Registered :
       /\ feBackend' = [feBackend EXCEPT ![f] = b]
       /\ feDial' = [feDial EXCEPT ![f] = Head(feIn[f]).dial]
  /\ FePop(f) /\ FeGoto(f, "addDial")
  /\ UNCHANGED <<maps, feStream, firstConnID, feTodo, beVars, toAgent,
                 asyncVars, clientVars, agentVars, history>>

(* ... finds none (it may although agents are connected, when the only    *)
(* strategy is destHost): the dial fails and the goroutine returns.       *)
FeNoBackend(f) ==
  /\ FeHead(f, "DIAL_REQ")
  /\ feBackend' = [feBackend EXCEPT ![f] = NoBackend]
  /\ Answer({Head(feIn[f]).dial}, "err")
  /\ FePop(f) /\ FeGoto(f, "drain")
  /\ UNCHANGED <<maps, feStream, feDial, firstConnID, feTodo, beVars, toAgent,
                 asyncVars, clientVars, agentVars, told>>

(* ... PendingDial.Add. *)
FeAddDial(f) ==
  /\ fePC[f] = "addDial"
  /\ PendingAdd(feDial[f], feBackend[f])
  /\ FeGoto(f, "sendDial")
  /\ UNCHANGED <<established, connectID, feStream, feIn, feBackend, feDial,
                 firstConnID, feTodo, beVars, toAgent, asyncVars, clientVars,
                 agentVars, history>>

(* ... sendDialRequestToBackend: the transport takes the DIAL_REQ, which  *)
(* the agent may answer before the goroutine runs on.                     *)
FeSendDial(f) ==
  /\ fePC[f] = "sendDial" /\ CtxAlive(feBackend[f])
  /\ toAgent' = Deliver(feBackend[f], {Pkt("DIAL_REQ", feDial[f], 0)})
  /\ FeGoto(f, "sentDial")
  /\ UNCHANGED <<maps, feStream, feIn, feBackend, feDial, firstConnID, feTodo,
                 beVars, asyncVars, clientVars, agentVars, history>>

(* ... and returns nil: startPendingDialTimeout. *)
FeDialSent(f) ==
  /\ fePC[f] = "sentDial"
  /\ timers' = IF DialTimeout THEN timers \cup {feDial[f]} ELSE timers
  /\ FeGoto(f, "serve")
  /\ UNCHANGED <<maps, feStream, feIn, feBackend, feDial, firstConnID, feTodo,
                 beVars, toAgent, abandoned, hooks, clientVars, agentVars,
                 history>>

(* ... or returns an error, because the agent connection ended or because *)
(* the dial timeout expired, in the latter case with the send possibly    *)
(* done or still to happen.  Only whoever removes the pending dial        *)
(* answers it.                                                            *)
FeDialFailed(f) ==
  LET d == feDial[f]
      dead == ~CtxAlive(feBackend[f])
  IN  /\ \/ fePC[f] = "sendDial" /\ (dead \/ DialTimeout)
         \/ fePC[f] = "sentDial" /\ DialTimeout
      /\ abandoned' = IF fePC[f] = "sendDial" /\ ~dead
                      THEN abandoned \cup {d} ELSE abandoned
      /\ PendingRemove({d})
      /\ IF d \in pending THEN Answer({d}, "err") /\ FeGoto(f, "drain")
                          ELSE FeGoto(f, "serve") /\ UNCHANGED answers
      /\ UNCHANGED <<established, dialBackend, connectID, feStream, feIn,
                     feBackend, feDial, firstConnID, feTodo, beVars, toAgent,
                     timers, hooks, clientVars, agentVars, told>>

(* The goroutine left behind by an expired send. *)
AbandonedSend(d) ==
  /\ d \in abandoned /\ CtxAlive(dialBackend[d])
  /\ abandoned' = abandoned \ {d}
  /\ toAgent' = Deliver(dialBackend[d], {Pkt("DIAL_REQ", d, 0)})
  /\ UNCHANGED <<maps, feVars, beVars, timers, hooks, clientVars, agentVars,
                 history>>

(* CLOSE_REQ: without a backend it is answered here; otherwise it goes to *)
(* the agent and this goroutine returns.                                  *)
FeCloseReq(f) ==
  LET c == Head(feIn[f]).conn
      b == feBackend[f]
      none == b = NoBackend
  IN  /\ FeHead(f, "CLOSE_REQ")
      /\ toAgent' = IF none THEN toAgent
                    ELSE Deliver(b, {Pkt("CLOSE_REQ", NoDial, c)})
      /\ told' = IF none \/ ~CtxAlive(b) THEN told \cup ConnsOf(f, c) ELSE told
      /\ FePop(f) /\ FeGoto(f, IF none THEN "serve" ELSE "drain")
      /\ UNCHANGED <<maps, feStream, feBackend, feDial, firstConnID, feTodo,
                     beVars, asyncVars, clientVars, agentVars, answers>>

(* DIAL_CLS: the client gave the dial up; it gets no answer. *)
FeDialCls(f) ==
  /\ FeHead(f, "DIAL_CLS")
  /\ PendingRemove({Head(feIn[f]).dial})
  /\ FePop(f)
  /\ UNCHANGED <<established, dialBackend, connectID, fePC, feStream,
                 feBackend, feDial, firstConnID, feTodo, beVars, toAgent,
                 asyncVars, clientVars, agentVars, history>>

(* DATA: to the backend of the last dial on the stream, provided that the *)
(* connection ID is the stream's first; otherwise both are closed.        *)
FeData(f) ==
  LET c == Head(feIn[f]).conn
      b == feBackend[f]
      first == IF firstConnID[f] = 0 THEN c ELSE firstConnID[f]
      none == b = NoBackend
      mismatch == ~none /\ c # first
  IN  /\ FeHead(f, "DATA")
      /\ toAgent' = CASE none -> toAgent
                      [] mismatch -> Deliver(b, {Pkt("CLOSE_REQ", NoDial, x) :
                                                   x \in {c, first}})
                      [] OTHER -> Deliver(b, {Pkt("DATA", NoDial, c)})
      /\ told' = IF none \/ mismatch
                 THEN told \cup ConnsOf(f, c) \cup
                        (IF mismatch THEN ConnsOf(f, first) ELSE {})
                 ELSE told
      /\ firstConnID' = [firstConnID EXCEPT ![f] = IF none THEN @ ELSE first]
      /\ FePop(f) /\ FeGoto(f, IF none \/ mismatch THEN "drain" ELSE "serve")
      /\ UNCHANGED <<maps, feStream, feBackend, feDial, feTodo, beVars,
                     asyncVars, clientVars, agentVars, answers>>

(* Mutant: after an early return nobody empties recvCh, so its writer never *)
(* gets to close it.                                                       *)
FeRecvClosedUndrained(f) ==
  /\ feStream[f] # "open" /\ fePC[f] = "serve" /\ feIn[f] = <<>>
  /\ FeGoto(f, "cleanPending")
  /\ UNCHANGED <<maps, feStream, feIn, feBackend, feDial, firstConnID, feTodo,
                 beVars, toAgent, asyncVars, clientVars, agentVars, history>>

(* The loop is over: recvCh is closed, or the goroutine returned early    *)
(* and discards what is left until recvCh is closed.                      *)
FeRecvClosed(f) ==
  /\ feStream[f] # "open"
  /\ fePC[f] = "drain" \/ (fePC[f] = "serve" /\ feIn[f] = <<>>)
  /\ feIn' = [feIn EXCEPT ![f] = <<>>]
  /\ FeGoto(f, "cleanPending")
  /\ UNCHANGED <<maps, feStream, feBackend, feDial, firstConnID, feTodo,
                 beVars, toAgent, asyncVars, clientVars, agentVars, history>>

-----------------------------------------------------------------------------
(* The deferred clean-up of proxy *)

StreamDials(f) == {d \in Dial : FrontendOf[d] = f}

FeCleanPending(f) ==
  LET mine == StreamDials(f) \cap pending
  IN  /\ fePC[f] = "cleanPending"
      /\ PendingRemove(mine)
      /\ feTodo' = [feTodo EXCEPT ![f] =
           {<<dialBackend[d], Pkt("DIAL_CLS", d, 0)>> : d \in mine}]
      /\ FeGoto(f, "sendDialClose")
      /\ UNCHANGED <<established, dialBackend, connectID, feStream, feIn,
                     feBackend, feDial, firstConnID, beVars, toAgent,
                     asyncVars, clientVars, agentVars, history>>

(* sendBackendDialClose and sendBackendClose, one after the other. *)
FeCleanSend(f) ==
  /\ fePC[f] \in {"sendDialClose", "sendClose"}
  /\ \E t \in feTodo[f] :
       /\ toAgent' = Deliver(t[1], {t[2]})
       /\ feTodo' = [feTodo EXCEPT ![f] = @ \ {t}]
  /\ UNCHANGED <<maps, fePC, feStream, feIn, feBackend, feDial, firstConnID,
                 beVars, asyncVars, clientVars, agentVars, history>>

(* Mutant: drops the entries without closing them at the agent. *)
FeCleanEstablishedSilently(f) ==
  /\ fePC[f] = "sendDialClose" /\ feTodo[f] = {}
  /\ removeEstablished(StreamDials(f))
  /\ FeGoto(f, "sendClose")
  /\ UNCHANGED <<pending, dialBackend, connectID, dialsInFlight, feStream,
                 feIn, feBackend, feDial, firstConnID, feTodo, beVars, toAgent,
                 asyncVars, clientVars, agentVars, history>>

(* Mutant: closes at the agent and leaves the entries to its CLOSE_RSP. *)
FeCleanEstablishedLater(f) ==
  /\ fePC[f] = "sendDialClose" /\ feTodo[f] = {}
  /\ feTodo' = [feTodo EXCEPT ![f] =
       {<<dialBackend[d], Pkt("CLOSE_REQ", NoDial, connectID[d])>> :
          d \in StreamDials(f) \cap EstablishedDials}]
  /\ FeGoto(f, "sendClose")
  /\ UNCHANGED <<maps, feStream, feIn, feBackend, feDial, firstConnID, beVars,
                 toAgent, asyncVars, clientVars, agentVars, history>>

FeCleanEstablished(f) ==
  LET mine == StreamDials(f) \cap EstablishedDials
  IN  /\ fePC[f] = "sendDialClose" /\ feTodo[f] = {}
      /\ removeEstablished(mine)
      /\ feTodo' = [feTodo EXCEPT ![f] =
           {<<dialBackend[d], Pkt("CLOSE_REQ", NoDial, connectID[d])>> :
              d \in mine}]
      /\ FeGoto(f, "sendClose")
      /\ UNCHANGED <<pending, dialBackend, connectID, dialsInFlight, feStream,
                     feIn, feBackend, feDial, firstConnID, beVars, toAgent,
                     asyncVars, clientVars, agentVars, history>>

FeReturn(f) ==
  /\ fePC[f] = "sendClose" /\ feTodo[f] = {}
  /\ FeGoto(f, "done")
  /\ UNCHANGED <<maps, feStream, feIn, feBackend, feDial, firstConnID, feTodo,
                 beVars, toAgent, asyncVars, clientVars, agentVars, history>>

-----------------------------------------------------------------------------
(* startPendingDialTimeout *)

TimerFires(d) ==
  /\ d \in timers
  /\ timers' = timers \ {d}
  /\ PendingRemove({d})
  /\ Answer({d} \cap pending, "err")
  /\ UNCHANGED <<established, dialBackend, connectID, feVars, beVars, toAgent,
                 abandoned, hooks, clientVars, agentVars, told>>

TimerBackendDone(d) ==
  /\ d \in timers /\ ~CtxAlive(dialBackend[d])
  /\ timers' = timers \ {d}
  /\ UNCHANGED <<maps, feVars, beVars, toAgent, abandoned, hooks, clientVars,
                 agentVars, history>>

-----------------------------------------------------------------------------
(* closeWithBackend: when the agent connection fails the frontend stream  *)
(* is closed, unless the agent ended it cleanly.                          *)
CloseHook(f, b) ==
  /\ <<f, b>> \in hooks /\ ~CtxAlive(b)
  /\ hooks' = hooks \ {<<f, b>>}
  /\ IF beStream[b] = "eof" \/ feStream[f] = "broken"
     THEN UNCHANGED <<feStream, feIn>>
     ELSE FeStreamEnds(f, "broken")
  /\ UNCHANGED <<maps, fePC, feBackend, feDial, firstConnID, feTodo, beVars,
                 toAgent, timers, abandoned, clientVars, agentVars, history>>

-----------------------------------------------------------------------------
(* serveRecvBackend *)

BeHead(b, type) ==
  bePC[b] = "recv" /\ beIn[b] # <<>> /\ Head(beIn[b]).type = type

BePop(b) == beIn' = [beIn EXCEPT ![b] = Tail(@)]
BeGoto(b, pc) == bePC' = [bePC EXCEPT ![b] = pc]

(* Mutant: the connection nobody waits for is not closed. *)
BeDialRspIgnored(b) ==
  /\ BeHead(b, "DIAL_RSP") /\ Head(beIn[b]).dial \notin pending
  /\ BePop(b)
  /\ UNCHANGED <<maps, feVars, beConn, beStream, bePC, beDial, toAgent,
                 asyncVars, clientVars, agentVars, history>>

(* DIAL_RSP for a dial that nobody waits for: the connection is closed. *)
BeDialRspUnknown(b) ==
  LET pkt == Head(beIn[b])
  IN  /\ BeHead(b, "DIAL_RSP") /\ pkt.dial \notin pending
      /\ toAgent' = IF pkt.conn = 0 THEN toAgent
                    ELSE Deliver(b, {Pkt("CLOSE_REQ", NoDial, pkt.conn)})
      /\ BePop(b)
      /\ UNCHANGED <<maps, feVars, beConn, beStream, bePC, beDial, asyncVars,
                     clientVars, agentVars, history>>

(* DIAL_RSP with an error: passed on. *)
BeDialRspError(b) ==
  LET pkt == Head(beIn[b])
  IN  /\ BeHead(b, "DIAL_RSP") /\ pkt.dial \in pending /\ pkt.conn = 0
      /\ PendingRemove({pkt.dial})
      /\ Answer({pkt.dial}, "err")
      /\ BePop(b)
      /\ UNCHANGED <<established, dialBackend, connectID, feVars, beConn,
                     beStream, bePC, beDial, toAgent, asyncVars, clientVars,
                     agentVars, told>>

(* Mutant: the pending dial is looked up and not removed. *)
BeDialRspOkKept(b) ==
  LET pkt == Head(beIn[b])
  IN  /\ BeHead(b, "DIAL_RSP") /\ pkt.dial \in pending /\ pkt.conn # 0
      /\ connectID' = [connectID EXCEPT ![pkt.dial] = pkt.conn]
      /\ beDial' = [beDial EXCEPT ![b] = pkt.dial]
      /\ BePop(b) /\ BeGoto(b, "establish")
      /\ UNCHANGED <<pending, dialsInFlight, established, dialBackend, feVars,
                     beConn, beStream, toAgent, asyncVars, clientVars,
                     agentVars, history>>

(* DIAL_RSP with a connection: the dial is claimed, ... *)
BeDialRspOk(b) ==
  LET pkt == Head(beIn[b])
  IN  /\ BeHead(b, "DIAL_RSP") /\ pkt.dial \in pending /\ pkt.conn # 0
      /\ PendingRemove({pkt.dial})
      /\ connectID' = [connectID EXCEPT ![pkt.dial] = pkt.conn]
      /\ beDial' = [beDial EXCEPT ![b] = pkt.dial]
      /\ BePop(b) /\ BeGoto(b, "establish")
      /\ UNCHANGED <<established, dialBackend, feVars, beConn, beStream,
                     toAgent, asyncVars, clientVars, agentVars, history>>

(* Mutant: connections are filed by connection ID alone. *)
addEstablishedForAll(b) ==
  LET d == beDial[b]
  IN  /\ bePC[b] = "establish"
      /\ established' = [a \in Agent |-> [established[a] EXCEPT ![connectID[d]] = d]]
      /\ BeGoto(b, "forward")
      /\ UNCHANGED <<pending, dialBackend, connectID, dialsInFlight, feVars,
                     beConn, beStream, beIn, beDial, toAgent, asyncVars,
                     clientVars, agentVars, history>>

(* ... addEstablished and closeWithBackend, ... *)
addEstablished(b) ==
  LET d == beDial[b]
  IN  /\ bePC[b] = "establish"
      /\ established' = [established EXCEPT ![AgentOf[b]][connectID[d]] = d]
      /\ hooks' = IF FrontendOf[d] \in HttpFrontend
                  THEN hooks \cup {<<FrontendOf[d], b>>} ELSE hooks
      /\ BeGoto(b, "forward")
      /\ UNCHANGED <<pending, dialBackend, connectID, dialsInFlight, feVars,
                     beConn, beStream, beIn, beDial, toAgent, timers,
                     abandoned, clientVars, agentVars, history>>

(* ... the DIAL_RSP is sent to the frontend, ... *)
BeForward(b) ==
  LET d == beDial[b]
      ok == SendOK(FrontendOf[d])
  IN  /\ bePC[b] = "forward"
      /\ Answer({d}, IF ok THEN "ok" ELSE "lost")
      /\ BeGoto(b, IF ok THEN "recv" ELSE "unestablish")
      /\ UNCHANGED <<maps, feVars, beConn, beStream, beIn, beDial, toAgent,
                     asyncVars, clientVars, agentVars, told>>

(* Mutant: the agent is told, the entry stays. *)
BeUnestablishHalf(b) ==
  /\ bePC[b] = "unestablish"
  /\ toAgent' = Deliver(b, {Pkt("CLOSE_REQ", NoDial, connectID[beDial[b]])})
  /\ BeGoto(b, "recv")
  /\ UNCHANGED <<maps, feVars, beConn, beStream, beIn, beDial, asyncVars,
                 clientVars, agentVars, history>>

(* ... and if that fails the entry is removed and the agent told. *)
BeUnestablish(b) ==
  LET c == connectID[beDial[b]]
  IN  /\ bePC[b] = "unestablish"
      /\ established' = [established EXCEPT ![AgentOf[b]][c] = NoDial]
      /\ toAgent' = Deliver(b, {Pkt("CLOSE_REQ", NoDial, c)})
      /\ BeGoto(b, "recv")
      /\ UNCHANGED <<pending, dialBackend, connectID, dialsInFlight, feVars,
                     beConn, beStream, beIn, beDial, asyncVars, clientVars,
                     agentVars, history>>

(* Mutant: the frontend is told whether or not the dial was pending. *)
BeDialClsAlways(b) ==
  LET d == Head(beIn[b]).dial
  IN  /\ BeHead(b, "DIAL_CLS")
      /\ PendingRemove({d})
      /\ Answer({d}, "cls")
      /\ BePop(b)
      /\ UNCHANGED <<established, dialBackend, connectID, feVars, beConn,
                     beStream, bePC, beDial, toAgent, asyncVars, clientVars,
                     agentVars, told>>

(* DIAL_CLS: the agent gave the dial up. *)
BeDialCls(b) ==
  LET d == Head(beIn[b]).dial
  IN  /\ BeHead(b, "DIAL_CLS")
      /\ PendingRemove({d})
      /\ Answer({d} \cap pending, "cls")
      /\ BePop(b)
      /\ UNCHANGED <<established, dialBackend, connectID, feVars, beConn,
                     beStream, bePC, beDial, toAgent, asyncVars, clientVars,
                     agentVars, told>>

(* DATA: to the frontend of the connection, or the connection is closed. *)
BeData(b) ==
  LET c == Head(beIn[b]).conn
  IN  /\ BeHead(b, "DATA")
      /\ toAgent' = IF established[AgentOf[b]][c] = NoDial
                    THEN Deliver(b, {Pkt("CLOSE_REQ", NoDial, c)}) ELSE toAgent
      /\ BePop(b)
      /\ UNCHANGED <<maps, feVars, beConn, beStream, bePC, beDial, asyncVars,
                     clientVars, agentVars, history>>

(* Mutant: the entry is removed and the frontend not told. *)
BeCloseRspSilently(b) ==
  LET c == Head(beIn[b]).conn
  IN  /\ BeHead(b, "CLOSE_RSP")
      /\ established' = [established EXCEPT ![AgentOf[b]][c] = NoDial]
      /\ BePop(b)
      /\ UNCHANGED <<pending, dialBackend, connectID, dialsInFlight, feVars,
                     beConn, beStream, bePC, beDial, toAgent, asyncVars,
                     clientVars, agentVars, history>>

(* CLOSE_RSP: the entry is removed and its frontend told. *)
BeCloseRsp(b) ==
  LET c == Head(beIn[b]).conn
  IN  /\ BeHead(b, "CLOSE_RSP")
      /\ established' = [established EXCEPT ![AgentOf[b]][c] = NoDial]
      /\ told' = told \cup ({established[AgentOf[b]][c]} \ {NoDial})
      /\ BePop(b)
      /\ UNCHANGED <<pending, dialBackend, connectID, dialsInFlight, feVars,
                     beConn, beStream, bePC, beDial, toAgent, asyncVars,
                     clientVars, agentVars, answers>>

(* Mutant: the clean-up does not fail the pending dials. *)
BeCleanPendingSkipped(b) ==
  /\ bePC[b] = "recv" /\ beIn[b] = <<>> /\ beStream[b] \in {"eof", "broken"}
  /\ BeGoto(b, "cleanEstablished")
  /\ UNCHANGED <<maps, feVars, beConn, beStream, beIn, beDial, toAgent,
                 asyncVars, clientVars, agentVars, history>>

(* recvCh is closed: the deferred clean-up fails the pending dials ... *)
BeCleanPending(b) ==
  LET mine == {d \in pending : dialBackend[d] = b}
  IN  /\ bePC[b] = "recv" /\ beIn[b] = <<>> /\ beStream[b] \in {"eof", "broken"}
      /\ PendingRemove(mine)
      /\ Answer(mine, "err")
      /\ BeGoto(b, "cleanEstablished")
      /\ UNCHANGED <<established, dialBackend, connectID, feVars, beConn,
                     beStream, beIn, beDial, toAgent, asyncVars, clientVars,
                     agentVars, told>>

(* Mutant: the frontends are told, the entries stay. *)
BeCleanEstablishedHalf(b) ==
  /\ bePC[b] = "cleanEstablished"
  /\ told' = told \cup {d \in EstablishedDials : dialBackend[d] = b}
  /\ BeGoto(b, "done")
  /\ UNCHANGED <<maps, feVars, beConn, beStream, beIn, beDial, toAgent,
                 asyncVars, clientVars, agentVars, answers>>

(* ... and closes the established connections of this backend. *)
BeCleanEstablished(b) ==
  LET mine == {d \in EstablishedDials : dialBackend[d] = b}
  IN  /\ bePC[b] = "cleanEstablished"
      /\ removeEstablished(mine)
      /\ told' = told \cup mine
      /\ BeGoto(b, "done")
      /\ UNCHANGED <<pending, dialBackend, connectID, dialsInFlight, feVars,
                     beConn, beStream, beIn, beDial, toAgent, asyncVars,
                     clientVars, agentVars, answers>>

-----------------------------------------------------------------------------
(* connect *)

Connect(b) ==
  /\ beConn[b] = "none"
  /\ beConn' = [beConn EXCEPT ![b] = "up"]
  /\ beStream' = [beStream EXCEPT ![b] = "open"]
  /\ UNCHANGED <<maps, feVars, beIn, bePC, beDial, toAgent, asyncVars,
                 clientVars, agentVars, history>>

(* stopCh is closed: removeBackend, and the handler returns. *)
ConnectReturn(b) ==
  /\ beConn[b] = "up" /\ beStream[b] # "open"
  /\ beConn' = [beConn EXCEPT ![b] = "returned"]
  /\ UNCHANGED <<maps, feVars, beStream, beIn, bePC, beDial, toAgent,
                 asyncVars, clientVars, agentVars, history>>

(* Done is closed: the handler returns, which ends the stream's context   *)
(* and with it the reader.                                                *)
ConnectRetired(b) ==
  /\ "retire" \in BackendEnds
  /\ beConn[b] = "up" /\ beStream[b] = "open"
  /\ beConn' = [beConn EXCEPT ![b] = "returned"]
  /\ beStream' = [beStream EXCEPT ![b] = "broken"]
  /\ \E n \in 0..Len(beIn[b]) : beIn' = [beIn EXCEPT ![b] = Prefix(@, n)]
  /\ UNCHANGED <<maps, feVars, bePC, beDial, toAgent, asyncVars, clientVars,
                 agentVars, history>>

-----------------------------------------------------------------------------
(* Environment: the agent at the other end of a connection *)

AgentSend(b, pkt) == beIn' = [beIn EXCEPT ![b] = Append(@, pkt)]
AgentUp(b) == beStream[b] = "open"
Arrived(b, pkt) == /\ AgentUp(b) /\ pkt \in toAgent[b]
                   /\ toAgent' = [toAgent EXCEPT ![b] = @ \ {pkt}]

(* Dials a remote: connected, failed, or given up.  Connection IDs are     *)
(* counted per connection; one that a failed dial used is never sent.      *)
AgentDialOk(b, d) ==
  LET c == nextConnID[b]
  IN  /\ Arrived(b, Pkt("DIAL_REQ", d, 0)) /\ c \in ConnID
      /\ nextConnID' = [nextConnID EXCEPT ![b] = @ + 1]
      /\ remote' = [remote EXCEPT ![b][c] = d]
      /\ AgentSend(b, Pkt("DIAL_RSP", d, c))
      /\ UNCHANGED <<maps, feVars, beConn, beStream, bePC, beDial, asyncVars,
                     clientVars, dataSent, history>>

AgentDialFails(b, d) ==
  /\ Arrived(b, Pkt("DIAL_REQ", d, 0))
  /\ \E type \in {"DIAL_RSP", "DIAL_CLS"} : AgentSend(b, Pkt(type, d, 0))
  /\ UNCHANGED <<maps, feVars, beConn, beStream, bePC, beDial, asyncVars,
                 clientVars, agentVars, history>>

(* Closes on request, and answers also for a connection it does not have. *)
AgentClose(b, c) ==
  /\ Arrived(b, Pkt("CLOSE_REQ", NoDial, c))
  /\ remote' = [remote EXCEPT ![b][c] = NoDial]
  /\ AgentSend(b, Pkt("CLOSE_RSP", NoDial, c))
  /\ UNCHANGED <<maps, feVars, beConn, beStream, bePC, beDial, asyncVars,
                 clientVars, nextConnID, dataSent, history>>

(* DATA for a connection it does not have is answered with CLOSE_RSP. *)
AgentDataUnknown(b, c) ==
  /\ Arrived(b, Pkt("DATA", NoDial, c)) /\ remote[b][c] = NoDial
  /\ AgentSend(b, Pkt("CLOSE_RSP", NoDial, c))
  /\ UNCHANGED <<maps, feVars, beConn, beStream, bePC, beDial, asyncVars,
                 clientVars, agentVars, history>>

(* Other DATA goes to the remote; DIAL_CLS is ignored. *)
AgentConsume(b) ==
  /\ \E pkt \in toAgent[b] :
       /\ Arrived(b, pkt)
       /\ \/ pkt.type = "DIAL_CLS"
          \/ pkt.type = "DATA" /\ remote[b][pkt.conn] # NoDial
  /\ UNCHANGED <<maps, feVars, beVars, asyncVars, clientVars, agentVars,
                 history>>

RemoteData(b, c) ==
  /\ AgentUp(b) /\ remote[b][c] # NoDial /\ dataSent[b] < MaxData
  /\ dataSent' = [dataSent EXCEPT ![b] = @ + 1]
  /\ AgentSend(b, Pkt("DATA", NoDial, c))
  /\ UNCHANGED <<maps, feVars, beConn, beStream, bePC, beDial, toAgent,
                 asyncVars, clientVars, remote, nextConnID, history>>

RemoteClose(b, c) ==
  /\ AgentUp(b) /\ remote[b][c] # NoDial
  /\ remote' = [remote EXCEPT ![b][c] = NoDial]
  /\ AgentSend(b, Pkt("CLOSE_RSP", NoDial, c))
  /\ UNCHANGED <<maps, feVars, beConn, beStream, bePC, beDial, toAgent,
                 asyncVars, clientVars, nextConnID, dataSent, history>>

(* The stream ends, cleanly or not. *)
AgentEnd(b) ==
  /\ AgentUp(b)
  /\ \E how \in BackendEnds \ {"retire"} :
       /\ beStream' = [beStream EXCEPT ![b] = how]
       /\ \E n \in 0..Len(beIn[b]) :
            /\ how = "eof" => n = Len(beIn[b])
            /\ beIn' = [beIn EXCEPT ![b] = Prefix(@, n)]
  /\ UNCHANGED <<maps, feVars, beConn, bePC, beDial, toAgent, asyncVars,
                 clientVars, agentVars, history>>

-----------------------------------------------------------------------------
(* Environment: the client at the other end of a frontend stream *)

Known(f) ==
  {connectID[d] : d \in {x \in StreamDials(f) :
                           \E i \in DOMAIN answers[x] : answers[x][i] = "ok"}}

ClientSend(f, pkt) ==
  /\ feStream[f] = "open" /\ sent[f] < MaxSend
  /\ sent' = [sent EXCEPT ![f] = @ + 1]
  /\ feIn' = [feIn EXCEPT ![f] = Append(@, pkt)]
  /\ UNCHANGED <<maps, fePC, feStream, feBackend, feDial, firstConnID, feTodo,
                 beVars, toAgent, asyncVars, agentVars, history>>

ClientDial(f) ==
  \E d \in StreamDials(f) \ asked :
    ClientSend(f, Pkt("DIAL_REQ", d, 0)) /\ asked' = asked \cup {d}

ClientCancel(f) ==
  /\ \E d \in StreamDials(f) \cap asked : ClientSend(f, Pkt("DIAL_CLS", d, 0))
  /\ UNCHANGED asked

ClientUse(f) ==
  /\ \E c \in Known(f) \cup StrayConn, type \in {"DATA", "CLOSE_REQ"} :
       ClientSend(f, Pkt(type, NoDial, c))
  /\ UNCHANGED asked

ClientEnd(f) ==
  /\ feStream[f] = "open"
  /\ \E how \in FrontendEnds : FeStreamEnds(f, how)
  /\ UNCHANGED <<maps, fePC, feBackend, feDial, firstConnID, feTodo, beVars,
                 toAgent, asyncVars, clientVars, agentVars, history>>

-----------------------------------------------------------------------------
Init ==
  /\ pending = {}
  /\ established = [a \in Agent |-> [c \in ConnID |-> NoDial]]
  /\ dialBackend = [d \in Dial |-> NoBackend]
  /\ connectID = [d \in Dial |-> 0]
  /\ dialsInFlight = [b \in Backend |-> 0]
  /\ fePC = [f \in Frontend |-> "serve"]
  /\ feStream = [f \in Frontend |-> "open"]
  /\ feIn = [f \in Frontend |-> <<>>]
  /\ feBackend = [f \in Frontend |-> NoBackend]
  /\ feDial = [f \in Frontend |-> NoDial]
  /\ firstConnID = [f \in Frontend |-> 0]
  /\ feTodo = [f \in Frontend |-> {}]
  /\ beConn = [b \in Backend |-> "none"]
  /\ beStream = [b \in Backend |-> "none"]
  /\ beIn = [b \in Backend |-> <<>>]
  /\ bePC = [b \in Backend |-> "recv"]
  /\ beDial = [b \in Backend |-> NoDial]
  /\ toAgent = [b \in Backend |-> {}]
  /\ timers = {} /\ abandoned = {} /\ hooks = {}
  /\ sent = [f \in Frontend |-> 0]
  /\ asked = {}
  /\ remote = [b \in Backend |-> [c \in ConnID |-> NoDial]]
  /\ nextConnID = [b \in Backend |-> 1]
  /\ dataSent = [b \in Backend |-> 0]
  /\ answers = [d \in Dial |-> <<>>]
  /\ told = {}

serveRecvFrontend(f) ==
  \/ FeGetBackend(f) \/ FeNoBackend(f) \/ FeAddDial(f) \/ FeSendDial(f)
  \/ FeDialSent(f) \/ FeDialFailed(f) \/ FeCloseReq(f) \/ FeDialCls(f)
  \/ FeData(f) \/ FeRecvClosed(f)
proxyCleanup(f) ==
  \/ FeCleanPending(f) \/ FeCleanSend(f) \/ FeCleanEstablished(f)
  \/ FeReturn(f)
serveRecvBackend(b) ==
  \/ BeDialRspUnknown(b) \/ BeDialRspError(b) \/ BeDialRspOk(b)
  \/ addEstablished(b) \/ BeForward(b) \/ BeUnestablish(b) \/ BeDialCls(b)
  \/ BeData(b) \/ BeCloseRsp(b) \/ BeCleanPending(b) \/ BeCleanEstablished(b)
AgentReplies(b) ==
  \/ \E d \in Dial : AgentDialOk(b, d) \/ AgentDialFails(b, d)
  \/ \E c \in ConnID : AgentClose(b, c) \/ AgentDataUnknown(b, c)
Environment ==
  \/ \E f \in Frontend :
       ClientDial(f) \/ ClientCancel(f) \/ ClientUse(f) \/ ClientEnd(f)
  \/ \E b \in Backend :
       \/ AgentReplies(b) \/ AgentConsume(b) \/ AgentEnd(b)
       \/ \E c \in ConnID : RemoteData(b, c) \/ RemoteClose(b, c)

Next ==
  \/ \E f \in Frontend : serveRecvFrontend(f) \/ proxyCleanup(f)
  \/ \E b \in Backend : \/ serveRecvBackend(b)
                        \/ Connect(b) \/ ConnectReturn(b) \/ ConnectRetired(b)
  \/ \E d \in Dial : AbandonedSend(d) \/ TimerFires(d) \/ TimerBackendDone(d)
  \/ \E f \in Frontend, b \in Backend : CloseHook(f, b)
  \/ Environment

Spec == Init /\ [][Next]_vars

(* Every goroutine of the server runs on, and an agent that stays         *)
(* connected answers the requests that reach it.  Nothing is assumed of   *)
(* clients, of timers, or of what ends a stream.                          *)
FairSpec ==
  /\ Spec
  /\ \A f \in Frontend : WF_vars(serveRecvFrontend(f) \/ proxyCleanup(f))
  /\ \A b \in Backend : /\ WF_vars(serveRecvBackend(b))
                        /\ WF_vars(ConnectReturn(b))
                        /\ WF_vars(AgentReplies(b))

-----------------------------------------------------------------------------
(* Properties *)

FePC == {"serve", "addDial", "sendDial", "sentDial", "drain", "cleanPending",
         "sendDialClose", "sendClose", "done"}
BePC == {"recv", "establish", "forward", "unestablish", "cleanEstablished",
         "done"}

ClosePacket == {p \in Packet : p.type \in {"DIAL_CLS", "CLOSE_REQ"}}

(* The types of the variables but for the count. *)
Types ==
  /\ pending \subseteq Dial
  /\ established \in [Agent -> [ConnID -> Dial \cup {NoDial}]]
  /\ dialBackend \in [Dial -> Backend \cup {NoBackend}]
  /\ connectID \in [Dial -> 0..MaxConn]
  /\ fePC \in [Frontend -> FePC]
  /\ feStream \in [Frontend -> {"open", "eof", "broken"}]
  /\ feIn \in [Frontend -> Seq(Packet)]
  /\ feBackend \in [Frontend -> Backend \cup {NoBackend}]
  /\ feDial \in [Frontend -> Dial \cup {NoDial}]
  /\ firstConnID \in [Frontend -> 0..MaxConn]
  /\ feTodo \in [Frontend -> SUBSET (Backend \X ClosePacket)]
  /\ beConn \in [Backend -> {"none", "up", "returned"}]
  /\ beStream \in [Backend -> {"none", "open", "eof", "broken"}]
  /\ beIn \in [Backend -> Seq(Packet)]
  /\ bePC \in [Backend -> BePC]
  /\ beDial \in [Backend -> Dial \cup {NoDial}]
  /\ toAgent \in [Backend -> SUBSET Packet]
  /\ timers \subseteq Dial /\ abandoned \subseteq Dial
  /\ hooks \subseteq Frontend \X Backend
  /\ sent \in [Frontend -> Nat] /\ asked \subseteq Dial
  /\ remote \in [Backend -> [ConnID -> Dial \cup {NoDial}]]
  /\ nextConnID \in [Backend -> 1..(MaxConn + 1)]
  /\ dataSent \in [Backend -> Nat]
  /\ answers \in [Dial -> Seq({"ok", "err", "cls", "lost"})]
  /\ told \subseteq Dial

(* Every variable has its type (the maps and goroutines of ProxyServer);  *)
(* in particular the count of dials in flight is never negative.          *)
TypeOK == Types /\ dialsInFlight \in [Backend -> Nat]

(* The dials that serveRecvBackend has claimed and not yet answered. *)
Claimed(b) == IF bePC[b] \in {"establish", "forward"} THEN {beDial[b]} ELSE {}

(* A dial gets at most one outcome, however DIAL_RSP, DIAL_CLS, the send  *)
(* error, the timer, cancellation and the loss of the agent race: each    *)
(* goes through PendingDialManager.Remove and only one finds the entry.   *)
AnsweredOnce ==
  \A d \in Dial : /\ Len(answers[d]) <= 1
                  /\ d \in pending => answers[d] = <<>>

(* A dial has one owner: it is pending, or claimed by one agent           *)
(* connection's goroutine (its own), and never both.                      *)
OneOwner ==
  \A b \in Backend : \A d \in Claimed(b) :
    /\ d \notin pending /\ dialBackend[d] = b /\ answers[d] = <<>>
    /\ \A b2 \in Backend \ {b} : d \notin Claimed(b2)

(* dialsInFlight, which dialCost reads to rank backends, is the number of *)
(* dials pending on the backend: no path adds or subtracts twice.         *)
InFlightIsPending ==
  \A b \in Backend :
    dialsInFlight[b] = Cardinality({d \in pending : dialBackend[d] = b})

(* The comment on serveRecvBackend, "route the packet back to the correct *)
(* client": a DATA or CLOSE_RSP about to be routed finds no connection or *)
(* one that was dialed over the agent connection it came from.            *)
RoutedToItsClient ==
  \A b \in Backend :
    BeHead(b, "DATA") \/ BeHead(b, "CLOSE_RSP") =>
      LET d == established[AgentOf[b]][Head(beIn[b]).conn]
      IN  d # NoDial => dialBackend[d] = b

Waiting(b, t, d, c) ==
  \E i \in DOMAIN beIn[b] : beIn[b][i] = Pkt(t, d, c)

(* No remote connection is forgotten while its agent is connected: its    *)
(* DIAL_RSP is on the way or being handled, or it is established, or the  *)
(* server has closed it or is about to (the comment on addEstablished: it *)
(* must not be found in neither map).  A dial that its client cancelled   *)
(* when it was completed is established, until its stream ends.           *)
NoLeakedRemote ==
  \A b \in Backend, c \in ConnID :
    LET d == remote[b][c]
    IN  d # NoDial /\ beStream[b] = "open" =>
          \/ Waiting(b, "DIAL_RSP", d, c)
          \/ bePC[b] \in {"establish", "forward", "unestablish"} /\ beDial[b] = d
          \/ established[AgentOf[b]][c] = d
          \/ Pkt("CLOSE_REQ", NoDial, c) \in toAgent[b]
          \/ \E f \in Frontend : <<b, Pkt("CLOSE_REQ", NoDial, c)>> \in feTodo[f]

(* Once proxy has cleaned up, no pending or established entry of the      *)
(* stream is left for good: "Clean any lingering tunnel connections to    *)
(* avoid resource leaks".  An entry that a DIAL_RSP handler has just      *)
(* added is about to be removed by it.                                    *)
StreamLeavesNothing ==
  \A f \in Frontend : fePC[f] = "done" =>
    \A d \in StreamDials(f) :
      /\ d \notin pending
      /\ d \in EstablishedDials =>
           \E b \in Backend : /\ bePC[b] \in {"forward", "unestablish"}
                              /\ beDial[b] = d

(* Once serveRecvBackend has returned, nothing is established over that   *)
(* connection, and a dial still pending on it is one whose DIAL_REQ is    *)
(* about to fail: "without this they stay pending forever".               *)
BackendLeavesNothing ==
  \A b \in Backend : bePC[b] = "done" =>
    \A d \in Dial : dialBackend[d] = b =>
      /\ d \notin EstablishedDials
      /\ d \in pending => \E f \in Frontend : fePC[f] = "sendDial" /\ feDial[f] = d

(* A client that was told its dial succeeded does not lose the connection *)
(* in silence: while its stream is served the connection is established,  *)
(* or the client was handed a CLOSE_RSP for it, whether the remote, the   *)
(* agent or the agent connection ended it.                                *)
NoSilentClose ==
  \A d \in Dial :
    /\ "ok" \in {answers[d][i] : i \in DOMAIN answers[d]}
    /\ fePC[FrontendOf[d]] \notin {"sendClose", "done"}
    => d \in EstablishedDials \cup told

(* When an agent is lost, the server keeps nothing of it, pending or       *)
(* established (the deferred clean-up of serveRecvBackend), and no client  *)
(* that was told of a connection over it is left without its close.        *)
LostAgentIsSettled == BackendLeavesNothing /\ NoSilentClose

(* With several streams on one agent connection, the end of a stream       *)
(* leaves neither an entry nor a remote connection behind, and the count   *)
(* of dials in flight stays that of the dials still pending.               *)
EndedStreamIsSettled == InFlightIsPending /\ NoLeakedRemote /\ StreamLeavesNothing

(* A pending dial is resolved if the agent stays or goes. *)
PendingIsResolved == \A d \in Dial : d \in pending ~> d \notin pending

(* The handler of a stream that ended returns, and so does the goroutine  *)
(* that serves an agent connection that ended.                            *)
StreamsAreCleaned ==
  /\ \A f \in Frontend : feStream[f] # "open" ~> fePC[f] = "done"
  /\ \A b \in Backend : beStream[b] \in {"eof", "broken"} ~> bePC[b] = "done"
=============================================================================
