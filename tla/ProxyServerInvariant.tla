------------------------ MODULE ProxyServerInvariant ------------------------
(***************************************************************************)
(* The inductive invariants behind the proofs about ProxyServer.           *)
(***************************************************************************)
EXTENDS ProxyServer

(* The inductive invariant.  A dial is requested once, so from the moment  *)
(* a backend is assigned to it that backend is its only one; everything    *)
(* that names the dial afterwards agrees with it.                          *)

Requested(f, d) == \E i \in DOMAIN feIn[f] :
                     feIn[f][i].type = "DIAL_REQ" /\ feIn[f][i].dial = d

Fresh(d) == d \in asked /\ dialBackend[d] = NoBackend /\ answers[d] = <<>>

(* A requested dial is fresh, and waits in one place of one stream. *)
RequestedFresh ==
  \A f \in Frontend, d \in Dial :
    Requested(f, d) => FrontendOf[d] = f /\ Fresh(d)

RequestedOnce ==
  \A f \in Frontend : \A i, j \in DOMAIN feIn[f] :
    /\ feIn[f][i].type = "DIAL_REQ" /\ feIn[f][j].type = "DIAL_REQ"
    /\ feIn[f][i].dial = feIn[f][j].dial
    => i = j

AddingFresh ==
  \A f \in Frontend : fePC[f] = "addDial" =>
    /\ feDial[f] \in Dial /\ feBackend[f] \in Backend
    /\ FrontendOf[feDial[f]] = f /\ Fresh(feDial[f])
    /\ ~Requested(f, feDial[f])

(* The stream that is sending a DIAL_REQ sends it to the dial's backend. *)
SendInv ==
  \A f \in Frontend : fePC[f] \in {"sendDial", "sentDial"} =>
    /\ feDial[f] \in Dial /\ feBackend[f] \in Backend
    /\ dialBackend[feDial[f]] = feBackend[f]

(* Dials that were never requested have no past. *)
AskedInv ==
  \A d \in Dial \ asked : dialBackend[d] = NoBackend /\ answers[d] = <<>>

PendingInv ==
  \A d \in pending : dialBackend[d] \in Backend /\ answers[d] = <<>>

(* Timers and abandoned sends belong to dials that have a backend. *)
AsyncInv == \A d \in timers \cup abandoned : dialBackend[d] \in Backend

(* Requests and responses travel on the connection of the dial's backend. *)
WireInv ==
  \A b \in Backend :
    /\ \A d \in Dial : Pkt("DIAL_REQ", d, 0) \in toAgent[b] => dialBackend[d] = b
    /\ \A i \in DOMAIN beIn[b] :
         beIn[b][i].type \in {"DIAL_RSP", "DIAL_CLS"} =>
           dialBackend[beIn[b][i].dial] = b

(* serveRecvBackend handles a dial of its own backend. *)
ClaimInv ==
  \A b \in Backend :
    /\ bePC[b] \in {"establish", "forward", "unestablish"} =>
         /\ beDial[b] \in Dial /\ dialBackend[beDial[b]] = b
         /\ connectID[beDial[b]] \in ConnID
    /\ bePC[b] \in {"establish", "forward"} =>
         beDial[b] \notin pending /\ answers[beDial[b]] = <<>>

(* An established connection is filed under the agent of its backend. *)
EstablishedInv ==
  \A a \in Agent, c \in ConnID :
    LET d == established[a][c]
    IN  d # NoDial => /\ dialBackend[d] \in Backend
                      /\ AgentOf[dialBackend[d]] = a
                      /\ connectID[d] \in ConnID

(* At most one outcome; and a client told "ok" has a connection ID. *)
AnswerInv ==
  \A d \in Dial : /\ Len(answers[d]) <= 1
                  /\ answers[d] = <<"ok">> => connectID[d] \in ConnID

DialInv ==
  /\ RequestedFresh /\ RequestedOnce /\ AddingFresh /\ SendInv /\ AskedInv
  /\ PendingInv /\ AsyncInv /\ WireInv /\ ClaimInv /\ EstablishedInv
  /\ AnswerInv

Inv == Types /\ DialInv

-----------------------------------------------------------------------------
(* What holds of the ends of streams and connections, on top of Inv *)

(* The program counter of serveRecvBackend and the end of its stream. *)
BeStageInv ==
  \A b \in Backend :
    /\ beStream[b] = "open" => beConn[b] = "up"
    /\ beConn[b] = "none" => beStream[b] = "none"
    /\ bePC[b] \in {"cleanEstablished", "done"} => beStream[b] \in {"eof", "broken"}

(* The same of proxy; what it has to send it sends before it moves on. *)
FeStageInv ==
  \A f \in Frontend :
    /\ fePC[f] \in {"cleanPending", "sendDialClose", "sendClose", "done"} =>
         feStream[f] # "open"
    /\ fePC[f] \notin {"sendDialClose", "sendClose"} => feTodo[f] = {}

(* A dial whose entry is about to be removed was not reported a success. *)
LostInv ==
  \A b \in Backend : bePC[b] = "unestablish" => answers[beDial[b]] = <<"lost">>

(* An established connection is filed under its connection ID, and its     *)
(* dial is no longer pending.                                              *)
FiledInv ==
  \A a \in Agent, c \in ConnID :
    established[a][c] # NoDial =>
      connectID[established[a][c]] = c /\ established[a][c] \notin pending

(* Only a dial that has a backend has a connection ID. *)
NumberedInv == \A d \in Dial : connectID[d] # 0 => dialBackend[d] \in Backend

EndsInv == BeStageInv /\ FeStageInv /\ LostInv /\ FiledInv /\ NumberedInv

(* While proxy cleans up, no dial of the stream becomes pending again; and *)
(* one that is established again is being handed to the broken stream.     *)
StreamInv ==
  \A f \in Frontend :
    /\ feStream[f] # "eof"
    /\ fePC[f] \in {"sendDialClose", "sendClose", "done"} =>
         \A d \in StreamDials(f) : d \notin pending
    /\ fePC[f] \in {"sendClose", "done"} =>
         \A d \in StreamDials(f) : d \in EstablishedDials =>
           \E b \in Backend : /\ bePC[b] \in {"forward", "unestablish"}
                              /\ beDial[b] = d

(* The same for the clean-up of serveRecvBackend: a dial that is pending   *)
(* on the connection afterwards is still to be sent, which fails.          *)
LossInv ==
  \A b \in Backend :
    /\ beStream[b] # "eof"
    /\ bePC[b] \in {"cleanEstablished", "done"} =>
         \A d \in pending : dialBackend[d] = b =>
           \E f \in Frontend : fePC[f] = "sendDial" /\ feDial[f] = d
    /\ bePC[b] = "done" =>
         \A d \in Dial : dialBackend[d] = b => d \notin EstablishedDials

-----------------------------------------------------------------------------
(* What holds of the connections of the agents, when no two agent          *)
(* connections have the same agent ID                                      *)

(* No two agent connections are of the same agent.  Established            *)
(* connections are filed by agent ID: where an agent has two connections   *)
(* to a server, they overwrite each other's entries.                       *)
OneConnPerAgent == \A b, x \in Backend : AgentOf[b] = AgentOf[x] => b = x

(* Connection b has given ID c to the connection of dial d. *)
Has(b, d, c) ==
  \/ Waiting(b, "DIAL_RSP", d, c)
  \/ dialBackend[d] = b /\ connectID[d] = c
  \/ remote[b][c] = d

(* A connection ID is given once, and in ascending order. *)
GivenInv ==
  \A b \in Backend, c \in ConnID, d \in Dial : Has(b, d, c) =>
    /\ c < nextConnID[b]
    /\ \A e \in Dial : Has(b, e, c) => e = d

(* A dial that is being forwarded is established, unless its stream has    *)
(* been cleaned up meanwhile.                                              *)
ForwardInv ==
  \A b \in Backend :
    /\ bePC[b] = "forward"
    /\ fePC[FrontendOf[beDial[b]]] \notin {"sendClose", "done"}
    => established[AgentOf[b]][connectID[beDial[b]]] = beDial[b]

(* The server has sent CLOSE_REQ for the connection, or is about to. *)
Closing(b, c) ==
  \/ Pkt("CLOSE_REQ", NoDial, c) \in toAgent[b]
  \/ \E f \in Frontend : <<b, Pkt("CLOSE_REQ", NoDial, c)>> \in feTodo[f]

(* Where the server keeps track of a connection of the agent. *)
Tracked(b, c, d) ==
  \/ Waiting(b, "DIAL_RSP", d, c)
  \/ /\ bePC[b] \in {"establish", "unestablish"}
     /\ beDial[b] = d /\ connectID[d] = c
  \/ established[AgentOf[b]][c] = d
  \/ Closing(b, c)

TrackedInv ==
  \A b \in Backend, c \in ConnID :
    /\ beConn[b] = "none" => remote[b][c] = NoDial
    /\ remote[b][c] # NoDial /\ beStream[b] = "open" => Tracked(b, c, remote[b][c])

(* A CLOSE_RSP for a connection that the agent holds answers a close of    *)
(* that ID before the ID was given: the DIAL_RSP is behind it.             *)
OrderInv ==
  \A b \in Backend, c \in ConnID :
    remote[b][c] # NoDial /\ beStream[b] = "open" =>
      \A i \in DOMAIN beIn[b] : beIn[b][i] = Pkt("CLOSE_RSP", NoDial, c) =>
        \E j \in DOMAIN beIn[b] : i < j /\ beIn[b][j] = Pkt("DIAL_RSP", remote[b][c], c)

RemoteInv == GivenInv /\ ForwardInv /\ TrackedInv /\ OrderInv /\ NoSilentClose
=============================================================================
