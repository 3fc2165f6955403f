------------------------- MODULE ProxyServerProofs --------------------------
(***************************************************************************)
(* Theorems about ProxyServer, for every set of frontend streams, dials,   *)
(* agent connections and connection IDs.  The inductive invariants are in  *)
(* ProxyServerInvariant; that the steps of the frontend half keep the      *)
(* first, and the ends of streams and connections the others, is shown in  *)
(* ProxyServerStepsProofs.  Here the goroutines that serve an agent        *)
(* connection, the timers and callbacks, and the agents and clients around *)
(* the server keep the first invariant; the theorems follow.               *)
(***************************************************************************)
EXTENDS ProxyServerStepsProofs

-----------------------------------------------------------------------------
(* The agent half *)

(* Steps that remove pending dials and give each a failure as outcome. *)
LEMMA FailStep ==
  ASSUME Inv, NEW T, NEW k \in {"err", "cls", "lost"},
         PendingRemove(T), Answer(T \cap pending, k),
         bePC' \in [Backend -> BePC],
         \A b \in Backend : bePC'[b] = bePC[b] \/ bePC'[b] = "cleanEstablished",
         beIn' \in [Backend -> Seq(Packet)],
         \A x \in Backend : \A i \in DOMAIN beIn'[x] :
           \E j \in DOMAIN beIn[x] : beIn'[x][i] = beIn[x][j],
         timers' \subseteq timers,
         UNCHANGED <<established, dialBackend, connectID, feVars, beConn,
                     beStream, beDial, toAgent, abandoned, hooks, clientVars,
                     agentVars, told>>
  PROVE  Inv'
<1> USE DEF Inv, DialInv
<1>1. /\ answers' \in [Dial -> Seq({"ok", "err", "cls", "lost"})]
      /\ pending' \subseteq Dial
      /\ \A d \in Dial : Fresh(d) => answers'[d] = answers[d]
      /\ AskedInv' /\ PendingInv' /\ ClaimInv' /\ EstablishedInv' /\ AnswerInv'
  BY Zenon, FailFrame DEF clientVars
<1>2. Types'
  BY Zenon, <1>1 DEF Types, feVars, clientVars, agentVars
<1>3. RequestedFresh' /\ RequestedOnce' /\ AddingFresh' /\ SendInv'
  BY Zenon, <1>1, FrontendFrame DEF feVars, clientVars
<1>4. WireInv'
  BY Zenon, WireFrame
<1>5. AsyncInv'
  BY Zenon DEF AsyncInv
<1>. QED  BY Zenon, <1>1, <1>2, <1>3, <1>4, <1>5

(* DIAL_RSP for a dial nobody waits for changes no map. *)
LEMMA BeDialRspUnknownStep ==
  ASSUME Inv, NEW b \in Backend, BeDialRspUnknown(b)
  PROVE  Inv'
<1> USE DEF Inv
<1> DEFINE pkt == Head(beIn[b])
<1>1. /\ beIn[b] # <<>> /\ BePop(b)
      /\ UNCHANGED <<maps, feVars, beConn, beStream, bePC, beDial, asyncVars,
                     clientVars, agentVars, history>>
      /\ toAgent' = IF pkt.conn = 0 THEN toAgent
                    ELSE Deliver(b, {Pkt("CLOSE_REQ", NoDial, pkt.conn)})
  BY Zenon DEF BeDialRspUnknown, BeHead
<1>2. /\ pkt \in Packet /\ beIn' \in [Backend -> Seq(Packet)]
      /\ \A x \in Backend : \A i \in DOMAIN beIn'[x] :
           \E j \in DOMAIN beIn[x] : beIn'[x][i] = beIn[x][j]
  BY Zenon, <1>1, BePopLemma
<1>3. /\ toAgent' \in [Backend -> SUBSET Packet]
      /\ \A x \in Backend, p \in Packet :
           p \in toAgent'[x] /\ p.type = "DIAL_REQ" => p \in toAgent[x]
  <2>1. CASE pkt.conn = 0
    BY ZenonT(60), <1>1, <2>1 DEF Types
  <2>2. CASE pkt.conn # 0
    <3>1. pkt.conn \in ConnID
      BY SMTT(60), <1>2, <2>2, PacketLemma, ConstantsAssumption DEF ConnID
    <3>. QED  BY Zenon, <1>1, <2>2, <3>1, SendCloseLemma
  <2>. QED  BY Zenon, <2>1, <2>2
<1>4. Types'
  BY ZenonT(60), <1>1, <1>2, <1>3
  DEF Types, maps, feVars, asyncVars, clientVars, agentVars, history
<1>. QED  BY Zenon, <1>1, <1>2, <1>3, <1>4, QuietStep
          DEF maps, feVars, asyncVars, clientVars, history

(* DIAL_RSP with an error answers the pending dial it removes. *)
LEMMA BeDialRspErrorStep ==
  ASSUME Inv, NEW b \in Backend, BeDialRspError(b)
  PROVE  Inv'
<1> DEFINE d == Head(beIn[b]).dial
<1>1. /\ beIn[b] # <<>> /\ BePop(b) /\ d \in pending
      /\ PendingRemove({d}) /\ Answer({d}, "err")
      /\ UNCHANGED <<established, dialBackend, connectID, feVars, beConn,
                     beStream, bePC, beDial, toAgent, asyncVars, clientVars,
                     agentVars, told>>
  BY Zenon DEF BeDialRspError, BeHead
<1>2. {d} \cap pending = {d}
  BY Zenon, <1>1
<1>3. /\ beIn' \in [Backend -> Seq(Packet)]
      /\ \A x \in Backend : \A i \in DOMAIN beIn'[x] :
           \E j \in DOMAIN beIn[x] : beIn'[x][i] = beIn[x][j]
  BY Zenon, <1>1, BePopLemma DEF Inv
<1>4. bePC' \in [Backend -> BePC]
  BY Zenon, <1>1 DEF Inv, Types
<1>5. Answer({d} \cap pending, "err")
  BY Zenon, <1>1, <1>2
<1>. QED  BY Zenon, <1>1, <1>3, <1>4, <1>5, FailStep DEF asyncVars

(* DIAL_CLS from an agent answers the dial only if it was pending. *)
LEMMA BeDialClsStep ==
  ASSUME Inv, NEW b \in Backend, BeDialCls(b)
  PROVE  Inv'
<1> DEFINE d == Head(beIn[b]).dial
<1>1. /\ beIn[b] # <<>> /\ BePop(b)
      /\ PendingRemove({d}) /\ Answer({d} \cap pending, "cls")
      /\ UNCHANGED <<established, dialBackend, connectID, feVars, beConn,
                     beStream, bePC, beDial, toAgent, asyncVars, clientVars,
                     agentVars, told>>
  BY Zenon DEF BeDialCls, BeHead
<1>2. /\ beIn' \in [Backend -> Seq(Packet)]
      /\ \A x \in Backend : \A i \in DOMAIN beIn'[x] :
           \E j \in DOMAIN beIn[x] : beIn'[x][i] = beIn[x][j]
  BY Zenon, <1>1, BePopLemma DEF Inv
<1>3. bePC' \in [Backend -> BePC]
  BY Zenon, <1>1 DEF Inv, Types
<1>. QED  BY Zenon, <1>1, <1>2, <1>3, FailStep DEF asyncVars

(* removeForBackend answers exactly the dials it removes. *)
LEMMA BeCleanPendingStep ==
  ASSUME Inv, NEW b \in Backend, BeCleanPending(b)
  PROVE  Inv'
<1> DEFINE mine == {d \in pending : dialBackend[d] = b}
<1>1. /\ PendingRemove(mine) /\ Answer(mine, "err")
      /\ bePC' = [bePC EXCEPT ![b] = "cleanEstablished"]
      /\ UNCHANGED <<established, dialBackend, connectID, feVars, beConn,
                     beStream, beIn, beDial, toAgent, asyncVars, clientVars,
                     agentVars, told>>
  BY Zenon DEF BeCleanPending, BeGoto
<1>2. mine \cap pending = mine
  BY Zenon
<1>3. Answer(mine \cap pending, "err")
  BY ZenonT(60), <1>1, <1>2
<1>4. /\ bePC' \in [Backend -> BePC] /\ beIn' \in [Backend -> Seq(Packet)]
      /\ \A x \in Backend : bePC'[x] = bePC[x] \/ bePC'[x] = "cleanEstablished"
  BY ZenonT(60), <1>1 DEF Inv, Types, BePC
<1>5. \A x \in Backend : \A i \in DOMAIN beIn'[x] :
        \E j \in DOMAIN beIn[x] : beIn'[x][i] = beIn[x][j]
  BY Zenon, <1>1
<1> HIDE DEF mine
<1>. QED  BY Zenon, <1>1, <1>3, <1>4, <1>5, FailStep DEF asyncVars

(* startPendingDialTimeout answers the dial only if it was still pending. *)
LEMMA TimerFiresStep ==
  ASSUME Inv, NEW d \in Dial, TimerFires(d)
  PROVE  Inv'
<1>1. /\ PendingRemove({d}) /\ Answer({d} \cap pending, "err")
      /\ timers' \subseteq timers
      /\ UNCHANGED <<established, dialBackend, connectID, feVars, beConn,
                     beStream, beIn, bePC, beDial, toAgent, abandoned, hooks,
                     clientVars, agentVars, told>>
  BY Zenon DEF TimerFires, beVars
<1>2. bePC' \in [Backend -> BePC] /\ beIn' \in [Backend -> Seq(Packet)]
  BY Zenon, <1>1 DEF Inv, Types
<1>3. \A x \in Backend : \A i \in DOMAIN beIn'[x] :
        \E j \in DOMAIN beIn[x] : beIn'[x][i] = beIn[x][j]
  BY Zenon, <1>1
<1>. QED  BY Zenon, <1>1, <1>2, <1>3, FailStep

(* DIAL_RSP with a connection claims the dial for its own backend. *)
LEMMA BeDialRspOkStep ==
  ASSUME Inv, NEW b \in Backend, BeDialRspOk(b)
  PROVE  Inv'
<1> USE DEF Inv, DialInv
<1> DEFINE d == Head(beIn[b]).dial
           c == Head(beIn[b]).conn
<1>1. /\ beIn[b] # <<>> /\ BePop(b) /\ Head(beIn[b]).type = "DIAL_RSP"
      /\ d \in pending /\ c # 0 /\ PendingRemove({d})
      /\ connectID' = [connectID EXCEPT ![d] = c]
      /\ beDial' = [beDial EXCEPT ![b] = d]
      /\ bePC' = [bePC EXCEPT ![b] = "establish"]
      /\ UNCHANGED <<established, dialBackend, feVars, beConn, beStream,
                     toAgent, asyncVars, clientVars, agentVars, history>>
  BY Zenon DEF BeDialRspOk, BeHead, BeGoto
<1>2. /\ Head(beIn[b]) \in Packet /\ beIn' \in [Backend -> Seq(Packet)]
      /\ 1 \in DOMAIN beIn[b] /\ Head(beIn[b]) = beIn[b][1]
      /\ \A x \in Backend : \A i \in DOMAIN beIn'[x] :
           \E j \in DOMAIN beIn[x] : beIn'[x][i] = beIn[x][j]
  BY Zenon, <1>1, BePopLemma
<1>3. d \in Dial /\ c \in ConnID /\ c \in 0..MaxConn
  BY ZenonT(60), <1>1, <1>2, PacketLemma, IDRanges
<1>4. dialBackend[d] = b /\ answers[d] = <<>>
  BY SMTT(60), <1>1, <1>2 DEF WireInv, PendingInv
<1>5. pending' = pending \ {d}
  BY Zenon, <1>1 DEF PendingRemove
<1>6. /\ connectID' \in [Dial -> 0..MaxConn]
      /\ \A x \in Dial : connectID'[x] \in {connectID[x], c}
  BY ZenonT(60), <1>1, <1>3 DEF Types
<1>7. /\ bePC' \in [Backend -> BePC] /\ beDial' \in [Backend -> Dial \cup {NoDial}]
      /\ bePC'[b] = "establish" /\ beDial'[b] = d /\ connectID'[d] = c
      /\ \A x \in Backend \ {b} : bePC'[x] = bePC[x] /\ beDial'[x] = beDial[x]
  BY ZenonT(60), <1>1, <1>3 DEF Types, BePC
<1>8. Types'
  BY ZenonT(60), <1>1, <1>2, <1>5, <1>6, <1>7
  DEF Types, feVars, asyncVars, clientVars, agentVars, history
<1>9. RequestedFresh' /\ RequestedOnce' /\ AddingFresh' /\ SendInv'
  BY Zenon, <1>1, FrontendFrame DEF feVars, clientVars, history
<1>10. WireInv'
  BY Zenon, <1>1, <1>2, WireFrame
<1>11. AskedInv' /\ PendingInv' /\ AsyncInv'
  BY Zenon, <1>1, <1>5 DEF AskedInv, PendingInv, AsyncInv, asyncVars, clientVars, history
<1>12. AnswerInv'
  BY ZenonT(60), <1>1, <1>3, <1>6 DEF AnswerInv, history
<1>13. ClaimInv'
  <2>1. dialBackend' = dialBackend /\ answers' = answers
    BY Zenon, <1>1 DEF history
  <2>. QED  BY SMTT(60), <1>3, <1>4, <1>5, <1>6, <1>7, <2>1 DEF ClaimInv
<1>14. EstablishedInv'
  <2>1. \A a \in Agent, x \in ConnID :
          established[a][x] # NoDial => established[a][x] \in Dial
    BY DEF Types
  <2>2. dialBackend' = dialBackend /\ established' = established
    BY Zenon, <1>1
  <2>. QED  BY ZenonT(60), <1>3, <1>6, <2>1, <2>2 DEF EstablishedInv
<1>. QED  BY ZenonT(60), <1>8, <1>9, <1>10, <1>11, <1>12, <1>13, <1>14

(* addEstablished files the claimed dial under its backend's agent ID. *)
LEMMA addEstablishedStep ==
  ASSUME Inv, NEW b \in Backend, addEstablished(b)
  PROVE  Inv'
<1> USE DEF Inv, DialInv
<1> DEFINE d == beDial[b]
           c == connectID[d]
           a == AgentOf[b]
<1>1. /\ bePC[b] = "establish" /\ bePC' = [bePC EXCEPT ![b] = "forward"]
      /\ established' = [established EXCEPT ![a][c] = d]
      /\ hooks' \subseteq hooks \cup {<<FrontendOf[d], b>>}
      /\ UNCHANGED <<pending, dialBackend, connectID, dialsInFlight, feVars,
                     beConn, beStream, beIn, beDial, toAgent, timers,
                     abandoned, clientVars, agentVars, history>>
  BY Zenon DEF addEstablished, BeGoto
<1>2. /\ d \in Dial /\ dialBackend[d] = b /\ c \in ConnID /\ d \notin pending
      /\ answers[d] = <<>> /\ a \in Agent /\ <<FrontendOf[d], b>> \in Frontend \X Backend
  BY ZenonT(60), <1>1, ConstantsAssumption DEF ClaimInv
<1>3. /\ established' \in [Agent -> [ConnID -> Dial \cup {NoDial}]]
      /\ established'[a][c] = d
      /\ \A x \in Agent, y \in ConnID :
           x # a \/ y # c => established'[x][y] = established[x][y]
  BY ZenonT(60), <1>1, <1>2 DEF Types
<1>4. /\ bePC' \in [Backend -> BePC] /\ bePC'[b] = "forward"
      /\ \A x \in Backend \ {b} : bePC'[x] = bePC[x]
  BY ZenonT(60), <1>1 DEF Types, BePC
<1>5. Types'
  BY ZenonT(60), <1>1, <1>2, <1>3, <1>4 DEF Types, feVars, clientVars, agentVars, history
<1>6. RequestedFresh' /\ RequestedOnce' /\ AddingFresh' /\ SendInv'
  BY Zenon, <1>1, FrontendFrame DEF feVars, clientVars, history
<1>7. AskedInv' /\ PendingInv' /\ AsyncInv' /\ WireInv' /\ AnswerInv'
  BY ZenonT(60), <1>1 DEF AskedInv, PendingInv, AsyncInv, WireInv, AnswerInv, clientVars,
     history
<1>8. ClaimInv'
  <2>1. /\ dialBackend' = dialBackend /\ answers' = answers /\ beDial' = beDial
        /\ connectID' = connectID /\ pending' = pending
    BY ZenonT(60), <1>1 DEF history
  <2>. QED  BY ZenonT(60), <1>2, <1>4, <2>1 DEF ClaimInv
<1>9. EstablishedInv'
  <2>1. dialBackend' = dialBackend /\ connectID' = connectID
    BY Zenon, <1>1
  <2>. QED  BY SMTT(60), <1>2, <1>3, <2>1 DEF EstablishedInv
<1>. QED  BY ZenonT(60), <1>5, <1>6, <1>7, <1>8, <1>9

(* The claimed dial gets its only outcome when the DIAL_RSP is forwarded. *)
LEMMA BeForwardStep ==
  ASSUME Inv, NEW b \in Backend, BeForward(b)
  PROVE  Inv'
<1> USE DEF Inv, DialInv
<1> DEFINE d == beDial[b]
<1>1. /\ bePC[b] = "forward"
      /\ UNCHANGED <<maps, feVars, beConn, beStream, beIn, beDial, toAgent,
                     asyncVars, clientVars, agentVars, told>>
  BY Zenon DEF BeForward
<1>2. PICK k \in {"ok", "lost"} : Answer({d}, k)
  BY Zenon DEF BeForward
<1>3. PICK pc \in {"recv", "unestablish"} : bePC' = [bePC EXCEPT ![b] = pc]
  BY Zenon DEF BeForward, BeGoto
<1>4. /\ d \in Dial /\ dialBackend[d] = b /\ connectID[d] \in ConnID
      /\ d \notin pending /\ answers[d] = <<>> /\ b # NoBackend
  BY Zenon, <1>1, ConstantsAssumption DEF ClaimInv
<1>5. /\ answers' \in [Dial -> Seq({"ok", "err", "cls", "lost"})]
      /\ answers'[d] = <<k>> /\ \A x \in Dial \ {d} : answers'[x] = answers[x]
  BY SMTT(60), <1>2, <1>4, AnswerLemma
<1>6. /\ bePC' \in [Backend -> BePC] /\ bePC'[b] \in {"recv", "unestablish"}
      /\ \A x \in Backend \ {b} : bePC'[x] = bePC[x]
  BY ZenonT(60), <1>3 DEF Types, BePC
<1>7. Types'
  BY ZenonT(60), <1>1, <1>5, <1>6 DEF Types, maps, feVars, asyncVars, clientVars, agentVars
<1>8. RequestedFresh' /\ RequestedOnce' /\ AddingFresh' /\ SendInv'
  <2>1. \A x \in Dial : Fresh(x) => answers'[x] = answers[x]
    BY Zenon, <1>4, <1>5 DEF Fresh
  <2>. QED  BY Zenon, <1>1, <2>1, FrontendFrame DEF maps, feVars, clientVars
<1>9. AskedInv' /\ PendingInv'
  <2>1. asked' = asked /\ dialBackend' = dialBackend /\ pending' = pending
    BY Zenon, <1>1 DEF clientVars, maps
  <2>2. pending \subseteq Dial
    BY Zenon DEF Types
  <2>. QED  BY ZenonT(60), <1>4, <1>5, <2>1, <2>2 DEF AskedInv, PendingInv
<1>10. AsyncInv' /\ WireInv' /\ EstablishedInv'
  BY Zenon, <1>1 DEF AsyncInv, WireInv, EstablishedInv, maps, asyncVars
<1>11. ClaimInv'
  <2>1. /\ dialBackend' = dialBackend /\ beDial' = beDial
        /\ connectID' = connectID /\ pending' = pending
    BY Zenon, <1>1 DEF maps
  <2>2. ASSUME NEW x \in Backend \ {b}, bePC[x] \in {"establish", "forward"}
        PROVE  beDial[x] \in Dial \ {d}
    BY Zenon, <1>4, <2>2 DEF ClaimInv
  <2>. QED  BY ZenonT(60), <1>4, <1>5, <1>6, <2>1, <2>2 DEF ClaimInv
<1>12. AnswerInv'
  <2>1. Len(answers'[d]) <= 1
    BY <1>5
  <2>2. connectID' = connectID
    BY Zenon, <1>1 DEF maps
  <2>3. ASSUME NEW x \in Dial
        PROVE  /\ Len(answers'[x]) <= 1
               /\ answers'[x] = <<"ok">> => connectID[x] \in ConnID
    <3>1. CASE x = d
      BY Zenon, <1>4, <2>1, <3>1
    <3>2. CASE x # d
      BY Zenon, <1>5, <3>2 DEF AnswerInv
    <3>. QED  BY Zenon, <3>1, <3>2
  <2>. QED  BY Zenon, <2>2, <2>3 DEF AnswerInv
<1>. QED  BY ZenonT(60), <1>7, <1>8, <1>9, <1>10, <1>11, <1>12

(* An entry whose DIAL_RSP could not be forwarded is dropped. *)
LEMMA BeUnestablishStep ==
  ASSUME Inv, NEW b \in Backend, BeUnestablish(b)
  PROVE  Inv'
<1> USE DEF Inv
<1> DEFINE c == connectID[beDial[b]]
<1>1. /\ bePC[b] = "unestablish" /\ bePC' = [bePC EXCEPT ![b] = "recv"]
      /\ established' = [established EXCEPT ![AgentOf[b]][c] = NoDial]
      /\ toAgent' = Deliver(b, {Pkt("CLOSE_REQ", NoDial, c)})
      /\ UNCHANGED <<pending, dialBackend, connectID, dialsInFlight, feVars,
                     beConn, beStream, beIn, beDial, asyncVars, clientVars,
                     agentVars, history>>
  BY Zenon DEF BeUnestablish, BeGoto
<1>2. c \in ConnID /\ AgentOf[b] \in Agent
  BY ZenonT(60), <1>1, ConstantsAssumption DEF DialInv, ClaimInv
<1>3. /\ established' \in [Agent -> [ConnID -> Dial \cup {NoDial}]]
      /\ \A x \in Agent, y \in ConnID :
           established'[x][y] \in {established[x][y], NoDial}
  BY ZenonT(60), <1>1, <1>2 DEF Types
<1>4. /\ toAgent' \in [Backend -> SUBSET Packet]
      /\ \A x \in Backend, p \in Packet :
           p \in toAgent'[x] /\ p.type = "DIAL_REQ" => p \in toAgent[x]
  BY ZenonT(60), <1>1, <1>2, SendCloseLemma
<1>5. /\ bePC' \in [Backend -> BePC]
      /\ \A x \in Backend : bePC'[x] \in {bePC[x], "recv"}
  BY ZenonT(60), <1>1 DEF Types, BePC
<1>6. Types'
  BY ZenonT(60), <1>1, <1>3, <1>4, <1>5
  DEF Types, feVars, asyncVars, clientVars, agentVars, history
<1>. QED  BY Zenon, <1>1, <1>3, <1>4, <1>5, <1>6, QuietStep
          DEF feVars, asyncVars, clientVars, history

(* DATA from an agent changes no map. *)
LEMMA BeDataStep ==
  ASSUME Inv, NEW b \in Backend, BeData(b)
  PROVE  Inv'
<1> USE DEF Inv
<1> DEFINE c == Head(beIn[b]).conn
<1>1. /\ beIn[b] # <<>> /\ BePop(b) /\ Head(beIn[b]).type = "DATA"
      /\ \/ toAgent' = toAgent
         \/ toAgent' = Deliver(b, {Pkt("CLOSE_REQ", NoDial, c)})
      /\ UNCHANGED <<maps, feVars, beConn, beStream, bePC, beDial, asyncVars,
                     clientVars, agentVars, history>>
  BY Zenon DEF BeData, BeHead
<1>2. /\ Head(beIn[b]) \in Packet /\ beIn' \in [Backend -> Seq(Packet)]
      /\ \A x \in Backend : \A i \in DOMAIN beIn'[x] :
           \E j \in DOMAIN beIn[x] : beIn'[x][i] = beIn[x][j]
  BY Zenon, <1>1, BePopLemma
<1>3. c \in ConnID
  BY Zenon, <1>1, <1>2, PacketLemma
<1>4. /\ toAgent' \in [Backend -> SUBSET Packet]
      /\ \A x \in Backend, p \in Packet :
           p \in toAgent'[x] /\ p.type = "DIAL_REQ" => p \in toAgent[x]
  BY Zenon, <1>1, <1>3, SendCloseLemma
<1>5. Types'
  BY ZenonT(60), <1>1, <1>2, <1>4
  DEF Types, maps, feVars, asyncVars, clientVars, agentVars, history
<1>. QED  BY Zenon, <1>1, <1>2, <1>4, <1>5, QuietStep
          DEF maps, feVars, asyncVars, clientVars, history

(* CLOSE_RSP drops an established entry. *)
LEMMA BeCloseRspStep ==
  ASSUME Inv, NEW b \in Backend, BeCloseRsp(b)
  PROVE  Inv'
<1> USE DEF Inv
<1> DEFINE c == Head(beIn[b]).conn
           a == AgentOf[b]
<1>1. /\ beIn[b] # <<>> /\ BePop(b) /\ Head(beIn[b]).type = "CLOSE_RSP"
      /\ established' = [established EXCEPT ![a][c] = NoDial]
      /\ told' = told \cup ({established[a][c]} \ {NoDial})
      /\ UNCHANGED <<pending, dialBackend, connectID, dialsInFlight, feVars,
                     beConn, beStream, bePC, beDial, toAgent, asyncVars,
                     clientVars, agentVars, answers>>
  BY Zenon DEF BeCloseRsp, BeHead
<1>2. /\ Head(beIn[b]) \in Packet /\ beIn' \in [Backend -> Seq(Packet)]
      /\ \A x \in Backend : \A i \in DOMAIN beIn'[x] :
           \E j \in DOMAIN beIn[x] : beIn'[x][i] = beIn[x][j]
  BY Zenon, <1>1, BePopLemma
<1>3. c \in ConnID /\ a \in Agent
  BY ZenonT(60), <1>1, <1>2, PacketLemma, ConstantsAssumption
<1>4. /\ established' \in [Agent -> [ConnID -> Dial \cup {NoDial}]]
      /\ told' \subseteq Dial
      /\ \A x \in Agent, y \in ConnID :
           established'[x][y] \in {established[x][y], NoDial}
  <2>1. /\ established \in [Agent -> [ConnID -> Dial \cup {NoDial}]]
        /\ established' = [established EXCEPT ![a][c] = NoDial]
    BY ZenonT(60), <1>1 DEF Types
  <2>2. told' \subseteq Dial
    <3>1. established[a][c] \in Dial \cup {NoDial}
      BY Zenon, <1>3, <2>1
    <3>2. told \subseteq Dial
      BY ZenonT(60) DEF Types
    <3>. QED  BY Zenon, <1>1, <3>1, <3>2
  <2>. QED  BY SMTT(60), <1>3, <2>1, <2>2
<1>5. Types'
  BY ZenonT(60), <1>1, <1>2, <1>4 DEF Types, feVars, asyncVars, clientVars, agentVars
<1>. QED  BY SMTT(60), <1>1, <1>2, <1>4, <1>5, QuietStep DEF feVars, asyncVars, clientVars

(* removeEstablishedForBackendConn only drops entries. *)
LEMMA BeCleanEstablishedStep ==
  ASSUME Inv, NEW b \in Backend, BeCleanEstablished(b)
  PROVE  Inv'
<1> USE DEF Inv
<1> DEFINE mine == {d \in EstablishedDials : dialBackend[d] = b}
<1>1. /\ removeEstablished(mine) /\ told' = told \cup mine
      /\ bePC' = [bePC EXCEPT ![b] = "done"]
      /\ UNCHANGED <<pending, dialBackend, connectID, dialsInFlight, feVars,
                     beConn, beStream, beIn, beDial, toAgent, asyncVars,
                     clientVars, agentVars, answers>>
  BY ZenonT(60) DEF BeCleanEstablished, BeGoto
<1>2. /\ established' \in [Agent -> [ConnID -> Dial \cup {NoDial}]]
      /\ \A x \in Agent, y \in ConnID :
           established'[x][y] \in {established[x][y], NoDial}
  BY SMTT(60), <1>1 DEF Types, removeEstablished
<1>3. mine \subseteq Dial
  BY SMTT(60) DEF Types, EstablishedDials
<1>4. /\ bePC' \in [Backend -> BePC] /\ told' \subseteq Dial
      /\ \A x \in Backend : bePC'[x] \in {bePC[x], "done"}
  BY ZenonT(60), <1>1, <1>3 DEF Types, BePC
<1>5. Types'
  BY ZenonT(60), <1>1, <1>2, <1>4 DEF Types, feVars, asyncVars, clientVars, agentVars
<1>. QED  BY Zenon, <1>1, <1>2, <1>4, <1>5, QuietStep DEF feVars, asyncVars, clientVars

-----------------------------------------------------------------------------
(* connect, timers and callbacks, and the environment *)

(* connect registers and unregisters the backend. *)
LEMMA ConnectStep ==
  ASSUME Inv, NEW b \in Backend, Connect(b) \/ ConnectReturn(b)
  PROVE  Inv'
<1> USE DEF Inv
<1>1. /\ beConn' \in [Backend -> {"none", "up", "returned"}]
      /\ beStream' \in [Backend -> {"none", "open", "eof", "broken"}]
      /\ UNCHANGED <<maps, feVars, beIn, bePC, beDial, toAgent, asyncVars,
                     clientVars, agentVars, history>>
  BY ZenonT(60) DEF Connect, ConnectReturn, Types
<1>2. Types'
  BY ZenonT(60), <1>1 DEF Types, maps, feVars, asyncVars, clientVars, agentVars, history
<1>. QED  BY ZenonT(60), <1>1, <1>2, QuietStep DEF maps, feVars, asyncVars, clientVars, history

(* A stream that breaks loses a suffix of what it carried. *)
LEMMA CutLemma ==
  ASSUME Types, NEW b \in Backend, NEW n \in 0..Len(beIn[b]),
         beIn' = [beIn EXCEPT ![b] = Prefix(@, n)]
  PROVE  /\ beIn' \in [Backend -> Seq(Packet)]
         /\ \A x \in Backend : \A i \in DOMAIN beIn'[x] :
              \E j \in DOMAIN beIn[x] : beIn'[x][i] = beIn[x][j]
<1>1. beIn[b] \in Seq(Packet)
  BY Zenon DEF Types
<1>2. /\ Prefix(beIn[b], n) \in Seq(Packet)
      /\ \A i \in DOMAIN Prefix(beIn[b], n) :
           i \in DOMAIN beIn[b] /\ Prefix(beIn[b], n)[i] = beIn[b][i]
  BY Zenon, <1>1, PrefixLemma
<1>3. /\ beIn'[b] = Prefix(beIn[b], n) /\ beIn' \in [Backend -> Seq(Packet)]
      /\ \A x \in Backend \ {b} : beIn'[x] = beIn[x]
  BY Zenon, <1>2 DEF Types
<1>. QED  BY Zenon, <1>2, <1>3

(* Retiring a backend ends its stream. *)
LEMMA ConnectRetiredStep ==
  ASSUME Inv, NEW b \in Backend, ConnectRetired(b)
  PROVE  Inv'
<1> USE DEF Inv
<1>1. /\ beConn' \in [Backend -> {"none", "up", "returned"}]
      /\ beStream' \in [Backend -> {"none", "open", "eof", "broken"}]
      /\ UNCHANGED <<maps, feVars, bePC, beDial, toAgent, asyncVars,
                     clientVars, agentVars, history>>
  BY Zenon DEF ConnectRetired, Types
<1>2. PICK n \in 0..Len(beIn[b]) : beIn' = [beIn EXCEPT ![b] = Prefix(@, n)]
  BY Zenon DEF ConnectRetired
<1>3. /\ beIn' \in [Backend -> Seq(Packet)]
      /\ \A x \in Backend : \A i \in DOMAIN beIn'[x] :
           \E j \in DOMAIN beIn[x] : beIn'[x][i] = beIn[x][j]
  BY ZenonT(60), <1>2, CutLemma
<1>4. Types'
  BY ZenonT(60), <1>1, <1>3 DEF Types, maps, feVars, asyncVars, clientVars, agentVars, history
<1>. QED  BY ZenonT(60), <1>1, <1>3, <1>4, QuietStep DEF maps, feVars, asyncVars, clientVars,
             history

(* A timer whose agent is gone does nothing. *)
LEMMA TimerBackendDoneStep ==
  ASSUME Inv, NEW d \in Dial, TimerBackendDone(d)
  PROVE  Inv'
<1> USE DEF Inv
<1>1. /\ timers' \subseteq timers
      /\ UNCHANGED <<maps, feVars, beVars, toAgent, abandoned, hooks,
                     clientVars, agentVars, history>>
  BY Zenon DEF TimerBackendDone
<1>2. Types'
  BY ZenonT(60), <1>1 DEF Types, maps, feVars, beVars, clientVars, agentVars, history
<1>. QED  BY Zenon, <1>1, <1>2, QuietStep DEF maps, feVars, beVars, clientVars, history

(* A frontend stream that ends loses at most a suffix of what it carried. *)
LEMMA FeStreamEndsStep ==
  ASSUME Inv, NEW f \in Frontend, NEW how \in {"eof", "broken"},
         FeStreamEnds(f, how), hooks' \subseteq hooks,
         UNCHANGED <<maps, fePC, feBackend, feDial, firstConnID, feTodo, beVars,
                     toAgent, timers, abandoned, clientVars, agentVars, history>>
  PROVE  Inv'
<1> USE DEF Inv, DialInv
<1>1. feStream' \in [Frontend -> {"open", "eof", "broken"}]
  BY DEF FeStreamEnds, Types
<1>2. PICK n \in 0..Len(feIn[f]) : feIn' = [feIn EXCEPT ![f] = Prefix(@, n)]
  BY Zenon DEF FeStreamEnds
<1>3. feIn[f] \in Seq(Packet)
  BY Zenon DEF Types
<1>4. /\ Prefix(feIn[f], n) \in Seq(Packet)
      /\ \A i \in DOMAIN Prefix(feIn[f], n) :
           i \in DOMAIN feIn[f] /\ Prefix(feIn[f], n)[i] = feIn[f][i]
  BY Zenon, <1>3, PrefixLemma
<1>5. /\ feIn' \in [Frontend -> Seq(Packet)]
      /\ \A g \in Frontend : \A i \in DOMAIN feIn'[g] :
           i \in DOMAIN feIn[g] /\ feIn'[g][i] = feIn[g][i]
  <2>1. /\ feIn' \in [Frontend -> Seq(Packet)] /\ feIn'[f] = Prefix(feIn[f], n)
        /\ \A g \in Frontend \ {f} : feIn'[g] = feIn[g]
    BY ZenonT(60), <1>2, <1>4 DEF Types
  <2>. QED  BY ZenonT(60), <1>4, <2>1
<1>6. Types'
  BY ZenonT(60), <1>1, <1>5 DEF Types, maps, beVars, clientVars, agentVars, history
<1>7. RequestedOnce'
  BY SMTT(60), <1>5 DEF RequestedOnce
<1>8. RequestedFresh' /\ AddingFresh'
  <2>1. \A g \in Frontend, d \in Dial : Requested(g, d)' => Requested(g, d)
    BY Zenon, <1>5 DEF Requested
  <2>. QED  BY Zenon, <2>1, RequestFrame DEF maps, clientVars, history
<1>9. SendInv'
  BY Zenon DEF SendInv, maps
<1>10. /\ AskedInv' /\ PendingInv' /\ AsyncInv' /\ WireInv' /\ ClaimInv'
       /\ EstablishedInv' /\ AnswerInv'
  BY Zenon, MapsFrame DEF maps, beVars, clientVars, history
<1>. QED  BY ZenonT(60), <1>6, <1>7, <1>8, <1>9, <1>10

(* closeWithBackend ends a frontend stream and nothing else. *)
LEMMA CloseHookStep ==
  ASSUME Inv, NEW f \in Frontend, NEW b \in Backend, CloseHook(f, b)
  PROVE  Inv'
<1>1. /\ hooks' \subseteq hooks
      /\ UNCHANGED <<maps, fePC, feBackend, feDial, firstConnID, feTodo, beVars,
                     toAgent, timers, abandoned, clientVars, agentVars, history>>
      /\ UNCHANGED <<feStream, feIn>> \/ FeStreamEnds(f, "broken")
  BY Zenon DEF CloseHook
<1>2. CASE FeStreamEnds(f, "broken")
  BY Zenon, <1>1, <1>2, FeStreamEndsStep
<1>3. CASE UNCHANGED <<feStream, feIn>>
  <2>1. Types'
    BY ZenonT(60), <1>1, <1>3 DEF Inv, Types, maps, beVars, clientVars, agentVars, history
  <2>. QED  BY ZenonT(60), <1>1, <1>3, <2>1, QuietStep
            DEF Inv, maps, beVars, clientVars, history
<1>. QED  BY Zenon, <1>1, <1>2, <1>3

(* A send given up earlier still goes to the dial's backend. *)
LEMMA AbandonedSendStep ==
  ASSUME Inv, NEW d \in Dial, AbandonedSend(d)
  PROVE  Inv'
<1> USE DEF Inv
<1> DEFINE b == dialBackend[d]
           req == Pkt("DIAL_REQ", d, 0)
<1>1. /\ d \in abandoned /\ abandoned' \subseteq abandoned
      /\ toAgent' = Deliver(b, {req})
      /\ UNCHANGED <<maps, feVars, beVars, timers, hooks, clientVars, agentVars,
                     history>>
  BY Zenon DEF AbandonedSend
<1>2. b \in Backend
  BY Zenon, <1>1 DEF DialInv, AsyncInv
<1>3. req \in Packet /\ {req} \in SUBSET Packet /\ req.dial = d
  BY PktLemma
<1>4. /\ toAgent' \in [Backend -> SUBSET Packet]
      /\ \A x \in Backend, p \in Packet :
           p \in toAgent'[x] => p \in toAgent[x] \/ (x = b /\ p \in {req})
  BY Zenon, <1>1, <1>2, <1>3, DeliverLemma
<1>5. \A x \in Backend, p \in Packet :
        p \in toAgent'[x] /\ p.type = "DIAL_REQ" =>
          p \in toAgent[x] \/ dialBackend[p.dial] = x
  BY ZenonT(60), <1>3, <1>4
<1>6. Types'
  BY ZenonT(60), <1>1, <1>4 DEF Types, maps, feVars, beVars, clientVars, agentVars, history
<1>. QED  BY Zenon, <1>1, <1>5, <1>6, QuietStep DEF maps, feVars, beVars, clientVars, history

(* A packet from the agent belongs to the connection it is sent on. *)
LEMMA AgentSendLemma ==
  ASSUME Types, NEW b \in Backend, NEW pkt \in Packet, AgentSend(b, pkt),
         pkt.type \in {"DIAL_RSP", "DIAL_CLS"} => dialBackend[pkt.dial] = b
  PROVE  /\ beIn' \in [Backend -> Seq(Packet)]
         /\ \A x \in Backend : \A i \in DOMAIN beIn'[x] :
              \/ \E j \in DOMAIN beIn[x] : beIn'[x][i] = beIn[x][j]
              \/ beIn'[x][i].type \notin {"DIAL_RSP", "DIAL_CLS"}
              \/ dialBackend[beIn'[x][i].dial] = x
<1>1. beIn[b] \in Seq(Packet)
  BY Zenon DEF Types
<1>2. /\ Append(beIn[b], pkt) \in Seq(Packet)
      /\ \A i \in DOMAIN Append(beIn[b], pkt) :
           \/ i \in DOMAIN beIn[b] /\ Append(beIn[b], pkt)[i] = beIn[b][i]
           \/ Append(beIn[b], pkt)[i] = pkt
  BY Zenon, <1>1, PushLemma
<1>3. /\ beIn'[b] = Append(beIn[b], pkt) /\ beIn' \in [Backend -> Seq(Packet)]
      /\ \A x \in Backend \ {b} : beIn'[x] = beIn[x]
  BY Zenon, <1>2 DEF AgentSend, Types
<1>4. ASSUME NEW x \in Backend, NEW i \in DOMAIN beIn'[x]
      PROVE  \/ \E j \in DOMAIN beIn[x] : beIn'[x][i] = beIn[x][j]
             \/ beIn'[x][i].type \notin {"DIAL_RSP", "DIAL_CLS"}
             \/ dialBackend[beIn'[x][i].dial] = x
  <2>1. CASE x = b
    <3>1. \/ i \in DOMAIN beIn[b] /\ beIn'[b][i] = beIn[b][i]
          \/ beIn'[b][i] = pkt
      BY Zenon, <1>2, <1>3, <2>1
    <3>. QED  BY Zenon, <2>1, <3>1
  <2>2. CASE x # b
    BY Zenon, <1>3, <2>2
  <2>. QED  BY Zenon, <2>1, <2>2
<1>. QED  BY Zenon, <1>3, <1>4

(* A packet that reaches the agent leaves the wire. *)
LEMMA ArrivedLemma ==
  ASSUME Types, NEW b \in Backend, NEW pkt, Arrived(b, pkt)
  PROVE  /\ toAgent' \in [Backend -> SUBSET Packet]
         /\ \A x \in Backend, p \in Packet : p \in toAgent'[x] => p \in toAgent[x]
  BY Zenon DEF Types, Arrived

(* The agent answers a DIAL_REQ on the connection it came from. *)
LEMMA AgentDialOkStep ==
  ASSUME Inv, NEW b \in Backend, NEW d \in Dial, AgentDialOk(b, d)
  PROVE  Inv'
<1> USE DEF Inv
<1> DEFINE c == nextConnID[b]
           rsp == Pkt("DIAL_RSP", d, c)
<1>1. /\ Arrived(b, Pkt("DIAL_REQ", d, 0)) /\ c \in ConnID /\ AgentSend(b, rsp)
      /\ nextConnID' = [nextConnID EXCEPT ![b] = @ + 1]
      /\ remote' = [remote EXCEPT ![b][c] = d]
      /\ UNCHANGED <<maps, feVars, beConn, beStream, bePC, beDial, asyncVars,
                     clientVars, dataSent, history>>
  BY Zenon DEF AgentDialOk
<1>2. dialBackend[d] = b
  BY ZenonT(60), <1>1 DEF Arrived, DialInv, WireInv
<1>3. rsp \in Packet /\ rsp.dial = d
  BY <1>1, PktLemma
<1>4. /\ beIn' \in [Backend -> Seq(Packet)]
      /\ \A x \in Backend : \A i \in DOMAIN beIn'[x] :
           \/ \E j \in DOMAIN beIn[x] : beIn'[x][i] = beIn[x][j]
           \/ beIn'[x][i].type \notin {"DIAL_RSP", "DIAL_CLS"}
           \/ dialBackend[beIn'[x][i].dial] = x
  BY Zenon, <1>1, <1>2, <1>3, AgentSendLemma
<1>5. /\ toAgent' \in [Backend -> SUBSET Packet]
      /\ \A x \in Backend, p \in Packet : p \in toAgent'[x] => p \in toAgent[x]
  BY ZenonT(60), <1>1, ArrivedLemma
<1>6. /\ nextConnID' \in [Backend -> 1..(MaxConn + 1)]
      /\ remote' \in [Backend -> [ConnID -> Dial \cup {NoDial}]]
  BY SMTT(60), <1>1, ConstantsAssumption DEF Types, ConnID
<1>7. Types'
  BY ZenonT(60), <1>1, <1>4, <1>5, <1>6 DEF Types, maps, feVars, asyncVars, clientVars, history
<1>. QED  BY ZenonT(60), <1>1, <1>4, <1>5, <1>7, QuietStep
          DEF maps, feVars, asyncVars, clientVars, history

(* The same of a dial that fails at the agent. *)
LEMMA AgentDialFailsStep ==
  ASSUME Inv, NEW b \in Backend, NEW d \in Dial, AgentDialFails(b, d)
  PROVE  Inv'
<1> USE DEF Inv
<1>1. /\ Arrived(b, Pkt("DIAL_REQ", d, 0))
      /\ UNCHANGED <<maps, feVars, beConn, beStream, bePC, beDial, asyncVars,
                     clientVars, agentVars, history>>
  BY Zenon DEF AgentDialFails
<1>2. PICK type \in {"DIAL_RSP", "DIAL_CLS"} : AgentSend(b, Pkt(type, d, 0))
  BY Zenon DEF AgentDialFails
<1>3. dialBackend[d] = b
  BY Zenon, <1>1 DEF Arrived, DialInv, WireInv
<1>4. Pkt(type, d, 0) \in Packet /\ Pkt(type, d, 0).dial = d
  BY PktLemma
<1>5. /\ beIn' \in [Backend -> Seq(Packet)]
      /\ \A x \in Backend : \A i \in DOMAIN beIn'[x] :
           \/ \E j \in DOMAIN beIn[x] : beIn'[x][i] = beIn[x][j]
           \/ beIn'[x][i].type \notin {"DIAL_RSP", "DIAL_CLS"}
           \/ dialBackend[beIn'[x][i].dial] = x
  BY Zenon, <1>2, <1>3, <1>4, AgentSendLemma
<1>6. /\ toAgent' \in [Backend -> SUBSET Packet]
      /\ \A x \in Backend, p \in Packet : p \in toAgent'[x] => p \in toAgent[x]
  BY ZenonT(60), <1>1, ArrivedLemma
<1>7. Types'
  BY ZenonT(60), <1>1, <1>5, <1>6
  DEF Types, maps, feVars, asyncVars, clientVars, agentVars, history
<1>. QED  BY Zenon, <1>1, <1>5, <1>6, <1>7, QuietStep
          DEF maps, feVars, asyncVars, clientVars, history

(* The other packets of an agent name a connection, not a dial. *)
LEMMA AgentConnStep ==
  ASSUME Inv, NEW b \in Backend, NEW c \in ConnID,
         \/ AgentClose(b, c) \/ AgentDataUnknown(b, c)
         \/ RemoteData(b, c) \/ RemoteClose(b, c)
  PROVE  Inv'
<1> USE DEF Inv
<1>1. /\ remote' \in [Backend -> [ConnID -> Dial \cup {NoDial}]]
      /\ dataSent' \in [Backend -> Nat]
      /\ UNCHANGED <<maps, feVars, beConn, beStream, bePC, beDial, asyncVars,
                     clientVars, nextConnID, history>>
  <2>1. CASE AgentClose(b, c)
    BY ZenonT(60), <2>1 DEF AgentClose, Types
  <2>2. CASE RemoteData(b, c)
    BY SMTT(60), <2>2 DEF RemoteData, Types
  <2>3. CASE RemoteClose(b, c)
    BY ZenonT(60), <2>3 DEF RemoteClose, Types
  <2>4. CASE AgentDataUnknown(b, c)
    BY ZenonT(60), <2>4 DEF AgentDataUnknown, Types, agentVars
  <2>. QED  BY ZenonT(60), <2>1, <2>2, <2>3, <2>4
<1>2. PICK type \in {"CLOSE_RSP", "DATA"} : AgentSend(b, Pkt(type, NoDial, c))
  BY Zenon DEF AgentClose, AgentDataUnknown, RemoteData, RemoteClose
<1>3. Pkt(type, NoDial, c) \in Packet /\ Pkt(type, NoDial, c).type = type
  BY PktLemma
<1>4. /\ beIn' \in [Backend -> Seq(Packet)]
      /\ \A x \in Backend : \A i \in DOMAIN beIn'[x] :
           \/ \E j \in DOMAIN beIn[x] : beIn'[x][i] = beIn[x][j]
           \/ beIn'[x][i].type \notin {"DIAL_RSP", "DIAL_CLS"}
           \/ dialBackend[beIn'[x][i].dial] = x
  BY ZenonT(60), <1>2, <1>3, AgentSendLemma
<1>5. /\ toAgent' \in [Backend -> SUBSET Packet]
      /\ \A x \in Backend, p \in Packet : p \in toAgent'[x] => p \in toAgent[x]
  <2>1. CASE toAgent' = toAgent
    BY ZenonT(60), <2>1 DEF Types
  <2>2. ASSUME NEW pkt, Arrived(b, pkt)
        PROVE  /\ toAgent' \in [Backend -> SUBSET Packet]
               /\ \A x \in Backend, p \in Packet : p \in toAgent'[x] => p \in toAgent[x]
    BY ZenonT(60), <2>2, ArrivedLemma
  <2>. QED  BY ZenonT(60), <2>1, <2>2
            DEF AgentClose, AgentDataUnknown, RemoteData, RemoteClose
<1>6. Types'
  BY ZenonT(60), <1>1, <1>4, <1>5 DEF Types, maps, feVars, asyncVars, clientVars, history
<1>. QED  BY ZenonT(60), <1>1, <1>4, <1>5, <1>6, QuietStep
          DEF maps, feVars, asyncVars, clientVars, history

(* Packets the agent does not answer. *)
LEMMA AgentConsumeStep ==
  ASSUME Inv, NEW b \in Backend, AgentConsume(b)
  PROVE  Inv'
<1> USE DEF Inv
<1>1. PICK pkt : Arrived(b, pkt)
  BY Zenon DEF AgentConsume
<1>2. UNCHANGED <<maps, feVars, beVars, asyncVars, clientVars, agentVars, history>>
  BY Zenon DEF AgentConsume
<1>3. /\ toAgent' \in [Backend -> SUBSET Packet]
      /\ \A x \in Backend, p \in Packet : p \in toAgent'[x] => p \in toAgent[x]
  BY ZenonT(60), <1>1, ArrivedLemma
<1>4. Types'
  BY ZenonT(60), <1>2, <1>3
  DEF Types, maps, feVars, beVars, asyncVars, clientVars, agentVars, history
<1>. QED  BY ZenonT(60), <1>2, <1>3, <1>4, QuietStep
          DEF maps, feVars, beVars, asyncVars, clientVars, history

(* The stream of an agent ends. *)
LEMMA AgentEndStep ==
  ASSUME Inv, NEW b \in Backend, AgentEnd(b)
  PROVE  Inv'
<1> USE DEF Inv
<1>1. /\ beStream' \in [Backend -> {"none", "open", "eof", "broken"}]
      /\ UNCHANGED <<maps, feVars, beConn, bePC, beDial, toAgent, asyncVars,
                     clientVars, agentVars, history>>
  BY SMTT(60), ConstantsAssumption DEF AgentEnd, Types
<1>2. PICK n \in 0..Len(beIn[b]) : beIn' = [beIn EXCEPT ![b] = Prefix(@, n)]
  BY Zenon DEF AgentEnd
<1>3. /\ beIn' \in [Backend -> Seq(Packet)]
      /\ \A x \in Backend : \A i \in DOMAIN beIn'[x] :
           \E j \in DOMAIN beIn[x] : beIn'[x][i] = beIn[x][j]
  BY ZenonT(60), <1>2, CutLemma
<1>4. Types'
  BY ZenonT(60), <1>1, <1>3 DEF Types, maps, feVars, asyncVars, clientVars, agentVars, history
<1>. QED  BY ZenonT(60), <1>1, <1>3, <1>4, QuietStep DEF maps, feVars, asyncVars, clientVars,
             history

(* A client appends to the queue of its own stream. *)
LEMMA ClientSendTypes ==
  ASSUME Types, NEW f \in Frontend, NEW pkt \in Packet, ClientSend(f, pkt)
  PROVE  /\ feIn' \in [Frontend -> Seq(Packet)] /\ sent' \in [Frontend -> Nat]
         /\ feIn[f] \in Seq(Packet) /\ feIn'[f] = Append(feIn[f], pkt)
         /\ \A g \in Frontend \ {f} : feIn'[g] = feIn[g]
         /\ \A i \in DOMAIN feIn'[f] :
              \/ i \in DOMAIN feIn[f] /\ feIn'[f][i] = feIn[f][i]
              \/ i \notin DOMAIN feIn[f] /\ i = Len(feIn[f]) + 1 /\ feIn'[f][i] = pkt
<1>1. feIn[f] \in Seq(Packet)
  BY Zenon DEF Types
<1>2. /\ Append(feIn[f], pkt) \in Seq(Packet)
      /\ \A i \in DOMAIN Append(feIn[f], pkt) :
           \/ i \in DOMAIN feIn[f] /\ Append(feIn[f], pkt)[i] = feIn[f][i]
           \/ /\ i \notin DOMAIN feIn[f] /\ i = Len(feIn[f]) + 1
              /\ Append(feIn[f], pkt)[i] = pkt
  BY Zenon, <1>1, PushLemma
<1>3. /\ feIn' \in [Frontend -> Seq(Packet)]
      /\ feIn'[f] = Append(feIn[f], pkt)
      /\ \A g \in Frontend \ {f} : feIn'[g] = feIn[g]
  BY Zenon, <1>2 DEF ClientSend, Types
<1>4. sent' \in [Frontend -> Nat]
  <2>1. sent \in [Frontend -> Nat] /\ sent' = [sent EXCEPT ![f] = @ + 1]
    BY Zenon DEF ClientSend, Types
  <2>. QED  BY <2>1
<1>. QED  BY Zenon, <1>1, <1>2, <1>3, <1>4

(* What a client sends other than DIAL_REQ requests no dial. *)
LEMMA ClientOtherStep ==
  ASSUME Inv, NEW f \in Frontend, NEW pkt \in Packet, pkt.type # "DIAL_REQ",
         ClientSend(f, pkt), asked' = asked
  PROVE  Inv'
<1> USE DEF Inv, DialInv
<1>1. /\ feIn' \in [Frontend -> Seq(Packet)] /\ sent' \in [Frontend -> Nat]
      /\ \A g \in Frontend \ {f} : feIn'[g] = feIn[g]
      /\ \A i \in DOMAIN feIn'[f] :
           \/ i \in DOMAIN feIn[f] /\ feIn'[f][i] = feIn[f][i]
           \/ feIn'[f][i] = pkt
  BY Zenon, ClientSendTypes
<1>2. UNCHANGED <<maps, fePC, feStream, feBackend, feDial, firstConnID, feTodo,
                  beVars, toAgent, asyncVars, agentVars, history>>
  BY Zenon DEF ClientSend
<1>3. \A g \in Frontend : \A i \in DOMAIN feIn'[g] :
        feIn'[g][i].type = "DIAL_REQ" =>
          i \in DOMAIN feIn[g] /\ feIn'[g][i] = feIn[g][i]
  BY ZenonT(60), <1>1
<1>4. Types'
  BY ZenonT(60), <1>1, <1>2 DEF Types, maps, beVars, asyncVars, agentVars, history
<1>5. RequestedOnce'
  BY SMTT(60), <1>3 DEF RequestedOnce
<1>6. RequestedFresh' /\ AddingFresh'
  <2>1. \A g \in Frontend, d \in Dial : Requested(g, d)' => Requested(g, d)
    BY Zenon, <1>3 DEF Requested
  <2>. QED  BY ZenonT(60), <1>2, <2>1, RequestFrame DEF maps, history
<1>7. SendInv'
  BY Zenon, <1>2 DEF SendInv, maps
<1>8. /\ AskedInv' /\ PendingInv' /\ AsyncInv' /\ WireInv' /\ ClaimInv'
      /\ EstablishedInv' /\ AnswerInv'
  BY Zenon, <1>2, MapsFrame DEF maps, beVars, asyncVars, history
<1>. QED  BY ZenonT(60), <1>4, <1>5, <1>6, <1>7, <1>8

(* A client requests a dial that was never requested before. *)
LEMMA ClientDialStep ==
  ASSUME Inv, NEW f \in Frontend, ClientDial(f)
  PROVE  Inv'
<1> USE DEF Inv, DialInv
<1>1. PICK d \in StreamDials(f) \ asked :
        ClientSend(f, Pkt("DIAL_REQ", d, 0)) /\ asked' = asked \cup {d}
  BY Zenon DEF ClientDial
<1> DEFINE req == Pkt("DIAL_REQ", d, 0)
<1>2. d \in Dial \ asked /\ FrontendOf[d] = f
  BY Zenon DEF StreamDials
<1>3. req \in Packet /\ req.type = "DIAL_REQ" /\ req.dial = d
  BY SMTT(60), <1>2, PktLemma
<1>4. /\ feIn' \in [Frontend -> Seq(Packet)] /\ sent' \in [Frontend -> Nat]
      /\ \A g \in Frontend \ {f} : feIn'[g] = feIn[g]
      /\ \A i \in DOMAIN feIn'[f] :
           \/ i \in DOMAIN feIn[f] /\ feIn'[f][i] = feIn[f][i]
           \/ i \notin DOMAIN feIn[f] /\ i = Len(feIn[f]) + 1 /\ feIn'[f][i] = req
  BY ZenonT(60), <1>1, <1>3, ClientSendTypes
<1>5. UNCHANGED <<maps, fePC, feStream, feBackend, feDial, firstConnID, feTodo,
                  beVars, toAgent, asyncVars, agentVars, history>>
  BY ZenonT(60), <1>1 DEF ClientSend
<1>6. Types'
  BY ZenonT(60), <1>1, <1>2, <1>4, <1>5 DEF Types, maps, beVars, asyncVars, agentVars, history
<1>7. \A g \in Frontend : ~Requested(g, d)
  BY Zenon, <1>2 DEF RequestedFresh, Fresh
<1>8. \A g \in Frontend, x \in Dial :
        Requested(g, x)' => Requested(g, x) \/ (g = f /\ x = d)
  BY Zenon, <1>3, <1>4 DEF Requested
<1>9. RequestedOnce'
  <2>1. SUFFICES ASSUME NEW g \in Frontend, NEW i \in DOMAIN feIn'[g],
                        NEW j \in DOMAIN feIn'[g],
                        feIn'[g][i].type = "DIAL_REQ", feIn'[g][j].type = "DIAL_REQ",
                        feIn'[g][i].dial = feIn'[g][j].dial
                 PROVE  i = j
    BY Zenon DEF RequestedOnce
  <2>2. CASE g # f
    BY ZenonT(60), <1>4, <2>1, <2>2 DEF RequestedOnce
  <2>3. CASE g = f
    <3>1. \A n \in DOMAIN feIn[f] : feIn[f][n].type = "DIAL_REQ" => feIn[f][n].dial # d
      BY Zenon, <1>7 DEF Requested
    <3>2. CASE i \in DOMAIN feIn[f] /\ j \in DOMAIN feIn[f]
      BY ZenonT(60), <1>4, <2>1, <2>3, <3>2 DEF RequestedOnce
    <3>3. CASE i \notin DOMAIN feIn[f] /\ j \notin DOMAIN feIn[f]
      BY ZenonT(60), <1>4, <2>3, <3>3
    <3>4. CASE i \in DOMAIN feIn[f] /\ j \notin DOMAIN feIn[f]
      BY ZenonT(60), <1>3, <1>4, <2>1, <2>3, <3>1, <3>4
    <3>5. CASE i \notin DOMAIN feIn[f] /\ j \in DOMAIN feIn[f]
      BY ZenonT(60), <1>3, <1>4, <2>1, <2>3, <3>1, <3>5
    <3>. QED  BY ZenonT(60), <3>2, <3>3, <3>4, <3>5
  <2>. QED  BY ZenonT(60), <2>2, <2>3
<1>10. RequestedFresh' /\ AddingFresh'
  <2>1. \A x \in Dial : Fresh(x) \/ x = d => Fresh(x)'
    BY ZenonT(60), <1>1, <1>2, <1>5 DEF Fresh, AskedInv, maps, history
  <2>2. RequestedFresh'
    BY ZenonT(60), <1>2, <1>8, <2>1 DEF RequestedFresh
  <2>3. SUFFICES ASSUME NEW g \in Frontend, fePC'[g] = "addDial",
                        NEW x \in Dial, x = feDial[g]
                 PROVE  Fresh(x)' /\ ~Requested(g, x)'
    BY ZenonT(60), <1>5, <2>2 DEF AddingFresh, Fresh, Requested
  <2>4. Fresh(x) /\ ~Requested(g, x) /\ x # d
    BY ZenonT(60), <1>2, <1>5, <2>3 DEF AddingFresh, Fresh
  <2>. QED  BY ZenonT(60), <1>8, <2>1, <2>4
<1>11. SendInv'
  BY ZenonT(60), <1>5 DEF SendInv, maps
<1>12. AskedInv'
  BY ZenonT(60), <1>1, <1>5 DEF AskedInv, maps, history
<1>13. /\ PendingInv' /\ AsyncInv' /\ WireInv' /\ ClaimInv' /\ EstablishedInv'
       /\ AnswerInv'
  BY ZenonT(60), <1>5 DEF PendingInv, AsyncInv, WireInv, ClaimInv, EstablishedInv, AnswerInv,
              maps, beVars, asyncVars, history
<1>. QED  BY ZenonT(60), <1>6, <1>9, <1>10, <1>11, <1>12, <1>13

(* A client gives up a dial. *)
LEMMA ClientCancelStep ==
  ASSUME Inv, NEW f \in Frontend, ClientCancel(f)
  PROVE  Inv'
<1>1. PICK d \in Dial : ClientSend(f, Pkt("DIAL_CLS", d, 0))
  BY Zenon DEF ClientCancel, StreamDials
<1>2. asked' = asked
  BY Zenon DEF ClientCancel
<1>3. Pkt("DIAL_CLS", d, 0) \in Packet /\ Pkt("DIAL_CLS", d, 0).type # "DIAL_REQ"
  BY PktLemma
<1>. QED  BY Zenon, <1>1, <1>2, <1>3, ClientOtherStep

(* A client uses a connection ID it was told, or a stray one. *)
LEMMA ClientUseStep ==
  ASSUME Inv, NEW f \in Frontend, ClientUse(f)
  PROVE  Inv'
<1>1. PICK c \in Known(f) \cup StrayConn, type \in {"DATA", "CLOSE_REQ"} :
        ClientSend(f, Pkt(type, NoDial, c))
  BY Zenon DEF ClientUse
<1>2. asked' = asked
  BY Zenon DEF ClientUse
<1>3. c \in ConnID
  <2>1. CASE c \in StrayConn
    BY Zenon, <2>1, ConstantsAssumption
  <2>2. CASE c \in Known(f)
    <3>1. PICK d \in Dial : /\ c = connectID[d]
                            /\ \E i \in DOMAIN answers[d] : answers[d][i] = "ok"
      BY ZenonT(60), <2>2 DEF Known, StreamDials
    <3>2. answers[d] \in Seq({"ok", "err", "cls", "lost"}) /\ Len(answers[d]) <= 1
      BY ZenonT(60) DEF Inv, Types, DialInv, AnswerInv
    <3>3. answers[d] = <<"ok">>
      BY <3>1, <3>2
    <3>. QED  BY Zenon, <3>1, <3>3 DEF Inv, DialInv, AnswerInv
  <2>. QED  BY Zenon, <2>1, <2>2
<1>4. Pkt(type, NoDial, c) \in Packet /\ Pkt(type, NoDial, c).type # "DIAL_REQ"
  BY Zenon, <1>3 DEF Packet, Pkt
<1>. QED  BY Zenon, <1>1, <1>2, <1>4, ClientOtherStep

(* The stream of a client ends. *)
LEMMA ClientEndStep ==
  ASSUME Inv, NEW f \in Frontend, ClientEnd(f)
  PROVE  Inv'
<1>1. PICK how \in FrontendEnds : FeStreamEnds(f, how)
  BY Zenon DEF ClientEnd
<1>2. how \in {"eof", "broken"}
  BY Zenon, ConstantsAssumption
<1>3. /\ hooks' \subseteq hooks
      /\ UNCHANGED <<maps, fePC, feBackend, feDial, firstConnID, feTodo, beVars,
                     toAgent, timers, abandoned, clientVars, agentVars, history>>
  BY Zenon DEF ClientEnd, asyncVars
<1>. QED  BY Zenon, <1>1, <1>2, <1>3, FeStreamEndsStep

-----------------------------------------------------------------------------
(* Invariance *)

(* A server that has just started satisfies the invariant. *)
LEMMA InitInv == Init => Inv
<1> SUFFICES ASSUME Init PROVE Inv
  BY Zenon
<1> USE ConstantsAssumption DEF Init
<1>1. Types
  BY ZenonT(60), IDRanges, NothingYet DEF Types, FePC, BePC
<1>2. RequestedFresh /\ RequestedOnce /\ AddingFresh
  BY SMTT(60) DEF RequestedFresh, RequestedOnce, AddingFresh, Requested
<1>3. SendInv /\ AskedInv /\ PendingInv /\ AsyncInv /\ WireInv
  BY SMTT(60) DEF SendInv, AskedInv, PendingInv, AsyncInv, WireInv
<1>4. ClaimInv /\ EstablishedInv /\ AnswerInv
  BY DEF ClaimInv, EstablishedInv, AnswerInv
<1>. QED  BY ZenonT(60), <1>1, <1>2, <1>3, <1>4 DEF Inv, DialInv

(* Every step of every goroutine, client and agent keeps the invariant. *)
LEMMA NextInv == Inv /\ [Next]_vars => Inv'
<1> SUFFICES ASSUME Inv, [Next]_vars PROVE Inv'
  BY Zenon
<1>1. ASSUME NEW f \in Frontend, serveRecvFrontend(f) PROVE Inv'
  BY ZenonT(60), <1>1, FeGetBackendStep, FeNoBackendStep, FeAddDialStep, FeSendDialStep,
     FeDialSentStep, FeDialFailedStep, FeCloseReqStep, FeDialClsStep, FeDataStep,
     FeRecvClosedStep DEF serveRecvFrontend
<1>2. ASSUME NEW f \in Frontend, proxyCleanup(f) PROVE Inv'
  BY Zenon, <1>2, FeCleanPendingStep, FeCleanSendStep, FeCleanEstablishedStep,
     FeReturnStep DEF proxyCleanup
<1>3. ASSUME NEW b \in Backend, serveRecvBackend(b) PROVE Inv'
  BY ZenonT(60), <1>3, BeDialRspUnknownStep, BeDialRspErrorStep, BeDialRspOkStep,
     addEstablishedStep, BeForwardStep, BeUnestablishStep, BeDialClsStep,
     BeDataStep, BeCloseRspStep, BeCleanPendingStep, BeCleanEstablishedStep
  DEF serveRecvBackend
<1>4. ASSUME NEW b \in Backend,
             Connect(b) \/ ConnectReturn(b) \/ ConnectRetired(b)
      PROVE  Inv'
  BY Zenon, <1>4, ConnectStep, ConnectRetiredStep
<1>5. ASSUME NEW d \in Dial,
             AbandonedSend(d) \/ TimerFires(d) \/ TimerBackendDone(d)
      PROVE  Inv'
  BY Zenon, <1>5, AbandonedSendStep, TimerFiresStep, TimerBackendDoneStep
<1>6. ASSUME NEW f \in Frontend, NEW b \in Backend, CloseHook(f, b) PROVE Inv'
  BY Zenon, <1>6, CloseHookStep
<1>7. ASSUME Environment PROVE Inv'
  <2>1. ASSUME NEW f \in Frontend,
               ClientDial(f) \/ ClientCancel(f) \/ ClientUse(f) \/ ClientEnd(f)
        PROVE  Inv'
    BY ZenonT(60), <2>1, ClientDialStep, ClientCancelStep, ClientUseStep, ClientEndStep
  <2>2. ASSUME NEW b \in Backend, AgentReplies(b) PROVE Inv'
    BY Zenon, <2>2, AgentDialOkStep, AgentDialFailsStep, AgentConnStep DEF AgentReplies
  <2>3. ASSUME NEW b \in Backend, AgentConsume(b) \/ AgentEnd(b) PROVE Inv'
    BY Zenon, <2>3, AgentConsumeStep, AgentEndStep
  <2>4. ASSUME NEW b \in Backend, NEW c \in ConnID,
               RemoteData(b, c) \/ RemoteClose(b, c)
        PROVE  Inv'
    BY Zenon, <2>4, AgentConnStep
  <2>. QED  BY ZenonT(60), <1>7, <2>1, <2>2, <2>3, <2>4 DEF Environment
<1>8. CASE UNCHANGED vars
  <2> USE <1>8 DEF Inv, DialInv, vars, maps, feVars, beVars, asyncVars,
                   clientVars, agentVars, history
  <2>1. Types'
    BY ZenonT(60) DEF Types
  <2>2. \A a \in Agent, c \in ConnID : established'[a][c] = established[a][c]
    BY Zenon
  <2>. QED  BY ZenonT(60), <2>1, <2>2, QuietStep
<1>. QED  BY ZenonT(60), <1>1, <1>2, <1>3, <1>4, <1>5, <1>6, <1>7, <1>8 DEF Next

(* The inductive invariant holds in every reachable state. *)
THEOREM Invariance == Spec => []Inv
  BY InitInv, NextInv, PTL DEF Spec

-----------------------------------------------------------------------------
(* Outcomes, routing and what ends leave behind *)

(* For any number of streams, dials and agent connections, a dial gets at  *)
(* most one outcome, and none while it is pending: DIAL_RSP, DIAL_CLS, the *)
(* send error, the timer and the loss of the agent exclude each other.     *)
THEOREM DialAnsweredOnce == Spec => []AnsweredOnce
<1>1. Inv => AnsweredOnce
  BY Zenon DEF Inv, DialInv, AnswerInv, PendingInv, AnsweredOnce
<1>. QED  BY <1>1, Invariance, PTL

(* A dial claimed by serveRecvBackend is no longer pending, is claimed by  *)
(* no other connection, and belongs to the connection that claimed it.     *)
THEOREM DialHasOneOwner == Spec => []OneOwner
<1>1. Inv => OneOwner
  BY DEF Inv, DialInv, ClaimInv, OneOwner, Claimed
<1>. QED  BY <1>1, Invariance, PTL

(* If no two connections of one agent ID exist, what an agent sends is     *)
(* routed to a client that dialed over that agent's connection.            *)
THEOREM RoutingIsCorrect ==
  ASSUME OneConnPerAgent  PROVE Spec => []RoutedToItsClient
<1>1. Inv => RoutedToItsClient
  <2> SUFFICES ASSUME Inv, NEW b \in Backend,
                      BeHead(b, "DATA") \/ BeHead(b, "CLOSE_RSP")
               PROVE  LET d == established[AgentOf[b]][Head(beIn[b]).conn]
                      IN  d # NoDial => dialBackend[d] = b
    BY ZenonT(60) DEF RoutedToItsClient
  <2>1. beIn[b] \in Seq(Packet) /\ beIn[b] # <<>>
    BY ZenonT(60) DEF Inv, Types, BeHead
  <2>2. Head(beIn[b]) \in Packet
    BY Zenon, <2>1, PopLemma
  <2>3. Head(beIn[b]).conn \in ConnID /\ AgentOf[b] \in Agent
    BY ZenonT(60), <2>2, PacketLemma, ConstantsAssumption DEF BeHead
  <2>. QED  BY SMTT(60), <2>3 DEF Inv, DialInv, EstablishedInv, OneConnPerAgent
<1>. QED  BY <1>1, Invariance, PTL

(* The stages of streams and connections agree with how they ended. *)
THEOREM EndsInvariance == Spec => []EndsInv
BY Invariance, InitEnds, EndsStep, PTL DEF Spec

(* No stream has ended when the server starts. *)
LEMMA InitStream == Init => StreamInv
<1>. SUFFICES ASSUME Init  PROVE StreamInv
  BY SMTT(60)
<1>1. \A f \in Frontend : feStream[f] = "open" /\ fePC[f] = "serve"
  BY DEF Init
<1>. QED  BY Zenon, <1>1 DEF StreamInv

(* No agent is lost when the server starts. *)
LEMMA InitLoss == Init => LossInv
<1>. SUFFICES ASSUME Init  PROVE LossInv
  BY SMTT(60)
<1>1. \A b \in Backend : beStream[b] = "none" /\ bePC[b] = "recv"
  BY DEF Init
<1>. QED  BY Zenon, <1>1 DEF LossInv

(* Whatever its dials do at that moment, a stream that has been cleaned up *)
(* leaves neither a pending nor an established entry, provided that its    *)
(* end breaks the stream: with an end of file alone the sends to the       *)
(* client do not fail.                                                     *)
THEOREM StreamsLeaveNothing ==
  ASSUME "eof" \notin FrontendEnds  PROVE Spec => []StreamLeavesNothing
<1>1. Inv /\ EndsInv /\ StreamInv /\ [Next]_vars => StreamInv'
  BY StreamStep
<1>2. StreamInv => StreamLeavesNothing
  BY Zenon DEF StreamInv, StreamLeavesNothing
<1>. QED  BY <1>1, <1>2, Invariance, EndsInvariance, InitStream, PTL DEF Spec

(* The invariant of the connections that the agents hold. *)
THEOREM RemoteInvariance == ASSUME OneConnPerAgent  PROVE Spec => []RemoteInv
<1>1. Inv /\ Inv' /\ EndsInv /\ RemoteInv /\ [Next]_vars => RemoteInv'
  BY RemoteStep
<1>. QED  BY <1>1, Invariance, EndsInvariance, InitRemote, PTL DEF Spec

(* An agent whose stream is open holds no connection that the server has   *)
(* lost track of, whichever of DIAL_RSP, CLOSE_RSP, the clean-up of the    *)
(* stream and the cancelled dial comes first.                              *)
THEOREM NoRemoteLeaks == ASSUME OneConnPerAgent  PROVE Spec => []NoLeakedRemote
<1>1. RemoteInv => NoLeakedRemote
  BY Zenon DEF RemoteInv, TrackedInv, Tracked, Closing, NoLeakedRemote
<1>. QED  BY <1>1, RemoteInvariance, PTL

(* An agent that is lost leaves no entry behind, and no client that was    *)
(* told of a connection is left without its close, provided that the loss  *)
(* breaks the agent's stream.                                              *)
THEOREM LostAgentsAreSettled ==
  ASSUME OneConnPerAgent, "eof" \notin BackendEnds
  PROVE  Spec => []LostAgentIsSettled
<1>1. Inv /\ EndsInv /\ LossInv /\ [Next]_vars => LossInv'
  BY LossStep
<1>2. LossInv /\ RemoteInv => LostAgentIsSettled
  <2>1. LossInv => BackendLeavesNothing
    BY Zenon DEF LossInv, BackendLeavesNothing
  <2>2. RemoteInv => NoSilentClose
    BY Zenon DEF RemoteInv
  <2>. QED  BY Zenon, <2>1, <2>2 DEF LostAgentIsSettled
<1>. QED  BY <1>1, <1>2, Invariance, EndsInvariance, RemoteInvariance, InitLoss, PTL DEF Spec

-----------------------------------------------------------------------------
(* The count of pending dials *)

Counted == InFlightIsPending /\ dialsInFlight \in [Backend -> Nat]

(* A step that leaves the pending dials, their backends and the counts. *)
Uncounted == UNCHANGED <<pending, dialBackend, dialsInFlight>>

(* A step that removes pending dials. *)
Removes == dialBackend' = dialBackend /\ \E S : PendingRemove(S)

(* The goroutines of a frontend stream count every dial they add and every *)
(* one they remove.                                                        *)
LEMMA FrontendCounts ==
  ASSUME NEW f \in Frontend, serveRecvFrontend(f) \/ proxyCleanup(f)
  PROVE  Uncounted \/ Removes \/ FeAddDial(f)
<1> USE DEF Uncounted, Removes
<1>1. FeGetBackend(f) \/ FeNoBackend(f) \/ FeSendDial(f) \/ FeDialSent(f) => Uncounted
  BY Zenon DEF FeGetBackend, FeNoBackend, FeSendDial, FeDialSent, maps
<1>2. FeDialFailed(f) => Removes
  BY Zenon DEF FeDialFailed
<1>3. FeDialCls(f) => Removes
  BY Zenon DEF FeDialCls
<1>4. FeCloseReq(f) \/ FeData(f) \/ FeRecvClosed(f) => Uncounted
  BY Zenon DEF FeCloseReq, FeData, FeRecvClosed, maps
<1>5. FeCleanPending(f) => Removes
  BY Zenon DEF FeCleanPending
<1>6. FeCleanSend(f) \/ FeCleanEstablished(f) \/ FeReturn(f) => Uncounted
  BY Zenon DEF FeCleanSend, FeCleanEstablished, FeReturn, maps
<1>. QED  BY ZenonT(60), <1>1, <1>2, <1>3, <1>4, <1>5, <1>6
          DEF serveRecvFrontend, proxyCleanup

(* So do those of an agent connection. *)
LEMMA BackendCounts ==
  ASSUME NEW b \in Backend, serveRecvBackend(b)
  PROVE  Uncounted \/ Removes
<1> USE DEF Uncounted, Removes
<1>1. BeDialRspUnknown(b) => Uncounted
  BY Zenon DEF BeDialRspUnknown, maps
<1>2. BeDialRspError(b) => Removes
  BY Zenon DEF BeDialRspError
<1>3. BeDialRspOk(b) => Removes
  BY Zenon DEF BeDialRspOk
<1>4. addEstablished(b) => Uncounted
  BY Zenon DEF addEstablished
<1>5. BeForward(b) \/ BeUnestablish(b) => Uncounted
  BY Zenon DEF BeForward, BeUnestablish, maps
<1>6. BeDialCls(b) => Removes
  BY Zenon DEF BeDialCls
<1>7. BeData(b) \/ BeCloseRsp(b) => Uncounted
  BY Zenon DEF BeData, BeCloseRsp, maps
<1>8. BeCleanPending(b) => Removes
  BY Zenon DEF BeCleanPending
<1>9. BeCleanEstablished(b) => Uncounted
  BY Zenon DEF BeCleanEstablished
<1>. QED  BY ZenonT(60), <1>1, <1>2, <1>3, <1>4, <1>5, <1>6, <1>7, <1>8, <1>9
          DEF serveRecvBackend

(* connect, the timers, the close hooks and the peers of the server: only  *)
(* a timer removes a dial.                                                 *)
LEMMA OthersCount ==
  ASSUME \/ \E b \in Backend : Connect(b) \/ ConnectReturn(b) \/ ConnectRetired(b)
         \/ \E d \in Dial : AbandonedSend(d) \/ TimerFires(d) \/ TimerBackendDone(d)
         \/ \E f \in Frontend, b \in Backend : CloseHook(f, b)
         \/ Environment
  PROVE  Uncounted \/ Removes
<1> USE DEF Uncounted, Removes
<1>1. ASSUME NEW b \in Backend, Connect(b) \/ ConnectReturn(b) \/ ConnectRetired(b)
      PROVE  Uncounted
  BY Zenon, <1>1 DEF Connect, ConnectReturn, ConnectRetired, maps
<1>2. ASSUME NEW d \in Dial, AbandonedSend(d) \/ TimerBackendDone(d)
      PROVE  Uncounted
  BY Zenon, <1>2 DEF AbandonedSend, TimerBackendDone, maps
<1>3. ASSUME NEW d \in Dial, TimerFires(d) PROVE Removes
  BY Zenon, <1>3 DEF TimerFires
<1>4. ASSUME NEW f \in Frontend, NEW b \in Backend, CloseHook(f, b) PROVE Uncounted
  BY Zenon, <1>4 DEF CloseHook, maps
<1>5. ASSUME Environment PROVE Uncounted
  <2>1. ASSUME NEW f \in Frontend,
               ClientDial(f) \/ ClientCancel(f) \/ ClientUse(f) \/ ClientEnd(f)
        PROVE  Uncounted
    BY Zenon, <2>1 DEF ClientDial, ClientCancel, ClientUse, ClientEnd, ClientSend, maps
  <2>2. ASSUME NEW b \in Backend, AgentReplies(b) PROVE Uncounted
    BY Zenon, <2>2 DEF AgentReplies, AgentDialOk, AgentDialFails, AgentClose,
                       AgentDataUnknown, AgentSend, maps
  <2>3. ASSUME NEW b \in Backend, AgentConsume(b) \/ AgentEnd(b) PROVE Uncounted
    BY Zenon, <2>3 DEF AgentConsume, AgentEnd, maps
  <2>4. ASSUME NEW b \in Backend, NEW c \in ConnID, RemoteData(b, c) \/ RemoteClose(b, c)
        PROVE  Uncounted
    BY Zenon, <2>4 DEF RemoteData, RemoteClose, AgentSend, maps
  <2>. QED  BY ZenonT(60), <1>5, <2>1, <2>2, <2>3, <2>4 DEF Environment
<1>. QED  BY ZenonT(60), <1>1, <1>2, <1>3, <1>4, <1>5

INSTANCE FiniteSetTheorems

(* What PendingDialManager.Remove, removeForBackend and removeForStream do *)
(* to dialsInFlight: it keeps counting the pending dials of each backend.  *)
LEMMA RemoveKeepsCount ==
  ASSUME NEW S, pending \subseteq Dial, InFlightIsPending,
         dialBackend' = dialBackend, PendingRemove(S)
  PROVE  InFlightIsPending' /\ dialsInFlight' \in [Backend -> Nat]
<1>1. SUFFICES ASSUME NEW b \in Backend
               PROVE  /\ dialsInFlight'[b] =
                           Cardinality({d \in pending' : dialBackend[d] = b})
                      /\ dialsInFlight'[b] \in Nat
  BY Zenon DEF PendingRemove, InFlightAfter, InFlightIsPending
<1> DEFINE P == {d \in pending : dialBackend[d] = b}
           R == {d \in S \cap pending : dialBackend[d] = b}
<1>2. IsFiniteSet(P)
  <2>1. P \subseteq Dial
    BY Zenon
  <2>. QED  BY ZenonT(60), <2>1, ConstantsAssumption, FS_Subset
<1>3. R \subseteq P
  BY Zenon
<1>4. /\ IsFiniteSet(P \ R)
      /\ Cardinality(P \ R) = Cardinality(P) - Cardinality(P \cap R)
  BY ZenonT(60), <1>2, FS_Difference
<1>5. P \cap R = R /\ P \ R = {d \in pending' : dialBackend[d] = b}
  BY Zenon DEF PendingRemove
<1>6. dialsInFlight'[b] = dialsInFlight[b] - Cardinality(R)
  BY Zenon DEF PendingRemove, InFlightAfter
<1>7. dialsInFlight[b] = Cardinality(P)
  BY Zenon DEF InFlightIsPending
<1>8. Cardinality(P \ R) \in Nat
  BY ZenonT(60), <1>4, FS_CardinalityType
<1>9. dialsInFlight'[b] = Cardinality(P \ R)
  BY ZenonT(60), <1>4, <1>5, <1>6, <1>7
<1>. QED  BY ZenonT(60), <1>5, <1>8, <1>9

(* The same of Add, for a dial that is not pending. *)
LEMMA AddKeepsCount ==
  ASSUME NEW d \in Dial \ pending, NEW b \in Backend, pending \subseteq Dial,
         dialBackend \in [Dial -> Backend \cup {NoBackend}],
         dialsInFlight \in [Backend -> Nat],
         InFlightIsPending, PendingAdd(d, b)
  PROVE  InFlightIsPending' /\ dialsInFlight' \in [Backend -> Nat]
<1> DEFINE P(x) == {e \in pending : dialBackend[e] = x}
<1>1. ASSUME NEW x \in Backend
      PROVE  InFlightAfter({d} \cap pending)[x] = dialsInFlight[x]
  <2>1. {e \in {d} \cap pending : dialBackend[e] = x} = {}
    BY Zenon
  <2>2. Cardinality({e \in {d} \cap pending : dialBackend[e] = x}) = 0
    BY ZenonT(60), <2>1, FS_EmptySet
  <2>3. InFlightAfter({d} \cap pending)[x] = dialsInFlight[x] - 0
    BY Zenon, <2>2 DEF InFlightAfter
  <2>. QED  BY SMTT(60), <2>3
<1>2. dialsInFlight' = [dialsInFlight EXCEPT ![b] = @ + 1]
  BY ZenonT(60), <1>1 DEF PendingAdd, InFlightAfter
<1>3. SUFFICES ASSUME NEW x \in Backend
               PROVE  dialsInFlight'[x] =
                        Cardinality({e \in pending' : dialBackend'[e] = x})
  BY <1>2 DEF InFlightIsPending
<1>4. CASE x = b
  <2>1. {e \in pending' : dialBackend'[e] = x} = P(b) \cup {d}
    BY Zenon, <1>4 DEF PendingAdd
  <2>2. IsFiniteSet(P(b))
    <3>1. P(b) \subseteq Dial
      BY Zenon
    <3>. QED  BY ZenonT(60), <3>1, ConstantsAssumption, FS_Subset
  <2>3. d \notin P(b)
    BY Zenon
  <2>4. Cardinality(P(b) \cup {d}) = Cardinality(P(b)) + 1
    BY ZenonT(60), <2>2, <2>3, FS_AddElement
  <2>5. dialsInFlight[b] = Cardinality(P(b))
    BY Zenon DEF InFlightIsPending
  <2>. QED  BY ZenonT(60), <1>2, <1>4, <2>1, <2>4, <2>5
<1>5. CASE x # b
  <2>1. {e \in pending' : dialBackend'[e] = x} = P(x)
    BY Zenon, <1>5 DEF PendingAdd
  <2>2. dialsInFlight[x] = Cardinality(P(x))
    BY Zenon DEF InFlightIsPending
  <2>. QED  BY ZenonT(60), <1>2, <1>5, <2>1, <2>2
<1>. QED  BY ZenonT(60), <1>4, <1>5

(* Every step keeps the count equal to the number of pending dials. *)
LEMMA NextCounted == Inv /\ Counted /\ [Next]_vars => Counted'
<1> SUFFICES ASSUME Inv, Counted, [Next]_vars PROVE Counted'
  BY ZenonT(60)
<1>1. Types /\ pending \subseteq Dial
  BY ZenonT(60) DEF Inv, Types
<1>2. CASE Uncounted
  BY Zenon, <1>2 DEF Uncounted, Counted, InFlightIsPending
<1>3. CASE Removes
  BY ZenonT(60), <1>1, <1>3, RemoveKeepsCount DEF Removes, Counted
<1>4. ASSUME NEW f \in Frontend, FeAddDial(f) PROVE Counted'
  <2>1. fePC[f] = "addDial" /\ PendingAdd(feDial[f], feBackend[f])
    BY Zenon, <1>4 DEF FeAddDial
  <2>2. feDial[f] \in Dial \ pending /\ feBackend[f] \in Backend
    <3>1. feDial[f] \in Dial /\ feBackend[f] \in Backend /\ Fresh(feDial[f])
      BY ZenonT(60), <2>1 DEF Inv, DialInv, AddingFresh
    <3>2. feDial[f] \notin pending
      BY ZenonT(60), <3>1, ConstantsAssumption DEF Inv, DialInv, PendingInv, Fresh
    <3>. QED  BY ZenonT(60), <3>1, <3>2
  <2>3. dialBackend \in [Dial -> Backend \cup {NoBackend}]
    BY ZenonT(60), <1>1 DEF Types
  <2>4. dialsInFlight \in [Backend -> Nat] /\ InFlightIsPending
    BY Zenon DEF Counted
  <2>. QED  BY ZenonT(60), <1>1, <2>1, <2>2, <2>3, <2>4, AddKeepsCount DEF Counted
<1>5. CASE UNCHANGED vars
  BY ZenonT(60), <1>2, <1>5 DEF vars, maps, Uncounted
<1>. QED  BY ZenonT(60), <1>2, <1>3, <1>4, <1>5, FrontendCounts, BackendCounts, OthersCount
          DEF Next

(* No dial is pending, and none is counted, when the server starts. *)
LEMMA InitCounted == Init => Counted
<1> SUFFICES ASSUME Init PROVE Counted
  BY Zenon
<1>1. \A b \in Backend : {d \in pending : dialBackend[d] = b} = {}
  BY Zenon DEF Init
<1>2. \A b \in Backend : dialsInFlight[b] = 0 /\ dialsInFlight \in [Backend -> Nat]
  BY Zenon DEF Init
<1>3. dialsInFlight \in [Backend -> Nat]
  BY Zenon DEF Init
<1>. QED  BY ZenonT(60), <1>1, <1>2, <1>3, FS_EmptySet DEF Counted, InFlightIsPending

(* The count that dialCost reads is the number of pending dials, whatever  *)
(* path removes them.                                                      *)
THEOREM InFlightCounts == Spec => []InFlightIsPending
<1>1. Counted => InFlightIsPending
  BY Zenon DEF Counted
<1>. QED  BY <1>1, Invariance, InitCounted, NextCounted, PTL DEF Spec

(* The maps and goroutines of the server keep their types; in particular   *)
(* dialsInFlight is never negative.                                        *)
THEOREM TypeCorrect == Spec => []TypeOK
<1>1. Inv /\ Counted => TypeOK
  BY Zenon DEF Inv, Counted, TypeOK
<1>. QED  BY <1>1, Invariance, InitCounted, NextCounted, PTL DEF Spec

(* The end of a stream leaves nothing in the maps and no connection at an  *)
(* agent, and does not disturb the count of the dials that stay.           *)
THEOREM EndedStreamsAreSettled ==
  ASSUME OneConnPerAgent, "eof" \notin FrontendEnds
  PROVE  Spec => []EndedStreamIsSettled
<1>1. InFlightIsPending /\ NoLeakedRemote /\ StreamLeavesNothing => EndedStreamIsSettled
  BY Zenon DEF EndedStreamIsSettled
<1>. QED  BY <1>1, InFlightCounts, NoRemoteLeaks, StreamsLeaveNothing, PTL

=============================================================================
