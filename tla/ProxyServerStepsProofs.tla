----------------------- MODULE ProxyServerStepsProofs -----------------------
(***************************************************************************)
(* What the operations of ProxyServer do to its tables and channels; that  *)
(* the steps of the goroutines of a frontend stream keep the inductive     *)
(* invariant Inv; and how the goroutines end: what each step leaves alone  *)
(* of the streams and connections of the others, that the clean-ups of     *)
(* proxy and serveRecvBackend leave nothing of what they clean up, and     *)
(* that the server keeps track of the connections that the agents hold.    *)
(***************************************************************************)
EXTENDS ProxyServerInvariant, TLAPS

-----------------------------------------------------------------------------
(* Queues, packets and answers *)

(* Head and Tail of a non-empty packet queue. *)
LEMMA PopLemma ==
  ASSUME NEW s \in Seq(Packet), s # <<>>
  PROVE  /\ Head(s) \in Packet /\ Tail(s) \in Seq(Packet)
         /\ 1 \in DOMAIN s /\ Head(s) = s[1]
         /\ \A i \in DOMAIN Tail(s) :
              i + 1 \in DOMAIN s /\ i + 1 # 1 /\ Tail(s)[i] = s[i + 1]
  OBVIOUS

(* Appending a packet to a queue. *)
LEMMA PushLemma ==
  ASSUME NEW s \in Seq(Packet), NEW p \in Packet
  PROVE  /\ Append(s, p) \in Seq(Packet)
         /\ \A i \in DOMAIN Append(s, p) :
              \/ i \in DOMAIN s /\ Append(s, p)[i] = s[i]
              \/ i \notin DOMAIN s /\ i = Len(s) + 1 /\ Append(s, p)[i] = p
  OBVIOUS

(* A prefix of a packet queue, what a broken stream leaves of it. *)
LEMMA PrefixLemma ==
  ASSUME NEW s \in Seq(Packet), NEW n \in 0..Len(s)
  PROVE  /\ Prefix(s, n) \in Seq(Packet)
         /\ \A i \in DOMAIN Prefix(s, n) :
              i \in DOMAIN s /\ Prefix(s, n)[i] = s[i]
  BY DEF Prefix

(* Which fields a packet type carries. *)
LEMMA PacketLemma ==
  ASSUME NEW p \in Packet
  PROVE  /\ p.conn \in 0..MaxConn
         /\ p.type \in {"DIAL_REQ", "DIAL_RSP", "DIAL_CLS"} => p.dial \in Dial
         /\ p.type \in {"DATA", "CLOSE_REQ", "CLOSE_RSP"} => p.conn \in ConnID
  BY DEF Packet, ConnID

(* The packets that are built, and their fields. *)
LEMMA PktLemma ==
  /\ \A t \in {"DIAL_REQ", "DIAL_RSP", "DIAL_CLS"}, d \in Dial, c \in {0} \cup ConnID :
       Pkt(t, d, c) \in Packet
  /\ \A t \in {"DATA", "CLOSE_REQ", "CLOSE_RSP"}, c \in ConnID :
       Pkt(t, NoDial, c) \in Packet
  /\ \A t, d, c : /\ Pkt(t, d, c).type = t
                  /\ Pkt(t, d, c).dial = d
                  /\ Pkt(t, d, c).conn = c
<1>1. {0} \cup ConnID \subseteq 0..MaxConn
  BY ConstantsAssumption DEF ConnID
<1>. QED  BY Zenon, <1>1 DEF Packet, Pkt

(* Packets that agree have the same fields. *)
LEMMA PktSame ==
  ASSUME NEW t, NEW d, NEW e, NEW c, NEW f, Pkt(t, e, f) = Pkt(t, d, c)
  PROVE  e = d /\ f = c
BY DEF Pkt

(* The ranges of connection IDs. *)
LEMMA IDRanges ==
  /\ 0 \in 0..MaxConn /\ 1 \in 1..(MaxConn + 1)
  /\ ConnID \subseteq 0..MaxConn /\ ConnID \subseteq Int /\ 1..(MaxConn + 1) \subseteq Nat
  /\ \A c \in 0..MaxConn : c # 0 => c \in ConnID
BY ConstantsAssumption DEF ConnID

(* Nothing is queued or counted at first. *)
LEMMA NothingYet ==
  0 \in Nat /\ <<>> \in Seq(Packet) /\ <<>> \in Seq({"ok", "err", "cls", "lost"})
OBVIOUS

(* A packet further back than one that is left moves up by one, too. *)
LEMMA TailLemma ==
  ASSUME NEW s \in Seq(Packet), s # <<>>, NEW i \in DOMAIN Tail(s),
         NEW j \in DOMAIN s, i + 1 < j
  PROVE  j - 1 \in DOMAIN Tail(s) /\ Tail(s)[j - 1] = s[j] /\ i < j - 1
OBVIOUS

(* Answering dials that have no outcome yet gives each its first one. *)
LEMMA AnswerLemma ==
  ASSUME Types, NEW S \in SUBSET Dial, NEW k \in {"ok", "err", "cls", "lost"},
         Answer(S, k), \A d \in S : answers[d] = <<>>
  PROVE  /\ answers' \in [Dial -> Seq({"ok", "err", "cls", "lost"})]
         /\ \A d \in S : answers'[d] = <<k>>
         /\ \A d \in Dial \ S : answers'[d] = answers[d]
<1>1. \A d \in S : answers'[d] = <<k>>
  <2>1. Append(<<>>, k) = <<k>>
    OBVIOUS
  <2>2. \A d \in S : answers'[d] = Append(answers[d], k)
    BY Zenon DEF Answer
  <2>. QED  BY Zenon, <2>1, <2>2
<1>2. \A d \in Dial \ S : answers'[d] = answers[d]
  BY Zenon DEF Answer
<1>3. <<k>> \in Seq({"ok", "err", "cls", "lost"})
  OBVIOUS
<1>4. \A d \in Dial : answers'[d] \in Seq({"ok", "err", "cls", "lost"})
  BY Zenon, <1>1, <1>2, <1>3 DEF Types
<1>5. answers' = [d \in Dial |-> answers'[d]]
  BY Zenon DEF Answer
<1>. QED  BY Zenon, <1>1, <1>2, <1>4, <1>5

(* Failing dials that have no outcome yet keeps AnswerInv. *)
LEMMA FailLemma ==
  ASSUME Types, AnswerInv, NEW S \in SUBSET Dial, NEW k \in {"err", "cls", "lost"},
         Answer(S, k), \A d \in S : answers[d] = <<>>, connectID' = connectID
  PROVE  AnswerInv'
<1>1. /\ \A d \in S : answers'[d] = <<k>>
      /\ \A d \in Dial \ S : answers'[d] = answers[d]
  BY AnswerLemma
<1>2. Len(<<k>>) = 1 /\ <<k>> # <<"ok">>
  BY Zenon
<1>3. ASSUME NEW d \in Dial
      PROVE  /\ Len(answers'[d]) <= 1
             /\ answers'[d] = <<"ok">> => connectID'[d] \in ConnID
  <2>1. CASE d \in S
    <3>1. answers'[d] = <<k>>
      BY Zenon, <1>1, <2>1
    <3>2. Len(answers'[d]) = 1
      BY <3>1
    <3>3. answers'[d] # <<"ok">>
      BY <1>2, <3>1, Zenon
    <3>. QED  BY <3>2, <3>3
  <2>2. CASE d \notin S
    BY Zenon, <1>1, <2>2 DEF AnswerInv
  <2>. QED  BY Zenon, <2>1, <2>2
<1>. QED  BY Zenon, <1>3 DEF AnswerInv

(* A DIAL_RSP or DIAL_CLS received from an agent names a dial. *)
LEMMA QueueTypes ==
  ASSUME Types, NEW b \in Backend, NEW i \in DOMAIN beIn[b]
  PROVE  /\ beIn[b][i] \in Packet
         /\ beIn[b][i].type \in {"DIAL_RSP", "DIAL_CLS"} => beIn[b][i].dial \in Dial
<1>1. beIn[b] \in Seq(Packet)
  BY Zenon DEF Types
<1>2. beIn[b][i] \in Packet
  BY <1>1
<1>. QED  BY Zenon, <1>2, PacketLemma

(* Taking the head off a frontend queue leaves no second request of its    *)
(* dial behind, and adds none.                                             *)
LEMMA PopRequests ==
  ASSUME Types, RequestedOnce, NEW f \in Frontend, feIn[f] # <<>>, FePop(f)
  PROVE  /\ RequestedOnce'
         /\ \A g \in Frontend, d \in Dial : Requested(g, d)' => Requested(g, d)
         /\ Head(feIn[f]).type = "DIAL_REQ" =>
              \A d \in Dial : d = Head(feIn[f]).dial =>
                              Requested(f, d) /\ ~Requested(f, d)'
         /\ Head(feIn[f]) \in Packet
         /\ feIn' \in [Frontend -> Seq(Packet)]
<1>1. feIn[f] \in Seq(Packet)
  BY Zenon DEF Types
<1>2. /\ Head(feIn[f]) \in Packet /\ Tail(feIn[f]) \in Seq(Packet)
      /\ 1 \in DOMAIN feIn[f] /\ Head(feIn[f]) = feIn[f][1]
      /\ \A i \in DOMAIN Tail(feIn[f]) :
           /\ i + 1 \in DOMAIN feIn[f] /\ i + 1 # 1
           /\ Tail(feIn[f])[i] = feIn[f][i + 1]
      /\ DOMAIN Tail(feIn[f]) \subseteq Int
  BY <1>1, PopLemma
<1>3. /\ feIn'[f] = Tail(feIn[f])
      /\ \A g \in Frontend \ {f} : feIn'[g] = feIn[g]
      /\ feIn' \in [Frontend -> Seq(Packet)]
  BY Zenon, <1>2 DEF FePop, Types
<1>4. ASSUME NEW g \in Frontend, NEW i \in DOMAIN feIn'[g],
             NEW j \in DOMAIN feIn'[g],
             feIn'[g][i].type = "DIAL_REQ", feIn'[g][j].type = "DIAL_REQ",
             feIn'[g][i].dial = feIn'[g][j].dial
      PROVE  i = j
  <2>1. CASE g = f
    <3>1. /\ i \in Int /\ j \in Int
          /\ i + 1 \in DOMAIN feIn[f] /\ feIn'[f][i] = feIn[f][i + 1]
          /\ j + 1 \in DOMAIN feIn[f] /\ feIn'[f][j] = feIn[f][j + 1]
      BY Zenon, <1>2, <1>3, <2>1
    <3>2. i + 1 = j + 1
      BY Zenon, <1>4, <2>1, <3>1 DEF RequestedOnce
    <3>. QED  BY <3>1, <3>2
  <2>2. CASE g # f
    BY Zenon, <1>3, <1>4, <2>2 DEF RequestedOnce
  <2>. QED  BY Zenon, <2>1, <2>2
<1>5. ASSUME NEW g \in Frontend, NEW d \in Dial, Requested(g, d)'
      PROVE  Requested(g, d)
  <2>1. PICK i \in DOMAIN feIn'[g] :
          feIn'[g][i].type = "DIAL_REQ" /\ feIn'[g][i].dial = d
    BY Zenon, <1>5 DEF Requested
  <2>2. CASE g = f
    <3>1. i + 1 \in DOMAIN feIn[f] /\ feIn'[f][i] = feIn[f][i + 1]
      BY Zenon, <1>2, <1>3, <2>1, <2>2
    <3>. QED  BY Zenon, <2>1, <2>2, <3>1 DEF Requested
  <2>3. CASE g # f
    BY Zenon, <1>3, <2>1, <2>3 DEF Requested
  <2>. QED  BY Zenon, <2>2, <2>3
<1>6. ASSUME Head(feIn[f]).type = "DIAL_REQ",
             NEW d \in Dial, d = Head(feIn[f]).dial
      PROVE  Requested(f, d) /\ ~Requested(f, d)'
  <2>1. Requested(f, d)
    BY Zenon, <1>2, <1>6 DEF Requested
  <2>2. ASSUME NEW i \in DOMAIN feIn'[f], feIn'[f][i].type = "DIAL_REQ",
               feIn'[f][i].dial = d
        PROVE  FALSE
    <3>1. /\ i + 1 \in DOMAIN feIn[f] /\ i + 1 # 1
          /\ feIn'[f][i] = feIn[f][i + 1]
      BY Zenon, <1>2, <1>3
    <3>. QED  BY <1>2, <1>6, <2>2, <3>1 DEF RequestedOnce
  <2>. QED  BY Zenon, <2>1, <2>2 DEF Requested
<1>. QED  BY Zenon, <1>2, <1>3, <1>4, <1>5, <1>6 DEF RequestedOnce

(* What Backend.Send can add to the packets on the way to an agent. *)
LEMMA DeliverLemma ==
  ASSUME Types, NEW b \in Backend, NEW S \in SUBSET Packet,
         toAgent' = Deliver(b, S)
  PROVE  /\ toAgent' \in [Backend -> SUBSET Packet]
         /\ \A x \in Backend, p \in Packet :
              p \in toAgent'[x] => p \in toAgent[x] \/ (x = b /\ p \in S)
  BY Zenon DEF Types, Deliver

(* Steps that request no dial and answer none that is still requested. *)
LEMMA RequestFrame ==
  ASSUME RequestedFresh, AddingFresh,
         feDial' = feDial, feBackend' = feBackend, asked' = asked,
         dialBackend' = dialBackend,
         \A g \in Frontend : fePC'[g] = "addDial" => fePC[g] = "addDial",
         \A d \in Dial : Fresh(d) => answers'[d] = answers[d],
         \A g \in Frontend, d \in Dial : Requested(g, d)' => Requested(g, d)
  PROVE  RequestedFresh' /\ AddingFresh'
<1>1. \A d \in Dial : Fresh(d) => Fresh(d)'
  BY Zenon DEF Fresh
<1>2. RequestedFresh'
  BY Zenon, <1>1 DEF RequestedFresh
<1>3. ASSUME NEW g \in Frontend, fePC'[g] = "addDial", NEW x \in Dial, x = feDial[g]
      PROVE  Fresh(x)' /\ ~Requested(g, x)'
  BY Zenon, <1>1, <1>3 DEF AddingFresh
<1>4. AddingFresh'
  BY <1>3 DEF AddingFresh, Fresh, Requested
<1>. QED  BY Zenon, <1>2, <1>4

(* Steps that add nothing to the maps, and send or receive no DIAL_REQ,    *)
(* DIAL_RSP or DIAL_CLS.                                                   *)
LEMMA MapsFrame ==
  ASSUME DialInv, established' = established, dialBackend' = dialBackend,
         connectID' = connectID, answers' = answers, asked' = asked,
         timers' \subseteq timers, abandoned' \subseteq abandoned,
         bePC' = bePC, beDial' = beDial, beIn' = beIn, pending' \subseteq pending,
         \A b \in Backend, d \in Dial :
           Pkt("DIAL_REQ", d, 0) \in toAgent'[b] => Pkt("DIAL_REQ", d, 0) \in toAgent[b]
  PROVE  /\ AskedInv' /\ PendingInv' /\ AsyncInv' /\ WireInv' /\ ClaimInv'
         /\ EstablishedInv' /\ AnswerInv'
<1> USE DEF DialInv
<1>1. AskedInv' /\ PendingInv' /\ AsyncInv' /\ AnswerInv'
  BY Zenon DEF AskedInv, PendingInv, AsyncInv, AnswerInv
<1>2. WireInv'
  BY Zenon DEF WireInv
<1>3. ClaimInv' /\ EstablishedInv'
  BY Zenon DEF ClaimInv, EstablishedInv
<1>. QED  BY Zenon, <1>1, <1>2, <1>3

(* Steps that remove pending dials and give each an outcome. *)
LEMMA FailFrame ==
  ASSUME Types, DialInv, NEW T, NEW k \in {"err", "cls", "lost"},
         PendingRemove(T), Answer(T \cap pending, k),
         established' = established, dialBackend' = dialBackend,
         connectID' = connectID, asked' = asked, beDial' = beDial,
         \A b \in Backend : bePC'[b] = bePC[b] \/ bePC'[b] = "cleanEstablished"
  PROVE  /\ answers' \in [Dial -> Seq({"ok", "err", "cls", "lost"})]
         /\ pending' \subseteq Dial
         /\ \A d \in Dial : Fresh(d) => answers'[d] = answers[d]
         /\ AskedInv' /\ PendingInv' /\ ClaimInv' /\ EstablishedInv' /\ AnswerInv'
<1> USE DEF DialInv
<1> DEFINE S == T \cap pending
<1>1. S \in SUBSET Dial /\ \A d \in S : answers[d] = <<>>
  BY Zenon DEF Types, PendingInv
<1>2. /\ answers' \in [Dial -> Seq({"ok", "err", "cls", "lost"})]
      /\ \A d \in Dial \ S : answers'[d] = answers[d]
  BY Zenon, <1>1, AnswerLemma
<1>3. AnswerInv'
  BY Zenon, <1>1, FailLemma
<1>4. pending' = pending \ T
  BY Zenon DEF PendingRemove
<1>5. pending \subseteq Dial
  BY Zenon DEF Types
<1>6. \A d \in S : d \in asked /\ dialBackend[d] \in Backend
  BY Zenon, <1>1, <1>5, ConstantsAssumption DEF PendingInv, AskedInv
<1>7. \A d \in Dial : Fresh(d) => answers'[d] = answers[d]
  BY <1>2, <1>6, ConstantsAssumption DEF Fresh
<1>8. AskedInv'
  BY Zenon, <1>2, <1>6 DEF AskedInv
<1>9. PendingInv'
  BY Zenon, <1>2, <1>4, <1>5 DEF PendingInv
<1>10. ClaimInv'
  BY Zenon, <1>2, <1>4 DEF ClaimInv
<1>11. EstablishedInv'
  BY Zenon DEF EstablishedInv
<1>. QED  BY Zenon, <1>2, <1>3, <1>4, <1>5, <1>7, <1>8, <1>9, <1>10, <1>11

-----------------------------------------------------------------------------
(* Steps that leave most of the invariant alone *)

(* Steps of other goroutines keep what the frontend goroutines know. *)
LEMMA FrontendFrame ==
  ASSUME Inv, UNCHANGED <<fePC, feIn, feDial, feBackend, asked, dialBackend>>,
         \A d \in Dial : Fresh(d) => answers'[d] = answers[d]
  PROVE  RequestedFresh' /\ RequestedOnce' /\ AddingFresh' /\ SendInv'
<1> USE DEF Inv, DialInv
<1>1. RequestedOnce' /\ \A g \in Frontend, d \in Dial : Requested(g, d)' => Requested(g, d)
  BY Zenon DEF RequestedOnce, Requested
<1>2. SendInv'
  BY Zenon DEF SendInv
<1>. QED  BY Zenon, <1>1, <1>2, RequestFrame

(* Queues from agents that only lose packets, or gain packets that belong  *)
(* there, and no DIAL_REQ sent but to the dial's backend.                  *)
LEMMA WireFrame ==
  ASSUME WireInv, dialBackend' = dialBackend,
         \A x \in Backend, p \in Packet :
           p \in toAgent'[x] /\ p.type = "DIAL_REQ" =>
             p \in toAgent[x] \/ dialBackend[p.dial] = x,
         \A x \in Backend : \A i \in DOMAIN beIn'[x] :
           \/ \E j \in DOMAIN beIn[x] : beIn'[x][i] = beIn[x][j]
           \/ beIn'[x][i].type \notin {"DIAL_RSP", "DIAL_CLS"}
           \/ dialBackend[beIn'[x][i].dial] = x
  PROVE  WireInv'
<1>1. \A d \in Dial : /\ Pkt("DIAL_REQ", d, 0) \in Packet
                      /\ Pkt("DIAL_REQ", d, 0).type = "DIAL_REQ"
                      /\ Pkt("DIAL_REQ", d, 0).dial = d
  BY PktLemma
<1>2. \A x \in Backend, d \in Dial :
        Pkt("DIAL_REQ", d, 0) \in toAgent'[x] => dialBackend[d] = x
  BY <1>1 DEF WireInv
<1>3. \A x \in Backend : \A i \in DOMAIN beIn'[x] :
        beIn'[x][i].type \in {"DIAL_RSP", "DIAL_CLS"} =>
          dialBackend[beIn'[x][i].dial] = x
  BY DEF WireInv
<1>. QED  BY Zenon, <1>2, <1>3 DEF WireInv

(* Receiving from an agent only shortens its queue. *)
LEMMA BePopLemma ==
  ASSUME Types, NEW b \in Backend, beIn[b] # <<>>, BePop(b)
  PROVE  /\ Head(beIn[b]) \in Packet /\ 1 \in DOMAIN beIn[b]
         /\ Head(beIn[b]) = beIn[b][1]
         /\ beIn' \in [Backend -> Seq(Packet)]
         /\ \A x \in Backend : \A i \in DOMAIN beIn'[x] :
              \E j \in DOMAIN beIn[x] : beIn'[x][i] = beIn[x][j]
<1>1. beIn[b] \in Seq(Packet)
  BY Zenon DEF Types
<1>2. /\ Head(beIn[b]) \in Packet /\ Tail(beIn[b]) \in Seq(Packet)
      /\ 1 \in DOMAIN beIn[b] /\ Head(beIn[b]) = beIn[b][1]
      /\ \A i \in DOMAIN Tail(beIn[b]) :
           i + 1 \in DOMAIN beIn[b] /\ Tail(beIn[b])[i] = beIn[b][i + 1]
  BY Zenon, <1>1, PopLemma
<1>3. /\ beIn'[b] = Tail(beIn[b]) /\ beIn' \in [Backend -> Seq(Packet)]
      /\ \A x \in Backend \ {b} : beIn'[x] = beIn[x]
  BY Zenon, <1>2 DEF BePop, Types
<1>4. ASSUME NEW x \in Backend, NEW i \in DOMAIN beIn'[x]
      PROVE  \E j \in DOMAIN beIn[x] : beIn'[x][i] = beIn[x][j]
  <2>1. CASE x = b
    <3>1. i + 1 \in DOMAIN beIn[b] /\ beIn'[b][i] = beIn[b][i + 1]
      BY Zenon, <1>2, <1>3, <2>1
    <3>. QED  BY Zenon, <2>1, <3>1
  <2>2. CASE x # b
    BY Zenon, <1>3, <2>2
  <2>. QED  BY Zenon, <2>1, <2>2
<1>. QED  BY Zenon, <1>2, <1>3, <1>4

(* CLOSE_REQ is never mistaken for DIAL_REQ. *)
LEMMA SendCloseLemma ==
  ASSUME Types, NEW b \in Backend, NEW c \in ConnID,
         \/ toAgent' = toAgent
         \/ toAgent' = Deliver(b, {Pkt("CLOSE_REQ", NoDial, c)})
  PROVE  /\ toAgent' \in [Backend -> SUBSET Packet]
         /\ \A x \in Backend, p \in Packet :
              p \in toAgent'[x] /\ p.type = "DIAL_REQ" => p \in toAgent[x]
<1> DEFINE req == Pkt("CLOSE_REQ", NoDial, c)
<1>1. req \in Packet /\ req.type # "DIAL_REQ" /\ {req} \in SUBSET Packet
  BY PktLemma
<1>2. CASE toAgent' = toAgent
  BY Zenon, <1>2 DEF Types
<1>3. CASE toAgent' = Deliver(b, {req})
  <2>1. /\ toAgent' \in [Backend -> SUBSET Packet]
        /\ \A x \in Backend, p \in Packet :
             p \in toAgent'[x] => p \in toAgent[x] \/ (x = b /\ p \in {req})
    BY Zenon, <1>1, <1>3, DeliverLemma
  <2>. QED  BY Zenon, <1>1, <2>1
<1>. QED  BY Zenon, <1>2, <1>3

(* Steps that answer no dial and claim none: they may drop established     *)
(* entries, timers and packets, and move agent goroutines out of the       *)
(* handling of a DIAL_RSP.                                                 *)
LEMMA QuietStep ==
  ASSUME Inv, Types',
         UNCHANGED <<pending, dialBackend, connectID, dialsInFlight, fePC, feIn,
                     feBackend, feDial, beDial, asked, answers>>,
         \A a \in Agent, c \in ConnID :
           established'[a][c] \in {established[a][c], NoDial},
         timers' \subseteq timers, abandoned' \subseteq abandoned,
         \A x \in Backend :
           bePC'[x] = bePC[x] \/ bePC'[x] \in {"recv", "cleanEstablished", "done"},
         \A x \in Backend, p \in Packet :
           p \in toAgent'[x] /\ p.type = "DIAL_REQ" =>
             p \in toAgent[x] \/ dialBackend[p.dial] = x,
         \A x \in Backend : \A i \in DOMAIN beIn'[x] :
           \/ \E j \in DOMAIN beIn[x] : beIn'[x][i] = beIn[x][j]
           \/ beIn'[x][i].type \notin {"DIAL_RSP", "DIAL_CLS"}
           \/ dialBackend[beIn'[x][i].dial] = x
  PROVE  Inv'
<1> USE DEF Inv, DialInv
<1>1. RequestedFresh' /\ RequestedOnce' /\ AddingFresh' /\ SendInv'
  BY Zenon, FrontendFrame
<1>2. WireInv'
  BY Zenon, WireFrame
<1>3. AskedInv' /\ PendingInv' /\ AsyncInv' /\ AnswerInv'
  BY Zenon DEF AskedInv, PendingInv, AsyncInv, AnswerInv
<1>4. ClaimInv'
  BY Zenon DEF ClaimInv
<1>5. EstablishedInv'
  BY DEF EstablishedInv
<1>. QED  BY Zenon, <1>1, <1>2, <1>3, <1>4, <1>5

-----------------------------------------------------------------------------
(* The steps of a frontend stream *)

(* DIAL_REQ, getBackend: the fresh dial moves from the queue to the goroutine. *)
LEMMA FeGetBackendStep ==
  ASSUME Inv, NEW f \in Frontend, FeGetBackend(f)
  PROVE  Inv'
<1> USE DEF Inv, DialInv
<1> DEFINE d == Head(feIn[f]).dial
<1>1. /\ feIn[f] # <<>> /\ Head(feIn[f]).type = "DIAL_REQ" /\ FePop(f)
      /\ UNCHANGED <<maps, feStream, firstConnID, feTodo, beVars, toAgent,
                     asyncVars, clientVars, agentVars, history>>
      /\ fePC' = [fePC EXCEPT ![f] = "addDial"]
      /\ feDial' = [feDial EXCEPT ![f] = d]
  BY Zenon DEF FeGetBackend, FeHead, FeGoto
<1>2. PICK b \in Backend : feBackend' = [feBackend EXCEPT ![f] = b]
  BY Zenon DEF FeGetBackend, Registered
<1>3. d \in Dial
  BY Zenon, <1>1, PopRequests, PacketLemma
<1>4. Types'
  BY Zenon, <1>1, <1>2, <1>3, PopRequests
  DEF Types, FePC, maps, beVars, asyncVars, clientVars, agentVars, history
<1>5. RequestedFresh' /\ RequestedOnce'
  BY <1>1, PopRequests
  DEF RequestedFresh, Fresh, maps, clientVars, history
<1>6. AddingFresh'
  <2>1. Requested(f, d) /\ FrontendOf[d] = f /\ Fresh(d)
    BY ZenonT(60), <1>1, <1>3, PopRequests DEF RequestedFresh
  <2>2. \A g \in Frontend, x \in Dial : Requested(g, x)' => Requested(g, x)
    BY Zenon, <1>1, PopRequests
  <2>3. \A x \in Dial : x = d => ~Requested(f, x)'
    BY Zenon, <1>1, <1>3, PopRequests
  <2>4. \A x \in Dial : Fresh(x) => Fresh(x)'
    BY Zenon, <1>1 DEF Fresh, maps, clientVars, history
  <2>5. ASSUME NEW g \in Frontend, fePC'[g] = "addDial"
        PROVE  /\ feDial'[g] \in Dial /\ feBackend'[g] \in Backend
               /\ FrontendOf[feDial'[g]] = g
               /\ \A x \in Dial : x = feDial'[g] => Fresh(x)' /\ ~Requested(g, x)'
    <3>1. CASE g = f
      <4>1. feDial'[f] = d /\ feBackend'[f] = b
        BY Zenon, <1>1, <1>2 DEF Types
      <4>. QED  BY Zenon, <1>3, <2>1, <2>3, <2>4, <3>1, <4>1
    <3>2. CASE g # f
      <4>1. fePC[g] = "addDial" /\ feDial'[g] = feDial[g] /\ feBackend'[g] = feBackend[g]
        BY Zenon, <1>1, <1>2, <2>5, <3>2 DEF Types
      <4>. QED  BY Zenon, <2>2, <2>4, <4>1 DEF AddingFresh
    <3>. QED  BY Zenon, <3>1, <3>2
  <2>. QED  BY <2>5 DEF AddingFresh, Fresh, Requested
<1>7. /\ SendInv' /\ AskedInv' /\ PendingInv' /\ AsyncInv' /\ WireInv'
      /\ ClaimInv' /\ EstablishedInv' /\ AnswerInv'
  <2>1. SendInv'
    BY Zenon, <1>1, <1>2 DEF SendInv, maps, Types
  <2>. QED  BY Zenon, <1>1, <2>1 DEF AskedInv, PendingInv, AsyncInv, WireInv, ClaimInv,
        EstablishedInv, AnswerInv, maps, beVars, asyncVars, clientVars, history
<1>. QED  BY Zenon, <1>4, <1>5, <1>6, <1>7

(* DIAL_REQ without an agent: a fresh dial gets its only outcome, an error. *)
LEMMA FeNoBackendStep ==
  ASSUME Inv, NEW f \in Frontend, FeNoBackend(f)
  PROVE  Inv'
<1> USE DEF Inv, DialInv
<1> DEFINE d == Head(feIn[f]).dial
<1>1. /\ feIn[f] # <<>> /\ Head(feIn[f]).type = "DIAL_REQ" /\ FePop(f)
      /\ UNCHANGED <<maps, feStream, feDial, firstConnID, feTodo, beVars,
                     toAgent, asyncVars, clientVars, agentVars, told>>
      /\ fePC' = [fePC EXCEPT ![f] = "drain"]
      /\ feBackend' = [feBackend EXCEPT ![f] = NoBackend]
      /\ Answer({d}, "err")
  BY Zenon DEF FeNoBackend, FeHead, FeGoto
<1>2. d \in Dial /\ Requested(f, d) /\ FrontendOf[d] = f /\ Fresh(d)
  BY ZenonT(60), <1>1, PopRequests, PacketLemma DEF RequestedFresh
<1>3. /\ answers' \in [Dial -> Seq({"ok", "err", "cls", "lost"})]
      /\ \A x \in Dial : x = d => answers'[x] = <<"err">>
      /\ \A x \in Dial : x # d => answers'[x] = answers[x]
  BY <1>1, <1>2, AnswerLemma DEF Fresh
<1>4. Types'
  BY Zenon, <1>1, <1>3, PopRequests
  DEF Types, FePC, maps, beVars, asyncVars, clientVars, agentVars
<1>5. RequestedFresh' /\ RequestedOnce' /\ AddingFresh'
  <2>1. \A g \in Frontend, x \in Dial :
          Requested(g, x)' => Requested(g, x) /\ x # d
    BY <1>1, <1>2, PopRequests DEF RequestedFresh
  <2>2. \A x \in Dial : Fresh(x) /\ x # d => Fresh(x)'
    BY Zenon, <1>1, <1>3 DEF Fresh, maps, clientVars
  <2>3. RequestedFresh'
    BY Zenon, <2>1, <2>2 DEF RequestedFresh
  <2>4. \A g \in Frontend : fePC'[g] = "addDial" => g # f /\ fePC[g] = "addDial"
    BY Zenon, <1>1 DEF Types
  <2>5. AddingFresh'
    <3>1. SUFFICES ASSUME NEW g \in Frontend, fePC'[g] = "addDial",
                          NEW x \in Dial, x = feDial[g]
                   PROVE  Fresh(x)' /\ ~Requested(g, x)' /\ feBackend'[g] \in Backend
      BY <1>1, <2>4 DEF AddingFresh, Fresh, Requested
    <3>2. g # f /\ Fresh(x) /\ ~Requested(g, x) /\ x # d /\ feBackend[g] \in Backend
      BY Zenon, <1>2, <2>4, <3>1 DEF AddingFresh
    <3>. QED  BY ZenonT(60), <1>1, <2>1, <2>2, <3>2 DEF Types
  <2>. QED  BY ZenonT(60), <1>1, <2>3, <2>5, PopRequests
<1>6. /\ SendInv' /\ AskedInv' /\ PendingInv' /\ AsyncInv' /\ WireInv'
      /\ ClaimInv' /\ EstablishedInv' /\ AnswerInv'
  <2>1. d \notin pending /\ dialBackend[d] = NoBackend /\ d \in asked
    BY Zenon, <1>2, ConstantsAssumption DEF PendingInv, Fresh
  <2>2. SendInv'
    BY Zenon, <1>1 DEF SendInv, maps, Types
  <2>3. ClaimInv'
    <3>1. /\ bePC' = bePC /\ beDial' = beDial /\ pending' = pending
          /\ dialBackend' = dialBackend /\ connectID' = connectID
      BY Zenon, <1>1 DEF maps, beVars
    <3>. QED  BY <1>3, <2>1, <3>1, ConstantsAssumption DEF ClaimInv
  <2>4. AskedInv' /\ PendingInv'
    BY ZenonT(60), <1>1, <1>3, <2>1 DEF AskedInv, PendingInv, maps, clientVars, Types
  <2>5. AnswerInv'
    BY <1>1, <1>2, FailLemma DEF Fresh, maps
  <2>6. AsyncInv' /\ WireInv' /\ EstablishedInv'
    BY Zenon, <1>1 DEF AsyncInv, WireInv, EstablishedInv, maps, beVars, asyncVars
  <2>. QED  BY Zenon, <2>2, <2>3, <2>4, <2>5, <2>6
<1>. QED  BY Zenon, <1>4, <1>5, <1>6

(* PendingDialManager.Add of a fresh dial fixes its backend for good. *)
LEMMA FeAddDialStep ==
  ASSUME Inv, NEW f \in Frontend, FeAddDial(f)
  PROVE  Inv'
<1> USE DEF Inv, DialInv
<1> DEFINE d == feDial[f]
           b == feBackend[f]
<1>1. /\ UNCHANGED <<established, connectID, feStream, feIn, feBackend, feDial,
                     firstConnID, feTodo, beVars, toAgent, asyncVars,
                     clientVars, agentVars, history>>
      /\ fePC' = [fePC EXCEPT ![f] = "sendDial"] /\ fePC[f] = "addDial"
      /\ PendingAdd(d, b)
      /\ pending' = pending \cup {d}
      /\ dialBackend' = [dialBackend EXCEPT ![d] = b]
  BY Zenon DEF FeAddDial, FeGoto, PendingAdd
<1>2. /\ d \in Dial /\ b \in Backend /\ FrontendOf[d] = f /\ Fresh(d)
      /\ ~Requested(f, d) /\ dialBackend[d] = NoBackend /\ NoBackend \notin Backend
  BY Zenon, <1>1, ConstantsAssumption DEF AddingFresh, Fresh
<1>3. /\ \A x \in Dial : x # d => dialBackend'[x] = dialBackend[x]
      /\ dialBackend'[d] = b
  BY Zenon, <1>1, <1>2 DEF Types
<1>4. Types'
  BY Zenon, <1>1, <1>2
  DEF Types, FePC, beVars, asyncVars, clientVars, agentVars, history
<1>5. RequestedFresh' /\ RequestedOnce' /\ AddingFresh'
  <2>1. RequestedOnce' /\ \A g \in Frontend, x \in Dial : Requested(g, x)' <=> Requested(g, x)
    BY ZenonT(60), <1>1 DEF RequestedOnce, Requested
  <2>2. \A x \in Dial : Fresh(x) /\ x # d => Fresh(x)'
    BY Zenon, <1>1, <1>3 DEF Fresh, clientVars, history
  <2>3. RequestedFresh'
    BY <1>2, <2>1, <2>2 DEF RequestedFresh
  <2>4. \A g \in Frontend : fePC'[g] = "addDial" => g # f /\ fePC[g] = "addDial"
    BY Zenon, <1>1 DEF Types
  <2>5. AddingFresh'
    <3>1. SUFFICES ASSUME NEW g \in Frontend, fePC'[g] = "addDial",
                          NEW x \in Dial, x = feDial[g]
                   PROVE  Fresh(x)' /\ ~Requested(g, x)'
      BY ZenonT(60), <1>1, <2>4 DEF AddingFresh, Fresh, Requested
    <3>2. Fresh(x) /\ ~Requested(g, x) /\ x # d
      BY <1>2, <2>4, <3>1 DEF AddingFresh
    <3>. QED  BY Zenon, <2>1, <2>2, <3>2
  <2>. QED  BY Zenon, <2>1, <2>3, <2>5
<1>6. SendInv'
  BY SMTT(60), <1>1, <1>2, <1>3 DEF SendInv, Types
<1>7. AskedInv' /\ PendingInv' /\ AsyncInv' /\ AnswerInv'
  BY ZenonT(60), <1>1, <1>2, <1>3
  DEF AskedInv, PendingInv, AsyncInv, AnswerInv, Fresh, clientVars, asyncVars,
      history, Types
<1>8. WireInv'
  <2>1. \A x \in Backend : \A i \in DOMAIN beIn[x] :
          beIn[x][i].type \in {"DIAL_RSP", "DIAL_CLS"} => beIn[x][i].dial \in Dial
    BY Zenon, QueueTypes
  <2>2. toAgent' = toAgent /\ beIn' = beIn
    BY Zenon, <1>1 DEF beVars
  <2>. QED  BY <1>2, <1>3, <2>1, <2>2 DEF WireInv
<1>9. ClaimInv'
  BY SMTT(60), <1>1, <1>2, <1>3 DEF ClaimInv, beVars, history
<1>10. EstablishedInv'
  <2>1. \A a \in Agent, c \in ConnID :
          established[a][c] # NoDial => established[a][c] \in Dial
    BY DEF Types
  <2>2. established' = established /\ connectID' = connectID
    BY Zenon, <1>1
  <2>. QED  BY SMTT(60), <1>2, <1>3, <2>1, <2>2 DEF EstablishedInv
<1>. QED  BY Zenon, <1>4, <1>5, <1>6, <1>7, <1>8, <1>9, <1>10

(* DIAL_REQ is sent to the dial's backend. *)
LEMMA FeSendDialStep ==
  ASSUME Inv, NEW f \in Frontend, FeSendDial(f)
  PROVE  Inv'
<1> USE DEF Inv, DialInv
<1> DEFINE d == feDial[f]
           b == feBackend[f]
           req == Pkt("DIAL_REQ", d, 0)
<1>1. /\ UNCHANGED <<maps, feStream, feIn, feBackend, feDial, firstConnID,
                     feTodo, beVars, asyncVars, clientVars, agentVars, history>>
      /\ fePC[f] = "sendDial" /\ fePC' = [fePC EXCEPT ![f] = "sentDial"]
      /\ toAgent' = Deliver(b, {req})
  BY Zenon DEF FeSendDial, FeGoto
<1>2. d \in Dial /\ b \in Backend /\ dialBackend[d] = b
  BY Zenon, <1>1 DEF SendInv
<1>3. req \in Packet
  BY <1>2, PktLemma
<1>4. /\ toAgent' \in [Backend -> SUBSET Packet]
      /\ \A x \in Backend, p \in Packet :
           p \in toAgent'[x] => p \in toAgent[x] \/ (x = b /\ p \in {req})
  <2>1. b \in Backend /\ {req} \in SUBSET Packet /\ toAgent' = Deliver(b, {req})
    BY Zenon, <1>1, <1>2, <1>3
  <2>. QED  BY Zenon, <2>1, DeliverLemma
<1>5. Types'
  BY Zenon, <1>1, <1>4
  DEF Types, FePC, maps, beVars, asyncVars, clientVars, agentVars, history
<1>6. RequestedFresh' /\ RequestedOnce' /\ AddingFresh'
  <2>1. RequestedOnce' /\ \A g \in Frontend, x \in Dial : Requested(g, x)' => Requested(g, x)
    BY Zenon, <1>1 DEF RequestedOnce, Requested
  <2>. QED  BY Zenon, <1>1, <2>1, RequestFrame DEF Types, maps, clientVars, history
<1>7. SendInv'
  BY Zenon, <1>1, <1>2 DEF SendInv, maps, Types
<1>8. AskedInv' /\ PendingInv' /\ AsyncInv' /\ AnswerInv'
  BY Zenon, <1>1 DEF AskedInv, PendingInv, AsyncInv, AnswerInv, maps, clientVars,
              asyncVars, history
<1>9. WireInv'
  <2>1. beIn' = beIn /\ dialBackend' = dialBackend
    BY Zenon, <1>1 DEF beVars, maps
  <2>2. \A x \in Dial : Pkt("DIAL_REQ", x, 0) = req => x = d
    BY Zenon DEF Pkt
  <2>. QED  BY SMTT(20), <1>2, <1>4, <2>1, <2>2 DEF WireInv
<1>10. ClaimInv' /\ EstablishedInv'
  BY Zenon, <1>1 DEF ClaimInv, EstablishedInv, maps, beVars, history
<1>. QED  BY Zenon, <1>5, <1>6, <1>7, <1>8, <1>9, <1>10

(* The timer is armed for a dial that has a backend. *)
LEMMA FeDialSentStep ==
  ASSUME Inv, NEW f \in Frontend, FeDialSent(f)
  PROVE  Inv'
<1> USE DEF Inv, DialInv
<1>1. /\ UNCHANGED <<maps, feStream, feIn, feBackend, feDial, firstConnID,
                     feTodo, beVars, toAgent, abandoned, hooks, clientVars,
                     agentVars, history>>
      /\ fePC[f] = "sentDial" /\ fePC' = [fePC EXCEPT ![f] = "serve"]
      /\ timers' \subseteq timers \cup {feDial[f]}
  BY Zenon DEF FeDialSent, FeGoto
<1>2. feDial[f] \in Dial /\ dialBackend[feDial[f]] \in Backend
  BY Zenon, <1>1 DEF SendInv
<1>3. Types'
  <2>1. timers' \in SUBSET Dial
    BY Zenon, <1>1, <1>2 DEF Types
  <2>. QED  BY Zenon, <1>1, <2>1
            DEF Types, FePC, maps, beVars, clientVars, agentVars, history
<1>4. RequestedFresh' /\ RequestedOnce' /\ AddingFresh'
  <2>1. RequestedOnce' /\ \A g \in Frontend, x \in Dial : Requested(g, x)' => Requested(g, x)
    BY Zenon, <1>1 DEF RequestedOnce, Requested
  <2>. QED  BY Zenon, <1>1, <2>1, RequestFrame DEF Types, maps, clientVars, history
<1>5. SendInv'
  BY Zenon, <1>1 DEF SendInv, maps, Types
<1>6. AskedInv' /\ PendingInv' /\ AsyncInv' /\ AnswerInv'
  BY Zenon, <1>1, <1>2
  DEF AskedInv, PendingInv, AsyncInv, AnswerInv, maps, clientVars, history
<1>7. WireInv' /\ ClaimInv' /\ EstablishedInv'
  BY Zenon, <1>1 DEF WireInv, ClaimInv, EstablishedInv, maps, beVars, history
<1>. QED  BY Zenon, <1>3, <1>4, <1>5, <1>6, <1>7

(* A failed send answers the dial only if it is the one to remove it. *)
LEMMA FeDialFailedStep ==
  ASSUME Inv, NEW f \in Frontend, FeDialFailed(f)
  PROVE  Inv'
<1> USE DEF Inv, DialInv
<1> DEFINE d == feDial[f]
<1>1. /\ UNCHANGED <<established, dialBackend, connectID, feStream, feIn,
                     feBackend, feDial, firstConnID, feTodo, beVars, toAgent,
                     timers, hooks, clientVars, agentVars, told>>
      /\ fePC[f] \in {"sendDial", "sentDial"}
      /\ abandoned' \subseteq abandoned \cup {d}
      /\ PendingRemove({d})
  BY Zenon DEF FeDialFailed
<1>2. d \in Dial /\ dialBackend[d] \in Backend
  BY Zenon, <1>1 DEF SendInv
<1>3. PICK pc \in {"drain", "serve"} : fePC' = [fePC EXCEPT ![f] = pc]
  BY Zenon DEF FeDialFailed, FeGoto
<1>4. Answer({d} \cap pending, "err")
  <2>1. CASE d \in pending
    <3>1. {d} \cap pending = {d}
      BY Zenon, <2>1
    <3>. QED  BY Zenon, <2>1, <3>1 DEF FeDialFailed
  <2>2. CASE d \notin pending
    <3>1. {d} \cap pending = {} /\ answers' = answers
      BY Zenon, <2>2 DEF FeDialFailed
    <3>. QED  BY Zenon, <3>1 DEF Answer, Types
  <2>. QED  BY Zenon, <2>1, <2>2
<1>5. /\ answers' \in [Dial -> Seq({"ok", "err", "cls", "lost"})]
      /\ pending' \subseteq Dial
      /\ \A x \in Dial : Fresh(x) => answers'[x] = answers[x]
      /\ AskedInv' /\ PendingInv' /\ ClaimInv' /\ EstablishedInv' /\ AnswerInv'
  BY Zenon, <1>1, <1>4, FailFrame DEF beVars, clientVars
<1>6. Types'
  BY Zenon, <1>1, <1>2, <1>3, <1>5
  DEF Types, FePC, beVars, clientVars, agentVars
<1>7. RequestedFresh' /\ RequestedOnce' /\ AddingFresh'
  <2>1. RequestedOnce' /\ \A g \in Frontend, x \in Dial : Requested(g, x)' => Requested(g, x)
    BY Zenon, <1>1 DEF RequestedOnce, Requested
  <2>2. \A g \in Frontend : fePC'[g] = "addDial" => fePC[g] = "addDial"
    BY Zenon, <1>3 DEF Types
  <2>. QED  BY Zenon, <1>1, <1>5, <2>1, <2>2, RequestFrame DEF clientVars
<1>8. SendInv'
  BY Zenon, <1>1, <1>3 DEF SendInv, Types
<1>9. AsyncInv' /\ WireInv'
  BY Zenon, <1>1, <1>2 DEF AsyncInv, WireInv, beVars
<1>. QED  BY Zenon, <1>5, <1>6, <1>7, <1>8, <1>9

(* CLOSE_REQ, DIAL_CLS and DATA take the head off the queue, send the      *)
(* agent no DIAL_REQ, and at most remove pending dials.                    *)
LEMMA FePopStep ==
  ASSUME Inv, NEW f \in Frontend, feIn[f] # <<>>, FePop(f),
         NEW pc \in {"serve", "drain"}, fePC' = [fePC EXCEPT ![f] = pc],
         pending' \subseteq pending,
         firstConnID' \in [Frontend -> 0..MaxConn], told' \subseteq Dial,
         toAgent' \in [Backend -> SUBSET Packet],
         \A x \in Backend, p \in Packet :
           p \in toAgent'[x] /\ p.type = "DIAL_REQ" => p \in toAgent[x],
         UNCHANGED <<established, dialBackend, connectID, feStream, feBackend,
                     feDial, feTodo, beVars, asyncVars, clientVars, agentVars,
                     answers>>
  PROVE  Inv'
<1> USE DEF Inv, DialInv
<1>1. /\ RequestedOnce' /\ feIn' \in [Frontend -> Seq(Packet)]
      /\ \A g \in Frontend, d \in Dial : Requested(g, d)' => Requested(g, d)
  BY Zenon, PopRequests
<1>2. Types'
  BY Zenon, <1>1 DEF Types, FePC, beVars, asyncVars, clientVars, agentVars
<1>3. RequestedFresh' /\ AddingFresh'
  <2>1. \A g \in Frontend : fePC'[g] = "addDial" => fePC[g] = "addDial"
    BY Zenon DEF Types
  <2>. QED  BY Zenon, <1>1, <2>1, RequestFrame DEF clientVars
<1>4. SendInv'
  BY Zenon DEF SendInv, Types
<1>5. /\ AskedInv' /\ PendingInv' /\ AsyncInv' /\ WireInv' /\ ClaimInv'
      /\ EstablishedInv' /\ AnswerInv'
  <2>1. \A d \in Dial : /\ Pkt("DIAL_REQ", d, 0) \in Packet
                        /\ Pkt("DIAL_REQ", d, 0).type = "DIAL_REQ"
    BY PktLemma
  <2>. QED  BY Zenon, <2>1, MapsFrame DEF beVars, asyncVars, clientVars
<1>. QED  BY Zenon, <1>1, <1>2, <1>3, <1>4, <1>5

(* CLOSE_REQ leaves the maps alone. *)
LEMMA FeCloseReqStep ==
  ASSUME Inv, NEW f \in Frontend, FeCloseReq(f)
  PROVE  Inv'
<1> USE DEF Inv, DialInv
<1> DEFINE c == Head(feIn[f]).conn
           b == feBackend[f]
           req == Pkt("CLOSE_REQ", NoDial, c)
<1>1. /\ feIn[f] # <<>> /\ Head(feIn[f]).type = "CLOSE_REQ" /\ FePop(f)
      /\ UNCHANGED <<maps, feStream, feBackend, feDial, firstConnID, feTodo,
                     beVars, asyncVars, clientVars, agentVars, answers>>
      /\ toAgent' = IF b = NoBackend THEN toAgent ELSE Deliver(b, {req})
      /\ told' \subseteq told \cup ConnsOf(f, c)
      /\ fePC' = [fePC EXCEPT ![f] = IF b = NoBackend THEN "serve" ELSE "drain"]
  BY Zenon DEF FeCloseReq, FeHead, FeGoto
<1>2. PICK pc \in {"serve", "drain"} : fePC' = [fePC EXCEPT ![f] = pc]
  BY Zenon, <1>1
<1>3. c \in ConnID
  BY Zenon, <1>1, PopRequests, PacketLemma
<1>4. req \in Packet /\ req.type # "DIAL_REQ"
  BY Zenon, <1>3 DEF Packet, Pkt
<1>5. /\ toAgent' \in [Backend -> SUBSET Packet]
      /\ \A x \in Backend, p \in Packet :
           p \in toAgent'[x] /\ p.type = "DIAL_REQ" => p \in toAgent[x]
  <2>1. CASE b = NoBackend
    BY Zenon, <1>1, <2>1 DEF Types
  <2>2. CASE b # NoBackend
    <3>1. b \in Backend
      BY Zenon, <2>2 DEF Types
    <3>2. {req} \in SUBSET Packet /\ toAgent' = Deliver(b, {req})
      BY Zenon, <1>1, <1>4, <2>2
    <3>3. /\ toAgent' \in [Backend -> SUBSET Packet]
          /\ \A x \in Backend, p \in Packet :
               p \in toAgent'[x] => p \in toAgent[x] \/ (x = b /\ p \in {req})
      BY Zenon, <3>1, <3>2, DeliverLemma
    <3>. QED  BY Zenon, <1>4, <3>3
  <2>. QED  BY Zenon, <2>1, <2>2
<1>6. told' \subseteq Dial /\ firstConnID' \in [Frontend -> 0..MaxConn]
  BY Zenon, <1>1 DEF Types, ConnsOf
<1>. QED  BY Zenon, <1>1, <1>2, <1>5, <1>6, FePopStep DEF maps

(* DIAL_CLS from a client removes the pending dial and answers nothing. *)
LEMMA FeDialClsStep ==
  ASSUME Inv, NEW f \in Frontend, FeDialCls(f)
  PROVE  Inv'
<1> USE DEF Inv, DialInv
<1>1. /\ feIn[f] # <<>> /\ FePop(f) /\ fePC[f] = "serve"
      /\ UNCHANGED <<established, dialBackend, connectID, fePC, feStream,
                     feBackend, feDial, firstConnID, feTodo, beVars, toAgent,
                     asyncVars, clientVars, agentVars, history>>
      /\ PendingRemove({Head(feIn[f]).dial})
  BY Zenon DEF FeDialCls, FeHead
<1>2. fePC' = [fePC EXCEPT ![f] = "serve"]
  BY Zenon, <1>1 DEF Types
<1>3. pending' \subseteq pending
  BY Zenon, <1>1 DEF PendingRemove
<1>4. /\ told' \subseteq Dial /\ firstConnID' \in [Frontend -> 0..MaxConn]
      /\ toAgent' \in [Backend -> SUBSET Packet]
  BY Zenon, <1>1 DEF Types, history
<1>. QED  BY Zenon, <1>1, <1>2, <1>3, <1>4, FePopStep DEF history

(* DATA from a client leaves the maps alone, connection ID mismatch or not. *)
LEMMA FeDataStep ==
  ASSUME Inv, NEW f \in Frontend, FeData(f)
  PROVE  Inv'
<1> USE DEF Inv, DialInv
<1> DEFINE c == Head(feIn[f]).conn
           b == feBackend[f]
           first == IF firstConnID[f] = 0 THEN c ELSE firstConnID[f]
<1>1. /\ feIn[f] # <<>> /\ Head(feIn[f]).type = "DATA" /\ FePop(f)
      /\ UNCHANGED <<maps, feStream, feBackend, feDial, feTodo, beVars,
                     asyncVars, clientVars, agentVars, answers>>
  BY Zenon DEF FeData, FeHead
<1>2. c \in ConnID
  BY Zenon, <1>1, PopRequests, PacketLemma
<1>3. first \in ConnID
  BY <1>2, ConstantsAssumption DEF Types, ConnID
<1>4. PICK pc \in {"serve", "drain"} : fePC' = [fePC EXCEPT ![f] = pc]
  BY Zenon DEF FeData, FeGoto
<1>5. /\ toAgent' \in [Backend -> SUBSET Packet]
      /\ \A x \in Backend, p \in Packet :
           p \in toAgent'[x] /\ p.type = "DIAL_REQ" => p \in toAgent[x]
  <2>1. CASE b = NoBackend
    <3>1. toAgent' = toAgent
      BY Zenon, <2>1 DEF FeData
    <3>. QED  BY Zenon, <3>1 DEF Types
  <2>2. CASE b # NoBackend
    <3>1. b \in Backend
      BY ZenonT(60), <2>2 DEF Types
    <3>2. PICK S \in {{Pkt("CLOSE_REQ", NoDial, x) : x \in {c, first}},
                      {Pkt("DATA", NoDial, c)}} : toAgent' = Deliver(b, S)
      BY Zenon, <2>2 DEF FeData
    <3>3. S \in SUBSET Packet /\ \A p \in S : p.type # "DIAL_REQ"
      BY <1>2, <1>3, <3>2 DEF Packet, Pkt
    <3>4. /\ toAgent' \in [Backend -> SUBSET Packet]
          /\ \A x \in Backend, p \in Packet :
               p \in toAgent'[x] => p \in toAgent[x] \/ (x = b /\ p \in S)
      BY Zenon, <3>1, <3>2, <3>3, DeliverLemma
    <3>. QED  BY Zenon, <3>3, <3>4
  <2>. QED  BY Zenon, <2>1, <2>2
<1>6. told' \subseteq Dial
  BY Zenon DEF FeData, Types, ConnsOf
<1>7. firstConnID' \in [Frontend -> 0..MaxConn]
  <2>1. first \in 0..MaxConn
    BY <1>3 DEF ConnID
  <2>2. \E x \in {firstConnID[f], first} :
          firstConnID' = [firstConnID EXCEPT ![f] = x]
    BY Zenon DEF FeData
  <2>. QED  BY <2>1, <2>2 DEF Types
<1>. QED  BY Zenon, <1>1, <1>4, <1>5, <1>6, <1>7, FePopStep DEF maps

(* These steps take no packet and may only shrink the maps. *)
LEMMA FeCleanStep ==
  ASSUME Inv, NEW f \in Frontend,
         fePC[f] \notin {"addDial", "sendDial", "sentDial"},
         NEW pc \in {"cleanPending", "sendDialClose", "sendClose", "done"},
         fePC' = [fePC EXCEPT ![f] = pc],
         feIn' = feIn \/ feIn' = [feIn EXCEPT ![f] = <<>>],
         pending' \subseteq pending,
         established' \in [Agent -> [ConnID -> Dial \cup {NoDial}]],
         \A a \in Agent, c \in ConnID :
           established'[a][c] \in {established[a][c], NoDial},
         feTodo' \in [Frontend -> SUBSET (Backend \X ClosePacket)],
         UNCHANGED <<dialBackend, connectID, feStream, feBackend, feDial,
                     firstConnID, beVars, toAgent, asyncVars, clientVars,
                     agentVars, history>>
  PROVE  Inv'
<1> USE DEF Inv, DialInv
<1>1. /\ feIn' \in [Frontend -> Seq(Packet)]
      /\ \A g \in Frontend : feIn'[g] = feIn[g] \/ feIn'[g] = <<>>
  <2>1. <<>> \in Seq(Packet) /\ feIn \in [Frontend -> Seq(Packet)]
    BY DEF Types
  <2>. QED  BY Zenon, <2>1
<1>2. Types'
  BY Zenon, <1>1 DEF Types, FePC, beVars, asyncVars, clientVars, agentVars, history
<1>3. RequestedFresh' /\ RequestedOnce' /\ AddingFresh'
  <2>1. \A g \in Frontend : \A i \in DOMAIN feIn'[g] : feIn'[g] = feIn[g]
    BY <1>1
  <2>2. /\ RequestedOnce'
        /\ \A g \in Frontend, d \in Dial : Requested(g, d)' => Requested(g, d)
    BY Zenon, <2>1 DEF RequestedOnce, Requested
  <2>3. \A g \in Frontend : fePC'[g] = "addDial" => fePC[g] = "addDial"
    BY Zenon DEF Types
  <2>. QED  BY ZenonT(60), <2>2, <2>3, RequestFrame DEF clientVars, history
<1>4. SendInv'
  BY Zenon DEF SendInv, Types
<1>5. EstablishedInv'
  BY DEF EstablishedInv
<1>6. AskedInv' /\ PendingInv' /\ AsyncInv' /\ WireInv' /\ AnswerInv'
  BY Zenon DEF AskedInv, PendingInv, AsyncInv, WireInv, AnswerInv, beVars, asyncVars,
         clientVars, history
<1>7. ClaimInv'
  BY Zenon DEF ClaimInv, beVars, history
<1>. QED  BY Zenon, <1>2, <1>3, <1>4, <1>5, <1>6, <1>7

(* The receive loop ends and drops what it had not handled. *)
LEMMA FeRecvClosedStep ==
  ASSUME Inv, NEW f \in Frontend, FeRecvClosed(f)
  PROVE  Inv'
<1>1. /\ UNCHANGED <<maps, feStream, feBackend, feDial, firstConnID, feTodo,
                     beVars, toAgent, asyncVars, clientVars, agentVars, history>>
      /\ fePC[f] \in {"drain", "serve"}
      /\ fePC' = [fePC EXCEPT ![f] = "cleanPending"]
      /\ feIn' = [feIn EXCEPT ![f] = <<>>]
  BY Zenon DEF FeRecvClosed, FeGoto
<1>2. /\ established' \in [Agent -> [ConnID -> Dial \cup {NoDial}]]
      /\ feTodo' \in [Frontend -> SUBSET (Backend \X ClosePacket)]
  BY Zenon, <1>1 DEF maps, Inv, Types
<1>. QED  BY Zenon, <1>1, <1>2, FeCleanStep DEF maps

(* removeForStream keeps the count of dials in flight. *)
LEMMA FeCleanPendingStep ==
  ASSUME Inv, NEW f \in Frontend, FeCleanPending(f)
  PROVE  Inv'
<1> DEFINE mine == StreamDials(f) \cap pending
<1>1. /\ UNCHANGED <<established, dialBackend, connectID, feStream, feIn,
                     feBackend, feDial, firstConnID, beVars, toAgent,
                     asyncVars, clientVars, agentVars, history>>
      /\ fePC[f] = "cleanPending"
      /\ fePC' = [fePC EXCEPT ![f] = "sendDialClose"]
      /\ PendingRemove(mine)
      /\ feTodo' = [feTodo EXCEPT ![f] =
           {<<dialBackend[d], Pkt("DIAL_CLS", d, 0)>> : d \in mine}]
  BY Zenon DEF FeCleanPending, FeGoto
<1>2. pending' \subseteq pending
  BY Zenon, <1>1 DEF PendingRemove
<1>3. \A d \in mine : /\ dialBackend[d] \in Backend
                      /\ Pkt("DIAL_CLS", d, 0) \in ClosePacket
  BY Zenon, PktLemma DEF Inv, DialInv, PendingInv, Types, ClosePacket
<1>4. established' \in [Agent -> [ConnID -> Dial \cup {NoDial}]]
  BY Zenon, <1>1 DEF Inv, Types
<1>5. feTodo' \in [Frontend -> SUBSET (Backend \X ClosePacket)]
  <2>1. {<<dialBackend[d], Pkt("DIAL_CLS", d, 0)>> : d \in mine}
          \in SUBSET (Backend \X ClosePacket)
    BY <1>3
  <2>. QED  BY Zenon, <1>1, <2>1 DEF Inv, Types
<1>. QED  BY Zenon, <1>1, <1>2, <1>4, <1>5, FeCleanStep

(* removeEstablishedForStream closes connections on their own backends. *)
LEMMA FeCleanEstablishedStep ==
  ASSUME Inv, NEW f \in Frontend, FeCleanEstablished(f)
  PROVE  Inv'
<1> DEFINE mine == StreamDials(f) \cap EstablishedDials
<1>1. /\ UNCHANGED <<pending, dialBackend, connectID, dialsInFlight, feStream,
                     feIn, feBackend, feDial, firstConnID, beVars, toAgent,
                     asyncVars, clientVars, agentVars, history>>
      /\ fePC[f] = "sendDialClose"
      /\ fePC' = [fePC EXCEPT ![f] = "sendClose"]
      /\ removeEstablished(mine)
      /\ feTodo' = [feTodo EXCEPT ![f] =
           {<<dialBackend[d], Pkt("CLOSE_REQ", NoDial, connectID[d])>> :
              d \in mine}]
  BY ZenonT(60) DEF FeCleanEstablished, FeGoto
<1>2. /\ established' \in [Agent -> [ConnID -> Dial \cup {NoDial}]]
      /\ \A a \in Agent, c \in ConnID :
           established'[a][c] \in {established[a][c], NoDial}
  BY <1>1 DEF removeEstablished, Inv, Types
<1>3. \A d \in mine : /\ dialBackend[d] \in Backend
                      /\ Pkt("CLOSE_REQ", NoDial, connectID[d]) \in ClosePacket
  <2>1. \A d \in mine : dialBackend[d] \in Backend /\ connectID[d] \in ConnID
    BY SMTT(20) DEF Inv, DialInv, EstablishedInv, EstablishedDials
  <2>. QED  BY Zenon, <2>1 DEF Packet, ClosePacket, Pkt
<1>4. feTodo' \in [Frontend -> SUBSET (Backend \X ClosePacket)]
  BY <1>1, <1>3 DEF Inv, Types
<1>. QED  BY Zenon, <1>1, <1>2, <1>4, FeCleanStep

(* The handler of the stream returns. *)
LEMMA FeReturnStep ==
  ASSUME Inv, NEW f \in Frontend, FeReturn(f)
  PROVE  Inv'
<1>1. /\ UNCHANGED <<maps, feStream, feIn, feBackend, feDial, firstConnID,
                     feTodo, beVars, toAgent, asyncVars, clientVars,
                     agentVars, history>>
      /\ fePC[f] = "sendClose" /\ fePC' = [fePC EXCEPT ![f] = "done"]
  BY Zenon DEF FeReturn, FeGoto
<1>2. /\ established' \in [Agent -> [ConnID -> Dial \cup {NoDial}]]
      /\ feTodo' \in [Frontend -> SUBSET (Backend \X ClosePacket)]
  BY Zenon, <1>1 DEF maps, Inv, Types
<1>. QED  BY Zenon, <1>1, <1>2, FeCleanStep DEF maps

(* sendBackendDialClose and sendBackendClose send no DIAL_REQ. *)
LEMMA FeCleanSendStep ==
  ASSUME Inv, NEW f \in Frontend, FeCleanSend(f)
  PROVE  Inv'
<1> USE DEF Inv, DialInv
<1>1. PICK t \in feTodo[f] : /\ toAgent' = Deliver(t[1], {t[2]})
                             /\ feTodo' = [feTodo EXCEPT ![f] = @ \ {t}]
  BY Zenon DEF FeCleanSend
<1>2. UNCHANGED <<maps, fePC, feStream, feIn, feBackend, feDial, firstConnID,
                  beVars, asyncVars, clientVars, agentVars, history>>
  BY Zenon DEF FeCleanSend
<1>3. /\ t[1] \in Backend /\ t[2] \in ClosePacket
      /\ feTodo' \in [Frontend -> SUBSET (Backend \X ClosePacket)]
  BY <1>1 DEF Types
<1>4. t[2] \in Packet /\ t[2].type # "DIAL_REQ" /\ {t[2]} \in SUBSET Packet
  BY Zenon, <1>3 DEF ClosePacket
<1>5. /\ toAgent' \in [Backend -> SUBSET Packet]
      /\ \A x \in Backend, p \in Packet :
           p \in toAgent'[x] => p \in toAgent[x] \/ (x = t[1] /\ p \in {t[2]})
  <2>1. /\ t[1] \in Backend /\ {t[2]} \in SUBSET Packet
        /\ toAgent' = Deliver(t[1], {t[2]})
    BY Zenon, <1>1, <1>3, <1>4
  <2>. QED  BY Zenon, <2>1, DeliverLemma
<1>6. Types'
  BY Zenon, <1>2, <1>3, <1>5
  DEF Types, maps, beVars, asyncVars, clientVars, agentVars, history
<1>7. SendInv'
  BY ZenonT(60), <1>2 DEF SendInv, maps
<1>8. RequestedFresh' /\ RequestedOnce' /\ AddingFresh'
  BY <1>2 DEF RequestedFresh, RequestedOnce, AddingFresh, Requested, Fresh, maps,
              clientVars, history
<1>9. /\ AskedInv' /\ PendingInv' /\ AsyncInv' /\ WireInv' /\ ClaimInv'
      /\ EstablishedInv' /\ AnswerInv'
  <2>1. \A d \in Dial : /\ Pkt("DIAL_REQ", d, 0) \in Packet
                        /\ Pkt("DIAL_REQ", d, 0).type = "DIAL_REQ"
    BY PktLemma
  <2>2. \A b \in Backend, d \in Dial :
          Pkt("DIAL_REQ", d, 0) \in toAgent'[b] => Pkt("DIAL_REQ", d, 0) \in toAgent[b]
    BY Zenon, <1>4, <1>5, <2>1
  <2>. QED  BY Zenon, <1>2, <2>2, MapsFrame DEF maps, beVars, asyncVars, clientVars, history
<1>. QED  BY Zenon, <1>6, <1>7, <1>8, <1>9

-----------------------------------------------------------------------------
(* What the steps leave alone *)

FrontendStep(f) == serveRecvFrontend(f) \/ proxyCleanup(f)
ConnStep(b) == Connect(b) \/ ConnectReturn(b) \/ ConnectRetired(b)
DialStep(d) == AbandonedSend(d) \/ TimerFires(d) \/ TimerBackendDone(d)
ClientStep(f) == ClientDial(f) \/ ClientCancel(f) \/ ClientUse(f) \/ ClientEnd(f)
AgentStep(b) == \/ AgentReplies(b) \/ AgentConsume(b) \/ AgentEnd(b)
                \/ \E c \in ConnID : RemoteData(b, c) \/ RemoteClose(b, c)

(* The steps that are neither of a stream's nor of a connection's          *)
(* goroutine.                                                              *)
OtherStep == \/ \E b \in Backend : ConnStep(b) \/ AgentStep(b)
             \/ \E d \in Dial : DialStep(d)
             \/ \E f \in Frontend, b \in Backend : CloseHook(f, b)
             \/ \E f \in Frontend : ClientStep(f)
             \/ UNCHANGED vars

(* Every step is one of these. *)
LEMMA NextSteps ==
  ASSUME [Next]_vars
  PROVE  \/ \E f \in Frontend : FrontendStep(f)
         \/ \E b \in Backend : serveRecvBackend(b)
         \/ OtherStep
  BY Zenon DEF Next, Environment, OtherStep, FrontendStep, ConnStep, DialStep,
               ClientStep, AgentStep

(* What a step of stream f leaves of the others. *)
FrontendKeeps(f) ==
  /\ UNCHANGED <<connectID, feStream, beConn, beStream, bePC, beDial, remote, nextConnID, beIn>>
  /\ \A g \in Frontend \ {f} : /\ fePC'[g] = fePC[g] /\ feDial'[g] = feDial[g]
                               /\ feTodo'[g] = feTodo[g]

(* The goroutine of a stream works on that stream. *)
LEMMA StreamFrame ==
  ASSUME Types, NEW f \in Frontend, FrontendStep(f)
  PROVE  FrontendKeeps(f)
<1> USE DEF FrontendKeeps, maps, beVars, agentVars
<1>1. ASSUME serveRecvFrontend(f) PROVE FrontendKeeps(f)
  <2>1. FeGetBackend(f) \/ FeNoBackend(f) \/ FeAddDial(f) => FrontendKeeps(f)
    BY ZenonT(60) DEF FeGetBackend, FeNoBackend, FeAddDial, Types, FeGoto
  <2>2. FeSendDial(f) \/ FeDialSent(f) \/ FeDialFailed(f) => FrontendKeeps(f)
    BY Zenon DEF FeSendDial, FeDialSent, FeDialFailed, Types, FeGoto
  <2>3. FeCloseReq(f) \/ FeDialCls(f) => FrontendKeeps(f)
    BY Zenon DEF FeCloseReq, FeDialCls, Types, FeGoto
  <2>4. FeData(f) \/ FeRecvClosed(f) => FrontendKeeps(f)
    BY Zenon DEF FeData, FeRecvClosed, Types, FeGoto
  <2>. QED  BY Zenon, <1>1, <2>1, <2>2, <2>3, <2>4 DEF serveRecvFrontend
<1>2. ASSUME proxyCleanup(f) PROVE FrontendKeeps(f)
  BY ZenonT(60), <1>2 DEF proxyCleanup, FeCleanPending, FeCleanSend, FeCleanEstablished,
                     FeReturn, Types, FeGoto
<1>. QED  BY Zenon, <1>1, <1>2 DEF FrontendStep

(* What a step of connection b leaves of the others. *)
BackendKeeps(b) ==
  /\ UNCHANGED <<dialBackend, fePC, feStream, feDial, feTodo, beConn, beStream, remote, nextConnID>>
  /\ pending' \subseteq pending
  /\ \A x \in Backend \ {b} : /\ bePC'[x] = bePC[x] /\ beDial'[x] = beDial[x]
                              /\ beIn'[x] = beIn[x]

(* The goroutine of an agent connection works on that connection. *)
LEMMA AgentConnFrame ==
  ASSUME Types, NEW b \in Backend, serveRecvBackend(b)
  PROVE  BackendKeeps(b)
<1> USE DEF BackendKeeps, maps, feVars, agentVars
<1>1. BeDialRspUnknown(b) => BackendKeeps(b)
  BY Zenon DEF BeDialRspUnknown, BePop, Types
<1>2. BeDialRspError(b) \/ BeDialRspOk(b) => BackendKeeps(b)
  BY ZenonT(60) DEF BeDialRspError, BeDialRspOk, PendingRemove, BePop, BeGoto, Types
<1>3. addEstablished(b) \/ BeForward(b) \/ BeUnestablish(b) => BackendKeeps(b)
  BY Zenon DEF addEstablished, BeForward, BeUnestablish, BeGoto, Types
<1>4. BeDialCls(b) \/ BeData(b) \/ BeCloseRsp(b) => BackendKeeps(b)
  BY Zenon DEF BeDialCls, BeData, BeCloseRsp, PendingRemove, BePop, Types
<1>5. BeCleanPending(b) \/ BeCleanEstablished(b) => BackendKeeps(b)
  BY Zenon DEF BeCleanPending, BeCleanEstablished, PendingRemove, BeGoto, Types
<1>. QED  BY Zenon, <1>1, <1>2, <1>3, <1>4, <1>5 DEF serveRecvBackend

(* What the other steps leave alone. *)
OthersKeep ==
  /\ UNCHANGED <<established, dialBackend, connectID, fePC, feDial, feTodo, bePC, beDial, told>>
  /\ pending' \subseteq pending

(* The other steps change neither map but for the pending dials that a     *)
(* timer removes.                                                          *)
LEMMA OtherFrame ==
  ASSUME OtherStep
  PROVE  OthersKeep
<1> USE DEF OthersKeep, maps, feVars, beVars, history
<1>1. ASSUME NEW b \in Backend, ConnStep(b) PROVE OthersKeep
  BY Zenon, <1>1 DEF ConnStep, Connect, ConnectReturn, ConnectRetired
<1>2. ASSUME NEW b \in Backend, AgentStep(b) PROVE OthersKeep
  <2>1. AgentReplies(b) => OthersKeep
    BY Zenon DEF AgentReplies, AgentDialOk, AgentDialFails, AgentClose, AgentDataUnknown
  <2>2. AgentConsume(b) \/ AgentEnd(b) => OthersKeep
    BY Zenon DEF AgentConsume, AgentEnd
  <2>3. (\E c \in ConnID : RemoteData(b, c) \/ RemoteClose(b, c)) => OthersKeep
    BY Zenon DEF RemoteData, RemoteClose
  <2>. QED  BY Zenon, <1>2, <2>1, <2>2, <2>3 DEF AgentStep
<1>3. ASSUME NEW d \in Dial, DialStep(d) PROVE OthersKeep
  BY Zenon, <1>3 DEF DialStep, AbandonedSend, TimerFires, TimerBackendDone, PendingRemove
<1>4. ASSUME NEW f \in Frontend, NEW b \in Backend, CloseHook(f, b) PROVE OthersKeep
  BY Zenon, <1>4 DEF CloseHook
<1>5. ASSUME NEW f \in Frontend, ClientStep(f) PROVE OthersKeep
  BY Zenon, <1>5 DEF ClientStep, ClientDial, ClientCancel, ClientUse, ClientEnd, ClientSend
<1>6. CASE UNCHANGED vars
  BY Zenon, <1>6 DEF vars
<1>. QED  BY Zenon, <1>1, <1>2, <1>3, <1>4, <1>5, <1>6 DEF OtherStep

-----------------------------------------------------------------------------
(* The ends of streams and connections *)

(* connect and the agent: a stream that is up ends once. *)
LEMMA BeEnds ==
  ASSUME Types, BeStageInv, OtherStep, NEW b \in Backend
  PROVE  /\ beStream'[b] = "open" => beConn'[b] = "up"
         /\ beConn'[b] = "none" => beStream'[b] = "none"
         /\ beStream[b] \in {"eof", "broken"} => beStream'[b] = beStream[b]
         /\ beStream'[b] = "eof" => beStream[b] = "eof" \/ "eof" \in BackendEnds
         /\ beStream'[b] = "open" => beStream[b] = "open" \/ beConn[b] = "none"
<1> DEFINE Good == /\ beStream'[b] = "open" => beConn'[b] = "up"
                   /\ beConn'[b] = "none" => beStream'[b] = "none"
                   /\ beStream[b] \in {"eof", "broken"} => beStream'[b] = beStream[b]
                   /\ beStream'[b] = "eof" => beStream[b] = "eof" \/ "eof" \in BackendEnds
                   /\ beStream'[b] = "open" => beStream[b] = "open" \/ beConn[b] = "none"
<1> SUFFICES Good
  BY Zenon
<1>0. /\ beConn \in [Backend -> {"none", "up", "returned"}]
      /\ beStream \in [Backend -> {"none", "open", "eof", "broken"}]
  BY Zenon DEF Types
<1>1. ASSUME NEW x \in Backend, ConnStep(x) PROVE Good
  <2>1. Connect(x) => Good
    BY Zenon, <1>0 DEF Connect, BeStageInv
  <2>2. ConnectReturn(x) => Good
    BY Zenon, <1>0 DEF ConnectReturn, BeStageInv
  <2>3. ConnectRetired(x) => Good
    BY Zenon, <1>0 DEF ConnectRetired, BeStageInv
  <2>. QED  BY Zenon, <1>1, <2>1, <2>2, <2>3 DEF ConnStep
<1>2. CASE UNCHANGED <<beConn, beStream>>
  BY Zenon, <1>2 DEF BeStageInv
<1>3. ASSUME NEW x \in Backend, AgentStep(x) PROVE Good
  <2>1. AgentReplies(x) \/ AgentConsume(x) \/ (\E c \in ConnID : RemoteData(x, c) \/ RemoteClose(x, c))
        => UNCHANGED <<beConn, beStream>>
    BY Zenon DEF AgentReplies, AgentDialOk, AgentDialFails, AgentClose, AgentDataUnknown,
                 AgentConsume, RemoteData, RemoteClose, beVars
  <2>2. AgentEnd(x) => Good
    <3> SUFFICES ASSUME AgentEnd(x) PROVE Good
      BY Zenon
    <3>1. PICK how \in BackendEnds \ {"retire"} :
                beStream' = [beStream EXCEPT ![x] = how]
      BY Zenon DEF AgentEnd
    <3>2. beConn' = beConn /\ beStream[x] = "open"
      BY Zenon DEF AgentEnd, AgentUp
    <3>3. how \in {"eof", "broken"}
      BY Zenon, <3>1, ConstantsAssumption
    <3>. QED  BY Zenon, <1>0, <3>1, <3>2, <3>3 DEF BeStageInv
  <2>. QED  BY Zenon, <1>2, <1>3, <2>1, <2>2 DEF AgentStep
<1>4. ASSUME NEW d \in Dial, DialStep(d) PROVE UNCHANGED <<beConn, beStream>>
  BY Zenon, <1>4 DEF DialStep, AbandonedSend, TimerFires, TimerBackendDone, beVars
<1>5. ASSUME NEW f \in Frontend, NEW x \in Backend, CloseHook(f, x)
      PROVE  UNCHANGED <<beConn, beStream>>
  BY Zenon, <1>5 DEF CloseHook, beVars
<1>6. ASSUME NEW f \in Frontend, ClientStep(f) PROVE UNCHANGED <<beConn, beStream>>
  BY Zenon, <1>6 DEF ClientStep, ClientDial, ClientCancel, ClientUse, ClientEnd, ClientSend, beVars
<1>7. UNCHANGED vars => UNCHANGED <<beConn, beStream>>
  BY Zenon DEF vars, beVars
<1>. QED  BY Zenon, <1>1, <1>2, <1>3, <1>4, <1>5, <1>6, <1>7 DEF OtherStep

(* The same of a frontend stream. *)
LEMMA FeEnds ==
  ASSUME Types, OtherStep, NEW f \in Frontend
  PROVE  /\ feStream[f] # "open" => feStream'[f] # "open"
         /\ feStream'[f] = "eof" => feStream[f] = "eof" \/ "eof" \in FrontendEnds
<1> DEFINE Good == /\ feStream[f] # "open" => feStream'[f] # "open"
                   /\ feStream'[f] = "eof" => feStream[f] = "eof" \/ "eof" \in FrontendEnds
<1> SUFFICES Good
  BY Zenon
<1>1. feStream' = feStream => Good
  BY Zenon
<1>2. ASSUME NEW b \in Backend, ConnStep(b) \/ AgentStep(b) PROVE feStream' = feStream
  BY Zenon, <1>2 DEF ConnStep, Connect, ConnectReturn, ConnectRetired, AgentStep,
     AgentReplies, AgentDialOk, AgentDialFails, AgentClose, AgentDataUnknown,
     AgentConsume, AgentEnd, RemoteData, RemoteClose, feVars
<1>3. ASSUME NEW d \in Dial, DialStep(d) PROVE feStream' = feStream
  BY Zenon, <1>3 DEF DialStep, AbandonedSend, TimerFires, TimerBackendDone, feVars
<1>4. ASSUME NEW g \in Frontend, NEW b \in Backend, CloseHook(g, b) PROVE Good
  BY Zenon, <1>4 DEF CloseHook, FeStreamEnds, Types
<1>5. ASSUME NEW g \in Frontend, ClientStep(g) PROVE Good
  <2>1. ClientDial(g) \/ ClientCancel(g) \/ ClientUse(g) => feStream' = feStream
    BY Zenon DEF ClientDial, ClientCancel, ClientUse, ClientSend
  <2>2. ClientEnd(g) => Good
    <3> SUFFICES ASSUME ClientEnd(g) PROVE Good
      BY Zenon
    <3>1. PICK how \in FrontendEnds : feStream' = [feStream EXCEPT ![g] = how]
      BY Zenon DEF ClientEnd, FeStreamEnds
    <3>2. how \in {"eof", "broken"}
      BY Zenon, <3>1, ConstantsAssumption
    <3>. QED  BY Zenon, <3>1, <3>2 DEF Types
  <2>. QED  BY Zenon, <1>1, <1>5, <2>1, <2>2 DEF ClientStep
<1>6. UNCHANGED vars => feStream' = feStream
  BY Zenon DEF vars, feVars
<1>. QED  BY Zenon, <1>1, <1>2, <1>3, <1>4, <1>5, <1>6 DEF OtherStep

(* A step leaves the outcomes, fails some dials, or forwards a DIAL_RSP. *)
AnswerStep ==
  \/ answers' = answers
  \/ \E S \in SUBSET Dial, k \in {"err", "cls", "lost"} : Answer(S, k)
  \/ \E b \in Backend : BeForward(b)

(* Only serveRecvBackend reports success, when it forwards a DIAL_RSP. *)
LEMMA AnswerSteps ==
  ASSUME Inv, [Next]_vars
  PROVE  AnswerStep
<1> USE DEF AnswerStep, history
<1>1. ASSUME NEW f \in Frontend, FrontendStep(f) PROVE AnswerStep
  <2>1. FeNoBackend(f) => AnswerStep
    <3> SUFFICES ASSUME FeNoBackend(f) PROVE AnswerStep
      BY Zenon
    <3>1. feIn[f] # <<>> /\ Head(feIn[f]).type = "DIAL_REQ" /\ feIn[f] \in Seq(Packet)
      BY Zenon DEF FeNoBackend, FeHead, Inv, Types
    <3>2. Head(feIn[f]).dial \in Dial
      BY Zenon, <3>1, PopLemma, PacketLemma
    <3>. QED  BY Zenon, <3>2 DEF FeNoBackend
  <2>2. FeDialFailed(f) => AnswerStep
    BY Zenon DEF FeDialFailed, Inv, Types
  <2>3. \/ FeGetBackend(f) \/ FeAddDial(f) \/ FeSendDial(f) \/ FeDialSent(f)
        \/ FeCloseReq(f) \/ FeDialCls(f) \/ FeData(f) \/ FeRecvClosed(f)
        => answers' = answers
    BY Zenon DEF FeGetBackend, FeAddDial, FeSendDial, FeDialSent, FeCloseReq, FeDialCls,
                 FeData, FeRecvClosed
  <2>4. proxyCleanup(f) => answers' = answers
    BY Zenon DEF proxyCleanup, FeCleanPending, FeCleanSend, FeCleanEstablished, FeReturn
  <2>. QED  BY Zenon, <1>1, <2>1, <2>2, <2>3, <2>4 DEF FrontendStep, serveRecvFrontend
<1>2. ASSUME NEW b \in Backend, serveRecvBackend(b) PROVE AnswerStep
  <2>1. pending \in SUBSET Dial
    BY Zenon DEF Inv, Types
  <2>2. BeDialRspError(b) => AnswerStep
    BY Zenon, <2>1 DEF BeDialRspError
  <2>3. BeForward(b) => AnswerStep
    BY Zenon
  <2>4. BeDialCls(b) => AnswerStep
    BY Zenon, <2>1 DEF BeDialCls
  <2>5. BeCleanPending(b) => AnswerStep
    BY Zenon, <2>1 DEF BeCleanPending
  <2>6. \/ BeDialRspUnknown(b) \/ BeDialRspOk(b) \/ addEstablished(b)
        \/ BeUnestablish(b) \/ BeData(b) \/ BeCloseRsp(b) \/ BeCleanEstablished(b)
        => answers' = answers
    BY Zenon DEF BeDialRspUnknown, BeDialRspOk, addEstablished, BeUnestablish, BeData,
                 BeCloseRsp, BeCleanEstablished
  <2>. QED  BY Zenon, <1>2, <2>2, <2>3, <2>4, <2>5, <2>6 DEF serveRecvBackend
<1>3. ASSUME OtherStep PROVE AnswerStep
  <2>1. ASSUME NEW b \in Backend, ConnStep(b) \/ AgentStep(b) PROVE answers' = answers
    BY Zenon, <2>1 DEF ConnStep, Connect, ConnectReturn, ConnectRetired, AgentStep,
       AgentReplies, AgentDialOk, AgentDialFails, AgentClose, AgentDataUnknown,
       AgentConsume, AgentEnd, RemoteData, RemoteClose
  <2>2. ASSUME NEW e \in Dial, DialStep(e) PROVE AnswerStep
    BY Zenon, <2>2 DEF DialStep, AbandonedSend, TimerFires, TimerBackendDone
  <2>3. ASSUME NEW f \in Frontend, NEW b \in Backend, CloseHook(f, b) PROVE answers' = answers
    BY Zenon, <2>3 DEF CloseHook
  <2>4. ASSUME NEW f \in Frontend, ClientStep(f) PROVE answers' = answers
    BY Zenon, <2>4 DEF ClientStep, ClientDial, ClientCancel, ClientUse, ClientEnd, ClientSend
  <2>5. UNCHANGED vars => answers' = answers
    BY Zenon DEF vars
  <2>. QED  BY Zenon, <1>3, <2>1, <2>2, <2>3, <2>4, <2>5 DEF OtherStep
<1>. QED  BY Zenon, <1>1, <1>2, <1>3, NextSteps

(* An outcome is given once, so it stays. *)
LEMMA AnswersStay ==
  ASSUME Inv, Inv', [Next]_vars, NEW d \in Dial, answers[d] # <<>>
  PROVE  answers'[d] = answers[d]
<1>1. SUFFICES ASSUME NEW k \in {"ok", "err", "cls", "lost"},
                      answers'[d] = Append(answers[d], k)
               PROVE  FALSE
  BY Zenon, AnswerSteps DEF AnswerStep, Answer, BeForward
<1>2. /\ answers[d] \in Seq({"ok", "err", "cls", "lost"})
      /\ Len(answers[d]) <= 1 /\ Len(answers'[d]) <= 1
  BY Zenon DEF Inv, DialInv, AnswerInv, Types
<1>3. Len(answers[d]) # 0
  BY <1>2
<1>. QED  BY <1>1, <1>2, <1>3

(* A stream's goroutine removes entries only. *)
LEMMA StreamShrinks ==
  ASSUME Types, NEW f \in Frontend, FrontendStep(f), NEW a \in Agent, NEW c \in ConnID
  PROVE  \/ established'[a][c] = established[a][c]
         \/ /\ established'[a][c] = NoDial /\ FeCleanEstablished(f)
            /\ established[a][c] \in StreamDials(f)
<1>1. FeCleanEstablished(f) \/ established' = established
  BY Zenon DEF FrontendStep, serveRecvFrontend, proxyCleanup, FeGetBackend, FeNoBackend,
     FeAddDial, FeSendDial, FeDialSent, FeDialFailed, FeCloseReq, FeDialCls, FeData,
     FeRecvClosed, FeCleanPending, FeCleanSend, FeReturn, maps
<1>2. ASSUME FeCleanEstablished(f)
      PROVE  \/ established'[a][c] = established[a][c]
             \/ established'[a][c] = NoDial /\ established[a][c] \in StreamDials(f)
  <2>1. established' = [x \in Agent |-> [y \in ConnID |->
           IF established[x][y] \in StreamDials(f) \cap EstablishedDials
           THEN NoDial ELSE established[x][y]]]
    BY Zenon, <1>2 DEF FeCleanEstablished, removeEstablished
  <2>2. established'[a][c] = IF established[a][c] \in StreamDials(f) \cap EstablishedDials
                             THEN NoDial ELSE established[a][c]
    BY Zenon, <2>1
  <2>. QED  BY Zenon, <2>2
<1>. QED  BY Zenon, <1>1, <1>2

(* Only the dial that a stream is adding becomes pending. *)
LEMMA StreamPending ==
  ASSUME NEW f \in Frontend, FrontendStep(f)
  PROVE  \/ pending' \subseteq pending /\ dialBackend' = dialBackend
         \/ FeAddDial(f) /\ pending' = pending \cup {feDial[f]}
<1>1. \/ FeGetBackend(f) \/ FeNoBackend(f) \/ FeSendDial(f) \/ FeDialSent(f)
      \/ FeCloseReq(f) \/ FeData(f) \/ FeRecvClosed(f) \/ FeCleanSend(f)
      \/ FeCleanEstablished(f) \/ FeReturn(f)
      => UNCHANGED <<pending, dialBackend>>
  BY Zenon DEF FeGetBackend, FeNoBackend, FeSendDial, FeDialSent, FeCloseReq, FeData,
     FeRecvClosed, FeCleanSend, FeCleanEstablished, FeReturn, maps
<1>2. FeDialFailed(f) \/ FeDialCls(f) \/ FeCleanPending(f)
      => pending' \subseteq pending /\ dialBackend' = dialBackend
  BY Zenon DEF FeDialFailed, FeDialCls, FeCleanPending, PendingRemove
<1>3. FeAddDial(f) => pending' = pending \cup {feDial[f]}
  BY Zenon DEF FeAddDial, PendingAdd
<1>. QED  BY Zenon, <1>1, <1>2, <1>3 DEF FrontendStep, serveRecvFrontend, proxyCleanup

(* Every step keeps what holds of the ends of agent connections. *)
LEMMA BeStageStep ==
  ASSUME Inv, EndsInv, [Next]_vars
  PROVE  BeStageInv'
<1>1. Types /\ BeStageInv
  BY Zenon DEF Inv, EndsInv
<1>2. ASSUME NEW f \in Frontend, FrontendStep(f) PROVE BeStageInv'
  BY Zenon, <1>1, <1>2, StreamFrame DEF FrontendKeeps, BeStageInv
<1>3. ASSUME NEW b \in Backend, serveRecvBackend(b) PROVE BeStageInv'
  <2>1. BackendKeeps(b)
    BY Zenon, <1>1, <1>3, AgentConnFrame
  <2>2. bePC'[b] \in {"cleanEstablished", "done"} => beStream[b] \in {"eof", "broken"}
    BY ZenonT(60), <1>1, <1>3
    DEF serveRecvBackend, BeDialRspUnknown, BeDialRspError, BeDialRspOk, addEstablished,
        BeForward, BeUnestablish, BeDialCls, BeData, BeCloseRsp, BeCleanPending,
        BeCleanEstablished, BeHead, BeGoto, Types, BeStageInv
  <2>. QED  BY Zenon, <1>1, <2>1, <2>2 DEF BackendKeeps, BeStageInv
<1>4. ASSUME OtherStep PROVE BeStageInv'
  <2>1. bePC' = bePC
    BY Zenon, <1>4, OtherFrame DEF OthersKeep
  <2>. QED  BY Zenon, <1>1, <1>4, <2>1, BeEnds DEF BeStageInv
<1>. QED  BY Zenon, <1>2, <1>3, <1>4, NextSteps

(* Every step keeps what holds of the ends of frontend streams. *)
LEMMA FeStageStep ==
  ASSUME Inv, EndsInv, [Next]_vars
  PROVE  FeStageInv'
<1>1. Types /\ FeStageInv
  BY Zenon DEF Inv, EndsInv
<1>2. ASSUME NEW f \in Frontend, FrontendStep(f) PROVE FeStageInv'
  <2>1. FrontendKeeps(f)
    BY Zenon, <1>1, <1>2, StreamFrame
  <2> DEFINE Good ==
        /\ fePC'[f] \in {"cleanPending", "sendDialClose", "sendClose", "done"} =>
             feStream[f] # "open"
        /\ fePC'[f] \notin {"sendDialClose", "sendClose"} => feTodo'[f] = {}
  <2>2. ASSUME serveRecvFrontend(f) PROVE Good
    BY ZenonT(60), <1>1, <2>2 DEF serveRecvFrontend, FeGetBackend, FeNoBackend, FeAddDial,
       FeSendDial, FeDialSent, FeDialFailed, FeCloseReq, FeDialCls, FeData, FeRecvClosed,
       FeHead, FeGoto, Types, FeStageInv
  <2>3. ASSUME proxyCleanup(f) PROVE Good
    BY Zenon, <1>1, <2>3 DEF proxyCleanup, FeCleanPending, FeCleanSend, FeCleanEstablished,
       FeReturn, FeGoto, Types, FeStageInv
  <2>4. Good
    BY Zenon, <1>2, <2>2, <2>3 DEF FrontendStep
  <2>. QED  BY Zenon, <1>1, <2>1, <2>4 DEF FrontendKeeps, FeStageInv
<1>3. ASSUME NEW b \in Backend, serveRecvBackend(b) PROVE FeStageInv'
  BY Zenon, <1>1, <1>3, AgentConnFrame DEF BackendKeeps, FeStageInv
<1>4. ASSUME OtherStep PROVE FeStageInv'
  <2>1. fePC' = fePC /\ feTodo' = feTodo
    BY Zenon, <1>4, OtherFrame DEF OthersKeep
  <2>. QED  BY Zenon, <1>1, <1>4, <2>1, FeEnds DEF FeStageInv
<1>. QED  BY Zenon, <1>2, <1>3, <1>4, NextSteps

(* A dial whose DIAL_RSP could not be forwarded has that as its outcome. *)
LEMMA LostStep ==
  ASSUME Inv, Inv', EndsInv, [Next]_vars
  PROVE  LostInv'
<1>1. Types /\ LostInv
  BY Zenon DEF Inv, EndsInv
<1>2. ASSUME NEW b \in Backend, bePC[b] = "unestablish", bePC'[b] = "unestablish",
             beDial'[b] = beDial[b]
      PROVE  answers'[beDial'[b]] = <<"lost">>
  <2>1. beDial[b] \in Dial /\ answers[beDial[b]] = <<"lost">> /\ <<"lost">> # <<>>
    BY ZenonT(60), <1>1, <1>2 DEF Inv, DialInv, ClaimInv, LostInv
  <2>. QED  BY ZenonT(60), <1>2, <2>1, AnswersStay
<1>3. ASSUME NEW f \in Frontend, FrontendStep(f) PROVE LostInv'
  BY Zenon, <1>1, <1>2, <1>3, StreamFrame DEF FrontendKeeps, LostInv
<1>4. ASSUME NEW b \in Backend, serveRecvBackend(b) PROVE LostInv'
  <2>1. BackendKeeps(b)
    BY Zenon, <1>1, <1>4, AgentConnFrame
  <2>2. \A x \in Backend \ {b} : bePC'[x] = "unestablish" => answers'[beDial'[x]] = <<"lost">>
    BY Zenon, <1>2, <2>1 DEF BackendKeeps
  <2>3. ASSUME bePC'[b] = "unestablish" PROVE answers'[beDial'[b]] = <<"lost">>
    <3>1. BeForward(b)
      BY Zenon, <1>1, <1>4, <2>3
      DEF serveRecvBackend, BeDialRspUnknown, BeDialRspError, BeDialRspOk, addEstablished,
          BeUnestablish, BeDialCls, BeData, BeCloseRsp, BeCleanPending,
          BeCleanEstablished, BeHead, BeGoto, Types
    <3>2. /\ bePC[b] = "forward" /\ beDial' = beDial
          /\ ~SendOK(FrontendOf[beDial[b]]) /\ Answer({beDial[b]}, "lost")
      BY Zenon, <1>1, <2>3, <3>1 DEF BeForward, BeGoto, Types
    <3>3. beDial[b] \in Dial /\ answers[beDial[b]] = <<>>
      BY Zenon, <3>2 DEF Inv, DialInv, ClaimInv
    <3>4. answers'[beDial[b]] = <<"lost">>
      BY <1>1, <3>2, <3>3, AnswerLemma
    <3>. QED  BY Zenon, <3>2, <3>4
  <2>. QED  BY Zenon, <2>2, <2>3 DEF LostInv
<1>5. ASSUME OtherStep PROVE LostInv'
  BY Zenon, <1>1, <1>2, <1>5, OtherFrame DEF OthersKeep, LostInv
<1>. QED  BY Zenon, <1>3, <1>4, <1>5, NextSteps

(* What the goroutine of an agent connection does to an entry. *)
EntryStep(b, a, c) ==
  \/ established'[a][c] = established[a][c]
  \/ /\ addEstablished(b) /\ established'[a][c] = beDial[b]
     /\ a = AgentOf[b] /\ c = connectID[beDial[b]]
  \/ /\ BeUnestablish(b) /\ established'[a][c] = NoDial
     /\ a = AgentOf[b] /\ c = connectID[beDial[b]]
  \/ /\ BeCloseRsp(b) /\ established'[a][c] = NoDial
     /\ a = AgentOf[b] /\ c = Head(beIn[b]).conn
  \/ /\ BeCleanEstablished(b) /\ established'[a][c] = NoDial
     /\ established[a][c] # NoDial /\ dialBackend[established[a][c]] = b

(* It adds and removes the entry it is about, and no other. *)
LEMMA ConnEntries ==
  ASSUME Types, NEW b \in Backend, serveRecvBackend(b), NEW a \in Agent, NEW c \in ConnID
  PROVE  EntryStep(b, a, c)
<1>1. established \in [Agent -> [ConnID -> Dial \cup {NoDial}]]
  BY Zenon DEF Types
<1>2. ASSUME NEW z \in Agent, NEW y, NEW v, established' = [established EXCEPT ![z][y] = v]
      PROVE  \/ established'[a][c] = established[a][c]
             \/ a = z /\ c = y /\ established'[a][c] = v
  BY Zenon, <1>1, <1>2
<1>3. AgentOf[b] \in Agent
  BY Zenon, ConstantsAssumption
<1>4. ASSUME addEstablished(b) PROVE EntryStep(b, a, c)
  <2>1. established' = [established EXCEPT ![AgentOf[b]][connectID[beDial[b]]] = beDial[b]]
    BY Zenon, <1>4 DEF addEstablished
  <2>. QED  BY Zenon, <1>2, <1>3, <1>4, <2>1 DEF EntryStep
<1>5. BeUnestablish(b) => EntryStep(b, a, c)
  BY ZenonT(60), <1>2, <1>3 DEF BeUnestablish, EntryStep
<1>6. ASSUME BeCloseRsp(b) PROVE EntryStep(b, a, c)
  <2>1. established' = [established EXCEPT ![AgentOf[b]][Head(beIn[b]).conn] = NoDial]
    BY Zenon, <1>6 DEF BeCloseRsp
  <2>. QED  BY Zenon, <1>2, <1>3, <1>6, <2>1 DEF EntryStep
<1>7. ASSUME BeCleanEstablished(b) PROVE EntryStep(b, a, c)
  <2>1. established' = [x \in Agent |-> [y \in ConnID |->
           IF established[x][y] \in {d \in EstablishedDials : dialBackend[d] = b}
           THEN NoDial ELSE established[x][y]]]
    BY Zenon, <1>7 DEF BeCleanEstablished, removeEstablished
  <2>2. established'[a][c] =
          IF established[a][c] \in {d \in EstablishedDials : dialBackend[d] = b}
          THEN NoDial ELSE established[a][c]
    BY Zenon, <2>1
  <2>3. NoDial \notin EstablishedDials
    BY DEF EstablishedDials
  <2>. QED  BY Zenon, <1>7, <2>2, <2>3 DEF EntryStep
<1>8. \/ BeDialRspUnknown(b) \/ BeDialRspError(b) \/ BeDialRspOk(b) \/ BeForward(b)
      \/ BeDialCls(b) \/ BeData(b) \/ BeCleanPending(b)
      => established' = established
  BY Zenon DEF BeDialRspUnknown, BeDialRspError, BeDialRspOk, BeForward, BeDialCls, BeData,
               BeCleanPending, maps
<1>. QED  BY Zenon, <1>4, <1>5, <1>6, <1>7, <1>8 DEF serveRecvBackend, EntryStep

(* A connection ID is recorded for the pending dial of a DIAL_RSP. *)
LEMMA ConnIDStep ==
  ASSUME NEW b \in Backend, serveRecvBackend(b)
  PROVE  \/ connectID' = connectID
         \/ /\ BeDialRspOk(b) /\ Head(beIn[b]).dial \in pending
            /\ connectID' = [connectID EXCEPT ![Head(beIn[b]).dial] = Head(beIn[b]).conn]
  BY Zenon DEF serveRecvBackend, BeDialRspUnknown, BeDialRspError, BeDialRspOk,
     addEstablished, BeForward, BeUnestablish, BeDialCls, BeData, BeCloseRsp,
     BeCleanPending, BeCleanEstablished, maps

(* Entries are filed under their own connection ID, and are not pending. *)
LEMMA FiledStep ==
  ASSUME Inv, EndsInv, [Next]_vars
  PROVE  FiledInv'
<1>1. Types /\ FiledInv /\ established \in [Agent -> [ConnID -> Dial \cup {NoDial}]]
  BY Zenon DEF Inv, EndsInv, Types
<1>2. SUFFICES ASSUME NEW a \in Agent, NEW c \in ConnID, established'[a][c] # NoDial
               PROVE  /\ connectID'[established'[a][c]] = c
                      /\ established'[a][c] \notin pending'
  BY Zenon DEF FiledInv
<1> DEFINE d == established[a][c]
<1>3. ASSUME established'[a][c] = d, connectID'[d] = connectID[d], pending' \subseteq pending
      PROVE  connectID'[established'[a][c]] = c /\ established'[a][c] \notin pending'
  BY Zenon, <1>1, <1>2, <1>3 DEF FiledInv
<1>4. ASSUME NEW f \in Frontend, FrontendStep(f)
      PROVE  connectID'[established'[a][c]] = c /\ established'[a][c] \notin pending'
  <2>1. established'[a][c] = d /\ connectID' = connectID
    BY Zenon, <1>1, <1>2, <1>4, StreamFrame, StreamShrinks DEF FrontendKeeps
  <2>2. CASE FeAddDial(f) /\ pending' = pending \cup {feDial[f]}
    <3>1. Fresh(feDial[f])
      BY Zenon, <2>2 DEF FeAddDial, Inv, DialInv, AddingFresh
    <3>2. dialBackend[d] \in Backend
      BY Zenon, <1>2, <2>1 DEF Inv, DialInv, EstablishedInv
    <3>3. d # feDial[f]
      BY Zenon, <3>1, <3>2, ConstantsAssumption DEF Fresh
    <3>. QED  BY Zenon, <1>1, <1>2, <2>1, <2>2, <3>3 DEF FiledInv
  <2>. QED  BY Zenon, <1>3, <1>4, <2>1, <2>2, StreamPending
<1>5. ASSUME NEW b \in Backend, serveRecvBackend(b)
      PROVE  connectID'[established'[a][c]] = c /\ established'[a][c] \notin pending'
  <2>1. pending' \subseteq pending
    BY Zenon, <1>1, <1>5, AgentConnFrame DEF BackendKeeps
  <2>2. CASE established'[a][c] = d
    <3>1. d \notin pending /\ d \in Dial
      BY <1>1, <1>2, <2>2 DEF FiledInv
    <3>2. connectID'[d] = connectID[d]
      BY Zenon, <1>1, <1>5, <3>1, ConnIDStep DEF Types
    <3>. QED  BY Zenon, <1>3, <2>1, <2>2, <3>2
  <2>3. CASE addEstablished(b) /\ established'[a][c] = beDial[b] /\ c = connectID[beDial[b]]
    <3>1. bePC[b] = "establish" /\ connectID' = connectID
      BY Zenon, <2>3 DEF addEstablished
    <3>2. beDial[b] \notin pending
      BY Zenon, <3>1 DEF Inv, DialInv, ClaimInv
    <3>. QED  BY Zenon, <2>1, <2>3, <3>1, <3>2
  <2>4. EntryStep(b, a, c)
    BY Zenon, <1>1, <1>5, ConnEntries
  <2>. QED  BY Zenon, <1>2, <2>2, <2>3, <2>4 DEF EntryStep
<1>6. ASSUME OtherStep
      PROVE  connectID'[established'[a][c]] = c /\ established'[a][c] \notin pending'
  BY Zenon, <1>3, <1>6, OtherFrame DEF OthersKeep
<1>. QED  BY Zenon, <1>4, <1>5, <1>6, NextSteps

(* A connection ID is recorded for a dial that has a backend. *)
LEMMA NumberedStep ==
  ASSUME Inv, EndsInv, [Next]_vars
  PROVE  NumberedInv'
<1>1. Types /\ NumberedInv
  BY Zenon DEF Inv, EndsInv
<1>2. SUFFICES ASSUME NEW d \in Dial, connectID'[d] # 0
               PROVE  dialBackend'[d] \in Backend
  BY Zenon DEF NumberedInv
<1>3. ASSUME NEW f \in Frontend, FrontendStep(f) PROVE dialBackend'[d] \in Backend
  <2>1. connectID' = connectID
    BY Zenon, <1>1, <1>3, StreamFrame DEF FrontendKeeps
  <2>2. CASE FeAddDial(f)
    <3>1. feBackend[f] \in Backend /\ dialBackend' = [dialBackend EXCEPT ![feDial[f]] = feBackend[f]]
      BY Zenon, <2>2 DEF FeAddDial, PendingAdd, Inv, DialInv, AddingFresh
    <3>. QED  BY ZenonT(60), <1>1, <1>2, <2>1, <3>1 DEF NumberedInv, Types
  <2>. QED  BY Zenon, <1>1, <1>2, <1>3, <2>1, <2>2, StreamPending DEF NumberedInv
<1>4. ASSUME NEW b \in Backend, serveRecvBackend(b) PROVE dialBackend'[d] \in Backend
  <2>1. dialBackend' = dialBackend
    BY Zenon, <1>1, <1>4, AgentConnFrame DEF BackendKeeps
  <2>2. connectID'[d] = connectID[d] \/ d \in pending
    BY Zenon, <1>1, <1>4, ConnIDStep DEF Types
  <2>. QED  BY Zenon, <1>1, <1>2, <2>1, <2>2 DEF NumberedInv, Inv, DialInv, PendingInv
<1>5. ASSUME OtherStep PROVE dialBackend'[d] \in Backend
  BY Zenon, <1>1, <1>2, <1>5, OtherFrame DEF OthersKeep, NumberedInv
<1>. QED  BY Zenon, <1>3, <1>4, <1>5, NextSteps

(* Every step keeps what holds of the ends. *)
LEMMA EndsStep == Inv /\ Inv' /\ EndsInv /\ [Next]_vars => EndsInv'
  BY Zenon, BeStageStep, FeStageStep, LostStep, FiledStep, NumberedStep DEF EndsInv

(* No stream has ended, and nothing is established, at the start. *)
LEMMA InitEnds == Init => EndsInv
<1> SUFFICES ASSUME Init PROVE EndsInv
  BY Zenon
<1>1. BeStageInv /\ LostInv
  BY Zenon DEF Init, BeStageInv, LostInv
<1>2. FeStageInv
  BY Zenon DEF Init, FeStageInv
<1>3. FiledInv /\ NumberedInv
  BY Zenon DEF Init, FiledInv, NumberedInv
<1>. QED  BY Zenon, <1>1, <1>2, <1>3 DEF EndsInv

-----------------------------------------------------------------------------
(* What the end of a frontend stream leaves *)

(* The dials that have an entry. *)
LEMMA EntryLemma ==
  /\ \A d : d \in EstablishedDials <=>
        d # NoDial /\ \E a \in Agent, c \in ConnID : established[a][c] = d
  /\ \A d : d \in EstablishedDials' <=>
        d # NoDial /\ \E a \in Agent, c \in ConnID : established'[a][c] = d
  BY DEF EstablishedDials

(* If no client half-closes its stream, what holds of a stream that is     *)
(* cleaned up is kept.                                                     *)
LEMMA StreamStep ==
  ASSUME Inv, EndsInv, StreamInv, [Next]_vars, "eof" \notin FrontendEnds
  PROVE  StreamInv'
<1>1. /\ Types /\ FeStageInv /\ fePC \in [Frontend -> FePC]
      /\ established \in [Agent -> [ConnID -> Dial \cup {NoDial}]]
  BY Zenon DEF Inv, EndsInv, Types
<1>2. SUFFICES ASSUME NEW f \in Frontend
               PROVE  /\ feStream'[f] # "eof"
                      /\ fePC'[f] \in {"sendDialClose", "sendClose", "done"} =>
                           \A d \in StreamDials(f) : d \notin pending'
                      /\ fePC'[f] \in {"sendClose", "done"} =>
                           \A d \in StreamDials(f) : d \in EstablishedDials' =>
                             \E b \in Backend : /\ bePC'[b] \in {"forward", "unestablish"}
                                                /\ beDial'[b] = d
  BY Zenon DEF StreamInv, StreamDials
<1>3. feStream'[f] # "eof"
  <2>1. feStream[f] # "eof"
    BY Zenon DEF StreamInv
  <2>. QED  BY Zenon, <1>1, <2>1, NextSteps, StreamFrame, AgentConnFrame, FeEnds
            DEF FrontendKeeps, BackendKeeps
<1>4. ASSUME fePC'[f] \in {"sendDialClose", "sendClose", "done"}, NEW d \in StreamDials(f)
      PROVE  d \notin pending'
  <2>1. ASSUME fePC'[f] = fePC[f], pending' \subseteq pending PROVE d \notin pending'
    BY Zenon, <1>4, <2>1 DEF StreamInv
  <2>2. ASSUME NEW g \in Frontend, FrontendStep(g) PROVE d \notin pending'
    <3>1. CASE FeAddDial(g) /\ pending' = pending \cup {feDial[g]}
      <4>1. fePC[g] = "addDial" /\ FrontendOf[feDial[g]] = g
        BY Zenon, <3>1 DEF FeAddDial, Inv, DialInv, AddingFresh
      <4>2. g # f
        BY Zenon, <1>1, <1>4, <3>1 DEF FeAddDial, FeGoto
      <4>3. d # feDial[g] /\ fePC'[f] = fePC[f]
        BY ZenonT(60), <1>1, <2>2, <4>1, <4>2, StreamFrame DEF StreamDials, FrontendKeeps
      <4>. QED  BY Zenon, <1>4, <3>1, <4>3 DEF StreamInv
    <3>2. CASE pending' \subseteq pending
      <4>1. CASE g # f
        BY ZenonT(60), <1>1, <2>1, <2>2, <3>2, <4>1, StreamFrame DEF FrontendKeeps
      <4>2. CASE g = f
        <5>1. fePC[f] \in {"sendDialClose", "sendClose", "done"} \/ FeCleanPending(f)
          BY ZenonT(60), <1>1, <1>4, <2>2, <4>2 DEF FrontendStep, serveRecvFrontend,
             proxyCleanup,
             FeGetBackend, FeNoBackend, FeAddDial, FeSendDial, FeDialSent, FeDialFailed,
             FeCloseReq, FeDialCls, FeData, FeRecvClosed, FeCleanSend, FeCleanEstablished,
             FeReturn, FeGoto
        <5>2. FeCleanPending(f) => d \notin pending'
          BY Zenon DEF FeCleanPending, PendingRemove
        <5>. QED  BY Zenon, <3>2, <5>1, <5>2 DEF StreamInv
      <4>. QED  BY Zenon, <4>1, <4>2
    <3>. QED  BY Zenon, <2>2, <3>1, <3>2, StreamPending
  <2>3. ASSUME NEW b \in Backend, serveRecvBackend(b) PROVE d \notin pending'
    BY Zenon, <1>1, <2>1, <2>3, AgentConnFrame DEF BackendKeeps
  <2>4. ASSUME OtherStep PROVE d \notin pending'
    BY Zenon, <2>1, <2>4, OtherFrame DEF OthersKeep
  <2>. QED  BY Zenon, <2>2, <2>3, <2>4, NextSteps
<1>5. ASSUME fePC'[f] \in {"sendClose", "done"}, NEW d \in StreamDials(f),
             d \in EstablishedDials'
      PROVE  \E b \in Backend : bePC'[b] \in {"forward", "unestablish"} /\ beDial'[b] = d
  <2>0. PICK a \in Agent, c \in ConnID : established'[a][c] = d /\ d # NoDial
    BY Zenon, <1>5, EntryLemma
  <2>1. ASSUME fePC[f] \in {"sendClose", "done"}, established[a][c] = d
        PROVE  \E b \in Backend : bePC[b] \in {"forward", "unestablish"} /\ beDial[b] = d
    BY ZenonT(60), <2>0, <2>1, EntryLemma DEF StreamInv
  <2>2. ASSUME NEW g \in Frontend, FrontendStep(g)
        PROVE  \E b \in Backend : bePC'[b] \in {"forward", "unestablish"} /\ beDial'[b] = d
    <3>1. bePC' = bePC /\ beDial' = beDial
      BY Zenon, <1>1, <2>2, StreamFrame DEF FrontendKeeps
    <3>2. established[a][c] = d
      BY Zenon, <1>1, <2>0, <2>2, StreamShrinks
    <3>3. fePC[f] \in {"sendClose", "done"}
      <4>1. CASE g # f
        BY Zenon, <1>1, <1>5, <2>2, <4>1, StreamFrame DEF FrontendKeeps
      <4>2. CASE g = f
        <5>1. fePC[f] \in {"sendClose", "done"} \/ FeCleanEstablished(f)
          BY Zenon, <1>1, <1>5, <2>2, <4>2 DEF FrontendStep, serveRecvFrontend, proxyCleanup,
             FeGetBackend, FeNoBackend, FeAddDial, FeSendDial, FeDialSent, FeDialFailed,
             FeCloseReq, FeDialCls, FeData, FeRecvClosed, FeCleanPending, FeCleanSend,
             FeReturn, FeGoto
        <5>2. FeCleanEstablished(f) => FALSE
          <6> SUFFICES ASSUME FeCleanEstablished(f) PROVE FALSE
            BY Zenon
          <6>1. established' = [x \in Agent |-> [y \in ConnID |->
                   IF established[x][y] \in StreamDials(f) \cap EstablishedDials
                   THEN NoDial ELSE established[x][y]]]
            BY Zenon DEF FeCleanEstablished, removeEstablished
          <6>2. established'[a][c] =
                  IF established[a][c] \in StreamDials(f) \cap EstablishedDials
                  THEN NoDial ELSE established[a][c]
            BY Zenon, <6>1
          <6>3. d \in EstablishedDials
            BY ZenonT(60), <2>0, <3>2, EntryLemma
          <6>. QED  BY Zenon, <2>0, <3>2, <6>2, <6>3
        <5>. QED  BY Zenon, <5>1, <5>2
      <4>. QED  BY Zenon, <4>1, <4>2
    <3>. QED  BY Zenon, <2>1, <3>1, <3>2, <3>3
  <2>3. ASSUME NEW b \in Backend, serveRecvBackend(b)
        PROVE  \E x \in Backend : bePC'[x] \in {"forward", "unestablish"} /\ beDial'[x] = d
    <3>1. BackendKeeps(b)
      BY Zenon, <1>1, <2>3, AgentConnFrame
    <3>2. fePC[f] \in {"sendClose", "done"} /\ fePC' = fePC
      BY Zenon, <1>5, <3>1 DEF BackendKeeps
    <3>3. CASE addEstablished(b) /\ established'[a][c] = beDial[b]
      BY Zenon, <1>1, <2>0, <3>3 DEF addEstablished, BeGoto, Types
    <3>4. CASE established'[a][c] = established[a][c]
      <4>1. PICK x \in Backend : bePC[x] \in {"forward", "unestablish"} /\ beDial[x] = d
        BY Zenon, <2>0, <2>1, <3>2, <3>4
      <4>2. CASE x # b
        BY Zenon, <3>1, <4>1, <4>2 DEF BackendKeeps
      <4>3. CASE x = b /\ bePC[b] = "forward"
        <5>1. BeForward(b)
          BY Zenon, <2>3, <4>3 DEF serveRecvBackend, BeDialRspUnknown, BeDialRspError,
             BeDialRspOk, addEstablished, BeUnestablish, BeDialCls, BeData, BeCloseRsp,
             BeCleanPending, BeCleanEstablished, BeHead
        <5>2. FrontendOf[d] = f /\ ~SendOK(f)
          BY Zenon, <1>1, <1>5, <3>2 DEF StreamInv, FeStageInv, SendOK, StreamDials
        <5>3. bePC'[b] = "unestablish" /\ beDial' = beDial
          BY ZenonT(60), <1>1, <4>1, <4>3, <5>1, <5>2 DEF BeForward, BeGoto, Types
        <5>. QED  BY Zenon, <4>1, <4>3, <5>3
      <4>4. CASE x = b /\ bePC[b] = "unestablish"
        <5>1. BeUnestablish(b)
          BY ZenonT(60), <2>3, <4>4 DEF serveRecvBackend, BeDialRspUnknown, BeDialRspError,
             BeDialRspOk, addEstablished, BeForward, BeDialCls, BeData, BeCloseRsp,
             BeCleanPending, BeCleanEstablished, BeHead
        <5>2. a = AgentOf[b] /\ c = connectID[d]
          <6>1. AgentOf[dialBackend[d]] = a
            BY Zenon, <2>0, <3>4 DEF Inv, DialInv, EstablishedInv
          <6>2. connectID[d] = c
            BY ZenonT(60), <2>0, <3>4 DEF EndsInv, FiledInv
          <6>3. dialBackend[d] = b
            BY Zenon, <4>1, <4>4 DEF Inv, DialInv, ClaimInv
          <6>. QED  BY Zenon, <6>1, <6>2, <6>3
        <5>3. established'[a][c] = NoDial
          <6>1. established' = [established EXCEPT ![a][c] = NoDial]
            BY Zenon, <4>1, <4>4, <5>1, <5>2 DEF BeUnestablish
          <6>. QED  BY <1>1, <6>1
        <5>. QED  BY Zenon, <2>0, <5>3
      <4>. QED  BY Zenon, <4>1, <4>2, <4>3, <4>4
    <3>5. EntryStep(b, a, c)
      BY Zenon, <1>1, <2>3, ConnEntries
    <3>. QED  BY Zenon, <2>0, <3>3, <3>4, <3>5 DEF EntryStep
  <2>4. ASSUME OtherStep
        PROVE  \E b \in Backend : bePC'[b] \in {"forward", "unestablish"} /\ beDial'[b] = d
    BY Zenon, <1>5, <2>0, <2>1, <2>4, OtherFrame DEF OthersKeep
  <2>. QED  BY Zenon, <2>2, <2>3, <2>4, NextSteps
<1>. QED  BY Zenon, <1>3, <1>4, <1>5

-----------------------------------------------------------------------------
(* What the end of an agent connection leaves *)

(* If no agent half-closes its stream, what holds of a connection that is  *)
(* cleaned up is kept: a dial cannot be sent over it any more.             *)
LEMMA LossStep ==
  ASSUME Inv, EndsInv, LossInv, [Next]_vars, "eof" \notin BackendEnds
  PROVE  LossInv'
<1>1. /\ Types /\ BeStageInv /\ bePC \in [Backend -> BePC] /\ fePC \in [Frontend -> FePC]
      /\ feDial \in [Frontend -> Dial \cup {NoDial}]
      /\ established \in [Agent -> [ConnID -> Dial \cup {NoDial}]]
  BY Zenon DEF Inv, EndsInv, Types
<1>2. SUFFICES ASSUME NEW b \in Backend
               PROVE  /\ beStream'[b] # "eof"
                      /\ bePC'[b] \in {"cleanEstablished", "done"} =>
                           \A d \in pending' : dialBackend'[d] = b =>
                             \E f \in Frontend : fePC'[f] = "sendDial" /\ feDial'[f] = d
                      /\ bePC'[b] = "done" =>
                           \A d \in Dial : dialBackend'[d] = b => d \notin EstablishedDials'
  BY Zenon DEF LossInv
<1>3. beStream'[b] # "eof"
  <2>1. beStream[b] # "eof"
    BY Zenon DEF LossInv
  <2>. QED  BY ZenonT(60), <1>1, <2>1, NextSteps, StreamFrame, AgentConnFrame, BeEnds
            DEF FrontendKeeps, BackendKeeps
<1>4. ASSUME bePC'[b] \in {"cleanEstablished", "done"}, NEW d \in pending',
             dialBackend'[d] = b
      PROVE  \E f \in Frontend : fePC'[f] = "sendDial" /\ feDial'[f] = d
  <2>1. ASSUME bePC[b] \in {"cleanEstablished", "done"}, d \in pending, dialBackend[d] = b
        PROVE  \E f \in Frontend : fePC[f] = "sendDial" /\ feDial[f] = d
    BY Zenon, <2>1 DEF LossInv
  <2>2. ASSUME NEW g \in Frontend, FrontendStep(g)
        PROVE  \E f \in Frontend : fePC'[f] = "sendDial" /\ feDial'[f] = d
    <3>1. FrontendKeeps(g)
      BY Zenon, <1>1, <2>2, StreamFrame
    <3>2. bePC[b] \in {"cleanEstablished", "done"}
      BY Zenon, <1>4, <3>1 DEF FrontendKeeps
    <3>3. CASE FeAddDial(g) /\ pending' = pending \cup {feDial[g]}
      <4>1. fePC'[g] = "sendDial" /\ feDial' = feDial
        BY Zenon, <1>1, <3>3 DEF FeAddDial, FeGoto
      <4>2. CASE d = feDial[g]
        BY Zenon, <4>1, <4>2
      <4>3. CASE d # feDial[g]
        <5>1. d \in pending /\ dialBackend[d] = b
          BY ZenonT(60), <1>4, <3>3, <4>3 DEF FeAddDial, PendingAdd, Inv, Types
        <5>2. PICK f \in Frontend : fePC[f] = "sendDial" /\ feDial[f] = d
          BY Zenon, <2>1, <3>2, <5>1
        <5>. QED  BY Zenon, <1>1, <3>1, <4>1, <5>2 DEF FrontendKeeps
      <4>. QED  BY Zenon, <4>2, <4>3
    <3>4. CASE pending' \subseteq pending /\ dialBackend' = dialBackend
      <4>1. PICK f \in Frontend : fePC[f] = "sendDial" /\ feDial[f] = d
        BY Zenon, <1>4, <2>1, <3>2, <3>4
      <4>2. CASE f # g
        BY Zenon, <3>1, <4>1, <4>2 DEF FrontendKeeps
      <4>3. CASE f = g
        <5>1. FeSendDial(f) \/ FeDialFailed(f)
          BY Zenon, <2>2, <4>1, <4>3 DEF FrontendStep, serveRecvFrontend, proxyCleanup,
             FeGetBackend, FeNoBackend, FeAddDial, FeDialSent,
             FeCloseReq, FeDialCls, FeData, FeRecvClosed, FeCleanPending, FeCleanSend,
             FeCleanEstablished, FeReturn, FeHead
        <5>2. FeDialFailed(f) => d \notin pending'
          BY Zenon, <4>1 DEF FeDialFailed, PendingRemove
        <5>3. ~CtxAlive(b)
          BY ZenonT(60), <1>1, <3>2 DEF LossInv, BeStageInv, CtxAlive
        <5>4. feBackend[f] = b
          BY ZenonT(60), <1>4, <3>4, <4>1 DEF Inv, DialInv, SendInv
        <5>. QED  BY ZenonT(60), <1>4, <5>1, <5>2, <5>3, <5>4 DEF FeSendDial
      <4>. QED  BY Zenon, <4>2, <4>3
    <3>. QED  BY Zenon, <2>2, <3>3, <3>4, StreamPending
  <2>3. ASSUME NEW x \in Backend, serveRecvBackend(x)
        PROVE  \E f \in Frontend : fePC'[f] = "sendDial" /\ feDial'[f] = d
    <3>1. BackendKeeps(x)
      BY Zenon, <1>1, <2>3, AgentConnFrame
    <3>2. d \in pending /\ dialBackend[d] = b /\ fePC' = fePC /\ feDial' = feDial
      BY Zenon, <1>4, <3>1 DEF BackendKeeps
    <3>3. bePC[b] \in {"cleanEstablished", "done"} \/ BeCleanPending(b)
      <4>1. CASE x # b
        BY Zenon, <1>4, <3>1, <4>1 DEF BackendKeeps
      <4>2. CASE x = b
        BY ZenonT(60), <1>1, <1>4, <2>3, <4>2 DEF serveRecvBackend, BeDialRspUnknown,
           BeDialRspError, BeDialRspOk, addEstablished, BeForward, BeUnestablish, BeDialCls,
           BeData, BeCloseRsp, BeCleanEstablished, BeHead, BeGoto
      <4>. QED  BY Zenon, <4>1, <4>2
    <3>4. BeCleanPending(b) => d \notin pending'
      BY Zenon, <3>2 DEF BeCleanPending, PendingRemove
    <3>. QED  BY Zenon, <1>4, <2>1, <3>2, <3>3, <3>4
  <2>4. ASSUME OtherStep
        PROVE  \E f \in Frontend : fePC'[f] = "sendDial" /\ feDial'[f] = d
    BY Zenon, <1>4, <2>1, <2>4, OtherFrame DEF OthersKeep
  <2>. QED  BY Zenon, <2>2, <2>3, <2>4, NextSteps
<1>5. ASSUME bePC'[b] = "done", NEW d \in Dial, dialBackend'[d] = b, d \in EstablishedDials'
      PROVE  FALSE
  <2>0. PICK a \in Agent, c \in ConnID : established'[a][c] = d /\ d # NoDial
    BY Zenon, <1>5, EntryLemma
  <2>1. ASSUME bePC[b] = "done", established[a][c] = d, dialBackend[d] = b PROVE FALSE
    <3>1. d \in EstablishedDials
      BY Zenon, <2>0, <2>1, EntryLemma
    <3>. QED  BY Zenon, <2>1, <3>1 DEF LossInv
  <2>2. ASSUME NEW g \in Frontend, FrontendStep(g) PROVE FALSE
    <3>1. bePC[b] = "done" /\ established[a][c] = d
      BY Zenon, <1>1, <1>5, <2>0, <2>2, StreamFrame, StreamShrinks DEF FrontendKeeps
    <3>2. dialBackend[d] = b
      <4>1. CASE FeAddDial(g)
        <5>1. Fresh(feDial[g])
          BY Zenon, <4>1 DEF FeAddDial, Inv, DialInv, AddingFresh
        <5>2. dialBackend[d] \in Backend
          BY Zenon, <2>0, <3>1 DEF Inv, DialInv, EstablishedInv
        <5>3. d # feDial[g]
          BY Zenon, <5>1, <5>2, ConstantsAssumption DEF Fresh
        <5>. QED  BY ZenonT(60), <1>5, <4>1, <5>3 DEF FeAddDial, PendingAdd, Inv, Types
      <4>. QED  BY Zenon, <1>5, <2>2, <4>1, StreamPending
    <3>. QED  BY Zenon, <2>1, <3>1, <3>2
  <2>3. ASSUME NEW x \in Backend, serveRecvBackend(x) PROVE FALSE
    <3>1. BackendKeeps(x)
      BY Zenon, <1>1, <2>3, AgentConnFrame
    <3>2. dialBackend[d] = b
      BY Zenon, <1>5, <3>1 DEF BackendKeeps
    <3>3. EntryStep(x, a, c)
      BY Zenon, <1>1, <2>3, ConnEntries
    <3>4. established[a][c] = d
      <4>1. CASE addEstablished(x) /\ established'[a][c] = beDial[x]
        <5>1. bePC[x] = "establish" /\ bePC'[x] = "forward"
          BY Zenon, <1>1, <4>1 DEF addEstablished, BeGoto
        <5>2. dialBackend[d] = x
          BY ZenonT(60), <2>0, <4>1, <5>1 DEF Inv, DialInv, ClaimInv
        <5>. QED  BY Zenon, <1>5, <3>2, <5>1, <5>2
      <4>. QED  BY Zenon, <2>0, <3>3, <4>1 DEF EntryStep
    <3>5. bePC[b] = "done" \/ BeCleanEstablished(b)
      <4>1. CASE x # b
        BY Zenon, <1>5, <3>1, <4>1 DEF BackendKeeps
      <4>2. CASE x = b
        BY ZenonT(60), <1>1, <1>5, <2>3, <4>2 DEF serveRecvBackend, BeDialRspUnknown,
           BeDialRspError, BeDialRspOk, addEstablished, BeForward, BeUnestablish, BeDialCls,
           BeData, BeCloseRsp, BeCleanPending, BeHead, BeGoto
      <4>. QED  BY Zenon, <4>1, <4>2
    <3>6. BeCleanEstablished(b) => established'[a][c] = NoDial
      <4> SUFFICES ASSUME BeCleanEstablished(b) PROVE established'[a][c] = NoDial
        BY Zenon
      <4>1. established' = [y \in Agent |-> [z \in ConnID |->
               IF established[y][z] \in {e \in EstablishedDials : dialBackend[e] = b}
               THEN NoDial ELSE established[y][z]]]
        BY Zenon DEF BeCleanEstablished, removeEstablished
      <4>2. established'[a][c] =
              IF established[a][c] \in {e \in EstablishedDials : dialBackend[e] = b}
              THEN NoDial ELSE established[a][c]
        BY Zenon, <4>1
      <4>3. d \in EstablishedDials
        BY Zenon, <2>0, <3>4, EntryLemma
      <4>. QED  BY Zenon, <3>2, <3>4, <4>2, <4>3
    <3>. QED  BY ZenonT(60), <2>0, <2>1, <3>2, <3>4, <3>5, <3>6
  <2>4. ASSUME OtherStep PROVE FALSE
    BY ZenonT(60), <1>5, <2>0, <2>1, <2>4, OtherFrame DEF OthersKeep
  <2>. QED  BY Zenon, <2>2, <2>3, <2>4, NextSteps
<1>. QED  BY Zenon, <1>3, <1>4, <1>5

-----------------------------------------------------------------------------
(* The connections of the agents *)

(* The connection of b: nothing but requests to the agent is added. *)
Still(b) ==
  /\ beIn'[b] = beIn[b] /\ remote'[b] = remote[b] /\ nextConnID'[b] = nextConnID[b]
  /\ toAgent[b] \subseteq toAgent'[b]

(* Its stream ends, and loses what it carries. *)
Cut(b) ==
  /\ remote'[b] = remote[b] /\ nextConnID'[b] = nextConnID[b] /\ beStream'[b] # "open"
  /\ \E n \in 0..Len(beIn[b]) : beIn'[b] = Prefix(beIn[b], n)

(* Sending to one agent takes nothing from another. *)
LEMMA DeliverGrows ==
  ASSUME Types, NEW b, NEW S, NEW x \in Backend
  PROVE  toAgent[x] \subseteq Deliver(b, S)[x]
  BY ZenonT(60) DEF Types, Deliver

(* What b's own goroutine and b's agent do not do leaves b's connection. *)
LEMMA ConnSteps ==
  ASSUME Types, [Next]_vars, NEW b \in Backend
  PROVE  serveRecvBackend(b) \/ AgentStep(b) \/ Still(b) \/ Cut(b)
<1> USE DEF Still, agentVars, beVars
<1>1. ASSUME NEW f \in Frontend, FrontendStep(f) PROVE Still(b)
  <2>1. UNCHANGED <<beIn, remote, nextConnID>>
    BY Zenon, <1>1, StreamFrame DEF FrontendKeeps
  <2>2. toAgent' = toAgent \/ \E x, S : toAgent' = Deliver(x, S)
    <3>1. \/ FeGetBackend(f) \/ FeNoBackend(f) \/ FeAddDial(f) \/ FeDialSent(f)
          \/ FeDialFailed(f) \/ FeDialCls(f) \/ FeRecvClosed(f)
          => toAgent' = toAgent
      BY Zenon DEF FeGetBackend, FeNoBackend, FeAddDial, FeDialSent, FeDialFailed,
                   FeDialCls, FeRecvClosed
    <3>2. FeSendDial(f) \/ FeCloseReq(f) \/ FeData(f)
          => toAgent' = toAgent \/ \E x, S : toAgent' = Deliver(x, S)
      BY DEF FeSendDial, FeCloseReq, FeData
    <3>3. proxyCleanup(f) => toAgent' = toAgent \/ \E x, S : toAgent' = Deliver(x, S)
      BY Zenon DEF proxyCleanup, FeCleanPending, FeCleanSend, FeCleanEstablished, FeReturn
    <3>. QED  BY Zenon, <1>1, <3>1, <3>2, <3>3 DEF FrontendStep, serveRecvFrontend
  <2>3. toAgent[b] \subseteq toAgent'[b]
    BY Zenon, <2>2, DeliverGrows
  <2>. QED  BY Zenon, <2>1, <2>3
<1>2. ASSUME NEW x \in Backend, x # b, serveRecvBackend(x) PROVE Still(b)
  <2>1. beIn'[b] = beIn[b] /\ remote'[b] = remote[b] /\ nextConnID'[b] = nextConnID[b]
    BY Zenon, <1>2, AgentConnFrame DEF BackendKeeps
  <2>2. toAgent' = toAgent \/ \E y, S : toAgent' = Deliver(y, S)
    BY Zenon, <1>2 DEF serveRecvBackend, BeDialRspUnknown, BeDialRspError, BeDialRspOk,
       addEstablished, BeForward, BeUnestablish, BeDialCls, BeData, BeCloseRsp,
       BeCleanPending, BeCleanEstablished
  <2>3. toAgent[b] \subseteq toAgent'[b]
    BY Zenon, <2>2, DeliverGrows
  <2>. QED  BY Zenon, <2>1, <2>3
<1>3. ASSUME NEW x \in Backend, ConnStep(x) PROVE Still(b) \/ Cut(b)
  <2>1. Connect(x) \/ ConnectReturn(x) => Still(b)
    BY Zenon DEF Connect, ConnectReturn
  <2>2. ConnectRetired(x) => Still(b) \/ Cut(b)
    <3> SUFFICES ASSUME ConnectRetired(x) PROVE Still(b) \/ Cut(b)
      BY Zenon
    <3>1. CASE x # b
      BY Zenon, <3>1 DEF ConnectRetired, Types
    <3>2. CASE x = b
      <4>1. beStream'[b] = "broken" /\ UNCHANGED <<remote, nextConnID>>
        BY Zenon, <3>2 DEF ConnectRetired, Types
      <4>2. PICK n \in 0..Len(beIn[b]) : beIn' = [beIn EXCEPT ![b] = Prefix(@, n)]
        BY Zenon, <3>2 DEF ConnectRetired
      <4>3. beIn'[b] = Prefix(beIn[b], n)
        BY Zenon, <4>2 DEF Types
      <4>. QED  BY <4>1, <4>2, <4>3 DEF Cut
    <3>. QED  BY Zenon, <3>1, <3>2
  <2>. QED  BY Zenon, <1>3, <2>1, <2>2 DEF ConnStep
<1>4. ASSUME NEW x \in Backend, x # b, AgentStep(x) PROVE Still(b)
  <2>1. AgentReplies(x) => Still(b)
    <3>1. ASSUME NEW d \in Dial, AgentDialOk(x, d) PROVE Still(b)
      BY Zenon, <1>4, <3>1 DEF AgentDialOk, AgentSend, Arrived, Types
    <3>2. ASSUME NEW d \in Dial, AgentDialFails(x, d) PROVE Still(b)
      BY Zenon, <1>4, <3>2 DEF AgentDialFails, AgentSend, Arrived, Types
    <3>3. ASSUME NEW c \in ConnID, AgentClose(x, c) PROVE Still(b)
      BY Zenon, <1>4, <3>3 DEF AgentClose, AgentSend, Arrived, Types
    <3>4. ASSUME NEW c \in ConnID, AgentDataUnknown(x, c) PROVE Still(b)
      BY Zenon, <1>4, <3>4 DEF AgentDataUnknown, AgentSend, Arrived, Types
    <3>. QED  BY Zenon, <3>1, <3>2, <3>3, <3>4 DEF AgentReplies
  <2>2. AgentConsume(x) \/ AgentEnd(x) => Still(b)
    BY ZenonT(60), <1>4 DEF AgentConsume, AgentEnd, Arrived, Types
  <2>3. (\E c \in ConnID : RemoteData(x, c) \/ RemoteClose(x, c)) => Still(b)
    <3>1. ASSUME NEW c \in ConnID, RemoteData(x, c) PROVE Still(b)
      BY Zenon, <1>4, <3>1 DEF RemoteData, AgentSend, Types
    <3>2. ASSUME NEW c \in ConnID, RemoteClose(x, c) PROVE Still(b)
      BY Zenon, <1>4, <3>2 DEF RemoteClose, AgentSend, Types
    <3>. QED  BY Zenon, <3>1, <3>2
  <2>. QED  BY Zenon, <1>4, <2>1, <2>2, <2>3 DEF AgentStep
<1>5. ASSUME NEW d \in Dial, DialStep(d) PROVE Still(b)
  <2>1. toAgent' = toAgent \/ \E y, S : toAgent' = Deliver(y, S)
    BY Zenon, <1>5 DEF DialStep, AbandonedSend, TimerFires, TimerBackendDone
  <2>2. UNCHANGED <<beIn, remote, nextConnID>>
    BY Zenon, <1>5 DEF DialStep, AbandonedSend, TimerFires, TimerBackendDone
  <2>. QED  BY Zenon, <2>1, <2>2, DeliverGrows
<1>6. ASSUME NEW f \in Frontend, NEW x \in Backend, CloseHook(f, x) PROVE Still(b)
  BY Zenon, <1>6 DEF CloseHook
<1>7. ASSUME NEW f \in Frontend, ClientStep(f) PROVE Still(b)
  BY Zenon, <1>7 DEF ClientStep, ClientDial, ClientCancel, ClientUse, ClientEnd, ClientSend
<1>8. UNCHANGED vars => Still(b)
  BY Zenon DEF vars
<1>. QED  BY Zenon, <1>1, <1>2, <1>3, <1>4, <1>5, <1>6, <1>7, <1>8, NextSteps DEF OtherStep

(* What the goroutine of b does to its own queue. *)
LEMMA OwnQueue ==
  ASSUME Types, NEW b \in Backend, serveRecvBackend(b)
  PROVE  /\ toAgent[b] \subseteq toAgent'[b]
         /\ \/ beIn'[b] = beIn[b]
            \/ bePC[b] = "recv" /\ beIn[b] # <<>> /\ beIn'[b] = Tail(beIn[b])
<1>1. toAgent' = toAgent \/ \E y, S : toAgent' = Deliver(y, S)
  BY Zenon DEF serveRecvBackend, BeDialRspUnknown, BeDialRspError, BeDialRspOk,
     addEstablished, BeForward, BeUnestablish, BeDialCls, BeData, BeCloseRsp,
     BeCleanPending, BeCleanEstablished
<1>2. \/ BeDialRspUnknown(b) \/ BeDialRspError(b) \/ BeDialRspOk(b) \/ BeDialCls(b)
      \/ BeData(b) \/ BeCloseRsp(b)
      => bePC[b] = "recv" /\ beIn[b] # <<>> /\ beIn'[b] = Tail(beIn[b])
  BY Zenon DEF BeDialRspUnknown, BeDialRspError, BeDialRspOk, BeDialCls, BeData, BeCloseRsp,
               BeHead, BePop, Types
<1>3. \/ addEstablished(b) \/ BeForward(b) \/ BeUnestablish(b) \/ BeCleanPending(b)
      \/ BeCleanEstablished(b)
      => beIn'[b] = beIn[b]
  BY Zenon DEF addEstablished, BeForward, BeUnestablish, BeCleanPending, BeCleanEstablished
<1>4. toAgent[b] \subseteq toAgent'[b]
  BY Zenon, <1>1, DeliverGrows
<1>5. \/ beIn'[b] = beIn[b]
      \/ bePC[b] = "recv" /\ beIn[b] # <<>> /\ beIn'[b] = Tail(beIn[b])
  BY Zenon, <1>2, <1>3 DEF serveRecvBackend
<1>. QED  BY Zenon, <1>4, <1>5

(* The agent takes a dial, with the next connection ID. *)
Dialed(b, d) ==
  /\ AgentUp(b) /\ nextConnID[b] \in ConnID /\ nextConnID'[b] = nextConnID[b] + 1
  /\ remote'[b] = [remote[b] EXCEPT ![nextConnID[b]] = d]
  /\ beIn'[b] = Append(beIn[b], Pkt("DIAL_RSP", d, nextConnID[b]))

(* The agent sends a packet, and may close a connection. *)
Sends(b, p) ==
  /\ nextConnID'[b] = nextConnID[b]
  /\ beIn'[b] = Append(beIn[b], p)
  /\ p.type = "DIAL_RSP" => p.conn = 0
  /\ \A c \in ConnID : /\ remote'[b][c] \in {remote[b][c], NoDial}
                       /\ p = Pkt("CLOSE_RSP", NoDial, c) => remote'[b][c] = NoDial

(* A request to close goes when the connection does. *)
KeepsCloses(b) ==
  \A c \in ConnID : Pkt("CLOSE_REQ", NoDial, c) \in toAgent[b] =>
    Pkt("CLOSE_REQ", NoDial, c) \in toAgent'[b] \/ remote'[b][c] = NoDial

(* What the agent does to its connection. *)
LEMMA AgentMoves ==
  ASSUME Types, NEW b \in Backend, AgentStep(b)
  PROVE  \/ Cut(b)
         \/ /\ KeepsCloses(b)
            /\ \/ \E d \in Dial : Dialed(b, d)
               \/ \E p \in Packet : Sends(b, p)
               \/ beIn'[b] = beIn[b] /\ remote'[b] = remote[b] /\ nextConnID'[b] = nextConnID[b]
<1> USE DEF agentVars, beVars
<1>1. /\ beIn[b] \in Seq(Packet) /\ toAgent \in [Backend -> SUBSET Packet]
      /\ remote \in [Backend -> [ConnID -> Dial \cup {NoDial}]]
      /\ nextConnID \in [Backend -> 1..(MaxConn + 1)] /\ beIn \in [Backend -> Seq(Packet)]
  BY Zenon DEF Types
<1>2. ASSUME NEW p, Arrived(b, p)
      PROVE  toAgent'[b] = toAgent[b] \ {p}
  BY Zenon, <1>1, <1>2 DEF Arrived
<1>3. ASSUME NEW p, p.type # "CLOSE_REQ", Arrived(b, p) PROVE KeepsCloses(b)
  <2>1. \A c : Pkt("CLOSE_REQ", NoDial, c).type = "CLOSE_REQ"
    BY PktLemma
  <2>. QED  BY Zenon, <1>2, <1>3, <2>1 DEF KeepsCloses
<1>4. ASSUME NEW p, AgentSend(b, p) PROVE beIn'[b] = Append(beIn[b], p)
  BY Zenon, <1>1, <1>4 DEF AgentSend
<1>5. ASSUME NEW d \in Dial, AgentDialOk(b, d) PROVE KeepsCloses(b) /\ Dialed(b, d)
  <2>1. /\ Arrived(b, Pkt("DIAL_REQ", d, 0)) /\ nextConnID[b] \in ConnID
        /\ nextConnID' = [nextConnID EXCEPT ![b] = @ + 1]
        /\ remote' = [remote EXCEPT ![b][nextConnID[b]] = d]
        /\ AgentSend(b, Pkt("DIAL_RSP", d, nextConnID[b]))
    BY Zenon, <1>5 DEF AgentDialOk
  <2>2. Pkt("DIAL_REQ", d, 0).type # "CLOSE_REQ"
    BY PktLemma
  <2>3. nextConnID'[b] = nextConnID[b] + 1 /\ remote'[b] = [remote[b] EXCEPT ![nextConnID[b]] = d]
    BY Zenon, <1>1, <2>1
  <2>4. AgentUp(b)
    BY Zenon, <2>1 DEF Arrived
  <2>. QED  BY Zenon, <1>3, <1>4, <2>1, <2>2, <2>3, <2>4 DEF Dialed
<1>6. ASSUME NEW d \in Dial, AgentDialFails(b, d)
      PROVE  KeepsCloses(b) /\ \E p \in Packet : Sends(b, p)
  <2>1. PICK t \in {"DIAL_RSP", "DIAL_CLS"} : AgentSend(b, Pkt(t, d, 0))
    BY Zenon, <1>6 DEF AgentDialFails
  <2>2. Arrived(b, Pkt("DIAL_REQ", d, 0)) /\ remote' = remote /\ nextConnID' = nextConnID
    BY Zenon, <1>6 DEF AgentDialFails
  <2>3. /\ Pkt("DIAL_REQ", d, 0).type # "CLOSE_REQ" /\ Pkt(t, d, 0) \in Packet
        /\ Pkt(t, d, 0).conn = 0 /\ Pkt(t, d, 0).type # "CLOSE_RSP"
    BY SMTT(60), PktLemma
  <2>4. \A c : Pkt("CLOSE_RSP", NoDial, c).type = "CLOSE_RSP"
    BY PktLemma
  <2>5. Sends(b, Pkt(t, d, 0))
    BY ZenonT(60), <1>4, <2>1, <2>2, <2>3, <2>4 DEF Sends
  <2>. QED  BY ZenonT(60), <1>3, <2>2, <2>3, <2>5
<1>7. ASSUME NEW c \in ConnID, nextConnID' = nextConnID, AgentSend(b, Pkt("CLOSE_RSP", NoDial, c)),
             remote' = [remote EXCEPT ![b][c] = NoDial]
      PROVE  \E p \in Packet : Sends(b, p)
  <2>1. /\ Pkt("CLOSE_RSP", NoDial, c) \in Packet
        /\ Pkt("CLOSE_RSP", NoDial, c).type # "DIAL_RSP"
        /\ \A y : Pkt("CLOSE_RSP", NoDial, c) = Pkt("CLOSE_RSP", NoDial, y) => y = c
    BY SMTT(60), PktLemma
  <2>2. /\ remote'[b][c] = NoDial
        /\ \A y \in ConnID : remote'[b][y] \in {remote[b][y], NoDial}
    BY SMTT(60), <1>1, <1>7
  <2>3. beIn'[b] = Append(beIn[b], Pkt("CLOSE_RSP", NoDial, c))
    BY Zenon, <1>4, <1>7
  <2>4. Sends(b, Pkt("CLOSE_RSP", NoDial, c))
    BY ZenonT(60), <1>7, <2>1, <2>2, <2>3 DEF Sends
  <2>. QED  BY Zenon, <2>1, <2>4
<1>8. ASSUME NEW c \in ConnID, AgentClose(b, c)
      PROVE  KeepsCloses(b) /\ \E p \in Packet : Sends(b, p)
  <2>1. remote'[b][c] = NoDial
    BY <1>1, <1>8 DEF AgentClose
  <2>2. toAgent'[b] = toAgent[b] \ {Pkt("CLOSE_REQ", NoDial, c)}
    BY ZenonT(60), <1>2, <1>8 DEF AgentClose
  <2>3. \A y : Pkt("CLOSE_REQ", NoDial, c) = Pkt("CLOSE_REQ", NoDial, y) => y = c
    BY PktLemma
  <2>4. KeepsCloses(b)
    BY Zenon, <2>1, <2>2, <2>3 DEF KeepsCloses
  <2>. QED  BY ZenonT(60), <1>7, <1>8, <2>4 DEF AgentClose
<1>9. ASSUME NEW c \in ConnID, AgentDataUnknown(b, c)
      PROVE  KeepsCloses(b) /\ \E p \in Packet : Sends(b, p)
  <2>1. /\ Arrived(b, Pkt("DATA", NoDial, c)) /\ Pkt("DATA", NoDial, c).type # "CLOSE_REQ"
    <3>1. Arrived(b, Pkt("DATA", NoDial, c))
      BY ZenonT(60), <1>9 DEF AgentDataUnknown
    <3>. QED  BY SMTT(60), <3>1, PktLemma
  <2>2. remote' = [remote EXCEPT ![b][c] = NoDial]
    BY SMTT(60), <1>1, <1>9 DEF AgentDataUnknown
  <2>. QED  BY ZenonT(60), <1>3, <1>7, <1>9, <2>1, <2>2 DEF AgentDataUnknown
<1>10. ASSUME AgentConsume(b)
       PROVE  /\ KeepsCloses(b) /\ beIn'[b] = beIn[b] /\ remote'[b] = remote[b]
              /\ nextConnID'[b] = nextConnID[b]
  BY Zenon, <1>3, <1>10 DEF AgentConsume
<1>11. ASSUME toAgent' = toAgent PROVE KeepsCloses(b)
  BY Zenon, <1>11 DEF KeepsCloses
<1>12. ASSUME NEW c \in ConnID, RemoteData(b, c)
       PROVE  KeepsCloses(b) /\ \E p \in Packet : Sends(b, p)
  <2>1. /\ toAgent' = toAgent /\ remote' = remote /\ nextConnID' = nextConnID
        /\ AgentSend(b, Pkt("DATA", NoDial, c))
    BY Zenon, <1>12 DEF RemoteData
  <2>2. /\ Pkt("DATA", NoDial, c) \in Packet /\ Pkt("DATA", NoDial, c).type = "DATA"
        /\ \A y : Pkt("CLOSE_RSP", NoDial, y).type = "CLOSE_RSP"
    BY PktLemma
  <2>3. Sends(b, Pkt("DATA", NoDial, c))
    BY Zenon, <1>4, <2>1, <2>2 DEF Sends
  <2>. QED  BY ZenonT(60), <1>11, <2>1, <2>2, <2>3
<1>13. ASSUME NEW c \in ConnID, RemoteClose(b, c)
       PROVE  KeepsCloses(b) /\ \E p \in Packet : Sends(b, p)
  BY ZenonT(60), <1>7, <1>11, <1>13 DEF RemoteClose
<1>14. ASSUME AgentEnd(b) PROVE Cut(b)
  <2>1. PICK how \in BackendEnds \ {"retire"} :
          /\ beStream' = [beStream EXCEPT ![b] = how]
          /\ \E n \in 0..Len(beIn[b]) : beIn' = [beIn EXCEPT ![b] = Prefix(@, n)]
    BY ZenonT(60), <1>14 DEF AgentEnd
  <2>2. beStream'[b] # "open"
    BY SMTT(60), <2>1, ConstantsAssumption DEF Types
  <2>3. PICK n \in 0..Len(beIn[b]) : beIn' = [beIn EXCEPT ![b] = Prefix(@, n)]
    BY Zenon, <2>1
  <2>4. beIn'[b] = Prefix(beIn[b], n)
    BY Zenon, <1>1, <2>3
  <2>5. remote' = remote /\ nextConnID' = nextConnID
    BY Zenon, <1>14 DEF AgentEnd
  <2>. QED  BY Zenon, <2>2, <2>3, <2>4, <2>5 DEF Cut
<1>. QED  BY ZenonT(60), <1>5, <1>6, <1>8, <1>9, <1>10, <1>12, <1>13, <1>14 DEF AgentStep,
             AgentReplies

(* What any step does to the connection of b. *)
LEMMA ConnMoves ==
  ASSUME Types, [Next]_vars, NEW b \in Backend
  PROVE  \/ Cut(b)
         \/ /\ KeepsCloses(b)
            /\ \/ \E d \in Dial : Dialed(b, d)
               \/ \E p \in Packet : Sends(b, p)
               \/ /\ remote'[b] = remote[b] /\ nextConnID'[b] = nextConnID[b]
                  /\ \/ beIn'[b] = beIn[b]
                     \/ /\ serveRecvBackend(b) /\ bePC[b] = "recv" /\ beIn[b] # <<>>
                        /\ beIn'[b] = Tail(beIn[b])
<1>1. toAgent[b] \subseteq toAgent'[b] => KeepsCloses(b)
  BY Zenon DEF KeepsCloses
<1>2. ASSUME serveRecvBackend(b)
      PROVE  remote'[b] = remote[b] /\ nextConnID'[b] = nextConnID[b]
  BY Zenon, <1>2, AgentConnFrame DEF BackendKeeps
<1>. QED  BY ZenonT(60), <1>1, <1>2, ConnSteps, OwnQueue, AgentMoves DEF Still

(* What waits in the queue of b afterwards. *)
LEMMA WaitStep ==
  ASSUME Types, [Next]_vars, NEW b \in Backend, NEW d \in Dial, NEW c \in ConnID,
         Waiting(b, "DIAL_RSP", d, c)'
  PROVE  \/ Waiting(b, "DIAL_RSP", d, c)
         \/ Dialed(b, d) /\ c = nextConnID[b]
<1> DEFINE r == Pkt("DIAL_RSP", d, c)
<1>1. PICK i \in DOMAIN beIn'[b] : beIn'[b][i] = r
  BY Zenon DEF Waiting
<1>2. beIn[b] \in Seq(Packet)
  BY Zenon DEF Types
<1>3. r.type = "DIAL_RSP" /\ r.conn = c /\ c # 0
  BY PktLemma DEF ConnID
<1>4. CASE beIn'[b] = beIn[b]
  BY Zenon, <1>1, <1>4 DEF Waiting
<1>5. CASE beIn[b] # <<>> /\ beIn'[b] = Tail(beIn[b])
  <2>1. i \in DOMAIN Tail(beIn[b]) /\ Tail(beIn[b])[i] = r
    BY Zenon, <1>1, <1>5
  <2>2. i + 1 \in DOMAIN beIn[b] /\ beIn[b][i + 1] = r
    BY Zenon, <1>2, <1>5, <2>1, PopLemma
  <2>. QED  BY Zenon, <2>2 DEF Waiting
<1>6. ASSUME NEW n \in 0..Len(beIn[b]), beIn'[b] = Prefix(beIn[b], n)
      PROVE  Waiting(b, "DIAL_RSP", d, c)
  <2>1. i \in DOMAIN beIn[b] /\ beIn[b][i] = r
    BY Zenon, <1>1, <1>2, <1>6, PrefixLemma
  <2>. QED  BY Zenon, <2>1 DEF Waiting
<1>7. ASSUME NEW p \in Packet, beIn'[b] = Append(beIn[b], p)
      PROVE  Waiting(b, "DIAL_RSP", d, c) \/ p = r
  <2>1. i \in DOMAIN Append(beIn[b], p) /\ Append(beIn[b], p)[i] = r
    BY Zenon, <1>1, <1>7
  <2>2. (i \in DOMAIN beIn[b] /\ beIn[b][i] = r) \/ p = r
    BY ZenonT(60), <1>2, <2>1, PushLemma
  <2>. QED  BY Zenon, <2>2 DEF Waiting
<1>8. ASSUME NEW p \in Packet, Sends(b, p) PROVE Waiting(b, "DIAL_RSP", d, c)
  BY Zenon, <1>3, <1>7, <1>8 DEF Sends
<1>9. ASSUME NEW e \in Dial, Dialed(b, e)
      PROVE  Waiting(b, "DIAL_RSP", d, c) \/ (e = d /\ c = nextConnID[b])
  <2>1. Pkt("DIAL_RSP", e, nextConnID[b]) \in Packet
    BY ZenonT(60), <1>9, PktLemma DEF Dialed
  <2>2. Pkt("DIAL_RSP", e, nextConnID[b]) = r => e = d /\ c = nextConnID[b]
    BY ZenonT(60), PktSame
  <2>. QED  BY Zenon, <1>7, <1>9, <2>1, <2>2 DEF Dialed
<1>. QED  BY ZenonT(60), <1>4, <1>5, <1>6, <1>8, <1>9, ConnMoves DEF Cut

(* What waits in the queue of b waits on, or is handled. *)
LEMMA WaitOn ==
  ASSUME Types, [Next]_vars, NEW b \in Backend, NEW d \in Dial, NEW c \in ConnID,
         Waiting(b, "DIAL_RSP", d, c), beStream'[b] = "open"
  PROVE  \/ Waiting(b, "DIAL_RSP", d, c)'
         \/ /\ serveRecvBackend(b) /\ bePC[b] = "recv" /\ beIn[b] # <<>>
            /\ beIn'[b] = Tail(beIn[b]) /\ Head(beIn[b]) = Pkt("DIAL_RSP", d, c)
<1> DEFINE r == Pkt("DIAL_RSP", d, c)
<1>1. PICK i \in DOMAIN beIn[b] : beIn[b][i] = r
  BY Zenon DEF Waiting
<1>2. beIn[b] \in Seq(Packet)
  BY Zenon DEF Types
<1>3. CASE beIn'[b] = beIn[b]
  BY Zenon, <1>1, <1>3 DEF Waiting
<1>4. ASSUME NEW p \in Packet, beIn'[b] = Append(beIn[b], p)
      PROVE  Waiting(b, "DIAL_RSP", d, c)'
  <2>1. i \in DOMAIN Append(beIn[b], p) /\ Append(beIn[b], p)[i] = beIn[b][i]
    BY <1>2
  <2>. QED  BY ZenonT(60), <1>1, <1>4, <2>1 DEF Waiting
<1>5. ASSUME beIn[b] # <<>>, beIn'[b] = Tail(beIn[b]), Head(beIn[b]) # r
      PROVE  Waiting(b, "DIAL_RSP", d, c)'
  <2>1. i # 1
    BY SMTT(60), <1>1, <1>2, <1>5
  <2>2. i - 1 \in DOMAIN Tail(beIn[b]) /\ Tail(beIn[b])[i - 1] = beIn[b][i]
    BY SMTT(60), <1>2, <1>5, <2>1
  <2>. QED  BY ZenonT(60), <1>1, <1>5, <2>2 DEF Waiting
<1>6. ASSUME NEW e \in Dial, Dialed(b, e) PROVE Waiting(b, "DIAL_RSP", d, c)'
  <2>1. Pkt("DIAL_RSP", e, nextConnID[b]) \in Packet
    BY Zenon, <1>6, PktLemma DEF Dialed
  <2>. QED  BY Zenon, <1>4, <1>6, <2>1 DEF Dialed
<1>. QED  BY Zenon, <1>3, <1>4, <1>5, <1>6, ConnMoves DEF Cut, Sends

(* A connection ID is given by the agent, and by nobody else. *)
LEMMA HasStep ==
  ASSUME Inv, EndsInv, [Next]_vars, NEW b \in Backend, NEW d \in Dial, NEW c \in ConnID,
         Has(b, d, c)'
  PROVE  \/ Has(b, d, c)
         \/ Dialed(b, d) /\ c = nextConnID[b]
<1>1. Types /\ c # 0
  BY DEF Inv, ConnID
<1>2. CASE Waiting(b, "DIAL_RSP", d, c)'
  BY Zenon, <1>1, <1>2, WaitStep DEF Has
<1>3. CASE remote'[b][c] = d
  <2>1. remote[b] \in [ConnID -> Dial \cup {NoDial}] /\ d # NoDial
    BY Zenon, <1>1, ConstantsAssumption DEF Types
  <2>2. ASSUME NEW e \in Dial, Dialed(b, e)
        PROVE  remote[b][c] = d \/ (e = d /\ c = nextConnID[b])
    BY Zenon, <1>3, <2>1, <2>2 DEF Dialed
  <2>3. ASSUME NEW p \in Packet, Sends(b, p) PROVE remote[b][c] = d
    BY Zenon, <1>3, <2>1, <2>3 DEF Sends
  <2>. QED  BY ZenonT(60), <1>1, <1>3, <2>2, <2>3, ConnMoves DEF Cut, Has
<1>4. CASE dialBackend'[d] = b /\ connectID'[d] = c
  <2>1. ASSUME NEW f \in Frontend, FrontendStep(f) PROVE Has(b, d, c)
    <3>1. connectID[d] = c
      BY Zenon, <1>1, <1>4, <2>1, StreamFrame DEF FrontendKeeps
    <3>2. dialBackend[d] \in Backend
      BY Zenon, <1>1, <3>1 DEF EndsInv, NumberedInv
    <3>3. CASE FeAddDial(f)
      <4>1. dialBackend[feDial[f]] = NoBackend
        BY Zenon, <3>3 DEF FeAddDial, Inv, DialInv, AddingFresh, Fresh
      <4>2. dialBackend' = [dialBackend EXCEPT ![feDial[f]] = feBackend[f]]
        BY Zenon, <3>3 DEF FeAddDial, PendingAdd
      <4>3. dialBackend'[d] = dialBackend[d]
        BY ZenonT(60), <1>1, <3>2, <4>1, <4>2, ConstantsAssumption DEF Types
      <4>. QED  BY Zenon, <1>4, <3>1, <4>3 DEF Has
    <3>. QED  BY Zenon, <1>4, <2>1, <3>1, <3>3, StreamPending DEF Has
  <2>2. ASSUME NEW x \in Backend, serveRecvBackend(x) PROVE Has(b, d, c)
    <3>1. dialBackend[d] = b
      BY Zenon, <1>1, <1>4, <2>2, AgentConnFrame DEF BackendKeeps
    <3>2. CASE connectID'[d] # connectID[d]
      <4>1. /\ BeDialRspOk(x)
            /\ connectID' = [connectID EXCEPT ![Head(beIn[x]).dial] = Head(beIn[x]).conn]
        BY Zenon, <2>2, <3>2, ConnIDStep
      <4>2. d = Head(beIn[x]).dial /\ c = Head(beIn[x]).conn
        BY ZenonT(60), <1>1, <1>4, <3>2, <4>1 DEF Types
      <4>3. beIn[x] \in Seq(Packet) /\ beIn[x] # <<>> /\ Head(beIn[x]).type = "DIAL_RSP"
        BY Zenon, <1>1, <4>1 DEF BeDialRspOk, BeHead, Types
      <4>4. 1 \in DOMAIN beIn[x] /\ Head(beIn[x]) = beIn[x][1] /\ Head(beIn[x]) \in Packet
        BY Zenon, <4>3, PopLemma
      <4>5. dialBackend[d] = x
        <5>1. beIn[x][1].type \in {"DIAL_RSP", "DIAL_CLS"} /\ beIn[x][1].dial = d
          BY ZenonT(60), <4>2, <4>3, <4>4
        <5>. QED  BY ZenonT(60), <4>4, <5>1 DEF Inv, DialInv, WireInv
      <4>6. Head(beIn[x]) = Pkt("DIAL_RSP", d, c)
        BY SMTT(60), <4>2, <4>3, <4>4 DEF Packet, Pkt
      <4>. QED  BY Zenon, <3>1, <4>4, <4>5, <4>6 DEF Has, Waiting
    <3>. QED  BY Zenon, <1>4, <3>1, <3>2 DEF Has
  <2>3. ASSUME OtherStep PROVE Has(b, d, c)
    BY Zenon, <1>4, <2>3, OtherFrame DEF OthersKeep, Has
  <2>. QED  BY Zenon, <2>1, <2>2, <2>3, NextSteps
<1>. QED  BY Zenon, <1>2, <1>3, <1>4 DEF Has

(* A connection ID is given once. *)
LEMMA GivenStep ==
  ASSUME Inv, EndsInv, GivenInv, [Next]_vars
  PROVE  GivenInv'
<1>1. Types /\ \A b \in Backend : nextConnID[b] \in Nat
  BY ZenonT(60), IDRanges DEF Inv, Types
<1>2. SUFFICES ASSUME NEW b \in Backend, NEW c \in ConnID, NEW d \in Dial, Has(b, d, c)'
               PROVE  /\ c < nextConnID'[b]
                      /\ \A e \in Dial : Has(b, e, c)' => e = d
  BY Zenon DEF GivenInv
<1>3. nextConnID'[b] = nextConnID[b] \/ nextConnID'[b] = nextConnID[b] + 1
  BY Zenon, <1>1, ConnMoves DEF Cut, Dialed, Sends
<1>4. ASSUME NEW e \in Dial, Has(b, e, c) PROVE c < nextConnID[b] /\ c # nextConnID[b]
  <2>1. c < nextConnID[b]
    BY Zenon, <1>4 DEF GivenInv
  <2>. QED  BY <1>1, <2>1 DEF ConnID
<1>5. c < nextConnID'[b]
  <2>1. CASE Has(b, d, c)
    <3>1. c < nextConnID[b]
      BY Zenon, <1>4, <2>1
    <3>2. c \in Int /\ nextConnID[b] \in Nat
      BY ZenonT(60), <1>1, IDRanges
    <3>. QED  BY <1>3, <3>1, <3>2
  <2>2. CASE Dialed(b, d) /\ c = nextConnID[b]
    BY <1>1, <2>2 DEF Dialed
  <2>. QED  BY ZenonT(60), <1>2, <2>1, <2>2, HasStep
<1>6. ASSUME NEW e \in Dial, Has(b, e, c)' PROVE e = d
  <2>1. CASE Has(b, d, c) /\ Has(b, e, c)
    BY Zenon, <2>1 DEF GivenInv
  <2>2. CASE Dialed(b, d) /\ Dialed(b, e) /\ c = nextConnID[b]
    <3>1. remote[b] \in [ConnID -> Dial \cup {NoDial}]
      BY ZenonT(60), <1>1 DEF Types
    <3>2. remote'[b][c] = d /\ remote'[b][c] = e
      BY <2>2, <3>1 DEF Dialed
    <3>. QED  BY Zenon, <3>2
  <2>. QED  BY ZenonT(60), <1>2, <1>4, <1>6, <2>1, <2>2, HasStep
<1>. QED  BY ZenonT(60), <1>5, <1>6

-----------------------------------------------------------------------------
(* The entries of an agent connection *)

(* An entry under the agent of b is a connection of b. *)
LEMMA EntryOwner ==
  ASSUME Inv, EndsInv, OneConnPerAgent, NEW b \in Backend, NEW c \in ConnID,
         NEW d \in Dial, established[AgentOf[b]][c] = d
  PROVE  dialBackend[d] = b /\ connectID[d] = c /\ d \notin pending /\ Has(b, d, c)
<1>1. AgentOf[b] \in Agent /\ d # NoDial
  BY Zenon, ConstantsAssumption
<1>2. dialBackend[d] \in Backend /\ AgentOf[dialBackend[d]] = AgentOf[b]
  BY Zenon, <1>1 DEF Inv, DialInv, EstablishedInv
<1>3. connectID[d] = c /\ d \notin pending
  BY Zenon, <1>1 DEF EndsInv, FiledInv
<1>. QED  BY Zenon, <1>2, <1>3 DEF OneConnPerAgent, Has

(* The dial that the goroutine of b handles has its connection ID from b. *)
LEMMA ClaimOwner ==
  ASSUME Inv, EndsInv, NEW b \in Backend, bePC[b] \in {"establish", "forward", "unestablish"}
  PROVE  /\ beDial[b] \in Dial /\ dialBackend[beDial[b]] = b
         /\ connectID[beDial[b]] \in ConnID
         /\ beDial[b] \notin pending
         /\ Has(b, beDial[b], connectID[beDial[b]])
<1>1. /\ beDial[b] \in Dial /\ dialBackend[beDial[b]] = b
      /\ connectID[beDial[b]] \in ConnID
  BY Zenon DEF Inv, DialInv, ClaimInv
<1>2. bePC[b] \in {"establish", "forward"} => beDial[b] \notin pending
  BY Zenon DEF Inv, DialInv, ClaimInv
<1>3. bePC[b] = "unestablish" => beDial[b] \notin pending
  <2>1. bePC[b] = "unestablish" => answers[beDial[b]] = <<"lost">>
    BY Zenon DEF EndsInv, LostInv
  <2>2. <<"lost">> # <<>>
    OBVIOUS
  <2>. QED  BY Zenon, <2>1, <2>2 DEF Inv, DialInv, PendingInv
<1>. QED  BY ZenonT(60), <1>1, <1>2, <1>3 DEF Has

(* A stream that has been cleaned up stays so. *)
LEMMA CleanedStays ==
  ASSUME Types, [Next]_vars, NEW f \in Frontend, fePC[f] \in {"sendClose", "done"}
  PROVE  fePC'[f] \in {"sendClose", "done"}
<1>1. ASSUME NEW g \in Frontend, FrontendStep(g) PROVE fePC'[f] \in {"sendClose", "done"}
  <2>1. CASE g # f
    BY ZenonT(60), <1>1, <2>1, StreamFrame DEF FrontendKeeps
  <2>2. CASE g = f
    <3>1. ~serveRecvFrontend(f)
      BY Zenon DEF serveRecvFrontend, FeGetBackend, FeNoBackend, FeAddDial, FeSendDial,
         FeDialSent, FeDialFailed, FeCloseReq, FeDialCls, FeData, FeRecvClosed, FeHead
    <3>2. FeCleanSend(f) \/ FeReturn(f)
      BY Zenon, <1>1, <2>2, <3>1
         DEF FrontendStep, proxyCleanup, FeCleanPending, FeCleanEstablished
    <3>. QED  BY Zenon, <3>2 DEF FeCleanSend, FeReturn, FeGoto, Types
  <2>. QED  BY Zenon, <2>1, <2>2
<1>2. ASSUME NEW x \in Backend, serveRecvBackend(x) PROVE fePC' = fePC
  BY Zenon, <1>2, AgentConnFrame DEF BackendKeeps
<1>3. ASSUME OtherStep PROVE fePC' = fePC
  BY Zenon, <1>3, OtherFrame DEF OthersKeep
<1>. QED  BY Zenon, <1>1, <1>2, <1>3, NextSteps

(* Entries go with the clean-up of their stream. *)
LEMMA StreamEntry ==
  ASSUME Types, NEW f \in Frontend, FrontendStep(f), NEW a \in Agent, NEW c \in ConnID,
         NEW d \in Dial, established[a][c] = d,
         fePC'[FrontendOf[d]] \notin {"sendClose", "done"}
  PROVE  established'[a][c] = d
<1>1. FeCleanEstablished(f) => fePC'[f] = "sendClose"
  BY Zenon DEF FeCleanEstablished, FeGoto, Types
<1>2. d \in StreamDials(f) => FrontendOf[d] = f
  BY Zenon DEF StreamDials
<1>3. \/ established'[a][c] = established[a][c]
      \/ FeCleanEstablished(f) /\ established[a][c] \in StreamDials(f)
  BY Zenon, StreamShrinks
<1>. QED  BY Zenon, <1>1, <1>2, <1>3

(* A dial that is being forwarded stays established. *)
LEMMA ForwardStep ==
  ASSUME Inv, EndsInv, ForwardInv, OneConnPerAgent, [Next]_vars
  PROVE  ForwardInv'
<1>1. Types /\ bePC \in [Backend -> BePC] /\ beDial \in [Backend -> Dial \cup {NoDial}]
  BY Zenon DEF Inv, Types
<1>2. SUFFICES ASSUME NEW b \in Backend, bePC'[b] = "forward",
                      fePC'[FrontendOf[beDial'[b]]] \notin {"sendClose", "done"}
               PROVE  established'[AgentOf[b]][connectID'[beDial'[b]]] = beDial'[b]
  BY Zenon DEF ForwardInv
<1> DEFINE d == beDial[b]
           a == AgentOf[b]
           c == connectID[d]
<1>3. a \in Agent
  BY Zenon, ConstantsAssumption
<1>4. ASSUME bePC[b] = "forward", beDial'[b] = d
      PROVE  /\ established[a][c] = d /\ d \in Dial /\ c \in ConnID /\ d \notin pending
             /\ dialBackend[d] = b
  <2>1. d \in Dial /\ c \in ConnID /\ d \notin pending /\ dialBackend[d] = b
    BY Zenon, <1>4, ClaimOwner
  <2>2. FrontendOf[d] \in Frontend
    BY Zenon, <2>1, ConstantsAssumption
  <2>3. fePC[FrontendOf[d]] \notin {"sendClose", "done"}
    BY ZenonT(60), <1>1, <1>2, <1>4, <2>2, CleanedStays
  <2>. QED  BY Zenon, <1>4, <2>1, <2>3 DEF ForwardInv
<1>5. ASSUME NEW f \in Frontend, FrontendStep(f)
      PROVE  established'[AgentOf[b]][connectID'[beDial'[b]]] = beDial'[b]
  <2>1. bePC' = bePC /\ beDial' = beDial /\ connectID' = connectID
    BY Zenon, <1>1, <1>5, StreamFrame DEF FrontendKeeps
  <2>2. established[a][c] = d /\ d \in Dial /\ c \in ConnID
    BY Zenon, <1>2, <1>4, <2>1
  <2>3. fePC'[FrontendOf[d]] \notin {"sendClose", "done"}
    BY Zenon, <1>2, <2>1
  <2> HIDE DEF c, d, a
  <2>4. established'[a][c] = d
    BY ZenonT(60), <1>1, <1>3, <1>5, <2>2, <2>3, StreamEntry
  <2>. QED  BY Zenon, <2>1, <2>4 DEF a, c, d
<1>6. ASSUME NEW x \in Backend, serveRecvBackend(x), x # b
      PROVE  established'[AgentOf[b]][connectID'[beDial'[b]]] = beDial'[b]
  <2>1. bePC'[b] = bePC[b] /\ beDial'[b] = d
    BY Zenon, <1>1, <1>6, AgentConnFrame DEF BackendKeeps
  <2>2. /\ established[a][c] = d /\ d \in Dial /\ c \in ConnID /\ d \notin pending
        /\ dialBackend[d] = b
    BY ZenonT(60), <1>2, <1>4, <2>1
  <2>3. connectID'[d] = c
    BY ZenonT(60), <1>1, <1>6, <2>2, ConnIDStep DEF Types
  <2>4. EntryStep(x, a, c)
    BY Zenon, <1>1, <1>3, <1>6, <2>2, ConnEntries
  <2>5. established'[a][c] = d
    BY Zenon, <1>6, <2>2, <2>4 DEF EntryStep, OneConnPerAgent
  <2>. QED  BY ZenonT(60), <2>1, <2>3, <2>5
<1>7. ASSUME serveRecvBackend(b)
      PROVE  established'[AgentOf[b]][connectID'[beDial'[b]]] = beDial'[b]
  <2>1. addEstablished(b)
    BY ZenonT(60), <1>1, <1>2, <1>7
    DEF serveRecvBackend, BeDialRspUnknown, BeDialRspError, BeDialRspOk, BeForward,
        BeUnestablish, BeDialCls, BeData, BeCloseRsp, BeCleanPending,
        BeCleanEstablished, BeHead, BeGoto
  <2>2. /\ established' = [established EXCEPT ![a][c] = d]
        /\ bePC[b] = "establish" /\ connectID' = connectID /\ beDial' = beDial
    BY Zenon, <2>1 DEF addEstablished
  <2>3. c \in ConnID
    BY Zenon, <2>2, ClaimOwner
  <2>4. established \in [Agent -> [ConnID -> Dial \cup {NoDial}]]
    BY ZenonT(60), <1>1 DEF Types
  <2>5. established'[a][c] = d
    BY ZenonT(60), <1>3, <2>2, <2>3, <2>4
  <2>. QED  BY Zenon, <2>2, <2>5
<1>8. ASSUME OtherStep
      PROVE  established'[AgentOf[b]][connectID'[beDial'[b]]] = beDial'[b]
  <2>1. UNCHANGED <<established, connectID, bePC, beDial>>
    BY Zenon, <1>8, OtherFrame DEF OthersKeep
  <2>. QED  BY Zenon, <1>2, <1>4, <2>1
<1>. QED  BY ZenonT(60), <1>5, <1>6, <1>7, <1>8, NextSteps

(* The single outcome of a dial is "ok" or is not. *)
LEMMA OkLemma ==
  /\ "ok" \notin {<<>>[i] : i \in DOMAIN <<>>}
  /\ \A k \in {"err", "cls", "lost"} : "ok" \notin {<<k>>[i] : i \in DOMAIN <<k>>}
<1>1. DOMAIN <<>> = {}
  OBVIOUS
<1>2. \A k : DOMAIN <<k>> = {1} /\ <<k>>[1] = k
  OBVIOUS
<1>3. \A k : {<<k>>[i] : i \in DOMAIN <<k>>} = {k}
  BY SMTT(60), <1>2
<1>. QED  BY Zenon, <1>1, <1>3

(* Two dials that have the same connection ID from b are the same. *)
LEMMA SameConn ==
  ASSUME GivenInv, NEW b \in Backend, NEW c \in ConnID, NEW d \in Dial, NEW e \in Dial,
         Has(b, d, c), Has(b, e, c)
  PROVE  e = d
  BY Zenon DEF GivenInv

(* The close of a connection that was handed over is not forgotten. *)
LEMMA ToldGrows ==
  ASSUME [Next]_vars
  PROVE  told \subseteq told'
<1> USE DEF history
<1>1. ASSUME NEW f \in Frontend, FrontendStep(f) PROVE told \subseteq told'
  <2>1. FeCloseReq(f) \/ FeData(f) => told \subseteq told'
    BY Zenon DEF FeCloseReq, FeData
  <2>2. FrontendStep(f) => FeCloseReq(f) \/ FeData(f) \/ told' = told
    BY Zenon DEF FrontendStep, serveRecvFrontend, proxyCleanup, FeGetBackend, FeNoBackend,
       FeAddDial, FeSendDial, FeDialSent, FeDialFailed, FeDialCls, FeRecvClosed,
       FeCleanPending, FeCleanSend, FeCleanEstablished, FeReturn
  <2>. QED  BY ZenonT(60), <1>1, <2>1, <2>2
<1>2. ASSUME NEW x \in Backend, serveRecvBackend(x) PROVE told \subseteq told'
  BY Zenon, <1>2 DEF serveRecvBackend, BeDialRspUnknown, BeDialRspError, BeDialRspOk,
     addEstablished, BeForward, BeUnestablish, BeDialCls, BeData, BeCloseRsp,
     BeCleanPending, BeCleanEstablished
<1>3. ASSUME OtherStep PROVE told' = told
  BY Zenon, <1>3, OtherFrame DEF OthersKeep
<1>. QED  BY Zenon, <1>1, <1>2, <1>3, NextSteps

(* No client loses a connection in silence. *)
LEMMA SilentStep ==
  ASSUME Inv, Inv', EndsInv, GivenInv, ForwardInv, NoSilentClose, OneConnPerAgent, [Next]_vars
  PROVE  NoSilentClose'
<1>0. \A d \in Dial : FrontendOf[d] \in Frontend /\ d # NoDial
  BY ZenonT(60), ConstantsAssumption
<1>1. Types /\ established \in [Agent -> [ConnID -> Dial \cup {NoDial}]]
  BY Zenon DEF Inv, Types
<1>2. SUFFICES ASSUME NEW d \in Dial, "ok" \in {answers'[d][i] : i \in DOMAIN answers'[d]},
                      fePC'[FrontendOf[d]] \notin {"sendClose", "done"}
               PROVE  d \in EstablishedDials' \/ d \in told'
  BY Zenon DEF NoSilentClose
<1>3. fePC[FrontendOf[d]] \notin {"sendClose", "done"}
  BY Zenon, <1>0, <1>1, <1>2, CleanedStays
<1>4. ASSUME NEW a \in Agent, NEW c \in ConnID, established'[a][c] = d
      PROVE  d \in EstablishedDials'
  BY Zenon, <1>0, <1>4, EntryLemma
<1>5. CASE answers[d] # <<>>
  <2>1. answers'[d] = answers[d]
    BY Zenon, <1>5, AnswersStay
  <2>2. "ok" \in {answers[d][i] : i \in DOMAIN answers[d]}
    BY Zenon, <1>2, <2>1
  <2>3. SUFFICES ASSUME d \in EstablishedDials
                 PROVE  d \in EstablishedDials' \/ d \in told'
    BY Zenon, <1>3, <2>2, ToldGrows DEF NoSilentClose
  <2>4. PICK a \in Agent, c \in ConnID : established[a][c] = d
    BY Zenon, <2>3, EntryLemma
  <2>5. ASSUME NEW f \in Frontend, FrontendStep(f) PROVE established'[a][c] = d
    BY ZenonT(60), <1>1, <1>2, <2>4, <2>5, StreamEntry
  <2>6. ASSUME NEW x \in Backend, serveRecvBackend(x)
        PROVE  established'[a][c] = d \/ d \in told'
    <3>1. a = AgentOf[x] => Has(x, d, c)
      BY Zenon, <2>4, EntryOwner
    <3>2. CASE /\ addEstablished(x) /\ established'[a][c] = beDial[x]
               /\ a = AgentOf[x] /\ c = connectID[beDial[x]]
      <4>1. bePC[x] = "establish"
        BY Zenon, <3>2 DEF addEstablished
      <4>2. beDial[x] \in Dial /\ Has(x, beDial[x], c)
        BY Zenon, <3>2, <4>1, ClaimOwner
      <4>. QED  BY Zenon, <3>1, <3>2, <4>2, SameConn
    <3>3. CASE BeUnestablish(x) /\ a = AgentOf[x] /\ c = connectID[beDial[x]]
      <4>1. bePC[x] = "unestablish"
        BY ZenonT(60), <3>3 DEF BeUnestablish
      <4>2. beDial[x] \in Dial /\ Has(x, beDial[x], c)
        BY Zenon, <3>3, <4>1, ClaimOwner
      <4>3. answers[d] = <<"lost">>
        BY ZenonT(60), <3>1, <3>3, <4>1, <4>2, SameConn DEF EndsInv, LostInv
      <4>. QED  BY ZenonT(60), <2>2, <4>3, OkLemma
    <3>4. CASE BeCloseRsp(x) /\ a = AgentOf[x] /\ c = Head(beIn[x]).conn
      <4>1. told' = told \cup ({established[AgentOf[x]][Head(beIn[x]).conn]} \ {NoDial})
        BY Zenon, <3>4 DEF BeCloseRsp
      <4>. QED  BY Zenon, <1>0, <2>4, <3>4, <4>1
    <3>5. CASE BeCleanEstablished(x) /\ dialBackend[established[a][c]] = x
      <4>1. told' = told \cup {e \in EstablishedDials : dialBackend[e] = x}
        BY Zenon, <3>5 DEF BeCleanEstablished
      <4>. QED  BY ZenonT(60), <2>3, <2>4, <3>5, <4>1
    <3>6. EntryStep(x, a, c)
      BY Zenon, <1>1, <2>6, ConnEntries
    <3>. QED  BY ZenonT(60), <2>4, <3>2, <3>3, <3>4, <3>5, <3>6 DEF EntryStep
  <2>7. ASSUME OtherStep PROVE established'[a][c] = d
    BY Zenon, <2>4, <2>7, OtherFrame DEF OthersKeep
  <2>. QED  BY ZenonT(60), <1>4, <2>5, <2>6, <2>7, NextSteps
<1>6. CASE answers[d] = <<>>
  <2>1. answers'[d] # <<>>
    BY Zenon, <1>2, OkLemma
  <2>2. ASSUME NEW S \in SUBSET Dial, NEW k \in {"err", "cls", "lost"}, Answer(S, k) PROVE FALSE
    <3>1. answers'[d] = Append(answers[d], k)
      BY ZenonT(60), <1>6, <2>1, <2>2 DEF Answer
    <3>2. answers'[d] = <<k>>
      BY <1>6, <3>1
    <3>. QED  BY ZenonT(60), <1>2, <3>2, OkLemma
  <2>3. PICK x \in Backend : BeForward(x)
    BY Zenon, <1>6, <2>1, <2>2, AnswerSteps DEF AnswerStep
  <2>4. /\ bePC[x] = "forward" /\ established' = established
        /\ \E k : Answer({beDial[x]}, k)
    BY Zenon, <2>3 DEF BeForward, maps
  <2>5. d = beDial[x]
    BY ZenonT(60), <1>6, <2>1, <2>4 DEF Answer
  <2>6. connectID[d] \in ConnID /\ AgentOf[x] \in Agent
    BY ZenonT(60), <2>4, <2>5, ClaimOwner, ConstantsAssumption
  <2>7. established[AgentOf[x]][connectID[d]] = d
    BY Zenon, <1>3, <2>4, <2>5 DEF ForwardInv
  <2>. QED  BY Zenon, <1>4, <2>4, <2>6, <2>7
<1>. QED  BY ZenonT(60), <1>5, <1>6

-----------------------------------------------------------------------------
(* The remote connections *)

(* A connection is with an agent that was there before the step. *)
LEMMA OpenBefore ==
  ASSUME Inv, EndsInv, TrackedInv, [Next]_vars, NEW b \in Backend, NEW c \in ConnID,
         remote[b][c] # NoDial, beStream'[b] = "open"
  PROVE  beStream[b] = "open" /\ CtxAlive(b)
<1>1. Types /\ BeStageInv
  BY Zenon DEF Inv, EndsInv
<1>2. beConn[b] # "none"
  BY Zenon DEF TrackedInv
<1>3. beStream[b] = "open"
  BY ZenonT(60), <1>1, <1>2, NextSteps, StreamFrame, AgentConnFrame, BeEnds
     DEF FrontendKeeps, BackendKeeps
<1>. QED  BY Zenon, <1>1, <1>3 DEF BeStageInv, CtxAlive

(* An agent connection is not undone. *)
LEMMA ConnStays ==
  ASSUME Types, [Next]_vars, NEW b \in Backend, beConn'[b] = "none"
  PROVE  beConn[b] = "none"
<1>0. beConn \in [Backend -> {"none", "up", "returned"}]
  BY Zenon DEF Types
<1>1. ASSUME NEW f \in Frontend, FrontendStep(f) PROVE beConn' = beConn
  BY Zenon, <1>1, StreamFrame DEF FrontendKeeps
<1>2. ASSUME NEW x \in Backend, serveRecvBackend(x) PROVE beConn' = beConn
  BY Zenon, <1>2, AgentConnFrame DEF BackendKeeps
<1>3. ASSUME NEW x \in Backend, ConnStep(x) PROVE beConn[b] = "none"
  BY Zenon, <1>0, <1>3 DEF ConnStep, Connect, ConnectReturn, ConnectRetired
<1>4. ASSUME NEW x \in Backend, AgentStep(x) PROVE beConn' = beConn
  BY Zenon, <1>4 DEF AgentStep, AgentReplies, AgentDialOk, AgentDialFails, AgentClose,
     AgentDataUnknown, AgentConsume, AgentEnd, RemoteData, RemoteClose, beVars
<1>5. ASSUME NEW d \in Dial, DialStep(d) PROVE beConn' = beConn
  BY Zenon, <1>5 DEF DialStep, AbandonedSend, TimerFires, TimerBackendDone, beVars
<1>6. ASSUME NEW f \in Frontend, NEW x \in Backend, CloseHook(f, x) PROVE beConn' = beConn
  BY Zenon, <1>6 DEF CloseHook, beVars
<1>7. ASSUME NEW f \in Frontend, ClientStep(f) PROVE beConn' = beConn
  BY Zenon, <1>7 DEF ClientStep, ClientDial, ClientCancel, ClientUse, ClientEnd, ClientSend, beVars
<1>8. UNCHANGED vars => beConn' = beConn
  BY Zenon DEF vars, beVars
<1>. QED  BY ZenonT(60), <1>1, <1>2, <1>3, <1>4, <1>5, <1>6, <1>7, <1>8, NextSteps DEF OtherStep

(* What is sent to a connected agent is on its way. *)
LEMMA DeliverArrives ==
  ASSUME Types, NEW b \in Backend, CtxAlive(b), NEW p, toAgent' = Deliver(b, {p})
  PROVE  p \in toAgent'[b]
  BY Zenon DEF Deliver, Types

(* A close that the server has to send reaches the agent. *)
LEMMA ClosingStays ==
  ASSUME Inv, EndsInv, TrackedInv, [Next]_vars, NEW b \in Backend, NEW c \in ConnID,
         remote[b][c] # NoDial, remote'[b][c] # NoDial, beStream'[b] = "open", Closing(b, c)
  PROVE  Closing(b, c)'
<1> DEFINE p == Pkt("CLOSE_REQ", NoDial, c)
<1>1. Types /\ FeStageInv /\ CtxAlive(b)
  BY Zenon, OpenBefore DEF Inv, EndsInv
<1>2. CASE p \in toAgent[b]
  <2>1. KeepsCloses(b)
    BY Zenon, <1>1, ConnMoves DEF Cut
  <2>. QED  BY ZenonT(60), <1>2, <2>1 DEF KeepsCloses, Closing
<1>3. ASSUME NEW f \in Frontend, <<b, p>> \in feTodo[f] PROVE Closing(b, c)'
  <2>1. ASSUME feTodo'[f] = feTodo[f] PROVE Closing(b, c)'
    BY Zenon, <1>3, <2>1 DEF Closing
  <2>2. ASSUME NEW g \in Frontend, FrontendStep(g) PROVE Closing(b, c)'
    <3>1. CASE g # f
      BY Zenon, <1>1, <2>1, <2>2, <3>1, StreamFrame DEF FrontendKeeps
    <3>2. CASE g = f
      <4>1. fePC[f] \in {"sendDialClose", "sendClose"}
        BY Zenon, <1>1, <1>3 DEF FeStageInv
      <4>2. ~serveRecvFrontend(f)
        BY Zenon, <4>1 DEF serveRecvFrontend, FeGetBackend, FeNoBackend, FeAddDial, FeSendDial,
           FeDialSent, FeDialFailed, FeCloseReq, FeDialCls, FeData, FeRecvClosed, FeHead
      <4>3. FeCleanSend(f)
        BY ZenonT(60), <1>3, <2>2, <3>2, <4>1, <4>2
           DEF FrontendStep, proxyCleanup, FeCleanPending, FeCleanEstablished, FeReturn
      <4>4. PICK t \in feTodo[f] : /\ toAgent' = Deliver(t[1], {t[2]})
                                   /\ feTodo' = [feTodo EXCEPT ![f] = @ \ {t}]
        BY Zenon, <4>3 DEF FeCleanSend
      <4>5. CASE t = <<b, p>>
        <5>1. t[1] = b /\ t[2] = p
          BY <4>5
        <5>2. p \in toAgent'[b]
          BY Zenon, <1>1, <4>4, <5>1, DeliverArrives
        <5>. QED  BY Zenon, <5>2 DEF Closing
      <4>6. CASE t # <<b, p>>
        <5>1. feTodo'[f] = feTodo[f] \ {t}
          BY Zenon, <1>1, <4>4 DEF Types
        <5>. QED  BY Zenon, <1>3, <4>6, <5>1 DEF Closing
      <4>. QED  BY Zenon, <4>5, <4>6
    <3>. QED  BY Zenon, <3>1, <3>2
  <2>3. ASSUME NEW x \in Backend, serveRecvBackend(x) PROVE feTodo' = feTodo
    BY Zenon, <1>1, <2>3, AgentConnFrame DEF BackendKeeps
  <2>4. ASSUME OtherStep PROVE feTodo' = feTodo
    BY Zenon, <2>4, OtherFrame DEF OthersKeep
  <2>. QED  BY Zenon, <2>1, <2>2, <2>3, <2>4, NextSteps
<1>. QED  BY Zenon, <1>2, <1>3 DEF Closing

(* A DIAL_RSP that is handled is established, or its connection closed. *)
LEMMA WaitingTracked ==
  ASSUME Inv, EndsInv, TrackedInv, [Next]_vars, NEW b \in Backend, NEW c \in ConnID,
         NEW d \in Dial, remote[b][c] = d, beStream'[b] = "open",
         Waiting(b, "DIAL_RSP", d, c)
  PROVE  Tracked(b, c, d)'
<1> DEFINE r == Pkt("DIAL_RSP", d, c)
<1>1. Types /\ d # NoDial /\ c # 0
  BY ConstantsAssumption DEF Inv, ConnID
<1>2. CASE Waiting(b, "DIAL_RSP", d, c)'
  BY Zenon, <1>2 DEF Tracked
<1>3. ASSUME serveRecvBackend(b), bePC[b] = "recv", beIn[b] # <<>>, Head(beIn[b]) = r
      PROVE  Tracked(b, c, d)'
  <2>1. r.type = "DIAL_RSP" /\ r.dial = d /\ r.conn = c
    BY PktLemma
  <2>2. BeDialRspUnknown(b) \/ BeDialRspOk(b)
    <3>1. ~BeDialRspError(b)
      BY Zenon, <1>1, <1>3, <2>1 DEF BeDialRspError
    <3>2. ~BeDialCls(b) /\ ~BeData(b) /\ ~BeCloseRsp(b)
      BY Zenon, <1>3, <2>1 DEF BeDialCls, BeData, BeCloseRsp, BeHead
    <3>3. /\ ~addEstablished(b) /\ ~BeForward(b) /\ ~BeUnestablish(b)
          /\ ~BeCleanPending(b) /\ ~BeCleanEstablished(b)
      BY Zenon, <1>3
         DEF addEstablished, BeForward, BeUnestablish, BeCleanPending, BeCleanEstablished
    <3>. QED  BY Zenon, <1>3, <3>1, <3>2, <3>3 DEF serveRecvBackend
  <2>3. CASE BeDialRspUnknown(b)
    <3>1. toAgent' = Deliver(b, {Pkt("CLOSE_REQ", NoDial, c)})
      BY Zenon, <1>1, <1>3, <2>1, <2>3 DEF BeDialRspUnknown
    <3>2. Pkt("CLOSE_REQ", NoDial, c) \in toAgent'[b]
      BY Zenon, <1>1, <3>1, OpenBefore, DeliverArrives
    <3>. QED  BY Zenon, <3>2 DEF Tracked, Closing
  <2>4. CASE BeDialRspOk(b)
    <3>1. /\ connectID' = [connectID EXCEPT ![d] = c] /\ beDial' = [beDial EXCEPT ![b] = d]
          /\ bePC' = [bePC EXCEPT ![b] = "establish"]
      BY Zenon, <1>3, <2>1, <2>4 DEF BeDialRspOk, BeGoto
    <3>2. connectID'[d] = c /\ beDial'[b] = d /\ bePC'[b] = "establish"
      BY ZenonT(60), <1>1, <3>1 DEF Types
    <3>. QED  BY Zenon, <3>2 DEF Tracked
  <2>. QED  BY ZenonT(60), <2>2, <2>3, <2>4
<1>. QED  BY ZenonT(60), <1>1, <1>2, <1>3, WaitOn

(* A dial that is handled is established, or its connection closed. *)
LEMMA ClaimTracked ==
  ASSUME Inv, EndsInv, TrackedInv, [Next]_vars, NEW b \in Backend, NEW c \in ConnID,
         NEW d \in Dial, remote[b][c] = d, beStream'[b] = "open",
         bePC[b] \in {"establish", "unestablish"}, beDial[b] = d, connectID[d] = c
  PROVE  Tracked(b, c, d)'
<1>1. Types /\ d # NoDial /\ d \notin pending /\ AgentOf[b] \in Agent
  BY Zenon, ClaimOwner, ConstantsAssumption DEF Inv
<1>2. ASSUME bePC'[b] = bePC[b], beDial'[b] = d, connectID'[d] = c PROVE Tracked(b, c, d)'
  BY Zenon, <1>2 DEF Tracked
<1>3. ASSUME NEW f \in Frontend, FrontendStep(f) PROVE Tracked(b, c, d)'
  BY Zenon, <1>1, <1>2, <1>3, StreamFrame DEF FrontendKeeps
<1>4. ASSUME NEW x \in Backend, x # b, serveRecvBackend(x) PROVE Tracked(b, c, d)'
  <2>1. connectID'[d] = c
    BY ZenonT(60), <1>1, <1>4, ConnIDStep DEF Types
  <2>. QED  BY ZenonT(60), <1>1, <1>2, <1>4, <2>1, AgentConnFrame DEF BackendKeeps
<1>5. ASSUME serveRecvBackend(b) PROVE Tracked(b, c, d)'
  <2>1. /\ bePC[b] = "establish" => addEstablished(b)
        /\ bePC[b] = "unestablish" => BeUnestablish(b)
    BY ZenonT(60), <1>5
    DEF serveRecvBackend, BeDialRspUnknown, BeDialRspError, BeDialRspOk, addEstablished,
        BeForward, BeUnestablish, BeDialCls, BeData, BeCloseRsp, BeCleanPending,
        BeCleanEstablished, BeHead
  <2>2. CASE bePC[b] = "establish"
    <3>1. established' = [established EXCEPT ![AgentOf[b]][c] = d]
      BY Zenon, <2>1, <2>2 DEF addEstablished
    <3>2. established \in [Agent -> [ConnID -> Dial \cup {NoDial}]]
      BY ZenonT(60), <1>1 DEF Types
    <3>3. established'[AgentOf[b]][c] = d
      BY Zenon, <1>1, <3>1, <3>2
    <3>. QED  BY Zenon, <3>3 DEF Tracked
  <2>3. CASE bePC[b] = "unestablish"
    <3>1. toAgent' = Deliver(b, {Pkt("CLOSE_REQ", NoDial, c)})
      BY Zenon, <2>1, <2>3 DEF BeUnestablish
    <3>2. Pkt("CLOSE_REQ", NoDial, c) \in toAgent'[b]
      BY Zenon, <1>1, <3>1, OpenBefore, DeliverArrives
    <3>. QED  BY Zenon, <3>2 DEF Tracked, Closing
  <2>. QED  BY Zenon, <2>2, <2>3
<1>6. ASSUME OtherStep PROVE Tracked(b, c, d)'
  BY ZenonT(60), <1>2, <1>6, OtherFrame DEF OthersKeep
<1>. QED  BY ZenonT(60), <1>3, <1>4, <1>5, <1>6, NextSteps

(* An entry that is removed has its connection closed. *)
LEMMA EntryTracked ==
  ASSUME Inv, EndsInv, GivenInv, TrackedInv, OrderInv, OneConnPerAgent, [Next]_vars,
         NEW b \in Backend, NEW c \in ConnID, NEW d \in Dial, remote[b][c] = d,
         beStream'[b] = "open", established[AgentOf[b]][c] = d
  PROVE  Tracked(b, c, d)'
<1> DEFINE a == AgentOf[b]
           p == Pkt("CLOSE_REQ", NoDial, c)
<1>1. Types /\ a \in Agent /\ d # NoDial
  BY Zenon, ConstantsAssumption DEF Inv
<1>2. beStream[b] = "open" /\ CtxAlive(b)
  BY ZenonT(60), <1>1, OpenBefore
<1>3. dialBackend[d] = b /\ connectID[d] = c /\ Has(b, d, c)
  BY EntryOwner
<1>4. ASSUME established'[a][c] = d PROVE Tracked(b, c, d)'
  BY Zenon, <1>4 DEF Tracked
<1>5. ASSUME NEW f \in Frontend, FrontendStep(f) PROVE Tracked(b, c, d)'
  <2>1. CASE FeCleanEstablished(f) /\ d \in StreamDials(f)
    <3>1. feTodo' = [feTodo EXCEPT ![f] =
             {<<dialBackend[e], Pkt("CLOSE_REQ", NoDial, connectID[e])>> :
                e \in StreamDials(f) \cap EstablishedDials}]
      BY Zenon, <2>1 DEF FeCleanEstablished
    <3>2. d \in StreamDials(f) \cap EstablishedDials
      BY Zenon, <1>1, <2>1, EntryLemma
    <3>3. feTodo'[f] = {<<dialBackend[e], Pkt("CLOSE_REQ", NoDial, connectID[e])>> :
                          e \in StreamDials(f) \cap EstablishedDials}
      BY Zenon, <1>1, <3>1 DEF Types
    <3>4. <<b, p>> \in feTodo'[f]
      BY Zenon, <1>3, <3>2, <3>3
    <3>. QED  BY Zenon, <3>4 DEF Tracked, Closing
  <2>. QED  BY ZenonT(60), <1>1, <1>4, <1>5, <2>1, StreamShrinks
<1>6. ASSUME NEW x \in Backend, serveRecvBackend(x) PROVE Tracked(b, c, d)'
  <2>1. EntryStep(x, a, c)
    BY ZenonT(60), <1>1, <1>6, ConnEntries
  <2>2. a = AgentOf[x] => x = b
    BY Zenon DEF OneConnPerAgent
  <2>3. CASE addEstablished(b) /\ established'[a][c] = beDial[b] /\ c = connectID[beDial[b]]
    <3>1. bePC[b] = "establish"
      BY Zenon, <2>3 DEF addEstablished
    <3>2. beDial[b] \in Dial /\ Has(b, beDial[b], c)
      BY Zenon, <2>3, <3>1, ClaimOwner
    <3>. QED  BY ZenonT(60), <1>3, <1>4, <2>3, <3>2, SameConn
  <2>4. CASE BeUnestablish(b) /\ c = connectID[beDial[b]]
    <3>1. toAgent' = Deliver(b, {p})
      BY Zenon, <2>4 DEF BeUnestablish
    <3>2. p \in toAgent'[b]
      BY Zenon, <1>1, <1>2, <3>1, DeliverArrives
    <3>. QED  BY Zenon, <3>2 DEF Tracked, Closing
  <2>5. CASE BeCloseRsp(b) /\ c = Head(beIn[b]).conn
    <3>1. beIn[b] # <<>> /\ Head(beIn[b]).type = "CLOSE_RSP" /\ beIn[b] \in Seq(Packet)
      BY Zenon, <1>1, <2>5 DEF BeCloseRsp, BeHead, Types
    <3>2. 1 \in DOMAIN beIn[b] /\ Head(beIn[b]) = beIn[b][1] /\ Head(beIn[b]) \in Packet
      BY ZenonT(60), <3>1, PopLemma
    <3>3. Head(beIn[b]) = Pkt("CLOSE_RSP", NoDial, c)
      BY ZenonT(60), <2>5, <3>1, <3>2 DEF Packet, Pkt
    <3>4. \E j \in DOMAIN beIn[b] : 1 < j /\ beIn[b][j] = Pkt("DIAL_RSP", d, c)
      BY ZenonT(60), <1>1, <1>2, <3>2, <3>3 DEF OrderInv
    <3>5. Waiting(b, "DIAL_RSP", d, c)
      BY Zenon, <3>4 DEF Waiting
    <3>. QED  BY Zenon, <3>5, WaitingTracked
  <2>6. CASE BeCleanEstablished(x) /\ dialBackend[d] = x
    <3>1. bePC[b] = "cleanEstablished"
      BY Zenon, <1>3, <2>6 DEF BeCleanEstablished
    <3>2. beStream[b] \in {"eof", "broken"}
      BY Zenon, <3>1 DEF EndsInv, BeStageInv
    <3>. QED  BY Zenon, <1>2, <3>2
  <2>. QED  BY ZenonT(60), <1>4, <2>1, <2>2, <2>3, <2>4, <2>5, <2>6 DEF EntryStep
<1>7. ASSUME OtherStep PROVE Tracked(b, c, d)'
  BY Zenon, <1>4, <1>7, OtherFrame DEF OthersKeep
<1>. QED  BY ZenonT(60), <1>5, <1>6, <1>7, NextSteps

(* The server keeps track of every connection of a connected agent. *)
LEMMA TrackedStep ==
  ASSUME Inv, Inv', EndsInv, GivenInv, TrackedInv, OrderInv, OneConnPerAgent, [Next]_vars
  PROVE  TrackedInv'
<1>1. Types
  BY Zenon DEF Inv
<1>2. SUFFICES ASSUME NEW b \in Backend, NEW c \in ConnID, remote'[b][c] # NoDial
               PROVE  /\ beConn'[b] # "none"
                      /\ beStream'[b] = "open" => Tracked(b, c, remote[b][c])'
  BY Zenon DEF TrackedInv
<1>3. remote[b] \in [ConnID -> Dial \cup {NoDial}] /\ beIn[b] \in Seq(Packet)
  BY Zenon, <1>1 DEF Types
<1>4. CASE remote'[b][c] = remote[b][c]
  <2>1. beConn'[b] # "none"
    BY Zenon, <1>1, <1>2, <1>4, ConnStays DEF TrackedInv
  <2>2. ASSUME beStream'[b] = "open" PROVE Tracked(b, c, remote[b][c])'
    <3>0. PICK d \in Dial : remote[b][c] = d /\ remote'[b][c] = d /\ d # NoDial
      BY Zenon, <1>2, <1>3, <1>4
    <3>1. remote[b][c] = d /\ d # NoDial /\ remote[b][c] # NoDial
      BY Zenon, <3>0
    <3>2. beStream[b] = "open"
      BY Zenon, <2>2, <3>1, OpenBefore
    <3>3. Tracked(b, c, d)
      BY Zenon, <3>1, <3>2 DEF TrackedInv
    <3>4. CASE Closing(b, c)
      <4>1. Closing(b, c)'
        BY ZenonT(60), <1>2, <2>2, <3>1, <3>4, ClosingStays
      <4>. QED  BY Zenon, <4>1 DEF Tracked
    <3> SUFFICES ASSUME ~Closing(b, c) PROVE Tracked(b, c, d)'
      BY Zenon, <3>0, <3>4 DEF Tracked
    <3>5. CASE Waiting(b, "DIAL_RSP", d, c)
      BY ZenonT(60), <2>2, <3>1, <3>5, WaitingTracked
    <3>6. CASE bePC[b] \in {"establish", "unestablish"} /\ beDial[b] = d /\ connectID[d] = c
      BY ZenonT(60), <2>2, <3>1, <3>6, ClaimTracked
    <3>7. CASE established[AgentOf[b]][c] = d
      BY Zenon, <2>2, <3>1, <3>7, EntryTracked
    <3>. QED  BY ZenonT(60), <3>3, <3>5, <3>6, <3>7 DEF Tracked
  <2>. QED  BY Zenon, <2>1, <2>2
<1>5. ASSUME NEW d \in Dial, Dialed(b, d), c = nextConnID[b]
      PROVE  /\ beConn'[b] # "none"
             /\ beStream'[b] = "open" => Tracked(b, c, remote[b][c])'
  <2>1. beConn[b] # "none"
    BY Zenon, <1>5 DEF Dialed, AgentUp, EndsInv, BeStageInv
  <2>2. remote'[b][c] = d
    BY Zenon, <1>3, <1>5 DEF Dialed
  <2>3. beIn'[b] = Append(beIn[b], Pkt("DIAL_RSP", d, c))
    BY ZenonT(60), <1>5 DEF Dialed
  <2>4. /\ Len(beIn[b]) + 1 \in DOMAIN beIn'[b]
        /\ beIn'[b][Len(beIn[b]) + 1] = Pkt("DIAL_RSP", d, c)
    BY SMTT(60), <1>3, <2>3
  <2>5. Waiting(b, "DIAL_RSP", remote[b][c], c)'
    BY Zenon, <2>2, <2>4 DEF Waiting
  <2>. QED  BY Zenon, <1>1, <2>1, <2>5, ConnStays DEF Tracked
<1>6. ASSUME remote'[b][c] # remote[b][c]
      PROVE  \E d \in Dial : Dialed(b, d) /\ c = nextConnID[b]
  <2>1. ASSUME NEW d \in Dial, Dialed(b, d) PROVE c = nextConnID[b]
    BY Zenon, <1>3, <1>6, <2>1 DEF Dialed
  <2>. QED  BY ZenonT(60), <1>1, <1>2, <1>6, <2>1, ConnMoves DEF Cut, Sends
<1>. QED  BY Zenon, <1>4, <1>5, <1>6

(* The order in which an agent gives and closes connection IDs stays. *)
LEMMA OrderStep ==
  ASSUME Inv, Inv', EndsInv, TrackedInv, OrderInv, [Next]_vars
  PROVE  OrderInv'
<1>1. Types
  BY Zenon DEF Inv
<1>2. SUFFICES ASSUME NEW b \in Backend, NEW c \in ConnID, remote'[b][c] # NoDial,
                      beStream'[b] = "open", NEW i \in DOMAIN beIn'[b],
                      beIn'[b][i] = Pkt("CLOSE_RSP", NoDial, c)
               PROVE  \E j \in DOMAIN beIn'[b] :
                        i < j /\ beIn'[b][j] = Pkt("DIAL_RSP", remote'[b][c], c)
  BY Zenon DEF OrderInv
<1> DEFINE Behind == \E j \in DOMAIN beIn'[b] :
                       i < j /\ beIn'[b][j] = Pkt("DIAL_RSP", remote'[b][c], c)
<1>3. remote[b] \in [ConnID -> Dial \cup {NoDial}] /\ beIn[b] \in Seq(Packet)
  BY Zenon, <1>1 DEF Types
<1>4. ASSUME remote'[b][c] = remote[b][c], NEW k \in DOMAIN beIn[b],
             beIn[b][k] = Pkt("CLOSE_RSP", NoDial, c)
      PROVE  \E j \in DOMAIN beIn[b] :
               k < j /\ beIn[b][j] = Pkt("DIAL_RSP", remote'[b][c], c)
  <2>1. remote[b][c] # NoDial /\ beStream[b] = "open"
    BY Zenon, <1>2, <1>4, OpenBefore
  <2>. QED  BY Zenon, <1>4, <2>1 DEF OrderInv
<1>5. ASSUME NEW p \in Packet, beIn'[b] = Append(beIn[b], p),
             p # Pkt("CLOSE_RSP", NoDial, c)
      PROVE  i \in DOMAIN beIn[b] /\ beIn[b][i] = Pkt("CLOSE_RSP", NoDial, c)
  <2>1. i \in DOMAIN Append(beIn[b], p) /\ Append(beIn[b], p)[i] = Pkt("CLOSE_RSP", NoDial, c)
    BY Zenon, <1>2, <1>5
  <2>2. \/ i \in DOMAIN beIn[b] /\ Append(beIn[b], p)[i] = beIn[b][i]
        \/ Append(beIn[b], p)[i] = p
    BY ZenonT(60), <1>3, <2>1, PushLemma
  <2>. QED  BY Zenon, <1>5, <2>1, <2>2
<1>6. ASSUME NEW p \in Packet, beIn'[b] = Append(beIn[b], p), NEW j \in DOMAIN beIn[b]
      PROVE  j \in DOMAIN beIn'[b] /\ beIn'[b][j] = beIn[b][j]
  BY <1>3, <1>6
<1>7. ASSUME NEW p \in Packet, beIn'[b] = Append(beIn[b], p),
             p # Pkt("CLOSE_RSP", NoDial, c), remote'[b][c] = remote[b][c]
      PROVE  Behind
  <2>1. PICK j \in DOMAIN beIn[b] :
               i < j /\ beIn[b][j] = Pkt("DIAL_RSP", remote'[b][c], c)
    BY Zenon, <1>4, <1>5, <1>7
  <2>. QED  BY Zenon, <1>6, <1>7, <2>1
<1>8. ASSUME NEW p \in Packet, Sends(b, p) PROVE Behind
  BY Zenon, <1>2, <1>7, <1>8 DEF Sends
<1>9. ASSUME NEW d \in Dial, Dialed(b, d) PROVE Behind
  <2> DEFINE r == Pkt("DIAL_RSP", d, nextConnID[b])
  <2>0. r.type = "DIAL_RSP" /\ Pkt("CLOSE_RSP", NoDial, c).type = "CLOSE_RSP"
    BY SMTT(60), PktLemma
  <2>1. r \in Packet /\ r # Pkt("CLOSE_RSP", NoDial, c)
    <3>1. nextConnID[b] \in ConnID
      BY Zenon, <1>9 DEF Dialed
    <3>2. r \in Packet
      BY Zenon, <3>1, PktLemma
    <3>. QED  BY <2>0, <3>2
  <2>2. beIn'[b] = Append(beIn[b], r)
    BY Zenon, <1>9 DEF Dialed
  <2>3. CASE c = nextConnID[b]
    <3>1. remote'[b][c] = d
      BY Zenon, <1>3, <1>9, <2>3 DEF Dialed
    <3>2. i \in DOMAIN beIn[b]
      BY ZenonT(60), <1>5, <2>1, <2>2
    <3>3. /\ Len(beIn[b]) + 1 \in DOMAIN beIn'[b] /\ i < Len(beIn[b]) + 1
          /\ beIn'[b][Len(beIn[b]) + 1] = r
      BY SMTT(60), <1>3, <2>2, <3>2
    <3>. QED  BY Zenon, <2>3, <3>1, <3>3
  <2>4. CASE c # nextConnID[b]
    <3>1. remote'[b][c] = remote[b][c]
      BY Zenon, <1>3, <1>9, <2>4 DEF Dialed
    <3>. QED  BY Zenon, <1>7, <2>1, <2>2, <3>1
  <2>. QED  BY ZenonT(60), <2>3, <2>4
<1>10. ASSUME remote'[b] = remote[b], beIn'[b] = beIn[b] PROVE Behind
  BY Zenon, <1>2, <1>4, <1>10
<1>11. ASSUME remote'[b] = remote[b], beIn[b] # <<>>, beIn'[b] = Tail(beIn[b]) PROVE Behind
  <2>1. /\ i \in DOMAIN Tail(beIn[b])
        /\ Tail(beIn[b])[i] = Pkt("CLOSE_RSP", NoDial, c)
    BY Zenon, <1>2, <1>11
  <2>2. i + 1 \in DOMAIN beIn[b] /\ beIn[b][i + 1] = Pkt("CLOSE_RSP", NoDial, c)
    BY Zenon, <1>3, <1>11, <2>1, PopLemma
  <2>3. PICK j \in DOMAIN beIn[b] :
               i + 1 < j /\ beIn[b][j] = Pkt("DIAL_RSP", remote'[b][c], c)
    BY ZenonT(60), <1>4, <1>11, <2>2
  <2>4. j - 1 \in DOMAIN Tail(beIn[b]) /\ Tail(beIn[b])[j - 1] = beIn[b][j] /\ i < j - 1
    BY ZenonT(60), <1>3, <1>11, <2>1, <2>3, TailLemma
  <2>. QED  BY Zenon, <1>11, <2>3, <2>4
<1>. QED  BY ZenonT(60), <1>1, <1>2, <1>8, <1>9, <1>10, <1>11, ConnMoves DEF Cut

(* Every step keeps what holds of the connections of the agents. *)
LEMMA RemoteStep ==
  ASSUME Inv, Inv', EndsInv, RemoteInv, OneConnPerAgent, [Next]_vars
  PROVE  RemoteInv'
  BY Zenon, GivenStep, ForwardStep, TrackedStep, OrderStep, SilentStep DEF RemoteInv

(* No agent holds a connection at the start. *)
LEMMA InitRemote == Init => RemoteInv
<1> SUFFICES ASSUME Init PROVE RemoteInv
  BY Zenon
<1>1. /\ \A d \in Dial : d # NoDial /\ FrontendOf[d] \in Frontend
      /\ \A c \in ConnID : c # 0
  BY ConstantsAssumption DEF ConnID
<1>2. /\ \A b \in Backend, c \in ConnID : remote[b][c] = NoDial
      /\ \A b \in Backend : beIn[b] = <<>> /\ bePC[b] = "recv"
      /\ \A d \in Dial : connectID[d] = 0 /\ answers[d] = <<>>
  BY Zenon DEF Init
<1>3. \A b \in Backend : DOMAIN beIn[b] = {}
  BY <1>2
<1>4. GivenInv
  BY ZenonT(60), <1>1, <1>2, <1>3 DEF GivenInv, Has, Waiting
<1>5. ForwardInv /\ TrackedInv /\ OrderInv
  BY Zenon, <1>2 DEF ForwardInv, TrackedInv, OrderInv
<1>6. NoSilentClose
  BY Zenon, <1>2, OkLemma DEF NoSilentClose
<1>. QED  BY Zenon, <1>4, <1>5, <1>6 DEF RemoteInv

=============================================================================
