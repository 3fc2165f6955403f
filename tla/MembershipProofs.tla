-------------------------- MODULE MembershipProofs --------------------------
(* Theorems about module Membership: each of its four parts has an inductive *)
(* invariant of its own, for any servers, collectors, agents and dials.      *)
EXTENDS Membership, FiniteSetTheorems, TLAPS

-----------------------------------------------------------------------------
(* The agent's set of clients *)

(* The types that the argument needs.                                       *)
SetTypes ==
  /\ clients \in [Server -> Set!Client \cup {Set!NoClient}]
  /\ sync \in {"connect", "dial", "add", "sleep", "over"}
  /\ new \in Set!Client \cup {Set!NoClient} /\ serverID \in [Set!Client -> Server]
  /\ link \in [Set!Client -> {"none", "up", "failed"}] /\ stops \in [Set!Client -> 0..1]

(* The set knows a client that is registered for its server or being added. *)
Known(c) == clients[serverID[c]] = c \/ (c = new /\ sync = "add")

(* A client is registered for its own server only, and one that is being    *)
(* added is not registered yet.                                             *)
OwnServer ==
  /\ \A s \in Server : clients[s] # Set!NoClient => serverID[clients[s]] = s
  /\ sync = "add" => new \in Set!Client /\ clients[serverID[new]] # new

(* The clients that the set knows are those that exist and are open; a      *)
(* number that names no client has been closed by nobody.                   *)
KnownIsOpen == \A c \in Set!Client :
  /\ Known(c) <=> link[c] # "none" /\ stops[c] = 0
  /\ link[c] = "none" => stops[c] = 0

SetInv == SetTypes /\ OwnServer /\ KnownIsOpen

(* A client set starts without clients, so the invariant holds.             *)
LEMMA SetInit == Set!Init => SetInv
<1>. SUFFICES ASSUME Set!Init  PROVE SetInv
  OBVIOUS
<1>1. SetTypes
  <2>1. (CHOOSE s \in Server : TRUE) \in Server
    BY MembershipAssumption
  <2>. QED  BY <2>1 DEF Set!Init, SetTypes
<1>2. \A c \in Set!Client : c # Set!NoClient
  BY MembershipAssumption DEF Set!Client, Set!NoClient
<1>. QED  BY <1>1, <1>2 DEF Set!Init, SetInv, SetTypes, OwnServer, KnownIsOpen, Known

(* The inductive step, one action after the other.                          *)
LEMMA SetNext == SetInv /\ [Set!Next]_Set!vars => SetInv'
<1>. SUFFICES ASSUME SetInv, [Set!Next]_Set!vars  PROVE SetInv'
  OBVIOUS
<1>. USE DEF SetInv
<1>0. \A c \in Set!Client : c # Set!NoClient
  BY MembershipAssumption DEF Set!NoClient, Set!Client
<1>1. CASE Set!Connect \/ Set!DialFails
  BY <1>1 DEF Set!Connect, Set!DialFails, Set!ConnectOnly, SetTypes, OwnServer, KnownIsOpen, Known
<1>3. CASE Set!AddClient
  <2>1. CASE clients[serverID[new]] # Set!NoClient
    <3>1. SetTypes'
      BY <1>3, <2>1 DEF Set!AddClient, Set!Close, SetTypes, OwnServer, KnownIsOpen, Known
    <3>2. OwnServer'
      BY <1>3, <2>1 DEF Set!AddClient, SetTypes, OwnServer
    <3>3. KnownIsOpen'
      BY <1>3, <2>1 DEF Set!AddClient, Set!Close, SetTypes, OwnServer, KnownIsOpen, Known
    <3>. QED  BY Zenon, <3>1, <3>2, <3>3
  <2>2. CASE clients[serverID[new]] = Set!NoClient
    <3>1. SetTypes'
      BY <1>3, <2>2 DEF Set!AddClient, SetTypes, OwnServer
    <3>2. OwnServer'
      BY <1>3, <2>2 DEF Set!AddClient, SetTypes, OwnServer
    <3>3. KnownIsOpen'
      BY <1>0, <1>3, <2>2 DEF Set!AddClient, SetTypes, OwnServer, KnownIsOpen, Known
    <3>. QED  BY Zenon, <3>1, <3>2, <3>3
  <2>. QED  BY <2>1, <2>2
<1>4. CASE Set!Wake
  <2>1. CASE stopped
    <3>1. \A c \in Set!Client : c \in {clients[s] : s \in Set!Registered} <=> clients[serverID[c]] = c
      BY <1>0 DEF Set!Registered, OwnServer, SetTypes
    <3>2. SetTypes'
      BY <1>4, <2>1, <3>1 DEF Set!Wake, Set!Close, SetTypes, KnownIsOpen, Known
    <3>3. KnownIsOpen'
      BY <1>0, <1>4, <2>1, <3>1 DEF Set!Wake, Set!Close, SetTypes, KnownIsOpen, Known
    <3>. QED  BY <1>4, <2>1, <3>2, <3>3 DEF Set!Wake, OwnServer
  <2>2. CASE ~stopped
    BY <1>4, <2>2 DEF Set!Wake, SetTypes, OwnServer, KnownIsOpen, Known
  <2>. QED  BY <2>1, <2>2
<1>5. CASE Set!Signal \/ Set!LeaseSeen
  BY <1>5 DEF Set!Signal, Set!LeaseSeen, Set!EnvOnly, Set!loop, SetTypes, OwnServer, KnownIsOpen, Known
<1>6. ASSUME NEW s \in Server, Set!Dial(s)  PROVE SetInv'
  <2>1. new' \in Set!Client /\ link[new'] = "none" /\ stops[new'] = 0
    BY <1>6 DEF Set!Dial, Set!Free, KnownIsOpen
  <2>2. \A t \in Server : clients[t] # new'
    BY <1>0, <2>1 DEF OwnServer, KnownIsOpen, Known
  <2>3. SetTypes'
    BY <1>6, <2>1 DEF Set!Dial, SetTypes
  <2>4. OwnServer'
    BY <1>6, <2>1, <2>2 DEF Set!Dial, SetTypes, OwnServer
  <2>5. KnownIsOpen'
    BY Zenon, <1>0, <1>6, <2>1, <2>2 DEF Set!Dial, SetTypes, OwnServer, KnownIsOpen, Known
  <2>. QED  BY <2>3, <2>4, <2>5
<1>7. ASSUME NEW s \in Server, Set!ServerStops(s) \/ Set!ServerStarts(s)  PROVE SetInv'
  <2>1. SetTypes'
    BY <1>7 DEF Set!ServerStops, Set!ServerStarts, Set!EnvOnly, Set!loop, SetTypes
  <2>2. \A c \in Set!Client : link'[c] = "none" <=> link[c] = "none"
    BY <1>7 DEF Set!ServerStops, Set!ServerStarts
  <2>. QED  BY <1>7, <2>1, <2>2 DEF Set!ServerStops, Set!ServerStarts, Set!EnvOnly, Set!loop, OwnServer,
                                    KnownIsOpen, Known
<1>8. ASSUME NEW c \in Set!Client, Set!removeClient(c)  PROVE SetInv'
  <2>1. SetTypes'
    BY <1>8 DEF Set!removeClient, Set!Close, Set!loop, SetTypes, KnownIsOpen, Known
  <2>2. OwnServer'
    BY <1>0, <1>8 DEF Set!removeClient, Set!loop, SetTypes, OwnServer
  <2>3. KnownIsOpen'
    BY <1>0, <1>8 DEF Set!removeClient, Set!Close, Set!loop, SetTypes, OwnServer, KnownIsOpen, Known
  <2>. QED  BY <2>1, <2>2, <2>3
<1>9. ASSUME NEW c \in Set!Client, Set!LinkFails(c)  PROVE SetInv'
  <2>1. SetTypes' /\ \A d \in Set!Client : link'[d] = "none" <=> link[d] = "none"
    BY <1>9 DEF Set!LinkFails, Set!EnvOnly, Set!loop, SetTypes
  <2>. QED  BY <1>9, <2>1 DEF Set!LinkFails, Set!EnvOnly, Set!loop, OwnServer, KnownIsOpen, Known
<1>10. ASSUME NEW c \in Set!Client, Set!Forget(c)  PROVE SetInv'
  <2>1. SetTypes'
    BY <1>10 DEF Set!Forget, Set!loop, SetTypes
  <2>2. OwnServer' /\ \A d \in Set!Client : Known(d)' <=> Known(d)
    BY <1>10 DEF Set!Forget, Set!loop, OwnServer, Known
  <2>3. KnownIsOpen'
    BY <1>10, <2>2 DEF Set!Forget, SetTypes, KnownIsOpen
  <2>. QED  BY <2>1, <2>2, <2>3
<1>11. CASE UNCHANGED Set!vars
  BY <1>11 DEF Set!vars, Set!state, Set!loop, SetTypes, OwnServer, KnownIsOpen, Known
<1>. QED  BY ZenonT(60), <1>1, <1>3, <1>4, <1>5, <1>6, <1>7, <1>8, <1>9, <1>10, <1>11 DEF Set!Next

(* No connection is lost track of, and none is closed while it is           *)
(* registered.                                                              *)
LEMMA SetIsSound == SetInv => Set!TypeOK /\ Set!ClientsAreAccountedFor
BY Zenon DEF SetInv, SetTypes, KnownIsOpen, Known, Set!TypeOK, Set!ClientsAreAccountedFor, Set!Free

(* A client leaves the set only when its own stream failed, or at shutdown. *)
LEMMA SetRemoves == SetInv /\ [Set!Next]_Set!vars => Set!RemovesOwn
<1>. SUFFICES ASSUME SetInv, [Set!Next]_Set!vars, NEW s \in Set!Registered, clients'[s] # clients[s]
              PROVE  link[clients[s]] = "failed" \/ sync' = "over"
  BY DEF Set!RemovesOwn
<1>1. CASE Set!AddClient
  BY <1>1 DEF SetInv, SetTypes, Set!AddClient, Set!Registered
<1>2. CASE Set!Wake
  BY <1>2 DEF Set!Wake
<1>3. ASSUME NEW c \in Set!Client, Set!removeClient(c)  PROVE link[clients[s]] = "failed"
  BY <1>3 DEF SetInv, SetTypes, Set!removeClient, Set!Registered
<1>4. ASSUME UNCHANGED clients  PROVE FALSE
  BY <1>4
<1>5. CASE Set!Connect \/ Set!DialFails \/ Set!Signal \/ Set!LeaseSeen
  BY <1>4, <1>5 DEF Set!Connect, Set!DialFails, Set!ConnectOnly, Set!Signal, Set!LeaseSeen, Set!EnvOnly
<1>6. ASSUME NEW t \in Server, Set!Dial(t) \/ Set!ServerStops(t) \/ Set!ServerStarts(t)
      PROVE  FALSE
  BY <1>4, <1>6 DEF Set!Dial, Set!ServerStops, Set!ServerStarts, Set!EnvOnly
<1>7. ASSUME NEW c \in Set!Client, Set!LinkFails(c) \/ Set!Forget(c)  PROVE FALSE
  BY <1>4, <1>7 DEF Set!LinkFails, Set!Forget, Set!EnvOnly
<1>8. ASSUME UNCHANGED Set!vars  PROVE FALSE
  BY <1>4, <1>8 DEF Set!vars, Set!state
<1>. QED  BY ZenonT(60), <1>1, <1>2, <1>3, <1>5, <1>6, <1>7, <1>8 DEF Set!Next

-----------------------------------------------------------------------------
(* The leases of the servers *)

(* The types that the argument needs.                                      *)
Ages ==
  /\ proc \in [Server -> {"run", "stopping", "down"}]
  /\ leases \in [Server -> Leases!Age \cup {Leases!NoLease}]
  /\ listed \in [Server -> [Server -> Leases!Age \cup {Leases!NoLease}]]
  /\ written \in [Server -> SUBSET Server] /\ deleting \in [Server -> SUBSET Server]

(* What a collector knows of a lease that was not written since it listed  *)
(* it is still true: the listed lease is as old as the stored one, and the *)
(* one that it is about to delete, which it has taken from its list, is    *)
(* expired.                                                                *)
Fresh(g, s) ==
  /\ s \in deleting[g] => listed[g][s] = Leases!NoLease
  /\ s \notin written[g] =>
       /\ listed[g][s] # Leases!NoLease => leases[s] = listed[g][s]
       /\ s \in deleting[g] => leases[s] = LeaseDuration

LeasesInv == Ages /\ \A g, s \in Server : Fresh(g, s)

(* The agent's side: the informer's copy, and the count.                   *)
SeenInv ==
  /\ seen \in [Server -> Leases!Age \cup {Leases!NoLease}]
  /\ fallbackCount \in 1..Cardinality(Server)

(* The constants of the leases.                                            *)
LEMMA LeaseConstants == LeaseDuration \in Nat /\ Collector \subseteq Server
BY MembershipAssumption

(* A write reaches the collectors that deal with the lease, so the others  *)
(* and the other leases are as before.                                     *)
LEMMA WriteKeepsFresh ==
  ASSUME LeasesInv, NEW s \in Server, Leases!Write(s), UNCHANGED listed,
         deleting' \in [Server -> SUBSET Server],
         \A g \in Server : deleting'[g] \subseteq deleting[g],
         \A t \in Server \ {s} : leases'[t] = leases[t]
  PROVE  written' \in [Server -> SUBSET Server] /\ \A g, t \in Server : Fresh(g, t)'
<1>1. written' \in [Server -> SUBSET Server]
  BY DEF LeasesInv, Ages, Leases!Write
<1>2. ASSUME NEW g \in Server, NEW t \in Server  PROVE Fresh(g, t)'
  <2>1. CASE t = s
    BY Zenon, <2>1 DEF LeasesInv, Ages, Leases!Write, Leases!Listing, Fresh
  <2>2. CASE t # s
    BY <2>2 DEF LeasesInv, Ages, Leases!Write, Fresh
  <2>. QED  BY Zenon, <2>1, <2>2
<1>. QED  BY <1>1, <1>2

(* No lease is held or listed at first.                                     *)
LEMMA LeasesInit == Leases!Init => LeasesInv
BY LeaseConstants DEF Leases!Init, LeasesInv, Ages, Fresh, Leases!NothingListed, Leases!NoLease

(* The inductive step, one action after the other.                         *)
LEMMA LeasesNext == LeasesInv /\ [Leases!Next]_Leases!vars => LeasesInv'
<1>. SUFFICES ASSUME LeasesInv, [Leases!Next]_Leases!vars  PROVE LeasesInv'
  OBVIOUS
<1>. USE LeaseConstants DEF LeasesInv
<1>1. ASSUME NEW s \in Server, Leases!Run(s) \/ Leases!Watch(s)  PROVE LeasesInv'
  BY SMTT(60), <1>1 DEF Leases!Run, Leases!Watch, Leases!collector, Leases!agent, Ages, Fresh
<1>2. ASSUME NEW s \in Server, Leases!Renew(s)  PROVE LeasesInv'
  <2>1. leases' \in [Server -> Leases!Age \cup {Leases!NoLease}] /\ \A t \in Server \ {s} : leases'[t] = leases[t]
    BY <1>2 DEF Leases!Renew, Ages, Leases!Age
  <2>. QED  BY Zenon, <1>2, <2>1, WriteKeepsFresh DEF Leases!Renew, Ages
<1>3. ASSUME NEW s \in Server, Leases!Stop(s)  PROVE LeasesInv'
  <2>1. CASE leases' = [leases EXCEPT ![s] = Leases!NoLease] /\ Leases!Write(s)
    <3>1. leases' \in [Server -> Leases!Age \cup {Leases!NoLease}]
          /\ \A t \in Server \ {s} : leases'[t] = leases[t]
      BY Zenon, <2>1 DEF Ages
    <3>. QED  BY Zenon, <1>3, <2>1, <3>1, WriteKeepsFresh DEF Leases!Stop, Ages
  <2>2. CASE UNCHANGED <<leases, written>>
    BY Zenon, <1>3, <2>2 DEF Leases!Stop, Ages, Fresh
  <2>. QED  BY Zenon, <1>3, <2>1, <2>2 DEF Leases!Stop
<1>4. ASSUME NEW s \in Server, Leases!Exit(s)  PROVE LeasesInv'
  BY Zenon, <1>4 DEF Leases!Exit, Ages, Fresh, Leases!NothingListed
<1>5. ASSUME NEW g \in Server, Leases!List(g)  PROVE LeasesInv'
  BY <1>5 DEF Leases!List, Leases!Idle, Ages, Fresh
<1>6. ASSUME NEW g \in Server, NEW s \in Server, Leases!Check(g, s)  PROVE LeasesInv'
  <2>1. Ages'
    BY Zenon, <1>6 DEF Leases!Check, Leases!Done, Ages
  <2>2. ASSUME NEW h \in Server, NEW t \in Server  PROVE Fresh(h, t)'
    <3>1. CASE Leases!IsLeaseValid(listed[g][s])
      BY Zenon, <1>6, <3>1 DEF Leases!Check, Leases!Done, Ages, Fresh
    <3>2. CASE ~Leases!IsLeaseValid(listed[g][s])
      <4>1. listed[g][s] = LeaseDuration
        <5>1. listed[g][s] \in Leases!Age
          BY <1>6 DEF Leases!Check, Ages
        <5>2. ~(listed[g][s] < LeaseDuration)
          BY Zenon, <1>6, <3>2 DEF Leases!Check, Leases!IsLeaseValid
        <5>. QED  BY <5>1, <5>2 DEF Leases!Age
      <4>2. CASE h = g /\ t = s
        <5>1. listed'[g][s] = Leases!NoLease /\ UNCHANGED <<leases, written>>
          BY Zenon, <1>6, <3>2 DEF Leases!Check, Ages
        <5>2. s \notin written[g] => leases[s] = LeaseDuration
          BY Zenon, <1>6, <4>1 DEF Leases!Check, Fresh
        <5>. QED  BY Zenon, <4>2, <5>1, <5>2 DEF Fresh
      <4>3. CASE h # g \/ t # s
        BY Zenon, <1>6, <3>2, <4>3 DEF Leases!Check, Ages, Fresh
      <4>. QED  BY Zenon, <4>2, <4>3
    <3>. QED  BY Zenon, <3>1, <3>2
  <2>. QED  BY Zenon, <2>1, <2>2
<1>7. ASSUME NEW g \in Server, Leases!Delete(g)  PROVE LeasesInv'
  <2>1. PICK s \in deleting[g] :
          /\ deleting' = [deleting EXCEPT ![g] = {}]
          /\ \/ s \notin written[g] /\ leases' = [leases EXCEPT ![s] = Leases!NoLease] /\ Leases!Write(s)
             \/ s \in written[g] /\ written' = Leases!Done(g, s) /\ UNCHANGED leases
          /\ UNCHANGED <<proc, listed, Leases!agent>>
    BY Zenon, <1>7 DEF Leases!Delete
  <2>2. s \in Server /\ deleting' \in [Server -> SUBSET Server]
        /\ \A h \in Server : deleting'[h] \subseteq deleting[h]
    BY Zenon, <2>1 DEF Ages
  <2>3. CASE leases' = [leases EXCEPT ![s] = Leases!NoLease] /\ Leases!Write(s)
    <3>1. leases' \in [Server -> Leases!Age \cup {Leases!NoLease}]
          /\ \A t \in Server \ {s} : leases'[t] = leases[t]
      BY Zenon, <2>3 DEF Ages
    <3>. QED  BY Zenon, <2>1, <2>2, <2>3, <3>1, WriteKeepsFresh DEF Ages
  <2>4. CASE written' = Leases!Done(g, s) /\ UNCHANGED leases
    BY <2>1, <2>2, <2>4 DEF Leases!Done, Ages, Fresh
  <2>. QED  BY Zenon, <2>1, <2>3, <2>4
<1>8. CASE Leases!Count
  BY Zenon, <1>8 DEF Leases!Count, Leases!collector, Ages, Fresh
<1>9. CASE Leases!Tick
  <2>1. Ages'
    <3>1. ASSUME NEW age \in Leases!Age \cup {Leases!NoLease}  PROVE Leases!Older(age) \in Leases!Age \cup {Leases!NoLease}
      BY DEF Leases!Older, Leases!Age, Leases!NoLease
    <3>. QED  BY Zenon, <1>9, <3>1 DEF Leases!Tick, Leases!OlderAll, Ages
  <2>2. ASSUME NEW g \in Server, NEW s \in Server  PROVE Fresh(g, s)'
    <3>1. leases'[s] = Leases!Older(leases[s]) /\ listed'[g][s] = Leases!Older(listed[g][s])
          /\ UNCHANGED <<written, deleting>>
      BY <1>9 DEF Leases!Tick, Leases!OlderAll, Ages
    <3>2. Leases!Older(LeaseDuration) = LeaseDuration /\ Leases!Older(Leases!NoLease) = Leases!NoLease
      BY DEF Leases!Older
    <3>3. listed[g][s] = Leases!NoLease <=> Leases!Older(listed[g][s]) = Leases!NoLease
      BY DEF Leases!Older, Ages, Leases!Age, Leases!NoLease
    <3>. QED  BY Zenon, <3>1, <3>2, <3>3 DEF Fresh
  <2>. QED  BY Zenon, <2>1, <2>2
<1>10. CASE UNCHANGED Leases!vars
  BY Zenon, <1>10 DEF Leases!vars, Leases!collector, Leases!agent, Ages, Fresh
<1>. QED  BY ZenonT(60), <1>1, <1>2, <1>3, <1>4, <1>5, <1>6, <1>7, <1>8, <1>9, <1>10 DEF Leases!Next

(* The collectors delete no lease that is valid at that moment: the        *)
(* precondition of the deletion fails if the lease was written since the   *)
(* collector listed it, and otherwise it is still expired.                 *)
LEMMA LeasesCull == LeasesInv /\ [Leases!Next]_Leases!vars => Leases!CullsExpired
<1>. SUFFICES ASSUME LeasesInv, [Leases!Next]_Leases!vars, NEW s \in Server,
                     leases[s] \in 0..(LeaseDuration - 1),
                     leases'[s] = Leases!NoLease
              PROVE  proc[s] = "run" /\ proc'[s] = "stopping"
  BY Zenon DEF Leases!CullsExpired
<1>. USE LeaseConstants DEF LeasesInv
<1>1. ASSUME NEW t \in Server, Leases!Stop(t)  PROVE proc[s] = "run" /\ proc'[s] = "stopping"
  BY <1>1 DEF Leases!Stop, Ages, Leases!NoLease
<1>2. ASSUME NEW t \in Server, Leases!Renew(t)  PROVE FALSE
  BY <1>2 DEF Leases!Renew, Ages, Leases!NoLease
<1>3. ASSUME NEW g \in Server, Leases!Delete(g)  PROVE FALSE
  BY <1>3 DEF Leases!Delete, Ages, Fresh, Leases!NoLease
<1>4. ASSUME Leases!Tick  PROVE FALSE
  BY <1>4 DEF Leases!Tick, Leases!OlderAll, Leases!Older, Leases!NoLease
<1>5. ASSUME UNCHANGED leases  PROVE FALSE
  BY <1>5 DEF Leases!NoLease
<1>6. ASSUME NEW t \in Server, Leases!Run(t) \/ Leases!Exit(t) \/ Leases!Watch(t)  PROVE UNCHANGED leases
  BY Zenon, <1>6 DEF Leases!Run, Leases!Exit, Leases!Watch
<1>7. ASSUME NEW g \in Server, Leases!List(g) \/ \E t \in Server : Leases!Check(g, t)
      PROVE  UNCHANGED leases
  BY Zenon, <1>7 DEF Leases!List, Leases!Check
<1>8. ASSUME Leases!Count  PROVE UNCHANGED leases
  BY Zenon, <1>8 DEF Leases!Count
<1>9. ASSUME UNCHANGED Leases!vars  PROVE UNCHANGED leases
  BY <1>9 DEF Leases!vars
<1>. QED  BY ZenonT(60), <1>1, <1>2, <1>3, <1>4, <1>5, <1>6, <1>7, <1>8, <1>9 DEF Leases!Next

(* The instances of FiniteSets in the parts define what FiniteSets does.   *)
LEMMA SameCardinality ==
  \A S : Leases!Cardinality(S) = Cardinality(S) /\ Cost!Cardinality(S) = Cardinality(S)
BY Zenon DEF Leases!Cardinality, Cost!Cardinality, Cardinality

(* The count of some servers, at least 1, is not above that of all.        *)
LEMMA CountInRange ==
  ASSUME NEW S \in SUBSET Server
  PROVE  Leases!AtLeastOne(Cardinality(S)) \in 1..Cardinality(Server)
<1>1. Cardinality(S) \in Nat /\ Cardinality(Server) \in Nat
      /\ Cardinality(S) <= Cardinality(Server)
  BY Zenon, MembershipAssumption, FS_Subset, FS_CardinalityType
<1>2. Cardinality(Server) # 0
  BY Zenon, MembershipAssumption, FS_EmptySet
<1>. QED  BY <1>1, <1>2 DEF Leases!AtLeastOne

(* At first the count is 1.                                                *)
LEMMA SeenInit == Leases!Init => SeenInv
<1>1. Cardinality({}) = 0 /\ {} \in SUBSET Server
  BY FS_EmptySet
<1>2. 1 \in 1..Cardinality(Server)
  BY Zenon, <1>1, CountInRange DEF Leases!AtLeastOne
<1>. QED  BY <1>2 DEF Leases!Init, SeenInv, Leases!NothingListed

(* What the agent sees and counts keeps its type.                          *)
LEMMA SeenNext == LeasesInv /\ SeenInv /\ [Leases!Next]_Leases!vars => SeenInv'
<1>. SUFFICES ASSUME LeasesInv, SeenInv, [Leases!Next]_Leases!vars  PROVE SeenInv'
  OBVIOUS
<1>. USE LeaseConstants
<1>1. ASSUME NEW s \in Server, Leases!Watch(s)  PROVE SeenInv'
  BY <1>1 DEF Leases!Watch, LeasesInv, Ages, SeenInv
<1>2. CASE Leases!Count
  <2>1. {s \in Server : Leases!IsLeaseValid(seen[s])} \in SUBSET Server
    OBVIOUS
  <2>2. fallbackCount' \in 1..Cardinality(Server)
    BY ZenonT(60), <1>2, <2>1, CountInRange, SameCardinality DEF Leases!Count
  <2>. QED  BY <1>2, <2>2 DEF Leases!Count, SeenInv
<1>3. CASE Leases!Tick
  <2>1. ASSUME NEW age \in Leases!Age \cup {Leases!NoLease}
        PROVE  Leases!Older(age) \in Leases!Age \cup {Leases!NoLease}
    BY DEF Leases!Older, Leases!Age, Leases!NoLease
  <2>. QED  BY Zenon, <1>3, <2>1 DEF Leases!Tick, Leases!OlderAll, SeenInv
<1>4. CASE UNCHANGED Leases!agent
  BY Zenon, <1>4 DEF Leases!agent, SeenInv
<1>5. ASSUME NEW s \in Server, Leases!Run(s) \/ Leases!Renew(s) \/ Leases!Stop(s) \/ Leases!Exit(s)
      PROVE  UNCHANGED Leases!agent
  BY ZenonT(60), <1>5 DEF Leases!Run, Leases!Renew, Leases!Stop, Leases!Exit
<1>6. ASSUME NEW g \in Server,
             Leases!List(g) \/ Leases!Delete(g) \/ \E s \in Server : Leases!Check(g, s)
      PROVE  UNCHANGED Leases!agent
  BY <1>6 DEF Leases!List, Leases!Delete, Leases!Check
<1>7. ASSUME UNCHANGED Leases!vars  PROVE UNCHANGED Leases!agent
  BY <1>7 DEF Leases!vars
<1>. QED  BY ZenonT(60), <1>1, <1>2, <1>3, <1>4, <1>5, <1>6, <1>7 DEF Leases!Next

-----------------------------------------------------------------------------
(* A server's start and shutdown *)

(* The goroutines that have not ended are those the WaitGroup counts; they *)
(* start only in a graceful shutdown.                                      *)
Going == {s \in Servers : worker[s] = "go"}
CountInv ==
  /\ wg = Cardinality(Going)
  /\ main \in {"frontend", "agent", "admin", "wait", "frontendStop"} =>
       \A s \in Servers : worker[s] = "none"
  /\ main = "frontendStop" => ~graceful
  /\ shutdownComplete => \A s \in Servers : worker[s] = "done"

(* A server whose goroutine has ended is stopped, but for an HTTP server   *)
(* that gave up; a server that is stopped serves nothing.  The agent       *)
(* server is stopped when Run comes to the lease, and it comes there when  *)
(* all goroutines have ended or time is out.                               *)
StopInv ==
  /\ \A s \in Servers : worker[s] = "done" =>
       srv[s] = "stopped" \/ (timedOut /\ s # "agent")
  /\ \A s \in busy : srv[s] # "stopped"
  /\ main \in {"frontendStop", "lease", "return", "over"} => srv["agent"] = "stopped"
  /\ main \in {"lease", "return"} => timedOut \/ shutdownComplete

ShutdownInv == TypeOK /\ CountInv /\ StopInv

(* The four servers.                                                       *)
LEMMA FourServers ==
  /\ IsFiniteSet(Servers) /\ "agent" \in Servers
  /\ \A S \in SUBSET Servers : IsFiniteSet(S) /\ Cardinality(S) \in 0..Cardinality(Servers)
<1>1. IsFiniteSet(Servers) /\ "agent" \in Servers
  <2>1. Servers = {"frontend"} \cup {"agent"} \cup {"admin"} \cup {"health"}
    BY DEF Servers
  <2>2. \A x : IsFiniteSet({x})
    BY FS_Singleton
  <2>3. IsFiniteSet({"frontend"} \cup {"agent"})
    BY Zenon, <2>2, FS_Union
  <2>4. IsFiniteSet({"frontend"} \cup {"agent"} \cup {"admin"})
    BY Zenon, <2>2, <2>3, FS_Union
  <2>5. IsFiniteSet(Servers)
    BY Zenon, <2>1, <2>2, <2>4, FS_Union
  <2>. QED  BY <2>1, <2>5
<1>2. ASSUME NEW S \in SUBSET Servers
      PROVE  IsFiniteSet(S) /\ Cardinality(S) \in 0..Cardinality(Servers)
  <2>1. IsFiniteSet(S) /\ Cardinality(S) <= Cardinality(Servers)
    BY Zenon, <1>1, FS_Subset
  <2>2. Cardinality(S) \in Nat /\ Cardinality(Servers) \in Nat
    BY Zenon, <1>1, <2>1, FS_CardinalityType
  <2>. QED  BY <2>1, <2>2
<1>. QED  BY <1>1, <1>2

(* The WaitGroup's counter stays within its type.                          *)
LEMMA CountIsTyped == ASSUME CountInv PROVE wg \in 0..Cardinality(Servers)
<1>1. Going \in SUBSET Servers
  BY DEF Going
<1>. QED  BY <1>1, FourServers DEF CountInv

(* Nothing runs at first.                                                  *)
LEMMA ShutdownInit == Init => ShutdownInv
<1>. SUFFICES ASSUME Init  PROVE ShutdownInv
  OBVIOUS
<1>1. Going = {}
  BY DEF Init, Going
<1>2. CountInv
  BY <1>1, FS_EmptySet DEF Init, CountInv
<1>3. wg \in 0..Cardinality(Servers)
  BY Zenon, <1>2, CountIsTyped
<1>4. TypeOK
  <2>1. main \in {"frontend", "agent", "admin", "wait", "frontendStop", "select",
                  "lease", "return", "over", "failed"}
        /\ busy \subseteq Servers /\ signals \in 0..2
    BY DEF Init
  <2>2. srv \in [Servers -> {"none", "serving", "draining", "stopped"}]
        /\ worker \in [Servers -> {"none", "go", "done"}]
    BY DEF Init
  <2>3. /\ shutdownComplete \in BOOLEAN /\ timedOut \in BOOLEAN /\ lease \in BOOLEAN
        /\ tunnels \in BOOLEAN
    BY Zenon DEF Init
  <2>. QED  BY ZenonT(60), <1>3, <2>1, <2>2, <2>3 DEF TypeOK
<1>5. StopInv
  BY Zenon DEF Init, StopInv
<1>. QED  BY Zenon, <1>2, <1>4, <1>5 DEF ShutdownInv

(* The inductive step, one action after the other.                         *)
LEMMA ShutdownNext == ShutdownInv /\ [Next]_vars => ShutdownInv'
<1>. SUFFICES ASSUME ShutdownInv, [Next]_vars  PROVE ShutdownInv'
  OBVIOUS
<1>. USE DEF ShutdownInv
<1>0. ASSUME UNCHANGED worker  PROVE UNCHANGED Going
  BY <1>0 DEF Going
<1>13. tunnels' \in BOOLEAN
  BY Zenon DEF Next, Hijack, TunnelEnds, vars, TypeOK
<1>. USE <1>13
<1>1. CASE StartFails \/ runFrontendServer \/ runAgentServer \/ runAdminHealth
  <2>1. UNCHANGED <<options, busy, down, lease, signals>>
    BY Zenon, <1>1 DEF Next, StartFails, runFrontendServer, runAgentServer, runAdminHealth,
                StartOnly, Next, vars, options, state
  <2>2. main \in {"frontend", "agent", "admin"} /\ main' \in {"failed", "agent", "admin", "wait"}
    BY Zenon, <1>1 DEF StartFails, runFrontendServer, runAgentServer, runAdminHealth, Goto
  <2>3. srv' \in [Servers -> {"none", "serving", "draining", "stopped"}]
        /\ \A s \in Servers : srv'[s] = srv[s] \/ srv'[s] = "serving"
    BY <1>1 DEF StartFails, runFrontendServer, runAgentServer, runAdminHealth, TypeOK,
                StartOnly
  <2>4. UNCHANGED Going
    BY Zenon, <1>0, <2>1 DEF down
  <2>. QED  BY ZenonT(60), <2>1, <2>2, <2>3, <2>4 DEF TypeOK, CountInv, StopInv, down, options
<1>2. CASE Signal
  <2>1. UNCHANGED <<options, srv, busy, down, lease>> /\ signals' \in 0..2
        /\ (main' = "failed" \/ UNCHANGED main)
    BY <1>2 DEF Signal, TypeOK, Next, vars, options
  <2>2. UNCHANGED Going
    BY Zenon, <1>0, <2>1 DEF down
  <2>3. TypeOK'
    BY Zenon, <2>1 DEF TypeOK, down
  <2>4. CountInv'
    BY Zenon, <2>1, <2>2 DEF CountInv, down, options
  <2>5. StopInv'
    BY <2>1 DEF StopInv, down
  <2>. QED  BY ZenonT(60), <2>3, <2>4, <2>5
<1>3. CASE StopNow
  <2>1. UNCHANGED <<options, down, signals>> /\ main = "wait" /\ main' = "frontendStop"
        /\ ~graceful /\ ~graceful'
    BY <1>3 DEF StopNow, Goto, Next, vars, options
  <2>2. srv' \in [Servers -> {"none", "serving", "draining", "stopped"}]
        /\ srv'["agent"] = "stopped" /\ srv'["frontend"] = "draining"
    BY <1>3 DEF StopNow, Close, Servers, TypeOK
  <2>3. UNCHANGED Going
    BY Zenon, <1>0, <2>1 DEF down
  <2>4. busy' = busy \cap {"frontend"} /\ lease' = FALSE
    BY <1>3 DEF StopNow
  <2>5. TypeOK'
    BY Zenon, <2>1, <2>2, <2>4 DEF TypeOK, down
  <2>6. CountInv'
    BY Zenon, <2>1, <2>3 DEF CountInv, down
  <2>7. StopInv'
    BY Zenon, <2>1, <2>2, <2>4 DEF StopInv, CountInv, down
  <2>. QED  BY Zenon, <2>5, <2>6, <2>7
<1>4. CASE StopReturns
  <2>1. UNCHANGED <<options, busy, down, lease, signals>> /\ main = "frontendStop" /\ main' = "over"
        /\ "frontend" \notin busy
    BY <1>4 DEF StopReturns, Goto, Next, vars, options
  <2>2. srv' \in [Servers -> {"none", "serving", "draining", "stopped"}]
        /\ \A s \in Servers : s # "frontend" => srv'[s] = srv[s]
    BY Zenon, <1>4 DEF StopReturns, Close, TypeOK
  <2>. QED  BY ZenonT(60), <1>0, <2>1, <2>2, FourServers DEF TypeOK, CountInv, StopInv, down, options
<1>5. CASE Shutdown
  <2>1. UNCHANGED <<options, srv, ShutdownOnly>> /\ main = "wait" /\ main' = "select"
    BY Zenon, <1>5 DEF Shutdown, Goto, Next, vars, options
  <2>2. worker' = [s \in Servers |-> "go"] /\ wg' = Cardinality(Servers)
    BY <1>5 DEF Shutdown
  <2>3. Going' = Servers
    BY <2>2 DEF Going
  <2>4. ~shutdownComplete
    BY Zenon, <2>1, FourServers DEF CountInv
  <2>5. CountInv'
    BY Zenon, <2>1, <2>2, <2>3, <2>4 DEF CountInv, ShutdownOnly
  <2>6. wg' \in 0..Cardinality(Servers)
    BY Zenon, <2>2, FourServers
  <2>. QED  BY Zenon, <2>1, <2>2, <2>5, <2>6 DEF TypeOK, StopInv, ShutdownOnly
<1>6. ASSUME NEW s \in Servers, WorkerStarts(s)  PROVE ShutdownInv'
  <2>1. UNCHANGED <<options, main, worker, wg, ShutdownOnly>> /\ srv[s] = "serving"
        /\ srv' = [srv EXCEPT ![s] = "draining"]
    BY <1>6 DEF WorkerStarts, Next, vars, options
  <2>. QED  BY Zenon, <1>0, <2>1, FourServers DEF TypeOK, CountInv, StopInv, ShutdownOnly, options
<1>7. ASSUME NEW s \in Servers, WorkerEnds(s)  PROVE ShutdownInv'
  <2>1. UNCHANGED <<options, main, ShutdownOnly>> /\ worker[s] = "go"
        /\ worker' = [worker EXCEPT ![s] = "done"] /\ wg' = wg - 1
    BY Zenon, <1>7 DEF WorkerEnds, Next, vars, options
  <2>2. Going' = Going \ {s} /\ s \in Going
    BY Zenon, <2>1 DEF Going, TypeOK
  <2>3. wg' = Cardinality(Going')
    <3>1. IsFiniteSet(Going)
      BY FourServers DEF Going
    <3>2. Cardinality(Going') = Cardinality(Going) - 1
      BY ZenonT(60), <2>2, <3>1, FS_RemoveElement
    <3>. QED  BY Zenon, <2>1, <3>2 DEF CountInv
  <2>4. CountInv'
    BY <2>1, <2>3 DEF CountInv, TypeOK, ShutdownOnly, options
  <2>5. wg' \in 0..Cardinality(Servers)
    <3>1. Going' \in SUBSET Servers
      BY Zenon DEF Going
    <3>. QED  BY <2>3, <3>1, FourServers
  <2>6. srv' \in [Servers -> {"none", "serving", "draining", "stopped"}]
        /\ \A t \in Servers : t # s => srv'[t] = srv[t]
    BY Zenon, <1>7 DEF WorkerEnds, Close, TypeOK
  <2>7. \/ s \notin busy /\ srv'[s] = "stopped"
        \/ timedOut /\ s # "agent" /\ srv' = srv
    BY <1>7 DEF WorkerEnds, Close, HeedsContext
  <2>8. TypeOK'
    BY Zenon, <2>1, <2>5, <2>6 DEF TypeOK, ShutdownOnly
  <2>9. StopInv'
    BY Zenon, <2>1, <2>6, <2>7, FourServers DEF StopInv, TypeOK, ShutdownOnly
  <2>. QED  BY Zenon, <2>4, <2>8, <2>9
<1>8. CASE WaitEnds
  <2>1. Going = {}
    <3>1. IsFiniteSet(Going)
      BY Zenon, FourServers DEF Going
    <3>. QED  BY Zenon, <1>8, <3>1, FS_EmptySet DEF WaitEnds, CountInv
  <2>2. \A s \in Servers : worker[s] = "done"
    BY Zenon, <1>8, <2>1 DEF WaitEnds, Going, TypeOK
  <2>3. UNCHANGED <<options, main, srv, busy, worker, wg, timedOut, lease, signals>>
        /\ shutdownComplete' = TRUE
    BY Zenon, <1>8 DEF WaitEnds, Next, vars, options
  <2>4. UNCHANGED Going
    BY Zenon, <1>0, <2>3
  <2>5. TypeOK'
    BY Zenon, <2>3 DEF TypeOK
  <2>6. CountInv'
    BY ZenonT(60), <2>2, <2>3, <2>4 DEF CountInv, options
  <2>7. StopInv'
    BY <2>3 DEF StopInv
  <2>. QED  BY Zenon, <2>5, <2>6, <2>7
<1>9. CASE TimeOut \/ Completed \/ StopLease \/ Return \/ Renew
  <2>1. UNCHANGED <<options, srv, busy, worker, wg, shutdownComplete, signals>>
    BY <1>9 DEF TimeOut, Completed, StopLease, Return, Renew, down, Next, vars, options
  <2>2. timedOut' \in BOOLEAN /\ lease' \in BOOLEAN /\ (timedOut => timedOut')
    BY Zenon, <1>9 DEF TimeOut, Completed, StopLease, Return, Renew, down, TypeOK
  <2>3. \/ UNCHANGED main
        \/ main = "select" /\ main' = "lease" /\ shutdownComplete
        \/ main = "lease" /\ main' = "return"
        \/ main = "return" /\ main' = "over"
    BY Zenon, <1>9 DEF TimeOut, Completed, StopLease, Return, Renew, Goto
  <2>4. TypeOK' /\ CountInv'
    BY ZenonT(60), <1>0, <2>1, <2>2, <2>3 DEF TypeOK, CountInv, options
  <2>5. StopInv'
    BY ZenonT(60), <2>1, <2>2, <2>3, FourServers DEF StopInv, CountInv
  <2>. QED  BY ZenonT(60), <2>4, <2>5
<1>10. CASE Forced
  <2>1. UNCHANGED <<options, down, lease, signals>> /\ main = "select" /\ main' = "lease"
        /\ busy' = busy \cap {"frontend"}
    BY <1>10 DEF Forced, Goto, Next, vars, options
  <2>2. srv' \in [Servers -> {"none", "serving", "draining", "stopped"}]
        /\ srv'["agent"] = "stopped"
        /\ \A s \in Servers : srv'[s] = srv[s] \/ (s # "frontend" /\ srv'[s] = "stopped")
    <3>1. srv' = Close({"agent", "admin", "health"})
      BY <1>10 DEF Forced
    <3>. QED  BY <3>1 DEF Close, Servers, TypeOK
  <2>3. UNCHANGED Going
    BY Zenon, <1>0, <2>1 DEF down
  <2>4. TypeOK'
    BY Zenon, <2>1, <2>2 DEF TypeOK, down
  <2>5. CountInv'
    BY ZenonT(60), <2>1, <2>3 DEF CountInv, down, options
  <2>6. StopInv'
    <3>1. timedOut /\ UNCHANGED <<worker, timedOut>>
      BY Zenon, <1>10, <2>1 DEF Forced, down
    <3>2. \A s \in Servers : worker'[s] = "done" =>
            srv'[s] = "stopped" \/ (timedOut' /\ s # "agent")
      BY Zenon, <2>2, <3>1 DEF StopInv
    <3>3. \A s \in busy' : s \in busy /\ s \in Servers /\ s = "frontend"
      BY Zenon, <2>1 DEF TypeOK
    <3>4. \A s \in busy' : srv'[s] # "stopped"
      BY Zenon, <2>2, <3>3 DEF StopInv
    <3>. QED  BY Zenon, <2>2, <3>1, <3>2, <3>4 DEF StopInv
  <2>. QED  BY ZenonT(60), <2>4, <2>5, <2>6
<1>11. ASSUME NEW s \in Servers, Begins(s) \/ Ends(s)  PROVE ShutdownInv'
  <2>1. UNCHANGED <<options, main, srv, down, lease, signals>>
    BY <1>11 DEF Begins, Ends, Next, vars, options
  <2>2. busy' \subseteq Servers /\ \A t \in busy' : t \in busy \/ srv[t] = "serving"
    BY <1>11 DEF Begins, Ends, TypeOK
  <2>3. UNCHANGED Going
    BY <1>0, <2>1 DEF down
  <2>4. TypeOK'
    BY <2>1, <2>2 DEF TypeOK, down
  <2>5. CountInv'
    BY <2>1, <2>3 DEF CountInv, down, options
  <2>6. StopInv'
    BY <2>1, <2>2 DEF StopInv, down
  <2>. QED  BY <2>4, <2>5, <2>6
<1>12. CASE UNCHANGED vars
  BY <1>0, <1>12 DEF vars, state, down, options, TypeOK, CountInv, StopInv
<1>14. CASE Hijack \/ TunnelEnds
  <2>1. UNCHANGED <<options, main, srv, down, lease, signals>> /\ busy' \subseteq busy
    BY Zenon, <1>14 DEF Hijack, TunnelEnds, state, Next, vars, options
  <2>2. UNCHANGED Going
    BY Zenon, <1>0, <2>1 DEF down
  <2>3. TypeOK'
    BY <2>1 DEF TypeOK, down
  <2>4. CountInv'
    BY Zenon, <2>1, <2>2 DEF CountInv, down, options
  <2>5. StopInv'
    BY Zenon, <2>1 DEF StopInv, down
  <2>. QED  BY <2>3, <2>4, <2>5
<1>. QED  BY ZenonT(60), <1>1, <1>2, <1>3, <1>4, <1>5, <1>6, <1>7, <1>8, <1>9, <1>10, <1>11, <1>12, <1>14
          DEF Next, Runs

(* What the invariant is for: completion means that all goroutines are     *)
(* done, and the lease goes behind the agent server.                       *)
LEMMA ShutdownIsSound == ShutdownInv => TypeOK /\ CompleteMeansStopped /\ LeaseGoesLast
BY Zenon, FourServers DEF ShutdownInv, CountInv, StopInv, CompleteMeansStopped, LeaseGoesLast

(* A graceful shutdown stops a server that is busy, or returns over it,    *)
(* only after its timeout.                                                 *)
LEMMA ShutdownCutsOff == ShutdownInv /\ [Next]_vars => CutsOffNothing
<1>. SUFFICES ASSUME ShutdownInv, [Next]_vars, graceful, NEW s \in busy,
                     srv'[s] = "stopped" \/ main' = "over",
                     srv[s] # "stopped", main # "over"
              PROVE  timedOut
  BY Zenon DEF CutsOffNothing, CutOff
<1>0. s \in Servers
  BY Zenon DEF ShutdownInv, TypeOK
<1>1. CASE runFrontendServer \/ runAgentServer \/ runAdminHealth
  <2>1. main' # "over"
    BY Zenon, <1>1 DEF runFrontendServer, runAgentServer, runAdminHealth, Goto
  <2>2. srv'[s] # "stopped"
    BY ZenonT(60), <1>0, <1>1 DEF runFrontendServer, runAgentServer, runAdminHealth, ShutdownInv, TypeOK
  <2>. QED  BY Zenon, <2>1, <2>2
<1>2. CASE StopNow \/ StopReturns
  BY <1>2 DEF StopNow, StopReturns, Goto, ShutdownInv, CountInv
<1>3. CASE Forced
  BY Zenon, <1>3 DEF Forced
<1>4. ASSUME NEW t \in Servers, WorkerStarts(t) \/ WorkerEnds(t)  PROVE timedOut
  <2>1. UNCHANGED main
    BY Zenon, <1>4 DEF WorkerStarts, WorkerEnds
  <2>2. srv'[s] = "stopped"
    BY Zenon, <2>1
  <2>. QED  BY Zenon, <1>0, <1>4, <2>2 DEF WorkerStarts, WorkerEnds, Close, ShutdownInv, TypeOK
<1>5. CASE Return
  <2>1. main = "return"
    BY <1>5 DEF Return, Goto
  <2>. QED  BY <1>0, <2>1 DEF ShutdownInv, CountInv, StopInv
<1>6. CASE UNCHANGED srv /\ main' # "over"
  BY Zenon, <1>6
<1>7. ASSUME StartFails \/ Signal \/ Shutdown \/ WaitEnds \/ TimeOut \/ Completed \/ StopLease
             \/ Renew \/ (\E t \in Servers : Begins(t) \/ Ends(t)) \/ Hijack \/ TunnelEnds
             \/ UNCHANGED vars
      PROVE  UNCHANGED srv /\ main' # "over"
  BY Zenon, <1>7 DEF StartFails, Signal, Shutdown, WaitEnds, TimeOut, Completed, StopLease,
              Renew, Begins, Ends, Hijack, TunnelEnds, Goto, vars, state
<1>. QED  BY ZenonT(60), <1>1, <1>2, <1>3, <1>4, <1>5, <1>6, <1>7 DEF Next, Runs

-----------------------------------------------------------------------------
(* The cost of a dial *)

(* The constants of the cost.                                              *)
LEMMA CostConstants ==
  /\ IsFiniteSet(Request) /\ Window \in Nat /\ DialTimeout \in Nat
  /\ \A a \in Agent : a # "none"
BY Zenon, MembershipAssumption

(* No dial has been made at first.                                         *)
LEMMA CostInit == Cost!Init => Cost!TypeOK
BY CostConstants DEF Cost!Init, Cost!TypeOK, Cost!Over, Cost!NoDial

(* A dial that is in flight has an agent.                                  *)
LEMMA DialHasAgent ==
  ASSUME Cost!TypeOK, NEW d \in Request, dials[d] # Cost!NoDial
  PROVE  dials[d].agent \in Agent /\ dials[d].taken \in 0..DialTimeout
BY DEF Cost!TypeOK, Cost!NoDial

(* The average of two latencies is not above both.                         *)
LEMMA AverageInRange ==
  ASSUME NEW n \in Nat, NEW i \in 0..n, NEW j \in 0..n  PROVE (i + j) \div 2 \in 0..n
OBVIOUS

(* The inductive step.                                                     *)
LEMMA CostNext == Cost!TypeOK /\ [Cost!Next]_Cost!vars => Cost!TypeOK'
<1>. SUFFICES ASSUME Cost!TypeOK, [Cost!Next]_Cost!vars  PROVE Cost!TypeOK'
  OBVIOUS
<1>. USE CostConstants
<1>1. ASSUME NEW d \in Request, Cost!Answered(d)  PROVE Cost!TypeOK'
  <2>. DEFINE a == dials[d].agent  i == dials[d].taken
  <2>1. a \in Agent /\ i \in 0..DialTimeout
    BY Zenon, <1>1, DialHasAgent DEF Cost!Answered
  <2>2. dialLatency[a] \in 0..DialTimeout /\ (dialLatency[a] + i) \div 2 \in 0..DialTimeout
    BY Zenon, <2>1, AverageInRange DEF Cost!TypeOK
  <2>3. dialLatency' \in [Agent -> 0..DialTimeout]
    BY ZenonT(60), <1>1, <2>1, <2>2 DEF Cost!Answered, Cost!observeDial, Cost!TypeOK
  <2>4. sampleAge' \in [Agent -> 0..Cost!Over]
    BY <1>1 DEF Cost!Answered, Cost!observeDial, Cost!TypeOK, Cost!Over
  <2>5. dials' \in [Request -> {Cost!NoDial} \cup [agent : Agent, taken : 0..DialTimeout]]
    BY Zenon, <1>1 DEF Cost!Answered, Cost!TypeOK
  <2>. QED  BY Zenon, <2>3, <2>4, <2>5 DEF Cost!TypeOK
<1>2. ASSUME NEW d \in Request, Cost!Dropped(d)  PROVE Cost!TypeOK'
  BY Zenon, <1>2 DEF Cost!Dropped, Cost!TypeOK
<1>3. ASSUME NEW d \in Request, NEW a \in Agent, Cost!Pick(d, a)  PROVE Cost!TypeOK'
  BY <1>3 DEF Cost!Pick, Cost!TypeOK
<1>4. CASE Cost!Tick
  <2>1. sampleAge' \in [Agent -> 0..Cost!Over]
    BY <1>4 DEF Cost!Tick, Cost!TypeOK, Cost!Over
  <2>2. ASSUME NEW d \in Request
        PROVE  dials'[d] \in {Cost!NoDial} \cup [agent : Agent, taken : 0..DialTimeout]
    <3>1. CASE dials[d] = Cost!NoDial
      BY <1>4, <3>1 DEF Cost!Tick
    <3>2. CASE dials[d] # Cost!NoDial
      <4>1. dials[d] \in [agent : Agent, taken : 0..DialTimeout] /\ dials[d].taken < DialTimeout
        BY <1>4, <3>2 DEF Cost!Tick, Cost!TypeOK
      <4>2. dials'[d] = [dials[d] EXCEPT !.taken = @ + 1]
        BY <1>4, <3>2 DEF Cost!Tick
      <4>. QED  BY <4>1, <4>2
    <3>. QED  BY <3>1, <3>2
  <2>3. dials' = [d \in Request |-> dials'[d]]
    BY <1>4 DEF Cost!Tick
  <2>. QED  BY <1>4, <2>1, <2>2, <2>3 DEF Cost!Tick, Cost!TypeOK
<1>5. CASE UNCHANGED Cost!vars
  BY <1>5 DEF Cost!vars, Cost!TypeOK
<1>. QED  BY Zenon, <1>1, <1>2, <1>3, <1>4, <1>5 DEF Cost!Next

(* A dial costs at least the floor.                                        *)
LEMMA CostIsPositive ==
  ASSUME Cost!TypeOK, NEW b \in Agent
  PROVE  Cost!InFlight(b) \in Nat /\ Cost!dialCost(b) \in Nat /\ Cost!dialCost(b) >= 1
<1>1. Cost!InFlight(b) \in Nat
  <2>1. IsFiniteSet({d \in Request : dials[d].agent = b})
    BY CostConstants, FS_Subset
  <2>2. Cardinality({d \in Request : dials[d].agent = b}) \in Nat
    BY <2>1, FS_CardinalityType
  <2>. QED  BY ZenonT(60), <2>2, SameCardinality DEF Cost!InFlight
<1>2. ASSUME NEW x \in Nat, NEW y \in Nat, x >= 1, y >= 1
      PROVE  x * y \in Nat /\ x * y >= 1
  BY <1>2
<1>. DEFINE x == IF sampleAge[b] <= Window /\ dialLatency[b] > Cost!Floor
                   THEN dialLatency[b] ELSE Cost!Floor
<1>3. x \in Nat /\ x >= 1
  BY CostConstants DEF Cost!Floor, Cost!TypeOK
<1>4. Cost!dialCost(b) = x * (Cost!InFlight(b) + 1)
  BY DEF Cost!dialCost
<1>. HIDE DEF x
<1>. QED  BY <1>1, <1>2, <1>3, <1>4

(* An agent with no recent sample and no dial in flight costs the floor.   *)
LEMMA IdleLosesToNobody == Cost!TypeOK => Cost!IdleIsEligible
<1>. SUFFICES ASSUME Cost!TypeOK, NEW a \in Agent, NEW b \in Agent,
                     sampleAge[a] > Window, Cost!InFlight(a) = 0
              PROVE  a \in Cost!preferredBackend(a, b)
  BY DEF Cost!IdleIsEligible
<1>1. Cost!dialCost(a) = 1
  <2>1. ~(sampleAge[a] <= Window)
    BY CostConstants DEF Cost!TypeOK, Cost!Over
  <2>. QED  BY <2>1 DEF Cost!dialCost, Cost!Floor
<1>2. Cost!dialCost(b) \in Nat /\ Cost!dialCost(b) >= 1
  BY CostIsPositive
<1>3. ~(Cost!dialCost(a) >= 2 * Cost!dialCost(b))
  BY <1>1, <1>2
<1>. QED  BY <1>3 DEF Cost!preferredBackend

-----------------------------------------------------------------------------
(* The parts together *)

MembershipInv == SetInv /\ LeasesInv /\ SeenInv /\ ShutdownInv /\ Cost!TypeOK
all == <<part, vars, set, register, cost>>

(* The variables of a part that does not move.                             *)
LEMMA PartVars ==
  /\ UNCHANGED set => UNCHANGED Set!vars
  /\ UNCHANGED register => UNCHANGED Leases!vars
  /\ UNCHANGED cost => UNCHANGED Cost!vars
BY DEF set, register, cost, Set!vars, Set!state, Set!loop, Set!signals, Set!world,
       Leases!vars, Leases!collector, Leases!agent, Cost!vars

(* A step of the whole is a step of one part, or of none.                  *)
LEMMA PartSteps ==
  ASSUME [MembershipNext]_all
  PROVE  /\ [Set!Next]_Set!vars /\ [Leases!Next]_Leases!vars
         /\ [Next]_vars /\ [Cost!Next]_Cost!vars
BY PartVars DEF MembershipNext, all

(* Every part starts in its invariant, whichever moves.                    *)
LEMMA MembershipInitInv == MembershipInit => MembershipInv
BY Zenon, SetInit, LeasesInit, SeenInit, ShutdownInit, CostInit DEF MembershipInit, MembershipInv

(* And keeps it.                                                           *)
LEMMA MembershipNextInv == MembershipInv /\ [MembershipNext]_all => MembershipInv'
BY ZenonT(60), PartSteps, SetNext, LeasesNext, SeenNext, ShutdownNext, CostNext DEF MembershipInv

(* The inductive invariant of every behaviour.                             *)
THEOREM MembershipInvariance == MembershipSpec => []MembershipInv
BY MembershipInitInv, MembershipNextInv, PTL DEF MembershipSpec, all

(* The set knows every client that is not closed, a complete shutdown has  *)
(* stopped every server and deletes the lease behind the agent server, and *)
(* an idle agent loses a dial to nobody: for any servers, collectors,      *)
(* agents and dials, any lease duration and any window.                    *)
THEOREM Soundness == MembershipSpec => []MembershipIsSound
<1>1. MembershipInv => MembershipIsSound
  <2>. SUFFICES ASSUME MembershipInv  PROVE MembershipIsSound
    OBVIOUS
  <2>1. Set!TypeOK /\ Set!ClientsAreAccountedFor
    BY Zenon, SetIsSound DEF MembershipInv
  <2>2. Leases!TypeOK
    <3>1. Ages /\ SeenInv
      BY DEF MembershipInv, LeasesInv
    <3>. QED  BY <3>1, SameCardinality DEF Ages, SeenInv, Leases!TypeOK
  <2>3. TypeOK /\ CompleteMeansStopped /\ LeaseGoesLast
    BY ShutdownIsSound DEF MembershipInv
  <2>4. Cost!TypeOK /\ Cost!IdleIsEligible
    BY IdleLosesToNobody DEF MembershipInv
  <2>. QED  BY Zenon, <2>1, <2>2, <2>3, <2>4 DEF MembershipIsSound
<1>. QED  BY <1>1, MembershipInvariance, PTL

(* Nothing goes but for its own reason: no client for the failure of an    *)
(* older one, no lease that is valid, and before the timeout of a graceful *)
(* shutdown no stream or request that a server counts.                     *)
THEOREM OwnReasons == MembershipSpec => NothingGoesEarly
<1>. DEFINE Own == Set!RemovesOwn /\ Leases!CullsExpired /\ CutsOffNothing
<1>1. MembershipInv /\ [MembershipNext]_all => [Own]_<<vars, set, register>>
  <2>. SUFFICES ASSUME MembershipInv, [MembershipNext]_all  PROVE Own
    OBVIOUS
  <2>1. Set!RemovesOwn
    BY PartSteps, SetRemoves DEF MembershipInv
  <2>2. Leases!CullsExpired
    BY PartSteps, LeasesCull DEF MembershipInv
  <2>3. CutsOffNothing
    BY PartSteps, ShutdownCutsOff DEF MembershipInv
  <2>. QED  BY <2>1, <2>2, <2>3
<1>. QED  BY <1>1, MembershipInvariance, PTL DEF MembershipSpec, NothingGoesEarly, all

=============================================================================
