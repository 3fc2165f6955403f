----------------------------- MODULE Membership -----------------------------
(* Which servers and agents know of each other: part chooses, once, the      *)
(* behaviour of the agent's set of clients, of the leases of the servers, of *)
(* a server's start and shutdown, or of the cost that ranks the agents of a  *)
(* dial.  The fairness of a part is a condition of its liveness properties.  *)
EXTENDS ServerShutdown

CONSTANTS
  Server, ServerCount, SyncForever, Source, MaxClient,
  Collector, LeaseDuration, Timely,
  Agent, Request, Window, DialTimeout

(* There is a server, and the bounds are numbers; no agent has the name that *)
(* stands for none.                                                          *)
ASSUME MembershipAssumption ==
  /\ Server # {} /\ IsFiniteSet(Server) /\ MaxClient \in Nat
  /\ Collector \subseteq Server /\ LeaseDuration \in Nat
  /\ IsFiniteSet(Request) /\ Window \in Nat /\ DialTimeout \in Nat /\ "none" \notin Agent

VARIABLES
  part,
  countServerLeases, clients, lastReceivedServerCount, sync, serverCount, new,
  serverID, link, stops, drained, stopped, up, valid,
  proc, leases, listed, written, deleting, seen, fallbackCount,
  dialLatency, sampleAge, dials

set == <<countServerLeases, clients, lastReceivedServerCount, sync, serverCount, new,
         serverID, link, stops, drained, stopped, up, valid>>
register == <<proc, leases, listed, written, deleting, seen, fallbackCount>>
cost == <<dialLatency, sampleAge, dials>>

Set == INSTANCE ClientSet WITH leases <- valid
Leases == INSTANCE ServerLeases WITH lease <- leases
Cost == INSTANCE DialCost WITH Dial <- Request

MembershipInit ==
  /\ part \in {"set", "leases", "shutdown", "cost"}
  /\ Init /\ Set!Init /\ Leases!Init /\ Cost!Init
  /\ part = "set" \/ ~countServerLeases
  /\ part = "shutdown" \/ (graceful /\ modeGRPC)

MembershipNext ==
  \/ part = "set" /\ Set!Next /\ UNCHANGED <<part, vars, register, cost>>
  \/ part = "leases" /\ Leases!Next /\ UNCHANGED <<part, vars, set, cost>>
  \/ part = "shutdown" /\ Next /\ UNCHANGED <<part, set, register, cost>>
  \/ part = "cost" /\ Cost!Next /\ UNCHANGED <<part, vars, set, register>>

MembershipSpec ==
  MembershipInit /\ [][MembershipNext]_<<part, vars, set, register, cost>>

(* All parts keep their types; no client is closed twice and no WaitGroup   *)
(* counts below 0.  The set knows every client that is not closed; a        *)
(* shutdown that reports completion has stopped every server (for an HTTP   *)
(* server: its Shutdown has returned), and deletes the lease behind the     *)
(* agent server; and an agent without a recent sample or a dial in flight   *)
(* loses a dial to nobody.                                                  *)
MembershipIsSound ==
  /\ TypeOK /\ Set!TypeOK /\ Leases!TypeOK /\ Cost!TypeOK
  /\ Set!ClientsAreAccountedFor /\ CompleteMeansStopped /\ LeaseGoesLast
  /\ Cost!IdleIsEligible

(* Nothing goes but for its own reason: a client leaves the set only when   *)
(* its own stream failed or at shutdown, not for the late failure of an     *)
(* older one of the same server; a collector deletes no lease that is valid *)
(* at that moment, however long ago it listed it; and before its timeout a  *)
(* graceful shutdown cuts off no gRPC stream and no HTTP request, but for   *)
(* the CONNECT tunnels, which no server counts.                             *)
NothingGoesEarly ==
  [][Set!RemovesOwn /\ Leases!CullsExpired /\ CutsOffNothing]_<<vars, set, register>>

(* Draining ends the dialing and stopping closes every client, also one     *)
(* that is being added; without a signal, servers that run, over links that *)
(* hold, all get a client, whatever counts their headers give: the agent    *)
(* goes on dialing (SyncForever), or counts the leases instead.             *)
ClientsSettle == Set!Fairness => Set!SignalsAreObeyed /\ Set!ReachesAllServers

(* The lease of a server that is gone is deleted, and an agent's count      *)
(* becomes the number of servers.                                           *)
LeasesSettle == Leases!Fairness => Leases!DeadLeasesGo /\ Leases!CountSettles

(* A graceful Run returns after a signal, an immediate one when the streams *)
(* or requests that its frontend server counts end.                         *)
ShutdownReturns == Fairness => RunReturns /\ RunReturnsWhenIdle

(* No agent is left out for good because it once was slow.                  *)
NobodyStarves == Cost!Fairness => Cost!NobodyStarves

=============================================================================
