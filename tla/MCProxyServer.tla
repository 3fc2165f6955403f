---------------------------- MODULE MCProxyServer ----------------------------
(***************************************************************************)
(* Instances of ProxyServer: one or two frontend streams, each with one    *)
(* dial, and one or two agent connections, of the same agent or not.       *)
(***************************************************************************)
EXTENDS ProxyServer, TLC

CONSTANTS f1, f2, d1, d2, b1, b2, a1, a2

OnlyDial == d1 :> f1
OneStreamEach == d1 :> f1 @@ d2 :> f2
OneAgent == b1 :> a1
SameAgent == b1 :> a1 @@ b2 :> a1
OwnAgents == b1 :> a1 @@ b2 :> a2

(* The renamings that preserve the constants: a stream moves with its      *)
(* dial and a connection with its agent.                                   *)
Automorphisms ==
  {p \in Permutations(Frontend \cup Dial \cup Backend \cup Agent) :
     /\ \A d \in Dial : p[d] \in Dial /\ p[FrontendOf[d]] = FrontendOf[p[d]]
     /\ \A b \in Backend : p[b] \in Backend /\ p[AgentOf[b]] = AgentOf[p[b]]
     /\ \A f \in HttpFrontend : p[f] \in HttpFrontend}
=============================================================================
