----------------------------- MODULE ClientSet -----------------------------
(* The agent's set of clients (pkg/agent/clientset.go): the sync loop that  *)
(* dials one address behind which all proxy servers sit until it has as     *)
(* many clients as the counters (server_counter.go, lease_counter.go) say   *)
(* there are servers, the removal of clients whose stream failed, and the   *)
(* drain and stop signals (cmd/agent/app/server.go).                        *)
(*                                                                          *)
(* A client is named by a number, which is free again when its last         *)
(* goroutine is gone.  Those goroutines, which find the failure of its      *)
(* stream one after the other, are the module AgentClient.  The waiting     *)
(* between two rounds of the loop is not modelled.                          *)
EXTENDS Integers, FiniteSets

CONSTANTS
  Server,             \* server IDs
  ServerCount,        \* the count each server sends in its header
  SyncForever,
  Source,             \* serverCountSource: "default" or "max"
  MaxClient           \* bound: clients that exist at a time

Client == 1..MaxClient
NoClient == 0

VARIABLES
  countServerLeases,  \* the option of that name
  clients,            \* ClientSet.clients
  lastReceivedServerCount,
  sync,               \* the sync loop: connect, dial, add, sleep, over
  serverCount,        \* what determineServerCount returned
  new,                \* the client that is being added
  serverID,           \* of each client
  link,               \* of each client: none, up, failed
  stops,              \* how often Close was called
  drained, stopped,   \* drainCh, stopCh
  up, leases          \* servers that run; servers with a valid lease

loop == <<sync, serverCount, new>>
world == <<up, leases>>
signals == <<drained, stopped>>
state == <<clients, lastReceivedServerCount, loop, serverID, link, stops,
           signals, world>>
vars == <<countServerLeases, state>>

Init ==
  /\ countServerLeases \in BOOLEAN
  /\ clients = [s \in Server |-> NoClient] /\ lastReceivedServerCount = 0
  /\ sync = "connect" /\ serverCount = 0 /\ new = NoClient
  /\ serverID \in [Client -> {CHOOSE s \in Server : TRUE}]
  /\ link = [c \in Client |-> "none"] /\ stops = [c \in Client |-> 0]
  /\ drained = FALSE /\ stopped = FALSE
  /\ up = Server /\ leases = Server

Registered == {s \in Server : clients[s] # NoClient}
ClientsCount == Cardinality(Registered)

-----------------------------------------------------------------------------
(* Counters *)

(* responseBasedCounter: the last header, or 1. *)
FromResponses == IF lastReceivedServerCount = 0 THEN 1 ELSE lastReceivedServerCount

(* ServerLeaseCounter: the valid leases, at least 1. *)
FromLeases == IF leases = {} THEN 1 ELSE Cardinality(leases)

(* aggregateServerCounter *)
determineServerCount ==
  IF ~countServerLeases THEN FromResponses
  ELSE IF Source = "max" /\ FromResponses > FromLeases THEN FromResponses
  ELSE FromLeases

-----------------------------------------------------------------------------
(* connectOnce *)

ConnectOnly == <<clients, lastReceivedServerCount, new, serverID, link, stops,
                 signals, world>>

(* Mutant: a draining agent still connects. *)
ConnectAnyway ==
  /\ sync = "connect" /\ sync' = "dial" /\ serverCount' = determineServerCount
  /\ UNCHANGED ConnectOnly

(* Mutant: enough clients are enough, also for syncForever. *)
ConnectEnough ==
  /\ sync = "connect"
  /\ IF drained THEN sync' = "sleep" /\ UNCHANGED serverCount
     ELSE /\ serverCount' = determineServerCount
          /\ sync' = IF ClientsCount >= serverCount' THEN "sleep" ELSE "dial"
  /\ UNCHANGED ConnectOnly

(* Draining, or enough clients: nothing to do. *)
Connect ==
  /\ sync = "connect"
  /\ IF drained THEN sync' = "sleep" /\ UNCHANGED serverCount
     ELSE /\ serverCount' = determineServerCount
          /\ sync' = IF /\ ClientsCount >= serverCount' /\ serverCount' > 0
                        /\ ~SyncForever \/ countServerLeases
                       THEN "sleep" ELSE "dial"
  /\ UNCHANGED ConnectOnly

Free == {c \in Client : link[c] = "none"}

(* newAgentClient: the address leads to any server that runs. *)
Dial(s) ==
  /\ sync = "dial" /\ s \in up /\ Free # {}
  /\ new' = (CHOOSE c \in Free : TRUE) /\ sync' = "add"
  /\ serverID' = [serverID EXCEPT ![new'] = s]
  /\ link' = [link EXCEPT ![new'] = "up"]
  /\ UNCHANGED <<clients, lastReceivedServerCount, serverCount, stops, signals, world>>

DialFails ==
  /\ sync = "dial" /\ sync' = "sleep" /\ UNCHANGED <<ConnectOnly, serverCount>>

(* Client.Close *)
Close(C) == stops' = [c \in Client |-> IF c \in C THEN stops[c] + 1 ELSE stops[c]]

(* Mutant: the client of a known server is put in place of the old one. *)
AddReplaces ==
  /\ sync = "add" /\ sync' = "sleep"
  /\ clients' = [clients EXCEPT ![serverID[new]] = new]
  /\ lastReceivedServerCount' = ServerCount[serverID[new]]
  /\ UNCHANGED <<serverCount, new, serverID, link, stops, signals, world>>

(* AddClient: a second client of a server is closed. *)
AddClient ==
  /\ sync = "add" /\ sync' = "sleep"
  /\ IF clients[serverID[new]] # NoClient
       THEN Close({new}) /\ UNCHANGED <<clients, lastReceivedServerCount>>
       ELSE /\ clients' = [clients EXCEPT ![serverID[new]] = new]
            /\ lastReceivedServerCount' = ServerCount[serverID[new]]
            /\ UNCHANGED stops
  /\ UNCHANGED <<serverCount, new, serverID, link, signals, world>>

(* The next round, or stopCh: shutdown closes every client. *)
Wake ==
  /\ sync = "sleep"
  /\ IF stopped
       THEN /\ sync' = "over" /\ clients' = [s \in Server |-> NoClient]
            /\ Close({clients[s] : s \in Registered})
       ELSE sync' = "connect" /\ UNCHANGED <<clients, stops>>
  /\ UNCHANGED <<lastReceivedServerCount, serverCount, new, serverID, link,
                 signals, world>>

-----------------------------------------------------------------------------
(* A client's goroutines *)

(* Mutant: the client of the server is removed, whichever it is. *)
RemoveByServer(c) ==
  LET s == serverID[c]
  IN  /\ link[c] = "failed" /\ clients[s] # NoClient
      /\ clients' = [clients EXCEPT ![s] = NoClient] /\ Close({clients[s]})
      /\ UNCHANGED <<lastReceivedServerCount, loop, serverID, link, signals, world>>

(* Mutant: the removal closes the client even if somebody else removed it. *)
RemoveAgain(c) ==
  LET s == serverID[c]
  IN  /\ link[c] = "failed" /\ (clients[s] = c \/ stops[c] > 0) /\ stops[c] < 2
      /\ clients' = [clients EXCEPT ![s] = IF @ = c THEN NoClient ELSE @]
      /\ Close({c})
      /\ UNCHANGED <<lastReceivedServerCount, loop, serverID, link, signals, world>>

(* removeClient: every failed Send or Recv of the client calls it; only    *)
(* the first one finds it registered.                                      *)
removeClient(c) ==
  LET s == serverID[c]
  IN  /\ link[c] = "failed" /\ clients[s] = c
      /\ clients' = [clients EXCEPT ![s] = NoClient] /\ Close({c})
      /\ UNCHANGED <<lastReceivedServerCount, loop, serverID, link, signals, world>>

(* The last goroutine of a closed client ends. *)
Forget(c) ==
  /\ stops[c] > 0 /\ link' = [link EXCEPT ![c] = "none"]
  /\ stops' = [stops EXCEPT ![c] = 0]
  /\ UNCHANGED <<clients, lastReceivedServerCount, loop, serverID, signals, world>>

-----------------------------------------------------------------------------
(* Signals, servers, leases *)

EnvOnly == <<clients, lastReceivedServerCount, loop, serverID, stops>>

(* handleSignals: the first signal drains, the second stops. *)
Signal ==
  /\ drained' = TRUE /\ stopped' = drained /\ ~stopped
  /\ UNCHANGED <<EnvOnly, link, world>>

LinkFails(c) ==
  /\ link[c] = "up" /\ link' = [link EXCEPT ![c] = "failed"]
  /\ UNCHANGED <<EnvOnly, signals, world>>

(* A server goes away with its links, and later its lease; or comes back.  *)
ServerStops(s) ==
  /\ s \in up /\ up' = up \ {s} /\ UNCHANGED leases
  /\ link' = [c \in Client |-> IF link[c] = "up" /\ serverID[c] = s
                                 THEN "failed" ELSE link[c]]
  /\ UNCHANGED <<EnvOnly, signals>>

ServerStarts(s) ==
  /\ s \notin up /\ up' = up \cup {s}
  /\ UNCHANGED <<EnvOnly, signals, link, leases>>

(* The lister sees the lease of a running server, and loses that of a      *)
(* stopped one.  There is a lister only with countServerLeases.            *)
LeaseSeen ==
  /\ countServerLeases
  /\ \/ \E s \in up \ leases : leases' = leases \cup {s}
     \/ \E s \in leases \ up : leases' = leases \ {s}
  /\ UNCHANGED <<EnvOnly, signals, link, up>>

-----------------------------------------------------------------------------
Next ==
  /\ UNCHANGED countServerLeases
  /\ \/ Connect \/ DialFails \/ AddClient \/ Wake \/ Signal \/ LeaseSeen
     \/ \E s \in Server : Dial(s) \/ ServerStops(s) \/ ServerStarts(s)
     \/ \E c \in Client : removeClient(c) \/ LinkFails(c) \/ Forget(c)

Spec == Init /\ [][Next]_vars

(* The loop goes round, a failure is noticed, the address leads to every   *)
(* running server again and again, and the lister catches up.              *)
Fairness ==
  /\ WF_state(Connect) /\ WF_state(AddClient) /\ WF_state(Wake)
  /\ \A s \in Server : SF_state(Dial(s))
  /\ WF_state(DialFails \/ \E s \in Server : Dial(s))
  /\ \A c \in Client : WF_state(removeClient(c)) /\ WF_state(Forget(c))
  /\ WF_state(LeaseSeen)

FairSpec == Spec /\ Fairness

-----------------------------------------------------------------------------
(* Every variable has its type; stopCh is closed at most once, since a     *)
(* second close of it would panic, whoever of the sync loop, shutdown and  *)
(* the failing goroutines closes the client.                               *)
TypeOK ==
  /\ clients \in [Server -> Client \cup {NoClient}]
  /\ sync \in {"connect", "dial", "add", "sleep", "over"}
  /\ link \in [Client -> {"none", "up", "failed"}]
  /\ stops \in [Client -> 0..1]

(* A connection to a server is never lost track of: a client that was made *)
(* is registered for its server, is being added, or has been closed; and a *)
(* registered one has not been closed.                                     *)
ClientsAreAccountedFor ==
  \A c \in Client \ Free : stops[c] = 0 <=> \/ clients[serverID[c]] = c
                                            \/ c = new /\ sync = "add"

(* A client leaves the set only when its own stream failed or at shutdown: *)
(* the late failure of an old client leaves the newer one alone.           *)
RemovesOwn ==
  \A s \in Registered : clients'[s] # clients[s] =>
    link[clients[s]] = "failed" \/ sync' = "over"
OnlyOwnFailureRemoves == [][RemovesOwn]_vars

(* An agent that drains ends its dialing for good, and one that is stopped *)
(* closes every client.                                                    *)
SignalsAreObeyed ==
  /\ <>[]drained => <>[](sync \notin {"dial", "add"})
  /\ <>[]stopped => <>[](sync = "over" /\ \A c \in Client \ Free : stops[c] = 1)

(* When every server runs and no link fails any more, the agent ends up    *)
(* with a client for each server.  This is about an agent that goes on     *)
(* dialing (SyncForever) or counts leases: another stops dialing when it   *)
(* has as many clients as the headers say, right or wrong.                 *)
Settled == up = Server /\ \A c \in Client : link[c] = "failed" => stops[c] = 1
ReachesAllServers ==
  <>[](Settled /\ ~drained) => <>[](Registered = Server)

=============================================================================
