--------------------------- MODULE BackendManagers ---------------------------
(***************************************************************************)
(* The backend managers of a proxy server: the storages in which the       *)
(* connect goroutine of every agent connection registers it, the           *)
(* random-routing index over each storage, the DRAIN notification, and the *)
(* selection of a backend for a dial (ProxyServer.getBackend).             *)
(*                                                                         *)
(* Every storage has its own lock.  One action is one critical section,    *)
(* except that the redraw loop of GetRandomBackend takes several steps     *)
(* while it holds the lock: the draining flags are atomics that the lock   *)
(* does not protect, so they may change between two of its reads.          *)
(*                                                                         *)
(* Abstracted: the dial cost and the channel occupancy that rank two       *)
(* sampled backends (either may win), random numbers, metrics, logs.       *)
(***************************************************************************)
EXTENDS Integers, Sequences, Functions

CONSTANTS
  Backend,      \* agent connections (*Backend)
  Ident,        \* agent IDs and destination hosts
  Strategies,   \* the configured strategies; a manager is an index into them
  AgentID,      \* AgentID[b]: the agent of connection b
  DestIDs,      \* DestIDs[b]: its IPv4, IPv6 and host identifiers, in order
  DefaultRoute, \* the connections whose agent announced default-route
  NoBackend

Strategy == {"destHost", "default", "defaultRoute"}
Manager == DOMAIN Strategies

ASSUME StrategiesAssumption ==
  /\ Strategies \in Seq(Strategy)
  /\ Len(Strategies) \in 1..3
ASSUME BackendAssumption ==
  /\ AgentID \in [Backend -> Ident]
  /\ DestIDs \in [Backend -> Seq(Ident)]
  /\ DefaultRoute \subseteq Backend
  /\ NoBackend \notin Backend

VARIABLES
  draining,            \* Backend.draining
  backends,            \* backends[m][id]; <<>> when the map has no such key
  nonDrainingAgentIDs,
  drainingAgentIDs,
  conn,                \* where the connect goroutine of a connection is
  calls,               \* the storage calls its current loop has left
  notify,              \* next manager to notify of DRAIN; 0 before DRAIN
  sel,                 \* the selection in progress
  picked               \* what the last selection returned

storage == <<backends, nonDrainingAgentIDs, drainingAgentIDs>>
vars == <<draining, backends, nonDrainingAgentIDs, drainingAgentIDs,
          conn, calls, notify, sel, picked>>

(* Managers that route randomly keep the index; destHost does not. *)
maintainRandomRoutingIndex(m) == Strategies[m] \in {"default", "defaultRoute"}

(* The identifiers a manager registers a connection under. *)
IdentsOf(m, b) ==
  CASE Strategies[m] = "destHost" -> DestIDs[b]
    [] Strategies[m] = "default" -> <<AgentID[b]>>
    [] Strategies[m] = "defaultRoute" ->
         IF b \in DefaultRoute THEN <<AgentID[b]>> ELSE <<>>

(* Mutant: managers are numbered from 0. *)
CallsToShifted(m, b) ==
  IF m \in Manager
  THEN [k \in DOMAIN IdentsOf(m, b) |-> <<m - 1, IdentsOf(m, b)[k]>>]
  ELSE <<>>

(* The storage calls of ProxyServer.addBackend and removeBackend: the      *)
(* managers in order, each with its identifiers in order.                  *)
CallsTo(m, b) ==
  IF m \in Manager
  THEN [k \in DOMAIN IdentsOf(m, b) |-> <<m, IdentsOf(m, b)[k]>>]
  ELSE <<>>
Calls(b) == CallsTo(1, b) \o CallsTo(2, b) \o CallsTo(3, b)

Registered(m) == {id \in Ident : backends[m][id] # <<>>}
Primary(m, id) == backends[m][id][1]

-----------------------------------------------------------------------------
(* The routing index *)

removeIdentifier(ids, id) ==
  IF id \notin Range(ids) THEN ids
  ELSE LET i == CHOOSE i \in DOMAIN ids :
                  ids[i] = id /\ \A j \in 1..(i-1) : ids[j] # id
       IN  SubSeq([ids EXCEPT ![i] = ids[Len(ids)]], 1, Len(ids) - 1)

appendMissing(ids, id) == IF id \in Range(ids) THEN ids ELSE Append(ids, id)

(* Mutant: an agent once listed as draining stays listed. *)
refreshIdentifierStateSticky(m, id, bs) ==
  LET down == bs # <<>> /\ (draining[bs[1]] \/ id \in Range(drainingAgentIDs[m]))
  IN  /\ nonDrainingAgentIDs' = [nonDrainingAgentIDs EXCEPT ![m] =
           IF bs = <<>> \/ down
           THEN removeIdentifier(@, id) ELSE appendMissing(@, id)]
      /\ drainingAgentIDs' = [drainingAgentIDs EXCEPT ![m] =
           IF down THEN appendMissing(@, id) ELSE removeIdentifier(@, id)]

(* refreshIdentifierState on manager m, given the backends bs that id now  *)
(* has: no backends, a draining primary, or a primary that is not.         *)
refreshIdentifierState(m, id, bs) ==
  /\ nonDrainingAgentIDs' = [nonDrainingAgentIDs EXCEPT ![m] =
       IF bs = <<>> \/ draining[bs[1]]
       THEN removeIdentifier(@, id) ELSE appendMissing(@, id)]
  /\ drainingAgentIDs' = [drainingAgentIDs EXCEPT ![m] =
       IF bs # <<>> /\ draining[bs[1]]
       THEN appendMissing(@, id) ELSE removeIdentifier(@, id)]

(* Mutant: the redraw loop runs without the lock. *)
UnlockedAlways(m) == TRUE

(* GetRandomBackend holds the lock of its storage while it redraws. *)
Unlocked(m) == ~(sel.pc \in {"draw", "second"} /\ sel.m = m)

-----------------------------------------------------------------------------
(* Registration, by the connect goroutine of each agent connection *)

StartConnect(b) ==
  /\ conn[b] = "new"
  /\ conn' = [conn EXCEPT ![b] = "adding"]
  /\ calls' = [calls EXCEPT ![b] = Calls(b)]
  /\ UNCHANGED <<draining, storage, notify, sel, picked>>

(* Mutant: a connection that is already there is added again. *)
addBackendTwice(b) ==
  /\ conn[b] = "adding" /\ calls[b] # <<>>
  /\ LET m == calls[b][1][1]
         id == calls[b][1][2]
         classify == backends[m][id] = <<>> /\ maintainRandomRoutingIndex(m)
     IN  /\ Unlocked(m)
         /\ backends' = [backends EXCEPT ![m][id] = Append(@, b)]
         /\ nonDrainingAgentIDs' = [nonDrainingAgentIDs EXCEPT ![m] =
              IF classify /\ ~draining[b] THEN Append(@, id) ELSE @]
         /\ drainingAgentIDs' = [drainingAgentIDs EXCEPT ![m] =
              IF classify /\ draining[b] THEN Append(@, id) ELSE @]
  /\ calls' = [calls EXCEPT ![b] = Tail(@)]
  /\ UNCHANGED <<draining, conn, notify, sel, picked>>

addBackend(b) ==
  /\ conn[b] = "adding" /\ calls[b] # <<>>
  /\ LET m == calls[b][1][1]
         id == calls[b][1][2]
         bs == backends[m][id]
         classify == bs = <<>> /\ maintainRandomRoutingIndex(m)
     IN  /\ Unlocked(m)
         /\ backends' = [backends EXCEPT ![m][id] =
              IF b \in Range(bs) THEN bs ELSE Append(bs, b)]
         /\ nonDrainingAgentIDs' = [nonDrainingAgentIDs EXCEPT ![m] =
              IF classify /\ ~draining[b] THEN Append(@, id) ELSE @]
         /\ drainingAgentIDs' = [drainingAgentIDs EXCEPT ![m] =
              IF classify /\ draining[b] THEN Append(@, id) ELSE @]
  /\ calls' = [calls EXCEPT ![b] = Tail(@)]
  /\ UNCHANGED <<draining, conn, notify, sel, picked>>

(* addBackend is done: the receive goroutines start. *)
Connected(b) ==
  /\ conn[b] = "adding" /\ calls[b] = <<>>
  /\ conn' = [conn EXCEPT ![b] = "up"]
  /\ UNCHANGED <<draining, storage, calls, notify, sel, picked>>

(* The stream ended, or Done was closed: the deferred removeBackend runs. *)
StopConnect(b) ==
  /\ conn[b] = "up"
  /\ conn' = [conn EXCEPT ![b] = "removing"]
  /\ calls' = [calls EXCEPT ![b] = Calls(b)]
  /\ UNCHANGED <<draining, storage, notify, sel, picked>>

(* Mutant: the first connection is removed, whichever it is. *)
WithoutFirst(bs, b) == IF b \in Range(bs) THEN Tail(bs) ELSE bs

WithoutBackend(bs, b) ==
  IF b \notin Range(bs) THEN bs
  ELSE LET i == CHOOSE i \in DOMAIN bs : bs[i] = b
       IN  SubSeq(bs, 1, i - 1) \o SubSeq(bs, i + 1, Len(bs))

(* Mutant: the index is not refreshed. *)
removeBackendStale(b) ==
  /\ conn[b] = "removing" /\ calls[b] # <<>>
  /\ LET m == calls[b][1][1]
         id == calls[b][1][2]
     IN  /\ Unlocked(m)
         /\ backends' = [backends EXCEPT ![m][id] = WithoutBackend(@, b)]
  /\ calls' = [calls EXCEPT ![b] = Tail(@)]
  /\ UNCHANGED <<draining, nonDrainingAgentIDs, drainingAgentIDs, conn, notify,
                 sel, picked>>

removeBackend(b) ==
  /\ conn[b] = "removing" /\ calls[b] # <<>>
  /\ LET m == calls[b][1][1]
         id == calls[b][1][2]
         bs == WithoutBackend(backends[m][id], b)
     IN  /\ Unlocked(m)
         /\ backends' = [backends EXCEPT ![m][id] = bs]
         /\ IF backends[m][id] # <<>> /\ maintainRandomRoutingIndex(m)
            THEN refreshIdentifierState(m, id, bs)
            ELSE UNCHANGED <<nonDrainingAgentIDs, drainingAgentIDs>>
  /\ calls' = [calls EXCEPT ![b] = Tail(@)]
  /\ UNCHANGED <<draining, conn, notify, sel, picked>>

Disconnected(b) ==
  /\ conn[b] = "removing" /\ calls[b] = <<>>
  /\ conn' = [conn EXCEPT ![b] = "gone"]
  /\ UNCHANGED <<draining, storage, calls, notify, sel, picked>>

-----------------------------------------------------------------------------
(* Draining *)

(* DRAIN arrives: the flag is published before any manager is told. *)
SetDraining(b) ==
  /\ conn[b] \in {"up", "removing", "gone"} /\ notify[b] = 0
  /\ draining' = [draining EXCEPT ![b] = TRUE]
  /\ notify' = [notify EXCEPT ![b] = 1]
  /\ UNCHANGED <<storage, conn, calls, sel, picked>>

(* Mutant: compares with the latest connection of the agent. *)
markBackendDrainingLast(b) ==
  /\ notify[b] \in Manager
  /\ LET m == notify[b]
         bs == backends[m][AgentID[b]]
     IN  /\ Unlocked(m)
         /\ IF /\ maintainRandomRoutingIndex(m) /\ IdentsOf(m, b) # <<>>
               /\ bs # <<>> /\ bs[Len(bs)] = b
            THEN refreshIdentifierState(m, AgentID[b], bs)
            ELSE UNCHANGED <<nonDrainingAgentIDs, drainingAgentIDs>>
  /\ notify' = [notify EXCEPT ![b] = @ + 1]
  /\ UNCHANGED <<draining, backends, conn, calls, sel, picked>>

(* Mutant: a manager without the method ends the loop over the managers. *)
markBackendDrainingStops(b) ==
  /\ notify[b] \in Manager
  /\ LET m == notify[b]
         id == AgentID[b]
     IN  /\ Unlocked(m)
         /\ IF /\ maintainRandomRoutingIndex(m) /\ IdentsOf(m, b) # <<>>
               /\ backends[m][id] # <<>> /\ Primary(m, id) = b
            THEN refreshIdentifierState(m, id, backends[m][id])
            ELSE UNCHANGED <<nonDrainingAgentIDs, drainingAgentIDs>>
         /\ notify' = [notify EXCEPT ![b] =
              IF maintainRandomRoutingIndex(m) THEN @ + 1 ELSE Len(Strategies) + 1]
  /\ UNCHANGED <<draining, backends, conn, calls, sel, picked>>

(* markBackendDraining of the next manager.  destHost has no such method; *)
(* defaultRoute skips a connection that is not a default-route one.       *)
markBackendDraining(b) ==
  /\ notify[b] \in Manager
  /\ LET m == notify[b]
         id == AgentID[b]
     IN  /\ Unlocked(m)
         /\ IF /\ maintainRandomRoutingIndex(m) /\ IdentsOf(m, b) # <<>>
               /\ backends[m][id] # <<>> /\ Primary(m, id) = b
            THEN refreshIdentifierState(m, id, backends[m][id])
            ELSE UNCHANGED <<nonDrainingAgentIDs, drainingAgentIDs>>
  /\ notify' = [notify EXCEPT ![b] = @ + 1]
  /\ UNCHANGED <<draining, backends, conn, calls, sel, picked>>

(* Backend.Retire by the embedding program: no manager is told. *)
Retire(b) ==
  /\ conn[b] \in {"adding", "up"} /\ ~draining[b]
  /\ draining' = [draining EXCEPT ![b] = TRUE]
  /\ UNCHANGED <<storage, conn, calls, notify, sel, picked>>

-----------------------------------------------------------------------------
(* Selection *)

Idle == [pc |-> "idle", m |-> 0, host |-> NoBackend, first |-> NoBackend]

getBackend(h) ==
  /\ sel.pc = "idle"
  /\ sel' = [pc |-> "next", m |-> 1, host |-> h, first |-> NoBackend]
  /\ picked' = NoBackend
  /\ UNCHANGED <<draining, storage, conn, calls, notify>>

Return(b) == sel' = Idle /\ picked' = b

NotFound == sel' = [sel EXCEPT !.pc = "next", !.m = @ + 1] /\ UNCHANGED picked

(* DestHostBackendManager.Backend: the first connection of the host that  *)
(* is not draining, else its first connection.                            *)
DestHostBackend ==
  /\ sel.pc = "next" /\ sel.m \in Manager /\ Strategies[sel.m] = "destHost"
  /\ LET bs == backends[sel.m][sel.host]
         up == {i \in DOMAIN bs : ~draining[bs[i]]}
     IN  CASE up # {} -> \E i \in up : (\A j \in up : i <= j) /\ Return(bs[i])
           [] up = {} /\ bs # <<>> -> Return(bs[1])
           [] OTHER -> NotFound
  /\ UNCHANGED <<draining, storage, conn, calls, notify>>

(* GetRandomBackend takes the lock, unless nothing is registered. *)
GetRandomBackend ==
  /\ sel.pc = "next" /\ sel.m \in Manager /\ maintainRandomRoutingIndex(sel.m)
  /\ IF Registered(sel.m) = {} THEN NotFound
     ELSE sel' = [sel EXCEPT !.pc = "draw"] /\ UNCHANGED picked
  /\ UNCHANGED <<draining, storage, conn, calls, notify>>

(* Samples the first agent.  A stale entry is repaired and drawn again; a *)
(* sole agent is returned; otherwise a second one is sampled.             *)
DrawFirst ==
  /\ sel.pc = "draw"
  /\ \E i \in DOMAIN nonDrainingAgentIDs[sel.m] :
       LET id == nonDrainingAgentIDs[sel.m][i]
           b == Primary(sel.m, id)
       IN  CASE draining[b] ->
                  /\ refreshIdentifierState(sel.m, id, backends[sel.m][id])
                  /\ UNCHANGED <<sel, picked>>
             [] ~draining[b] /\ Len(nonDrainingAgentIDs[sel.m]) = 1 ->
                  /\ Return(b)
                  /\ UNCHANGED <<nonDrainingAgentIDs, drainingAgentIDs>>
             [] OTHER ->
                  /\ sel' = [sel EXCEPT !.pc = "second", !.first = id]
                  /\ UNCHANGED <<nonDrainingAgentIDs, drainingAgentIDs, picked>>
  /\ UNCHANGED <<draining, backends, conn, calls, notify>>

(* Mutant: a stale second agent leads to a refresh of the first. *)
DrawSecondWrong ==
  /\ sel.pc = "second"
  /\ \E i \in DOMAIN nonDrainingAgentIDs[sel.m] :
       LET id == nonDrainingAgentIDs[sel.m][i]
       IN  /\ id # sel.first
           /\ IF draining[Primary(sel.m, id)]
              THEN /\ refreshIdentifierState(sel.m, sel.first,
                                             backends[sel.m][sel.first])
                   /\ sel' = [sel EXCEPT !.pc = "draw", !.first = NoBackend]
                   /\ UNCHANGED picked
              ELSE /\ \E x \in {id, sel.first} : Return(Primary(sel.m, x))
                   /\ UNCHANGED <<nonDrainingAgentIDs, drainingAgentIDs>>
  /\ UNCHANGED <<draining, backends, conn, calls, notify>>

(* Samples a different second agent; either of the two may be preferred. *)
DrawSecond ==
  /\ sel.pc = "second"
  /\ \E i \in DOMAIN nonDrainingAgentIDs[sel.m] :
       LET id == nonDrainingAgentIDs[sel.m][i]
       IN  /\ id # sel.first
           /\ IF draining[Primary(sel.m, id)]
              THEN /\ refreshIdentifierState(sel.m, id, backends[sel.m][id])
                   /\ sel' = [sel EXCEPT !.pc = "draw", !.first = NoBackend]
                   /\ UNCHANGED picked
              ELSE /\ \E x \in {id, sel.first} : Return(Primary(sel.m, x))
                   /\ UNCHANGED <<nonDrainingAgentIDs, drainingAgentIDs>>
  /\ UNCHANGED <<draining, backends, conn, calls, notify>>

(* No agent is classified as not draining: fall back on a draining one. *)
DrawDraining ==
  /\ sel.pc = "draw" /\ nonDrainingAgentIDs[sel.m] = <<>>
  /\ IF drainingAgentIDs[sel.m] = <<>> THEN NotFound
     ELSE \E i \in DOMAIN drainingAgentIDs[sel.m] :
            Return(Primary(sel.m, drainingAgentIDs[sel.m][i]))
  /\ UNCHANGED <<draining, storage, conn, calls, notify>>

(* Every manager said not found. *)
NoneFound ==
  /\ sel.pc = "next" /\ sel.m \notin Manager
  /\ Return(NoBackend)
  /\ UNCHANGED <<draining, storage, conn, calls, notify>>

Select ==
  \/ DestHostBackend \/ GetRandomBackend
  \/ DrawFirst \/ DrawSecond \/ DrawDraining \/ NoneFound

-----------------------------------------------------------------------------
Init ==
  /\ draining = [b \in Backend |-> FALSE]
  /\ backends = [m \in Manager |-> [id \in Ident |-> <<>>]]
  /\ nonDrainingAgentIDs = [m \in Manager |-> <<>>]
  /\ drainingAgentIDs = [m \in Manager |-> <<>>]
  /\ conn = [b \in Backend |-> "new"]
  /\ calls = [b \in Backend |-> <<>>]
  /\ notify = [b \in Backend |-> 0]
  /\ sel = Idle
  /\ picked = NoBackend

Next ==
  \/ \E b \in Backend :
       \/ StartConnect(b) \/ addBackend(b) \/ Connected(b)
       \/ StopConnect(b) \/ removeBackend(b) \/ Disconnected(b)
       \/ SetDraining(b) \/ markBackendDraining(b) \/ Retire(b)
  \/ \E h \in Ident : getBackend(h)
  \/ Select

Spec == Init /\ [][Next]_vars

(* The goroutine that selects runs on until it returns. *)
FairSpec == Spec /\ WF_vars(Select)

-----------------------------------------------------------------------------
(* Properties *)

(* Every variable has its type (DefaultBackendStorage and its callers). *)
TypeOK ==
  /\ draining \in [Backend -> BOOLEAN]
  /\ backends \in [Manager -> [Ident -> Seq(Backend)]]
  /\ nonDrainingAgentIDs \in [Manager -> Seq(Ident)]
  /\ drainingAgentIDs \in [Manager -> Seq(Ident)]
  /\ conn \in [Backend -> {"new", "adding", "up", "removing", "gone"}]
  /\ calls \in [Backend -> Seq(Manager \X Ident)]
  /\ notify \in [Backend -> Nat]
  /\ sel \in [pc : {"idle", "next", "draw", "second"}, m : Nat,
              host : Ident \cup {NoBackend}, first : Ident \cup {NoBackend}]
  /\ picked \in Backend \cup {NoBackend}

(* The comment on the candidate index: each registered agent ID appears in *)
(* exactly one of the two slices, once, and nothing else does.             *)
IndexPartition ==
  \A m \in Manager : maintainRandomRoutingIndex(m) =>
    LET up == nonDrainingAgentIDs[m]
        down == drainingAgentIDs[m]
    IN  /\ IsInjective(up) /\ IsInjective(down)
        /\ Range(up) \cap Range(down) = {}
        /\ Range(up) \cup Range(down) = Registered(m)

(* The index is stale in one direction only: an agent listed as draining  *)
(* has a draining primary, so no usable agent is hidden from routing.     *)
DrainingListIsDraining ==
  \A m \in Manager : \A id \in Range(drainingAgentIDs[m]) :
    backends[m][id] # <<>> /\ draining[Primary(m, id)]

(* Both: the random-routing index and the draining flags agree on which    *)
(* agents may be routed to.                                                *)
IndexIsSound == IndexPartition /\ DrainingListIsDraining

(* Once markBackendDraining has passed a manager, the connection is never *)
(* again the primary of an agent listed as not draining there, whatever   *)
(* connections of the agent were added, promoted or removed meanwhile.    *)
NotifiedIsNotRouted ==
  \A m \in Manager : \A id \in Range(nonDrainingAgentIDs[m]) :
    /\ backends[m][id] # <<>>
    /\ notify[Primary(m, id)] <= m

(* A draining backend is returned as the fallback only when every agent's *)
(* primary is draining: "draining agents are used only as a last resort". *)
FallbackIsLastResort ==
  sel.pc = "draw" /\ nonDrainingAgentIDs[sel.m] = <<>> =>
    /\ drainingAgentIDs[sel.m] # <<>>
    /\ \A id \in Registered(sel.m) : draining[Primary(sel.m, id)]

(* A connection is held once per identifier from the end of addBackend to *)
(* the start of removeBackend, and nowhere before the one or after the    *)
(* other: no storage keeps a connection whose connect has returned.       *)
RegisteredWhileUp ==
  \A b \in Backend, m \in Manager, id \in Ident :
    LET held == {i \in DOMAIN backends[m][id] : backends[m][id][i] = b}
        mine == id \in Range(IdentsOf(m, b))
    IN  /\ conn[b] \in {"new", "gone"} => held = {}
        /\ conn[b] = "up" => (mine <=> held # {})
        /\ \A i, j \in held : i = j

(* Redrawing ends: each redraw has repaired a stale entry, and the lock   *)
(* keeps new ones from being added.                                       *)
SelectionReturns == sel.pc # "idle" ~> sel.pc = "idle"
=============================================================================
