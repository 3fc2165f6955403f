---------------------------- MODULE ForwardProxy ----------------------------
(* Requests other than CONNECT (pkg/server/tunnel.go): each is sent through *)
(* the agent connection selected for it, over a pool of connections that    *)
(* belongs to that agent connection (Tunnel.transports) and is discarded by *)
(* a callback on the end of its context.                                    *)
(*                                                                          *)
(* http.Transport is external: it takes an idle connection or dials, and    *)
(* keeps the connection afterwards.  A connection dies with its backend     *)
(* (module ServerConn).                                                     *)
EXTENDS Integers, FiniteSets

CONSTANTS
  Backend, Request,
  DialTimeout,   \* backendDialTimeout > 0
  NoBackend,
  MaxPool        \* bound: pools made for a backend

VARIABLES
  ctxDone, registered,   \* backends whose context ended; backends to choose from
  transports,   \* the pools in the map, at most one for a backend
  hooks,        \* pools whose AfterFunc has not run
  made,         \* pools made for each backend
  idle,         \* pools that hold an idle connection
  req           \* per request: how far it is, backend, pool, connection, status,
                \* and what made it fail

vars == <<ctxDone, registered, transports, hooks, made, idle, req>>

Pool == Backend \X (1..MaxPool)
Of(b, pools) == {p \in pools : p[1] = b}
NewReq == [pc |-> "new", backend |-> NoBackend, pool |-> {}, via |-> {}, status |-> 0,
           cause |-> "none"]

Init ==
  /\ ctxDone = {} /\ registered = Backend /\ transports = {} /\ hooks = {}
  /\ made = [b \in Backend |-> 0] /\ idle = {} /\ req = [r \in Request |-> NewReq]

Goto(r, pc) == req' = [req EXCEPT ![r].pc = pc]
ReqOnly == <<ctxDone, registered>>
PoolVars == <<transports, hooks, made, idle>>

-----------------------------------------------------------------------------
(* Failures: an error is the set of phrases in its text.  AgentCauses are  *)
(* what an agent may say of its own dial in the error of a DIAL_RSP: no     *)
(* answer in time, no file left, or anything else.                          *)

AgentCauses == {"slow", "exhausted", "refused"}

Error(cause) ==
  CASE cause = "no_agent"  -> {"no_agent_available"}
    [] cause = "timeout"   -> IF DialTimeout THEN {"timed_out"} ELSE {"deadline_exceeded"}
    [] cause = "closed"    -> {"backend_connection_closed_while_dialing"}
    [] cause = "slow"      -> {"timeout"}
    [] cause = "exhausted" -> {"too_many_open_files"}
    [] cause = "refused"   -> {"connection_refused"}
    [] cause = "broken"    -> {"unexpected_EOF"}

(* Mutant: the patterns that mean 503 are looked for last. *)
mapUnavailableLast(err) ==
  IF err \cap {"timeout", "timed_out", "deadline_exceeded"} # {} THEN 504 ELSE 502

(* The first pattern found decides; anything else is a 502. *)
mapDialErrorToHTTPStatus(err) ==
  IF err \cap {"timeout", "timed_out", "deadline_exceeded"} # {} THEN 504
  ELSE IF err \cap {"no_agent_available", "too_many_open_files"} # {} THEN 503
  ELSE 502

Fail(r, cause) ==
  req' = [req EXCEPT ![r].pc = "over", ![r].cause = cause,
                     ![r].status = mapDialErrorToHTTPStatus(Error(cause))]

-----------------------------------------------------------------------------
(* roundTrip *)

GetBackend(r) ==
  /\ req[r].pc = "new"
  /\ \/ \E b \in registered :
          req' = [req EXCEPT ![r].pc = "chosen", ![r].backend = b]
     \/ registered = {} /\ Fail(r, "no_agent")
  /\ UNCHANGED <<ReqOnly, PoolVars>>

(* Mutant: the callback is registered for the first pool only. *)
transportForOnce(r) ==
  LET b == req[r].backend
      new == <<b, made[b] + 1>>
  IN  /\ req[r].pc = "chosen"
      /\ IF Of(b, transports) # {}
           THEN req' = [req EXCEPT ![r].pc = "pooled", ![r].pool = Of(b, transports)]
                /\ UNCHANGED PoolVars
           ELSE /\ made[b] < MaxPool /\ made' = [made EXCEPT ![b] = @ + 1]
                /\ transports' = transports \cup {new}
                /\ hooks' = IF made[b] = 0 THEN hooks \cup {new} ELSE hooks
                /\ req' = [req EXCEPT ![r].pc = "pooled", ![r].pool = {new}]
                /\ UNCHANGED idle
      /\ UNCHANGED ReqOnly

(* The pool of the backend, or a new one with a callback of its own. *)
transportFor(r) ==
  LET b == req[r].backend
      new == <<b, made[b] + 1>>
  IN  /\ req[r].pc = "chosen"
      /\ IF Of(b, transports) # {}
           THEN req' = [req EXCEPT ![r].pc = "pooled", ![r].pool = Of(b, transports)]
                /\ UNCHANGED PoolVars
           ELSE /\ made[b] < MaxPool /\ made' = [made EXCEPT ![b] = @ + 1]
                /\ transports' = transports \cup {new} /\ hooks' = hooks \cup {new}
                /\ req' = [req EXCEPT ![r].pc = "pooled", ![r].pool = {new}]
                /\ UNCHANGED idle
      /\ UNCHANGED ReqOnly

(* Mutant: one pool serves every request. *)
AnyIdle(r) ==
  /\ req[r].pc = "pooled"
  /\ \E p \in idle : /\ req' = [req EXCEPT ![r].pc = "sent", ![r].via = {p}]
                     /\ idle' = idle \ {p}
  /\ UNCHANGED <<ReqOnly, transports, hooks, made>>

(* http.Transport: an idle connection of the pool. *)
Reuse(r) ==
  /\ req[r].pc = "pooled"
  /\ \E p \in idle \cap req[r].pool :
       req' = [req EXCEPT ![r].pc = "sent", ![r].via = {p}] /\ idle' = idle \ {p}
  /\ UNCHANGED <<ReqOnly, transports, hooks, made>>

(* ... or dialBackend, which fails by what the agent answers, the end of    *)
(* the backend or one of the two timeouts.                                  *)
Dial(r) ==
  LET b == req[r].backend
  IN  /\ req[r].pc = "pooled" /\ idle \cap req[r].pool = {}
      /\ \/ b \notin ctxDone
            /\ req' = [req EXCEPT ![r].pc = "sent", ![r].via = req[r].pool]
         \/ b \in ctxDone /\ Fail(r, "closed")
         \/ Fail(r, "timeout") \/ \E cause \in AgentCauses : Fail(r, cause)
      /\ UNCHANGED <<ReqOnly, PoolVars>>

(* The response: a connection that is still alive becomes idle. *)
Respond(r) ==
  /\ req[r].pc = "sent"
  /\ req' = [req EXCEPT ![r].pc = "over", ![r].via = {}, ![r].status = 200]
  /\ idle' = idle \cup {p \in req[r].via : p[1] \notin ctxDone}
  /\ UNCHANGED <<ReqOnly, transports, hooks, made>>

(* The connection ends before the response: the request is sent again, if  *)
(* that is safe, or fails.                                                 *)
Break(r) ==
  /\ req[r].pc = "sent"
  /\ Fail(r, "broken") \/ req' = [req EXCEPT ![r].pc = "pooled", ![r].via = {}]
  /\ UNCHANGED <<ReqOnly, PoolVars>>

Again(r) == /\ req[r].pc = "over" /\ req' = [req EXCEPT ![r] = NewReq]
            /\ UNCHANGED <<ReqOnly, PoolVars>>

-----------------------------------------------------------------------------
(* The agent connection drains, ends, and leaves the backend managers *)

Drain(b) == /\ registered' = registered \ {b}
            /\ UNCHANGED <<ctxDone, PoolVars, req>>

(* The end of a backend kills its idle connections (serverConn.Close). *)
BackendEnds(b) ==
  /\ b \notin ctxDone /\ ctxDone' = ctxDone \cup {b}
  /\ idle' = idle \ Of(b, idle)
  /\ UNCHANGED <<registered, transports, hooks, made, req>>

(* The AfterFunc deletes whatever pool the backend has by now. *)
DiscardPool(p) ==
  /\ p \in hooks /\ p[1] \in ctxDone /\ hooks' = hooks \ {p}
  /\ transports' = transports \ Of(p[1], transports)
  /\ idle' = idle \ {p}
  /\ UNCHANGED <<ReqOnly, made, req>>

Next == \/ \E r \in Request : GetBackend(r) \/ transportFor(r) \/ Reuse(r) \/ Dial(r)
                              \/ Respond(r) \/ Break(r) \/ Again(r)
        \/ \E b \in Backend : Drain(b) \/ BackendEnds(b)
        \/ \E p \in Pool : DiscardPool(p)

Spec == Init /\ [][Next]_vars
Fairness == \A p \in Pool : WF_vars(DiscardPool(p))

FairSpec == Spec /\ Fairness

-----------------------------------------------------------------------------
(* Every variable has its type, and a backend has one pool at a time. *)
TypeOK ==
  /\ transports \subseteq Pool /\ hooks \subseteq Pool /\ idle \subseteq Pool
  /\ \A b \in Backend : Cardinality(Of(b, transports)) <= 1
  /\ \A r \in Request : req[r].status \in {0, 200, 502, 503, 504}

(* A request goes over a connection of the backend selected for it, never  *)
(* over one that an earlier request left behind in another backend's pool. *)
RequestsUseTheirBackend ==
  \A r \in Request : \A p \in req[r].via : p[1] = req[r].backend

(* Every pool in the map has a callback that will discard it, also when    *)
(* the backend ended between its selection and transportFor, and when the  *)
(* callback of an older pool of the backend is still to run.               *)
PoolsAreWatched ==
  \A b \in Backend : Of(b, transports) # {} => Of(b, hooks) # {}

(* The pool of a backend that ended does not stay in the map, although     *)
(* requests that chose the backend before may bring a new one.             *)
DeadPoolsGo ==
  \A b \in Backend : []<>(b \in ctxDone => Of(b, transports) = {})

(* The client can tell what to do: 503 asks it to try again, and it gets   *)
(* that exactly when there was no agent for the request, or the agent that *)
(* it was given had no file left to dial with.  The end of an agent, a     *)
(* timeout or a refusal after an agent was found is answered otherwise.    *)
UnavailableIsRetryable ==
  \A r \in Request : req[r].pc = "over" =>
    (req[r].status = 503 <=> req[r].backend = NoBackend \/ req[r].cause = "exhausted")

(* The three together: from its choice to its answer a request keeps to    *)
(* one agent, and the pools on its way are watched.                        *)
RequestsKeepToTheirAgent ==
  RequestsUseTheirBackend /\ UnavailableIsRetryable /\ PoolsAreWatched

=============================================================================
