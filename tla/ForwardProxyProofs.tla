------------------------- MODULE ForwardProxyProofs -------------------------
(* Theorems about module ForwardProxy, for any backends, requests and       *)
(* number of pools.                                                         *)
EXTENDS ForwardProxy, TLAPS

Options == NoBackend \notin Backend /\ DialTimeout \in BOOLEAN

Pools == Backend \X Nat

PCs == {"new", "chosen", "pooled", "sent", "over"}
Statuses == {0, 200, 502, 503, 504}
Causes == {"none", "no_agent", "timeout", "closed", "slow", "exhausted", "refused",
           "broken"}
Requests == [pc : PCs, backend : Backend \cup {NoBackend}, pool : SUBSET Pools,
             via : SUBSET Pools, status : Statuses, cause : Causes]

Types == /\ req \in [Request -> Requests] /\ made \in [Backend -> Nat]
         /\ registered \subseteq Backend
         /\ transports \subseteq Pools /\ hooks \subseteq Pools

(* A request keeps to its backend from the choice to the response: its pool *)
(* and its connection are that backend's.  It has failed for no cause until *)
(* it is over, and only a request that found no backend, or one that could  *)
(* open no file, is answered 503.                                           *)
Loyal(q) ==
  /\ \A p \in q.pool \cup q.via : p[1] = q.backend
  /\ q.pc = "new" => q = NewReq
  /\ q.pc \in {"chosen", "pooled", "sent"} => q.backend \in Backend /\ q.cause = "none"
  /\ q.pc = "over" => (q.status = 503 <=> q.backend = NoBackend \/ q.cause = "exhausted")

Inv == /\ Types /\ PoolsAreWatched
       /\ \A r \in Request : Loyal(req[r])

(* The causes of a failure that map to 503, and to something else.          *)
LEMMA StatusOfFailure ==
  ASSUME Options
  PROVE  /\ \A cause \in {"no_agent", "exhausted"} :
              mapDialErrorToHTTPStatus(Error(cause)) = 503
         /\ \A cause \in {"timeout", "closed", "slow", "refused", "broken"} :
              mapDialErrorToHTTPStatus(Error(cause)) \in {502, 504}
<1>1. ASSUME NEW cause \in {"no_agent", "exhausted"}
      PROVE  mapDialErrorToHTTPStatus(Error(cause)) = 503
  <2>1. Error("no_agent") = {"no_agent_available"} /\ Error("exhausted") = {"too_many_open_files"}
    BY DEF Error
  <2>2. \E x \in Error(cause) : x \in {"no_agent_available", "too_many_open_files"}
    BY <1>1, <2>1
  <2>3. \A x \in Error(cause) : x \notin {"timeout", "timed_out", "deadline_exceeded"}
    BY <1>1, <2>1
  <2>. QED  BY <2>2, <2>3 DEF mapDialErrorToHTTPStatus
<1>2. ASSUME NEW cause \in {"timeout", "closed", "slow", "refused", "broken"}
      PROVE  mapDialErrorToHTTPStatus(Error(cause)) \in {502, 504}
  <2>1. /\ Error("closed") = {"backend_connection_closed_while_dialing"}
        /\ Error("slow") = {"timeout"} /\ Error("refused") = {"connection_refused"}
        /\ Error("broken") = {"unexpected_EOF"}
    BY DEF Error
  <2>2. Error("timeout") \in {{"timed_out"}, {"deadline_exceeded"}}
    BY DEF Error
  <2>3. \A x \in Error(cause) : x \notin {"no_agent_available", "too_many_open_files"}
    BY <1>2, <2>1, <2>2
  <2>. QED  BY <2>3 DEF mapDialErrorToHTTPStatus
<1>. QED  BY <1>1, <1>2

(* A new request is loyal.                                                  *)
LEMMA NewIsLoyal == NewReq \in Requests /\ Loyal(NewReq)
<1>1. NewReq \in Requests
  BY DEF NewReq, Requests, PCs, Statuses, Causes
<1>2. Loyal(NewReq)
  BY DEF NewReq, Loyal
<1>. QED  BY <1>1, <1>2

(* Every request is new at first, and there are no pools.                   *)
LEMMA InitInv == ASSUME Options PROVE Init => Inv
<1>. SUFFICES ASSUME Init  PROVE Inv
  OBVIOUS
<1>1. NewReq \in Requests /\ Loyal(NewReq)
  BY NewIsLoyal
<1>2. Types
  BY <1>1 DEF Init, Types
<1>3. PoolsAreWatched
  BY DEF Init, PoolsAreWatched, Of
<1>. QED  BY <1>1, <1>2, <1>3 DEF Init, Inv

(* A request whose fields are assigned, one after the other, is a request. *)
LEMMA Assigned ==
  ASSUME NEW f \in [Request -> Requests], NEW r \in Request
  PROVE  /\ \A x \in PCs : [f EXCEPT ![r].pc = x] \in [Request -> Requests]
         /\ \A x \in Backend : [f EXCEPT ![r].backend = x] \in [Request -> Requests]
         /\ \A x \in SUBSET Pools : [f EXCEPT ![r].pool = x] \in [Request -> Requests]
         /\ \A x \in SUBSET Pools : [f EXCEPT ![r].via = x] \in [Request -> Requests]
         /\ \A x \in Statuses : [f EXCEPT ![r].status = x] \in [Request -> Requests]
         /\ \A x \in Causes : [f EXCEPT ![r].cause = x] \in [Request -> Requests]
<1>1. \A x \in PCs : [f EXCEPT ![r].pc = x] \in [Request -> Requests]
  BY DEF Requests
<1>2. \A x \in Backend : [f EXCEPT ![r].backend = x] \in [Request -> Requests]
  BY DEF Requests
<1>3. \A x \in SUBSET Pools : [f EXCEPT ![r].pool = x] \in [Request -> Requests]
  BY DEF Requests
<1>4. \A x \in SUBSET Pools : [f EXCEPT ![r].via = x] \in [Request -> Requests]
  BY DEF Requests
<1>5. \A x \in Statuses : [f EXCEPT ![r].status = x] \in [Request -> Requests]
  BY DEF Requests
<1>6. \A x \in Causes : [f EXCEPT ![r].cause = x] \in [Request -> Requests]
  BY DEF Requests
<1>. QED  BY <1>1, <1>2, <1>3, <1>4, <1>5, <1>6

(* The steps of a request that leave the pools alone keep the invariant     *)
(* when they leave the request loyal.                                       *)
LEMMA RequestStep ==
  ASSUME Inv, NEW r \in Request, req' \in [Request -> Requests],
         \A s \in Request \ {r} : req'[s] = req[s], Loyal(req'[r]),
         UNCHANGED <<registered, transports, hooks, made>>
  PROVE  Inv'
<1>1. Types'
  BY DEF Inv, Types
<1>2. PoolsAreWatched'
  BY DEF Inv, PoolsAreWatched, Of
<1>3. ASSUME NEW s \in Request  PROVE Loyal(req'[s])
  BY DEF Inv
<1>. QED  BY <1>1, <1>2, <1>3 DEF Inv, Loyal, NewReq

(* A request that fails for lack of an agent, or after it had one.          *)
LEMMA FailedStep ==
  ASSUME Options, Inv, NEW r \in Request, NEW cause \in Causes \ {"none"},
         cause = "no_agent" <=> req[r].backend = NoBackend, Fail(r, cause),
         UNCHANGED <<registered, transports, hooks, made>>
  PROVE  Inv'
<1>. DEFINE status == mapDialErrorToHTTPStatus(Error(cause))
<1>1. status \in {502, 503, 504} /\ (status = 503 <=> cause \in {"no_agent", "exhausted"})
  BY StatusOfFailure DEF Causes
<1>2. req' = [req EXCEPT ![r].pc = "over", ![r].cause = cause, ![r].status = status]
  BY DEF Fail
<1>. HIDE DEF status
<1>3. req' \in [Request -> Requests] /\ \A s \in Request \ {r} : req'[s] = req[s]
  <2>1. [req EXCEPT ![r].pc = "over"] \in [Request -> Requests]
    BY Zenon, Assigned DEF Inv, Types, PCs
  <2>. DEFINE f == [[req EXCEPT ![r].pc = "over"] EXCEPT ![r].cause = cause]
  <2>2. f \in [Request -> Requests]
    BY Zenon, <2>1, Assigned
  <2>. HIDE DEF f
  <2>3. [f EXCEPT ![r].status = status] \in [Request -> Requests]
    <3>1. status \in Statuses
      BY <1>1 DEF Statuses
    <3>. QED  BY Zenon, <2>2, <3>1, Assigned
  <2>. QED  BY <1>1, <1>2, <2>3 DEF f, Inv, Types
<1>4. /\ req'[r].pc = "over" /\ req'[r].status = status /\ req'[r].cause = cause
      /\ req'[r].pool = req[r].pool /\ req'[r].via = req[r].via
      /\ req'[r].backend = req[r].backend
  BY <1>2 DEF Inv, Types, Requests
<1>5. Loyal(req'[r])
  BY <1>1, <1>4 DEF Inv, Loyal
<1>. QED  BY <1>3, <1>5, RequestStep

(* The inductive step, one action after the other.                          *)
LEMMA NextInv == ASSUME Options PROVE Inv /\ [Next]_vars => Inv'
<1>. SUFFICES ASSUME Inv, [Next]_vars  PROVE Inv'
  OBVIOUS
<1>1. ASSUME NEW r \in Request, GetBackend(r)  PROVE Inv'
  <2>. UNCHANGED <<registered, transports, hooks, made>>
    BY <1>1 DEF GetBackend, ReqOnly, PoolVars
  <2>1. /\ req[r].backend = NoBackend /\ req[r].pool = {} /\ req[r].via = {}
        /\ req[r].cause = "none"
    BY <1>1 DEF GetBackend, Inv, Loyal, NewReq
  <2>2. ASSUME NEW b \in registered,
               req' = [req EXCEPT ![r].pc = "chosen", ![r].backend = b]
        PROVE  Inv'
    <3>1. req' \in [Request -> Requests] /\ \A s \in Request \ {r} : req'[s] = req[s]
      <4>1. [req EXCEPT ![r].pc = "chosen"] \in [Request -> Requests]
        BY Zenon, Assigned DEF Inv, Types, PCs
      <4>2. [[req EXCEPT ![r].pc = "chosen"] EXCEPT ![r].backend = b] \in [Request -> Requests]
        BY Zenon, <2>2, <4>1, Assigned DEF Inv, Types
      <4>. QED  BY <2>2, <4>2 DEF Inv, Types
    <3>2. /\ req'[r].pc = "chosen" /\ req'[r].backend = b
          /\ req'[r].pool = {} /\ req'[r].via = {} /\ req'[r].cause = "none"
      BY <2>1, <2>2 DEF Inv, Types, Requests
    <3>3. Loyal(req'[r])
      BY <3>2 DEF Inv, Types, Loyal
    <3>. QED  BY <3>1, <3>3, RequestStep
  <2>3. ASSUME Fail(r, "no_agent")  PROVE Inv'
    BY <2>1, <2>3, FailedStep DEF Causes
  <2>. QED  BY <1>1, <2>2, <2>3 DEF GetBackend
<1>2. ASSUME NEW r \in Request, transportFor(r)  PROVE Inv'
  <2>. DEFINE b == req[r].backend
              new == <<b, made[b] + 1>>
  <2>1. b \in Backend /\ req[r].cause = "none" /\ \A p \in req[r].via : p[1] = b
    BY <1>2 DEF transportFor, Inv, Loyal
  <2>2. CASE Of(b, transports) # {}
    <3>0. /\ req' = [req EXCEPT ![r].pc = "pooled", ![r].pool = Of(b, transports)]
          /\ UNCHANGED <<registered, transports, hooks, made>>
      BY <1>2, <2>2 DEF transportFor, ReqOnly, PoolVars
    <3>1. Of(b, transports) \in SUBSET Pools /\ \A p \in Of(b, transports) : p[1] = b
      BY DEF Inv, Types, Of
    <3>2. req' \in [Request -> Requests] /\ \A s \in Request \ {r} : req'[s] = req[s]
      <4>1. [req EXCEPT ![r].pc = "pooled"] \in [Request -> Requests]
        BY Zenon, Assigned DEF Inv, Types, PCs
      <4>2. [[req EXCEPT ![r].pc = "pooled"] EXCEPT ![r].pool = Of(b, transports)] \in [Request -> Requests]
        BY Zenon, <3>0, <3>1, <4>1, Assigned
      <4>. QED  BY <3>0, <3>1, <4>2 DEF Inv, Types
    <3>3. /\ req'[r].pc = "pooled" /\ req'[r].pool = Of(b, transports)
          /\ req'[r].backend = b /\ req'[r].via = req[r].via
          /\ req'[r].cause = req[r].cause
      BY <3>0 DEF Inv, Types, Requests
    <3>4. Loyal(req'[r])
      BY <2>1, <3>1, <3>3 DEF Loyal
    <3>. QED  BY <3>0, <3>2, <3>4, RequestStep
  <2>3. CASE Of(b, transports) = {}
    <3>0. /\ req' = [req EXCEPT ![r].pc = "pooled", ![r].pool = {new}]
          /\ registered' = registered /\ made' = [made EXCEPT ![b] = @ + 1]
          /\ transports' = transports \cup {new} /\ hooks' = hooks \cup {new}
      BY <1>2, <2>3 DEF transportFor, ReqOnly
    <3>1. new \in Pools /\ new[1] = b
      BY <2>1 DEF Inv, Types, Pools
    <3>. HIDE DEF new
    <3>2. req' \in [Request -> Requests] /\ \A s \in Request \ {r} : req'[s] = req[s]
      <4>1. [req EXCEPT ![r].pc = "pooled"] \in [Request -> Requests]
        BY Zenon, Assigned DEF Inv, Types, PCs
      <4>2. [[req EXCEPT ![r].pc = "pooled"] EXCEPT ![r].pool = {new}] \in [Request -> Requests]
        <5>1. {new} \in SUBSET Pools
          BY <3>1
        <5>. QED  BY Zenon, <4>1, <5>1, Assigned
      <4>. QED  BY <3>0, <3>1, <4>2 DEF Inv, Types
    <3>3. /\ req'[r].pc = "pooled" /\ req'[r].pool = {new}
          /\ req'[r].backend = b /\ req'[r].via = req[r].via
          /\ req'[r].cause = req[r].cause
      BY <3>0 DEF Inv, Types, Requests
    <3>4. Loyal(req'[r])
      BY <2>1, <3>1, <3>3 DEF Loyal
    <3>5. Types'
      BY <2>1, <3>0, <3>1, <3>2 DEF Inv, Types
    <3>6. PoolsAreWatched'
      BY <3>0, <3>1 DEF Inv, PoolsAreWatched, Of
    <3>7. ASSUME NEW s \in Request  PROVE Loyal(req'[s])
      BY <3>2, <3>4 DEF Inv
    <3>. QED  BY Zenon, <3>5, <3>6, <3>7 DEF Inv, Loyal, NewReq
  <2>. QED  BY <2>2, <2>3
<1>3. ASSUME NEW r \in Request, Reuse(r)  PROVE Inv'
  <2>1. PICK p \in req[r].pool : req' = [req EXCEPT ![r].pc = "sent", ![r].via = {p}]
    BY Zenon, <1>3 DEF Reuse
  <2>2. /\ p \in Pools /\ p[1] = req[r].backend /\ req[r].backend \in Backend
        /\ req[r].cause = "none"
    BY <1>3, <2>1 DEF Reuse, Inv, Types, Requests, Loyal
  <2>3. req' \in [Request -> Requests] /\ \A s \in Request \ {r} : req'[s] = req[s]
    <3>1. [req EXCEPT ![r].pc = "sent"] \in [Request -> Requests]
      BY Zenon, Assigned DEF Inv, Types, PCs
    <3>2. [[req EXCEPT ![r].pc = "sent"] EXCEPT ![r].via = {p}] \in [Request -> Requests]
      <4>1. {p} \in SUBSET Pools
        BY <2>2
      <4>. QED  BY Zenon, <3>1, <4>1, Assigned
    <3>. QED  BY <2>1, <2>2, <3>2 DEF Inv, Types
  <2>4. /\ req'[r].pc = "sent" /\ req'[r].via = {p}
        /\ req'[r].backend = req[r].backend /\ req'[r].pool = req[r].pool
        /\ req'[r].cause = req[r].cause
    BY <2>1 DEF Inv, Types, Requests
  <2>5. Loyal(req'[r])
    BY <2>2, <2>4 DEF Inv, Loyal
  <2>. QED  BY <1>3, <2>3, <2>5, RequestStep DEF Reuse, ReqOnly
<1>4. ASSUME NEW r \in Request, Dial(r)  PROVE Inv'
  <2>. UNCHANGED <<registered, transports, hooks, made>>
    BY <1>4 DEF Dial, ReqOnly, PoolVars
  <2>1. req[r].backend \in Backend /\ req[r].cause = "none"
    BY <1>4 DEF Dial, Inv, Loyal
  <2>2. ASSUME req' = [req EXCEPT ![r].pc = "sent", ![r].via = req[r].pool]  PROVE Inv'
    <3>1. req' \in [Request -> Requests] /\ \A s \in Request \ {r} : req'[s] = req[s]
      <4>1. [req EXCEPT ![r].pc = "sent"] \in [Request -> Requests]
        BY Zenon, Assigned DEF Inv, Types, PCs
      <4>2. [[req EXCEPT ![r].pc = "sent"] EXCEPT ![r].via = req[r].pool] \in [Request -> Requests]
        BY ZenonT(60), <2>2, <4>1, Assigned DEF Inv, Types, Requests
      <4>. QED  BY <2>2, <4>2 DEF Inv, Types
    <3>2. /\ req'[r].pc = "sent" /\ req'[r].via = req[r].pool
          /\ req'[r].backend = req[r].backend /\ req'[r].pool = req[r].pool
          /\ req'[r].cause = req[r].cause
      BY <2>2 DEF Inv, Types, Requests
    <3>3. Loyal(req'[r])
      BY <2>1, <3>2 DEF Inv, Loyal
    <3>. QED  BY <3>1, <3>3, RequestStep
  <2>3. ASSUME NEW cause \in {"closed", "timeout", "slow", "exhausted", "refused"},
               Fail(r, cause)
        PROVE  Inv'
    BY <2>1, <2>3, FailedStep DEF Options, Causes
  <2>. QED  BY <1>4, <2>2, <2>3 DEF Dial, AgentCauses
<1>5. ASSUME NEW r \in Request, Respond(r)  PROVE Inv'
  <2>1. req' = [req EXCEPT ![r].pc = "over", ![r].via = {}, ![r].status = 200]
    BY <1>5 DEF Respond
  <2>2. req' \in [Request -> Requests] /\ \A s \in Request \ {r} : req'[s] = req[s]
    <3>1. [req EXCEPT ![r].pc = "over"] \in [Request -> Requests]
      BY Zenon, Assigned DEF Inv, Types, PCs
    <3>. DEFINE f == [[req EXCEPT ![r].pc = "over"] EXCEPT ![r].via = {}]
    <3>2. f \in [Request -> Requests]
      BY Zenon, <3>1, Assigned
    <3>. HIDE DEF f
    <3>3. [f EXCEPT ![r].status = 200] \in [Request -> Requests]
      <4>1. 200 \in Statuses
        BY DEF Statuses
      <4>. QED  BY <3>2, <4>1, Assigned
    <3>. QED  BY <2>1, <3>3 DEF f, Inv, Types
  <2>3. /\ req'[r].pc = "over" /\ req'[r].via = {} /\ req'[r].status = 200
        /\ req'[r].backend = req[r].backend /\ req'[r].pool = req[r].pool
        /\ req'[r].cause = req[r].cause
    BY <2>1 DEF Inv, Types, Requests
  <2>4. Loyal(req'[r])
    <3>1. /\ req[r].backend \in Backend /\ req[r].cause = "none"
          /\ \A p \in req[r].pool : p[1] = req[r].backend
      BY <1>5 DEF Respond, Inv, Loyal
    <3>. QED  BY <2>3, <3>1 DEF Loyal, Options
  <2>. QED  BY <1>5, <2>2, <2>4, RequestStep DEF Respond, ReqOnly
<1>6. ASSUME NEW r \in Request, Again(r)  PROVE Inv'
  <2>1. req' = [req EXCEPT ![r] = NewReq]
    BY <1>6 DEF Again
  <2>2. NewReq \in Requests /\ Loyal(NewReq)
    BY NewIsLoyal
  <2>3. /\ req' \in [Request -> Requests] /\ req'[r] = NewReq
        /\ \A s \in Request \ {r} : req'[s] = req[s]
    BY <2>1, <2>2 DEF Inv, Types
  <2>. QED  BY <1>6, <2>2, <2>3, RequestStep DEF Again, ReqOnly, PoolVars
<1>7. ASSUME NEW b \in Backend, Drain(b) \/ BackendEnds(b)  PROVE Inv'
  <2>1. UNCHANGED <<transports, hooks, made, req>> /\ registered' \subseteq registered
    BY <1>7 DEF Drain, BackendEnds, PoolVars
  <2>2. Types'
    BY <2>1 DEF Inv, Types
  <2>3. PoolsAreWatched'
    BY <2>1 DEF Inv, PoolsAreWatched, Of
  <2>4. ASSUME NEW s \in Request  PROVE Loyal(req'[s])
    BY <2>1 DEF Inv
  <2>. QED  BY Zenon, <2>2, <2>3, <2>4 DEF Inv, Loyal, NewReq
<1>8. ASSUME NEW p \in Pool, DiscardPool(p)  PROVE Inv'
  BY <1>8 DEF DiscardPool, ReqOnly, Inv, Types, PoolsAreWatched, Of, Loyal, NewReq
<1>9. CASE UNCHANGED vars
  BY <1>9 DEF vars, Inv, Types, PoolsAreWatched, Of, Loyal, NewReq
<1>10. ASSUME NEW r \in Request, Break(r)  PROVE Inv'
  <2>. UNCHANGED <<registered, transports, hooks, made>>
    BY <1>10 DEF Break, ReqOnly, PoolVars
  <2>1. /\ req[r].backend \in Backend /\ req[r].cause = "none"
        /\ \A p \in req[r].pool : p[1] = req[r].backend
    BY <1>10 DEF Break, Inv, Loyal
  <2>2. ASSUME Fail(r, "broken")  PROVE Inv'
    BY <2>1, <2>2, FailedStep DEF Options, Causes
  <2>3. ASSUME req' = [req EXCEPT ![r].pc = "pooled", ![r].via = {}]  PROVE Inv'
    <3>1. req' \in [Request -> Requests] /\ \A s \in Request \ {r} : req'[s] = req[s]
      <4>1. [req EXCEPT ![r].pc = "pooled"] \in [Request -> Requests]
        BY Zenon, Assigned DEF Inv, Types, PCs
      <4>2. [[req EXCEPT ![r].pc = "pooled"] EXCEPT ![r].via = {}] \in [Request -> Requests]
        BY Zenon, <4>1, Assigned
      <4>. QED  BY <2>3, <4>2 DEF Inv, Types
    <3>2. /\ req'[r].pc = "pooled" /\ req'[r].via = {} /\ req'[r].pool = req[r].pool
          /\ req'[r].backend = req[r].backend /\ req'[r].cause = req[r].cause
      BY <2>3 DEF Inv, Types, Requests
    <3>3. Loyal(req'[r])
      BY <2>1, <3>2 DEF Loyal
    <3>. QED  BY <3>1, <3>3, RequestStep
  <2>. QED  BY <1>10, <2>2, <2>3 DEF Break
<1>. QED  BY <1>1, <1>2, <1>3, <1>4, <1>5, <1>6, <1>7, <1>8, <1>9, <1>10 DEF Next

(* The inductive invariant of every behaviour.                              *)
THEOREM Invariance == ASSUME Options PROVE Spec => []Inv
BY InitInv, NextInv, PTL DEF Spec

(* A request goes over a connection of the backend chosen for it.           *)
THEOREM OwnBackend == ASSUME Options PROVE Spec => []RequestsUseTheirBackend
<1>1. Inv => RequestsUseTheirBackend
  BY DEF Inv, Loyal, RequestsUseTheirBackend
<1>. QED  BY <1>1, Invariance, PTL

(* A pool in the map always has a callback that will discard it, whenever   *)
(* its backend ended and whichever of the callbacks of its pools have run.  *)
THEOREM Watched == ASSUME Options PROVE Spec => []PoolsAreWatched
BY Invariance, PTL DEF Inv

(* A request is answered 503 exactly when no agent was found for it, or its *)
(* agent reported that it had no file left.                                 *)
THEOREM Unavailable == ASSUME Options PROVE Spec => []UnavailableIsRetryable
<1>1. Inv => UnavailableIsRetryable
  BY DEF Inv, Loyal, UnavailableIsRetryable
<1>. QED  BY <1>1, Invariance, PTL

(* Together: from its choice to its answer a request keeps to one agent.    *)
THEOREM Keeping == ASSUME Options PROVE Spec => []RequestsKeepToTheirAgent
BY OwnBackend, Watched, Unavailable, PTL DEF RequestsKeepToTheirAgent

=============================================================================
