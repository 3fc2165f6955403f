------------------------------ MODULE DialCost ------------------------------
(* The choice between two agents by what a dial through them is expected to *)
(* cost (pkg/server/backend_manager.go): the moving average of the latency  *)
(* of completed dials, the dials that are in flight, and the window after   *)
(* which a sample no longer counts.                                         *)
(*                                                                          *)
(* Time is in ticks of dialLatencyFloor.  The age of a sample is cut off    *)
(* past the window.  A dial has taken at least one tick when it is          *)
(* answered, and it times out after DialTimeout ticks.                      *)
EXTENDS Integers, FiniteSets

CONSTANTS
  Agent,              \* the backends to choose from
  Dial,               \* bound: dials at a time
  Window,             \* dialLatencyWindow
  DialTimeout

Floor == 1            \* dialLatencyFloor
Over == Window + 1

VARIABLES
  dialLatency,        \* of each agent
  sampleAge,          \* of each agent: time since dialLatencyAt; Over also for never
  dials               \* of each dial: NoDial, or its agent and the time it has taken

vars == <<dialLatency, sampleAge, dials>>

NoDial == [agent |-> "none", taken |-> 0]

Init ==
  /\ dialLatency = [a \in Agent |-> 0] /\ sampleAge = [a \in Agent |-> Over]
  /\ dials = [d \in Dial |-> NoDial]

InFlight(a) == Cardinality({d \in Dial : dials[d].agent = a})

(* Mutant: a sample counts forever. *)
costForever(a) ==
  (IF dialLatency[a] > Floor THEN dialLatency[a] ELSE Floor) * (InFlight(a) + 1)

dialCost(a) ==
  (IF sampleAge[a] <= Window /\ dialLatency[a] > Floor THEN dialLatency[a] ELSE Floor)
    * (InFlight(a) + 1)

(* The candidates preferredBackend may return: where neither costs twice as *)
(* much as the other, channel occupancy and chance decide.                  *)
preferredBackend(a, b) ==
  IF dialCost(b) >= 2 * dialCost(a) THEN {a}
  ELSE IF dialCost(a) >= 2 * dialCost(b) THEN {b} ELSE {a, b}

(* GetRandomBackend among agents that do not drain, and the dial request. *)
Pick(d, a) ==
  /\ dials[d] = NoDial
  /\ \E b \in Agent : (b # a \/ Agent = {a}) /\ a \in preferredBackend(a, b)
  /\ dials' = [dials EXCEPT ![d] = [agent |-> a, taken |-> 0]]
  /\ UNCHANGED <<dialLatency, sampleAge>>

observeDial(a, latency) ==
  /\ dialLatency' = [dialLatency EXCEPT ![a] =
                       IF sampleAge[a] > Window THEN latency ELSE (@ + latency) \div 2]
  /\ sampleAge' = [sampleAge EXCEPT ![a] = 0]

(* A successful DIAL_RSP *)
Answered(d) ==
  /\ dials[d] # NoDial /\ dials[d].taken > 0
  /\ observeDial(dials[d].agent, dials[d].taken)
  /\ dials' = [dials EXCEPT ![d] = NoDial]

(* The dial fails, times out or is given up: it leaves no sample. *)
Dropped(d) ==
  /\ dials[d] # NoDial /\ dials' = [dials EXCEPT ![d] = NoDial]
  /\ UNCHANGED <<dialLatency, sampleAge>>

Tick ==
  /\ \A d \in Dial : dials[d].taken < DialTimeout
  /\ dials' = [d \in Dial |-> IF dials[d] = NoDial THEN NoDial
                                ELSE [dials[d] EXCEPT !.taken = @ + 1]]
  /\ sampleAge' = [a \in Agent |-> IF sampleAge[a] = Over THEN Over ELSE sampleAge[a] + 1]
  /\ UNCHANGED dialLatency

Next ==
  \/ \E d \in Dial : Answered(d) \/ Dropped(d) \/ \E a \in Agent : Pick(d, a)
  \/ Tick

Spec == Init /\ [][Next]_vars

(* Dials end, time goes on, and chance favours every candidate sometimes. *)
Fairness ==
  /\ WF_vars(Tick)
  /\ \A d \in Dial : WF_vars(Answered(d) \/ Dropped(d))
  /\ \A a \in Agent : SF_vars(\E d \in Dial : Pick(d, a))

FairSpec == Spec /\ Fairness

-----------------------------------------------------------------------------
(* Every variable has its type; an average is never above the longest      *)
(* dial there can be.                                                      *)
TypeOK ==
  /\ dialLatency \in [Agent -> 0..DialTimeout] /\ sampleAge \in [Agent -> 0..Over]
  /\ dials \in [Dial -> {NoDial} \cup [agent : Agent, taken : 0..DialTimeout]]

(* "With no sample in the last dialLatencyWindow the agent is assumed      *)
(* fast": with no dial in flight either, such an agent loses to nobody,    *)
(* however slow it once was.                                               *)
IdleIsEligible ==
  \A a, b \in Agent :
    sampleAge[a] > Window /\ InFlight(a) = 0 => a \in preferredBackend(a, b)

(* "A slow agent is tried again after it": no agent is left out for good,  *)
(* whatever the latencies and the dials in flight at the others.           *)
NobodyStarves ==
  \A a \in Agent : []<>(\E d \in Dial : dials[d].agent = a)

=============================================================================
