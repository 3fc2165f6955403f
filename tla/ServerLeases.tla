---------------------------- MODULE ServerLeases ----------------------------
(* The leases by which proxy servers make themselves known                  *)
(* (pkg/server/leases, pkg/util/leases.go), and the agent that counts them  *)
(* (pkg/agent/lease_counter.go).  Each server renews its own lease, every   *)
(* server's garbage collector deletes the expired leases of all, a server   *)
(* that shuts down deletes its own, and an agent counts the valid ones in   *)
(* the copy of its informer.                                                *)
(*                                                                          *)
(* A lease is its age, the time since renewTime (acquireTime before the     *)
(* first renewal), cut off at LeaseDuration, past which all ages are the    *)
(* same to IsLeaseValid.  A listed lease grows old like the stored one.     *)
(* Of its resourceVersion, only whether the lease was written since it was  *)
(* listed is kept.  All processes read the same clock.                      *)
EXTENDS Integers, FiniteSets

CONSTANTS
  Server,
  Collector,          \* bound: the servers whose collector gets to run
  LeaseDuration,      \* in ticks of the clock
  Timely              \* the API server and the informer keep up with renewals

NoLease == -1
Age == 0..LeaseDuration

VARIABLES
  proc,               \* of each server: run, stopping (after Stop), down
  lease,              \* of each server: the age of the stored lease, or NoLease
  listed,             \* what each collector has yet to look at: ages, or NoLease
  written,            \* leases written since each collector listed them
  deleting,           \* the lease each collector is deleting, if any
  seen,               \* the informer's copy of the leases
  fallbackCount       \* the counter's; also what Count last returned

collector == <<listed, written, deleting>>
agent == <<seen, fallbackCount>>
vars == <<proc, lease, collector, agent>>

NothingListed == [s \in Server |-> NoLease]

Init ==
  /\ proc = [s \in Server |-> "down"] /\ lease = NothingListed
  /\ listed = [g \in Server |-> NothingListed]
  /\ written = [g \in Server |-> {}] /\ deleting = [g \in Server |-> {}]
  /\ seen = NothingListed /\ fallbackCount = 1

IsLeaseValid(age) == age # NoLease /\ age < LeaseDuration

(* A write of s's lease, to the collectors that still deal with it. *)
Listing(s) == {g \in Server : listed[g][s] # NoLease \/ s \in deleting'[g]}
Write(s) ==
  written' = [g \in Server |-> IF g \in Listing(s) THEN written[g] \cup {s} ELSE written[g]]

-----------------------------------------------------------------------------
(* A server: Run and Stop of the lease controller *)

Run(s) ==
  /\ proc[s] = "down" /\ proc' = [proc EXCEPT ![s] = "run"]
  /\ UNCHANGED <<lease, collector, agent>>

(* acquireController: the lease is renewed, or created again if it is gone. *)
(* It ends with Run's context, not with Stop.                               *)
Renew(s) ==
  /\ proc[s] # "down" /\ lease' = [lease EXCEPT ![s] = 0]
  /\ UNCHANGED <<proc, listed, deleting, agent>> /\ Write(s)

(* Stop deletes the lease, whatever its version; the call may fail. *)
Stop(s) ==
  /\ proc[s] = "run" /\ proc' = [proc EXCEPT ![s] = "stopping"]
  /\ UNCHANGED <<listed, deleting, agent>>
  /\ \/ lease' = [lease EXCEPT ![s] = NoLease] /\ Write(s)
     \/ UNCHANGED <<lease, written>>

(* The process ends, after Stop or by a crash; its lease stays behind. *)
Exit(s) ==
  /\ proc[s] # "down" /\ proc' = [proc EXCEPT ![s] = "down"]
  /\ listed' = [listed EXCEPT ![s] = NothingListed]
  /\ deleting' = [deleting EXCEPT ![s] = {}] /\ written' = [written EXCEPT ![s] = {}]
  /\ UNCHANGED <<lease, agent>>

-----------------------------------------------------------------------------
(* gc, on server g *)

Done(g, s) == [written EXCEPT ![g] = @ \ {s}]
Idle(g) == listed[g] = NothingListed /\ deleting[g] = {}

List(g) ==
  /\ proc[g] # "down" /\ Idle(g) /\ lease # NothingListed
  /\ listed' = [listed EXCEPT ![g] = lease]
  /\ written' = [written EXCEPT ![g] = {}]
  /\ UNCHANGED <<proc, lease, deleting, agent>>

(* Mutant: a valid lease ends the loop. *)
CheckBreaks(g, s) ==
  /\ listed[g][s] # NoLease /\ deleting[g] = {}
  /\ IF IsLeaseValid(listed[g][s])
       THEN listed' = [listed EXCEPT ![g] = NothingListed] /\ UNCHANGED deleting
       ELSE /\ listed' = [listed EXCEPT ![g][s] = NoLease]
            /\ deleting' = [deleting EXCEPT ![g] = {s}]
  /\ UNCHANGED <<proc, lease, written, agent>>

Check(g, s) ==
  /\ listed[g][s] # NoLease /\ deleting[g] = {}
  /\ listed' = [listed EXCEPT ![g][s] = NoLease]
  /\ deleting' = [deleting EXCEPT ![g] = IF IsLeaseValid(listed[g][s]) THEN {} ELSE {s}]
  /\ written' = IF IsLeaseValid(listed[g][s]) THEN Done(g, s) ELSE written
  /\ UNCHANGED <<proc, lease, agent>>

(* Mutant: without the precondition. *)
DeleteAnyVersion(g) ==
  \E s \in deleting[g] :
    /\ deleting' = [deleting EXCEPT ![g] = {}]
    /\ lease' = [lease EXCEPT ![s] = NoLease] /\ Write(s)
    /\ UNCHANGED <<proc, listed, agent>>

(* The deletion carries the listed version as its precondition: it fails    *)
(* if the lease was written, or deleted, in between.                        *)
Delete(g) ==
  \E s \in deleting[g] :
    /\ deleting' = [deleting EXCEPT ![g] = {}]
    /\ \/ s \notin written[g] /\ lease' = [lease EXCEPT ![s] = NoLease] /\ Write(s)
       \/ s \in written[g] /\ written' = Done(g, s) /\ UNCHANGED lease
    /\ UNCHANGED <<proc, listed, agent>>

-----------------------------------------------------------------------------
(* The agent *)

(* The watch brings the informer's copy up to date. *)
Watch(s) ==
  /\ seen[s] # lease[s] /\ seen' = [seen EXCEPT ![s] = lease[s]]
  /\ UNCHANGED <<proc, lease, collector, fallbackCount>>

AtLeastOne(n) == IF n = 0 THEN 1 ELSE n

(* Mutant: expired leases count. *)
CountAll ==
  /\ fallbackCount' = AtLeastOne(Cardinality({s \in Server : seen[s] # NoLease}))
  /\ UNCHANGED <<proc, lease, collector, seen>>

(* A listing that fails changes nothing. *)
Count ==
  /\ fallbackCount' = AtLeastOne(Cardinality({s \in Server : IsLeaseValid(seen[s])}))
  /\ UNCHANGED <<proc, lease, collector, seen>>

-----------------------------------------------------------------------------
Older(age) == IF age \in {NoLease, LeaseDuration} THEN age ELSE age + 1
OlderAll(ages) == [s \in Server |-> Older(ages[s])]

(* With Timely, a tick finds every running server's lease renewed and the  *)
(* informer's copies up to date.                                           *)
Tick ==
  /\ Timely => \A s \in Server : (proc[s] = "run" => lease[s] = 0) /\ seen[s] = lease[s]
  /\ lease' = OlderAll(lease) /\ seen' = OlderAll(seen)
  /\ listed' = [g \in Server |-> OlderAll(listed[g])]
  /\ UNCHANGED <<proc, written, deleting, fallbackCount>>

Collect(g) == List(g) \/ Delete(g) \/ \E s \in Server : Check(g, s)

Next ==
  \/ \E s \in Server : Run(s) \/ Renew(s) \/ Stop(s) \/ Exit(s) \/ Watch(s)
  \/ \E g \in Collector : List(g) \/ Delete(g) \/ \E s \in Server : Check(g, s)
  \/ Count \/ Tick

Spec == Init /\ [][Next]_vars

(* The collectors, the renewals, the watch and the counter keep going, and *)
(* so does time.                                                           *)
Fairness ==
  /\ WF_vars(Tick) /\ WF_vars(Count)
  /\ \A s \in Server : WF_vars(Renew(s) /\ lease'[s] # lease[s]) /\ WF_vars(Watch(s))
  /\ \A g \in Collector : WF_vars(Collect(g))

FairSpec == Spec /\ Fairness

-----------------------------------------------------------------------------
(* Every variable has its type; the count is between 1 and the servers. *)
TypeOK ==
  /\ proc \in [Server -> {"run", "stopping", "down"}]
  /\ lease \in [Server -> Age \cup {NoLease}] /\ seen \in [Server -> Age \cup {NoLease}]
  /\ listed \in [Server -> [Server -> Age \cup {NoLease}]]
  /\ written \in [Server -> SUBSET Server] /\ deleting \in [Server -> SUBSET Server]
  /\ fallbackCount \in 1..Cardinality(Server)

(* The collectors never take away a lease that is valid at that moment,    *)
(* however long ago they listed it: only Stop of its own server does.      *)
CullsExpired ==
  \A s \in Server : lease[s] \in 0..(LeaseDuration - 1) /\ lease'[s] = NoLease =>
    proc[s] = "run" /\ proc'[s] = "stopping"
OnlyExpiredIsCulled == [][CullsExpired]_vars

(* The lease of a server that is gone for good is deleted while another    *)
(* server runs, whatever valid leases are listed with it.                  *)
DeadLeasesGo ==
  \A s \in Server : <>[](proc[s] = "down") /\ (\E g \in Collector : <>[](proc[g] = "run"))
                      => <>[](lease[s] = NoLease)

(* Once servers no longer come and go, the agent's count ends up as their  *)
(* number (1 if there is none): also when the last of them crashed, so     *)
(* that no collector is left to delete the leases.                         *)
Running == {s \in Server : proc[s] = "run"}
CountSettles ==
  <>[][FALSE]_proc =>
    <>[]((\A s \in Server : proc[s] # "stopping")
           => fallbackCount = AtLeastOne(Cardinality(Running)))

=============================================================================
