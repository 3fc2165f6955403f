---------------------------- MODULE DrainedClose ----------------------------
(* What a reusable tunnel promises (konnectivity-client/pkg/client: the   *)
(* ReusableTunnel interface): it takes child streams until it is closed,  *)
(* and is closed for good only when none of them is left.                 *)
EXTENDS FiniteSets

CONSTANT Child

VARIABLES
  phase,   \* "open", "draining" or "closed"
  live     \* the children that have been taken and have not ended

vars == <<phase, live>>

Init == phase = "open" /\ live = {}

Accept(d) == phase = "open" /\ live' = live \cup {d} /\ UNCHANGED phase
End(d) == d \in live /\ live' = live \ {d} /\ UNCHANGED phase
Shut == phase = "open" /\ phase' = "draining" /\ UNCHANGED live
Finish == phase = "draining" /\ live = {} /\ phase' = "closed" /\ UNCHANGED live

Next == (\E d \in Child : Accept(d) \/ End(d)) \/ Shut \/ Finish

(* The promise without its liveness. *)
Safety == Init /\ [][Next]_vars

(* A tunnel that is being closed does get closed. *)
Spec == Safety /\ WF_vars(\E d \in Child : phase = "draining" /\ End(d)) /\ WF_vars(Finish)

=============================================================================
