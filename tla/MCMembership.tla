---------------------------- MODULE MCMembership ----------------------------
(* Two servers, of which one was started with a server count of its own and  *)
(* the other with the right one.                                             *)
EXTENDS Membership, TLC

CONSTANTS s1, s2

Counts == s1 :> 1 @@ s2 :> 2

=============================================================================
