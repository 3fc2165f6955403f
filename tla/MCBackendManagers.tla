-------------------------- MODULE MCBackendManagers --------------------------
(***************************************************************************)
(* Three agent connections: b1 and b2 of agent a1 (a duplicate or a        *)
(* reconnect), b3 of agent a2.  b1 names its host twice, and b3 shares it. *)
(***************************************************************************)
EXTENDS BackendManagers, TLC

CONSTANTS b1, b2, b3, a1, a2

MCBackend == {b1, b2, b3}
MCIdent == {a1, a2}
MCAgentID == b1 :> a1 @@ b2 :> a1 @@ b3 :> a2
MCDestIDs == b1 :> <<a1, a1>> @@ b2 :> <<a2>> @@ b3 :> <<a1>>
RandomRouting == <<"default">>
HostThenRoute == <<"destHost", "defaultRoute">>
MCDefaultRoute == {b1, b3}
=============================================================================
