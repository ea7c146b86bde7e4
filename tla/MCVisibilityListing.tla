------------------------ MODULE MCVisibilityListing -------------------------
(* Three calls under one policy, one after another. *)
EXTENDS Visibility

CONSTANT p1

MCPolicies == {p1}
MCPolicyOf == <<p1, p1, p1>>
=============================================================================
