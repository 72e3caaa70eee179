-------------------- MODULE MCPullSecretPolicyController --------------------
(* The policy "cluster" and one under another name, with a valid list of
   exclusions, one with a duplicate and one with a wildcard. *)
EXTENDS PullSecretPolicyController, TLC

MCPolicyNames == {"cluster", "other"}
MCValidNamespaceNames == {"n1", "n2"}
MCExclusionLists == {<<"n1">>, <<"n1", "n1">>, <<"team-*">>}
MCInitialPolicies ==
    [p \in MCPolicyNames |-> IF p = "cluster" THEN [excluded |-> <<"n1">>, generation |-> 1]
                                              ELSE NoObject]
MCBudget == "spec" :> 3 @@ "fault" :> 1 @@ "restart" :> 1
=============================================================================
