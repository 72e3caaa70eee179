---------------------------- MODULE MCTwoManagers ----------------------------
(* Values for the constants of TwoManagers: the cluster of
   MCRegistryPullSecretController with one RegistryPullSecret for one namespace,
   whose spec and credentials change under the two managers. *)
EXTENDS TwoManagers, MCRegistryPullSecretController

RenamedSpec == FromSource(Selection("Inclusive", <<"n1">>, "team-creds", << >>))
TwoManagersSpecs == {RacesRefSpec, RenamedSpec}
TwoManagersBudget ==
    AnyOf(2, "spec" :> 1 @@ "secret" :> 1 @@ "restart" :> 1)
=============================================================================
