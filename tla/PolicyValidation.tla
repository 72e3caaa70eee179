-------------------------- MODULE PolicyValidation --------------------------
(* Lists of namespaces as both custom resources hold them, and the semantic    *)
(* validation of a PullSecretPolicy (internal/sync/validation.go).             *)
EXTENDS Naturals, Sequences

CONSTANT ValidNamespaceNames    \* names that pass validateNamespaceName

Elements(list) == {list[i] : i \in DOMAIN list}

NoDuplicates(list) == \A i, j \in DOMAIN list : list[i] = list[j] => i = j

(* No validation error: every name well-formed, none listed twice *)
ValidatePullSecretPolicy(excluded) ==
    /\ Elements(excluded) \subseteq ValidNamespaceNames
    /\ NoDuplicates(excluded)
=============================================================================
