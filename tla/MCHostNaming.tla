---------------------------- MODULE MCHostNaming ----------------------------
(* Every hostname of up to MaxHostLabels labels, built from the right, with   *)
(* the name the planner derives for it held against the documented rules.    *)
EXTENDS HostNaming, FiniteSetsExt

CONSTANT MaxHostLabels    \* bound on the labels of an enumerated hostname

VARIABLE host             \* the labels of the hostname under consideration

MCLabels == {"", "-", "docker", "registry", "www", "co", "com", "io", "uk", "ghcr", "my_reg", "myreg"}
MCSanitized == [label \in MCLabels |->
    CASE label = "my_reg" -> "myreg" [] label = "-" -> "" [] OTHER -> label]
MCServers == {}
MCHostLabels == << >>

Init == host \in {<<label>> : label \in MCLabels}

PrependLabel(label) ==
    /\ Len(host) < MaxHostLabels
    /\ host' = <<label>> \o host

Next == \E label \in MCLabels : PrependLabel(label)

Spec == Init /\ [][Next]_host

-----------------------------------------------------------------------------
(* The meaningful positions of a dotted hostname: those with something left
   after sanitizing that are neither generic tokens, nor the top-level domain,
   nor a secondary domain token right before it. *)
MeaningfulPositions(labels) ==
    LET nonempty == {i \in DOMAIN labels : Sanitized[labels[i]] # ""}
        tld == {i \in nonempty : \A j \in nonempty : j <= i}
        second == {i \in nonempty \ tld : \A j \in nonempty \ tld : j <= i}
    IN  {i \in nonempty \ tld :
            /\ Sanitized[labels[i]] \notin IgnoredHostTokens
            /\ i \in second => Sanitized[labels[i]] \notin SecondaryDomainTokens}

(* The derived name of a dotted host is its last meaningful label with the
   suffix, and there is none exactly when no label is meaningful (the rules of
   internal/sync/README.md lines 61-66 against DefaultTargetSecretName). *)
NameIsLastMeaningfulLabel ==
    Len(host) > 1 =>
        LET positions == MeaningfulPositions(host)
        IN  NameForHost(host) =
                IF positions = {} THEN NoName
                ELSE Sanitized[host[Max(positions)]] \o "-pull-secret"

(* A registry keeps its derived name whatever subdomain it is reached through:
   a label put in front of a dotted host with a name never changes the name
   (deriveHostLabel takes the last label, not the first). *)
SubdomainsKeepTheName ==
    [][Len(host) > 1 /\ NameForHost(host) # NoName => NameForHost(host') = NameForHost(host)]_host

(* docs/src/content/docs/concepts/how-it-works.md line 67: the registry
   docker.io gets the derived name docker-pull-secret. *)
DockerHubHasADerivedName ==
    host = <<"docker", "io">> => NameForHost(host) = "docker-pull-secret"

=============================================================================
