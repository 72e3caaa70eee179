----------------------------- MODULE HostNaming -----------------------------
(* The derivation of a default target secret name from a registry server     *)
(* (internal/sync/planner.go).  A server is an opaque string; what url.Parse *)
(* makes of it, the labels of its lower-cased hostname, is a constant.       *)
EXTENDS Naturals, Sequences

CONSTANTS
    Servers,        \* the registry servers credentials may name
    HostLabels,     \* per server: the hostname split at its dots, << >> when
                    \* there is no hostname or the server does not parse
    Labels,         \* the hostname labels in play
    Sanitized,      \* per label: what sanitizeDNSLabelPart leaves of it
    NoName          \* "no name can be derived"

ASSUME NamingAssumption ==
    /\ HostLabels \in [Servers -> Seq(Labels)]
    /\ Sanitized \in [Labels -> Labels]
    /\ \A label \in Labels : Sanitized[Sanitized[label]] = Sanitized[label]

IgnoredHostTokens == {"docker", "registry", "www"}

SecondaryDomainTokens == {"gov", "net", "com", "co", "org", "edu"}

(* The labels sanitized, those left empty dropped *)
SanitizedParts(parts) ==
    SelectSeq([i \in DOMAIN parts |-> Sanitized[parts[i]]], LAMBDA part : part # "")

(* Slip: the secondary token in front of the TLD stays *)
StripsOnlyTheTLD(parts) ==
    LET sanitized == SanitizedParts(parts)
    IN  SubSeq(sanitized, 1, Len(sanitized) - 1)

(* The labels without the top-level domain and one secondary token before it *)
StripKnownTLDSuffix(parts) ==
    LET sanitized == SanitizedParts(parts)
        Trimmed(n) == SubSeq(sanitized, 1, Len(sanitized) - n)
    IN  IF Len(sanitized) > 1 /\ sanitized[Len(sanitized) - 1] \in SecondaryDomainTokens
        THEN Trimmed(2)
        ELSE Trimmed(1)

(* Slip: the first label that is not a generic token *)
DerivesFirstLabel(parts) ==
    LET filtered == SelectSeq(SanitizedParts(parts), LAMBDA part : part \notin IgnoredHostTokens)
    IN  IF filtered = << >> THEN "" ELSE filtered[1]

(* The last label that is not a generic token, "" when there is none *)
DeriveHostLabel(parts) ==
    LET filtered == SelectSeq(SanitizedParts(parts), LAMBDA part : part \notin IgnoredHostTokens)
    IN  IF filtered = << >> THEN "" ELSE filtered[Len(filtered)]

(* A host without a dot is kept as it is, generic token or not *)
HostCandidate(labels) ==
    IF Len(labels) = 1 THEN Sanitized[labels[1]]
                       ELSE DeriveHostLabel(StripKnownTLDSuffix(labels))

NameForHost(labels) ==
    IF labels = << >> \/ HostCandidate(labels) = ""
    THEN NoName
    ELSE HostCandidate(labels) \o "-pull-secret"

DefaultTargetSecretName(server) == NameForHost(HostLabels[server])
=============================================================================
