-------------------------- MODULE MCDriftWorkflow --------------------------
(***************************************************************************)
(* An instance of DriftWorkflow for TLC: a domain below the two-part       *)
(* suffix co.uk with its apex and a subdomain that pods spell in upper     *)
(* case, a cluster-internal single label, and names of two owners below    *)
(* com.br, a public suffix the code does not know.  Bolt and Other exist   *)
(* but no pod queries them.                                                *)
(***************************************************************************)
EXTENDS DriftWorkflow

CONSTANTS base, extra

MCLabels == {"uk", "co", "br", "com", "a", "b", "c", "api", "API", "vault", "*"}
MCLower == [l \in MCLabels |-> IF l = "API" THEN "api" ELSE l]
MCValidLabels == MCLabels \ {"*"}
MCTopLabels == {"uk", "co", "br", "com", "api", "API", "vault"}

Apex  == <<"uk", "co", "a">>
Api   == <<"uk", "co", "a", "API">>
Bolt  == <<"uk", "co", "b">>
Vault == <<"vault">>
Shop  == <<"br", "com", "a">>
Bank  == <<"br", "com", "b">>
Other == <<"br", "com", "c">>

MCNames == {Apex, Api, Vault, Shop, Bank}
MCHostnames == MCNames \cup {Bolt, Other}
MCSuffixes == {<<"uk", "co">>, <<"br", "com">>}

\* Both commands write manifests for the same second policy (profile --name).
MCSuggested == [p \in {base} |-> extra]

Rule(m) == [match |-> m, ports |-> {<<443, "TCP">>}]
MCRuleLists == {<<Rule(Append(Apex, "*"))>>}
MCProfiles == {[threshold |-> 2, preset |-> "production", mode |-> "Audit"]}
=============================================================================
