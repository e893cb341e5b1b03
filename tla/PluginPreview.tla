--------------------------- MODULE PluginPreview ---------------------------
(***************************************************************************)
(* The two commands of the kubectl plugin that resolve a policy themselves *)
(* (cmd/kubectl-fqdn_policy/main.go): preview, which builds the            *)
(* NetworkPolicy of a manifest without touching the cluster, and diff,     *)
(* which compares the live status with a fresh resolution.  They repeat    *)
(* the controller's filter and share its builder, but know nothing of      *)
(* consensus, freezing, retention and skipped wildcards.                   *)
(*                                                                         *)
(* Both only read, so they are operators on a policy and on the answers of *)
(* the plugin's own lookups (a function of the matches, Nil for an error). *)
(* Printed warnings, record types and the layout are left out.             *)
(***************************************************************************)
EXTENDS Reconciler

\* net.IP.IsPrivate also holds for IPv6 unique local addresses, which the
\* controller's privateNets do not contain.
BlockedAs(ip) == IF ClassOf[ip] = "uniqueLocal" THEN "private" ELSE ClassOf[ip]

\* Mutant of applySecurityFilter: no SecuritySpec means no filter.
applySecurityFilterOptIn(ips, sec) ==
    {ip \in ips : BlockedAs(ip) \in BlockableClasses => ~doBlockOptIn(sec, BlockedAs(ip))}

applySecurityFilter(ips, sec) ==
    {ip \in ips : BlockedAs(ip) \in BlockableClasses => ~doBlock(sec, BlockedAs(ip))}

\* A host whose lookup fails is skipped; one that loses all its addresses to
\* the filter is kept.
previewHosts(spec, answers) ==
    [m \in Matches |->
        IF m \in spec.rules /\ answers[m] # Nil
        THEN [ips |-> applySecurityFilter(answers[m].ips, spec.security), div |-> FALSE]
        ELSE Nil]

\* The addresses listed under "Generated NetworkPolicy would allow".
runPreview(spec, answers) == Peers(Build(spec, previewHosts(spec, answers)))

\* What diff prints for a rule: addresses to come and addresses to go.
runDiff(obj, answers, m) ==
    LET live  == IF obj.status.resolved[m] = Nil THEN {} ELSE obj.status.resolved[m].ips
        fresh == IF answers[m] = Nil THEN {}
                 ELSE applySecurityFilter(answers[m].ips, obj.spec.security)
    IN  [added |-> fresh \ live, removed |-> live \ fresh]

\* Where the plugin does what the controller does: plain hosts that resolve, no
\* consensus mode, no unique local address.
Comparable ==
    /\ fp.spec.rules \cap Wildcards = {}
    /\ MinAgreement(fp.spec.security) <= 1
    /\ \A m \in fp.spec.rules : dns[m] # Nil /\ \A ip \in dns[m].ips : ClassOf[ip] # "uniqueLocal"

\* main.go "applySecurityFilter mirrors the controller's filterBlockedIPs logic"
\* and "No changes - fresh resolution matches live NetworkPolicy IPs": once
\* nobody disturbs the system, diff reports nothing for such a policy, and
\* preview lists exactly the addresses the controller enforces unless it has
\* frozen or only audits the policy, whatever conflicts, retained entries and
\* restarts came before.
PluginAgrees ==
    <>[](fp # Nil /\ Comparable =>
            /\ \A m \in fp.spec.rules : runDiff(fp, dns, m) = [added |-> {}, removed |-> {}]
            /\ fp.spec.mode = "Enforce" /\ fp.status.ready # "DivergenceBlocked" =>
                   np # Nil /\ Peers(np.spec) = runPreview(fp.spec, dns))
=============================================================================
