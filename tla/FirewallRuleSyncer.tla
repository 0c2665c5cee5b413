------------------------- MODULE FirewallRuleSyncer -------------------------
(***************************************************************************)
(* pkg/gcp/firewallrule: one rule that opens the node ports on the         *)
(* instances of all clusters, selected by network tag.                     *)
(***************************************************************************)
EXTENDS KubemciTypes

VARIABLE fw         \* the firewall rule

FirewallRules == [ports : SUBSET NodePorts, tags : SUBSET Tags]

ASSUME NoneOfFirewallRules == None \notin FirewallRules

FirewallRuleTypeOK == fw \in FirewallRules \cup {None}

\* One instance of every cluster stands for all of them.
getTargetTags(clients) == {TagOf[c] : c \in clients}

desiredFirewallRule(ports, clients) ==
  [ports |-> {p \in NodePorts : ports[p] # None}, tags |-> getTargetTags(clients)]

\* Seeded fault: a differing rule is always updated.
EnsureFirewallRuleForced(ports, clients, force) ==
  LET desired == desiredFirewallRule(ports, clients)
  IN  IF None \in getTargetTags(clients)
        THEN {Refused(fw)} \cup Faulty({fw})
        ELSE Faulty({fw}) \cup
             Ensure(fw, Create(fw, desired), fw = desired, TRUE,
                    Call(fw, desired))

\* clients are the clusters whose instance groups are known.  Fetching an
\* instance may fail; an instance without a tag is an error.
EnsureFirewallRule(ports, clients, force) ==
  LET desired == desiredFirewallRule(ports, clients)
  IN  IF None \in getTargetTags(clients)
        THEN {Refused(fw)} \cup Faulty({fw})
        ELSE Faulty({fw}) \cup
             Ensure(fw, Create(fw, desired), fw = desired, force,
                    Call(fw, desired))

DeleteFirewallRules == Delete(fw, FALSE)

\* Seeded fault: the rule keeps the tags of the clusters to remove.
desiredFirewallRuleOfClusters(existing, clients) ==
  [existing EXCEPT !.tags = @ \cap getTargetTags(clients)]

desiredFirewallRuleWithoutClusters(existing, clients) ==
  [existing EXCEPT !.tags = @ \ getTargetTags(clients)]

FirewallRemoveFromClusters(clients) ==
  IF fw = None \/ None \in getTargetTags(clients)
    THEN {Refused(fw)} \cup Faulty({fw})
    ELSE Call(fw, desiredFirewallRuleWithoutClusters(fw, clients))
=============================================================================
