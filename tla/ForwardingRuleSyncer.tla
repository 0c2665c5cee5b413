------------------------ MODULE ForwardingRuleSyncer ------------------------
(***************************************************************************)
(* pkg/gcp/forwardingrule: the rules that give an address to the proxies.  *)
(* The rule of a protocol points to the proxy of that protocol.  Old load  *)
(* balancers keep their status in the description of the rules.            *)
(***************************************************************************)
EXTENDS KubemciTypes

VARIABLE fr         \* protocol -> forwarding rule

ForwardingRules == [ip : IPs, st : Status \cup {None}]

ASSUME NoneOfForwardingRules == None \notin ForwardingRules

ForwardingRuleTypeOK == fr \in [Protocols -> ForwardingRules \cup {None}]

desiredForwardingRule(ip) == [ip |-> ip, st |-> None]

\* linked tells whether the caller has a link to a proxy; the cloud refuses
\* an empty one.
createForwardingRule(cur, desired, linked) ==
  IF linked THEN Create(cur, desired) ELSE {Refused(cur)}

\* Seeded fault: an update only sets the target.
updateForwardingRuleTarget(q, existing, desired, linked) ==
  IF linked THEN Call(fr[q], fr[q]) ELSE {Refused(fr[q])}

\* Seeded fault: the rule is created again but not deleted first.
updateForwardingRuleUndeleted(q, existing, desired, linked) ==
  IF existing.ip # desired.ip \/ existing.st # desired.st
    THEN createForwardingRule(fr[q], desired, linked)
    ELSE IF linked THEN Call(fr[q], fr[q]) ELSE {Refused(fr[q])}

(***************************************************************************)
(* There is no call to update a rule: if more than the target changes, it  *)
(* is deleted and created again.                                           *)
(***************************************************************************)
updateForwardingRule(q, existing, desired, linked) ==
  IF existing.ip # desired.ip \/ existing.st # desired.st
    THEN Faulty({fr[q], None}) \cup createForwardingRule(None, desired, linked)
    ELSE IF linked THEN Call(fr[q], fr[q]) ELSE {Refused(fr[q])}

\* Seeded fault: a differing rule is always updated.
ensureForwardingRuleForced(q, ip, linked, force) ==
  LET desired == desiredForwardingRule(ip)
  IN  Ensure(fr[q], createForwardingRule(fr[q], desired, linked),
             linked /\ fr[q] = desired, TRUE,
             updateForwardingRule(q, fr[q], desired, linked))

ensureForwardingRule(q, ip, linked, force) ==
  LET desired == desiredForwardingRule(ip)
  IN  Ensure(fr[q], createForwardingRule(fr[q], desired, linked),
             linked /\ fr[q] = desired, force,
             updateForwardingRule(q, fr[q], desired, linked))

DeleteForwardingRules == Choices([q \in Protocols |-> Delete(fr[q], FALSE)])

desiredForwardingRuleWithoutClusters(existing, clusters) ==
  [existing EXCEPT !.st = RemoveClusters(@, clusters)]

\* desiredFR is a copy of the pointer existingFR, so the rule that
\* updateForwardingRule receives as existing already has the new description.
removeClustersFromRuleStatus(q, clusters) ==
  IF fr[q] = None
    THEN {Ok(None)} \cup Faulty({None})
    ELSE LET desired == desiredForwardingRuleWithoutClusters(fr[q], clusters)
             existing == desired
         IN  Faulty({fr[q]}) \cup
             updateForwardingRule(q, existing, desired, TRUE)

\* "Not found" is ignored unless both rules are missing (NoForwardingRule).
ForwardingRuleRemoveClustersFromStatus(clusters) ==
  Choices([q \in Protocols |-> removeClustersFromRuleStatus(q, clusters)])

NoForwardingRule == \A q \in Protocols : fr[q] = None

TargetProxiesInUse == {q \in Protocols : fr[q] # None}
=============================================================================
