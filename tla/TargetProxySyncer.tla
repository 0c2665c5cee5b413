-------------------------- MODULE TargetProxySyncer --------------------------
(***************************************************************************)
(* pkg/gcp/targetproxy: the HTTP and the HTTPS proxy, which point to the   *)
(* url map; the HTTPS proxy also points to a certificate.                  *)
(***************************************************************************)
EXTENDS KubemciTypes

VARIABLE tp         \* protocol -> target proxy

CertLinks == PreSharedCerts \cup {OwnCert}

TargetProxies == [cert : CertLinks \cup {None}]

ASSUME NoneOfTargetProxies == None \notin TargetProxies

TargetProxyTypeOK == tp \in [Protocols -> TargetProxies \cup {None}]

(***************************************************************************)
(* umLink tells whether EnsureURLMap returned a link (the url map always   *)
(* has the same one).  The cloud refuses an empty link.                    *)
(***************************************************************************)
ensureHTTPProxy(umLink, force) ==
  LET cur == tp["http"]
  IN  Ensure(cur,
             IF umLink THEN Create(cur, [cert |-> None]) ELSE {Refused(cur)},
             umLink, force, {Refused(cur)})

\* The only field that an update sets is the url map.
updateHTTPSTargetProxy(umLink) ==
  IF umLink THEN Call(tp["https"], tp["https"]) ELSE {Refused(tp["https"])}

ensureHTTPSProxy(umLink, certLink, force) ==
  LET cur == tp["https"]
  IN  Ensure(cur,
             IF umLink /\ certLink # None
               THEN Create(cur, [cert |-> certLink]) ELSE {Refused(cur)},
             umLink /\ cur.cert = certLink, force,
             updateHTTPSTargetProxy(umLink))

\* used is the set of protocols whose forwarding rule exists.
DeleteTargetProxies(used) ==
  Choices([q \in Protocols |-> Delete(tp[q], q \in used)])

URLMapInUse == \E q \in Protocols : tp[q] # None

OwnCertInUse == tp["https"] # None /\ tp["https"].cert = OwnCert
=============================================================================
