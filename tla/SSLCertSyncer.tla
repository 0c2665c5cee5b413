---------------------------- MODULE SSLCertSyncer ----------------------------
(***************************************************************************)
(* pkg/gcp/sslcert: the certificate made from the secret of the ingress.   *)
(* Pre-shared certificates are only looked up.                             *)
(***************************************************************************)
EXTENDS KubemciTypes

VARIABLE cert       \* content of the certificate kubemci created

SSLCertTypeOK == cert \in CertData \cup {None}

ensurePreSharedSSLCert == {Ok(cert)} \cup Faulty({cert})

\* A certificate cannot be updated: it is deleted and created again.
updateSSLCert(desired, inUse) ==
  IF inUse THEN {Refused(cert)} \cup Faulty({cert})
           ELSE Faulty({cert}) \cup Create(None, desired)

\* Seeded fault: the private key, which cannot be read back, is compared.
ensureSecretSSLCertWithKey(desired, inUse, force) ==
  Faulty({cert}) \cup
  Ensure(cert, Create(cert, desired), FALSE, force,
         updateSSLCert(desired, inUse))

\* Loading the secret from the cluster may fail.
ensureSecretSSLCert(desired, inUse, force) ==
  Faulty({cert}) \cup
  Ensure(cert, Create(cert, desired), cert = desired, force,
         updateSSLCert(desired, inUse))

EnsureSSLCert(tls, inUse, force) ==
  IF tls \in PreSharedCerts
    THEN ensurePreSharedSSLCert
    ELSE ensureSecretSSLCert(tls, inUse, force)

\* The link that EnsureSSLCert returns when it succeeds.
certLink(tls) == IF tls \in PreSharedCerts THEN tls ELSE OwnCert

DeleteSSLCert(inUse) == Delete(cert, inUse)
=============================================================================
