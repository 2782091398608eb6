------------------------------ MODULE VmCerts ------------------------------
(***************************************************************************)
(* The TLS certificate of a VM, from the first one over its renewals       *)
(* (pkg/neonvm/controllers/certs.go, called at the start of doReconcile).  *)
(*                                                                         *)
(* A key is made and kept in a temporary secret, a CertificateRequest is   *)
(* made for it, and what is issued is put into the VM's secret together    *)
(* with the key.  The temporary secret and the request are deleted at some *)
(* later call, when the certificate is not due.  The controller reads a    *)
(* cache; every write of it may fail, or be the last one before a restart. *)
(*                                                                         *)
(* A key is the number of keys made before it; a certificate is its serial *)
(* number and the key it is for.                                           *)
(***************************************************************************)
EXTENDS Nil, Naturals

CONSTANTS
    MaxCerts,     \* bound: certificates issued
    MaxCertFaults \* bound: calls of the controller that fail, and restarts of it

VARIABLES
    api,        \* the three objects: tls (key, cert), tmp (key), req (key, cert), or NULL
    informer,   \* the same, as the controller's cache has them
    keys,       \* number of keys made and stored
    issued,     \* number of certificates issued
    dueUpTo,    \* the certificates up to this one are due for renewal
    at,         \* where the call of reconcileCertificateSecret is, or "idle"
    certSecret, \* what it has read and made: the secret, the key, the request
    key,
    certificateReq,
    failed,
    dueEarly    \* history: a certificate has become due before an earlier deletion was seen

objVars == <<api, informer, keys, issued, dueUpTo, dueEarly>>
callVars == <<at, certSecret, key, certificateReq>>
certVars == <<objVars, callVars, failed>>

Cert == [serial : Nat, for : Nat]

Secret == [key : Nat, cert : Cert]

Request == [key : Nat, cert : Optional(Cert)]

ASSUME NilAssumption ==
    NULL \notin Nat /\ NULL \notin Cert /\ NULL \notin Secret /\ NULL \notin Request

CertsInit ==
    /\ api = [tls |-> NULL, tmp |-> NULL, req |-> NULL]
    /\ informer = api
    /\ keys = 0 /\ issued = 0 /\ dueUpTo = 0
    /\ at = "idle" /\ certSecret = NULL /\ key = NULL /\ certificateReq = NULL
    /\ failed = 0 /\ dueEarly = FALSE

(***************************************************************************)
(* The objects                                                             *)
(***************************************************************************)
tmpKeySecretSpec(k) == k

certReqSpec(k) == [key |-> k, cert |-> NULL]

certSecretSpec(k, cert) == [key |-> k, cert |-> cert]

Due(secret) == secret.cert.serial <= dueUpTo

\* cert-manager issues what is requested.  A request that it denies is one for which this is not taken:
\* the controller looks at nothing but the certificate.
Issue ==
    /\ issued < MaxCerts
    /\ api.req # NULL
    /\ api.req.cert = NULL
    /\ issued' = issued + 1
    /\ api' = [api EXCEPT !.req.cert = [serial |-> issued', for |-> api.req.key]]
    /\ UNCHANGED <<informer, keys, dueUpTo, dueEarly, callVars, failed>>

\* The last renewal's temporary objects are being deleted, or the cache still has one that is deleted.
DeletionUnseen ==
    \/ at \in {"cleanupTmpSecret", "cleanupCertRequest"}
    \/ \E kind \in {"tmp", "req"} : informer[kind] # NULL /\ api[kind] = NULL

\* Time passes until the certificate is due, or a larger .spec.tls.renewBefore, which the webhook lets
\* through, makes it due at once: in the middle of a call, or while a cache is old.
BecomesDue ==
    /\ api.tls # NULL
    /\ ~Due(api.tls)
    /\ api.tls.cert.serial < MaxCerts
    /\ dueUpTo' = api.tls.cert.serial
    /\ dueEarly' = (dueEarly \/ DeletionUnseen)
    /\ UNCHANGED <<api, informer, keys, issued, callVars, failed>>

InformerUpdates(kind) ==
    /\ informer[kind] # api[kind]
    /\ informer' = [informer EXCEPT ![kind] = api[kind]]
    /\ UNCHANGED <<api, keys, issued, dueUpTo, dueEarly, callVars, failed>>

(***************************************************************************)
(* reconcileCertificateSecret, one action for each object it works on      *)
(***************************************************************************)
CallReturns == at' = "idle" /\ certSecret' = NULL /\ key' = NULL /\ certificateReq' = NULL

\* An error of any call, or the end of the controller: the next reconcile starts again.
CallFails ==
    /\ at # "idle"
    /\ failed < MaxCertFaults
    /\ failed' = failed + 1
    /\ CallReturns
    /\ UNCHANGED objVars

reconcileCertificateSecret ==
    /\ at = "idle"
    /\ certSecret' = informer.tls
    /\ at' = IF informer.tls # NULL /\ ~Due(informer.tls) THEN "cleanupTmpSecret" ELSE "getKey"
    /\ UNCHANGED <<objVars, key, certificateReq, failed>>

\* Delete fails if the object that the cache has is gone.
cleanupTmpSecrets ==
    /\ at \in {"cleanupTmpSecret", "cleanupCertRequest"}
    /\ LET kind == IF at = "cleanupTmpSecret" THEN "tmp" ELSE "req"
           next == IF kind = "tmp" /\ (informer.tmp # NULL => api.tmp # NULL)
                   THEN "cleanupCertRequest" ELSE "idle"
       IN  /\ api' = [api EXCEPT ![kind] = IF informer[kind] # NULL THEN NULL ELSE @]
           /\ IF next = "idle" THEN CallReturns ELSE at' = next /\ UNCHANGED <<certSecret, key, certificateReq>>
    /\ UNCHANGED <<informer, keys, issued, dueUpTo, dueEarly, failed>>

UseTmpSecret ==
    /\ at = "getKey"
    /\ informer.tmp # NULL
    /\ key' = informer.tmp
    /\ at' = "getRequest"
    /\ UNCHANGED <<objVars, certSecret, certificateReq, failed>>

\* Create fails if the object exists.
createTlsTmpSecret ==
    /\ at = "getKey"
    /\ informer.tmp = NULL
    /\ IF api.tmp # NULL
       THEN CallReturns /\ UNCHANGED <<api, keys>>
       ELSE /\ keys' = keys + 1
            /\ api' = [api EXCEPT !.tmp = tmpKeySecretSpec(keys')]
            /\ key' = keys'
            /\ at' = "getRequest"
            /\ UNCHANGED <<certSecret, certificateReq>>
    /\ UNCHANGED <<informer, issued, dueUpTo, dueEarly, failed>>

UseRequest ==
    /\ at = "getRequest"
    /\ informer.req # NULL
    /\ certificateReq' = informer.req
    /\ at' = "update"
    /\ UNCHANGED <<objVars, certSecret, key, failed>>

\* What is returned has no certificate yet: the VM goes on without a new one.
createCertificateRequest ==
    /\ at = "getRequest"
    /\ informer.req = NULL
    /\ api' = [api EXCEPT !.req = IF @ = NULL THEN certReqSpec(key) ELSE @]
    /\ CallReturns
    /\ UNCHANGED <<informer, keys, issued, dueUpTo, dueEarly, failed>>

createTlsSecret ==
    api' = [api EXCEPT !.tls = IF @ = NULL THEN certSecretSpec(key, certificateReq.cert) ELSE @]

updateTlsUnsaved == UNCHANGED api

\* Update fails if the secret is not the one that was read.
updateTlsSecret ==
    api' = [api EXCEPT !.tls = IF @ = certSecret THEN certSecretSpec(key, certificateReq.cert) ELSE @]

IssuedAny == TRUE

Issued == certificateReq.cert # certSecret.cert

ProvideCertificate ==
    /\ at = "update"
    /\ IF certificateReq.cert = NULL THEN UNCHANGED api
       ELSE IF certSecret = NULL THEN createTlsSecret
       ELSE IF Issued THEN updateTlsSecret
       ELSE UNCHANGED api
    /\ CallReturns
    /\ UNCHANGED <<informer, keys, issued, dueUpTo, dueEarly, failed>>

Controller ==
    \/ reconcileCertificateSecret \/ cleanupTmpSecrets \/ UseTmpSecret \/ createTlsTmpSecret
    \/ UseRequest \/ createCertificateRequest \/ ProvideCertificate

Informer == \E kind \in DOMAIN api : InformerUpdates(kind)

CertsNext == Controller \/ Informer \/ CallFails \/ Issue \/ BecomesDue

CertsSpec == CertsInit /\ [][CertsNext]_certVars

(***************************************************************************)
(* Properties                                                              *)
(***************************************************************************)
\* The key in a VM's secret is always the one that the certificate beside it is for, whatever is left
\* over from an earlier renewal: the temporary secret may be deleted without the request.  It rests on
\* time: no certificate may be due again before the cache has seen that the last one's temporary
\* objects are deleted, or a request is made for the deleted key.
KeyMatchesCert == ~dueEarly /\ api.tls # NULL => api.tls.key = api.tls.cert.for

\* The request of the last renewal was not deleted in time: it holds the certificate that is due, and
\* reconcileCertificateSecret neither replaces nor deletes it.
Leftover == api.tls # NULL /\ api.req # NULL /\ api.req.cert = api.tls.cert /\ Due(api.tls)

Provided == api.tls # NULL /\ ~Due(api.tls)

\* The VM is reconciled again and again, each cache follows, and cert-manager answers.
CertsFairness ==
    /\ WF_certVars(Controller) /\ WF_certVars(Informer) /\ WF_certVars(Issue)

\* A VM gets its certificate, and a new one whenever that is due, over failures and restarts at any
\* point, unless the request of the renewal before was left over until then.
CertificateIsProvided == []<>(Provided \/ Leftover)
=============================================================================
