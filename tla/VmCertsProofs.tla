---------------------------- MODULE VmCertsProofs ----------------------------
(***************************************************************************)
(* The key in a VM's secret is the one its certificate is for, for any     *)
(* number of renewals, failures and restarts (KeyMatchesCert), as long as  *)
(* none is due before the deletions after the last one are seen.           *)
(*                                                                         *)
(* reconcileCertificateSecret puts together a key from one object and a    *)
(* certificate from another, as a cache shows them.  The two belong to     *)
(* each other unless the request has served before: while a renewal may be *)
(* going on nothing is deleted, so there is one key and one request, and   *)
(* the request is for the key.  A request that has served holds the        *)
(* certificate that is in the secret, which is not stored again.           *)
(***************************************************************************)
EXTENDS VmCerts, TLAPS

USE DEF Optional

Objects == [tls : Secret \union {NULL}, tmp : Nat \union {NULL}, req : Request \union {NULL}]

CertsTypes ==
    /\ api \in Objects
    /\ informer \in Objects
    /\ keys \in Nat /\ issued \in Nat /\ dueUpTo \in Nat
    /\ dueEarly \in BOOLEAN
    /\ certSecret \in Secret \union {NULL}
    /\ key \in Nat \union {NULL}
    /\ certificateReq \in Request \union {NULL}
    /\ at \in {"getRequest", "update"} => key # NULL
    /\ at = "update" => certificateReq # NULL

RenewalSteps == {"getKey", "getRequest", "update"}

CleanupSteps == {"cleanupTmpSecret", "cleanupCertRequest"}

\* A call that starts now goes on to renew, as far as the cache knows.
MayRenew == informer.tls = NULL \/ Due(informer.tls)

Renewing == MayRenew \/ at \in RenewalSteps

\* The VM has a certificate that is not due.
HasCert == api.tls # NULL /\ ~Due(api.tls)

\* The request has already served: its certificate is the one in the secret.
Served == api.tls # NULL /\ api.req.cert = api.tls.cert

\* What is known of the request is true, though its certificate may be missing.
Copies(req) ==
    /\ api.req # NULL
    /\ req.key = api.req.key
    /\ req.cert \in {NULL, api.req.cert}

CallIsRight ==
    /\ MayRenew => at \notin CleanupSteps
    /\ at \in RenewalSteps => certSecret = NULL \/ Due(certSecret)
    /\ at \in {"getRequest", "update"} => key = api.tmp
    /\ at = "update" => Copies(certificateReq)

RequestIsRight ==
    /\ api.req # NULL /\ api.req.cert # NULL => api.req.cert.for = api.req.key
    /\ HasCert /\ api.req # NULL => Served

\* What the cache has is what is there, or is deleted: nothing is made that the cache knows of.
CacheIsRight ==
    /\ informer.tmp # NULL /\ api.tmp # NULL => informer.tmp = api.tmp
    /\ informer.req # NULL /\ api.req # NULL => Copies(informer.req)

\* While calls may renew nothing is deleted, so that what the cache has is there.
RenewalIsRight ==
    Renewing =>
        /\ informer.tmp # NULL => informer.tmp = api.tmp
        /\ informer.req # NULL => Copies(informer.req)
        /\ api.req # NULL => Served \/ (api.tmp # NULL /\ api.req.key = api.tmp)
        /\ HasCert => api.req # NULL

CertsInv ==
    /\ CertsTypes
    /\ ~MayRenew => informer.tls = api.tls
    /\ CallIsRight
    /\ RequestIsRight
    /\ CacheIsRight
    /\ RenewalIsRight
    /\ KeyMatchesCert

(***************************************************************************)
(* Types                                                                   *)
(***************************************************************************)
LEMMA TypesInit == CertsInit => CertsTypes
  <1>1. CertsInit => dueEarly \in BOOLEAN
    BY Zenon DEF CertsInit
  <1>. QED  BY <1>1 DEF CertsInit, CertsTypes, Objects

\* Every step keeps the types, as NULL is told from keys, certificates and objects.
LEMMA TypesStep ==
    ASSUME CertsTypes, [CertsNext]_certVars
    PROVE  CertsTypes'
  <1>. USE NilAssumption DEF CertsTypes, Objects, Request, Secret, Cert
  <1>1. CallFails => CertsTypes'
    BY DEF CallFails, CallReturns, objVars
  <1>2. Issue => CertsTypes'
    <2>1. SUFFICES ASSUME Issue PROVE CertsTypes'
      OBVIOUS
    <2>2. api'.tls = api.tls /\ api'.tmp = api.tmp /\ api' = [api EXCEPT !.req = api'.req]
      BY <2>1 DEF Issue
    <2>3. api.req \in Request /\ issued' \in Nat
      BY <2>1 DEF Issue
    <2>4. api'.req = [api.req EXCEPT !.cert = [serial |-> issued', for |-> api.req.key]]
      BY <2>1 DEF Issue
    <2>5. api'.req \in Request
      BY <2>3, <2>4
    <2>6. api' \in Objects
      BY <2>2, <2>5
    <2>. QED  BY <2>1, <2>3, <2>6 DEF Issue, callVars
  <1>3. BecomesDue => CertsTypes'
    BY DEF BecomesDue, callVars
  <1>4. Informer => CertsTypes'
    BY DEF Informer, InformerUpdates, callVars
  <1>5. reconcileCertificateSecret => CertsTypes'
    BY DEF reconcileCertificateSecret, objVars
  <1>6. cleanupTmpSecrets => CertsTypes'
    BY DEF cleanupTmpSecrets, CallReturns
  <1>7. UseTmpSecret \/ UseRequest => CertsTypes'
    BY DEF UseTmpSecret, UseRequest, objVars
  <1>8. createTlsTmpSecret => CertsTypes'
    BY DEF createTlsTmpSecret, tmpKeySecretSpec, CallReturns
  <1>9. createCertificateRequest => CertsTypes'
    BY DEF createCertificateRequest, certReqSpec, CallReturns
  <1>10. ProvideCertificate => CertsTypes'
    <2>1. SUFFICES ASSUME ProvideCertificate PROVE CertsTypes'
      OBVIOUS
    <2>2. key \in Nat /\ certificateReq \in Request
      BY <2>1 DEF ProvideCertificate
    <2>3. certificateReq.cert # NULL => certSecretSpec(key, certificateReq.cert) \in Secret
      BY <2>2 DEF certSecretSpec
    <2>4. api' \in Objects
      BY <2>1, <2>3 DEF ProvideCertificate, createTlsSecret, updateTlsSecret
    <2>. QED  BY <2>1, <2>4 DEF ProvideCertificate, CallReturns
  <1>. QED
    BY <1>1, <1>2, <1>3, <1>4, <1>5, <1>6, <1>7, <1>8, <1>9, <1>10
       DEF CertsNext, Controller, certVars, objVars, callVars

(***************************************************************************)
(* Steps                                                                   *)
(***************************************************************************)
\* A call that ends leaves the objects alone.
LEMMA ReturnStep ==
    ASSUME CertsInv, CertsTypes', CallReturns, UNCHANGED objVars
    PROVE  CertsInv'
  BY DEF CertsInv, CallReturns, objVars, MayRenew, CallIsRight, RequestIsRight, CacheIsRight, RenewalIsRight,
         Renewing, HasCert, Served, Copies, Due, KeyMatchesCert, RenewalSteps, CleanupSteps

LEMMA CertsInvStep ==
    ASSUME CertsInv, [CertsNext]_certVars, ~dueEarly, ~dueEarly'
    PROVE  CertsInv'
  <1>t. CertsTypes /\ CertsTypes'
    BY TypesStep DEF CertsInv
  <1>. USE DEF RenewalSteps, CleanupSteps
  <1>0. UNCHANGED certVars => CertsInv'
    BY <1>t DEF CertsInv, certVars, objVars, callVars, MayRenew, CallIsRight, RequestIsRight,
          CacheIsRight, RenewalIsRight, Renewing, HasCert, Served, Copies, Due, KeyMatchesCert
  <1>1. CallFails => CertsInv'
    BY <1>t, ReturnStep DEF CallFails
  \* cert-manager: only a request that has not served yet gets its certificate.
  <1>2. Issue => CertsInv'
    <2>1. SUFFICES ASSUME Issue PROVE CertsInv'
      OBVIOUS
    <2>2. /\ api.req \in Request /\ api.req # NULL /\ api.req.cert = NULL
          /\ api'.tls = api.tls /\ api'.tmp = api.tmp
          /\ api'.req.key = api.req.key
          /\ api'.req.cert.for = api.req.key
          /\ api'.req # NULL
          /\ UNCHANGED <<informer, dueUpTo, callVars>>
      <3>1. api.req \in Request /\ api.req # NULL /\ api.req.cert = NULL
        BY <1>t, <2>1 DEF Issue, CertsTypes, Objects
      <3>2. /\ api'.tls = api.tls /\ api'.tmp = api.tmp
            /\ api'.req = [api.req EXCEPT !.cert = [serial |-> issued', for |-> api.req.key]]
        BY <1>t, <2>1 DEF Issue, CertsTypes, Objects
      <3>3. api'.req \in Request
        BY <1>t, <3>1, <3>2 DEF CertsTypes, Request, Cert
      <3>. QED
        BY <2>1, <3>1, <3>2, <3>3, NilAssumption DEF Issue, Request
    <2>3. api.tls # NULL => api.tls.cert # NULL
      BY <1>t, NilAssumption DEF CertsTypes, Objects, Secret
    <2>4. ~Served /\ ~HasCert
      BY <2>2, <2>3 DEF Served, CertsInv, RequestIsRight
    <2>5. ~HasCert' /\ (MayRenew' <=> MayRenew) /\ (Renewing' <=> Renewing)
      BY <2>2, <2>4 DEF HasCert, MayRenew, Renewing, Due, callVars
    <2>6. ASSUME NEW req, Copies(req) PROVE Copies(req)'
      BY <2>2, <2>6 DEF Copies
    <2>7. CallIsRight'
      BY <2>2, <2>5, <2>6 DEF CertsInv, CallIsRight, callVars, Due
    <2>8. RequestIsRight'
      BY <2>2, <2>5 DEF RequestIsRight
    <2>9. RenewalIsRight' /\ CacheIsRight'
      BY <2>2, <2>4, <2>5, <2>6 DEF CertsInv, RenewalIsRight, CacheIsRight
    <2>. QED
      BY <1>t, <2>2, <2>5, <2>7, <2>8, <2>9 DEF CertsInv, KeyMatchesCert
  \* No deletion is unseen when a certificate becomes due.
  <1>3. BecomesDue => CertsInv'
    <2>1. SUFFICES ASSUME BecomesDue PROVE CertsInv'
      OBVIOUS
    <2>2. /\ api.tls # NULL /\ HasCert
          /\ UNCHANGED <<api, informer, callVars>>
          /\ dueUpTo' = api.tls.cert.serial
      BY <2>1 DEF BecomesDue, HasCert
    <2>3. ~DeletionUnseen
      BY <2>1 DEF BecomesDue
    <2>4. ASSUME NEW secret \in Secret, Due(secret) PROVE Due(secret)'
      BY <1>t, <2>2, <2>4 DEF HasCert, Due, CertsTypes, Objects, Secret, Cert
    <2>5. ~HasCert' /\ MayRenew'
      <3>1. ~HasCert' /\ Due(api.tls)'
        BY <1>t, <2>2 DEF HasCert, Due, CertsTypes, Objects, Secret, Cert
      <3>2. CASE MayRenew
        BY <1>t, <2>2, <2>4, <3>1, <3>2 DEF MayRenew, CertsTypes, Objects
      <3>3. CASE ~MayRenew
        BY <2>2, <3>1, <3>3 DEF CertsInv, MayRenew
      <3>. QED  BY <3>1, <3>2, <3>3
    <2>6. api.req # NULL => Served
      BY <2>2 DEF CertsInv, RequestIsRight
    <2>7. CallIsRight'
      BY <1>t, <2>2, <2>3, <2>4 DEF CertsInv, CallIsRight, DeletionUnseen, Copies, callVars, CertsTypes
    <2>8. RequestIsRight' /\ CacheIsRight'
      BY <2>2, <2>5 DEF CertsInv, RequestIsRight, CacheIsRight, Copies
    <2>9. RenewalIsRight'
      BY <2>2, <2>3, <2>5, <2>6 DEF CertsInv, CacheIsRight, RenewalIsRight, Served, Copies,
            DeletionUnseen
    <2>. QED
      BY <1>t, <2>2, <2>5, <2>7, <2>8, <2>9 DEF CertsInv, KeyMatchesCert
  <1>4. Informer => CertsInv'
    <2>1. SUFFICES ASSUME NEW kind \in DOMAIN api, InformerUpdates(kind) PROVE CertsInv'
      BY DEF Informer
    <2>2. UNCHANGED <<api, dueUpTo, callVars>>
      BY <2>1 DEF InformerUpdates
    <2>3. kind \in {"tls", "tmp", "req"}
      BY <1>t DEF CertsTypes, Objects
    <2>4. /\ informer'.tls \in {informer.tls, api.tls}
          /\ informer'.tmp \in {informer.tmp, api.tmp}
          /\ informer'.req \in {informer.req, api.req}
      BY <1>t, <2>1, <2>3 DEF InformerUpdates, CertsTypes, Objects
    <2>5. MayRenew' => MayRenew
      BY <2>2, <2>4 DEF CertsInv, MayRenew, Due
    <2>6. ~MayRenew' => informer'.tls = api'.tls
      BY <2>2, <2>4 DEF CertsInv, MayRenew, Due
    <2>7. CallIsRight' /\ RequestIsRight'
      BY <2>2, <2>5 DEF CertsInv, CallIsRight, RequestIsRight, HasCert, Served, Copies, Due,
            callVars
    <2>8. RenewalIsRight' /\ CacheIsRight'
      BY <2>2, <2>4, <2>5 DEF CertsInv, RenewalIsRight, CacheIsRight, Renewing, HasCert, Served,
            Copies, Due, callVars
    <2>. QED  BY <1>t, <2>2, <2>6, <2>7, <2>8 DEF CertsInv, KeyMatchesCert
  <1>5. reconcileCertificateSecret => CertsInv'
    BY <1>t DEF reconcileCertificateSecret, objVars, CertsInv, CallIsRight, RequestIsRight,
          CacheIsRight, RenewalIsRight, MayRenew, Renewing, HasCert, Served, Copies, Due, KeyMatchesCert
  \* Objects are deleted only while no renewal goes on.
  <1>6. cleanupTmpSecrets => CertsInv'
    <2>1. SUFFICES ASSUME cleanupTmpSecrets PROVE CertsInv'
      OBVIOUS
    <2>2. /\ api'.tls = api.tls
          /\ api'.tmp \in {api.tmp, NULL} /\ api'.req \in {api.req, NULL}
          /\ UNCHANGED <<informer, dueUpTo>>
          /\ at' \in {"idle", "cleanupCertRequest"}
      BY <1>t, <2>1 DEF cleanupTmpSecrets, CallReturns, CertsTypes, Objects
    <2>3. ~MayRenew /\ at \in CleanupSteps
      BY <2>1 DEF cleanupTmpSecrets, CertsInv, CallIsRight
    <2>4. ~MayRenew' /\ ~Renewing'
      BY <2>2, <2>3 DEF MayRenew, Renewing, Due
    <2>5. RequestIsRight' /\ CacheIsRight'
      BY <2>2 DEF CertsInv, RequestIsRight, CacheIsRight, Copies, HasCert, Served, Due
    <2>. QED
      BY <1>t, <2>2, <2>3, <2>4, <2>5 DEF CertsInv, CallIsRight, RenewalIsRight, KeyMatchesCert
  <1>7. UseTmpSecret => CertsInv'
    BY <1>t DEF UseTmpSecret, objVars, CertsInv, CallIsRight, RequestIsRight,
          CacheIsRight, RenewalIsRight, MayRenew, Renewing, HasCert, Served, Copies, Due, KeyMatchesCert
  <1>8. UseRequest => CertsInv'
    BY <1>t DEF UseRequest, objVars, CertsInv, CallIsRight, RequestIsRight,
          CacheIsRight, RenewalIsRight, MayRenew, Renewing, HasCert, Served, Copies, Due, KeyMatchesCert
  \* A new key: no request is waiting for its certificate.
  <1>9. createTlsTmpSecret => CertsInv'
    <2>1. SUFFICES ASSUME createTlsTmpSecret PROVE CertsInv'
      OBVIOUS
    <2>2. CASE api.tmp # NULL
      BY <1>t, <2>1, <2>2, ReturnStep DEF createTlsTmpSecret, objVars
    <2>3. CASE api.tmp = NULL
      <3>1. /\ api'.tls = api.tls /\ api'.req = api.req
            /\ api'.tmp = key' /\ key' # NULL
            /\ at = "getKey" /\ at' = "getRequest"
            /\ informer.tmp = NULL
            /\ UNCHANGED <<informer, dueUpTo, certSecret>>
        BY <1>t, <2>1, <2>3, NilAssumption DEF createTlsTmpSecret, tmpKeySecretSpec, CertsTypes, Objects
      <3>2. Renewing /\ (MayRenew' <=> MayRenew)
        BY <3>1 DEF Renewing, MayRenew, Due
      <3>3. api.req # NULL => Served
        BY <2>3, <3>2 DEF CertsInv, RenewalIsRight
      <3>4. CallIsRight'
        BY <3>1, <3>2 DEF CertsInv, CallIsRight, Due
      <3>5. RequestIsRight' /\ CacheIsRight'
        BY <3>1 DEF CertsInv, RequestIsRight, CacheIsRight, Copies, HasCert, Served, Due
      <3>6. RenewalIsRight'
        BY <3>1, <3>2, <3>3 DEF CertsInv, RenewalIsRight, HasCert, Served, Copies, Due
      <3>. QED
        BY <1>t, <3>1, <3>2, <3>4, <3>5, <3>6 DEF CertsInv, KeyMatchesCert
    <2>. QED  BY <2>2, <2>3
  \* A new request is for the key that is stored.
  <1>10. createCertificateRequest => CertsInv'
    <2>1. SUFFICES ASSUME createCertificateRequest PROVE CertsInv'
      OBVIOUS
    <2>2. CASE api.req # NULL
      <3>1. UNCHANGED api
        BY <1>t, <2>1, <2>2 DEF createCertificateRequest, CertsTypes, Objects
      <3>. QED
        BY <1>t, <2>1, <3>1, ReturnStep DEF createCertificateRequest, objVars
    <2>3. CASE api.req = NULL
      <3>1. /\ api'.tls = api.tls /\ api'.tmp = api.tmp
            /\ api'.req = certReqSpec(key)
            /\ at = "getRequest" /\ at' = "idle"
            /\ UNCHANGED <<informer, dueUpTo>>
            /\ informer.req = NULL
        BY <1>t, <2>1, <2>3 DEF createCertificateRequest, CallReturns, CertsTypes, Objects
      <3>2. key # NULL /\ key = api.tmp
        BY <1>t, <3>1 DEF CertsInv, CallIsRight, CertsTypes
      <3>3. api'.req.key = api'.tmp /\ api'.req.cert = NULL
        BY <3>1, <3>2 DEF certReqSpec
      <3>4. Renewing /\ ~HasCert
        BY <2>3, <3>1 DEF CertsInv, RenewalIsRight, Renewing
      <3>5. ~HasCert' /\ (MayRenew' <=> MayRenew)
        BY <3>1, <3>4 DEF HasCert, MayRenew, Due
      <3>6. CallIsRight'
        BY <3>1 DEF CallIsRight
      <3>7. RequestIsRight' /\ CacheIsRight'
        BY <3>1, <3>3, <3>5 DEF CertsInv, RequestIsRight, CacheIsRight
      <3>8. RenewalIsRight'
        BY <3>1, <3>2, <3>3, <3>4, <3>5 DEF CertsInv, RenewalIsRight
      <3>. QED
        BY <1>t, <3>1, <3>5, <3>6, <3>7, <3>8 DEF CertsInv, KeyMatchesCert
    <2>. QED  BY <2>2, <2>3
  \* What is stored is a certificate that was not stored before, with its key.
  <1>11. ProvideCertificate => CertsInv'
    <2>1. SUFFICES ASSUME ProvideCertificate PROVE CertsInv'
      OBVIOUS
    <2>2. CASE UNCHANGED api
      BY <1>t, <2>1, <2>2, ReturnStep DEF ProvideCertificate, objVars
    <2>3. CASE api' # api
      <3>1. /\ at = "update" /\ at' = "idle"
            /\ UNCHANGED <<informer, dueUpTo>>
            /\ certificateReq.cert # NULL
            /\ api.tls = certSecret
            /\ certSecret # NULL => certificateReq.cert # certSecret.cert
            /\ api'.tls = certSecretSpec(key, certificateReq.cert)
            /\ api'.tmp = api.tmp /\ api'.req = api.req
        BY <1>t, <2>1, <2>3 DEF ProvideCertificate, createTlsSecret, updateTlsSecret, Issued,
              CallReturns, CertsTypes, Objects
      <3>2. /\ key # NULL /\ key = api.tmp
            /\ api.req # NULL
            /\ certificateReq.cert = api.req.cert
            /\ certSecret = NULL \/ Due(certSecret)
        BY <1>t, <3>1 DEF CertsInv, CallIsRight, Copies, CertsTypes
      <3>3. ~Served /\ Renewing
        BY <3>1, <3>2 DEF Served, Renewing
      <3>4. api.req.key = key /\ api.req.cert.for = key
        BY <3>1, <3>2, <3>3 DEF CertsInv, RenewalIsRight, RequestIsRight
      <3>5. /\ api'.tls.key = key /\ api'.tls.cert = api.req.cert /\ api'.tls # NULL
        <4>1. certSecretSpec(key, certificateReq.cert) \in Secret
          BY <1>t, <3>1, <3>2 DEF CertsTypes, Objects, Request, Secret, certSecretSpec
        <4>. QED  BY <3>1, <3>2, <4>1, NilAssumption DEF certSecretSpec
      <3>6. Served'
        BY <3>1, <3>5 DEF Served
      <3>7. MayRenew
        BY <3>1, <3>2 DEF CertsInv, MayRenew, Due
      <3>8. MayRenew'
        BY <3>1, <3>7 DEF MayRenew, Due
      <3>9. RequestIsRight' /\ CacheIsRight'
        BY <3>1, <3>6 DEF CertsInv, RequestIsRight, CacheIsRight, Copies
      <3>10. RenewalIsRight'
        BY <3>1, <3>2, <3>3, <3>6 DEF CertsInv, RenewalIsRight, Copies
      <3>11. CallIsRight'
        BY <3>1 DEF CallIsRight
      <3>12. KeyMatchesCert'
        BY <3>4, <3>5 DEF KeyMatchesCert
      <3>. QED
        BY <1>t, <3>8, <3>9, <3>10, <3>11, <3>12 DEF CertsInv
    <2>. QED  BY <2>2, <2>3
  <1>. QED
    BY <1>0, <1>1, <1>2, <1>3, <1>4, <1>5, <1>6, <1>7, <1>8, <1>9, <1>10, <1>11
       DEF CertsNext, Controller

(***************************************************************************)
(* Theorem                                                                 *)
(***************************************************************************)
\* Once a certificate was due too early that is not forgotten.
LEMMA EarlyStays ==
    ASSUME CertsTypes, [CertsNext]_certVars, ~dueEarly'
    PROVE  ~dueEarly
  BY DEF CertsTypes, CertsNext, Controller, certVars, objVars, CallFails, Issue, BecomesDue, Informer,
         InformerUpdates, reconcileCertificateSecret, cleanupTmpSecrets, UseTmpSecret,
         createTlsTmpSecret, UseRequest, createCertificateRequest, ProvideCertificate

\* The key in a VM's secret is always the one that the certificate beside it is
\* for, however many renewals there have been and wherever one was interrupted,
\* unless one was due before the cache had seen the deletions after the last.
THEOREM KeyMatchesCertHolds ==
    CertsSpec => []KeyMatchesCert
  <1>. DEFINE Inv == CertsTypes /\ (~dueEarly => CertsInv)
  <1>1. CertsInit => Inv
    BY TypesInit DEF CertsInit, CertsInv, CallIsRight, RequestIsRight, CacheIsRight, RenewalIsRight,
          MayRenew, Renewing, HasCert, Served, Copies, KeyMatchesCert, RenewalSteps, CleanupSteps
  <1>2. Inv /\ [CertsNext]_certVars => Inv'
    BY TypesStep, EarlyStays, CertsInvStep
  <1>3. Inv => KeyMatchesCert
    BY DEF CertsInv, KeyMatchesCert
  <1>. QED  BY <1>1, <1>2, <1>3, PTL DEF CertsSpec
=============================================================================
