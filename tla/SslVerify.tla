------------------------------ MODULE SslVerify ------------------------------
(***************************************************************************)
(* The verification of the peer (src/src/ssl.c): OpenSSL visits the           *)
(* certificates of the chain from the top to the leaf and asks                *)
(* z_ssl_verify_callback about each of them; ctx.error is what OpenSSL keeps   *)
(* from one call to the next.                                                 *)
(*                                                                           *)
(* A chain is a sequence, the leaf first; the issuer of a certificate is the   *)
(* next one, and the last one is its own.  Of a certificate the model keeps    *)
(* what OpenSSL says of it, the CRL its subject has published, and whether the  *)
(* CRL of its issuer lists it.  The serial numbers and the names are dropped.   *)
(***************************************************************************)
EXTENDS Integers, Sequences

CONSTANTS
    MaxChain,       \* bound: certificates in a chain
    VerifyDepths    \* the values of verify_depth; -1 is no limit

ASSUME ChainAssumption == MaxChain \in Nat /\ VerifyDepths \subseteq Int

VARIABLES
    session,  \* ZSSLSession: verify_type, verify_depth, crl_store
    peer      \* the handshake: the chain, the next certificate, ctx.error, the outcome

verifyvars == <<session, peer>>

VerifyTypes == {"NONE", "OPTIONAL", "REQUIRED_UNTRUSTED", "REQUIRED_TRUSTED"}

Certificates ==
    [verdict: {"ok", "untrusted", "invalid"},
     crl: {"none", "valid", "forged", "bad_date", "expired"},
     listed: BOOLEAN]

Chains == UNION {[1..n -> Certificates] : n \in 0..MaxChain}

Issuer(chain, i) == IF i = Len(chain) THEN i ELSE i + 1

\* z_ssl_session_new_from_context: the parameters are kept, and the callback is
\* set unless nothing is to be verified.
VerifyInit ==
    /\ session \in [verify_type: VerifyTypes, verify_depth: VerifyDepths, crl_store: BOOLEAN]
    /\ peer = [chain |-> <<>>, next |-> 0, error |-> "ok", state |-> "new"]

-----------------------------------------------------------------------------
(* z_ssl_verify_crl *)

\* A CRL of that subject is in the store.
z_ssl_x509_store_lookup(cert) == cert.crl # "none"

\* (mutant) a CRL that has expired is still good
SubjectCrlGood_expired(cert) == cert.crl \in {"none", "valid", "expired"}

\* The CRL the certificate's subject has published: its signature and its dates.
SubjectCrlGood(cert) == z_ssl_x509_store_lookup(cert) => cert.crl = "valid"

\* The CRL of the issuer lists the certificate.
Revoked(chain, i) == z_ssl_x509_store_lookup(chain[Issuer(chain, i)]) /\ chain[i].listed

z_ssl_verify_crl(chain, i) == SubjectCrlGood(chain[i]) /\ ~Revoked(chain, i)

\* What X509_STORE_CTX_set_error leaves; a revoked certificate sets nothing.
CrlError(cert, error) == IF SubjectCrlGood(cert) THEN error ELSE "invalid"

-----------------------------------------------------------------------------
(* z_ssl_verify_callback *)

ForcedOk(error) ==
    /\ session.verify_type \in {"REQUIRED_UNTRUSTED", "OPTIONAL"}
    /\ error = "untrusted"

TooDeep(depth) == session.verify_depth # -1 /\ depth > session.verify_depth

z_ssl_verify_callback(chain, i, ok, error) ==
    \/ ForcedOk(error)
    \/ /\ ok
       /\ session.crl_store => z_ssl_verify_crl(chain, i)
       /\ ~TooDeep(i - 1)

-----------------------------------------------------------------------------
(* OpenSSL (external). *)

\* A session that verifies nothing accepts every peer; one that does accepts a
\* peer without a certificate unless SSL_VERIFY_FAIL_IF_NO_PEER_CERT is set.
FAIL_IF_NO_PEER_CERT == session.verify_type = "REQUIRED_TRUSTED"

Presents(chain) ==
    /\ peer.state = "new"
    /\ LET verified == session.verify_type # "NONE" /\ chain # <<>>
           refused == chain = <<>> /\ FAIL_IF_NO_PEER_CERT
       IN  peer' = [chain |-> chain, next |-> Len(chain), error |-> "ok",
                    state |-> IF verified THEN "verifying"
                              ELSE IF refused THEN "rejected" ELSE "accepted"]
    /\ UNCHANGED session

Visits ==
    /\ peer.state = "verifying"
    /\ LET i == peer.next
           cert == peer.chain[i]
           ok == cert.verdict = "ok"
           error == IF ok THEN peer.error ELSE cert.verdict
           looked == session.crl_store /\ (ok \/ ForcedOk(error))
       IN  peer' = [peer EXCEPT
                      !.next = i - 1,
                      !.error = IF looked THEN CrlError(cert, error) ELSE error,
                      !.state = IF ~z_ssl_verify_callback(peer.chain, i, ok, error) THEN "rejected"
                                ELSE IF i = 1 THEN "accepted" ELSE "verifying"]
    /\ UNCHANGED session

VerifyNext == Visits \/ \E chain \in Chains : Presents(chain)

-----------------------------------------------------------------------------
(* Properties. *)

\* A session that requires a trusted peer accepts only a chain of which every
\* certificate is good, within the depth, and not on a list of its issuer; and
\* the list that says so is one the issuer has signed and that has not expired.
\* The callback checks the list of an issuer when it visits the issuer, and the
\* revocation when it visits the certificate.
TrustedPeer ==
    session.verify_type = "REQUIRED_TRUSTED" /\ peer.state = "accepted" =>
        /\ peer.chain # <<>>
        /\ \A i \in DOMAIN peer.chain :
              /\ peer.chain[i].verdict = "ok"
              /\ session.verify_depth # -1 => i - 1 <= session.verify_depth
              /\ session.crl_store =>
                   LET crl == peer.chain[Issuer(peer.chain, i)].crl
                   IN  crl = "none" \/ (crl = "valid" /\ ~peer.chain[i].listed)
=============================================================================
