------------------------------- MODULE FrontEnd -------------------------------
(***************************************************************************)
(* The web front end's requests, from HandleFunc to the call of the RA.    *)
(* The nonce service is seen as the one-time tokens that NonceService is   *)
(* proved to implement, with refusals (a restart, an overtaken nonce) at   *)
(* any time.  Each POST is a process: its handler draws the nonce of its   *)
(* answer first, reads the SA several times, redeems the nonce of the      *)
(* request between those reads, and calls the RA on what it read.          *)
(* Meanwhile the same request may arrive again, accounts are deactivated,  *)
(* the certificate is revoked, authorizations are lost, and the process    *)
(* restarts.  AllowAccountDeactivation and AllowAuthzDeactivation are on.  *)
(*                                                                         *)
(* The endpoints are those whose handlers rely on state read before        *)
(* the call: new-cert, revoke-cert, challenge and authz.  There is one     *)
(* certificate and one authorization, both of the account "owner".  The    *)
(* requests that carry nothing but a nonce here are OtherRequest.          *)
(***************************************************************************)
EXTENDS OneTimeTokens

CONSTANTS
    Posts,              \* POSTs, each with its handler
    Scenarios           \* what the POSTs are: functions from Posts to Requests

VARIABLES
    post,               \* POST -> its progress
    regStatus,          \* account -> the status of its registration
    certificate,        \* the status of the certificate
    holders,            \* accounts with valid authorizations for all its names
    calls               \* history: nonce -> calls of the RA made with it

tokens == <<issued, spent>>
world == <<regStatus, certificate, holders>>
vars == <<tokens, post, world, calls>>

Endpoints == {"new-cert", "revoke-cert", "challenge", "authz"}

\* Registered accounts; a certificate's own key has no registration.
Accounts == {"owner", "holder", "stranger"}
Signers == Accounts \cup {"certificate key"}

\* Where a request is not as it should be: its method, its JWS (or the quality
\* of its key), the signature, its resource field, the account's agreement to
\* the terms, its payload, the reason it gives for a revocation.
Flaws == {"none", "method", "JWS", "signature", "resource", "agreement", "payload", "reason"}

Requests == [endpoint : Endpoints, signer : Signers, flaw : Flaws]

ASSUME FrontEndAssumption == Scenarios \subseteq [Posts -> Requests]

NoNonce == "no nonce"

\* What held when the request was received is kept for the properties.
Unsent(r) == [request |-> r, step |-> "unsent", nonce |-> NoNonce,
              answer |-> "none", holdersThen |-> {}, validThen |-> FALSE]

FEInit ==
    /\ Init
    /\ \E s \in Scenarios : post = [p \in Posts |-> Unsent(s[p])]
    /\ regStatus = [a \in Accounts |-> "valid"]
    /\ certificate = "good"
    /\ holders = {"holder"}
    /\ calls = [n \in Tokens |-> 0]

-----------------------------------------------------------------------------
Goes(p, step) == post' = [post EXCEPT ![p].step = step]

\* sendError, or the handler's answer; the handler's locals are gone.
Answered(state, answer) ==
    [state EXCEPT !.step = "answered", !.answer = answer,
                  !.holdersThen = {}, !.validThen = FALSE]
Answer(p, answer) == post' = [post EXCEPT ![p] = Answered(@, answer)]

\* A client sends a request with a nonce that was handed out, or one request
\* goes out twice, by a retry or behind a proxy.
Send(p, n) ==
    /\ post[p].step = "unsent"
    /\ post' = [post EXCEPT ![p].step = "sent", ![p].nonce = n]
    /\ UNCHANGED <<tokens, world, calls>>

\* A fresh nonce; without one the answer carries none.
DrawNonce == (\E t \in Tokens \ issued : Issue(t)) \/ UNCHANGED tokens

\* HandleFunc: the nonce of the answer is drawn before anything else.  Challenge
\* and Authorization go on to read the authorization, which may be gone or have
\* expired, before they look at the JWS.
HandleFunc(p) ==
    LET r == post[p].request
    IN  /\ post[p].step = "sent"
        /\ DrawNonce
        /\ \/ /\ r.flaw = "method"
              /\ post' = [post EXCEPT ![p] = Answered(@, "methodNotAllowed")]
           \/ /\ r.flaw # "method" /\ r.endpoint \in {"challenge", "authz"}
              /\ post' = [post EXCEPT ![p] = Answered(@, "notFound")]
           \/ /\ r.flaw # "method"
              /\ post' = [post EXCEPT ![p] =
                    [@ EXCEPT !.step = "received", !.holdersThen = holders,
                                  !.validThen = r.signer \in Accounts
                                                /\ regStatus[r.signer] = "valid"]]
        /\ UNCHANGED <<world, calls>>

regCheck(endpoint) == endpoint # "revoke-cert"

\* verifyPOST up to the signature: the refusal, or "none".
Lookup(r) ==
    IF r.flaw = "JWS" THEN "malformed"
    ELSE IF r.signer \notin Accounts /\ regCheck(r.endpoint) THEN "unauthorized"
    ELSE IF regCheck(r.endpoint) /\ regStatus[r.signer] # "valid" THEN "unauthorized"
    ELSE IF r.flaw = "signature" THEN "malformed"
    ELSE "none"

GetRegistrationByKey(p) ==
    /\ post[p].step = "received"
    /\ \/ LET refusal == Lookup(post[p].request)
          IN  IF refusal = "none" THEN Goes(p, "known") ELSE Answer(p, refusal)
       \/ Answer(p, "serverInternal")
    /\ UNCHANGED <<tokens, world, calls>>

-----------------------------------------------------------------------------
\* The handlers' own checks: the refusal, or "none".

\* The registration's id is 0 without one, which no certificate has.
RegistrationID(signer) ==
    CASE signer = "owner" -> 1 [] signer = "holder" -> 2 [] signer = "stranger" -> 3
      [] OTHER -> 0

regHoldsAuthorizations(signer) == signer \in holders

\* Mutant: whoever signs may revoke.
RevokeCertificateAnyone(r) ==
    IF r.flaw = "payload" THEN "malformed"
    ELSE IF certificate = "revoked" THEN "conflict"
    ELSE "none"

RevokeCertificate(r) ==
    IF r.flaw = "payload" THEN "malformed"
    ELSE IF certificate = "revoked" THEN "conflict"
    ELSE IF ~ (\/ r.signer = "certificate key"
               \/ RegistrationID(r.signer) = RegistrationID("owner")
               \/ regHoldsAuthorizations(r.signer)) THEN "unauthorized"
    ELSE IF r.flaw = "reason" THEN "malformed"
    ELSE "none"

NewCertificate(r) ==
    IF r.flaw = "agreement" THEN "unauthorized"
    ELSE IF r.flaw = "payload" THEN "malformed"
    ELSE "none"

postChallenge(r) ==
    IF r.flaw = "agreement" THEN "unauthorized"
    ELSE IF RegistrationID(r.signer) # RegistrationID("owner") THEN "unauthorized"
    ELSE IF r.flaw = "payload" THEN "malformed"
    ELSE "none"

\* The agreement is not asked for.
deactivateAuthorization(r) ==
    IF RegistrationID(r.signer) # RegistrationID("owner") THEN "unauthorized"
    ELSE IF r.flaw = "payload" THEN "malformed"
    ELSE "none"

Refusal(r) ==
    CASE r.endpoint = "revoke-cert" -> RevokeCertificate(r)
      [] r.endpoint = "new-cert" -> NewCertificate(r)
      [] r.endpoint = "challenge" -> postChallenge(r)
      [] r.endpoint = "authz" -> deactivateAuthorization(r)

\* The answer after the nonce was accepted, or the step to the call.  A
\* revocation also ends when the certificate, its status or the authorizations
\* cannot be read.
Continue(p) ==
    LET r == post[p].request
    IN  IF r.flaw = "resource" THEN Answer(p, "malformed")
        ELSE \/ IF Refusal(r) # "none" THEN Answer(p, Refusal(r)) ELSE Goes(p, "checked")
             \/ /\ r.endpoint = "revoke-cert"
                /\ Answer(p, "notFound") \/ Answer(p, "serverInternal")

\* Mutant: the nonce is looked up and not redeemed.
VerifiedLookingOnly(p) ==
    /\ post[p].step = "known"
    /\ \/ spent[post[p].nonce] = 0 /\ Continue(p)
       \/ Answer(p, "badNonce")
    /\ UNCHANGED <<tokens, world, calls>>

\* The rest of verifyPOST, and the handler up to its call: a nonce is spent also
\* by a request that is refused after it.
Verified(p) ==
    /\ post[p].step = "known"
    /\ \/ Redeem(post[p].nonce) /\ Continue(p)
       \/ UNCHANGED tokens /\ Answer(p, "badNonce")
    /\ UNCHANGED <<world, calls>>

\* What the RA's call changes.
Effect(endpoint) ==
    /\ certificate' = IF endpoint = "revoke-cert" THEN "revoked" ELSE certificate
    /\ UNCHANGED <<regStatus, holders>>

\* The call of the RA, which may fail with or without its effect.
CallRA(p) ==
    LET r == post[p].request
    IN  /\ post[p].step = "checked"
        /\ calls' = [calls EXCEPT ![post[p].nonce] = @ + 1]
        /\ \/ Effect(r.endpoint) /\ Answer(p, "ok")
           \/ Effect(r.endpoint) /\ Answer(p, "serverInternal")
           \/ UNCHANGED world /\ Answer(p, "serverInternal")
        /\ UNCHANGED tokens

-----------------------------------------------------------------------------
\* Other requests, here and at other front ends.  (Bound: only what a POST
\* is about changes.)
About(endpoint, signers) ==
    \E p \in Posts : post[p].request.endpoint = endpoint /\ post[p].request.signer \in signers

Elsewhere ==
    /\ \/ /\ \E a \in Accounts :
                /\ \E e \in Endpoints \ {"revoke-cert"} : About(e, {a})
                /\ regStatus' = [regStatus EXCEPT ![a] = "deactivated"]
          /\ UNCHANGED <<certificate, holders>>
       \/ /\ About("revoke-cert", Signers)
          /\ certificate' = "revoked" /\ UNCHANGED <<regStatus, holders>>
       \/ /\ About("revoke-cert", holders)
          /\ holders' = {} /\ UNCHANGED <<regStatus, certificate>>
    /\ UNCHANGED <<tokens, post, calls>>

OtherRequest ==
    /\ DrawNonce \/ \E n \in Tokens : Redeem(n)
    /\ UNCHANGED <<post, world, calls>>

\* The process restarts, and what its handlers were at is lost.
FERestart ==
    /\ \E p \in Posts : post[p].step \in {"received", "known", "checked"}
    /\ post' = [p \in Posts |-> IF post[p].step \in {"received", "known", "checked"}
                                THEN Answered(post[p], "none") ELSE post[p]]
    /\ UNCHANGED <<tokens, world, calls>>

HandlerStep(p) ==
    HandleFunc(p) \/ GetRegistrationByKey(p) \/ Verified(p) \/ CallRA(p)

FENext ==
    \/ \E p \in Posts : HandlerStep(p) \/ \E n \in issued : Send(p, n)
    \/ Elsewhere
    \/ OtherRequest
    \/ FERestart

FESpec == FEInit /\ [][FENext]_vars

-----------------------------------------------------------------------------
\* Properties

\* Whatever is replayed, retried or delivered twice, and whenever the process
\* restarts, the RA is called at most once for a nonce, and only for one redeemed.
OneCallPerNonce == \A n \in Tokens : calls[n] <= 1 /\ calls[n] <= spent[n]

\* A handler is about to have the certificate revoked only for its own key, for
\* the account that got it, or for an account that held valid authorizations
\* for all its names while the request was being handled.
RevokedByEntitled ==
    \A p \in Posts :
        (post[p].step = "checked" /\ post[p].request.endpoint = "revoke-cert")
            => \/ post[p].request.signer \in {"certificate key", "owner"}
               \/ post[p].request.signer \in post[p].holdersThen

\* A deactivated account gets nothing more done (except revocations): no
\* handler gets to its RA call for an account that was deactivated when the
\* request came in.  A deactivation during the request may come too late.
DeactivatedStops ==
    \A p \in Posts :
        (post[p].step = "checked" /\ post[p].request.endpoint # "revoke-cert")
            => post[p].validThen

\* What the client is told about the certificate is so: it is revoked after an
\* answer that says it was, now or before.
AnswersTrue ==
    \A p \in Posts :
        (post[p].request.endpoint = "revoke-cert" /\ post[p].answer \in {"ok", "conflict"})
            => certificate = "revoked"
=============================================================================
