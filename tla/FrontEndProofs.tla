---------------------------- MODULE FrontEndProofs ----------------------------
(***************************************************************************)
(* Proofs of the safety properties of FrontEnd, for any POSTs, nonces and  *)
(* scenarios, and of the calls that its handlers make (Calls).             *)
(*                                                                         *)
(* FEInv is the inductive invariant of FrontEnd: it says what a handler    *)
(* knows at each step, and that two handlers that are about to call the RA *)
(* hold different nonces, redeemed and not used for a call yet.            *)
(*                                                                         *)
(* CallInv is the one of Calls, for every chain of methods and any numbers *)
(* of tries and lost connections: calls and handlers form a tree with one  *)
(* leaf and one more for every lost connection; rows come from the last    *)
(* handlers that replied; requests are complete; and without a disturbance *)
(* every result tells what the last server did.                            *)
(***************************************************************************)
EXTENDS FrontEnd, Calls, FiniteSetTheorems, SequenceTheorems, TLAPS

Steps == {"unsent", "sent", "received", "known", "checked", "answered"}
FEAnswers == {"none", "ok", "badNonce", "unauthorized", "malformed", "notFound", "conflict",
            "methodNotAllowed", "serverInternal"}

PostStates == [request : Requests, step : Steps, nonce : Tokens \cup {NoNonce},
               answer : FEAnswers, holdersThen : SUBSET Accounts, validThen : BOOLEAN]

FETypeOK ==
    /\ issued \in SUBSET Tokens
    /\ spent \in [Tokens -> {0, 1}]
    /\ calls \in [Tokens -> {0, 1}]
    /\ post \in [Posts -> PostStates]
    /\ regStatus \in [Accounts -> {"valid", "deactivated"}]
    /\ certificate \in {"good", "revoked"}
    /\ holders \in SUBSET Accounts

InHandler(s) == s.step \in {"received", "known", "checked"}

\* What holds of a request in state s when the variables have these values.
Knows(s, spnt, clls, hlds, status, cert) ==
    /\ s.step \in {"sent", "received", "known", "checked"} => s.nonce \in Tokens
    /\ s.step = "checked" => spnt[s.nonce] = 1 /\ clls[s.nonce] = 0
    /\ InHandler(s) => hlds \subseteq s.holdersThen
    /\ (s.step = "received" /\ s.request.signer \in Accounts /\ status[s.request.signer] = "valid")
          => s.validThen
    /\ (s.step \in {"known", "checked"} /\ s.request.endpoint # "revoke-cert") => s.validThen
    /\ (s.step = "checked" /\ s.request.endpoint = "revoke-cert")
          => s.request.signer \in {"certificate key", "owner"} \cup s.holdersThen
    /\ (s.request.endpoint = "revoke-cert" /\ s.answer \in {"ok", "conflict"})
          => cert = "revoked"

EachKnows == \A p \in Posts : Knows(post[p], spent, calls, holders, regStatus, certificate)

CallsRedeemed == \A n \in Tokens : calls[n] <= spent[n]

OwnNonces ==
    \A p, q \in Posts :
        (p # q /\ post[p].step = "checked" /\ post[q].step = "checked")
            => post[p].nonce # post[q].nonce

FEInv == FETypeOK /\ CallsRedeemed /\ EachKnows /\ OwnNonces

\* Nothing is taken back: nonces stay redeemed, authorizations and accounts are
\* only lost, a revoked certificate stays revoked.
LEMMA KnowsStays ==
    ASSUME NEW s \in PostStates,
           NEW sp1 \in [Tokens -> {0, 1}], NEW sp2 \in [Tokens -> {0, 1}],
           NEW ca1, NEW ca2, NEW ho1, NEW ho2, NEW re1, NEW re2, NEW ce1, NEW ce2,
           Knows(s, sp1, ca1, ho1, re1, ce1),
           \A n \in Tokens : sp1[n] <= sp2[n],
           s.step = "checked" => ca2[s.nonce] = 0,
           ho2 \subseteq ho1,
           \A a \in Accounts : re2[a] = "valid" => re1[a] = "valid",
           ce1 = "revoked" => ce2 = "revoked"
    PROVE  Knows(s, sp2, ca2, ho2, re2, ce2)
  <1>1. ASSUME s.step = "checked" PROVE sp2[s.nonce] = 1
    <2>1. s.nonce \in Tokens /\ sp1[s.nonce] = 1
      BY Zenon, <1>1 DEF Knows
    <2>2. sp1[s.nonce] <= sp2[s.nonce] /\ sp2[s.nonce] \in {0, 1}
      BY Zenon, <2>1
    <2> QED
      BY <2>1, <2>2
  <1> QED
    BY <1>1, Zenon DEF Knows, InHandler

\* sendError and the handlers' answers leave the request as it was.
LEMMA AnsweredFields ==
    ASSUME NEW s \in PostStates, NEW a \in FEAnswers
    PROVE  /\ Answered(s, a) \in PostStates
           /\ Answered(s, a).step = "answered"
           /\ Answered(s, a).answer = a
           /\ Answered(s, a).request = s.request
  BY Zenon DEF Answered, PostStates, Steps

\* Nothing has been sent, redeemed or called at the start.
LEMMA InitInv == FEInit => FEInv
  <1> SUFFICES ASSUME FEInit PROVE FEInv
    BY Zenon
  <1> PICK s \in Scenarios : post = [p \in Posts |-> Unsent(s[p])]
    BY Zenon DEF FEInit
  <1>1. s \in [Posts -> Requests]
    BY Zenon, FrontEndAssumption
  <1>2. FETypeOK
    BY Zenon, <1>1 DEF FEInit, Init, FETypeOK, PostStates, Unsent, Steps, FEAnswers, Accounts
  <1>3. \A p \in Posts : post[p].step = "unsent" /\ post[p].answer = "none"
    BY Zenon DEF Unsent
  <1>4. EachKnows
    BY Zenon, <1>3 DEF EachKnows, Knows, InHandler
  <1>5. CallsRedeemed
    <2>1. \A n \in Tokens : calls[n] = 0 /\ spent[n] = 0
      BY Zenon DEF FEInit, Init
    <2> QED
      <3>1. 0 <= 0
        OBVIOUS
      <3> QED
        BY <2>1, <3>1, Zenon DEF CallsRedeemed
  <1> QED
    BY Zenon, <1>2, <1>3, <1>4, <1>5 DEF FEInv, OwnNonces

\* A step of one request: the others know what they knew.
LEMMA OneMoves ==
    ASSUME FEInv, NEW p \in Posts, NEW s \in PostStates,
           post' = [post EXCEPT ![p] = s],
           spent' \in [Tokens -> {0, 1}], \A n \in Tokens : spent[n] <= spent'[n],
           calls' \in [Tokens -> {0, 1}],
           \A n \in Tokens : calls'[n] # calls[n] => post[p].step = "checked" /\ n = post[p].nonce,
           holders' \subseteq holders,
           \A a \in Accounts : regStatus'[a] = "valid" => regStatus[a] = "valid",
           certificate = "revoked" => certificate' = "revoked",
           Knows(s, spent', calls', holders', regStatus', certificate'),
           s.step = "checked" => \A q \in Posts : q # p /\ post[q].step = "checked"
                                                   => post[q].nonce # s.nonce
    PROVE  EachKnows' /\ OwnNonces' /\ post' \in [Posts -> PostStates]
  <1>1. post \in [Posts -> PostStates] /\ EachKnows /\ OwnNonces /\ spent \in [Tokens -> {0, 1}]
    BY Zenon DEF FEInv, FETypeOK
  <1>2. post'[p] = s /\ \A q \in Posts : q # p => post'[q] = post[q]
    BY Zenon, <1>1
  <1>3. post' \in [Posts -> PostStates]
    BY Zenon, <1>1
  <1>4. ASSUME NEW q \in Posts, q # p
        PROVE  Knows(post[q], spent', calls', holders', regStatus', certificate')
    <2>1. Knows(post[q], spent, calls, holders, regStatus, certificate)
      BY Zenon, <1>1 DEF EachKnows
    <2>2. post[q].step = "checked" => calls'[post[q].nonce] = 0
      BY <2>1, <1>1, <1>4, Zenon DEF Knows, OwnNonces
    <2>3. post[q] \in PostStates
      BY Zenon, <1>1
    <2> QED
      BY <1>1, <2>1, <2>2, <2>3, KnowsStays
  <1>5. EachKnows'
    BY <1>2, <1>4, Zenon DEF EachKnows
  <1>6. OwnNonces'
    BY <1>1, <1>2, Zenon DEF OwnNonces
  <1> QED
    BY Zenon, <1>3, <1>5, <1>6

-----------------------------------------------------------------------------
\* What the steps do to the nonces.

\* A step without the nonce service.
LEMMA NoncesUnchanged ==
    ASSUME FEInv, UNCHANGED tokens
    PROVE  issued' \in SUBSET Tokens /\ spent' \in [Tokens -> {0, 1}]
           /\ spent' = spent /\ \A n \in Tokens : spent[n] <= spent'[n]
  BY DEF FEInv, FETypeOK, tokens

\* Drawing the nonce of an answer redeems none.
LEMMA NoncesDrawn ==
    ASSUME FEInv, DrawNonce
    PROVE  issued' \in SUBSET Tokens /\ spent' \in [Tokens -> {0, 1}]
           /\ spent' = spent /\ \A n \in Tokens : spent[n] <= spent'[n]
  BY DEF FEInv, FETypeOK, DrawNonce, Issue, tokens

\* A redemption is the first of its nonce.
LEMMA NoncesRedeemed ==
    ASSUME FEInv, NEW t \in Tokens, Redeem(t)
    PROVE  issued' \in SUBSET Tokens /\ spent' \in [Tokens -> {0, 1}]
           /\ spent[t] = 0 /\ spent'[t] = 1
           /\ \A n \in Tokens : spent[n] <= spent'[n]
  BY DEF FEInv, FETypeOK, Redeem

\* A request goes on to step s, and nothing else changes but nonces.
LEMMA MoveKeeps ==
    ASSUME FEInv, NEW p \in Posts, NEW s \in PostStates, post' = [post EXCEPT ![p] = s],
           issued' \in SUBSET Tokens,
           spent' \in [Tokens -> {0, 1}], \A n \in Tokens : spent[n] <= spent'[n],
           UNCHANGED <<world, calls>>,
           Knows(s, spent', calls, holders, regStatus, certificate),
           s.step = "checked" => \A q \in Posts : q # p /\ post[q].step = "checked"
                                                   => post[q].nonce # s.nonce
    PROVE  FEInv'
  <1>1. Knows(s, spent', calls', holders', regStatus', certificate')
    BY Zenon DEF world
  <1>2. EachKnows' /\ OwnNonces' /\ post' \in [Posts -> PostStates]
    BY Zenon, <1>1, OneMoves DEF world, FEInv, FETypeOK
  <1>3. CallsRedeemed'
    <2>1. ASSUME NEW n \in Tokens PROVE calls'[n] <= spent'[n]
      BY DEF FEInv, FETypeOK, CallsRedeemed
    <2> QED
      BY Zenon, <2>1 DEF CallsRedeemed
  <1>4. FETypeOK'
    BY Zenon, <1>2 DEF FEInv, FETypeOK, world
  <1> QED
    BY Zenon, <1>2, <1>3, <1>4 DEF FEInv

\* A request ends with an answer, and nothing else changes but nonces.
LEMMA AnswerKeeps ==
    ASSUME FEInv, NEW p \in Posts, NEW a \in FEAnswers, Answer(p, a),
           issued' \in SUBSET Tokens,
           spent' \in [Tokens -> {0, 1}], \A n \in Tokens : spent[n] <= spent'[n],
           UNCHANGED <<world, calls>>,
           (post[p].request.endpoint = "revoke-cert" /\ a \in {"ok", "conflict"})
              => certificate = "revoked"
    PROVE  FEInv'
  <1> DEFINE s == Answered(post[p], a)
  <1>1. post[p] \in PostStates
    BY Zenon DEF FEInv, FETypeOK
  <1>2. s \in PostStates /\ s.step = "answered" /\ s.answer = a /\ s.request = post[p].request
    BY Zenon, <1>1, AnsweredFields
  <1>3. post' = [post EXCEPT ![p] = s]
    BY Zenon DEF Answer, FEInv, FETypeOK
  <1> HIDE DEF s
  <1>4. Knows(s, spent', calls, holders, regStatus, certificate)
    BY Zenon, <1>2 DEF Knows, InHandler
  <1> QED
    BY Zenon, <1>2, <1>3, <1>4, MoveKeeps

-----------------------------------------------------------------------------
\* One lemma for each step.

\* A client sends a request.
LEMMA SendKeeps ==
    ASSUME FEInv, NEW p \in Posts, NEW n \in issued, Send(p, n)
    PROVE  FEInv'
  <1> DEFINE s == [post[p] EXCEPT !.step = "sent", !.nonce = n]
  <1>1. post[p] \in PostStates /\ n \in Tokens
        /\ Knows(post[p], spent, calls, holders, regStatus, certificate)
    BY Zenon DEF FEInv, FETypeOK, EachKnows
  <1>2. /\ s \in PostStates /\ s.step = "sent" /\ s.nonce = n
        /\ s.answer = post[p].answer /\ s.request = post[p].request
    BY Zenon, <1>1 DEF PostStates, Steps
  <1>3. post' = [post EXCEPT ![p] = s]
    BY Zenon DEF Send, FEInv, FETypeOK
  <1> HIDE DEF s
  <1>4. Knows(s, spent, calls, holders, regStatus, certificate)
    BY Zenon, <1>1, <1>2 DEF Knows, InHandler
  <1>5. UNCHANGED tokens /\ UNCHANGED <<world, calls>>
    BY Zenon DEF Send
  <1>6. spent' = spent
    BY Zenon, <1>5, NoncesUnchanged
  <1>7. Knows(s, spent', calls, holders, regStatus, certificate)
    BY Zenon, <1>4, <1>6
  <1> QED
    BY Zenon, <1>1, <1>2, <1>3, <1>5, <1>7, NoncesUnchanged, MoveKeeps

\* HandleFunc notes what holds when the request comes in.
LEMMA HandleFuncKeeps ==
    ASSUME FEInv, NEW p \in Posts, HandleFunc(p)
    PROVE  FEInv'
  <1> DEFINE r == post[p].request
             valid == r.signer \in Accounts /\ regStatus[r.signer] = "valid"
             s == [post[p] EXCEPT !.step = "received", !.holdersThen = holders,
                                  !.validThen = valid]
  <1>1. post[p] \in PostStates /\ holders \in SUBSET Accounts /\ post[p].step = "sent"
        /\ Knows(post[p], spent, calls, holders, regStatus, certificate)
    BY Zenon DEF FEInv, FETypeOK, EachKnows, HandleFunc
  <1>2. DrawNonce /\ UNCHANGED <<world, calls>>
    BY Zenon DEF HandleFunc
  <1>3. CASE \E a \in {"methodNotAllowed", "notFound"} : Answer(p, a)
    <2> PICK a \in {"methodNotAllowed", "notFound"} : Answer(p, a)
      BY Zenon, <1>3
    <2>1. a \in FEAnswers /\ a \notin {"ok", "conflict"}
      BY Zenon DEF FEAnswers
    <2> QED
      BY Zenon, <1>2, <2>1, NoncesDrawn, AnswerKeeps
  <1>4. CASE post' = [post EXCEPT ![p] = s]
    <2>1. /\ s \in PostStates /\ s.step = "received" /\ s.nonce = post[p].nonce
          /\ s.answer = post[p].answer /\ s.request = r
          /\ s.holdersThen = holders
      BY Zenon, <1>1 DEF PostStates, Steps
    <2>2. s.validThen = valid
      BY Zenon, <1>1 DEF PostStates
    <2> HIDE DEF s
    <2>3. Knows(s, spent, calls, holders, regStatus, certificate)
      BY <1>1, <2>1, <2>2, Zenon DEF Knows, InHandler
    <2>4. spent' = spent
      BY Zenon, <1>2, NoncesDrawn
    <2>5. Knows(s, spent', calls, holders, regStatus, certificate)
      BY Zenon, <2>3, <2>4
    <2> QED
      BY Zenon, <1>2, <1>4, <2>1, <2>5, NoncesDrawn, MoveKeeps
  <1> QED
    BY <1>3, <1>4, Zenon DEF HandleFunc, Answer

\* verifyPOST goes on for a valid registration only, where it is asked for: it
\* was valid when the request came in.
LEMMA GetRegistrationByKeyKeeps ==
    ASSUME FEInv, NEW p \in Posts, GetRegistrationByKey(p)
    PROVE  FEInv'
  <1> DEFINE r == post[p].request
             s == [post[p] EXCEPT !.step = "known"]
  <1>1. post[p] \in PostStates /\ post[p].step = "received" /\ r \in Requests
        /\ Knows(post[p], spent, calls, holders, regStatus, certificate)
    BY Zenon DEF FEInv, FETypeOK, EachKnows, GetRegistrationByKey, PostStates
  <1>2. UNCHANGED tokens /\ UNCHANGED <<world, calls>>
    BY Zenon DEF GetRegistrationByKey
  <1>3. CASE \E a \in {"malformed", "unauthorized", "serverInternal"} : Answer(p, a)
    <2> PICK a \in {"malformed", "unauthorized", "serverInternal"} : Answer(p, a)
      BY Zenon, <1>3
    <2>1. a \in FEAnswers /\ a \notin {"ok", "conflict"}
      BY Zenon DEF FEAnswers
    <2> QED
      BY Zenon, <1>2, <2>1, NoncesUnchanged, AnswerKeeps
  <1>4. CASE Lookup(r) = "none" /\ Goes(p, "known")
    <2>1. /\ s \in PostStates /\ s.step = "known" /\ s.nonce = post[p].nonce
          /\ s.answer = post[p].answer /\ s.request = r
          /\ s.holdersThen = post[p].holdersThen
      BY Zenon, <1>1 DEF PostStates, Steps
    <2>2. s.validThen = post[p].validThen
      BY Zenon, <1>1 DEF PostStates
    <2>3. post' = [post EXCEPT ![p] = s]
      BY Zenon, <1>4 DEF Goes, FEInv, FETypeOK
    <2> HIDE DEF s
    <2>4. r.endpoint # "revoke-cert" => r.signer \in Accounts /\ regStatus[r.signer] = "valid"
      BY Zenon, <1>4 DEF Lookup, regCheck
    <2>5. r.endpoint # "revoke-cert" => post[p].validThen
      BY <1>1, <2>4, Zenon DEF Knows
    <2>6. Knows(s, spent, calls, holders, regStatus, certificate)
      BY <1>1, <2>1, <2>2, <2>5, Zenon DEF Knows, InHandler
    <2>7. spent' = spent
      BY Zenon, <1>2, NoncesUnchanged
    <2>8. Knows(s, spent', calls, holders, regStatus, certificate)
      BY Zenon, <2>6, <2>7
    <2> QED
      BY Zenon, <1>2, <2>1, <2>3, <2>8, NoncesUnchanged, MoveKeeps
  <1>5. Lookup(r) \in {"none", "malformed", "unauthorized"}
    BY Zenon DEF Lookup
  <1> QED
    BY Zenon, <1>3, <1>4, <1>5 DEF GetRegistrationByKey

\* Only the owner has the owner's registration.
LEMMA OwnerOnly ==
    ASSUME NEW signer \in Signers, RegistrationID(signer) = RegistrationID("owner")
    PROVE  signer = "owner"
  <1>1. /\ RegistrationID("owner") = 1 /\ RegistrationID("holder") = 2
        /\ RegistrationID("stranger") = 3
    BY Zenon DEF RegistrationID
  <1>2. RegistrationID("certificate key") = 0
    BY Zenon DEF RegistrationID
  <1>3. signer # "holder" /\ signer # "stranger" /\ signer # "certificate key"
    <2>1. 1 # 2 /\ 1 # 3 /\ 1 # 0
      OBVIOUS
    <2> QED
      BY <1>1, <1>2, <2>1, Zenon
  <1> QED
    BY Zenon, <1>3 DEF Signers, Accounts

\* What the handlers' own checks answer, and what passing them means.
LEMMA Refusals ==
    ASSUME NEW r \in Requests
    PROVE  /\ Refusal(r) \in {"none", "malformed", "unauthorized", "conflict"}
           /\ Refusal(r) = "conflict" => certificate = "revoked"
           /\ (Refusal(r) = "none" /\ r.endpoint = "revoke-cert")
                 => r.signer \in {"certificate key", "owner"} \cup holders
  <1>1. r.signer \in Signers /\ r.endpoint \in Endpoints
    BY Zenon DEF Requests
  <1>2. CASE r.endpoint = "revoke-cert"
    <2>1. Refusal(r) = RevokeCertificate(r)
      BY Zenon, <1>2 DEF Refusal
    <2> QED
      BY Zenon, <1>1, <1>2, <2>1, OwnerOnly DEF RevokeCertificate, regHoldsAuthorizations
  <1>3. CASE r.endpoint = "new-cert"
    <2>1. Refusal(r) = NewCertificate(r)
      BY Zenon, <1>3 DEF Refusal
    <2> QED
      BY Zenon, <1>3, <2>1 DEF NewCertificate
  <1>4. CASE r.endpoint = "challenge"
    <2>1. Refusal(r) = postChallenge(r)
      BY Zenon, <1>4 DEF Refusal
    <2> QED
      BY Zenon, <1>4, <2>1 DEF postChallenge
  <1>5. CASE r.endpoint = "authz"
    <2>1. Refusal(r) = deactivateAuthorization(r)
      BY Zenon, <1>5 DEF Refusal
    <2> QED
      BY Zenon, <1>5, <2>1 DEF deactivateAuthorization
  <1> QED
    BY Zenon, <1>1, <1>2, <1>3, <1>4, <1>5 DEF Endpoints

\* A handler that gets to its call has redeemed its nonce just now: no other
\* handler holds it, and no call was made for it.
LEMMA VerifiedKeeps ==
    ASSUME FEInv, NEW p \in Posts, Verified(p)
    PROVE  FEInv'
  <1> DEFINE r == post[p].request
             n == post[p].nonce
             s == [post[p] EXCEPT !.step = "checked"]
  <1>1. post[p] \in PostStates /\ post[p].step = "known" /\ r \in Requests
        /\ Knows(post[p], spent, calls, holders, regStatus, certificate)
    BY Zenon DEF FEInv, FETypeOK, EachKnows, Verified, PostStates
  <1>2. n \in Tokens
    BY Zenon, <1>1 DEF Knows
  <1>3. UNCHANGED <<world, calls>>
    BY Zenon DEF Verified
  <1>4. issued' \in SUBSET Tokens /\ spent' \in [Tokens -> {0, 1}]
        /\ \A t \in Tokens : spent[t] <= spent'[t]
    BY Zenon, <1>2, NoncesUnchanged, NoncesRedeemed DEF Verified
  <1>5. ASSUME NEW a \in {"malformed", "unauthorized", "conflict", "notFound", "serverInternal",
                          "badNonce"},
               a = "conflict" => certificate = "revoked", Answer(p, a)
        PROVE  FEInv'
    <2>1. a \in FEAnswers /\ a # "ok"
      BY Zenon DEF FEAnswers
    <2> QED
      BY Zenon, <1>3, <1>4, <1>5, <2>1, AnswerKeeps
  <1>6. CASE Redeem(n) /\ Refusal(r) = "none" /\ Goes(p, "checked")
    <2>1. /\ s \in PostStates /\ s.step = "checked" /\ s.nonce = n
          /\ s.answer = post[p].answer /\ s.request = r
          /\ s.holdersThen = post[p].holdersThen
      BY Zenon, <1>1 DEF PostStates, Steps
    <2>2. s.validThen = post[p].validThen
      BY Zenon, <1>1 DEF PostStates
    <2>3. post' = [post EXCEPT ![p] = s]
      BY Zenon, <1>6 DEF Goes, FEInv, FETypeOK
    <2> HIDE DEF s
    <2>4. spent[n] = 0 /\ spent'[n] = 1
      BY Zenon, <1>2, <1>6, NoncesRedeemed
    <2>5. calls[n] = 0
      BY <1>2, <2>4 DEF FEInv, FETypeOK, CallsRedeemed
    <2>6. r.endpoint = "revoke-cert"
            => r.signer \in {"certificate key", "owner"} \cup post[p].holdersThen
      BY Zenon, <1>1, <1>6, Refusals DEF Knows, InHandler
    <2>7. Knows(s, spent', calls, holders, regStatus, certificate)
      BY <1>1, <1>2, <2>1, <2>2, <2>4, <2>5, <2>6, Zenon DEF Knows, InHandler
    <2>8. ASSUME NEW q \in Posts, post[q].step = "checked"
          PROVE  post[q].nonce # n
      <3>1. spent[post[q].nonce] = 1
        BY <2>8, Zenon DEF FEInv, EachKnows, Knows
      <3> QED
        BY <2>4, <3>1
    <2> QED
      BY Zenon, <1>3, <1>4, <2>1, <2>3, <2>7, <2>8, MoveKeeps
  <1>7. Refusal(r) \in {"none", "malformed", "unauthorized", "conflict"}
        /\ (Refusal(r) = "conflict" => certificate = "revoked")
    BY Zenon, <1>1, Refusals
  <1>8. \/ Redeem(n) /\ Continue(p)
        \/ Answer(p, "badNonce")
    BY Zenon DEF Verified
  <1>9. CASE Redeem(n) /\ Continue(p)
    <2>1. \/ \E a \in {"malformed", "notFound", "serverInternal"} : Answer(p, a)
          \/ Refusal(r) # "none" /\ Answer(p, Refusal(r))
          \/ Refusal(r) = "none" /\ Goes(p, "checked")
      BY Zenon, <1>9 DEF Continue
    <2> QED
      BY Zenon, <1>5, <1>6, <1>7, <1>9, <2>1
  <1> QED
    BY Zenon, <1>5, <1>8, <1>9

\* The call of the RA uses the nonce up.
LEMMA CallRAKeeps ==
    ASSUME FEInv, NEW p \in Posts, CallRA(p)
    PROVE  FEInv'
  <1> DEFINE r == post[p].request
             n == post[p].nonce
  <1>1. post[p] \in PostStates /\ post \in [Posts -> PostStates] /\ post[p].step = "checked"
        /\ Knows(post[p], spent, calls, holders, regStatus, certificate)
    BY Zenon DEF FEInv, FETypeOK, EachKnows, CallRA
  <1>2. n \in Tokens /\ spent[n] = 1 /\ calls[n] = 0
    BY Zenon, <1>1 DEF Knows
  <1>3. UNCHANGED tokens /\ calls' = [calls EXCEPT ![n] = @ + 1]
    BY Zenon DEF CallRA
  <1>4. /\ calls' \in [Tokens -> {0, 1}]
        /\ \A t \in Tokens : calls'[t] # calls[t] => t = n
        /\ CallsRedeemed'
    <2>1. calls'[n] = 1 /\ \A t \in Tokens : t # n => calls'[t] = calls[t]
      BY <1>2, <1>3 DEF FEInv, FETypeOK
    <2>2. calls' \in [Tokens -> {0, 1}]
      BY Zenon, <1>2, <1>3, <2>1 DEF FEInv, FETypeOK
    <2>3. ASSUME NEW t \in Tokens PROVE calls'[t] <= spent'[t]
      BY <1>2, <1>3, <2>1 DEF FEInv, FETypeOK, CallsRedeemed, tokens
    <2> QED
      BY Zenon, <2>1, <2>2, <2>3 DEF CallsRedeemed
  <1>5. /\ regStatus' = regStatus /\ holders' = holders
        /\ certificate' \in {"good", "revoked"}
        /\ certificate = "revoked" => certificate' = "revoked"
    BY Zenon DEF CallRA, Effect, world, FEInv, FETypeOK
  <1>6. PICK a \in {"ok", "serverInternal"} :
            /\ Answer(p, a)
            /\ (r.endpoint = "revoke-cert" /\ a = "ok") => certificate' = "revoked"
    BY Zenon DEF CallRA, Effect
  <1> DEFINE s == Answered(post[p], a)
  <1>7. s \in PostStates /\ s.step = "answered" /\ s.answer = a /\ s.request = r
    BY <1>1, AnsweredFields DEF FEAnswers
  <1>8. post' = [post EXCEPT ![p] = s]
    BY Zenon, <1>1, <1>6 DEF Answer
  <1> HIDE DEF s
  <1>9. Knows(s, spent', calls', holders', regStatus', certificate')
    BY Zenon, <1>6, <1>7 DEF Knows, InHandler
  <1>10. EachKnows' /\ OwnNonces' /\ post' \in [Posts -> PostStates]
    BY Zenon, <1>1, <1>3, <1>4, <1>5, <1>7, <1>8, <1>9, NoncesUnchanged, OneMoves
  <1> QED
    BY Zenon, <1>3, <1>4, <1>5, <1>10, NoncesUnchanged DEF FEInv, FETypeOK

\* What happens elsewhere: each request knows what it knew.
LEMMA WorldMoves ==
    ASSUME FEInv, UNCHANGED <<post, calls>>,
           issued' \in SUBSET Tokens,
           spent' \in [Tokens -> {0, 1}], \A n \in Tokens : spent[n] <= spent'[n],
           regStatus' \in [Accounts -> {"valid", "deactivated"}],
           \A a \in Accounts : regStatus'[a] = "valid" => regStatus[a] = "valid",
           holders' \subseteq holders,
           certificate' \in {"good", "revoked"},
           certificate = "revoked" => certificate' = "revoked"
    PROVE  FEInv'
  <1>1. EachKnows'
    <2> SUFFICES ASSUME NEW p \in Posts
                 PROVE  Knows(post[p], spent', calls', holders', regStatus', certificate')
      BY Zenon DEF EachKnows
    <2>1. /\ post[p] \in PostStates /\ spent \in [Tokens -> {0, 1}]
          /\ Knows(post[p], spent, calls, holders, regStatus, certificate)
      BY Zenon DEF FEInv, FETypeOK, EachKnows
    <2>2. post[p].step = "checked" => calls'[post[p].nonce] = 0
      BY Zenon, <2>1 DEF Knows
    <2> QED
      BY <2>1, <2>2, KnowsStays
  <1>2. CallsRedeemed'
    <2>1. ASSUME NEW n \in Tokens PROVE calls'[n] <= spent'[n]
      BY DEF FEInv, FETypeOK, CallsRedeemed
    <2> QED
      BY Zenon, <2>1 DEF CallsRedeemed
  <1>3. FETypeOK' /\ OwnNonces'
    BY Zenon DEF FEInv, FETypeOK, OwnNonces
  <1> QED
    BY Zenon, <1>1, <1>2, <1>3 DEF FEInv

\* Accounts, authorizations and the certificate lose their validity for good.
LEMMA ElsewhereKeeps == ASSUME FEInv, Elsewhere PROVE FEInv'
  <1>1. UNCHANGED <<post, calls>> /\ UNCHANGED tokens
    BY Zenon DEF Elsewhere
  <1>2. /\ regStatus' \in [Accounts -> {"valid", "deactivated"}]
        /\ \A a \in Accounts : regStatus'[a] = "valid" => regStatus[a] = "valid"
    BY Zenon DEF Elsewhere, FEInv, FETypeOK
  <1>3. /\ holders' \subseteq holders
        /\ certificate' \in {"good", "revoked"}
        /\ certificate = "revoked" => certificate' = "revoked"
    BY Zenon DEF Elsewhere, FEInv, FETypeOK
  <1> QED
    BY Zenon, <1>1, <1>2, <1>3, NoncesUnchanged, WorldMoves

\* Requests that only draw or redeem a nonce.
LEMMA OtherRequestKeeps == ASSUME FEInv, OtherRequest PROVE FEInv'
  <1>1. UNCHANGED <<post, calls>> /\ UNCHANGED world
    BY Zenon DEF OtherRequest
  <1>2. /\ regStatus' \in [Accounts -> {"valid", "deactivated"}]
        /\ \A a \in Accounts : regStatus'[a] = "valid" => regStatus[a] = "valid"
        /\ holders' \subseteq holders
        /\ certificate' \in {"good", "revoked"}
        /\ certificate = "revoked" => certificate' = "revoked"
    BY Zenon, <1>1 DEF world, FEInv, FETypeOK
  <1>3. /\ issued' \in SUBSET Tokens /\ spent' \in [Tokens -> {0, 1}]
        /\ \A n \in Tokens : spent[n] <= spent'[n]
    BY Zenon, NoncesDrawn, NoncesRedeemed DEF OtherRequest
  <1> QED
    BY Zenon, <1>1, <1>2, <1>3, WorldMoves

\* After a restart no handler is at work.
LEMMA FERestartKeeps == ASSUME FEInv, FERestart PROVE FEInv'
  <1>1. UNCHANGED tokens /\ UNCHANGED <<world, calls>> /\ post \in [Posts -> PostStates]
    BY Zenon DEF FERestart, FEInv, FETypeOK
  <1>2. ASSUME NEW p \in Posts
        PROVE  /\ post'[p] \in PostStates
               /\ Knows(post'[p], spent, calls, holders, regStatus, certificate)
               /\ post'[p].step # "checked"
    <2>1. Knows(post[p], spent, calls, holders, regStatus, certificate) /\ post[p] \in PostStates
      BY Zenon, <1>1 DEF FEInv, EachKnows
    <2>2. CASE post[p].step \in {"received", "known", "checked"}
      <3> DEFINE s == Answered(post[p], "none")
      <3>1. post'[p] = s
        BY Zenon, <2>2 DEF FERestart
      <3>2. s \in PostStates /\ s.step = "answered" /\ s.answer = "none"
        BY Zenon, <2>1, AnsweredFields DEF FEAnswers
      <3> HIDE DEF s
      <3> QED
        BY Zenon, <3>1, <3>2 DEF Knows, InHandler
    <2>3. CASE post[p].step \notin {"received", "known", "checked"}
      BY Zenon, <2>1, <2>3 DEF FERestart
    <2> QED
      BY Zenon, <2>2, <2>3
  <1>3. post' = [p \in Posts |-> post'[p]]
    BY Zenon DEF FERestart
  <1>4. post' \in [Posts -> PostStates]
    BY Zenon, <1>2, <1>3
  <1>5. EachKnows' /\ OwnNonces'
    BY Zenon, <1>1, <1>2 DEF EachKnows, OwnNonces, tokens, world
  <1> QED
    BY Zenon, <1>1, <1>4, <1>5 DEF FEInv, FETypeOK, CallsRedeemed, tokens, world

\* Every step of the front end preserves FEInv.
LEMMA StepInv == FEInv /\ [FENext]_vars => FEInv'
  <1> SUFFICES ASSUME FEInv, [FENext]_vars PROVE FEInv'
    BY Zenon
  <1>1. CASE UNCHANGED vars
    BY Zenon, <1>1 DEF vars, tokens, world, FEInv, FETypeOK, CallsRedeemed, EachKnows, OwnNonces
  <1>2. CASE \E p \in Posts : HandlerStep(p) \/ \E n \in issued : Send(p, n)
    BY Zenon, <1>2, SendKeeps, HandleFuncKeeps, GetRegistrationByKeyKeeps, VerifiedKeeps, CallRAKeeps
       DEF HandlerStep
  <1>3. CASE Elsewhere
    BY Zenon, <1>3, ElsewhereKeeps
  <1>4. CASE OtherRequest
    BY Zenon, <1>4, OtherRequestKeeps
  <1>5. CASE FERestart
    BY Zenon, <1>5, FERestartKeeps
  <1> QED
    BY Zenon, <1>1, <1>2, <1>3, <1>4, <1>5 DEF FENext

\* FEInv holds of every reachable state of the front end.
THEOREM Invariant == FESpec => []FEInv
  BY InitInv, StepInv, PTL DEF FESpec

-----------------------------------------------------------------------------
\* Behind any interleaving of handlers, restarts, repeated requests and changes
\* of the accounts, the RA is called at most once for a nonce, and only for a
\* redeemed one.
THEOREM OneCall == FESpec => []OneCallPerNonce
  <1>1. ASSUME FEInv PROVE OneCallPerNonce
    <2>1. ASSUME NEW n \in Tokens PROVE calls[n] <= 1 /\ calls[n] <= spent[n]
      BY <1>1 DEF FEInv, FETypeOK, CallsRedeemed
    <2> QED
      BY Zenon, <2>1 DEF OneCallPerNonce
  <1> QED
    BY <1>1, Invariant, PTL

\* The handler of RevokeCertificate calls the RA only for a signer entitled
\* to it while the request was being handled.
THEOREM Entitled == FESpec => []RevokedByEntitled
  <1>1. FEInv => RevokedByEntitled
    BY Zenon DEF FEInv, EachKnows, Knows, RevokedByEntitled
  <1> QED
    BY <1>1, Invariant, PTL

\* No handler that checks the registration (regCheck) calls the RA for an
\* account that was deactivated when the request came in.
THEOREM Deactivated == FESpec => []DeactivatedStops
  <1>1. FEInv => DeactivatedStops
    BY Zenon DEF FEInv, EachKnows, Knows, DeactivatedStops
  <1> QED
    BY <1>1, Invariant, PTL

\* A client that is told that the certificate is revoked is told the truth.
THEOREM Truthful == FESpec => []AnswersTrue
  <1>1. FEInv => AnswersTrue
    BY Zenon DEF FEInv, EachKnows, Knows, AnswersTrue
  <1> QED
    BY <1>1, Invariant, PTL

\* The front end uses the nonce service through its promise alone: however the
\* handlers interleave and restart, the nonces behave as one-time tokens, which
\* NonceService implements.
THEOREM UsesOneTimeTokens == FESpec => Spec
  <1>1. FEInit => Init
    BY Zenon DEF FEInit
  <1>2. ASSUME FEInv, [FENext]_vars PROVE [Next]_<<issued, spent>>
    <2>1. CASE UNCHANGED tokens
      BY Zenon, <2>1 DEF tokens
    <2>2. ASSUME DrawNonce PROVE [Next]_<<issued, spent>>
      BY Zenon, <2>1, <2>2 DEF DrawNonce, Next
    <2>3. ASSUME NEW p \in Posts, HandlerStep(p) PROVE [Next]_<<issued, spent>>
      <3>1. CASE HandleFunc(p)
        BY Zenon, <2>2, <3>1 DEF HandleFunc
      <3>2. CASE GetRegistrationByKey(p) \/ CallRA(p)
        BY Zenon, <2>1, <3>2 DEF GetRegistrationByKey, CallRA
      <3>3. CASE Verified(p)
        <4>1. post[p].step = "known" /\ (Redeem(post[p].nonce) \/ UNCHANGED tokens)
          BY Zenon, <3>3 DEF Verified
        <4>2. post[p].nonce \in Tokens
          BY Zenon, <1>2, <4>1 DEF FEInv, EachKnows, Knows
        <4> QED
          BY Zenon, <2>1, <4>1, <4>2 DEF Next
      <3> QED
        BY Zenon, <2>3, <3>1, <3>2, <3>3 DEF HandlerStep
    <2>4. ASSUME NEW p \in Posts, NEW n \in issued, Send(p, n) PROVE [Next]_<<issued, spent>>
      BY Zenon, <2>1, <2>4 DEF Send
    <2>5. CASE Elsewhere \/ FERestart \/ UNCHANGED vars
      BY Zenon, <2>1, <2>5 DEF Elsewhere, FERestart, vars
    <2>6. CASE OtherRequest
      BY Zenon, <2>2, <2>6 DEF OtherRequest, Next
    <2> QED
      BY Zenon, <1>2, <2>3, <2>4, <2>5, <2>6 DEF FENext
  <1> QED
    BY <1>1, <1>2, Invariant, PTL DEF FESpec, Spec

-----------------------------------------------------------------------------
(***************************************************************************)
(* The messages of the calls.                                              *)
(***************************************************************************)
\* The fields that may arrive as nil.
Nilable ==
    {"Contact", "Challenges", "Validationrecords", "Records", "Ocsp", "OcspResponse", "Valid",
     "Error", "Problems"}

\* A side that sends these fields gives one with these needs what it needs.
Fits(sends, needs) == needs \subseteq sends \ Nilable

\* So do both sides of a method.
Matched(client, server) ==
    Fits(client.sends, server.needs) /\ Fits(server.sends, client.needs)

\* What Side builds.
LEMMA Sides ==
    ASSUME NEW a, NEW b PROVE Side(a, b).sends = a /\ Side(a, b).needs = b
  BY Zenon DEF Side

\* Each converter writes the fields that the other side's converter demands.
LEMMA Complete == /\ registrationValid \subseteq registrationToPB \ Nilable
            /\ pbToAuthz \subseteq authzToPB \ Nilable
            /\ certificateValid \subseteq certToPB \ Nilable
            /\ sctValid \subseteq sctToPB \ Nilable
            /\ performValidationReqToArgs \subseteq argsToPerformValidationRequest \ Nilable
            /\ pbToValidationResult \subseteq validationResultToPB \ Nilable
<1>1. registrationValid \subseteq registrationToPB \ Nilable
  BY Zenon DEF registrationToPB, registrationValid, Nilable
<1>2. authorizationValid \subseteq authzToPB \ Nilable
  BY Zenon DEF authzToPB, authorizationValid, Nilable
<1>3. pbToChallenge \subseteq challengeToPB \ Nilable
  BY Zenon DEF challengeToPB, pbToChallenge, Nilable
<1>4. certificateValid \subseteq certToPB \ Nilable
  BY Zenon DEF certificateValid, certToPB, Nilable
<1>5. sctValid \subseteq sctToPB \ Nilable
  BY Zenon DEF sctValid, sctToPB, Nilable
<1>6. pbToAuthz \subseteq authzToPB \ Nilable
  BY Zenon, <1>2, <1>3 DEF pbToAuthz, authzToPB
<1>7. performValidationReqToArgs \subseteq argsToPerformValidationRequest \ Nilable
  <2>1. {"Domain", "AuthzId", "RegID"} \subseteq argsToPerformValidationRequest \ Nilable
    BY Zenon DEF argsToPerformValidationRequest, Nilable
  <2> QED
    BY Zenon, <1>3, <2>1 DEF performValidationReqToArgs, argsToPerformValidationRequest
<1>8. pbToValidationResult \subseteq validationResultToPB \ Nilable
  BY Zenon DEF pbToValidationResult, pbToValidationRecord, validationResultToPB, validationRecordToPB,
         Nilable
<1> QED
  BY Zenon, <1>1, <1>4, <1>5, <1>6, <1>7, <1>8
\* The two sides of the SA's reads fit, GetCertificateStatus apart.
LEMMA SAGets ==
    \A m \in DOMAIN SAServerGets \ {"GetCertificateStatus"} :
        m \in DOMAIN SAClientGets /\ Matched(SAClientGets[m], SAServerGets[m])
<1>1. /\ "GetRegistration" \in DOMAIN SAClientGets
      /\ Matched(SAClientGets["GetRegistration"], SAServerGets["GetRegistration"])
  BY Complete, Sides DEF Matched, Fits, Nilable, SAClientGets, SAServerGets
<1>2. /\ "GetRegistrationByKey" \in DOMAIN SAClientGets
      /\ Matched(SAClientGets["GetRegistrationByKey"], SAServerGets["GetRegistrationByKey"])
  BY Complete, Sides DEF Matched, Fits, Nilable, SAClientGets, SAServerGets
<1>3. /\ "GetAuthorization" \in DOMAIN SAClientGets
      /\ Matched(SAClientGets["GetAuthorization"], SAServerGets["GetAuthorization"])
  BY Complete, Sides DEF Matched, Fits, Nilable, SAClientGets, SAServerGets
<1>4. /\ "GetValidAuthorizations" \in DOMAIN SAClientGets
      /\ Matched(SAClientGets["GetValidAuthorizations"], SAServerGets["GetValidAuthorizations"])
  BY Complete, Sides DEF Matched, Fits, Nilable, SAClientGets, SAServerGets
<1>5. /\ "GetCertificate" \in DOMAIN SAClientGets
      /\ Matched(SAClientGets["GetCertificate"], SAServerGets["GetCertificate"])
  BY Complete, Sides DEF Matched, Fits, Nilable, SAClientGets, SAServerGets
<1>6. DOMAIN SAServerGets = {"GetRegistration", "GetRegistrationByKey", "GetAuthorization",
          "GetValidAuthorizations", "GetCertificate", "GetCertificateStatus"}
  BY Zenon DEF SAServerGets
<1> QED
  BY Zenon, <1>1, <1>2, <1>3, <1>4, <1>5, <1>6

\* Those of its counts do.
LEMMA SACounts ==
    \A m \in DOMAIN SAServerCounts \ {"GetCertificateStatus"} :
        m \in DOMAIN SAClientCounts /\ Matched(SAClientCounts[m], SAServerCounts[m])
<1>1. /\ "CountCertificatesRange" \in DOMAIN SAClientCounts
      /\ Matched(SAClientCounts["CountCertificatesRange"], SAServerCounts["CountCertificatesRange"])
  BY Complete, Sides DEF Matched, Fits, Nilable, SAClientCounts, SAServerCounts
<1>2. /\ "CountCertificatesByNames" \in DOMAIN SAClientCounts
      /\ Matched(SAClientCounts["CountCertificatesByNames"], SAServerCounts["CountCertificatesByNames"])
  BY Complete, Sides DEF Matched, Fits, Nilable, SAClientCounts, SAServerCounts
<1>3. /\ "CountRegistrationsByIP" \in DOMAIN SAClientCounts
      /\ Matched(SAClientCounts["CountRegistrationsByIP"], SAServerCounts["CountRegistrationsByIP"])
  BY Complete, Sides DEF Matched, Fits, Nilable, SAClientCounts, SAServerCounts
<1>4. /\ "CountPendingAuthorizations" \in DOMAIN SAClientCounts
      /\ Matched(SAClientCounts["CountPendingAuthorizations"], SAServerCounts["CountPendingAuthorizations"])
  BY Complete, Sides DEF Matched, Fits, Nilable, SAClientCounts, SAServerCounts
<1>5. /\ "CountInvalidAuthorizations" \in DOMAIN SAClientCounts
      /\ Matched(SAClientCounts["CountInvalidAuthorizations"], SAServerCounts["CountInvalidAuthorizations"])
  BY Complete, Sides DEF Matched, Fits, Nilable, SAClientCounts, SAServerCounts
<1>6. /\ "GetSCTReceipt" \in DOMAIN SAClientCounts
      /\ Matched(SAClientCounts["GetSCTReceipt"], SAServerCounts["GetSCTReceipt"])
  BY Complete, Sides DEF Matched, Fits, Nilable, SAClientCounts, SAServerCounts
<1>7. /\ "CountFQDNSets" \in DOMAIN SAClientCounts
      /\ Matched(SAClientCounts["CountFQDNSets"], SAServerCounts["CountFQDNSets"])
  BY Complete, Sides DEF Matched, Fits, Nilable, SAClientCounts, SAServerCounts
<1>8. /\ "FQDNSetExists" \in DOMAIN SAClientCounts
      /\ Matched(SAClientCounts["FQDNSetExists"], SAServerCounts["FQDNSetExists"])
  BY Complete, Sides DEF Matched, Fits, Nilable, SAClientCounts, SAServerCounts
<1>9. DOMAIN SAServerCounts = {"CountCertificatesRange", "CountCertificatesByNames",
          "CountRegistrationsByIP", "CountPendingAuthorizations",
          "CountInvalidAuthorizations", "GetSCTReceipt", "CountFQDNSets",
          "FQDNSetExists"}
  BY Zenon DEF SAServerCounts
<1> QED
  BY Zenon, <1>1, <1>2, <1>3, <1>4, <1>5, <1>6, <1>7, <1>8, <1>9

\* Those of its writes do.
LEMMA SAWrites ==
    \A m \in DOMAIN SAServerWrites \ {"GetCertificateStatus"} :
        m \in DOMAIN SAClientWrites /\ Matched(SAClientWrites[m], SAServerWrites[m])
<1>1. /\ "NewRegistration" \in DOMAIN SAClientWrites
      /\ Matched(SAClientWrites["NewRegistration"], SAServerWrites["NewRegistration"])
  BY Complete, Sides DEF Matched, Fits, Nilable, SAClientWrites, SAServerWrites
<1>2. /\ "UpdateRegistration" \in DOMAIN SAClientWrites
      /\ Matched(SAClientWrites["UpdateRegistration"], SAServerWrites["UpdateRegistration"])
  BY Complete, Sides DEF Matched, Fits, Nilable, SAClientWrites, SAServerWrites
<1>3. /\ "NewPendingAuthorization" \in DOMAIN SAClientWrites
      /\ Matched(SAClientWrites["NewPendingAuthorization"], SAServerWrites["NewPendingAuthorization"])
  BY Complete, Sides DEF Matched, Fits, Nilable, SAClientWrites, SAServerWrites
<1>4. /\ "UpdatePendingAuthorization" \in DOMAIN SAClientWrites
      /\ Matched(SAClientWrites["UpdatePendingAuthorization"], SAServerWrites["UpdatePendingAuthorization"])
  BY Complete, Sides DEF Matched, Fits, Nilable, SAClientWrites, SAServerWrites
<1>5. /\ "FinalizeAuthorization" \in DOMAIN SAClientWrites
      /\ Matched(SAClientWrites["FinalizeAuthorization"], SAServerWrites["FinalizeAuthorization"])
  BY Complete, Sides DEF Matched, Fits, Nilable, SAClientWrites, SAServerWrites
<1>6. /\ "MarkCertificateRevoked" \in DOMAIN SAClientWrites
      /\ Matched(SAClientWrites["MarkCertificateRevoked"], SAServerWrites["MarkCertificateRevoked"])
  BY Complete, Sides DEF Matched, Fits, Nilable, SAClientWrites, SAServerWrites
<1>7. /\ "AddCertificate" \in DOMAIN SAClientWrites
      /\ Matched(SAClientWrites["AddCertificate"], SAServerWrites["AddCertificate"])
  BY Complete, Sides DEF Matched, Fits, Nilable, SAClientWrites, SAServerWrites
<1>8. /\ "AddSCTReceipt" \in DOMAIN SAClientWrites
      /\ Matched(SAClientWrites["AddSCTReceipt"], SAServerWrites["AddSCTReceipt"])
  BY Complete, Sides DEF Matched, Fits, Nilable, SAClientWrites, SAServerWrites
<1>9. /\ "RevokeAuthorizationsByDomain" \in DOMAIN SAClientWrites
      /\ Matched(SAClientWrites["RevokeAuthorizationsByDomain"],
                 SAServerWrites["RevokeAuthorizationsByDomain"])
  BY Complete, Sides DEF Matched, Fits, Nilable, SAClientWrites, SAServerWrites
<1>10. /\ "DeactivateRegistration" \in DOMAIN SAClientWrites
       /\ Matched(SAClientWrites["DeactivateRegistration"], SAServerWrites["DeactivateRegistration"])
  BY Complete, Sides DEF Matched, Fits, Nilable, SAClientWrites, SAServerWrites
<1>11. /\ "DeactivateAuthorization" \in DOMAIN SAClientWrites
       /\ Matched(SAClientWrites["DeactivateAuthorization"], SAServerWrites["DeactivateAuthorization"])
  BY Complete, Sides DEF Matched, Fits, Nilable, SAClientWrites, SAServerWrites
<1>12. DOMAIN SAServerWrites = {"NewRegistration", "UpdateRegistration", "NewPendingAuthorization",
          "UpdatePendingAuthorization", "FinalizeAuthorization",
          "MarkCertificateRevoked", "AddCertificate", "AddSCTReceipt",
          "RevokeAuthorizationsByDomain", "DeactivateRegistration",
          "DeactivateAuthorization"}
  BY Zenon DEF SAServerWrites
<1> QED
  BY Zenon, <1>1, <1>2, <1>3, <1>4, <1>5, <1>6, <1>7, <1>8, <1>9, <1>10, <1>11, <1>12

\* Those of the RA's methods that create something do.
LEMMA RANews ==
    \A m \in DOMAIN RAServerNew \ {"GetCertificateStatus"} :
        m \in DOMAIN RAClient /\ Matched(RAClient[m], RAServerNew[m])
<1>1. /\ "NewRegistration" \in DOMAIN RAClient
      /\ Matched(RAClient["NewRegistration"], RAServerNew["NewRegistration"])
  BY Complete, Sides DEF Matched, Fits, Nilable, RAClient, RAServerNew
<1>2. /\ "NewAuthorization" \in DOMAIN RAClient
      /\ Matched(RAClient["NewAuthorization"], RAServerNew["NewAuthorization"])
  BY Complete, Sides DEF Matched, Fits, Nilable, RAClient, RAServerNew
<1>3. /\ "NewCertificate" \in DOMAIN RAClient
      /\ Matched(RAClient["NewCertificate"], RAServerNew["NewCertificate"])
  BY Complete, Sides DEF Matched, Fits, Nilable, RAClient, RAServerNew
<1>4. DOMAIN RAServerNew = {"NewRegistration", "NewAuthorization", "NewCertificate"}
  BY Zenon DEF RAServerNew
<1> QED
  BY Zenon, <1>1, <1>2, <1>3, <1>4

\* Those of the RA's methods that change something do.
LEMMA RAChanges ==
    \A m \in DOMAIN RAServerChange \ {"GetCertificateStatus"} :
        m \in DOMAIN RAClient /\ Matched(RAClient[m], RAServerChange[m])
<1>1. /\ "UpdateRegistration" \in DOMAIN RAClient
      /\ Matched(RAClient["UpdateRegistration"], RAServerChange["UpdateRegistration"])
  BY Complete, Sides DEF Matched, Fits, Nilable, RAClient, RAServerChange
<1>2. /\ "UpdateAuthorization" \in DOMAIN RAClient
      /\ Matched(RAClient["UpdateAuthorization"], RAServerChange["UpdateAuthorization"])
  BY Complete, Sides DEF Matched, Fits, Nilable, RAClient, RAServerChange
<1>3. /\ "RevokeCertificateWithReg" \in DOMAIN RAClient
      /\ Matched(RAClient["RevokeCertificateWithReg"], RAServerChange["RevokeCertificateWithReg"])
  BY Complete, Sides DEF Matched, Fits, Nilable, RAClient, RAServerChange
<1>4. /\ "DeactivateRegistration" \in DOMAIN RAClient
      /\ Matched(RAClient["DeactivateRegistration"], RAServerChange["DeactivateRegistration"])
  BY Complete, Sides DEF Matched, Fits, Nilable, RAClient, RAServerChange
<1>5. /\ "DeactivateAuthorization" \in DOMAIN RAClient
      /\ Matched(RAClient["DeactivateAuthorization"], RAServerChange["DeactivateAuthorization"])
  BY Complete, Sides DEF Matched, Fits, Nilable, RAClient, RAServerChange
<1>6. /\ "AdministrativelyRevokeCertificate" \in DOMAIN RAClient
      /\ Matched(RAClient["AdministrativelyRevokeCertificate"],
                 RAServerChange["AdministrativelyRevokeCertificate"])
  BY Complete, Sides DEF Matched, Fits, Nilable, RAClient, RAServerChange
<1>7. DOMAIN RAServerChange = {"UpdateRegistration", "UpdateAuthorization", "RevokeCertificateWithReg",
          "DeactivateRegistration", "DeactivateAuthorization",
          "AdministrativelyRevokeCertificate"}
  BY Zenon DEF RAServerChange
<1> QED
  BY Zenon, <1>1, <1>2, <1>3, <1>4, <1>5, <1>6, <1>7

\* The CA's do.
LEMMA CAs ==
    \A m \in DOMAIN CAServer \ {"GetCertificateStatus"} :
        m \in DOMAIN CAClient /\ Matched(CAClient[m], CAServer[m])
<1>1. /\ "IssueCertificate" \in DOMAIN CAClient
      /\ Matched(CAClient["IssueCertificate"], CAServer["IssueCertificate"])
  BY Complete, Sides DEF Matched, Fits, Nilable, CAClient, CAServer
<1>2. /\ "GenerateOCSP" \in DOMAIN CAClient
      /\ Matched(CAClient["GenerateOCSP"], CAServer["GenerateOCSP"])
  BY Complete, Sides DEF Matched, Fits, Nilable, CAClient, CAServer
<1>3. DOMAIN CAServer = {"IssueCertificate", "GenerateOCSP"}
  BY Zenon DEF CAServer
<1> QED
  BY Zenon, <1>1, <1>2, <1>3

\* The VA's do.
LEMMA VAs ==
    \A m \in DOMAIN VAServer \ {"GetCertificateStatus"} :
        m \in DOMAIN VAClient /\ Matched(VAClient[m], VAServer[m])
<1>1. /\ "PerformValidation" \in DOMAIN VAClient
      /\ Matched(VAClient["PerformValidation"], VAServer["PerformValidation"])
  BY Complete, Sides DEF Matched, Fits, Nilable, VAClient, VAServer
<1>2. /\ "IsSafeDomain" \in DOMAIN VAClient
      /\ Matched(VAClient["IsSafeDomain"], VAServer["IsSafeDomain"])
  BY Complete, Sides DEF Matched, Fits, Nilable, VAClient, VAServer
<1>3. DOMAIN VAServer = {"PerformValidation", "IsSafeDomain"}
  BY Zenon DEF VAServer
<1> QED
  BY Zenon, <1>1, <1>2, <1>3

\* The publisher's do.
LEMMA Publishers ==
    \A m \in DOMAIN PublisherServer \ {"GetCertificateStatus"} :
        m \in DOMAIN PublisherClient /\ Matched(PublisherClient[m], PublisherServer[m])
<1>1. /\ "SubmitToCT" \in DOMAIN PublisherClient
      /\ Matched(PublisherClient["SubmitToCT"], PublisherServer["SubmitToCT"])
  BY Complete, Sides DEF Matched, Fits, Nilable, PublisherClient, PublisherServer
<1>2. /\ "SubmitToSingleCT" \in DOMAIN PublisherClient
      /\ Matched(PublisherClient["SubmitToSingleCT"], PublisherServer["SubmitToSingleCT"])
  BY Complete, Sides DEF Matched, Fits, Nilable, PublisherClient, PublisherServer
<1>3. DOMAIN PublisherServer = {"SubmitToCT", "SubmitToSingleCT"}
  BY Zenon DEF PublisherServer
<1> QED
  BY Zenon, <1>1, <1>2, <1>3

\* Clients and servers have the same methods, and each method is in one table.
LEMMA Domains ==
    /\ DOMAIN SAClientGets = DOMAIN SAServerGets
    /\ DOMAIN SAClientCounts = DOMAIN SAServerCounts
    /\ DOMAIN SAClientWrites = DOMAIN SAServerWrites
    /\ DOMAIN SAServerGets \cap DOMAIN SAServerCounts = {}
    /\ DOMAIN SAServerGets \cap DOMAIN SAServerWrites = {}
    /\ DOMAIN SAServerCounts \cap DOMAIN SAServerWrites = {}
    /\ DOMAIN RAClient = DOMAIN RAServerNew \cup DOMAIN RAServerChange
    /\ DOMAIN RAServerNew \cap DOMAIN RAServerChange = {}
    /\ DOMAIN CAClient = DOMAIN CAServer
    /\ DOMAIN VAClient = DOMAIN VAServer
    /\ DOMAIN PublisherClient = DOMAIN PublisherServer
<1>1. DOMAIN SAClientGets = DOMAIN SAServerGets
  BY Zenon DEF SAClientGets, SAServerGets
<1>2. DOMAIN SAClientCounts = DOMAIN SAServerCounts
  BY Zenon DEF SAClientCounts, SAServerCounts
<1>3. DOMAIN SAClientWrites = DOMAIN SAServerWrites
  BY Zenon DEF SAClientWrites, SAServerWrites
<1>4. DOMAIN SAServerGets \cap DOMAIN SAServerCounts = {}
  BY Zenon DEF SAServerGets, SAServerCounts
<1>5. DOMAIN SAServerGets \cap DOMAIN SAServerWrites = {}
  BY Zenon DEF SAServerGets, SAServerWrites
<1>6. DOMAIN SAServerCounts \cap DOMAIN SAServerWrites = {}
  BY Zenon DEF SAServerCounts, SAServerWrites
<1>7. DOMAIN RAClient = DOMAIN RAServerNew \cup DOMAIN RAServerChange
  BY Zenon DEF RAClient, RAServerNew, RAServerChange
<1>8. DOMAIN RAServerNew \cap DOMAIN RAServerChange = {}
  BY Zenon DEF RAServerNew, RAServerChange
<1>9. /\ DOMAIN CAClient = DOMAIN CAServer
      /\ DOMAIN VAClient = DOMAIN VAServer
      /\ DOMAIN PublisherClient = DOMAIN PublisherServer
  BY Zenon DEF CAClient, CAServer, VAClient, VAServer, PublisherClient, PublisherServer
<1> QED
  BY Zenon, <1>1, <1>2, <1>3, <1>4, <1>5, <1>6, <1>7, <1>8, <1>9

\* A method of the SA is in one of its three tables, on both sides.
LEMMA SATable ==
    ASSUME NEW m \in DOMAIN Client["SA"]
    PROVE  \/ /\ m \in DOMAIN SAServerGets
              /\ Client["SA"][m] = SAClientGets[m] /\ Server["SA"][m] = SAServerGets[m]
           \/ /\ m \in DOMAIN SAServerCounts
              /\ Client["SA"][m] = SAClientCounts[m] /\ Server["SA"][m] = SAServerCounts[m]
           \/ /\ m \in DOMAIN SAServerWrites
              /\ Client["SA"][m] = SAClientWrites[m] /\ Server["SA"][m] = SAServerWrites[m]
<1>1. /\ Client["SA"] = Union({SAClientGets, SAClientCounts, SAClientWrites})
      /\ Server["SA"] = Union({SAServerGets, SAServerCounts, SAServerWrites})
  BY Zenon DEF Client, Server
<1>2. m \in UNION {DOMAIN t : t \in {SAClientGets, SAClientCounts, SAClientWrites}}
  BY Zenon, <1>1 DEF Union
<1>3. CASE m \in DOMAIN SAServerGets
  <2>1. /\ m \in DOMAIN SAClientGets /\ m \notin DOMAIN SAClientCounts /\ m \notin DOMAIN SAClientWrites
        /\ m \notin DOMAIN SAServerCounts /\ m \notin DOMAIN SAServerWrites
    BY Zenon, <1>3, Domains
  <2>2. Client["SA"][m] = SAClientGets[m]
    <3>1. (CHOOSE u \in {SAClientGets, SAClientCounts, SAClientWrites} : m \in DOMAIN u) = SAClientGets
      BY Zenon, <1>3, <2>1
    <3> QED
      BY Zenon, <1>1, <1>3, <2>1, <3>1 DEF Union
  <2>3. Server["SA"][m] = SAServerGets[m]
    <3>1. (CHOOSE u \in {SAServerGets, SAServerCounts, SAServerWrites} : m \in DOMAIN u) = SAServerGets
      BY Zenon, <1>3, <2>1
    <3> QED
      BY Zenon, <1>1, <1>3, <2>1, <3>1 DEF Union
  <2> QED
    BY Zenon, <1>3, <2>2, <2>3
<1>4. CASE m \in DOMAIN SAServerCounts
  <2>1. /\ m \in DOMAIN SAClientCounts /\ m \notin DOMAIN SAClientGets /\ m \notin DOMAIN SAClientWrites
        /\ m \notin DOMAIN SAServerGets /\ m \notin DOMAIN SAServerWrites
    BY Zenon, <1>4, Domains
  <2>2. Client["SA"][m] = SAClientCounts[m]
    <3>1. (CHOOSE u \in {SAClientGets, SAClientCounts, SAClientWrites} : m \in DOMAIN u) = SAClientCounts
      BY Zenon, <1>4, <2>1
    <3> QED
      BY Zenon, <1>1, <1>4, <2>1, <3>1 DEF Union
  <2>3. Server["SA"][m] = SAServerCounts[m]
    <3>1. (CHOOSE u \in {SAServerGets, SAServerCounts, SAServerWrites} : m \in DOMAIN u) = SAServerCounts
      BY Zenon, <1>4, <2>1
    <3> QED
      BY Zenon, <1>1, <1>4, <2>1, <3>1 DEF Union
  <2> QED
    BY Zenon, <1>4, <2>2, <2>3
<1>5. CASE m \in DOMAIN SAServerWrites
  <2>1. /\ m \in DOMAIN SAClientWrites /\ m \notin DOMAIN SAClientGets /\ m \notin DOMAIN SAClientCounts
        /\ m \notin DOMAIN SAServerGets /\ m \notin DOMAIN SAServerCounts
    BY Zenon, <1>5, Domains
  <2>2. Client["SA"][m] = SAClientWrites[m]
    <3>1. (CHOOSE u \in {SAClientGets, SAClientCounts, SAClientWrites} : m \in DOMAIN u) = SAClientWrites
      BY Zenon, <1>5, <2>1
    <3> QED
      BY Zenon, <1>1, <1>5, <2>1, <3>1 DEF Union
  <2>3. Server["SA"][m] = SAServerWrites[m]
    <3>1. (CHOOSE u \in {SAServerGets, SAServerCounts, SAServerWrites} : m \in DOMAIN u) = SAServerWrites
      BY Zenon, <1>5, <2>1
    <3> QED
      BY Zenon, <1>1, <1>5, <2>1, <3>1 DEF Union
  <2> QED
    BY Zenon, <1>5, <2>2, <2>3
<1> QED
  BY Zenon, <1>2, <1>3, <1>4, <1>5, Domains

\* A method of the RA is in one of the two tables of its server.
LEMMA RATable ==
    ASSUME NEW m \in DOMAIN Client["RA"]
    PROVE  /\ Client["RA"][m] = RAClient[m]
           /\ \/ m \in DOMAIN RAServerNew /\ Server["RA"][m] = RAServerNew[m]
              \/ m \in DOMAIN RAServerChange /\ Server["RA"][m] = RAServerChange[m]
<1>1. Client["RA"] = RAClient /\ Server["RA"] = Union({RAServerNew, RAServerChange})
  BY Zenon DEF Client, Server
<1>2. CASE m \in DOMAIN RAServerNew
  <2>1. m \notin DOMAIN RAServerChange
    BY Zenon, <1>2, Domains
  <2>2. (CHOOSE u \in {RAServerNew, RAServerChange} : m \in DOMAIN u) = RAServerNew
    BY Zenon, <1>2, <2>1
  <2> QED
    BY Zenon, <1>1, <1>2, <2>2 DEF Union
<1>3. CASE m \in DOMAIN RAServerChange
  <2>1. m \notin DOMAIN RAServerNew
    BY Zenon, <1>3, Domains
  <2>2. (CHOOSE u \in {RAServerNew, RAServerChange} : m \in DOMAIN u) = RAServerChange
    BY Zenon, <1>3, <2>1
  <2> QED
    BY Zenon, <1>1, <1>3, <2>2 DEF Union
<1> QED
  BY Zenon, <1>1, <1>2, <1>3, Domains

\* Client and server wrapper of every method understand each other, but for the
\* reply of GetCertificateStatus.
LEMMA MethodsMatch ==
    ASSUME NEW c \in Methods, c[2] # "GetCertificateStatus"
    PROVE  Matched(Client[c[1]][c[2]], Server[c[1]][c[2]])
<1>1. PICK x \in DOMAIN Client : \E m \in DOMAIN Client[x] : c = <<x, m>>
  BY Zenon DEF Methods
<1>0. PICK m \in DOMAIN Client[x] : c = <<x, m>>
  BY Zenon, <1>1
<1>2. c[1] = x /\ c[2] = m
  BY Zenon, <1>0
<1>3. x \in {"SA", "RA", "CA", "VA", "Publisher"}
  BY Zenon DEF Client
<1>4. CASE x = "SA"
  <2>1. m \in DOMAIN Client["SA"] /\ m # "GetCertificateStatus"
    BY Zenon, <1>2, <1>4
  <2>2. Matched(Client["SA"][m], Server["SA"][m])
    <3>1. CASE /\ m \in DOMAIN SAServerGets
               /\ Client["SA"][m] = SAClientGets[m] /\ Server["SA"][m] = SAServerGets[m]
      BY Zenon, <2>1, <3>1, SAGets
    <3>2. CASE /\ m \in DOMAIN SAServerCounts
               /\ Client["SA"][m] = SAClientCounts[m] /\ Server["SA"][m] = SAServerCounts[m]
      BY Zenon, <2>1, <3>2, SACounts
    <3>3. CASE /\ m \in DOMAIN SAServerWrites
               /\ Client["SA"][m] = SAClientWrites[m] /\ Server["SA"][m] = SAServerWrites[m]
      BY Zenon, <2>1, <3>3, SAWrites
    <3> QED
      BY Zenon, <2>1, <3>1, <3>2, <3>3, SATable
  <2> QED
    BY Zenon, <1>2, <1>4, <2>2
<1>5. CASE x = "RA"
  <2>1. m \in DOMAIN Client["RA"] /\ m # "GetCertificateStatus"
    BY Zenon, <1>2, <1>5
  <2>2. Matched(Client["RA"][m], Server["RA"][m])
    <3>1. CASE m \in DOMAIN RAServerNew /\ Server["RA"][m] = RAServerNew[m]
      BY Zenon, <2>1, <3>1, RANews, RATable
    <3>2. CASE m \in DOMAIN RAServerChange /\ Server["RA"][m] = RAServerChange[m]
      BY Zenon, <2>1, <3>2, RAChanges, RATable
    <3> QED
      BY Zenon, <2>1, <3>1, <3>2, RATable
  <2> QED
    BY Zenon, <1>2, <1>5, <2>2
<1>6. CASE x = "CA"
  <2>1. Client["CA"] = CAClient /\ Server["CA"] = CAServer
    BY Zenon DEF Client, Server
  <2> QED
    BY Zenon, <1>2, <1>6, <2>1, CAs, Domains
<1>7. CASE x = "VA"
  <2>1. Client["VA"] = VAClient /\ Server["VA"] = VAServer
    BY Zenon DEF Client, Server
  <2> QED
    BY Zenon, <1>2, <1>7, <2>1, VAs, Domains
<1>8. CASE x = "Publisher"
  <2>1. Client["Publisher"] = PublisherClient /\ Server["Publisher"] = PublisherServer
    BY Zenon DEF Client, Server
  <2> QED
    BY Zenon, <1>2, <1>8, <2>1, Publishers, Domains
<1> QED
  BY Zenon, <1>3, <1>4, <1>5, <1>6, <1>7, <1>8

\* GetCertificateStatus demands a whole status.
LEMMA StatusSides ==
    ASSUME NEW c \in Methods, c[2] = "GetCertificateStatus"
    PROVE  /\ Sends(c) = {"Serial"} /\ Server[c[1]][c[2]].needs = {"Serial"}
           /\ Answers(c) = StatusFields /\ Client[c[1]][c[2]].needs = StatusFields
<1>1. PICK x \in DOMAIN Client : \E m \in DOMAIN Client[x] : c = <<x, m>>
  BY Zenon DEF Methods
<1>2. c[1] = x /\ "GetCertificateStatus" \in DOMAIN Client[x]
  <2>1. PICK m \in DOMAIN Client[x] : c = <<x, m>>
    BY Zenon, <1>1
  <2> QED
    BY Zenon, <2>1
<1>3. x \in {"SA", "RA", "CA", "VA", "Publisher"}
  BY Zenon DEF Client
<1>4. /\ Client["RA"] = RAClient /\ Client["CA"] = CAClient /\ Client["VA"] = VAClient
      /\ Client["Publisher"] = PublisherClient
  BY Zenon DEF Client
<1>5. /\ "GetCertificateStatus" \notin DOMAIN RAClient
      /\ "GetCertificateStatus" \notin DOMAIN CAClient
      /\ "GetCertificateStatus" \notin DOMAIN VAClient
      /\ "GetCertificateStatus" \notin DOMAIN PublisherClient
  BY Zenon DEF RAClient, CAClient, VAClient, PublisherClient
<1>6. x = "SA"
  BY Zenon, <1>2, <1>3, <1>4, <1>5
<1>7. /\ "GetCertificateStatus" \notin DOMAIN SAServerCounts
      /\ "GetCertificateStatus" \notin DOMAIN SAServerWrites
  BY Zenon DEF SAServerCounts, SAServerWrites
<1>8. /\ Client["SA"]["GetCertificateStatus"] = SAClientGets["GetCertificateStatus"]
      /\ Server["SA"]["GetCertificateStatus"] = SAServerGets["GetCertificateStatus"]
  BY Zenon, <1>2, <1>6, <1>7, SATable
<1>9. /\ SAClientGets["GetCertificateStatus"] = Side({"Serial"}, StatusFields)
      /\ SAServerGets["GetCertificateStatus"] = Side(StatusFields, {"Serial"})
  BY Zenon DEF SAClientGets, SAServerGets
<1>10. /\ Client[c[1]][c[2]] = Side({"Serial"}, StatusFields)
       /\ Server[c[1]][c[2]] = Side(StatusFields, {"Serial"})
  BY Zenon, <1>2, <1>6, <1>8, <1>9
<1>11. /\ Sends(c) = Side({"Serial"}, StatusFields).sends
       /\ Answers(c) = Side(StatusFields, {"Serial"}).sends
  BY Zenon, <1>10 DEF Sends, Answers
<1>12. /\ Side({"Serial"}, StatusFields).sends = {"Serial"}
       /\ Side({"Serial"}, StatusFields).needs = StatusFields
       /\ Side(StatusFields, {"Serial"}).sends = StatusFields
       /\ Side(StatusFields, {"Serial"}).needs = {"Serial"}
  BY Zenon DEF Side
<1> QED
  BY Zenon, <1>10, <1>11, <1>12

\* A message that is complete up to what may be nil.
Whole(m, fields) == DOMAIN m = fields /\ \A f \in fields \ Nilable : m[f] # "nil"

\* A whole message lacks nothing that a fitting side needs.
LEMMA WholeComplete ==
    ASSUME NEW m, NEW sends, Whole(m, sends), NEW needs, Fits(sends, needs)
    PROVE  Missing(m, needs) = {}
  BY Zenon DEF Whole, Fits, Missing

\* A field that is not nilable is never written nil, nor empty where that arrives as nil.
LEMMA WritesFacts ==
    /\ \A f : f \notin Nilable => "nil" \notin Writes(f)
    /\ \A f : f \notin Nilable /\ "empty" \in Writes(f) => f \notin Repeated
<1>1. ASSUME NEW f, f \notin Nilable
      PROVE  Writes(f) \in {{"empty", "full"}, {"full"}}
  BY Zenon, <1>1 DEF Nilable, Writes
<1>2. ASSUME NEW f, f \notin Nilable, "empty" \in Writes(f) PROVE f \in {"InitialIP", "AddressUsed"}
  BY Zenon, <1>2 DEF Nilable, Writes
<1>3. "InitialIP" \notin Repeated /\ "AddressUsed" \notin Repeated
  BY Zenon DEF Repeated
<1> QED
  BY <1>1, <1>2, <1>3

\* The messages that a side can send arrive whole.
LEMMA ComposedWhole ==
    ASSUME NEW fields, NEW m \in Composed(fields)
    PROVE  Whole(Encode(m), fields)
<1> DEFINE Varying == {f \in fields : Writes(f) # {"full"}}
<1>1. PICK c \in [Varying -> Content] :
        /\ \A f \in Varying : c[f] \in Writes(f)
        /\ m = [f \in fields |->
                 IF f \in Varying THEN c[f]
                 ELSE IF f = "ContactsPresent" THEN IF c["Contact"] = "nil" THEN "false" ELSE "true"
                 ELSE "full"]
  BY Zenon DEF Composed
<1>2. DOMAIN m = fields /\ DOMAIN Encode(m) = fields
  BY Zenon, <1>1 DEF Encode
<1>3. ASSUME NEW f \in fields, f \notin Nilable PROVE Encode(m)[f] # "nil"
  <2>1. m[f] # "nil" /\ (m[f] = "empty" => f \notin Repeated)
    <3>1. CASE f \in Varying
      <4>1. m[f] = c[f] /\ c[f] \in Writes(f)
        BY Zenon, <1>1, <3>1
      <4> QED
        BY Zenon, <1>3, <4>1, WritesFacts
    <3>2. CASE f \notin Varying
      <4>1. m[f] \in {"false", "true", "full"}
        BY Zenon, <1>1, <3>2
      <4> QED
        BY Zenon, <4>1
    <3> QED
      BY Zenon, <3>1, <3>2
  <2>2. Encode(m)[f] = m[f]
    BY Zenon, <1>2, <2>1 DEF Encode
  <2> QED
    BY Zenon, <2>1, <2>2
<1> QED
  BY Zenon, <1>2, <1>3 DEF Whole

\* So do those that a handler fills itself.
LEMMA PlainWhole ==
    ASSUME NEW fields, NEW c \in Content
    PROVE  /\ Whole(Encode(Plain(fields)), fields)
           /\ Whole(Encode(WithContact(Plain(fields), c)), fields)
<1>1. /\ DOMAIN Plain(fields) = fields
      /\ \A f \in fields : Plain(fields)[f] \in {"true", "full"}
  BY Zenon DEF Plain
<1>2. PICK m : m = WithContact(Plain(fields), c)
  BY Zenon
<1>3. /\ DOMAIN m = fields
      /\ \A f \in fields \ {"Contact"} : m[f] \in {"true", "false", "full"}
  BY Zenon, <1>1, <1>2 DEF WithContact
<1>4. ASSUME NEW n, DOMAIN n = fields, \A f \in fields \ Nilable : n[f] \in {"true", "false", "full"}
      PROVE  Whole(Encode(n), fields)
  <2>1. ASSUME NEW f \in fields \ Nilable PROVE Encode(n)[f] # "nil"
    <3>1. n[f] # "nil" /\ n[f] # "empty"
      BY Zenon, <1>4
    <3> QED
      BY Zenon, <1>4, <3>1 DEF Encode
  <2> QED
    BY Zenon, <1>4, <2>1 DEF Whole, Encode
<1>5. "Contact" \in Nilable
  BY Zenon DEF Nilable
<1> QED
  BY Zenon, <1>1, <1>2, <1>3, <1>4, <1>5

\* A server understands what its client sends, and a client what its server
\* answers, but for the status of a certificate without an OCSP response.
LEMMA RequestUnderstood ==
    ASSUME NEW c \in Methods, NEW m, Whole(m, Sends(c))
    PROVE  Missing(m, Server[c[1]][c[2]].needs) = {}
<1>1. Fits(Sends(c), Server[c[1]][c[2]].needs)
  <2>1. CASE c[2] # "GetCertificateStatus"
    BY Zenon, <2>1, MethodsMatch DEF Matched, Sends
  <2>2. CASE c[2] = "GetCertificateStatus"
    <3>1. {"Serial"} \subseteq {"Serial"} \ Nilable
      BY Zenon DEF Nilable
    <3> QED
      BY Zenon, <2>2, <3>1, StatusSides DEF Fits
  <2> QED
    BY Zenon, <2>1, <2>2
<1> QED
  BY Zenon, <1>1, WholeComplete

\* A client understands a whole reply of every other method.
LEMMA ReplyUnderstood ==
    ASSUME NEW c \in Methods, c[2] # "GetCertificateStatus", NEW m, Whole(m, Answers(c))
    PROVE  Missing(m, Client[c[1]][c[2]].needs) = {}
<1>1. Fits(Answers(c), Client[c[1]][c[2]].needs)
  BY Zenon, MethodsMatch DEF Matched, Answers
<1> QED
  BY Zenon, <1>1, WholeComplete

\* It understands a certificate's status exactly when there is an OCSP response.
LEMMA StatusUnderstood ==
    ASSUME NEW c \in Methods, c[2] = "GetCertificateStatus", NEW m \in Composed(Answers(c))
    PROVE  Missing(Encode(m), Client[c[1]][c[2]].needs) = {} <=> m["OcspResponse"] # "nil"
<1>1. /\ Whole(Encode(m), StatusFields) /\ Client[c[1]][c[2]].needs = StatusFields
      /\ m \in Composed(StatusFields)
  BY Zenon, StatusSides, ComposedWhole
<1>2. /\ StatusFields \cap Nilable = {"OcspResponse"} /\ "OcspResponse" \notin Repeated
      /\ DOMAIN Elements \cap StatusFields = {}
  BY Zenon DEF StatusFields, Nilable, Repeated, Elements
<1>3. DOMAIN Encode(m) = StatusFields /\ DOMAIN m = StatusFields
  BY Zenon, <1>1 DEF Whole, Encode
<1>4. Encode(m)["OcspResponse"] = m["OcspResponse"]
  BY Zenon, <1>2, <1>3 DEF Encode
<1>5. \A f \in StatusFields \ {"OcspResponse"} : Encode(m)[f] # "nil"
  BY Zenon, <1>1, <1>2 DEF Whole
<1>6. "OcspResponse" \in StatusFields
  BY Zenon, <1>2
<1>7. Missing(Encode(m), StatusFields)
        = {f \in StatusFields : Encode(m)[f] = "nil"}
  BY Zenon, <1>2, <1>3 DEF Missing
<1> QED
  BY Zenon, <1>1, <1>4, <1>5, <1>6, <1>7

\* The contacts that arrive are those that were sent.
LEMMA ContactsSurvive ==
    ASSUME NEW fields, {"Contact", "ContactsPresent"} \subseteq fields
    PROVE  /\ \A m \in Composed(fields) : /\ pbToRegistration(Encode(m)) = m["Contact"]
                                          /\ m["Contact"] \in Content
           /\ \A c \in Content : pbToRegistration(Encode(WithContact(Plain(fields), c))) = c
<1>1. ASSUME NEW m, NEW c \in Content, DOMAIN m = fields, m["Contact"] = c,
             m["ContactsPresent"] = IF c = "nil" THEN "false" ELSE "true"
      PROVE  pbToRegistration(Encode(m)) = c
  <2>1. /\ Encode(m)["Contact"] = IF c = "empty" THEN "nil" ELSE c
        /\ Encode(m)["ContactsPresent"] = IF c = "nil" THEN "false" ELSE "true"
    <3>1. "Contact" \in Repeated /\ "ContactsPresent" \notin Repeated
      BY Zenon DEF Repeated
    <3> QED
      BY Zenon, <1>1, <3>1 DEF Encode
  <2> QED
    BY Zenon, <2>1 DEF pbToRegistration, Content
<1>2. ASSUME NEW m \in Composed(fields)
      PROVE  pbToRegistration(Encode(m)) = m["Contact"] /\ m["Contact"] \in Content
  <2> DEFINE Varying == {f \in fields : Writes(f) # {"full"}}
  <2>1. PICK c \in [Varying -> Content] :
          m = [f \in fields |->
                 IF f \in Varying THEN c[f]
                 ELSE IF f = "ContactsPresent" THEN IF c["Contact"] = "nil" THEN "false" ELSE "true"
                 ELSE "full"]
    BY Zenon, <1>2 DEF Composed
  <2>2. "Contact" \in Varying /\ "ContactsPresent" \notin Varying
    BY DEF Writes, Content
  <2>3. PICK d \in Content : d = c["Contact"]
    BY Zenon, <2>1, <2>2
  <2>4. /\ DOMAIN m = fields /\ m["Contact"] = d
        /\ m["ContactsPresent"] = IF d = "nil" THEN "false" ELSE "true"
    BY Zenon, <2>1, <2>2, <2>3
  <2> QED
    BY Zenon, <1>1, <2>4
<1>3. ASSUME NEW c \in Content PROVE pbToRegistration(Encode(WithContact(Plain(fields), c))) = c
  <2>1. PICK m : m = WithContact(Plain(fields), c)
    BY Zenon
  <2>2. DOMAIN Plain(fields) = fields
    BY Zenon DEF Plain
  <2>3. /\ DOMAIN m = fields /\ m["Contact"] = c
        /\ m["ContactsPresent"] = IF c = "nil" THEN "false" ELSE "true"
    BY Zenon, <2>1, <2>2 DEF WithContact
  <2> QED
    BY Zenon, <1>1, <2>1, <2>3
<1> QED
  BY Zenon, <1>2, <1>3

-----------------------------------------------------------------------------
(***************************************************************************)
(* Errors on the wire.                                                     *)
(***************************************************************************)
\* The errors a handler may return or a caller may get.
Circulating(e) ==
    \/ Returnable(e)
    \/ e \in {Error("plain", "Duplicate", None), Error("plain", "IncompleteResponse", None),
              Error("grpc", "Unknown", None), Error("grpc", "DeadlineExceeded", None)}

\* Two errors that a subscriber cannot tell apart.
Alike(e, d) ==
    /\ problemDetailsForError(e).type = problemDetailsForError(d).type
    /\ ProblemDetailsToStatusCode(problemDetailsForError(e))
         = ProblemDetailsToStatusCode(problemDetailsForError(d))

\* A BoulderError crosses the wire as itself: its type travels in the trailer.
LEMMA BoulderKept ==
    ASSUME NEW i \in DOMAIN BoulderErrorTypes, NEW e, e = Error("boulder", BoulderErrorTypes[i], None)
    PROVE  unwrapError(wrapError(e)) = e
<1>1. e.family = "boulder" /\ e.type = BoulderErrorTypes[i]
  BY Zenon DEF Error
<1>2. PICK j : j = CHOOSE x \in DOMAIN BoulderErrorTypes : BoulderErrorTypes[x] = e.type
  BY Zenon
<1>3. j \in DOMAIN BoulderErrorTypes /\ BoulderErrorTypes[j] = e.type
  BY Zenon, <1>1, <1>2
<1>4. j \in Int /\ (j - 1) + 1 = j
  <2>1. DOMAIN BoulderErrorTypes = 1 .. 12
    BY DEF BoulderErrorTypes
  <2> QED
    BY <1>3, <2>1
<1>5. wrapError(e).errortype = <<j - 1>>
  BY Zenon, <1>1, <1>2 DEF wrapError
<1>6. wrapError(e).errortype # <<>> /\ wrapError(e).errortype[1] + 1 = j
  BY <1>4, <1>5
<1> QED
  BY Zenon, <1>1, <1>3, <1>6 DEF unwrapError

\* The gRPC codes that Boulder adds differ from each other and from Unknown.
LEMMA CodesDiffer ==
    /\ \A t, u \in DOMAIN Codes : Codes[t] = Codes[u] => t = u
    /\ \A t \in DOMAIN Codes : Codes[t] # Unknown
    /\ "ProblemDetails" \in DOMAIN Codes
  BY DEF Codes, Unknown

\* A core error crosses the wire as itself: its code names it.
LEMMA CoreKept ==
    ASSUME NEW t \in DOMAIN Codes \ {"ProblemDetails"}, NEW e, e = Error("core", t, None)
    PROVE  unwrapError(wrapError(e)) = e
<1>1. e.family = "core" /\ e.type = t
  BY Zenon DEF Error
<1>2. errorToCode(e) = Codes[t]
  BY Zenon, <1>1 DEF errorToCode
<1>3. Codes[t] # Codes["ProblemDetails"]
  BY Zenon, CodesDiffer
<1>4. wrapError(e).code = Codes[t] /\ wrapError(e).errortype = <<>>
  BY Zenon, <1>1, <1>2 DEF wrapError
<1>5. (CHOOSE u \in DOMAIN Codes : Codes[u] = Codes[t]) = t
  BY Zenon, CodesDiffer
<1> QED
  BY Zenon, <1>3, <1>4, <1>5 DEF unwrapError

\* A ProblemDetails crosses the wire as itself: it is the body of the status.
LEMMA ProblemKept ==
    ASSUME NEW t, NEW s, NEW e, e = Error("problem", t, s)
    PROVE  unwrapError(wrapError(e)) = e
<1>1. e.family = "problem" /\ e.type = t /\ e.status = s
  BY Zenon DEF Error
<1>2. errorToCode(e) = Codes["ProblemDetails"]
  BY Zenon, <1>1 DEF errorToCode
<1>3. /\ wrapError(e).code = Codes["ProblemDetails"] /\ wrapError(e).errortype = <<>>
      /\ wrapError(e).body = Error("body", t, s)
  BY Zenon, <1>1, <1>2 DEF wrapError
<1>4. Error("body", t, s).type = t /\ Error("body", t, s).status = s
  BY Zenon DEF Error
<1> QED
  BY Zenon, <1>3, <1>4 DEF unwrapError

\* Any other error arrives as gRPC's unknown error.
LEMMA OthersUnknown ==
    ASSUME NEW e, e.family \in {"plain", "grpc"}
    PROVE  unwrapError(wrapError(e)) = Error("grpc", "Unknown", None)
<1>1. errorToCode(e) = Unknown
  BY Zenon DEF errorToCode
<1>2. Unknown # Codes["ProblemDetails"] /\ ~ \E u \in DOMAIN Codes : Codes[u] = Unknown
  BY Zenon, CodesDiffer
<1>3. wrapError(e).code = Unknown /\ wrapError(e).errortype = <<>>
  BY Zenon, <1>1 DEF wrapError
<1> QED
  BY Zenon, <1>2, <1>3 DEF unwrapError

\* An error crosses the wire as itself, or as the unknown error of gRPC, which
\* a subscriber cannot tell from the one that was sent.
LEMMA ErrorCrosses ==
    ASSUME NEW e, Circulating(e)
    PROVE  Circulating(unwrapError(wrapError(e))) /\ Alike(unwrapError(wrapError(e)), e)
<1>1. CASE unwrapError(wrapError(e)) = e
  BY Zenon, <1>1 DEF Alike
<1>2. CASE e.family \in {"plain", "grpc"}
  <2>1. problemDetailsForError(e) = Problem("serverInternal", 500)
    BY <1>2 DEF problemDetailsForError
  <2>2. Error("grpc", "Unknown", None).family = "grpc"
    BY Zenon DEF Error
  <2>3. problemDetailsForError(Error("grpc", "Unknown", None)) = Problem("serverInternal", 500)
    BY <2>2 DEF problemDetailsForError
  <2>4. unwrapError(wrapError(e)) = Error("grpc", "Unknown", None)
    BY <1>2, OthersUnknown
  <2> QED
    BY Zenon, <2>1, <2>3, <2>4 DEF Alike, Circulating
<1>3. CASE Returnable(e)
  <2>1. CASE \E i \in DOMAIN BoulderErrorTypes : e = Error("boulder", BoulderErrorTypes[i], None)
    BY Zenon, <1>1, <2>1, BoulderKept
  <2>2. CASE \E t \in DOMAIN Codes \ {"ProblemDetails"} : e = Error("core", t, None)
    BY Zenon, <1>1, <2>2, CoreKept
  <2>3. CASE e = Error("problem", e.type, e.status)
    BY Zenon, <1>1, <2>3, ProblemKept
  <2>4. CASE e = Error("plain", "other", None)
    BY Zenon, <1>2, <2>4 DEF Error
  <2> QED
    BY Zenon, <1>3, <2>1, <2>2, <2>3, <2>4 DEF Returnable
<1>4. CASE e \in {Error("plain", "Duplicate", None), Error("plain", "IncompleteResponse", None),
                  Error("grpc", "Unknown", None), Error("grpc", "DeadlineExceeded", None)}
  BY <1>2, <1>4 DEF Error
<1> QED
  BY Zenon, <1>3, <1>4 DEF Circulating

\* No error that circulates complains about a request.
LEMMA NoComplaint == ASSUME NEW e, Circulating(e) PROVE e.type # "IncompleteRequest"
<1>1. ASSUME NEW f, NEW t, NEW s, e = Error(f, t, s) PROVE e.type = t
  BY Zenon, <1>1 DEF Error
<1>2. ASSUME NEW i \in DOMAIN BoulderErrorTypes PROVE BoulderErrorTypes[i] # "IncompleteRequest"
  BY DEF BoulderErrorTypes
<1>3. "IncompleteRequest" \notin DOMAIN Codes /\ "IncompleteRequest" \notin ProblemTypes
  BY Zenon DEF Codes, ProblemTypes
<1>4. CASE Returnable(e)
  BY Zenon, <1>1, <1>2, <1>3, <1>4 DEF Returnable
<1>5. CASE e \in {Error("plain", "Duplicate", None), Error("plain", "IncompleteResponse", None),
                  Error("grpc", "Unknown", None), Error("grpc", "DeadlineExceeded", None)}
  BY Zenon, <1>1, <1>5
<1> QED
  BY Zenon, <1>4, <1>5 DEF Circulating

-----------------------------------------------------------------------------
(***************************************************************************)
(* Paths.                                                                  *)
(***************************************************************************)
\* A function on an interval that starts at 1 is a sequence.
LEMMA TriesSequence ==
    ASSUME NEW S, NEW k \in Nat, NEW p \in [1 .. k -> S]
    PROVE  p \in Seq(S) /\ Len(p) = k
<1>1. p \in Seq(S)
  BY Zenon, SeqDef
<1>2. Len(p) \in Nat /\ DOMAIN p = 1 .. Len(p)
  BY Zenon, <1>1, LenProperties
<1>3. 1 .. Len(p) = 1 .. k
  BY Zenon, <1>2
<1> QED
  BY <1>1, <1>2, <1>3

\* A path is that of its caller and the number of the try.
LEMMA CallerAttempt ==
    ASSUME NEW S, NEW s \in Seq(S), s # <<>>
    PROVE  /\ Caller(s) \in Seq(S) /\ Attempt(s) \in S
           /\ s = Append(Caller(s), Attempt(s)) /\ Len(Caller(s)) = Len(s) - 1
<1>1. Len(s) \in Nat \ {0}
  BY Zenon, EmptySeq
<1>2. Caller(s) \in Seq(S) /\ Len(Caller(s)) = Len(s) - 1
  <2>1. PICK k \in Nat : k = Len(s) - 1
    BY <1>1
  <2>2. 1 \in Int /\ k \in Int /\ \A i \in 1 .. k : s[i] \in S
    BY <1>1, <2>1
  <2>3. SubSeq(s, 1, k) \in Seq(S) /\ Len(SubSeq(s, 1, k)) = IF 1 <= k THEN k - 1 + 1 ELSE 0
    BY <2>2, SubSeqProperties
  <2>4. (IF 1 <= k THEN k - 1 + 1 ELSE 0) = k
    OBVIOUS
  <2> QED
    BY Zenon, <2>1, <2>3, <2>4 DEF Caller
<1>3. Attempt(s) \in S
  BY <1>1 DEF Attempt
<1>4. s = Append(Caller(s), Attempt(s))
  BY <1>1, <1>2, <1>3 DEF Caller, Attempt
<1> QED
  BY Zenon, <1>2, <1>3, <1>4

\* The paths of given lengths are the sequences of tries of those lengths.
LEMMA PathsAre ==
    ASSUME NEW a \in Nat, NEW b \in Int, NEW p
    PROVE  p \in Paths(a .. b) <=> p \in Seq(1 .. MaxTries) /\ Len(p) \in a .. b
<1>1. ASSUME NEW k \in a .. b, p \in [1 .. k -> 1 .. MaxTries]
      PROVE  p \in Seq(1 .. MaxTries) /\ Len(p) = k
  <2>1. k \in Nat
    OBVIOUS
  <2> QED
    BY Zenon, <1>1, <2>1, TriesSequence
<1>2. ASSUME p \in Seq(1 .. MaxTries) PROVE p \in [1 .. Len(p) -> 1 .. MaxTries]
  BY Zenon, <1>2, LenProperties
<1> QED
  BY Zenon, <1>1, <1>2 DEF Paths

\* A caller's try is a handler one call further down.
LEMMA Down ==
    ASSUME NEW D \in Nat, NEW p \in Paths(0 .. D - 1), NEW n \in 1 .. MaxTries
    PROVE  /\ Append(p, n) \in Paths(1 .. D)
           /\ Caller(Append(p, n)) = p /\ Attempt(Append(p, n)) = n
           /\ Len(Append(p, n)) = Len(p) + 1 /\ Append(p, n) # <<>>
<1>1. p \in Seq(1 .. MaxTries) /\ Len(p) \in 0 .. D - 1
  BY PathsAre
<1>2. /\ Append(p, n) \in Seq(1 .. MaxTries) /\ Len(Append(p, n)) = Len(p) + 1
      /\ Append(p, n) # <<>>
  BY <1>1
<1>3. Append(p, n) \in Paths(1 .. D)
  <2>1. Len(Append(p, n)) \in 1 .. D
    BY <1>1, <1>2
  <2>2. 1 \in Nat /\ D \in Int
    OBVIOUS
  <2> QED
    BY Zenon, <1>2, <2>1, <2>2, PathsAre
<1>4. Caller(Append(p, n)) = p /\ Attempt(Append(p, n)) = n
  BY <1>1, <1>2 DEF Caller, Attempt
<1> QED
  BY Zenon, <1>2, <1>3, <1>4

\* Every handler is a try of a caller one call further up.
LEMMA Up ==
    ASSUME NEW D \in Nat, NEW p \in Paths(1 .. D)
    PROVE  /\ Caller(p) \in Paths(0 .. D - 1) /\ Attempt(p) \in 1 .. MaxTries
           /\ p = Append(Caller(p), Attempt(p)) /\ Len(Caller(p)) = Len(p) - 1
           /\ Len(p) \in 1 .. D /\ p # <<>>
<1>1. p \in Seq(1 .. MaxTries) /\ Len(p) \in 1 .. D
  BY PathsAre
<1>2. p # <<>>
  BY <1>1
<1>3. /\ Caller(p) \in Seq(1 .. MaxTries) /\ Attempt(p) \in 1 .. MaxTries
      /\ p = Append(Caller(p), Attempt(p)) /\ Len(Caller(p)) = Len(p) - 1
  BY Zenon, <1>1, <1>2, CallerAttempt
<1>5. Caller(p) \in Paths(0 .. D - 1)
  <2>1. Len(Caller(p)) \in 0 .. D - 1
    BY <1>1, <1>3
  <2> QED
    BY <1>3, <2>1, PathsAre
<1> QED
  BY Zenon, <1>1, <1>2, <1>3, <1>5

\* The callers are the root and the handlers short of the last ones.
LEMMA Levels ==
    ASSUME NEW D \in Nat, NEW p
    PROVE  /\ p \in Paths(0 .. D - 1) => p \in Paths(0 .. D) /\ Len(p) \in 0 .. D - 1
           /\ p \in Paths(1 .. D) => p \in Paths(0 .. D) /\ Len(p) \in 1 .. D /\ p # <<>>
           /\ p \in Paths(0 .. D) => p = <<>> \/ p \in Paths(1 .. D)
           /\ p \in Paths(1 .. D) /\ Len(p) < D => p \in Paths(0 .. D - 1)
           /\ <<>> \in Paths(0 .. D)
           /\ D > 0 => <<>> \in Paths(0 .. D - 1)
           /\ p \in Paths(0 .. D - 1) /\ p # <<>> => p \in Paths(1 .. D)
<1>1. /\ p \in Paths(0 .. D - 1) <=> p \in Seq(1 .. MaxTries) /\ Len(p) \in 0 .. D - 1
      /\ p \in Paths(0 .. D) <=> p \in Seq(1 .. MaxTries) /\ Len(p) \in 0 .. D
      /\ p \in Paths(1 .. D) <=> p \in Seq(1 .. MaxTries) /\ Len(p) \in 1 .. D
      /\ <<>> \in Paths(0 .. D) <=> <<>> \in Seq(1 .. MaxTries) /\ Len(<<>>) \in 0 .. D
      /\ <<>> \in Paths(0 .. D - 1) <=> <<>> \in Seq(1 .. MaxTries) /\ Len(<<>>) \in 0 .. D - 1
  <2>1. 0 \in Nat /\ 1 \in Nat /\ D \in Int /\ D - 1 \in Int
    OBVIOUS
  <2> QED
    BY Zenon, <2>1, PathsAre
<1>2. p \in Seq(1 .. MaxTries) => Len(p) \in Nat /\ (Len(p) = 0 <=> p = <<>>)
  OBVIOUS
<1>3. <<>> \in Seq(1 .. MaxTries) /\ Len(<<>>) = 0
  OBVIOUS
<1> QED
  BY <1>1, <1>2, <1>3

-----------------------------------------------------------------------------
(***************************************************************************)
(* The tree of calls and handlers.                                         *)
(***************************************************************************)
Callers == Paths(0 .. Depth - 1)

Handlers == Paths(1 .. Depth)

CallFields == {"stage", "tries", "request", "result"}

\* The types of the variables.
CallTypeOK ==
    /\ scenario \in CallScenarios
    /\ lost \in Nat /\ expired \in BOOLEAN
    /\ DOMAIN call = Callers /\ DOMAIN handler = Handlers
    /\ \A p \in Callers :
         /\ DOMAIN call[p] = CallFields
         /\ call[p].stage \in {"idle", "open", "done"} /\ call[p].tries \in 0 .. MaxTries
         /\ call[p].stage = "idle" <=> call[p].tries = 0
    /\ \A p \in Handlers :
         /\ DOMAIN handler[p] = {"stage", "reply"}
         /\ handler[p].stage \in {"none", "sent", "dropped", "running", "replied"}

\* The handlers, and the root, that have started.
Started(p) == p = <<>> \/ handler[p].stage # "none"

\* Those of them that have made no call of their own.
Leaves == {p \in Paths(0 .. Depth) : Started(p) /\ (p \in Callers => call[p].stage = "idle")}

\* The last handlers of the chain that have replied.
Ends == {p \in Handlers : Len(p) = Depth /\ handler[p].stage = "replied"}

\* The calls and the handlers form a tree in which a call that was tried n times
\* has started n handlers, and that has a leaf more for every connection lost.
TreeInv ==
    /\ \A p \in Callers, n \in 1 .. MaxTries :
         handler[Append(p, n)].stage # "none" <=> n <= call[p].tries
    /\ \A p \in Callers \ {<<>>} :
         call[p].stage # "idle" => handler[p].stage \in {"running", "replied"}
    /\ IsFiniteSet(Leaves) /\ Cardinality(Leaves) = 1 + lost

\* The call of p becomes this one; the others stay as they are.
CallChanged(p, s, n, m, r) ==
    /\ DOMAIN call' = DOMAIN call
    /\ DOMAIN call'[p] = CallFields
    /\ call'[p].stage = s /\ call'[p].tries = n /\ call'[p].request = m /\ call'[p].result = r
    /\ \A q \in DOMAIN call \ {p} : call'[q] = call[q]

\* Handler p becomes this one; the others stay as they are.
HandlerChanged(p, s, r) ==
    /\ DOMAIN handler' = DOMAIN handler
    /\ DOMAIN handler'[p] = {"stage", "reply"}
    /\ handler'[p].stage = s /\ handler'[p].reply = r
    /\ \A q \in DOMAIN handler \ {p} : handler'[q] = handler[q]

\* What the scenario of a request is.
LEMMA ScenarioFacts ==
    ASSUME CallTypeOK
    PROVE  /\ Depth \in Nat \ {0} /\ Depth \in Nat /\ Depth > 0
           /\ \A k \in 1 .. Depth : scenario.chain[k] \in Methods
           /\ 1 \in 1 .. Depth /\ Depth \in 1 .. Depth
           /\ scenario.request \in Composed(Sends(scenario.chain[1]))
           /\ scenario.reply \in Composed(Answers(scenario.chain[Depth]))
           /\ scenario.base \in Content
           /\ scenario.inner = Ok
              \/ (scenario.inner = Failed(scenario.inner.error) /\ Returnable(scenario.inner.error))
           /\ scenario.chain[1] = <<"RA", "UpdateRegistration">> => Depth <= 2
<1>1. /\ scenario.chain \in Seq(Methods) \ {<<>>}
      /\ scenario.request \in Composed(Sends(scenario.chain[1]))
      /\ scenario.reply \in Composed(Answers(scenario.chain[Depth]))
      /\ scenario.base \in Content
      /\ scenario.inner = Ok
         \/ (scenario.inner = Failed(scenario.inner.error) /\ Returnable(scenario.inner.error))
      /\ scenario.chain[1] = <<"RA", "UpdateRegistration">> => Depth <= 2
  BY Zenon, ScenariosAssumption DEF CallTypeOK, Depth
<1>2. Depth \in Nat \ {0}
  BY Zenon, <1>1, EmptySeq DEF Depth
<1>3. \A k \in 1 .. Depth : scenario.chain[k] \in Methods
  BY Zenon, <1>1, ElementOfSeq DEF Depth
<1>4. Depth \in Nat /\ Depth > 0 /\ 1 \in 1 .. Depth /\ Depth \in 1 .. Depth
  BY <1>2
<1> QED
  BY Zenon, <1>1, <1>2, <1>3, <1>4

\* The three things a step may do to the tree: a caller tries its call (again),
LEMMA Tries ==
    ASSUME CallTypeOK, NEW p \in Callers, NEW n \in 1 .. MaxTries, NEW m, Try(p, n, m)
    PROVE  /\ CallChanged(p, "open", n, m, Ok)
           /\ HandlerChanged(Append(p, n), "sent", handler[Append(p, n)].reply)
<1>1. DOMAIN call = Callers /\ DOMAIN handler = Handlers /\ Depth \in Nat
  BY Zenon, ScenarioFacts DEF CallTypeOK
<1>2. CallChanged(p, "open", n, m, Ok)
  <2>1. call' = [call EXCEPT ![p] = [stage |-> "open", tries |-> n, request |-> m, result |-> Ok]]
    BY Zenon DEF Try
  <2>2. DOMAIN call' = DOMAIN call /\ \A q \in DOMAIN call \ {p} : call'[q] = call[q]
    BY Zenon, <1>1, <2>1
  <2>3. call'[p] = [stage |-> "open", tries |-> n, request |-> m, result |-> Ok]
    BY Zenon, <1>1, <2>1
  <2> QED
    BY <2>2, <2>3 DEF CallChanged, CallFields
<1>3. HandlerChanged(Append(p, n), "sent", handler[Append(p, n)].reply)
  <2>1. PICK h \in Handlers : h = Append(p, n)
    BY Zenon, <1>1, Down DEF Callers, Handlers
  <2>2. handler' = [handler EXCEPT ![h].stage = "sent"]
    BY Zenon, <2>1 DEF Try
  <2>3. DOMAIN handler' = DOMAIN handler /\ \A q \in DOMAIN handler \ {h} : handler'[q] = handler[q]
    BY Zenon, <1>1, <2>2
  <2>4. handler'[h] = [handler[h] EXCEPT !.stage = "sent"] /\ DOMAIN handler[h] = {"stage", "reply"}
    BY Zenon, <1>1, <2>2 DEF CallTypeOK
  <2>5. /\ DOMAIN handler'[h] = {"stage", "reply"}
        /\ handler'[h].stage = "sent" /\ handler'[h].reply = handler[h].reply
    BY Zenon, <2>4
  <2> QED
    BY Zenon, <2>1, <2>3, <2>5 DEF HandlerChanged
<1> QED
  BY Zenon, <1>2, <1>3

\* a handler moves on or replies,
LEMMA Moves ==
    ASSUME CallTypeOK, NEW p \in Handlers, NEW s, handler' = [handler EXCEPT ![p].stage = s]
    PROVE  HandlerChanged(p, s, handler[p].reply)
<1>1. DOMAIN handler = Handlers
  BY Zenon DEF CallTypeOK
<1>2. DOMAIN handler' = DOMAIN handler /\ \A q \in DOMAIN handler \ {p} : handler'[q] = handler[q]
  BY Zenon, <1>1
<1>3. handler'[p] = [handler[p] EXCEPT !.stage = s] /\ DOMAIN handler[p] = {"stage", "reply"}
  BY Zenon, <1>1 DEF CallTypeOK
<1>4. /\ DOMAIN handler'[p] = {"stage", "reply"} /\ handler'[p].stage = s
      /\ handler'[p].reply = handler[p].reply
  BY Zenon, <1>3
<1> QED
  BY Zenon, <1>2, <1>4 DEF HandlerChanged

\* or with an answer,
LEMMA Replies ==
    ASSUME CallTypeOK, NEW p \in Handlers, NEW r, Reply(p, r)
    PROVE  HandlerChanged(p, "replied", r)
<1>1. DOMAIN handler = Handlers
  BY Zenon DEF CallTypeOK
<1>2. /\ DOMAIN handler' = DOMAIN handler /\ \A q \in DOMAIN handler \ {p} : handler'[q] = handler[q]
      /\ handler'[p] = [stage |-> "replied", reply |-> r]
  BY Zenon, <1>1 DEF Reply
<1>3. /\ DOMAIN handler'[p] = {"stage", "reply"} /\ handler'[p].stage = "replied"
      /\ handler'[p].reply = r
  BY <1>2
<1> QED
  BY Zenon, <1>2, <1>3 DEF HandlerChanged

\* or a call ends.
LEMMA Finishes ==
    ASSUME CallTypeOK, NEW p \in Callers, NEW r,
           call' = [call EXCEPT ![p].stage = "done", ![p].result = r]
    PROVE  CallChanged(p, "done", call[p].tries, call[p].request, r)
<1>1. DOMAIN call = Callers
  BY Zenon DEF CallTypeOK
<1>2. DOMAIN call' = DOMAIN call /\ \A q \in DOMAIN call \ {p} : call'[q] = call[q]
  BY Zenon, <1>1
<1>3. /\ call'[p] = [[call[p] EXCEPT !.stage = "done"] EXCEPT !.result = r]
      /\ DOMAIN call[p] = CallFields
  BY Zenon, <1>1 DEF CallTypeOK
<1>4. /\ DOMAIN call'[p] = CallFields
      /\ call'[p].stage = "done" /\ call'[p].result = r
      /\ call'[p].tries = call[p].tries /\ call'[p].request = call[p].request
  <2>1. DOMAIN call'[p] = CallFields
    BY Zenon, <1>3
  <2>2. {"stage", "tries", "request", "result"} \subseteq DOMAIN call[p]
    BY Zenon, <1>3 DEF CallFields
  <2>3. call'[p].stage = "done" /\ call'[p].result = r
    BY Zenon, <1>3, <2>2
  <2>4. call'[p].tries = call[p].tries /\ call'[p].request = call[p].request
    BY Zenon, <1>3, <2>2
  <2> QED
    BY Zenon, <2>1, <2>3, <2>4
<1> QED
  BY Zenon, <1>2, <1>4 DEF CallChanged

\* The call of p is tried, for the first time or again.
Tried(p, m) ==
    /\ p \in Callers /\ call[p].tries < MaxTries
    /\ call[p].stage = "idle" => p = <<>> \/ handler[p].stage = "running"
    /\ CallChanged(p, "open", call[p].tries + 1, m, Ok)
    /\ HandlerChanged(Append(p, call[p].tries + 1), "sent", handler[Append(p, call[p].tries + 1)].reply)
    /\ lost' = IF call[p].stage = "idle" THEN lost ELSE lost + 1
    /\ scenario' = scenario /\ rows' = rows /\ expired' = expired

\* Handler p moves on.
Moved(p, s, r) ==
    /\ p \in Handlers /\ handler[p].stage \in {"sent", "running"}
    /\ s \in {"dropped", "running", "replied"}
    /\ s = "dropped" => handler[p].stage = "sent"
    /\ HandlerChanged(p, s, r)
    /\ scenario' = scenario /\ call' = call /\ lost' = lost /\ expired' = expired

\* The call of p ends.
Finished(p, r) ==
    /\ p \in Callers /\ call[p].stage = "open"
    /\ CallChanged(p, "done", call[p].tries, call[p].request, r)
    /\ scenario' = scenario /\ handler' = handler /\ rows' = rows /\ lost' = lost
    /\ expired' \in BOOLEAN /\ (expired => expired')

\* The handler that a try starts.
LEMMA NewHandler ==
    ASSUME CallTypeOK, TreeInv, NEW p \in Callers, call[p].tries < MaxTries, NEW h,
           h = Append(p, call[p].tries + 1)
    PROVE  /\ call[p].tries \in Nat /\ call[p].tries + 1 \in 1 .. MaxTries
           /\ h \in Handlers /\ handler[h].stage = "none" /\ h # p /\ h # <<>>
           /\ h \in Callers => call[h].stage = "idle"
           /\ \A q \in Callers, k \in 1 .. MaxTries :
                /\ Append(q, k) \in Handlers
                /\ Append(q, k) = h => q = p /\ k = call[p].tries + 1
<1>1. /\ Depth \in Nat /\ MaxTries \in Nat /\ call[p].tries \in 0 .. MaxTries
      /\ DOMAIN call = Callers /\ DOMAIN handler = Handlers
  BY Zenon, CallsAssumption, ScenarioFacts DEF CallTypeOK
<1>2. /\ call[p].tries \in Nat /\ call[p].tries + 1 \in 1 .. MaxTries
      /\ ~ (call[p].tries + 1 <= call[p].tries)
  BY <1>1
<1>3. /\ h \in Handlers /\ Caller(h) = p /\ Attempt(h) = call[p].tries + 1
      /\ Len(h) = Len(p) + 1 /\ h # <<>>
  BY Zenon, <1>1, <1>2, Down DEF Callers, Handlers
<1>4. handler[h].stage = "none"
  BY Zenon, <1>2 DEF TreeInv
<1>5. h # p
  <2>1. Len(p) \in 0 .. Depth - 1
    BY Zenon, <1>1, Levels DEF Callers
  <2> QED
    BY <1>3, <2>1
<1>6. h \in Callers => call[h].stage = "idle"
  <2>1. "none" \notin {"running", "replied"}
    BY Zenon
  <2> QED
    BY Zenon, <1>3, <1>4, <2>1 DEF TreeInv
<1>7. ASSUME NEW q \in Callers, NEW k \in 1 .. MaxTries
      PROVE  /\ Append(q, k) \in Handlers
             /\ Append(q, k) = h => q = p /\ k = call[p].tries + 1
  <2>1. Append(q, k) \in Handlers /\ Caller(Append(q, k)) = q /\ Attempt(Append(q, k)) = k
    BY Zenon, <1>1, Down DEF Callers, Handlers
  <2> QED
    BY Zenon, <1>3, <2>1
<1> QED
  BY Zenon, <1>2, <1>3, <1>4, <1>5, <1>6, <1>7

\* A try keeps the types.
LEMMA TriedType ==
    ASSUME CallTypeOK, TreeInv, NEW p, NEW m, Tried(p, m)
    PROVE  CallTypeOK'
<1> DEFINE n == call[p].tries + 1
           h == Append(p, n)
<1>1. /\ p \in Callers /\ call[p].tries < MaxTries
      /\ CallChanged(p, "open", n, m, Ok) /\ HandlerChanged(h, "sent", handler[h].reply)
      /\ lost' = IF call[p].stage = "idle" THEN lost ELSE lost + 1
      /\ scenario' = scenario /\ expired' = expired
  BY Zenon DEF Tried
<1>2. /\ call[p].tries \in Nat /\ n \in 1 .. MaxTries /\ h \in Handlers
  BY Zenon, <1>1, NewHandler
<1>3. Callers' = Callers /\ Handlers' = Handlers
  BY Zenon, <1>1 DEF Callers, Handlers, Depth
<1>4. lost' \in Nat
  BY <1>1 DEF CallTypeOK
<1>5. ASSUME NEW q \in Callers
      PROVE  /\ DOMAIN call'[q] = CallFields
             /\ call'[q].stage \in {"idle", "open", "done"} /\ call'[q].tries \in 0 .. MaxTries
             /\ call'[q].stage = "idle" <=> call'[q].tries = 0
  <2>1. CASE q = p
    <3>1. /\ DOMAIN call'[q] = CallFields /\ call'[q].stage = "open" /\ call'[q].tries = n
      BY Zenon, <1>1, <2>1 DEF CallChanged
    <3>2. n \in 0 .. MaxTries /\ n # 0 /\ "open" # "idle"
      BY <1>2
    <3> QED
      BY Zenon, <3>1, <3>2
  <2>2. CASE q # p
    <3>1. call'[q] = call[q]
      BY Zenon, <1>1, <2>2 DEF CallChanged, CallTypeOK
    <3> QED
      BY Zenon, <3>1 DEF CallTypeOK
  <2> QED
    BY Zenon, <2>1, <2>2
<1>6. ASSUME NEW q \in Handlers
      PROVE  /\ DOMAIN handler'[q] = {"stage", "reply"}
             /\ handler'[q].stage \in {"none", "sent", "dropped", "running", "replied"}
  <2>1. CASE q = h
    BY Zenon, <1>1, <2>1 DEF HandlerChanged
  <2>2. CASE q # h
    <3>1. handler'[q] = handler[q]
      BY Zenon, <1>1, <2>2 DEF HandlerChanged, CallTypeOK
    <3> QED
      BY Zenon, <3>1 DEF CallTypeOK
  <2> QED
    BY Zenon, <2>1, <2>2
<1>7. DOMAIN call' = Callers /\ DOMAIN handler' = Handlers
  BY Zenon, <1>1 DEF CallChanged, HandlerChanged, CallTypeOK
<1> QED
  BY Zenon, <1>1, <1>3, <1>4, <1>5, <1>6, <1>7 DEF CallTypeOK

\* A try makes its handler a leaf in the place of the caller, or beside the
\* handlers of the tries before it.
LEMMA TriedTree ==
    ASSUME CallTypeOK, TreeInv, NEW p, NEW m, Tried(p, m)
    PROVE  TreeInv'
<1> DEFINE n == call[p].tries + 1
           h == Append(p, n)
<1>1. /\ p \in Callers /\ call[p].tries < MaxTries
      /\ call[p].stage = "idle" => p = <<>> \/ handler[p].stage = "running"
      /\ CallChanged(p, "open", n, m, Ok) /\ HandlerChanged(h, "sent", handler[h].reply)
      /\ lost' = IF call[p].stage = "idle" THEN lost ELSE lost + 1
      /\ scenario' = scenario
  BY Zenon DEF Tried
<1>2. /\ call[p].tries \in Nat /\ n \in 1 .. MaxTries
      /\ h \in Handlers /\ handler[h].stage = "none" /\ h # p /\ h # <<>>
      /\ h \in Callers => call[h].stage = "idle"
      /\ \A q \in Callers, k \in 1 .. MaxTries :
           Append(q, k) \in Handlers /\ (Append(q, k) = h => q = p /\ k = n)
  <2>1. call[p].tries \in Nat /\ n \in 1 .. MaxTries
    BY Zenon, <1>1, NewHandler
  <2>2. h \in Handlers /\ handler[h].stage = "none" /\ h # p /\ h # <<>>
    BY Zenon, <1>1, NewHandler
  <2>3. h \in Callers => call[h].stage = "idle"
    BY Zenon, <1>1, NewHandler
  <2>4. \A q \in Callers, k \in 1 .. MaxTries :
          Append(q, k) \in Handlers /\ (Append(q, k) = h => q = p /\ k = n)
    BY Zenon, <1>1, NewHandler
  <2> QED
    BY Zenon, <2>1, <2>2, <2>3, <2>4
<1>3. Callers' = Callers /\ Handlers' = Handlers /\ Depth' = Depth /\ Depth \in Nat
  BY Zenon, <1>1, ScenarioFacts DEF Callers, Handlers, Depth
<1>4. /\ call'[p].stage = "open" /\ call'[p].tries = n
      /\ \A q \in Callers \ {p} : call'[q] = call[q]
      /\ handler'[h].stage = "sent"
      /\ \A q \in Handlers \ {h} : handler'[q] = handler[q]
  BY Zenon, <1>1 DEF CallChanged, HandlerChanged, CallTypeOK
<1> HIDE DEF n, h
<1>5. ASSUME NEW q \in Callers, NEW k \in 1 .. MaxTries
      PROVE  handler'[Append(q, k)].stage # "none" <=> k <= call'[q].tries
  <2>1. handler[Append(q, k)].stage # "none" <=> k <= call[q].tries
    BY Zenon DEF TreeInv
  <2>2. CASE Append(q, k) = h
    <3>1. n <= n /\ "sent" # "none"
      BY <1>2
    <3> QED
      BY Zenon, <1>2, <1>4, <2>2, <3>1
  <2>3. CASE Append(q, k) # h /\ q = p
    <3>1. k # n
      BY Zenon, <2>3 DEF h
    <3>2. k <= call[p].tries <=> k <= n
      BY <1>2, <3>1 DEF n
    <3> QED
      BY Zenon, <1>2, <1>4, <2>1, <2>3, <3>2
  <2>4. CASE Append(q, k) # h /\ q # p
    BY Zenon, <1>2, <1>4, <2>1, <2>4
  <2> QED
    BY Zenon, <2>2, <2>3, <2>4
<1>6. ASSUME NEW q \in Callers \ {<<>>}, call'[q].stage # "idle"
      PROVE  handler'[q].stage \in {"running", "replied"}
  <2>1. q \in Handlers
    BY Zenon, <1>3, Levels DEF Callers, Handlers
  <2>2. q # h
    <3>1. ASSUME q = h PROVE FALSE
      BY Zenon, <1>2, <1>4, <1>6, <3>1
    <3> QED
      BY Zenon, <3>1
  <2>3. CASE q = p /\ call[p].stage = "idle"
    BY Zenon, <1>1, <1>4, <2>1, <2>2, <2>3
  <2>4. CASE q # p \/ call[p].stage # "idle"
    <3>1. call[q].stage # "idle"
      BY Zenon, <1>4, <1>6, <2>4
    <3>2. handler[q].stage \in {"running", "replied"}
      BY Zenon, <3>1 DEF TreeInv
    <3> QED
      BY Zenon, <1>4, <2>1, <2>2, <3>2
  <2> QED
    BY Zenon, <2>3, <2>4
<1>7. Leaves' = (Leaves \ {p}) \cup {h}
  <2>1. ASSUME NEW q \in Paths(0 .. Depth)
        PROVE  q \in Leaves' <=> q \in (Leaves \ {p}) \cup {h}
    <3>1. q = <<>> \/ q \in Handlers
      BY Zenon, <1>3, Levels DEF Handlers
    <3>2. q \in Leaves' <=> (q = <<>> \/ handler'[q].stage # "none")
                            /\ (q \in Callers => call'[q].stage = "idle")
      BY Zenon, <1>3 DEF Leaves, Started
    <3>3. q \in Leaves <=> (q = <<>> \/ handler[q].stage # "none")
                           /\ (q \in Callers => call[q].stage = "idle")
      BY Zenon DEF Leaves, Started
    <3>4. CASE q = h
      <4>1. "sent" # "none"
        BY Zenon
      <4> QED
        BY Zenon, <1>2, <1>4, <3>2, <3>4, <4>1
    <3>5. CASE q = p
      <4>1. "open" # "idle"
        BY Zenon
      <4> QED
        BY Zenon, <1>1, <1>2, <1>4, <3>2, <3>5, <4>1
    <3>6. CASE q # h /\ q # p
      BY Zenon, <1>4, <3>1, <3>2, <3>3, <3>6
    <3> QED
      BY Zenon, <3>4, <3>5, <3>6
  <2>2. h \in Paths(0 .. Depth) /\ Leaves \subseteq Paths(0 .. Depth)
    BY Zenon, <1>2, <1>3, Levels DEF Handlers, Leaves
  <2>3. Leaves' \subseteq Paths(0 .. Depth)
    BY Zenon, <1>3 DEF Leaves
  <2> QED
    BY Zenon, <2>1, <2>2, <2>3
<1>8. h \notin Leaves
  BY Zenon, <1>2 DEF Leaves, Started
<1>9. p \in Leaves <=> call[p].stage = "idle"
  <2>1. p \in Paths(0 .. Depth)
    BY Zenon, <1>1, <1>3, Levels DEF Callers
  <2>2. "running" # "none"
    BY Zenon
  <2> QED
    BY Zenon, <1>1, <2>1, <2>2 DEF Leaves, Started
<1>10. IsFiniteSet(Leaves) /\ Cardinality(Leaves) = 1 + lost /\ lost \in Nat
  BY Zenon DEF TreeInv, CallTypeOK
<1>11. /\ IsFiniteSet(Leaves \ {p})
       /\ Cardinality(Leaves \ {p}) = IF p \in Leaves THEN Cardinality(Leaves) - 1 ELSE Cardinality(Leaves)
  BY Zenon, <1>10, FS_RemoveElement
<1>12. /\ IsFiniteSet((Leaves \ {p}) \cup {h})
       /\ Cardinality((Leaves \ {p}) \cup {h}) = Cardinality(Leaves \ {p}) + 1
  BY Zenon, <1>8, <1>11, FS_AddElement
<1>13. IsFiniteSet(Leaves') /\ Cardinality(Leaves') = Cardinality(Leaves \ {p}) + 1
  BY Zenon, <1>7, <1>12
<1>14. Cardinality(Leaves') = 1 + lost'
  BY <1>1, <1>9, <1>10, <1>11, <1>13
<1> QED
  BY Zenon, <1>3, <1>5, <1>6, <1>13, <1>14 DEF TreeInv

\* A handler that moves on leaves the tree as it is.
LEMMA MovedTree ==
    ASSUME CallTypeOK, TreeInv, NEW p, NEW s, NEW r, Moved(p, s, r)
    PROVE  CallTypeOK' /\ TreeInv'
<1>1. /\ p \in Handlers /\ handler[p].stage \in {"sent", "running"}
      /\ s \in {"dropped", "running", "replied"}
      /\ s = "dropped" => handler[p].stage = "sent"
      /\ scenario' = scenario /\ call' = call /\ lost' = lost /\ expired' = expired
  BY Zenon DEF Moved
<1>2. Callers' = Callers /\ Handlers' = Handlers /\ Depth' = Depth /\ Depth \in Nat
  BY Zenon, <1>1, ScenarioFacts DEF Callers, Handlers, Depth
<1>3. /\ DOMAIN handler = Handlers /\ DOMAIN handler' = DOMAIN handler
      /\ DOMAIN handler'[p] = {"stage", "reply"} /\ handler'[p].stage = s
      /\ \A q \in Handlers \ {p} : handler'[q] = handler[q]
  BY Zenon DEF Moved, HandlerChanged, CallTypeOK
<1>4. /\ s # "none" /\ handler[p].stage # "none"
      /\ s \in {"none", "sent", "dropped", "running", "replied"}
      /\ handler[p].stage \in {"running", "replied"} => s \in {"running", "replied"}
  BY Zenon, <1>1
<1>5. CallTypeOK'
  <2>1. ASSUME NEW q \in Handlers
        PROVE  /\ DOMAIN handler'[q] = {"stage", "reply"}
               /\ handler'[q].stage \in {"none", "sent", "dropped", "running", "replied"}
    <3>1. CASE q = p
      BY Zenon, <1>3, <1>4, <3>1
    <3>2. CASE q # p
      BY Zenon, <1>3, <3>2 DEF CallTypeOK
    <3> QED
      BY Zenon, <3>1, <3>2
  <2> QED
    BY Zenon, <1>1, <1>2, <1>3, <2>1 DEF CallTypeOK
<1>6. \A q \in Handlers : handler'[q].stage # "none" <=> handler[q].stage # "none"
  BY Zenon, <1>3, <1>4
<1>7. ASSUME NEW q \in Callers, NEW k \in 1 .. MaxTries
      PROVE  handler'[Append(q, k)].stage # "none" <=> k <= call[q].tries
  <2>1. Append(q, k) \in Handlers
    BY Zenon, <1>2, Down DEF Callers, Handlers
  <2> QED
    BY Zenon, <1>6, <2>1 DEF TreeInv
<1>8. ASSUME NEW q \in Callers \ {<<>>}, call[q].stage # "idle"
      PROVE  handler'[q].stage \in {"running", "replied"}
  <2>1. q \in Handlers
    BY Zenon, <1>2, Levels DEF Callers, Handlers
  <2>2. handler[q].stage \in {"running", "replied"}
    BY Zenon, <1>8 DEF TreeInv
  <2> QED
    BY Zenon, <1>3, <1>4, <2>1, <2>2
<1>9. Leaves' = Leaves
  <2>1. ASSUME NEW q \in Paths(0 .. Depth) PROVE q \in Leaves' <=> q \in Leaves
    <3>1. q = <<>> \/ q \in Handlers
      BY Zenon, <1>2, Levels DEF Handlers
    <3>2. (q = <<>> \/ handler'[q].stage # "none") <=> (q = <<>> \/ handler[q].stage # "none")
      BY Zenon, <1>6, <3>1
    <3> QED
      BY Zenon, <1>1, <1>2, <3>2 DEF Leaves, Started
  <2>2. Leaves \subseteq Paths(0 .. Depth) /\ Leaves' \subseteq Paths(0 .. Depth)
    BY Zenon, <1>2 DEF Leaves
  <2> QED
    BY Zenon, <2>1, <2>2
<1>10. TreeInv'
  BY Zenon, <1>1, <1>2, <1>7, <1>8, <1>9 DEF TreeInv
<1> QED
  BY Zenon, <1>5, <1>10

\* So does a call that ends.
LEMMA FinishedTree ==
    ASSUME CallTypeOK, TreeInv, NEW p, NEW r, Finished(p, r)
    PROVE  CallTypeOK' /\ TreeInv'
<1>1. /\ p \in Callers /\ call[p].stage = "open"
      /\ scenario' = scenario /\ handler' = handler /\ lost' = lost /\ expired' \in BOOLEAN
  BY Zenon DEF Finished
<1>2. Callers' = Callers /\ Handlers' = Handlers /\ Depth' = Depth
  BY Zenon, <1>1 DEF Callers, Handlers, Depth
<1>3. /\ DOMAIN call = Callers /\ DOMAIN call' = DOMAIN call
      /\ DOMAIN call'[p] = CallFields /\ call'[p].stage = "done"
      /\ call'[p].tries = call[p].tries
      /\ \A q \in Callers \ {p} : call'[q] = call[q]
  BY Zenon DEF Finished, CallChanged, CallTypeOK
<1>4. \A q \in Callers : /\ call'[q].tries = call[q].tries
                         /\ call'[q].stage = "idle" <=> call[q].stage = "idle"
  <2>1. "done" # "idle" /\ "open" # "idle"
    BY Zenon
  <2> QED
    BY Zenon, <1>1, <1>3, <2>1
<1>5. CallTypeOK'
  <2>1. ASSUME NEW q \in Callers
        PROVE  /\ DOMAIN call'[q] = CallFields
               /\ call'[q].stage \in {"idle", "open", "done"} /\ call'[q].tries \in 0 .. MaxTries
               /\ call'[q].stage = "idle" <=> call'[q].tries = 0
    <3>1. DOMAIN call'[q] = CallFields /\ call'[q].stage \in {"idle", "open", "done"}
      BY Zenon, <1>3 DEF CallTypeOK
    <3> QED
      BY Zenon, <1>4, <3>1 DEF CallTypeOK
  <2> QED
    BY Zenon, <1>1, <1>2, <1>3, <2>1 DEF CallTypeOK
<1>6. Leaves' = Leaves
  BY Zenon, <1>1, <1>2, <1>4 DEF Leaves, Started
<1>7. TreeInv'
  BY Zenon, <1>1, <1>2, <1>4, <1>6 DEF TreeInv
<1> QED
  BY Zenon, <1>5, <1>7

-----------------------------------------------------------------------------
(***************************************************************************)
(* Rows, requests and results.                                             *)
(***************************************************************************)
\* Every row was written by a last handler that has replied, and only if the
\* last server writes and does not fail.
RowsInv ==
    /\ rows \subseteq {RowKey(LastMethod, p) : p \in Ends}
    /\ rows # {} => scenario.inner.ok /\ LastMethod \notin Reads

\* The operators below take the scenario s as a parameter.
Needs(s, k) == Server[s.chain[k][1]][s.chain[k][2]].needs

\* The registration that the RA tells the SA to store.
Updated(s) ==
    Encode(WithContact(Plain(Sends(s.chain[2])),
      MergedContact(pbToRegistration(Encode(WithContact(Plain(registrationToPB), s.base))),
                    pbToRegistration(Encode(s.request)))))

\* What the k-th request may be: complete, and if it is an update of a
\* registration, the one that was asked for.
RequestOK(s, k, m) ==
    /\ Missing(m, Needs(s, k)) = {}
    /\ k = 1 => m = Encode(s.request)
    /\ (k = 2 /\ s.chain[1] = <<"RA", "UpdateRegistration">>) => m = Updated(s)

RequestsInv ==
    \A p \in Callers : call[p].stage # "idle" => RequestOK(scenario, Len(p) + 1, call[p].request)

CallAnswer(r) == r = Ok \/ (r = Failed(r.error) /\ Circulating(r.error))

\* The error of the last server, as the k-th handler returns it.
Expected(s, k) ==
    IF \A j \in k .. Len(s.chain) - 1 : s.chain[j][2] \in Passing THEN s.inner.error
    ELSE Error("boulder", "InternalServer", None)

\* The one reply that its client does not accept.
Withheld(s) ==
    s.chain[Len(s.chain)][2] = "GetCertificateStatus" /\ s.reply["OcspResponse"] = "nil"

\* Without a disturbance, the reply r of the k-th handler, and the result r of
\* the k-th call, tell what the last server did.
FaithfulReply(s, k, r) ==
    IF s.inner.ok THEN r.ok <=> (k = Len(s.chain) \/ ~ Withheld(s))
    ELSE ~ r.ok /\ Alike(r.error, Expected(s, k))

FaithfulResult(s, k, r) ==
    IF s.inner.ok THEN r.ok <=> ~ Withheld(s)
    ELSE ~ r.ok /\ Alike(r.error, Expected(s, k))

ResultsInv ==
    /\ \A p \in Handlers : handler[p].stage = "replied" =>
         /\ CallAnswer(handler[p].reply)
         /\ Undisturbed => FaithfulReply(scenario, Len(p), handler[p].reply)
    /\ \A p \in Callers : call[p].stage = "done" =>
         /\ CallAnswer(call[p].result)
         /\ Undisturbed => FaithfulResult(scenario, Len(p) + 1, call[p].result)

\* The inductive invariant.
CallInv == CallTypeOK /\ TreeInv /\ RowsInv /\ RequestsInv /\ ResultsInv

\* A try keeps the invariant if its request is right.
LEMMA TriedInv ==
    ASSUME CallInv, NEW p, NEW m, Tried(p, m), RequestOK(scenario, Len(p) + 1, m)
    PROVE  CallInv'
<1> DEFINE n == call[p].tries + 1
           h == Append(p, n)
<1>1. /\ CallTypeOK /\ TreeInv /\ RowsInv /\ RequestsInv /\ ResultsInv
      /\ p \in Callers /\ call[p].tries < MaxTries
      /\ CallChanged(p, "open", n, m, Ok) /\ HandlerChanged(h, "sent", handler[h].reply)
      /\ lost' = IF call[p].stage = "idle" THEN lost ELSE lost + 1
      /\ scenario' = scenario /\ rows' = rows /\ expired' = expired
  BY Zenon DEF CallInv, Tried
<1>2. h \in Handlers /\ handler[h].stage = "none"
  BY Zenon, <1>1, NewHandler
<1>3. /\ call'[p].stage = "open" /\ call'[p].request = m
      /\ \A q \in Callers \ {p} : call'[q] = call[q]
      /\ handler'[h].stage = "sent"
      /\ \A q \in Handlers \ {h} : handler'[q] = handler[q]
  BY Zenon, <1>1 DEF CallChanged, HandlerChanged, CallTypeOK
<1> HIDE DEF n, h
<1>4. /\ Callers' = Callers /\ Handlers' = Handlers /\ Depth' = Depth
      /\ LastMethod' = LastMethod
  BY Zenon, <1>1 DEF Callers, Handlers, Depth, LastMethod
<1>5. CallTypeOK' /\ TreeInv'
  BY Zenon, <1>1, TriedType, TriedTree
<1>6. RowsInv'
  <2>1. Ends' = Ends
    <3>1. "sent" # "replied" /\ "none" # "replied"
      BY Zenon
    <3> QED
      BY Zenon, <1>2, <1>3, <1>4, <3>1 DEF Ends
  <2> QED
    BY Zenon, <1>1, <1>4, <2>1 DEF RowsInv
<1>7. RequestsInv'
  BY Zenon, <1>1, <1>3, <1>4 DEF RequestsInv
<1>8. Undisturbed' => Undisturbed
  <2>1. lost' = 0 => lost = 0
    BY <1>1 DEF CallTypeOK
  <2> QED
    BY Zenon, <1>1, <2>1 DEF Undisturbed
<1>10. "open" # "done" /\ "sent" # "replied"
  BY Zenon
<1>11. \A q \in Handlers : handler'[q].stage = "replied" => handler'[q] = handler[q]
  BY Zenon, <1>3, <1>10
<1>12. \A q \in Callers : call'[q].stage = "done" => call'[q] = call[q]
  BY Zenon, <1>3, <1>10
<1>13. ResultsInv'
  BY Zenon, <1>1, <1>4, <1>8, <1>11, <1>12 DEF ResultsInv
<1> QED
  BY Zenon, <1>5, <1>6, <1>7, <1>13 DEF CallInv

\* A handler that moves on keeps it if what it replies, and the row it writes,
\* are right.
LEMMA MovedInv ==
    ASSUME CallInv, NEW p, NEW s, NEW r, Moved(p, s, r),
           s = "replied" => CallAnswer(r) /\ (Undisturbed => FaithfulReply(scenario, Len(p), r)),
           \/ rows' = rows
           \/ /\ s = "replied" /\ Len(p) = Depth /\ rows' = rows \cup {RowKey(LastMethod, p)}
              /\ scenario.inner.ok /\ LastMethod \notin Reads
    PROVE  CallInv'
<1>1. /\ CallTypeOK /\ TreeInv /\ RowsInv /\ RequestsInv /\ ResultsInv
      /\ p \in Handlers /\ handler[p].stage \in {"sent", "running"}
      /\ scenario' = scenario /\ call' = call /\ lost' = lost /\ expired' = expired
  BY Zenon DEF CallInv, Moved
<1>2. /\ handler'[p].stage = s /\ handler'[p].reply = r
      /\ \A q \in Handlers \ {p} : handler'[q] = handler[q]
  BY Zenon DEF Moved, HandlerChanged, CallTypeOK, CallInv
<1>3. /\ Callers' = Callers /\ Handlers' = Handlers /\ Depth' = Depth
      /\ LastMethod' = LastMethod /\ Undisturbed' = Undisturbed
  BY Zenon, <1>1 DEF Callers, Handlers, Depth, LastMethod, Undisturbed
<1>4. CallTypeOK' /\ TreeInv'
  BY Zenon, <1>1, MovedTree
<1>5. RowsInv'
  <2>1. handler[p].stage # "replied"
    BY Zenon, <1>1
  <2>2. Ends \subseteq Ends'
    BY Zenon, <1>2, <1>3, <2>1 DEF Ends
  <2>3. CASE rows' = rows
    BY Zenon, <1>1, <1>3, <2>2, <2>3 DEF RowsInv
  <2>4. CASE /\ s = "replied" /\ Len(p) = Depth /\ rows' = rows \cup {RowKey(LastMethod, p)}
             /\ scenario.inner.ok /\ LastMethod \notin Reads
    <3>1. p \in Ends'
      BY Zenon, <1>1, <1>2, <1>3, <2>4 DEF Ends
    <3> QED
      BY Zenon, <1>1, <1>3, <2>2, <2>4, <3>1 DEF RowsInv
  <2> QED
    BY Zenon, <2>3, <2>4
<1>6. RequestsInv'
  BY Zenon, <1>1, <1>3 DEF RequestsInv
<1>7. ResultsInv'
  BY Zenon, <1>1, <1>2, <1>3 DEF ResultsInv
<1> QED
  BY Zenon, <1>4, <1>5, <1>6, <1>7 DEF CallInv

\* A call that ends keeps it if its result is right.
LEMMA FinishedInv ==
    ASSUME CallInv, NEW p, NEW r, Finished(p, r), CallAnswer(r),
           Undisturbed' => FaithfulResult(scenario, Len(p) + 1, r)
    PROVE  CallInv'
<1>1. /\ CallTypeOK /\ TreeInv /\ RowsInv /\ RequestsInv /\ ResultsInv
      /\ p \in Callers /\ call[p].stage = "open"
      /\ scenario' = scenario /\ handler' = handler /\ rows' = rows /\ lost' = lost
      /\ expired => expired'
  BY Zenon DEF CallInv, Finished
<1>2. /\ call'[p].stage = "done" /\ call'[p].request = call[p].request /\ call'[p].result = r
      /\ \A q \in Callers \ {p} : call'[q] = call[q]
  BY Zenon DEF Finished, CallChanged, CallTypeOK, CallInv
<1>3. /\ Callers' = Callers /\ Handlers' = Handlers /\ Depth' = Depth
      /\ LastMethod' = LastMethod /\ Ends' = Ends
  BY Zenon, <1>1 DEF Callers, Handlers, Depth, LastMethod, Ends
<1>4. CallTypeOK' /\ TreeInv'
  BY Zenon, <1>1, FinishedTree
<1>5. RowsInv'
  BY Zenon, <1>1, <1>3 DEF RowsInv
<1>6. RequestsInv'
  <2>1. "open" # "idle"
    BY Zenon
  <2> QED
    BY Zenon, <1>1, <1>2, <1>3, <2>1 DEF RequestsInv
<1>7. Undisturbed' => Undisturbed
  BY Zenon, <1>1 DEF Undisturbed
<1>8. ResultsInv'
  BY Zenon, <1>1, <1>2, <1>3, <1>7 DEF ResultsInv
<1> QED
  BY Zenon, <1>4, <1>5, <1>6, <1>8 DEF CallInv

-----------------------------------------------------------------------------
(***************************************************************************)
(* The actions.                                                            *)
(***************************************************************************)
\* A handler that has started was called.
LEMMA Called ==
    ASSUME CallInv, NEW p \in Handlers, handler[p].stage # "none"
    PROVE  /\ Caller(p) \in Callers /\ call[Caller(p)].stage # "idle" /\ Len(p) \in 1 .. Depth
           /\ RequestOK(scenario, Len(p), Received(p))
<1>1. CallTypeOK /\ TreeInv /\ RequestsInv /\ Depth \in Nat /\ MaxTries \in Nat
  BY Zenon, CallsAssumption, ScenarioFacts DEF CallInv
<1>2. /\ Caller(p) \in Callers /\ Attempt(p) \in 1 .. MaxTries /\ p = Append(Caller(p), Attempt(p))
      /\ Len(Caller(p)) = Len(p) - 1 /\ Len(p) \in 1 .. Depth
  BY Zenon, <1>1, Up DEF Callers, Handlers
<1>3. Attempt(p) <= call[Caller(p)].tries
  BY Zenon, <1>1, <1>2 DEF TreeInv
<1>4. call[Caller(p)].tries # 0
  BY <1>2, <1>3
<1>5. call[Caller(p)].stage # "idle"
  BY Zenon, <1>1, <1>2, <1>4 DEF CallTypeOK
<1>6. Len(Caller(p)) + 1 = Len(p)
  BY <1>1, <1>2
<1> QED
  BY Zenon, <1>1, <1>2, <1>5, <1>6 DEF RequestsInv, Received

\* What a handler sends on is complete, and it is the update it was asked for.
LEMMA NextRequestOK ==
    ASSUME CallInv, NEW p \in Handlers, handler[p].stage # "none", Len(p) < Depth
    PROVE  RequestOK(scenario, Len(p) + 1, Encode(NextRequest(Len(p), Received(p))))
<1> DEFINE k == Len(p)
           m == NextRequest(k, Received(p))
           fields == Fields(k + 1)
<1>1. CallTypeOK /\ Depth \in Nat /\ k \in 1 .. Depth /\ RequestOK(scenario, k, Received(p))
  BY Zenon, Called, ScenarioFacts DEF CallInv
<1>2. k + 1 \in 1 .. Depth /\ k + 1 # 1 /\ (k + 1 = 2 => k = 1)
  <2>1. \A d \in Nat : \A j \in 1 .. d :
          j < d => j + 1 \in 1 .. d /\ j + 1 # 1 /\ (j + 1 = 2 => j = 1)
    OBVIOUS
  <2> QED
    BY Zenon, <1>1, <2>1
<1>3. scenario.chain[k + 1] \in Methods /\ scenario.base \in Content
  BY Zenon, <1>1, <1>2, ScenarioFacts
<1> DEFINE base == pbToRegistration(Encode(WithContact(Plain(registrationToPB), scenario.base)))
           c == MergedContact(base, pbToRegistration(Received(p)))
<1>4. c \in Content
  BY Zenon DEF MergedContact, pbToRegistration, Content
<1>5. m = Plain(fields) \/ m = WithContact(Plain(fields), c)
  BY Zenon DEF NextRequest
<1>6. Whole(Encode(m), fields)
  BY Zenon, <1>4, <1>5, PlainWhole
<1>7. Missing(Encode(m), Needs(scenario, k + 1)) = {}
  BY Zenon, <1>3, <1>6, RequestUnderstood DEF Needs, Fields
<1>8. ASSUME k + 1 = 2, scenario.chain[1] = <<"RA", "UpdateRegistration">>
      PROVE  Encode(m) = Updated(scenario)
  <2>1. k = 1 /\ Received(p) = Encode(scenario.request)
    BY Zenon, <1>1, <1>2, <1>8 DEF RequestOK
  <2>2. scenario.chain[k][2] = "UpdateRegistration"
    BY <1>8, <2>1
  <2>3. m = WithContact(Plain(fields), c)
    BY Zenon, <2>2 DEF NextRequest
  <2>4. fields = Sends(scenario.chain[2])
    BY Zenon, <1>8 DEF Fields
  <2> QED
    BY Zenon, <2>1, <2>3, <2>4 DEF Updated
<1> QED
  BY Zenon, <1>2, <1>7, <1>8 DEF RequestOK

\* The first try of a call keeps the invariant.
LEMMA InvokeInv ==
    ASSUME CallInv, NEW p \in DOMAIN call, Invoke(p)
    PROVE  CallInv'
<1>1. /\ CallTypeOK /\ TreeInv /\ p \in Callers /\ call[p].stage = "idle"
      /\ Depth \in Nat /\ MaxTries \in Nat \ {0}
      /\ scenario' = scenario /\ rows' = rows /\ lost' = lost /\ expired' = expired
  BY Zenon, CallsAssumption, ScenarioFacts DEF CallInv, CallTypeOK, Invoke
<1>2. call[p].tries = 0
  BY Zenon, <1>1 DEF CallTypeOK
<1>3. call[p].tries < MaxTries /\ call[p].tries + 1 = 1 /\ 1 \in 1 .. MaxTries
  BY <1>1, <1>2
<1>4. ASSUME NEW m, Try(p, 1, m), p = <<>> \/ handler[p].stage = "running",
             RequestOK(scenario, Len(p) + 1, m)
      PROVE  CallInv'
  <2>1. /\ CallChanged(p, "open", 1, m, Ok)
        /\ HandlerChanged(Append(p, 1), "sent", handler[Append(p, 1)].reply)
    BY Zenon, <1>1, <1>3, <1>4, Tries
  <2>2. Tried(p, m)
    BY Zenon, <1>1, <1>3, <1>4, <2>1 DEF Tried
  <2> QED
    BY Zenon, <1>4, <2>2, TriedInv
<1>5. CASE p = <<>>
  <2>1. Try(p, 1, Encode(scenario.request)) /\ Len(p) + 1 = 1
    BY <1>5 DEF Invoke
  <2>2. /\ Whole(Encode(scenario.request), Sends(scenario.chain[1]))
        /\ scenario.chain[1] \in Methods
    BY Zenon, <1>1, ScenarioFacts, ComposedWhole
  <2>3. Missing(Encode(scenario.request), Needs(scenario, 1)) = {}
    BY Zenon, <2>2, RequestUnderstood DEF Needs
  <2>4. 1 # 2
    OBVIOUS
  <2>5. RequestOK(scenario, Len(p) + 1, Encode(scenario.request))
    BY Zenon, <2>1, <2>3, <2>4 DEF RequestOK
  <2> QED
    BY Zenon, <1>4, <1>5, <2>1, <2>5
<1>6. CASE p # <<>>
  <2>1. handler[p].stage = "running" /\ Try(p, 1, Encode(NextRequest(Len(p), Received(p))))
    BY Zenon, <1>6 DEF Invoke
  <2>2. p \in Handlers /\ Len(p) \in 0 .. Depth - 1
    BY Zenon, <1>1, <1>6, Levels DEF Callers, Handlers
  <2>3. Len(p) < Depth /\ "running" # "none"
    BY <1>1, <2>2
  <2>4. RequestOK(scenario, Len(p) + 1, Encode(NextRequest(Len(p), Received(p))))
    BY Zenon, <2>1, <2>2, <2>3, NextRequestOK
  <2> QED
    BY Zenon, <1>4, <2>1, <2>4
<1> QED
  BY Zenon, <1>5, <1>6

\* A further try, after a lost connection, keeps it.
LEMMA invokeInv ==
    ASSUME CallInv, NEW p \in DOMAIN call, invoke(p)
    PROVE  CallInv'
<1>1. /\ CallTypeOK /\ TreeInv /\ RequestsInv /\ p \in Callers /\ call[p].stage = "open"
      /\ call[p].tries < MaxTries /\ call[p].tries \in 0 .. MaxTries /\ MaxTries \in Nat
      /\ Try(p, call[p].tries + 1, call[p].request)
      /\ scenario' = scenario /\ rows' = rows /\ lost' = lost + 1 /\ expired' = expired
  BY Zenon, CallsAssumption DEF CallInv, CallTypeOK, invoke
<1>2. call[p].tries + 1 \in 1 .. MaxTries /\ "open" # "idle"
  BY <1>1
<1>3. /\ CallChanged(p, "open", call[p].tries + 1, call[p].request, Ok)
      /\ HandlerChanged(Append(p, call[p].tries + 1), "sent", handler[Append(p, call[p].tries + 1)].reply)
  BY Zenon, <1>1, <1>2, Tries
<1>4. Tried(p, call[p].request)
  BY Zenon, <1>1, <1>2, <1>3 DEF Tried
<1>5. RequestOK(scenario, Len(p) + 1, call[p].request)
  BY Zenon, <1>1, <1>2 DEF RequestsInv
<1> QED
  BY Zenon, <1>4, <1>5, TriedInv

\* A request that is lost keeps it.
LEMMA DropInv ==
    ASSUME CallInv, NEW p \in DOMAIN handler, Drop(p)
    PROVE  CallInv'
<1>1. /\ CallTypeOK /\ p \in Handlers /\ handler[p].stage = "sent"
      /\ handler' = [handler EXCEPT ![p].stage = "dropped"]
      /\ scenario' = scenario /\ call' = call /\ rows' = rows /\ lost' = lost /\ expired' = expired
  BY Zenon DEF CallInv, CallTypeOK, Drop
<1>2. HandlerChanged(p, "dropped", handler[p].reply)
  BY Zenon, <1>1, Moves
<1>3. Moved(p, "dropped", handler[p].reply) /\ "dropped" # "replied"
  BY Zenon, <1>1, <1>2 DEF Moved
<1> QED
  BY Zenon, <1>1, <1>3, MovedInv

\* What results look like.
LEMMA ResultFields ==
    /\ Ok.ok /\ Ok.error = Error("none", "none", None)
    /\ \A e : ~ Failed(e).ok /\ Failed(e).error = e
<1>1. Ok.ok = TRUE /\ Ok.error = Error("none", "none", None)
  BY Zenon DEF Ok
<1>2. ASSUME NEW e PROVE Failed(e).ok = FALSE /\ Failed(e).error = e
  BY Zenon DEF Failed
<1> QED
  BY Zenon, <1>1, <1>2

\* Without a disturbance one handler reaches the last server, and finds no row
\* of another.
LEMMA Alone ==
    ASSUME CallInv, Undisturbed, NEW p \in Handlers, handler[p].stage = "sent", Len(p) = Depth
    PROVE  rows = {}
<1>1. CallTypeOK /\ TreeInv /\ RowsInv /\ Depth \in Nat
  BY Zenon, ScenarioFacts DEF CallInv
<1>2. \A q \in Handlers : Len(q) = Depth => q \notin Callers /\ q \in Paths(0 .. Depth)
  <2>1. ASSUME NEW q \in Handlers, Len(q) = Depth PROVE q \notin Callers /\ q \in Paths(0 .. Depth)
    <3>1. /\ q \in Callers => Len(q) \in 0 .. Depth - 1
          /\ q \in Paths(0 .. Depth)
      BY Zenon, <1>1, Levels DEF Callers, Handlers
    <3>2. Depth \notin 0 .. Depth - 1
      BY <1>1
    <3> QED
      BY Zenon, <2>1, <3>1, <3>2
  <2> QED
    BY Zenon, <2>1
<1>3. "sent" # "none" /\ "replied" # "none" /\ "sent" # "replied"
  BY Zenon
<1>4. p \in Leaves /\ Ends \subseteq Leaves
  BY Zenon, <1>2, <1>3 DEF Leaves, Started, Ends
<1>5. 1 + lost = 1
  BY DEF Undisturbed
<1>6. IsFiniteSet(Leaves) /\ Cardinality(Leaves) = 1
  BY Zenon, <1>1, <1>5 DEF TreeInv
<1>7. PICK x : Leaves = {x}
  BY Zenon, <1>6, FS_Singleton
<1>8. Ends = {}
  BY Zenon, <1>3, <1>4, <1>7 DEF Ends
<1> QED
  BY Zenon, <1>1, <1>8 DEF RowsInv

\* A handler that starts, or does the last server's work, keeps it.
LEMMA ServeInv ==
    ASSUME CallInv, NEW p \in DOMAIN handler, Serve(p)
    PROVE  CallInv'
<1> DEFINE method == scenario.chain[Len(p)][2]
           key == RowKey(method, p)
           complete == Missing(Received(p), Needs(scenario, Len(p))) = {}
<1>1. /\ CallTypeOK /\ p \in Handlers /\ handler[p].stage = "sent"
      /\ \/ ~ complete
         \/ Len(p) < Depth /\ handler' = [handler EXCEPT ![p].stage = "running"] /\ rows' = rows
         \/ Len(p) = Depth /\ Reply(p, Result(method, key)) /\ rows' = Written(method, key)
      /\ scenario' = scenario /\ call' = call /\ lost' = lost /\ expired' = expired
  BY Zenon DEF CallInv, CallTypeOK, Serve, Needs
<1>2. complete
  <2>1. "sent" # "none"
    BY Zenon
  <2> QED
    BY Zenon, <1>1, <2>1, Called DEF RequestOK
<1>3. CASE Len(p) < Depth /\ handler' = [handler EXCEPT ![p].stage = "running"] /\ rows' = rows
  <2>1. HandlerChanged(p, "running", handler[p].reply)
    BY Zenon, <1>1, <1>3, Moves
  <2>2. "running" # "replied" /\ "running" # "dropped"
    BY Zenon
  <2>3. Moved(p, "running", handler[p].reply)
    BY Zenon, <1>1, <2>1, <2>2 DEF Moved
  <2> QED
    BY Zenon, <1>3, <2>2, <2>3, MovedInv
<1>4. CASE Len(p) = Depth /\ Reply(p, Result(method, key)) /\ rows' = Written(method, key)
  <2> DEFINE r == Result(method, key)
  <2>1. method = LastMethod
    BY Zenon, <1>4 DEF LastMethod
  <2>2. HandlerChanged(p, "replied", r)
    BY Zenon, <1>1, <1>4, Replies
  <2>3. "replied" # "dropped"
    BY Zenon
  <2>4. Moved(p, "replied", r)
    BY Zenon, <1>1, <2>2, <2>3 DEF Moved
  <2>5. scenario.inner = Ok
        \/ (scenario.inner = Failed(scenario.inner.error) /\ Returnable(scenario.inner.error))
    BY Zenon, <1>1, ScenarioFacts
  <2>6. CASE scenario.inner.ok
    <3>1. r = Ok \/ r = Failed(Error("plain", "Duplicate", None))
      BY Zenon, <2>6 DEF Result
    <3>2. CallAnswer(r)
      BY Zenon, <3>1, ResultFields DEF CallAnswer, Circulating
    <3>3. ASSUME Undisturbed PROVE r.ok
      <4>1. rows = {}
        BY Zenon, <1>1, <1>4, <3>3, Alone
      <4> QED
        BY Zenon, <2>6, <4>1, ResultFields DEF Result
    <3>4. Undisturbed => FaithfulReply(scenario, Len(p), r)
      BY Zenon, <1>4, <2>6, <3>3 DEF FaithfulReply, Depth
    <3>5. \/ rows' = rows
          \/ rows' = rows \cup {RowKey(LastMethod, p)} /\ LastMethod \notin Reads
      BY Zenon, <1>4, <2>1 DEF Written
    <3> QED
      BY Zenon, <1>4, <2>4, <2>6, <3>2, <3>4, <3>5, MovedInv
  <2>7. CASE ~ scenario.inner.ok
    <3>1. r = scenario.inner /\ ~ r.ok
      BY Zenon, <2>7 DEF Result
    <3>2. scenario.inner = Failed(scenario.inner.error) /\ Returnable(scenario.inner.error)
      BY Zenon, <2>5, <2>7, ResultFields
    <3>3. CallAnswer(r)
      BY Zenon, <3>1, <3>2 DEF CallAnswer, Circulating
    <3>4. Expected(scenario, Len(p)) = scenario.inner.error
      <4>1. Depth \in Nat
        BY Zenon, <1>1, ScenarioFacts
      <4>2. Depth .. Depth - 1 = {}
        BY <4>1
      <4> QED
        BY Zenon, <1>4, <4>2 DEF Expected, Depth
    <3>5. FaithfulReply(scenario, Len(p), r)
      BY Zenon, <2>7, <3>1, <3>4 DEF FaithfulReply, Alike
    <3>6. rows' = rows
      BY Zenon, <1>4, <3>1 DEF Written
    <3> QED
      BY Zenon, <2>4, <3>3, <3>5, <3>6, MovedInv
  <2> QED
    BY Zenon, <2>6, <2>7
<1> QED
  BY Zenon, <1>1, <1>2, <1>3, <1>4

\* The error a handler returns stands for the one it got.
LEMMA RewordedError ==
    ASSUME NEW method, NEW e, Circulating(e)
    PROVE  Circulating(Reworded(method, e))
<1>1. 1 \in DOMAIN BoulderErrorTypes /\ BoulderErrorTypes[1] = "InternalServer"
  BY DEF BoulderErrorTypes
<1>2. Returnable(Error("boulder", "InternalServer", None))
  BY Zenon, <1>1 DEF Returnable
<1> QED
  BY Zenon, <1>2 DEF Reworded, Circulating

\* The error expected of a handler is the one its call should give, reworded.
LEMMA ExpectedError ==
    ASSUME NEW s, NEW D \in Nat, D = Len(s.chain), NEW k \in 1 .. D, k < D, NEW e,
           Alike(e, Expected(s, k + 1))
    PROVE  Alike(Reworded(s.chain[k][2], e), Expected(s, k))
<1>1. k \in k .. D - 1 /\ \A j \in k .. D - 1 : j = k \/ j \in k + 1 .. D - 1
  OBVIOUS
<1>2. \A j \in k + 1 .. D - 1 : j \in k .. D - 1
  OBVIOUS
<1>3. CASE s.chain[k][2] \in Passing
  <2>1. Expected(s, k) = Expected(s, k + 1)
    BY Zenon, <1>1, <1>2, <1>3 DEF Expected
  <2> QED
    BY Zenon, <1>3, <2>1 DEF Reworded
<1>4. CASE s.chain[k][2] \notin Passing
  <2>1. Expected(s, k) = Error("boulder", "InternalServer", None)
    BY Zenon, <1>1, <1>4 DEF Expected
  <2> QED
    BY Zenon, <1>4, <2>1 DEF Reworded, Alike
<1> QED
  BY Zenon, <1>3, <1>4

\* A handler whose own call has ended keeps the invariant.
LEMMA ReturnInv ==
    ASSUME CallInv, NEW p \in DOMAIN handler, p \in DOMAIN call, Return(p)
    PROVE  CallInv'
<1> DEFINE a == call[p].result
           k == Len(p)
           r == IF a.ok THEN Ok ELSE Failed(Reworded(scenario.chain[k][2], a.error))
<1>1. /\ CallTypeOK /\ ResultsInv /\ p \in Handlers /\ p \in Callers /\ Depth \in Nat
      /\ handler[p].stage = "running" /\ call[p].stage = "done" /\ Reply(p, r)
      /\ scenario' = scenario /\ call' = call /\ rows' = rows /\ lost' = lost /\ expired' = expired
  BY Zenon, ScenarioFacts DEF CallInv, CallTypeOK, Return
<1>2. HandlerChanged(p, "replied", r)
  BY Zenon, <1>1, Replies
<1>3. "replied" # "dropped"
  BY Zenon
<1>4. Moved(p, "replied", r)
  BY Zenon, <1>1, <1>2, <1>3 DEF Moved
<1>5. CallAnswer(a) /\ (Undisturbed => FaithfulResult(scenario, k + 1, a))
  BY Zenon, <1>1 DEF ResultsInv
<1>6. ~ a.ok => Circulating(a.error) /\ Circulating(Reworded(scenario.chain[k][2], a.error))
  BY Zenon, <1>5, ResultFields, RewordedError DEF CallAnswer
<1>7. CallAnswer(r)
  BY Zenon, <1>6, ResultFields DEF CallAnswer
<1>8. k \in 1 .. Depth /\ k \in 0 .. Depth - 1
  BY Zenon, <1>1, Levels DEF Callers, Handlers
<1>9. k < Depth /\ k # Depth
  BY <1>1, <1>8
<1>10. r.ok <=> a.ok
  BY Zenon, ResultFields
<1>11. ASSUME Undisturbed PROVE FaithfulReply(scenario, k, r)
  <2>1. CASE scenario.inner.ok
    BY Zenon, <1>5, <1>9, <1>10, <1>11, <2>1 DEF FaithfulReply, FaithfulResult, Depth
  <2>2. CASE ~ scenario.inner.ok
    <3>1. ~ a.ok /\ Alike(a.error, Expected(scenario, k + 1))
      BY Zenon, <1>5, <1>11, <2>2 DEF FaithfulResult
    <3>2. Alike(Reworded(scenario.chain[k][2], a.error), Expected(scenario, k))
      BY Zenon, <1>1, <1>8, <1>9, <3>1, ExpectedError DEF Depth
    <3>3. r.error = Reworded(scenario.chain[k][2], a.error)
      BY Zenon, <3>1, ResultFields
    <3> QED
      BY Zenon, <1>10, <2>2, <3>1, <3>2, <3>3 DEF FaithfulReply
  <2> QED
    BY Zenon, <2>1, <2>2
<1> QED
  BY Zenon, <1>1, <1>4, <1>7, <1>11, MovedInv

\* Whatever method it answers, a plain reply is understood.
LEMMA PlainUnderstood ==
    ASSUME NEW c \in Methods
    PROVE  Missing(Encode(Plain(Answers(c))), Client[c[1]][c[2]].needs) = {}
<1>1. CASE c[2] # "GetCertificateStatus"
  <2>1. "full" \in Content
    BY Zenon DEF Content
  <2>2. Whole(Encode(Plain(Answers(c))), Answers(c))
    BY Zenon, <2>1, PlainWhole
  <2> QED
    BY Zenon, <1>1, <2>2, ReplyUnderstood
<1>2. CASE c[2] = "GetCertificateStatus"
  <2>1. Answers(c) = StatusFields /\ Client[c[1]][c[2]].needs = StatusFields
    BY Zenon, <1>2, StatusSides
  <2>2. DOMAIN Plain(StatusFields) = StatusFields /\ DOMAIN Encode(Plain(StatusFields)) = StatusFields
    BY Zenon DEF Plain, Encode
  <2>3. "nil" \notin {"true", "full"}
    BY Zenon
  <2>4. ASSUME NEW f \in StatusFields PROVE Encode(Plain(StatusFields))[f] # "nil"
    <3>1. Plain(StatusFields)[f] \in {"true", "full"}
      BY Zenon DEF Plain
    <3>2. Plain(StatusFields)[f] # "empty" /\ Plain(StatusFields)[f] # "nil"
      BY Zenon, <3>1
    <3> QED
      BY Zenon, <2>2, <3>2 DEF Encode
  <2> QED
    BY Zenon, <2>1, <2>2, <2>4 DEF Missing
<1> QED
  BY Zenon, <1>1, <1>2

\* What a client makes of a faithful reply is faithful.
LEMMA OutcomeFaithful ==
    ASSUME CallTypeOK, NEW k \in 1 .. Depth, NEW a, CallAnswer(a)
    PROVE  /\ CallAnswer(Outcome(k, a))
           /\ FaithfulReply(scenario, k, a) => FaithfulResult(scenario, k, Outcome(k, a))
<1> DEFINE c == scenario.chain[k]
           m == Encode(IF k = Depth THEN scenario.reply ELSE Plain(Answers(c)))
           r == Outcome(k, a)
<1>1. c \in Methods /\ scenario.reply \in Composed(Answers(scenario.chain[Depth]))
  BY Zenon, ScenarioFacts
<1>2. CASE ~ a.ok
  <2>1. r = Failed(unwrapError(wrapError(a.error)))
    BY Zenon, <1>2 DEF Outcome
  <2>2. Circulating(a.error)
    BY Zenon, <1>2, ResultFields DEF CallAnswer
  <2>3. /\ Circulating(unwrapError(wrapError(a.error)))
        /\ Alike(unwrapError(wrapError(a.error)), a.error)
    BY Zenon, <2>2, ErrorCrosses
  <2>4. ~ r.ok /\ r.error = unwrapError(wrapError(a.error))
    BY Zenon, <2>1, ResultFields
  <2>5. CallAnswer(r)
    BY Zenon, <2>1, <2>3, <2>4 DEF CallAnswer
  <2>6. FaithfulReply(scenario, k, a) => FaithfulResult(scenario, k, r)
    BY Zenon, <1>2, <2>3, <2>4 DEF FaithfulReply, FaithfulResult, Alike
  <2> QED
    BY Zenon, <2>5, <2>6
<1>3. CASE a.ok
  <2>1. r = IF Missing(m, Client[c[1]][c[2]].needs) # {}
            THEN Failed(Error("plain", "IncompleteResponse", None)) ELSE Ok
    BY Zenon, <1>3 DEF Outcome
  <2>2. CallAnswer(r)
    BY Zenon, <2>1, ResultFields DEF CallAnswer, Circulating
  <2>3. r.ok <=> Missing(m, Client[c[1]][c[2]].needs) = {}
    BY Zenon, <2>1, ResultFields
  <2>4. CASE k = Depth /\ c[2] = "GetCertificateStatus"
    <3>1. Missing(m, Client[c[1]][c[2]].needs) = {} <=> scenario.reply["OcspResponse"] # "nil"
      BY Zenon, <1>1, <2>4, StatusUnderstood
    <3>2. Withheld(scenario) <=> scenario.reply["OcspResponse"] = "nil"
      BY Zenon, <2>4 DEF Withheld, Depth
    <3> QED
      BY Zenon, <1>3, <2>2, <2>3, <3>1, <3>2 DEF FaithfulReply, FaithfulResult
  <2>5. CASE k = Depth /\ c[2] # "GetCertificateStatus"
    <3>1. Whole(m, Answers(c))
      BY Zenon, <1>1, <2>5, ComposedWhole
    <3>2. Missing(m, Client[c[1]][c[2]].needs) = {}
      BY Zenon, <1>1, <2>5, <3>1, ReplyUnderstood
    <3>3. ~ Withheld(scenario)
      BY Zenon, <2>5 DEF Withheld, Depth
    <3> QED
      BY Zenon, <1>3, <2>2, <2>3, <3>2, <3>3 DEF FaithfulReply, FaithfulResult
  <2>6. CASE k # Depth
    <3>1. Missing(m, Client[c[1]][c[2]].needs) = {}
      BY Zenon, <1>1, <2>6, PlainUnderstood
    <3> QED
      BY Zenon, <1>3, <2>2, <2>3, <2>6, <3>1 DEF FaithfulReply, FaithfulResult, Depth
  <2> QED
    BY Zenon, <2>4, <2>5, <2>6
<1> QED
  BY Zenon, <1>2, <1>3

\* An answer that reaches its caller keeps it.
LEMMA ReceiveInv ==
    ASSUME CallInv, NEW p \in DOMAIN call, Receive(p)
    PROVE  CallInv'
<1> DEFINE h == Append(p, call[p].tries)
           r == Outcome(Len(h), handler[h].reply)
<1>1. /\ CallTypeOK /\ ResultsInv /\ p \in Callers /\ Depth \in Nat /\ MaxTries \in Nat
      /\ call[p].stage = "open" /\ handler[h].stage = "replied"
      /\ call[p].tries \in 0 .. MaxTries
      /\ call' = [call EXCEPT ![p].stage = "done", ![p].result = r]
      /\ scenario' = scenario /\ handler' = handler /\ rows' = rows /\ lost' = lost
      /\ expired' = expired /\ expired \in BOOLEAN
  BY Zenon, CallsAssumption, ScenarioFacts DEF CallInv, CallTypeOK, Receive
<1>2. call[p].tries # 0
  <2>1. "open" # "idle"
    BY Zenon
  <2> QED
    BY Zenon, <1>1, <2>1 DEF CallTypeOK
<1>3. call[p].tries \in 1 .. MaxTries
  BY <1>1, <1>2
<1>4. h \in Handlers /\ Len(h) = Len(p) + 1
  BY Zenon, <1>1, <1>3, Down DEF Callers, Handlers
<1>5. Len(h) \in 1 .. Depth
  BY Zenon, <1>1, <1>4, Levels DEF Handlers
<1>6. /\ CallAnswer(handler[h].reply)
      /\ Undisturbed => FaithfulReply(scenario, Len(h), handler[h].reply)
  BY Zenon, <1>1, <1>4 DEF ResultsInv
<1>7. /\ CallAnswer(r)
      /\ Undisturbed => FaithfulResult(scenario, Len(p) + 1, r)
  BY Zenon, <1>1, <1>4, <1>5, <1>6, OutcomeFaithful
<1>8. CallChanged(p, "done", call[p].tries, call[p].request, r)
  BY Zenon, <1>1, Finishes
<1>9. Finished(p, r)
  BY Zenon, <1>1, <1>8 DEF Finished
<1>10. Undisturbed' => Undisturbed
  BY Zenon, <1>1 DEF Undisturbed
<1> QED
  BY Zenon, <1>7, <1>9, <1>10, FinishedInv

\* A timeout keeps it.
LEMMA ExpireInv ==
    ASSUME CallInv, NEW p \in DOMAIN call, Expire(p)
    PROVE  CallInv'
<1> DEFINE r == Failed(Error("grpc", "DeadlineExceeded", None))
<1>1. /\ CallTypeOK /\ p \in Callers /\ call[p].stage = "open" /\ expired' = TRUE
      /\ call' = [call EXCEPT ![p].stage = "done", ![p].result = r]
      /\ scenario' = scenario /\ handler' = handler /\ rows' = rows /\ lost' = lost
  BY Zenon DEF CallInv, CallTypeOK, Expire
<1>2. CallChanged(p, "done", call[p].tries, call[p].request, r)
  BY Zenon, <1>1, Finishes
<1>3. Finished(p, r) /\ ~ Undisturbed'
  BY Zenon, <1>1, <1>2 DEF Finished, Undisturbed
<1>4. CallAnswer(r)
  BY Zenon, ResultFields DEF CallAnswer, Circulating
<1> QED
  BY Zenon, <1>3, <1>4, FinishedInv

\* A request starts in it.
LEMMA CallInitInv == CallInit => CallInv
<1> SUFFICES ASSUME CallInit PROVE CallInv
  BY Zenon
<1>1. /\ scenario \in CallScenarios /\ rows = {} /\ lost = 0 /\ expired = FALSE
      /\ call = [p \in Callers |-> Idle] /\ handler = [p \in Handlers |-> NoHandler]
  BY Zenon DEF CallInit, Callers, Handlers
<1>2. /\ DOMAIN Idle = CallFields /\ Idle.stage = "idle" /\ Idle.tries = 0
      /\ DOMAIN NoHandler = {"stage", "reply"} /\ NoHandler.stage = "none"
  BY Zenon DEF Idle, NoHandler, CallFields
<1>3. MaxTries \in Nat /\ 0 \in 0 .. MaxTries /\ 0 \in Nat
  BY CallsAssumption
<1>4. CallTypeOK
  BY Zenon, <1>1, <1>2, <1>3 DEF CallTypeOK
<1>5. Depth \in Nat /\ Depth > 0
  BY Zenon, <1>4, ScenarioFacts
<1>6. /\ \A p \in Callers : call[p].stage = "idle" /\ call[p].tries = 0
      /\ \A p \in Handlers : handler[p].stage = "none"
  BY Zenon, <1>1, <1>2
<1>7. Leaves = {<<>>}
  <2>1. <<>> \in Paths(0 .. Depth) /\ \A p \in Paths(0 .. Depth) : p = <<>> \/ p \in Handlers
    BY Zenon, <1>5, Levels DEF Handlers
  <2> QED
    BY Zenon, <1>6, <2>1 DEF Leaves, Started
<1>8. TreeInv
  <2>1. \A p \in Callers, n \in 1 .. MaxTries :
          handler[Append(p, n)].stage # "none" <=> n <= call[p].tries
    <3>1. \A p \in Callers, n \in 1 .. MaxTries : Append(p, n) \in Handlers
      BY Zenon, <1>5, Down DEF Callers, Handlers
    <3>2. \A n \in 1 .. MaxTries : ~ (n <= 0)
      BY <1>3
    <3> QED
      BY Zenon, <1>6, <3>1, <3>2
  <2>2. 1 + lost = 1
    BY <1>1
  <2>3. IsFiniteSet(Leaves) /\ Cardinality(Leaves) = 1 + lost
    BY Zenon, <1>7, <2>2, FS_Singleton
  <2> QED
    BY Zenon, <1>6, <2>1, <2>3 DEF TreeInv
<1>9. RowsInv
  BY Zenon, <1>1 DEF RowsInv
<1>10. "none" # "replied" /\ "idle" # "done"
  BY Zenon
<1>11. RequestsInv /\ ResultsInv
  BY Zenon, <1>6, <1>10 DEF RequestsInv, ResultsInv
<1> QED
  BY Zenon, <1>4, <1>8, <1>9, <1>11 DEF CallInv

\* Every step keeps it.
LEMMA CallNextInv == CallInv /\ [CallNext]_callVars => CallInv'
<1> SUFFICES ASSUME CallInv, [CallNext]_callVars PROVE CallInv'
  BY Zenon
<1>1. CASE \E p \in DOMAIN call : Invoke(p) \/ invoke(p) \/ Receive(p) \/ Expire(p)
  BY Zenon, <1>1, InvokeInv, invokeInv, ReceiveInv, ExpireInv
<1>2. CASE \E p \in DOMAIN handler : Drop(p) \/ Serve(p) \/ (p \in DOMAIN call /\ Return(p))
  BY Zenon, <1>2, DropInv, ServeInv, ReturnInv
<1>3. CASE UNCHANGED callVars
  <2>1. /\ scenario' = scenario /\ call' = call /\ handler' = handler
        /\ rows' = rows /\ lost' = lost /\ expired' = expired
    BY Zenon, <1>3 DEF callVars
  <2>2. /\ Callers' = Callers /\ Handlers' = Handlers /\ Depth' = Depth
        /\ LastMethod' = LastMethod /\ Undisturbed' = Undisturbed
        /\ Ends' = Ends /\ Leaves' = Leaves
    BY Zenon, <2>1 DEF Callers, Handlers, Depth, LastMethod, Undisturbed, Ends, Leaves, Started
  <2>3. CallTypeOK' /\ TreeInv'
    BY Zenon, <2>1, <2>2 DEF CallInv, CallTypeOK, TreeInv
  <2>4. RowsInv' /\ RequestsInv' /\ ResultsInv'
    BY Zenon, <2>1, <2>2 DEF CallInv, RowsInv, RequestsInv, ResultsInv
  <2> QED
    BY Zenon, <2>3, <2>4 DEF CallInv
<1> QED
  BY Zenon, <1>1, <1>2, <1>3 DEF CallNext

-----------------------------------------------------------------------------
(***************************************************************************)
(* What the calls guarantee.                                               *)
(***************************************************************************)
\* The inductive invariant holds: calls and handlers form a tree with a leaf for
\* every lost connection and one more, rows come from the last handlers that
\* replied, requests are complete, and results without a disturbance tell what
\* the last server did.
THEOREM CallInvariance == CallSpec => []CallInv
<1> QED
  BY CallInitInv, CallNextInv, PTL DEF CallSpec

\* The facts about the root's call.
LEMMA RootFacts ==
    ASSUME CallInv
    PROVE  /\ CallTypeOK /\ Depth \in Nat /\ <<>> \in Callers
           /\ Root.stage = "done" =>
                /\ CallAnswer(Root.result)
                /\ Undisturbed => FaithfulResult(scenario, 1, Root.result)
<1>1. CallTypeOK /\ Depth \in Nat /\ Depth > 0 /\ ResultsInv
  BY Zenon, ScenarioFacts DEF CallInv
<1>2. <<>> \in Callers
  BY Zenon, <1>1, Levels DEF Callers
<1>3. Len(<<>>) + 1 = 1
  OBVIOUS
<1> QED
  BY Zenon, <1>1, <1>2, <1>3 DEF ResultsInv, Root

\* No server refuses a request of its own client, and without a disturbance no
\* client refuses a reply but that of GetCertificateStatus without an OCSP
\* response (the wrappers of grpc/, for every chain of their methods).
THEOREM CallsUnderstood == CallSpec => []Understood
<1>1. CallInv => Understood
  <2> SUFFICES ASSUME CallInv PROVE Understood
    BY Zenon
  <2>1. CallTypeOK /\ ResultsInv
    BY Zenon DEF CallInv
  <2>2. ASSUME NEW p \in DOMAIN handler, handler[p].stage = "replied"
        PROVE  handler[p].reply.error.type # "IncompleteRequest"
    <3>1. CallAnswer(handler[p].reply)
      BY Zenon, <2>1, <2>2 DEF ResultsInv, CallTypeOK
    <3>2. Error("none", "none", None).type # "IncompleteRequest"
      BY Zenon DEF Error
    <3> QED
      BY Zenon, <3>1, <3>2, ResultFields, NoComplaint DEF CallAnswer
  <2>3. ASSUME Root.stage = "done", Undisturbed, scenario.inner.ok
        PROVE  Root.result.ok <=> ~ (LastMethod = "GetCertificateStatus"
                                     /\ scenario.reply["OcspResponse"] = "nil")
    BY Zenon, <2>3, RootFacts DEF FaithfulResult, Withheld, LastMethod, Depth
  <2> QED
    BY Zenon, <2>2, <2>3 DEF Understood
<1> QED
  BY <1>1, CallInvariance, PTL

\* Without a disturbance a call that failed has written nothing.
THEOREM FailuresUndone == CallSpec => []FailureMeansUndone
<1>1. CallInv => FailureMeansUndone
  <2> SUFFICES ASSUME CallInv, Root.stage = "done", ~ Root.result.ok, Undisturbed
               PROVE  rows = {}
    BY Zenon DEF FailureMeansUndone
  <2>1. FaithfulResult(scenario, 1, Root.result) /\ RowsInv
    BY Zenon, RootFacts DEF CallInv
  <2>2. CASE scenario.inner.ok
    <3>1. LastMethod = "GetCertificateStatus"
      BY Zenon, <2>1, <2>2 DEF FaithfulResult, Withheld, LastMethod, Depth
    <3>2. "GetCertificateStatus" \in Reads
      <4>1. "GetCertificateStatus" \in DOMAIN SAClientGets
        BY Zenon DEF SAClientGets
      <4> QED
        BY Zenon, <4>1 DEF Reads
    <3> QED
      BY Zenon, <2>1, <3>1, <3>2 DEF RowsInv
  <2>3. CASE ~ scenario.inner.ok
    BY Zenon, <2>1, <2>3 DEF RowsInv
  <2> QED
    BY Zenon, <2>2, <2>3
<1> QED
  BY <1>1, CallInvariance, PTL

\* A request leaves at most one row more than connections were lost, however
\* many calls each try makes further down.
THEOREM RowsCorrect == CallSpec => []RowsBounded
<1>1. CallInv => RowsBounded
  <2> SUFFICES ASSUME CallInv PROVE Cardinality(rows) <= 1 + lost
    BY Zenon DEF RowsBounded
  <2>1. CallTypeOK /\ TreeInv /\ RowsInv /\ Depth \in Nat
    BY Zenon, ScenarioFacts DEF CallInv
  <2>2. Ends \subseteq Leaves
    <3>1. ASSUME NEW q \in Ends PROVE q \in Leaves
      <4>1. q \in Handlers /\ Len(q) = Depth /\ handler[q].stage = "replied"
        BY Zenon DEF Ends
      <4>2. /\ q \in Callers => Len(q) \in 0 .. Depth - 1
            /\ q \in Paths(0 .. Depth)
        BY Zenon, <2>1, <4>1, Levels DEF Callers, Handlers
      <4>3. Depth \notin 0 .. Depth - 1 /\ "replied" # "none"
        BY <2>1
      <4> QED
        BY Zenon, <4>1, <4>2, <4>3 DEF Leaves, Started
    <3> QED
      BY Zenon, <3>1
  <2>3. \A x \in rows : \E q \in Leaves : x = RowKey(LastMethod, q)
    BY Zenon, <2>1, <2>2 DEF RowsInv
  <2> DEFINE f == [x \in rows |-> CHOOSE q \in Leaves : x = RowKey(LastMethod, q)]
  <2>4. \A x \in rows : f[x] \in Leaves /\ x = RowKey(LastMethod, f[x])
    BY Zenon, <2>3
  <2>5. f \in [rows -> Leaves]
    BY Zenon, <2>4
  <2> HIDE DEF f
  <2>6. f \in Injection(rows, Leaves)
    <3>1. \A x, y \in rows : f[x] = f[y] => x = y
      BY Zenon, <2>4
    <3> QED
      BY Zenon, <2>5, <3>1 DEF Injection, IsInjective
  <2>7. IsFiniteSet(Leaves) /\ Cardinality(Leaves) = 1 + lost
    BY Zenon, <2>1 DEF TreeInv
  <2>8. Cardinality(rows) <= Cardinality(Leaves)
    BY Zenon, <2>6, <2>7, FS_Injection
  <2> QED
    BY Zenon, <2>7, <2>8
<1> QED
  BY <1>1, CallInvariance, PTL

\* Without a disturbance the root gets an error that gives the same problem
\* document as the last server's, or as the InternalServerError that a handler
\* in between made of it.
THEOREM ErrorsCorrect == CallSpec => []ErrorsKept
<1>1. CallInv => ErrorsKept
  <2> SUFFICES ASSUME CallInv, Root.stage = "done", Undisturbed, ~ scenario.inner.ok
               PROVE  ErrorsKept
    BY Zenon DEF ErrorsKept
  <2>1. ~ Root.result.ok /\ Alike(Root.result.error, Expected(scenario, 1))
    BY Zenon, RootFacts DEF FaithfulResult
  <2> QED
    BY Zenon, <2>1 DEF ErrorsKept, Alike, Expected, Depth
<1> QED
  BY <1>1, CallInvariance, PTL

\* What the two updates of a registration carry.
LEMMA UpdateFields ==
    /\ Sends(<<"SA", "UpdateRegistration">>) = registrationToPB
    /\ {"Contact", "ContactsPresent"} \subseteq registrationToPB
    /\ {"Contact", "ContactsPresent"} \subseteq Sends(<<"RA", "UpdateRegistration">>)
<1>1. {"Contact", "ContactsPresent"} \subseteq registrationToPB
  BY Zenon DEF registrationToPB
<1>2. Sends(<<"SA", "UpdateRegistration">>) = Client["SA"]["UpdateRegistration"].sends
  BY Zenon DEF Sends
<1>3. Sends(<<"RA", "UpdateRegistration">>) = Client["RA"]["UpdateRegistration"].sends
  BY Zenon DEF Sends
<1>4. /\ "UpdateRegistration" \in DOMAIN SAClientWrites
      /\ SAClientWrites["UpdateRegistration"] = Side(registrationToPB, {})
  BY Zenon DEF SAClientWrites
<1>5. RAClient["UpdateRegistration"] = Side({"Base", "Update"} \cup registrationToPB, registrationValid)
  BY Zenon DEF RAClient
<1>6. Client["RA"] = RAClient /\ Client["SA"] = Union({SAClientGets, SAClientCounts, SAClientWrites})
  BY Zenon DEF Client
<1>7. "UpdateRegistration" \notin DOMAIN SAClientGets /\ "UpdateRegistration" \notin DOMAIN SAClientCounts
  BY Zenon, <1>4, Domains
<1>8. Client["SA"]["UpdateRegistration"] = SAClientWrites["UpdateRegistration"]
  BY Zenon, <1>4, <1>6, <1>7 DEF Union
<1>9. Sends(<<"SA", "UpdateRegistration">>) = registrationToPB
  <2>1. Side(registrationToPB, {}).sends = registrationToPB
    BY Zenon DEF Side
  <2> QED
    BY Zenon, <1>2, <1>4, <1>8, <2>1
<1>10. Sends(<<"RA", "UpdateRegistration">>) = {"Base", "Update"} \cup registrationToPB
  BY Zenon, <1>3, <1>5, <1>6, Sides
<1>11. {"Contact", "ContactsPresent"} \subseteq Sends(<<"RA", "UpdateRegistration">>)
  BY Zenon, <1>1, <1>10
<1> QED
  BY Zenon, <1>1, <1>9, <1>11

\* The contacts that the SA is told to store are those of the update, or those
\* of the registration when the update has none.
THEOREM ContactsCorrect == CallSpec => []ContactsArrive
<1>1. CallInv => ContactsArrive
  <2> SUFFICES ASSUME CallInv, NEW p \in DOMAIN handler, handler[p].stage # "none",
                      scenario.chain[Len(p)] = <<"SA", "UpdateRegistration">>,
                      scenario.chain[1] = <<"RA", "UpdateRegistration">>
               PROVE  pbToRegistration(Received(p)) =
                        IF scenario.request["Contact"] = "nil" THEN scenario.base
                        ELSE scenario.request["Contact"]
    BY Zenon DEF ContactsArrive
  <2>1. /\ CallTypeOK /\ Len(p) \in 1 .. Depth /\ RequestOK(scenario, Len(p), Received(p))
        /\ Depth \in Nat /\ Depth <= 2 /\ scenario.base \in Content
        /\ scenario.request \in Composed(Sends(scenario.chain[1]))
    BY Zenon, Called, ScenarioFacts DEF CallInv, CallTypeOK
  <2>2. Len(p) # 1
    <3>1. <<"SA", "UpdateRegistration">> # <<"RA", "UpdateRegistration">>
      BY Zenon
    <3> QED
      BY Zenon, <3>1
  <2>3. Len(p) = 2
    <3>1. \A d \in Nat : \A j \in 1 .. d : d <= 2 /\ j # 1 => j = 2
      OBVIOUS
    <3> QED
      BY Zenon, <2>1, <2>2, <3>1
  <2>4. Received(p) = Updated(scenario)
    BY Zenon, <2>1, <2>3 DEF RequestOK
  <2>5. scenario.chain[2] = <<"SA", "UpdateRegistration">>
    BY Zenon, <2>3
  <2>6. Sends(<<"SA", "UpdateRegistration">>) = registrationToPB
    BY Zenon, UpdateFields
  <2>7. {"Contact", "ContactsPresent"} \subseteq Sends(scenario.chain[1])
    BY Zenon, UpdateFields
  <2>8. {"Contact", "ContactsPresent"} \subseteq registrationToPB
    BY Zenon, UpdateFields
  <2> DEFINE u == scenario.request["Contact"]
  <2>9. /\ pbToRegistration(Encode(scenario.request)) = u /\ u \in Content
        /\ pbToRegistration(Encode(WithContact(Plain(registrationToPB), scenario.base))) = scenario.base
    BY Zenon, <2>1, <2>7, <2>8, ContactsSurvive
  <2>10. MergedContact(scenario.base, u) = IF u = "nil" THEN scenario.base ELSE u
    BY Zenon DEF MergedContact
  <2>11. MergedContact(scenario.base, u) \in Content
    BY Zenon, <2>1, <2>9 DEF MergedContact
  <2>12. Updated(scenario) = Encode(WithContact(Plain(registrationToPB), MergedContact(scenario.base, u)))
    BY Zenon, <2>5, <2>6, <2>9 DEF Updated
  <2>13. pbToRegistration(Updated(scenario)) = MergedContact(scenario.base, u)
    BY Zenon, <2>8, <2>11, <2>12, ContactsSurvive
  <2> QED
    BY Zenon, <2>4, <2>10, <2>13
<1> QED
  BY <1>1, CallInvariance, PTL
=============================================================================
