------------------------------ MODULE Messages ------------------------------
(***************************************************************************)
(* The gRPC layer of Boulder as pure operators: what each client wrapper   *)
(* (grpc/*-wrappers.go) puts in a request, what each server wrapper        *)
(* demands of it and puts in the reply, what the client wrapper demands of *)
(* that reply, what the protobuf encoding changes on the way, and how      *)
(* errors are encoded (grpc/bcodes.go) and shown to a subscriber           *)
(* (wfe/probs.go).                                                         *)
(*                                                                         *)
(* The content of a field is abstracted to what the wrappers tell apart:   *)
(* "nil" (absent), "empty" (present, zero length) and "full".  A pointer   *)
(* field that a wrapper sets to the address of a Go value is always        *)
(* "full", whatever the value; only byte slices, repeated fields and       *)
(* messages can be "nil" or "empty".                                       *)
(***************************************************************************)
EXTENDS Naturals

Content == {"nil", "empty", "full"}

(***************************************************************************)
(* Each side of a method: the fields it writes in the message it sends and *)
(* the fields it cannot do without in the message it receives (it refuses  *)
(* the message as incomplete or, where it does not check, dereferences     *)
(* them).  Fields of a nested message, or of an element of a repeated      *)
(* field, are listed beside the fields of the message that carries them.   *)
(***************************************************************************)
Side(sends, needs) == [sends |-> sends, needs |-> needs]

\* The messages of pb-marshalling.go: what the ...ToPB function writes, and
\* what the ...Valid predicate demands.
registrationToPB ==
  {"Id", "Key", "Contact", "ContactsPresent", "Agreement", "InitialIP",
   "CreatedAt", "Status"}

registrationValid ==
  {"Id", "Key", "Agreement", "InitialIP", "CreatedAt", "Status", "ContactsPresent"}

challengeToPB ==
  {"ChallengeId", "Type", "ChallengeStatus", "Token", "KeyAuthorization", "Error",
   "Validationrecords"}

pbToChallenge == {"ChallengeId", "Type", "ChallengeStatus", "Token", "KeyAuthorization"}

validationRecordToPB ==
  {"Hostname", "Port", "AddressesResolved", "AddressUsed", "Authorities", "Url"}

pbToValidationRecord == {"AddressUsed", "Hostname", "Port", "Url"}

authzToPB ==
  {"AuthzId", "Identifier", "RegistrationID", "AuthzStatus", "Expires",
   "Challenges", "Combinations"} \cup challengeToPB

authorizationValid ==
  {"AuthzId", "Identifier", "RegistrationID", "AuthzStatus", "Expires"}

\* pbToAuthz decodes every challenge, and fails on the first incomplete one.
pbToAuthz == authorizationValid \cup pbToChallenge

certToPBNoDigest == {"RegistrationID", "Serial", "Der", "Issued", "Expires"}

certToPB == {"RegistrationID", "Serial", "Digest", "Der", "Issued", "Expires"}

certificateValid == {"RegistrationID", "Serial", "Digest", "Der", "Issued", "Expires"}

sctToPB ==
  {"Id", "SctVersion", "LogID", "Timestamp", "Extensions", "Signature",
   "CertificateSerial"}

sctValid == {"Id", "SctVersion", "LogID", "Timestamp", "Signature", "CertificateSerial"}

validationResultToPB == {"Records", "Problems"} \cup validationRecordToPB

pbToValidationResult == pbToValidationRecord

performValidationReqToArgs == {"Domain", "AuthzId", "RegID"} \cup pbToChallenge

argsToPerformValidationRequest == {"Domain", "AuthzId", "RegID"} \cup challengeToPB

\* sapb.CertificateStatus
StatusFields ==
  {"Serial", "SubscriberApproved", "Status", "OcspLastUpdated", "RevokedDate",
   "RevokedReason", "LastExpirationNagSent", "OcspResponse", "NotAfter", "IsExpired"}

(***************************************************************************)
(* The storage authority: the client's wrappers, then the server's, in the *)
(* order of sa-wrappers.go.                                                *)
(***************************************************************************)
SAClientGets ==
  [GetRegistration        |-> Side({"Id"}, registrationValid),
   GetRegistrationByKey   |-> Side({"Jwk"}, registrationValid),
   GetAuthorization       |-> Side({"AuthzId"}, pbToAuthz),
   GetValidAuthorizations |-> Side({"RegistrationID", "Domains", "Now"},
                                   {"Domain"} \cup pbToAuthz),
   GetCertificate         |-> Side({"Serial"}, certificateValid),
   GetCertificateStatus   |-> Side({"Serial"}, StatusFields)]

SAClientCounts ==
  [CountCertificatesRange     |-> Side({"Earliest", "Latest"}, {"Count"}),
   CountCertificatesByNames   |-> Side({"Names", "Range", "Earliest", "Latest"},
                                       {"CountByNames", "Name", "Count"}),
   CountRegistrationsByIP     |-> Side({"Ip", "Range", "Earliest", "Latest"}, {"Count"}),
   CountPendingAuthorizations |-> Side({"Id"}, {"Count"}),
   CountInvalidAuthorizations |-> Side({"RegistrationID", "Hostname", "Range",
                                        "Earliest", "Latest"}, {"Count"}),
   GetSCTReceipt              |-> Side({"Serial", "LogID"}, sctValid),
   CountFQDNSets              |-> Side({"Window", "Domains"}, {"Count"}),
   FQDNSetExists              |-> Side({"Domains"}, {"Exists"})]

SAClientWrites ==
  [NewRegistration            |-> Side(registrationToPB, registrationValid),
   UpdateRegistration         |-> Side(registrationToPB, {}),
   NewPendingAuthorization    |-> Side(authzToPB, pbToAuthz),
   UpdatePendingAuthorization |-> Side(authzToPB, {}),
   FinalizeAuthorization      |-> Side(authzToPB, {}),
   MarkCertificateRevoked     |-> Side({"Serial", "Code"}, {}),
   AddCertificate             |-> Side({"Der", "RegID", "Ocsp"}, {"Digest"}),
   AddSCTReceipt              |-> Side(sctToPB, {}),
   RevokeAuthorizationsByDomain |-> Side({"Domain"}, {"Finalized", "Pending"}),
   DeactivateRegistration     |-> Side({"Id"}, {}),
   DeactivateAuthorization    |-> Side({"AuthzId"}, {})]

SAServerGets ==
  [GetRegistration        |-> Side(registrationToPB, {"Id"}),
   GetRegistrationByKey   |-> Side(registrationToPB, {"Jwk"}),
   GetAuthorization       |-> Side(authzToPB, {"AuthzId"}),
   GetValidAuthorizations |-> Side({"Valid", "Domain"} \cup authzToPB,
                                   {"RegistrationID", "Domains", "Now"}),
   GetCertificate         |-> Side(certToPB, {"Serial"}),
   GetCertificateStatus   |-> Side(StatusFields, {"Serial"})]

SAServerCounts ==
  [CountCertificatesRange     |-> Side({"Count"}, {"Earliest", "Latest"}),
   CountCertificatesByNames   |-> Side({"CountByNames", "Name", "Count"},
                                       {"Range", "Earliest", "Latest", "Names"}),
   CountRegistrationsByIP     |-> Side({"Count"}, {"Ip", "Range", "Earliest", "Latest"}),
   CountPendingAuthorizations |-> Side({"Count"}, {"Id"}),
   CountInvalidAuthorizations |-> Side({"Count"}, {"RegistrationID", "Hostname", "Range",
                                                   "Earliest", "Latest"}),
   GetSCTReceipt              |-> Side(sctToPB, {"Serial", "LogID"}),
   CountFQDNSets              |-> Side({"Count"}, {"Window", "Domains"}),
   FQDNSetExists              |-> Side({"Exists"}, {"Domains"})]

SAServerWrites ==
  [NewRegistration            |-> Side(registrationToPB, registrationValid),
   UpdateRegistration         |-> Side({}, registrationValid),
   NewPendingAuthorization    |-> Side(authzToPB, pbToAuthz),
   UpdatePendingAuthorization |-> Side({}, pbToAuthz),
   FinalizeAuthorization      |-> Side({}, pbToAuthz),
   MarkCertificateRevoked     |-> Side({}, {"Serial", "Code"}),
   AddCertificate             |-> Side({"Digest"}, {"Der", "RegID"}),
   AddSCTReceipt              |-> Side({}, sctValid),
   RevokeAuthorizationsByDomain |-> Side({"Finalized", "Pending"}, {"Domain"}),
   DeactivateRegistration     |-> Side({}, {"Id"}),
   DeactivateAuthorization    |-> Side({}, {"AuthzId"})]

(***************************************************************************)
(* The registration authority, the certificate authority, the validation   *)
(* authority and the publisher.                                            *)
(***************************************************************************)
RAClient ==
  [NewRegistration    |-> Side(registrationToPB, registrationValid),
   NewAuthorization   |-> Side({"Authz", "RegID"} \cup authzToPB, pbToAuthz),
   NewCertificate     |-> Side({"Csr", "RegID"}, certificateValid),
   UpdateRegistration |-> Side({"Base", "Update"} \cup registrationToPB, registrationValid),
   UpdateAuthorization |-> Side({"Authz", "ChallengeIndex", "Response"} \cup authzToPB,
                                pbToAuthz),
   RevokeCertificateWithReg |-> Side({"Cert", "Code", "RegID"}, {}),
   DeactivateRegistration   |-> Side(registrationToPB, {}),
   DeactivateAuthorization  |-> Side(authzToPB, {}),
   AdministrativelyRevokeCertificate |-> Side({"Cert", "Code", "AdminName"}, {})]

RAServerNew ==
  [NewRegistration    |-> Side(registrationToPB, registrationValid),
   NewAuthorization   |-> Side(authzToPB, {"Authz", "RegID"} \cup pbToAuthz),
   NewCertificate     |-> Side(certToPB, {"Csr", "RegID"})]

RAServerChange ==
  [UpdateRegistration |-> Side(registrationToPB, {"Base", "Update"} \cup registrationValid),
   UpdateAuthorization |-> Side(authzToPB, {"Authz", "ChallengeIndex", "Response"}
                                           \cup pbToAuthz),
   RevokeCertificateWithReg |-> Side({}, {"Cert", "Code", "RegID"}),
   DeactivateRegistration   |-> Side({}, registrationValid),
   DeactivateAuthorization  |-> Side({}, pbToAuthz),
   AdministrativelyRevokeCertificate |-> Side({}, {"Cert", "Code", "AdminName"})]

CAClient ==
  [IssueCertificate |-> Side({"Csr", "RegistrationID"}, certificateValid),
   GenerateOCSP     |-> Side({"CertDER", "Status", "Reason", "RevokedAt"}, {"Response"})]

CAServer ==
  [IssueCertificate |-> Side(certToPB, {"Csr", "RegistrationID"}),
   GenerateOCSP     |-> Side({"Response"}, {"Status", "Reason", "RevokedAt"})]

VAClient ==
  [PerformValidation |-> Side(argsToPerformValidationRequest, pbToValidationResult),
   IsSafeDomain      |-> Side({"Domain"}, {"IsSafe"})]

VAServer ==
  [PerformValidation |-> Side(validationResultToPB, performValidationReqToArgs),
   IsSafeDomain      |-> Side({"IsSafe"}, {"Domain"})]

PublisherClient ==
  [SubmitToCT       |-> Side({"Der"}, {}),
   SubmitToSingleCT |-> Side({"LogURL", "LogPublicKey", "Der"}, {})]

PublisherServer ==
  [SubmitToCT       |-> Side({}, {"Der"}),
   SubmitToSingleCT |-> Side({}, {"Der", "LogURL", "LogPublicKey"})]

Union(tables) == [m \in UNION {DOMAIN t : t \in tables} |->
                    (CHOOSE t \in tables : m \in DOMAIN t)[m]]

Client == [SA |-> Union({SAClientGets, SAClientCounts, SAClientWrites}),
           RA |-> RAClient, CA |-> CAClient, VA |-> VAClient, Publisher |-> PublisherClient]

Server == [SA |-> Union({SAServerGets, SAServerCounts, SAServerWrites}),
           RA |-> Union({RAServerNew, RAServerChange}),
           CA |-> CAServer, VA |-> VAServer, Publisher |-> PublisherServer]

(***************************************************************************)
(* What a wrapper can write in a field, given what its callers pass:       *)
(* slices built with make() are never nil, an IP is marshalled to a text   *)
(* that may be empty, and the OCSP response of a certificate is NULL from  *)
(* AddCertificate to the first run of the ocsp-updater when the CA does    *)
(* not generate it early.                                                  *)
(***************************************************************************)
Writes(f) ==
  CASE f = "Contact" -> Content
    [] f \in {"Challenges", "Validationrecords", "Records"} -> {"empty", "full"}
    [] f \in {"InitialIP", "AddressUsed"} -> {"empty", "full"}
    [] f \in {"Ocsp", "OcspResponse", "Valid", "Error", "Problems"} -> {"nil", "full"}
    [] OTHER -> {"full"}

\* The messages a side can send.  ContactsPresent is the one pointer whose
\* value the other side reads: it tells nil contacts from empty ones.
Composed(fields) ==
  LET Varying == {f \in fields : Writes(f) # {"full"}}
  IN {[f \in fields |->
         IF f \in Varying THEN c[f]
         ELSE IF f = "ContactsPresent" THEN IF c["Contact"] = "nil" THEN "false" ELSE "true"
         ELSE "full"] : c \in {c \in [Varying -> Content] : \A f \in Varying : c[f] \in Writes(f)}}

(***************************************************************************)
(* The protobuf encoding: an absent field is absent, an empty byte field   *)
(* stays present, and an empty repeated field arrives as nil.              *)
(***************************************************************************)
Repeated ==
  {"Domains", "Names", "Valid", "CountByNames", "Contact", "Challenges",
   "Validationrecords", "Records", "AddressesResolved", "Authorities"}

Encode(m) == [f \in DOMAIN m |-> IF f \in Repeated /\ m[f] = "empty" THEN "nil" ELSE m[f]]

\* The fields that exist only in the elements of a repeated field.
Elements ==
  [Challenges   |-> challengeToPB,
   Records      |-> validationRecordToPB,
   Valid        |-> {"Domain"} \cup authzToPB,
   CountByNames |-> {"Name", "Count"}]

Missing(m, needs) ==
  {f \in needs : /\ f \notin DOMAIN m \/ m[f] = "nil"
                 /\ \A r \in DOMAIN Elements \cap DOMAIN m :
                      f \in Elements[r] => m[r] # "nil"}

pbToRegistrationByLength(m) == IF m["Contact"] = "full" THEN "full" ELSE "nil"

\* The Contact of a registration as the other side sees it: gRPC made an
\* empty slice nil, so presence is read from ContactsPresent.
pbToRegistration(m) ==
  IF m["ContactsPresent"] = "true"
  THEN IF m["Contact"] = "full" THEN "full" ELSE "empty"
  ELSE "nil"

(***************************************************************************)
(* Errors.  An error is a BoulderError (errors/errors.go), one of the      *)
(* deprecated core errors, a ProblemDetails, an error of gRPC itself, or   *)
(* any other Go error.                                                     *)
(***************************************************************************)
Error(family, type, status) == [family |-> family, type |-> type, status |-> status]

None == 0

BoulderErrorTypes ==
  <<"InternalServer", "NotSupported", "Malformed", "Unauthorized", "NotFound",
    "SignatureValidation", "RateLimit", "TooManyRequests", "RejectedIdentifier",
    "UnsupportedIdentifier", "InvalidEmail", "ConnectionFailure">>

ProblemTypes ==
  {"connection", "malformed", "serverInternal", "tls", "unauthorized", "unknownHost",
   "rateLimited", "badNonce", "invalidEmail", "rejectedIdentifier", "unsupportedIdentifier"}

\* codes.Unknown, and the codes Boulder adds.
Unknown == 2

Codes ==
  [MalformedRequest |-> 100, NotSupported |-> 101, Unauthorized |-> 102,
   NotFound |-> 103, LengthRequired |-> 104, SignatureValidation |-> 105,
   RateLimited |-> 106, BadNonce |-> 107, NoSuchRegistration |-> 108,
   InternalServer |-> 109, ProblemDetails |-> 110]

\* What a component's method may return.
Returnable(e) ==
  \/ \E i \in DOMAIN BoulderErrorTypes : e = Error("boulder", BoulderErrorTypes[i], None)
  \/ \E t \in DOMAIN Codes \ {"ProblemDetails"} : e = Error("core", t, None)
  \/ e = Error("problem", e.type, e.status) /\ e.type \in ProblemTypes /\ e.status \in Nat
  \/ e = Error("plain", "other", None)

errorToCode(e) ==
  CASE e.family = "core" -> Codes[e.type]
    [] e.family = "problem" -> Codes["ProblemDetails"]
    [] OTHER -> Unknown

\* The status line and trailer of a failed call.  errortype is the iota value
\* of the error's type, put in the trailer as text; a ProblemDetails is
\* marshalled to JSON in the body.
wrapError(e) ==
  IF e.family = "boulder"
  THEN [code |-> Unknown,
        errortype |-> <<(CHOOSE i \in DOMAIN BoulderErrorTypes : BoulderErrorTypes[i] = e.type) - 1>>,
        body |-> Error("body", "text", None)]
  ELSE [code |-> errorToCode(e), errortype |-> <<>>,
        body |-> IF errorToCode(e) = Codes["ProblemDetails"]
                 THEN Error("body", e.type, e.status)
                 ELSE Error("body", "text", None)]

unwrapErrorCodeOnly(w) ==
  IF w.code = Codes["ProblemDetails"]
  THEN Error("problem", w.body.type, w.body.status)
  ELSE IF \E t \in DOMAIN Codes : Codes[t] = w.code
  THEN Error("core", CHOOSE t \in DOMAIN Codes : Codes[t] = w.code, None)
  ELSE Error("grpc", "Unknown", None)

unwrapError(w) ==
  IF w.errortype # <<>>
  THEN Error("boulder", BoulderErrorTypes[w.errortype[1] + 1], None)
  ELSE IF w.code = Codes["ProblemDetails"]
  THEN Error("problem", w.body.type, w.body.status)
  ELSE IF \E t \in DOMAIN Codes : Codes[t] = w.code
  THEN Error("core", CHOOSE t \in DOMAIN Codes : Codes[t] = w.code, None)
  ELSE Error("grpc", "Unknown", None)

(***************************************************************************)
(* wfe/probs.go and probs/probs.go: the problem document a subscriber gets *)
(* for an error.                                                           *)
(***************************************************************************)
Problem(type, status) == [type |-> type, status |-> status]

problemDetailsForBoulderError(t) ==
  CASE t = "NotSupported" -> Problem("serverInternal", 501)
    [] t \in {"Malformed", "SignatureValidation"} -> Problem("malformed", 400)
    [] t = "Unauthorized" -> Problem("unauthorized", 403)
    [] t = "NotFound" -> Problem("malformed", 404)
    [] t = "RateLimit" -> Problem("rateLimited", 429)
    [] t \in {"InternalServer", "TooManyRequests"} -> Problem("serverInternal", 500)
    [] t = "RejectedIdentifier" -> Problem("rejectedIdentifier", 400)
    [] t = "UnsupportedIdentifier" -> Problem("unsupportedIdentifier", 400)
    [] t = "InvalidEmail" -> Problem("invalidEmail", 400)
    [] OTHER -> Problem("serverInternal", 500)

problemDetailsForError(e) ==
  CASE e.family = "problem" -> Problem(e.type, e.status)
    [] e.family = "boulder" -> problemDetailsForBoulderError(e.type)
    [] e.family = "core" /\ e.type = "MalformedRequest" -> Problem("malformed", 400)
    [] e.family = "core" /\ e.type = "NotSupported" -> Problem("serverInternal", 501)
    [] e.family = "core" /\ e.type = "Unauthorized" -> Problem("unauthorized", 403)
    [] e.family = "core" /\ e.type = "NotFound" -> Problem("malformed", 404)
    [] e.family = "core" /\ e.type = "LengthRequired" -> Problem("malformed", 411)
    [] e.family = "core" /\ e.type = "SignatureValidation" -> Problem("malformed", 400)
    [] e.family = "core" /\ e.type = "RateLimited" -> Problem("rateLimited", 429)
    [] e.family = "core" /\ e.type = "BadNonce" -> Problem("badNonce", 400)
    [] OTHER -> Problem("serverInternal", 500)

\* A ProblemDetails with no status of its own takes that of its type.
ProblemDetailsToStatusCode(p) ==
  IF p.status # None THEN p.status
  ELSE CASE p.type \in {"connection", "malformed", "tls", "unknownHost", "badNonce",
                        "invalidEmail", "rejectedIdentifier", "unsupportedIdentifier"} -> 400
         [] p.type = "serverInternal" -> 500
         [] p.type = "unauthorized" -> 403
         [] p.type = "rateLimited" -> 429
         [] OTHER -> 500
=============================================================================
