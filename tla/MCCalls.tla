------------------------------- MODULE MCCalls -------------------------------
(***************************************************************************)
(* Calls on every method of every service, and on the chains of requests   *)
(* that change the database.                                               *)
(***************************************************************************)
EXTENDS Calls

Case(chain, request, base, reply, inner, mayBreak, mayExpire, down) ==
  [chain |-> chain, request |-> request, base |-> base, reply |-> reply,
   inner |-> inner, mayBreak |-> mayBreak, mayExpire |-> mayExpire, down |-> down]

\* Every method with every request and every reply the wrappers can compose.
MethodScenarios ==
  UNION {UNION {{Case(<<<<s, m>>>>, request, "nil", reply, Ok, FALSE, FALSE, FALSE) :
                   request \in Composed(Client[s][m].sends),
                   reply \in Composed(Server[s][m].sends)} : m \in DOMAIN Client[s]} :
           s \in DOMAIN Client}

AllErrors ==
  {Error("boulder", BoulderErrorTypes[i], None) : i \in DOMAIN BoulderErrorTypes}
    \cup {Error("core", t, None) : t \in DOMAIN Codes \ {"ProblemDetails"}}
    \cup {Error("problem", "unauthorized", 403), Error("problem", "malformed", 409),
          Error("problem", "rateLimited", None), Error("plain", "other", None)}

Chains ==
  {<<<<"RA", "NewRegistration">>, <<"SA", "NewRegistration">>>>,
   <<<<"RA", "NewAuthorization">>, <<"SA", "NewPendingAuthorization">>>>,
   <<<<"RA", "UpdateAuthorization">>, <<"SA", "UpdatePendingAuthorization">>>>,
   <<<<"RA", "RevokeCertificateWithReg">>, <<"SA", "MarkCertificateRevoked">>>>,
   <<<<"RA", "NewCertificate">>, <<"CA", "IssueCertificate">>, <<"SA", "AddCertificate">>>>,
   <<<<"SA", "FinalizeAuthorization">>>>,
   <<<<"SA", "GetRegistrationByKey">>>>}

Canonical(chain, inner, mayBreak, mayExpire, down) ==
  Case(chain, Plain(Sends(chain[1])), "nil", Plain(Answers(chain[Len(chain)])),
       inner, mayBreak, mayExpire, down)

\* Every error of the last server, through every chain.
ErrorScenarios ==
  {Canonical(chain, Failed(e), FALSE, FALSE, FALSE) : chain \in Chains, e \in AllErrors}

\* Every update of the contacts of every registration.
UpdateScenarios ==
  LET chain == <<<<"RA", "UpdateRegistration">>, <<"SA", "UpdateRegistration">>>>
  IN {Case(chain, WithContact(Plain(Sends(chain[1])), c), b, Plain(Answers(chain[2])),
           Ok, FALSE, FALSE, FALSE) : c \in Content, b \in Content}

\* Lost connections and deadlines, and a server that is down.
FaultScenarios ==
  {Canonical(chain, Ok, TRUE, TRUE, FALSE) : chain \in {c \in Chains : Len(c) < 3}}
    \cup {Canonical(chain, Ok, TRUE, FALSE, FALSE) : chain \in {c \in Chains : Len(c) = 3}}
    \cup {Canonical(chain, Ok, FALSE, TRUE, down) : chain \in Chains, down \in BOOLEAN}

AllScenarios == MethodScenarios \cup ErrorScenarios \cup UpdateScenarios \cup FaultScenarios
=============================================================================
