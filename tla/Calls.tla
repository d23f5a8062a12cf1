-------------------------------- MODULE Calls --------------------------------
(***************************************************************************)
(* A remote call through Boulder's gRPC layer: from the WFE to a server,   *)
(* or through the RA (and the CA) to the SA, with the client interceptor's *)
(* timeout and its FailFast(false).  Without fail-fast gRPC starts the     *)
(* call again whenever its connection is lost, also after the request was  *)
(* delivered, so one call may run several handlers, and the handlers of    *)
(* lost connections go on running.                                         *)
(*                                                                         *)
(* A chain is the sequence of methods of one request, each handler making  *)
(* the next call: only the last call of a handler, the one with the        *)
(* effect, is followed (the reads before it are single-method chains).     *)
(* A handler instance is named by the path of tries that led to it: <<2,   *)
(* 1>> is the first try of the call made by the handler that the second    *)
(* try of the root's call started, and <<>> is the root, which makes the   *)
(* first call.                                                             *)
(***************************************************************************)
EXTENDS Messages, Sequences, FiniteSets

CONSTANTS
  CallScenarios,    \* [chain, request, base, reply, inner, mayBreak, mayExpire, down]
  MaxTries,         \* bound: tries of one call
  MaxLost           \* bound: connections lost in one request

ASSUME CallsAssumption == MaxTries \in Nat \ {0} /\ MaxLost \in Nat

\* A method is a pair of a service and a name; what its client and its server
\* wrapper send.
Methods == UNION {{<<x, m>> : m \in DOMAIN Client[x]} : x \in DOMAIN Client}

Sends(c) == Client[c[1]][c[2]].sends

Answers(c) == Server[c[1]][c[2]].sends

Ok == [ok |-> TRUE, error |-> Error("none", "none", None)]

Failed(e) == [ok |-> FALSE, error |-> e]

\* The first request and the last reply are composed by their wrappers, the
\* last server may fail with any error, and all the RA's UpdateRegistration
\* calls is the SA.
ASSUME ScenariosAssumption ==
  \A s \in CallScenarios :
    /\ s.chain \in Seq(Methods) \ {<<>>}
    /\ s.request \in Composed(Sends(s.chain[1]))
    /\ s.reply \in Composed(Answers(s.chain[Len(s.chain)]))
    /\ s.base \in Content
    /\ s.inner = Ok \/ (s.inner = Failed(s.inner.error) /\ Returnable(s.inner.error))
    /\ s.chain[1] = <<"RA", "UpdateRegistration">> => Len(s.chain) <= 2

VARIABLES
  scenario,     \* which of CallScenarios this is
  call,         \* the call each caller makes: [stage, tries, request, result]
  handler,      \* each handler instance: [stage, reply]
  rows,         \* the keys of the rows the last server has written
  lost,         \* connections lost so far
  expired       \* whether a call has timed out

callVars == <<scenario, call, handler, rows, lost, expired>>

Depth == Len(scenario.chain)

\* The caller whose try started handler p, and the number of that try.
Caller(p) == SubSeq(p, 1, Len(p) - 1)

Attempt(p) == p[Len(p)]

Paths(lengths) == UNION {[1 .. k -> 1 .. MaxTries] : k \in lengths}

-----------------------------------------------------------------------------
(***************************************************************************)
(* What the last handler of a chain does to the database.                  *)
(***************************************************************************)
Reads == UNION {DOMAIN SAClientGets, DOMAIN SAClientCounts, DOMAIN CAClient,
                DOMAIN VAClient, DOMAIN PublisherClient}

\* The row a handler writes: AddCertificate's is keyed by the serial that the
\* CA, its caller, chose; NewPendingAuthorization picks a new ID every time.
RowKey(method, p) ==
  CASE method = "AddCertificate" -> Caller(p)
    [] method = "NewPendingAuthorization" -> p
    [] OTHER -> <<>>

\* These fail when their row is there already (or, for FinalizeAuthorization,
\* when the pending row is gone); the other writes can be repeated.
Inserting == {"NewRegistration", "AddCertificate", "FinalizeAuthorization"}

-----------------------------------------------------------------------------
(***************************************************************************)
(* The handlers between the root and the last server.                      *)
(***************************************************************************)
\* RA methods that return the error of their call as it is; the others, and
\* the CA, replace it by an InternalServerError.
Passing == {"NewCertificate", "RevokeCertificateWithReg", "AdministrativelyRevokeCertificate"}

Reworded(method, e) ==
  IF method \in Passing THEN e ELSE Error("boulder", "InternalServer", None)

Plain(fields) ==
  [f \in fields |-> IF f = "ContactsPresent" THEN "true" ELSE "full"]

WithContact(m, c) ==
  [m EXCEPT !["Contact"] = c, !["ContactsPresent"] = IF c = "nil" THEN "false" ELSE "true"]

\* ra.mergeUpdate on contacts: a nil Contact in the update leaves the base's.
MergedContact(base, update) == IF update # "nil" THEN update ELSE base

Fields(k) == Sends(scenario.chain[k])

\* The request the k-th handler makes after receiving message m; the base of an
\* update crossed the wire beside the update itself.
NextRequest(k, m) ==
  IF scenario.chain[k][2] = "UpdateRegistration"
  THEN LET base == pbToRegistration(Encode(WithContact(Plain(registrationToPB), scenario.base)))
       IN WithContact(Plain(Fields(k + 1)), MergedContact(base, pbToRegistration(m)))
  ELSE Plain(Fields(k + 1))

-----------------------------------------------------------------------------
Idle == [stage |-> "idle", tries |-> 0, request |-> [f \in {} |-> "nil"], result |-> Ok]

NoHandler == [stage |-> "none", reply |-> Ok]

\* The request that reached handler p.
Received(p) == call[Caller(p)].request

CallInit ==
  /\ scenario \in CallScenarios
  /\ call = [p \in Paths(0 .. Depth - 1) |-> Idle]
  /\ handler = [p \in Paths(1 .. Depth) |-> NoHandler]
  /\ rows = {}
  /\ lost = 0
  /\ expired = FALSE

\* A new try of the call of caller p: the encoded request is on its way.
Try(p, n, m) ==
  /\ call' = [call EXCEPT ![p] = [stage |-> "open", tries |-> n, request |-> m, result |-> Ok]]
  /\ handler' = [handler EXCEPT ![Append(p, n)].stage = "sent"]

\* The client wrapper converts the arguments and invokes the method.
Invoke(p) ==
  /\ call[p].stage = "idle"
  /\ IF p = <<>> THEN Try(p, 1, Encode(scenario.request))
     ELSE /\ handler[p].stage = "running"
          /\ Try(p, 1, Encode(NextRequest(Len(p), Received(p))))
  /\ UNCHANGED <<scenario, rows, lost, expired>>

\* The connection of the open call of p is lost: FailFast(false) starts the
\* call again, whatever became of the request.
invoke(p) ==
  /\ scenario.mayBreak
  /\ call[p].stage = "open"
  /\ call[p].tries < MaxTries /\ lost < MaxLost
  /\ Try(p, call[p].tries + 1, call[p].request)
  /\ lost' = lost + 1
  /\ UNCHANGED <<scenario, rows, expired>>

\* A request on a connection that is gone may never arrive.
Drop(p) ==
  /\ handler[p].stage = "sent"
  /\ call[Caller(p)].tries > Attempt(p) \/ call[Caller(p)].stage = "done"
  /\ handler' = [handler EXCEPT ![p].stage = "dropped"]
  /\ UNCHANGED <<scenario, call, rows, lost, expired>>

Reply(p, result) ==
  handler' = [handler EXCEPT ![p] = [stage |-> "replied", reply |-> result]]

\* What the last server of a chain answers, and what it leaves in the
\* database: a failed write is rolled back.
Result(method, key) ==
  IF ~ scenario.inner.ok THEN scenario.inner
  ELSE IF method \in Inserting /\ key \in rows
  THEN Failed(Error("plain", "Duplicate", None))
  ELSE Ok

WrittenUnrolled(method, key) ==
  IF method \notin Reads THEN rows \cup {key} ELSE rows

Written(method, key) ==
  IF method \notin Reads /\ Result(method, key).ok THEN rows \cup {key} ELSE rows

\* The server wrapper refuses an incomplete request; otherwise the handler runs.
\* The last handler of a chain does its work in one step.
Serve(p) ==
  LET service == scenario.chain[Len(p)][1]
      method == scenario.chain[Len(p)][2]
      complete == Missing(Received(p), Server[service][method].needs) = {}
  IN /\ ~ scenario.down
     /\ handler[p].stage = "sent"
     /\ \/ /\ ~ complete
           /\ Reply(p, Failed(Error("plain", "IncompleteRequest", None)))
           /\ UNCHANGED rows
        \/ /\ complete /\ Len(p) < Depth
           /\ handler' = [handler EXCEPT ![p].stage = "running"]
           /\ UNCHANGED rows
        \/ /\ complete /\ Len(p) = Depth
           /\ Reply(p, Result(method, RowKey(method, p)))
           /\ rows' = Written(method, RowKey(method, p))
     /\ UNCHANGED <<scenario, call, lost, expired>>

\* A handler in the middle of the chain ends when its own call has.
Return(p) ==
  /\ handler[p].stage = "running"
  /\ call[p].stage = "done"
  /\ Reply(p, IF call[p].result.ok THEN Ok
              ELSE Failed(Reworded(scenario.chain[Len(p)][2], call[p].result.error)))
  /\ UNCHANGED <<scenario, call, rows, lost, expired>>

\* What the client makes of the answer of its k-th method: the server's
\* interceptor wrapped an error, the client's unwraps it; the client wrapper
\* refuses an incomplete reply.
Outcome(k, r) ==
  LET side == Client[scenario.chain[k][1]][scenario.chain[k][2]]
      m == Encode(IF k = Depth THEN scenario.reply
                  ELSE Plain(Answers(scenario.chain[k])))
  IN IF ~ r.ok THEN Failed(unwrapError(wrapError(r.error)))
     ELSE IF Missing(m, side.needs) # {}
     THEN Failed(Error("plain", "IncompleteResponse", None))
     ELSE Ok

\* The answer to the current try reaches the caller; answers to earlier tries
\* went to connections that are gone.
Receive(p) ==
  LET h == Append(p, call[p].tries)
  IN /\ call[p].stage = "open"
     /\ handler[h].stage = "replied"
     /\ call' = [call EXCEPT ![p].stage = "done", ![p].result = Outcome(Len(h), handler[h].reply)]
     /\ UNCHANGED <<scenario, handler, rows, lost, expired>>

ExpireRetries(p) ==
  /\ scenario.mayExpire
  /\ call[p].stage = "open"
  /\ call[p].tries < MaxTries
  /\ Try(p, call[p].tries + 1, call[p].request)
  /\ expired' = TRUE
  /\ UNCHANGED <<scenario, rows, lost>>

\* clientInterceptor's context.WithTimeout runs out, or the context it was
\* derived from was cancelled.
Expire(p) ==
  /\ scenario.mayExpire
  /\ call[p].stage = "open"
  /\ call' = [call EXCEPT ![p].stage = "done",
                          ![p].result = Failed(Error("grpc", "DeadlineExceeded", None))]
  /\ expired' = TRUE
  /\ UNCHANGED <<scenario, handler, rows, lost>>

CallNext ==
  \/ \E p \in DOMAIN call : Invoke(p) \/ invoke(p) \/ Receive(p) \/ Expire(p)
  \/ \E p \in DOMAIN handler : Drop(p) \/ Serve(p) \/ (p \in DOMAIN call /\ Return(p))

CallSpec == CallInit /\ [][CallNext]_callVars

-----------------------------------------------------------------------------
(***************************************************************************)
(* Properties.                                                             *)
(***************************************************************************)
Root == call[<<>>]

LastMethod == scenario.chain[Depth][2]

Undisturbed == lost = 0 /\ ~ expired

\* Client and server wrappers agree on what a complete message is: no server
\* refuses a request its own client composed, and no client refuses a reply,
\* except that GetCertificateStatus refuses the status of a certificate whose
\* OCSP response has not been generated yet (sa-wrappers.go demands
\* OcspResponse, which AddCertificate may store as NULL).
Understood ==
  /\ \A p \in DOMAIN handler :
       handler[p].stage = "replied" => handler[p].reply.error.type # "IncompleteRequest"
  /\ (Root.stage = "done" /\ Undisturbed /\ scenario.inner.ok) =>
       (Root.result.ok <=> ~ (LastMethod = "GetCertificateStatus"
                              /\ scenario.reply["OcspResponse"] = "nil"))

\* A failure means that nothing was written unless a connection was lost or a
\* deadline passed: only then may a row be there although its writer was told
\* that it is not (the second AddCertificate finds the first one's row).
FailureMeansUndone ==
  (Root.stage = "done" /\ ~ Root.result.ok /\ Undisturbed) => rows = {}

\* Each additional authorization or certificate that one request creates costs
\* a lost connection: timeouts alone never run a handler twice, and tries of
\* the RA's, the CA's and the SA's handler add up instead of multiplying.
RowsBounded == Cardinality(rows) <= 1 + lost

\* The subscriber gets the problem document, with the same HTTP status, that
\* the SA's error would have given without any wire in between, unless the RA
\* or the CA made an InternalServerError of it: wrapError and unwrapError
\* lose no error type over any number of hops.
ErrorsKept ==
  (Root.stage = "done" /\ Undisturbed /\ ~ scenario.inner.ok) =>
    LET problem == problemDetailsForError(Root.result.error)
        direct == problemDetailsForError(
                    IF \A k \in 1 .. Depth - 1 : scenario.chain[k][2] \in Passing
                    THEN scenario.inner.error
                    ELSE Error("boulder", "InternalServer", None))
    IN /\ ~ Root.result.ok
       /\ problem.type = direct.type
       /\ ProblemDetailsToStatusCode(problem) = ProblemDetailsToStatusCode(direct)

\* An update of a registration means the same after two hops: the contacts the
\* SA is told to store are those of the update, and those of the registration
\* when the update has none.  Empty contacts (remove them all) and absent
\* contacts (leave them) are not confused.
ContactsArrive ==
  \A p \in DOMAIN handler :
    (handler[p].stage # "none" /\ scenario.chain[Len(p)] = <<"SA", "UpdateRegistration">>
     /\ scenario.chain[1] = <<"RA", "UpdateRegistration">>) =>
       pbToRegistration(Received(p)) =
         IF scenario.request["Contact"] = "nil" THEN scenario.base
         ELSE scenario.request["Contact"]

=============================================================================
