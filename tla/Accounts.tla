------------------------------- MODULE Accounts -------------------------------
(***************************************************************************)
(* Accounts: the registrations table and the requests that write it (new   *)
(* registrations, updates, key rollovers, deactivations), and the requests *)
(* for new authorizations, whose limits are counted per account.           *)
(*                                                                         *)
(* Every request is a worker of the front end and the RA.  It is a chain   *)
(* of steps with one database access each, and the steps of different      *)
(* workers interleave: what a request has read may be stale when it        *)
(* writes.  A failed call ends its request; so does a lost answer, since   *)
(* nobody retries.                                                         *)
(***************************************************************************)
EXTENDS Integers, Sequences, FiniteSets, Functions, RateLimits

CONSTANTS
    Workers,            \* the requests in progress at one moment
    Keys,               \* account keys
    Contacts,           \* non-empty contact lists
    Scenarios,          \* pairs of the number of accounts a behaviour starts
                        \* with and the kinds of requests its clients send
    RegistrationsPerIP, PendingPerAccount, InvalidPerAccount,   \* policies
    PendingLifetime,    \* ra.pendingAuthorizationLifetime
    Lifetime,           \* ra.authorizationLifetime
    ReuseCutOff,        \* a reused authorization is good for 24 hours more
    MaxRegistrations, MaxAuthzs, MaxUpdates, MaxTime    \* bounds

VARIABLES
    now,
    mix,            \* the kinds of requests clients send
    registrations,  \* the table: a sequence, since ids are auto-incremented
    authzs,         \* the authorizations, pending and final, by number
    request         \* worker -> the request it serves

vars == <<now, mix, registrations, authzs, request>>

None == "none"
NoContact == "empty"
CurrentAgreement == "current"
Agreements == {"", "old", CurrentAgreement}

\* A row of registrations.  All clients come from one address.
Rows == [key : Keys, contact : Contacts \cup {NoContact}, agreement : Agreements,
         status : {"valid", "deactivated"}, createdAt : Nat, lockCol : Nat]
\* What an update asks for: None leaves a field alone.
Inputs == [contact : Contacts \cup {NoContact, None}, agreement : Agreements,
           key : Keys \cup {None}]
Authzs == [reg : Nat, status : {"pending", "valid", "invalid", "deactivated"},
           created : Nat, expires : Nat]

Kinds == {"newreg", "update", "deactivate", "rollover", "newauthz"}
Steps == {"idle", "limit", "insert", "merge", "select", "write", "deactivate",
          "pending", "invalid", "valid", "get"}

NoInput == [contact |-> None, agreement |-> "", key |-> None]
NoRow == [key |-> None, contact |-> NoContact, agreement |-> "",
          status |-> "valid", createdAt |-> 0, lockCol |-> 0]
Idle == [kind |-> None, step |-> "idle", id |-> 0, copy |-> NoRow,
         input |-> NoInput, lockCol |-> 0, found |-> 0]
Requests == [kind : Kinds \cup {None}, step : Steps, id : Nat, copy : Rows \cup {NoRow},
             input : Inputs, lockCol : Nat, found : Nat]

ASSUME WorkersAssumption == IsFiniteSet(Workers) /\ Workers # {}
ASSUME ScenariosAssumption == Scenarios \subseteq Nat \X SUBSET Kinds
ASSUME NamesAssumption ==
    \A x \in Keys \cup Contacts : x # None /\ x # NoContact /\ x # ""
ASSUME PolicyAssumption ==
    /\ PendingLifetime \in Nat /\ Lifetime \in Nat
    /\ RateLimitPolicy(PendingPerAccount) /\ RateLimitPolicy(InvalidPerAccount)

Ids == DOMAIN registrations
Go(w, step) == request' = [request EXCEPT ![w].step = step]
\* The request is answered, with success or with a problem.
Finish(w) == request' = [request EXCEPT ![w] = Idle]

-----------------------------------------------------------------------------

\* The first accounts were made before the agreement changed.
Init ==
    /\ now = 0
    /\ \E scenario \in Scenarios :
          /\ mix = scenario[2]
          /\ \E key \in Injection(1 .. scenario[1], Keys), agreement \in {"", "old"} :
                registrations = [id \in 1 .. scenario[1] |->
                    [NoRow EXCEPT !.key = key[id], !.agreement = agreement, !.lockCol = 1]]
    /\ authzs = <<>>
    /\ request = [w \in Workers |-> Idle]

\* sa.GetRegistrationByKey, on the jwk_sha256 index.
Holding(key) == {id \in Ids : registrations[id].key = key}

\* verifyPOST, with the account's status left unchecked.
verifyPOSTAnyStatus(w, kind, step, id, input) ==
    /\ kind \in mix
    /\ request[w].step = "idle"
    /\ request' = [request EXCEPT ![w] = [Idle EXCEPT
           !.kind = kind, !.step = step, !.id = id,
           !.copy = registrations[id], !.input = input]]
    /\ UNCHANGED <<now, mix, registrations, authzs>>

\* wfe.verifyPOST with regCheck: the key's account, which must be valid.  The
\* registration read here is what the handler works on from then on.
verifyPOST(w, kind, step, id, input) ==
    /\ kind \in mix
    /\ request[w].step = "idle"
    /\ registrations[id].status = "valid"
    /\ request' = [request EXCEPT ![w] = [Idle EXCEPT
           !.kind = kind, !.step = step, !.id = id,
           !.copy = registrations[id], !.input = input]]
    /\ UNCHANGED <<now, mix, registrations, authzs>>

-----------------------------------------------------------------------------
\* New registrations

\* wfe.NewRegistration: verifyPOST without regCheck, and a second look for
\* the key's account.  A lookup that fails counts as an account not found.
NewRegistration(w, key, contact, agreement) ==
    /\ "newreg" \in mix
    /\ request[w].step = "idle"
    /\ Len(registrations) < MaxRegistrations
    /\ agreement \in {"", CurrentAgreement}
    /\ request' = [request EXCEPT ![w] = [Idle EXCEPT
           !.kind = "newreg", !.step = "limit", 
           !.input = [contact |-> contact, agreement |-> agreement, key |-> key]]]
    /\ UNCHANGED <<now, mix, registrations, authzs>>

\* sa.CountRegistrationsByIP
CountRegistrationsByIP(earliest, latest) ==
    Cardinality({id \in Ids : /\ earliest < registrations[id].createdAt
                              /\ registrations[id].createdAt <= latest})

\* ra.validateContacts: the addresses are looked up in the DNS, and may be
\* refused.  An empty list is not.
validateContacts(w) ==
    \/ Go(w, "insert")
    \/ /\ request[w].input.contact \in Contacts
       /\ Finish(w)

\* ra.NewRegistration: checkRegistrationLimit and validateContacts.  (GoodKey
\* is pure.)
checkRegistrationLimit(w) ==
    /\ request[w].kind = "newreg" /\ request[w].step = "limit"
    /\ LET limit == RegistrationsPerIP
           count == CountRegistrationsByIP(WindowBegin(limit, now), now)
       IN  IF Enabled(limit) /\ count >= GetThreshold(limit, "ip", noRegistrationID)
           THEN Finish(w) ELSE validateContacts(w)
    /\ UNCHANGED <<now, mix, registrations, authzs>>

\* registrationToModel stores a missing contact list as an empty one.
registrationToModel(contact) == IF contact = None THEN NoContact ELSE contact

\* sa.NewRegistration.  jwk_sha256 is a unique index: inserting a second
\* account of a key fails.
NewRegistrationInsert(w) ==
    /\ request[w].kind = "newreg" /\ request[w].step = "insert"
    /\ LET input == request[w].input
           row == [key |-> input.key, contact |-> registrationToModel(input.contact),
                   agreement |-> input.agreement, status |-> "valid",
                   createdAt |-> now, lockCol |-> 1]
       IN  registrations' = IF Holding(input.key) = {} THEN Append(registrations, row)
                            ELSE registrations
    /\ Finish(w)
    /\ UNCHANGED <<now, mix, authzs>>

-----------------------------------------------------------------------------
\* Updates, key rollovers and deactivations

\* wfe.Registration: an agreement other than the current one is refused,
\* unless it is the account's own.
UpdateRequest(w, id, contact, agreement) ==
    /\ registrations[id].lockCol <= MaxUpdates
    /\ agreement \in {"", registrations[id].agreement, CurrentAgreement}
    /\ verifyPOST(w, "update", "merge", id,
                  [contact |-> contact, agreement |-> agreement,
                   key |-> registrations[id].key])

\* wfe.KeyRollover
KeyRollover(w, id, key) ==
    /\ registrations[id].lockCol <= MaxUpdates
    /\ verifyPOST(w, "rollover", "merge", id, [NoInput EXCEPT !.key = key])

\* wfe.Registration with status "deactivated", which leaves the other fields
\* of the request out of account.
DeactivateRequest(w, id) == verifyPOST(w, "deactivate", "deactivate", id, NoInput)

\* mergeUpdate, with an absent contact list taken for an empty one.
mergeUpdateClears(r, input) ==
    [r EXCEPT !.contact = IF input.contact = None THEN NoContact ELSE input.contact,
              !.agreement = IF input.agreement = "" THEN r.agreement ELSE input.agreement,
              !.key = IF input.key = None THEN r.key ELSE input.key]

\* ra.mergeUpdate
mergeUpdate(r, input) ==
    [r EXCEPT !.contact = IF input.contact = None THEN r.contact ELSE input.contact,
              !.agreement = IF input.agreement = "" THEN r.agreement ELSE input.agreement,
              !.key = IF input.key = None THEN r.key ELSE input.key]

\* ra.UpdateRegistration: nothing to do when the merge changes nothing, else
\* the contacts of the merged registration are validated.
UpdateRegistration(w) ==
    /\ request[w].step = "merge"
    /\ LET merged == mergeUpdate(request[w].copy, request[w].input)
       IN  \/ /\ merged = request[w].copy
              /\ Finish(w)
           \/ /\ merged # request[w].copy
              /\ \/ request' = [request EXCEPT ![w].copy = merged, ![w].step = "select"]
                 \/ merged.contact \in Contacts /\ Finish(w)
    /\ UNCHANGED <<now, mix, registrations, authzs>>

\* sa.UpdateRegistration reads the row it is about to write, for its LockCol.
UpdateSelect(w) ==
    /\ request[w].step = "select"
    /\ request' = [request EXCEPT ![w].step = "write",
           ![w].lockCol = registrations[request[w].id].lockCol]
    /\ UNCHANGED <<now, mix, registrations, authzs>>

\* sa.UpdateRegistration without the unique index on the key.
UpdateWriteAnyKey(w) ==
    /\ request[w].step = "write"
    /\ registrations' = [registrations EXCEPT ![request[w].id] = request[w].copy]
    /\ Finish(w)
    /\ UNCHANGED <<now, mix, authzs>>

\* ... and then writes the whole row, status and key included, unless another
\* update bumped LockCol in between or another account holds the key.
UpdateWrite(w) ==
    /\ request[w].step = "write"
    /\ LET id == request[w].id
           r == request[w].copy
       IN  registrations' =
             IF /\ registrations[id].lockCol = request[w].lockCol
                /\ Holding(r.key) \subseteq {id}
             THEN [registrations EXCEPT ![id] = [r EXCEPT !.lockCol = request[w].lockCol + 1]]
             ELSE registrations
    /\ Finish(w)
    /\ UNCHANGED <<now, mix, authzs>>

\* ra.DeactivateRegistration and sa.DeactivateRegistration: an UPDATE of the
\* status alone, WHERE status = 'valid', that leaves LockCol as it is.
DeactivateRegistration(w) ==
    /\ request[w].step = "deactivate"
    /\ registrations' = [registrations EXCEPT ![request[w].id].status = "deactivated"]
    /\ Finish(w)
    /\ UNCHANGED <<now, mix, authzs>>

-----------------------------------------------------------------------------
\* New authorizations, all for one name

\* wfe.NewAuthorization: the account must have agreed to the terms.
NewAuthorization(w, id) ==
    /\ registrations[id].agreement # ""
    /\ Len(authzs) < MaxAuthzs
    /\ verifyPOST(w, "newauthz", "pending", id, NoInput)

\* sa.CountPendingAuthorizations
CountPendingAuthorizations(regID) ==
    Cardinality({a \in DOMAIN authzs : /\ authzs[a].reg = regID
                                       /\ authzs[a].expires > now
                                       /\ authzs[a].status = "pending"})

\* checkPendingAuthorizationLimit, with > for >=.
checkPendingAuthorizationLimitOver(w) ==
    /\ request[w].step = "pending"
    /\ LET limit == PendingPerAccount
           id == request[w].id
       IN  IF Enabled(limit) /\ CountPendingAuthorizations(id) > GetThreshold(limit, "", id)
           THEN Finish(w) ELSE Go(w, "invalid")
    /\ UNCHANGED <<now, mix, registrations, authzs>>

\* ra.checkPendingAuthorizationLimit, after WillingToIssue (which is pure)
checkPendingAuthorizationLimit(w) ==
    /\ request[w].step = "pending"
    /\ LET limit == PendingPerAccount
           id == request[w].id
       IN  IF Enabled(limit) /\ CountPendingAuthorizations(id) >= GetThreshold(limit, "", id)
           THEN Finish(w) ELSE Go(w, "invalid")
    /\ UNCHANGED <<now, mix, registrations, authzs>>

\* sa.CountInvalidAuthorizations: it goes by the time they expire.
CountInvalidAuthorizations(regID, earliest, latest) ==
    Cardinality({a \in DOMAIN authzs : /\ authzs[a].reg = regID
                                       /\ authzs[a].status = "invalid"
                                       /\ earliest < authzs[a].expires
                                       /\ authzs[a].expires <= latest})

\* ra.checkInvalidAuthorizationLimit counts up to the current time.
RecentInvalidByExpiry(regID) ==
    CountInvalidAuthorizations(regID, WindowBegin(InvalidPerAccount, now), now)

\* ra.checkInvalidAuthorizationLimit: the window ends when an authorization
\* made now would expire.
RecentInvalid(regID) ==
    LET latest == now + PendingLifetime
    IN  CountInvalidAuthorizations(regID, WindowBegin(InvalidPerAccount, latest), latest)

\* va.IsSafeDomain: the Safe Browsing list may name the domain, or the call fail.
IsSafeDomain(w) == Go(w, "valid") \/ Finish(w)

\* ra.checkInvalidAuthorizationLimit, and then ra.NewAuthorization has the VA
\* look at the domain.
checkInvalidAuthorizationLimit(w) ==
    /\ request[w].step = "invalid"
    /\ LET limit == InvalidPerAccount
           id == request[w].id
       IN  IF Enabled(limit) /\ RecentInvalid(id) >= GetThreshold(limit, "", id)
           THEN Finish(w) ELSE IsSafeDomain(w)
    /\ UNCHANGED <<now, mix, registrations, authzs>>

\* sa.GetValidAuthorizations: the valid authorization of the account that
\* expires last, 0 when there is none.
GetValidAuthorizations(regID) ==
    LET valid == {a \in DOMAIN authzs : /\ authzs[a].reg = regID
                                        /\ authzs[a].status = "valid"
                                        /\ authzs[a].expires > now}
    IN  IF valid = {} THEN {0}
        ELSE {a \in valid : \A b \in valid : authzs[b].expires <= authzs[a].expires}

FindValid(w) ==
    /\ request[w].step = "valid"
    /\ \E a \in GetValidAuthorizations(request[w].id) :
          request' = [request EXCEPT ![w].found = a,
                          ![w].step = IF a = 0 THEN "insert" ELSE "get"]
    /\ UNCHANGED <<now, mix, registrations, authzs>>

\* ra.NewAuthorization: what may be given to the client again.
Reusable(a) == authzs[a].expires > now + ReuseCutOff

\* ra.NewAuthorization reads the authorization found once more, whatever its
\* status by now, and answers with it if it lasts.
Reuse(w) ==
    /\ request[w].step = "get"
    /\ IF Reusable(request[w].found) THEN Finish(w) ELSE Go(w, "insert")
    /\ UNCHANGED <<now, mix, registrations, authzs>>

\* sa.NewPendingAuthorization
NewPendingAuthorization(w) ==
    /\ request[w].kind = "newauthz" /\ request[w].step = "insert"
    /\ authzs' = Append(authzs, [reg |-> request[w].id, status |-> "pending",
                     created |-> now, expires |-> now + PendingLifetime])
    /\ Finish(w)
    /\ UNCHANGED <<now, mix, registrations>>

-----------------------------------------------------------------------------
\* What becomes of an authorization (module Authorizations has the detail):
\* it is decided before it expires, or its account deactivates it.
Decide(a) ==
    /\ authzs[a].status = "pending" /\ now <= authzs[a].expires
    /\ \/ authzs' = [authzs EXCEPT ![a].status = "invalid"]
       \/ authzs' = [authzs EXCEPT ![a].status = "valid", ![a].expires = now + Lifetime]
    /\ UNCHANGED <<now, mix, registrations, request>>

DeactivateAuthorization(a) ==
    /\ authzs[a].status \in {"pending", "valid"}
    /\ authzs' = [authzs EXCEPT ![a].status = "deactivated"]
    /\ UNCHANGED <<now, mix, registrations, request>>

Tick ==
    /\ now < MaxTime
    /\ now' = now + 1
    /\ UNCHANGED <<mix, registrations, authzs, request>>

Next ==
    \/ \E w \in Workers :
          \/ \E key \in Keys, contact \in Contacts \cup {None}, agreement \in Agreements :
                NewRegistration(w, key, contact, agreement)
          \/ checkRegistrationLimit(w) \/ NewRegistrationInsert(w)
          \/ \E id \in Ids :
                \/ \E contact \in Contacts \cup {NoContact, None}, agreement \in Agreements :
                      UpdateRequest(w, id, contact, agreement)
                \/ \E key \in Keys : KeyRollover(w, id, key)
                \/ DeactivateRequest(w, id)
                \/ NewAuthorization(w, id)
          \/ UpdateRegistration(w) \/ UpdateSelect(w) \/ UpdateWrite(w)
          \/ DeactivateRegistration(w)
          \/ checkPendingAuthorizationLimit(w) \/ checkInvalidAuthorizationLimit(w)
          \/ FindValid(w) \/ Reuse(w) \/ NewPendingAuthorization(w)
    \/ \E a \in DOMAIN authzs : Decide(a) \/ DeactivateAuthorization(a)
    \/ Tick

Spec == Init /\ [][Next]_vars

-----------------------------------------------------------------------------
\* Properties

\* The tables and the requests.
TypeOK ==
    /\ now \in Nat /\ mix \in SUBSET Kinds
    /\ registrations \in Seq(Rows) /\ authzs \in Seq(Authzs)
    /\ request \in [Workers -> Requests]

\* An account key belongs to one account, whatever registrations, rollovers
\* and stale updates (which write a key back) run at the same time.
KeysUnique == \A key \in Keys : Cardinality(Holding(key)) <= 1

\* checkPendingAuthorizationLimit counts what NewPendingAuthorization inserts
\* some steps later: the pending authorizations of an account overshoot its
\* limit at most by the other requests in progress.
PendingBounded ==
    Enabled(PendingPerAccount) =>
        \A id \in Ids : CountPendingAuthorizations(id)
            <= GetThreshold(PendingPerAccount, "", id) + Cardinality(Workers) - 1

\* checkInvalidAuthorizationLimit, which goes by the time authorizations
\* expire, counts the failed ones that were made within its window.
InvalidCounted ==
    \A id \in Ids :
        RecentInvalid(id) =
            Cardinality({a \in DOMAIN authzs :
                /\ authzs[a].reg = id /\ authzs[a].status = "invalid"
                /\ WindowBegin(InvalidPerAccount, now) < authzs[a].created})

Fields == {"contact", "agreement", "key", "status"}
Names(w, f) == f # "status" /\ request[w].input[f] \notin {None, ""}

\* sa.UpdateRegistration writes the whole row from the copy verifyPOST read.
\* A field the request does not name changes only when the row was written
\* since: by an update, which bumped LockCol, or by a deactivation.
UpdatesItsFields ==
    [][\A w \in Workers : request[w].step = "write" /\ request'[w] # request[w] =>
         LET row == registrations[request[w].id]
             written == registrations'[request[w].id]
         IN  \A f \in Fields : row[f] # written[f] =>
               \/ Names(w, f)
               \/ row.lockCol # request[w].copy.lockCol
               \/ row.status = "deactivated"]_vars

\* A deactivated account that no update is working on.
Closed(id) ==
    /\ registrations[id].status = "deactivated"
    /\ \A w \in Workers : request[w].kind \in {"update", "rollover"} => request[w].id # id

\* Only an update that verifyPOST let through before the deactivation can
\* undo it: once those have ended the account stays deactivated, and no
\* update of it begins.
DeactivationFinal == [][\A id \in Ids : Closed(id) => Closed(id)']_vars
=============================================================================
