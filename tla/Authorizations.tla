---------------------------- MODULE Authorizations ----------------------------
(***************************************************************************)
(* The life of an authorization: the pendingAuthorizations, authz and      *)
(* challenges tables of the SA, and everybody who writes them:             *)
(*   - challenge updates: the front end reads the authorization, the RA    *)
(*     stores the client's answer, a goroutine has the VA validate it and  *)
(*     finalizes the authorization with the verdict;                       *)
(*   - deactivations asked for by the account;                             *)
(*   - RevokeAuthorizationsByDomain, run by admin-revoker;                 *)
(*   - the expired-authz-purger.                                           *)
(*                                                                         *)
(* A transaction is two steps: its first read, which fixes the snapshot    *)
(* all its reads see (InnoDB's repeatable read), and its writes, which see *)
(* the current rows.  All authorizations are for one domain.               *)
(***************************************************************************)
EXTENDS Integers, FiniteSets

CONSTANTS
    Ids,                \* authorization ids
    Updates,            \* POSTs to a challenge, each a process
    Deactivations,      \* deactivation requests, each a process
    PendingLifetime,    \* ra.pendingAuthorizationLifetime
    Lifetime,           \* ra.authorizationLifetime
    Grace,              \* the purger's GracePeriod
    RPCTime,            \* the time an update, its validation and finalization
                        \* take at most: the sum of the calls' gRPC timeouts
    MaxIDs,             \* getAuthorizationIDsMax, the revoker's LIMIT
    MayFail,            \* whether calls fail, answers get lost and the RA dies
    Revoking, Purging,  \* whether the operators run admin-revoker and the purger
    MaxTime             \* bound: the model's last moment

ASSUME LifetimesAssumption ==
    /\ PendingLifetime \in Nat /\ Lifetime \in Nat /\ Grace \in Nat
    /\ RPCTime \in Nat /\ MaxTime \in Nat
    /\ MaxIDs \in Nat \ {0} 
    /\ MayFail \in BOOLEAN /\ Revoking \in BOOLEAN /\ Purging \in BOOLEAN
\* The purger refuses to run without a grace period; that it is longer than
\* the calls it must not overtake is left to its configuration.
ASSUME GraceAssumption == Grace > RPCTime

VARIABLES
    now,
    created,        \* ids drawn so far: tokens are never drawn twice
    pending,        \* id -> its row in pendingAuthorizations
    final,          \* id -> its row in authz
    challenges,     \* the ids that have their challenges in the challenges table
    update,         \* challenge update -> its progress
    deactivation,   \* deactivation -> its progress
    revoker,        \* the progress of RevokeAuthorizationsByDomain
    purger          \* the progress of the purger

tables == <<pending, final, challenges>>
vars == <<now, created, pending, final, challenges, update, deactivation,
          revoker, purger>>

Absent == "absent"
PendingStatuses == {"pending", "deactivated", "revoked"}
FinalStatuses == {"valid", "invalid", "deactivated", "revoked"}
Statuses == PendingStatuses \cup FinalStatuses

PendingRows == [status : PendingStatuses \cup {Absent}, expires : Nat, lockCol : Nat]
FinalRows == [status : FinalStatuses \cup {Absent}, expires : Nat]
NoPending == [status |-> Absent, expires |-> 0, lockCol |-> 0]
NoFinal == [status |-> Absent, expires |-> 0]

IsPending(id) == pending[id].status # Absent
IsFinal(id) == final[id].status # Absent

\* The progress of a challenge update: the authorization it works on and that
\* authorization's status and expiry as the front end read them, the version
\* its transaction has read, when the RA began, and the verdict.
UpdateSteps == {"idle", "got", "asked", "updating", "validating", "verdict",
                "finalizing", "refused", "lost", "done"}
UpdateStates == [step : UpdateSteps, id : Ids, status : Statuses \cup {Absent},
                 expires : Nat, version : Nat, began : Nat,
                 verdict : {"none", "valid", "invalid"}]

NoRequest(id) == [step |-> "idle", id |-> id, status |-> Absent, expires |-> 0,
                  version |-> 0, began |-> 0, verdict |-> "none"]

DeactivationSteps == {"idle", "got", "pendingAuthorizations", "authz", "done", "refused"}
DeactivationStates == [step : DeactivationSteps, id : Ids]

Tables == {"authz", "pendingAuthorizations"}
RevokerStates == [step : {"idle", "select", "update", "done", "failed"},
                  table : Tables, found : SUBSET Ids, from : Nat,
                  valid : SUBSET Ids]
PurgerStates == [step : {"idle", "select", "delete"}, table : Tables,
                 todo : SUBSET Ids, current : SUBSET Ids, before : Int]
NoRevocation == [step |-> "idle", table |-> "authz", found |-> {}, from |-> 0,
                 valid |-> {}]
NoPurge == [step |-> "idle", table |-> "pendingAuthorizations", todo |-> {},
            current |-> {}, before |-> 0]

-----------------------------------------------------------------------------

Init ==
    /\ now = 0
    /\ created = {}
    /\ pending = [id \in Ids |-> NoPending]
    /\ final = [id \in Ids |-> NoFinal]
    /\ challenges = {}
    /\ \E on \in [Updates -> Ids] : update = [u \in Updates |-> NoRequest(on[u])]
    /\ \E on \in [Deactivations -> Ids] :
          deactivation = [d \in Deactivations |-> [step |-> "idle", id |-> on[d]]]
    /\ revoker = NoRevocation
    /\ purger = NoPurge

\* sa.NewPendingAuthorization, called by ra.NewAuthorization.
NewPendingAuthorization(id) ==
    /\ id \notin created
    /\ created' = created \cup {id}
    /\ pending' = [pending EXCEPT ![id] =
           [status |-> "pending", expires |-> now + PendingLifetime, lockCol |-> 1]]
    /\ challenges' = challenges \cup {id}
    /\ UNCHANGED <<now, final, update, deactivation, revoker, purger>>

-----------------------------------------------------------------------------
\* Challenge updates

Advance(u, step) == update' = [update EXCEPT ![u].step = step]
\* Over, with nothing left but what it was.
End(u, step) == update' = [update EXCEPT ![u] = [NoRequest(@.id) EXCEPT !.step = step]]
OthersUnchanged == UNCHANGED <<now, created, deactivation, revoker, purger>>

\* The status and expiry sa.GetAuthorization returns: pending rows first.
GetAuthorization(id) ==
    IF IsPending(id) THEN [status |-> pending[id].status, expires |-> pending[id].expires]
                     ELSE [status |-> final[id].status, expires |-> final[id].expires]

\* wfe.Challenge reads the authorization before the request is verified; it
\* refuses an expired one and one whose challenges it does not find.
WFEChallenge(u) ==
    LET id == update[u].id
        read == GetAuthorization(id)
    IN  /\ update[u].step = "idle"
        /\ id \in created
        /\ IF read.status = Absent \/ read.expires < now \/ id \notin challenges
           THEN End(u, "refused")
           ELSE update' = [update EXCEPT ![u].step = "got", ![u].status = read.status,
                                         ![u].expires = read.expires]
        /\ UNCHANGED tables /\ OthersUnchanged

\* Mutant: the RA relies on the front end's check of the expiry.
UpdateAuthorization_Unchecked(u) ==
    /\ update[u].step = "got"
    /\ \/ update' = [update EXCEPT ![u].step = "asked", ![u].began = now]
       \/ End(u, "refused")
    /\ UNCHANGED tables /\ OthersUnchanged

\* The request is verified, then ra.UpdateAuthorization runs up to the call
\* that stores the answer; either may refuse it for what it carries.  (With
\* reuseValidAuthz the RA stops here for a valid authorization; without, the
\* SA refuses it.)
UpdateAuthorization(u) ==
    /\ update[u].step = "got"
    /\ \/ /\ update[u].expires >= now
          /\ update' = [update EXCEPT ![u].step = "asked", ![u].began = now]
       \/ End(u, "refused")
    /\ UNCHANGED tables /\ OthersUnchanged

\* sa.UpdatePendingAuthorization: the status it looks at is the caller's; its
\* reads find a pending row with its challenges and no final row.
UpdatePendingRead(u) ==
    LET p == update[u]
    IN  /\ p.step = "asked"
        /\ IF p.status = "pending" /\ ~ IsFinal(p.id) /\ IsPending(p.id) /\ p.id \in challenges
           THEN update' = [update EXCEPT ![u].step = "updating",
                                         ![u].version = pending[p.id].lockCol]
           ELSE End(u, "refused")
        /\ UNCHANGED tables /\ OthersUnchanged

\* gorp writes the caller's status and expiry over the row if it still has
\* the version read.  The RA goes on to validate unless the answer gets lost.
UpdatePendingWrite(u) ==
    LET p == update[u]
    IN  /\ p.step = "updating"
        /\ \/ /\ IsPending(p.id) /\ pending[p.id].lockCol = p.version
              /\ pending' = [pending EXCEPT ![p.id] =
                    [status |-> p.status, expires |-> p.expires, lockCol |-> p.version + 1]]
              /\ \/ Advance(u, "validating")
                 \/ MayFail /\ End(u, "refused")
           \/ /\ ~ (IsPending(p.id) /\ pending[p.id].lockCol = p.version)
              /\ End(u, "refused")
              /\ UNCHANGED pending
        /\ UNCHANGED <<final, challenges>> /\ OthersUnchanged

\* ra.onValidationUpdate: the authorization takes its status from the
\* challenge's, and a valid one the lifetime of a final authorization.
onValidationUpdate(p, v) ==
    [p EXCEPT !.step = "verdict", !.verdict = v,
              !.expires = IF v = "valid" THEN now + Lifetime ELSE @]

\* Mutant: the goroutine returns when the validation fails.
PerformValidation_Returns(u) ==
    /\ update[u].step = "validating"
    /\ \/ update' = [update EXCEPT ![u] = onValidationUpdate(@, "valid")]
       \/ End(u, "lost")
    /\ UNCHANGED tables /\ OthersUnchanged

\* va.PerformValidation answers, or the call fails, which counts as invalid.
PerformValidation(u) ==
    /\ update[u].step = "validating"
    /\ \E v \in {"valid", "invalid"} :
          update' = [update EXCEPT ![u] = onValidationUpdate(@, v)]
    /\ UNCHANGED tables /\ OthersUnchanged

\* sa.FinalizeAuthorization, called by ra.onValidationUpdate: its reads find
\* a pending row, whatever its status, and the challenges.
FinalizeRead(u) ==
    LET p == update[u]
    IN  /\ p.step = "verdict"
        /\ IF IsPending(p.id) /\ p.id \in challenges
           THEN update' = [update EXCEPT ![u].step = "finalizing",
                                         ![u].version = pending[p.id].lockCol]
           ELSE End(u, "lost")
        /\ UNCHANGED tables /\ OthersUnchanged

\* Mutant: the pending row is not deleted.
FinalizeWrite_KeepsPending(u) ==
    LET p == update[u]
    IN  /\ p.step = "finalizing"
        /\ \/ /\ ~ IsFinal(p.id) /\ IsPending(p.id) /\ pending[p.id].lockCol = p.version
              /\ final' = [final EXCEPT ![p.id] = [status |-> p.verdict, expires |-> p.expires]]
              /\ UNCHANGED pending
              /\ update' = [update EXCEPT ![u] =
                    [NoRequest(p.id) EXCEPT !.step = "done", !.verdict = p.verdict]]
           \/ /\ IsFinal(p.id) \/ ~ IsPending(p.id) \/ pending[p.id].lockCol # p.version
              /\ End(u, "lost")
              /\ UNCHANGED <<pending, final>>
        /\ UNCHANGED challenges /\ OthersUnchanged

\* Mutant: INSERT ... ON DUPLICATE KEY UPDATE, and an unversioned DELETE.
FinalizeWrite_Upsert(u) ==
    LET p == update[u]
    IN  /\ p.step = "finalizing"
        /\ final' = [final EXCEPT ![p.id] = [status |-> p.verdict, expires |-> p.expires]]
        /\ pending' = [pending EXCEPT ![p.id] = NoPending]
        /\ update' = [update EXCEPT ![u] =
              [NoRequest(p.id) EXCEPT !.step = "done", !.verdict = p.verdict]]
        /\ UNCHANGED challenges /\ OthersUnchanged

\* Insert into authz, which has the id as its key, and delete the version
\* read from pendingAuthorizations.
FinalizeWrite(u) ==
    LET p == update[u]
    IN  /\ p.step = "finalizing"
        /\ \/ /\ ~ IsFinal(p.id) /\ IsPending(p.id) /\ pending[p.id].lockCol = p.version
              /\ final' = [final EXCEPT ![p.id] =
                    [status |-> p.verdict, expires |-> p.expires]]
              /\ pending' = [pending EXCEPT ![p.id] = NoPending]
              /\ update' = [update EXCEPT ![u] =
                    [NoRequest(p.id) EXCEPT !.step = "done", !.verdict = p.verdict]]
           \/ /\ IsFinal(p.id) \/ ~ IsPending(p.id) \/ pending[p.id].lockCol # p.version
              /\ End(u, "lost")
              /\ UNCHANGED <<pending, final>>
        /\ UNCHANGED challenges /\ OthersUnchanged

\* The steps between the RA's first check and the end of its last call.
InFlight == {"asked", "updating", "validating", "verdict", "finalizing"}

\* The RA dies, with the goroutine that waits for the VA, or the SA's
\* transaction fails and is rolled back.
UpdateFails(u) ==
    /\ MayFail
    /\ update[u].step \in InFlight
    /\ End(u, "lost")
    /\ UNCHANGED tables /\ OthersUnchanged

-----------------------------------------------------------------------------
\* Deactivations

MoveTo(d, step) == deactivation' = [deactivation EXCEPT ![d].step = step]

\* ra.DeactivateAuthorization looks at the status the front end read.
DeactivateAuthorization(status) == status \in {"valid", "pending"}

\* wfe.Authorization reads the authorization, refuses an expired one, and asks
\* the RA once the request is verified.
AskDeactivation(d) ==
    LET id == deactivation[d].id
        read == GetAuthorization(id)
    IN  /\ deactivation[d].step = "idle"
        /\ id \in created
        /\ \/ DeactivateAuthorization(read.status) /\ read.expires >= now /\ MoveTo(d, "got")
           \/ MoveTo(d, "refused")
        /\ UNCHANGED <<now, created, tables, update, revoker, purger>>

\* sa.DeactivateAuthorization chooses the table by existingPending ...
DeactivateRead(d) ==
    /\ deactivation[d].step = "got"
    /\ MoveTo(d, IF IsPending(deactivation[d].id) THEN "pendingAuthorizations" ELSE "authz")
    /\ UNCHANGED <<now, created, tables, update, revoker, purger>>

\* Mutant: the UPDATE leaves out the old status.
DeactivateWrite_AnyStatus(d) ==
    LET id == deactivation[d].id
    IN  /\ \/ /\ deactivation[d].step = "pendingAuthorizations"
              /\ pending' = IF IsPending(id)
                            THEN [pending EXCEPT ![id].status = "deactivated"] ELSE pending
              /\ UNCHANGED final
           \/ /\ deactivation[d].step = "authz"
              /\ final' = IF IsFinal(id)
                          THEN [final EXCEPT ![id].status = "deactivated"] ELSE final
              /\ UNCHANGED pending
        /\ MoveTo(d, "done")
        /\ UNCHANGED <<now, created, challenges, update, revoker, purger>>

\* ... and updates that table WHERE id and the old status match; an UPDATE
\* that matches nothing is a success too.
DeactivateWrite(d) ==
    LET id == deactivation[d].id
    IN  /\ \/ /\ deactivation[d].step = "pendingAuthorizations"
              /\ pending' = IF pending[id].status = "pending"
                            THEN [pending EXCEPT ![id].status = "deactivated"] ELSE pending
              /\ UNCHANGED final
           \/ /\ deactivation[d].step = "authz"
              /\ final' = IF final[id].status = "valid"
                          THEN [final EXCEPT ![id].status = "deactivated"] ELSE final
              /\ UNCHANGED pending
        /\ MoveTo(d, "done")
        /\ UNCHANGED <<now, created, challenges, update, revoker, purger>>

-----------------------------------------------------------------------------
\* RevokeAuthorizationsByDomain

\* It starts, or is run again after an error.  "valid" is history: the
\* unexpired authorizations that are valid when it starts.
RevokeStart ==
    LET live == {id \in Ids : GetAuthorization(id).expires > now}
    IN  /\ Revoking /\ revoker.step \in {"idle", "failed"}
        /\ revoker' = [step |-> "select", table |-> "authz", found |-> {}, from |-> now,
                       valid |-> {id \in live : final[id].status = "valid"}]
        /\ UNCHANGED <<now, created, tables, update, deactivation, purger>>

\* getAuthorizationIDsByDomain: what the table holds for the domain.
Revocable(table, from) ==
    {id \in Ids :
        LET row == IF table = "authz" THEN final[id] ELSE pending[id]
        IN  row.status \notin {Absent, "invalid", "revoked"} /\ row.expires > from}

\* Mutant: one batch per table.
RevokeSelect_OneBatch ==
    LET eligible == Revocable(revoker.table, revoker.from)
    IN  /\ revoker.step = "select"
        /\ \/ /\ eligible # {} /\ revoker.table = "authz"
              /\ \E found \in SUBSET eligible :
                    /\ found # {} /\ Cardinality(found) <= MaxIDs
                    /\ final' = [id \in Ids |-> IF id \in found
                           THEN [final[id] EXCEPT !.status = "revoked"] ELSE final[id]]
              /\ revoker' = [revoker EXCEPT !.table = "pendingAuthorizations"]
           \/ /\ eligible = {} /\ revoker.table = "authz"
              /\ revoker' = [revoker EXCEPT !.table = "pendingAuthorizations"]
              /\ UNCHANGED final
           \/ /\ revoker.table = "pendingAuthorizations"
              /\ revoker' = [revoker EXCEPT !.step = "done"]
              /\ UNCHANGED final
        /\ UNCHANGED <<now, created, pending, challenges, update, deactivation, purger>>

RevokeSelect ==
    LET eligible == Revocable(revoker.table, revoker.from)
    IN  /\ revoker.step = "select"
        /\ \/ /\ eligible # {}
              /\ \E found \in SUBSET eligible :
                    /\ found # {} /\ Cardinality(found) <= MaxIDs
                    /\ found = eligible \/ Cardinality(found) = MaxIDs
                    /\ revoker' = [revoker EXCEPT !.step = "update", !.found = found]
           \/ /\ eligible = {} /\ revoker.table = "authz"
              /\ revoker' = [revoker EXCEPT !.table = "pendingAuthorizations"]
           \/ /\ eligible = {} /\ revoker.table = "pendingAuthorizations"
              /\ revoker' = [revoker EXCEPT !.step = "done", !.from = 0]
        /\ UNCHANGED <<now, created, tables, update, deactivation, purger>>

\* revokeAuthorizations: the ids found, whatever their status is by now.  It
\* is an error if one of them has left the table.
RevokeUpdate ==
    LET there == {id \in revoker.found :
                     IF revoker.table = "authz" THEN IsFinal(id) ELSE IsPending(id)}
    IN  /\ revoker.step = "update"
        /\ IF revoker.table = "authz"
           THEN /\ final' = [id \in Ids |-> IF id \in there
                        THEN [final[id] EXCEPT !.status = "revoked"] ELSE final[id]]
                /\ UNCHANGED pending
           ELSE /\ pending' = [id \in Ids |-> IF id \in there
                        THEN [pending[id] EXCEPT !.status = "revoked"] ELSE pending[id]]
                /\ UNCHANGED final
        /\ revoker' = IF there = revoker.found
                      THEN [revoker EXCEPT !.step = "select", !.found = {}]
                      ELSE [NoRevocation EXCEPT !.step = "failed"]
        /\ UNCHANGED <<now, created, challenges, update, deactivation, purger>>

\* The admin-revoker's call of the SA fails.
RevokeFails ==
    /\ MayFail
    /\ revoker.step \in {"select", "update"}
    /\ revoker' = [NoRevocation EXCEPT !.step = "failed"]
    /\ UNCHANGED <<now, created, tables, update, deactivation, purger>>

-----------------------------------------------------------------------------
\* The expired-authz-purger

PurgerUnchanged == UNCHANGED <<now, created, update, deactivation, revoker>>

PurgeStart ==
    /\ Purging /\ purger.step = "idle"
    /\ purger' = [purger EXCEPT !.step = "select", !.before = now - Grace]
    /\ UNCHANGED tables /\ PurgerUnchanged

Expired(table, before) ==
    {id \in Ids : LET row == IF table = "authz" THEN final[id] ELSE pending[id]
                  IN  row.status # Absent /\ row.expires <= before}

\* The ids are read page by page with OFFSET: rows that leave the table
\* between two pages make it skip others.
PurgeSelect ==
    /\ purger.step = "select"
    /\ \E ids \in SUBSET Expired(purger.table, purger.before) :
          purger' = [purger EXCEPT !.step = "delete", !.todo = ids]
    /\ UNCHANGED tables /\ PurgerUnchanged

\* Mutant: the row goes first.
PurgeChallenges_RowFirst(id) ==
    /\ purger.step = "delete" /\ purger.current = {} /\ id \in purger.todo
    /\ IF purger.table = "authz"
       THEN final' = [final EXCEPT ![id] = NoFinal] /\ UNCHANGED pending
       ELSE pending' = [pending EXCEPT ![id] = NoPending] /\ UNCHANGED final
    /\ purger' = [purger EXCEPT !.todo = @ \ {id}, !.current = {id}]
    /\ UNCHANGED challenges /\ PurgerUnchanged

\* For each id, first its challenges, then its row.
PurgeChallenges(id) ==
    /\ purger.step = "delete" /\ purger.current = {} /\ id \in purger.todo
    /\ challenges' = challenges \ {id}
    /\ purger' = [purger EXCEPT !.todo = @ \ {id}, !.current = {id}]
    /\ UNCHANGED <<pending, final>> /\ PurgerUnchanged

PurgeRow(id) ==
    /\ purger.step = "delete" /\ id \in purger.current
    /\ IF purger.table = "authz"
       THEN final' = [final EXCEPT ![id] = NoFinal] /\ UNCHANGED pending
       ELSE pending' = [pending EXCEPT ![id] = NoPending] /\ UNCHANGED final
    /\ purger' = [purger EXCEPT !.current = {}]
    /\ UNCHANGED challenges /\ PurgerUnchanged

\* The table is done: on to authz, or the end of the run.
PurgeNextTable ==
    /\ purger.step = "delete" /\ purger.current = {} /\ purger.todo = {}
    /\ purger' = IF purger.table = "pendingAuthorizations"
                 THEN [purger EXCEPT !.step = "select", !.table = "authz"]
                 ELSE NoPurge
    /\ UNCHANGED tables /\ PurgerUnchanged

\* The operator does not confirm, or a statement fails.
PurgeStops ==
    /\ purger.step # "idle"
    /\ purger' = NoPurge
    /\ UNCHANGED tables /\ PurgerUnchanged

-----------------------------------------------------------------------------

\* A call answers or fails within its timeout.
ClockTick ==
    /\ now < MaxTime
    /\ \A u \in Updates : update[u].step \in InFlight => now < update[u].began + RPCTime
    /\ now' = now + 1
    /\ UNCHANGED <<created, tables, update, deactivation, revoker, purger>>

UpdateStep(u) ==
    \/ UpdatePendingRead(u) \/ UpdatePendingWrite(u) \/ PerformValidation(u)
    \/ FinalizeRead(u) \/ FinalizeWrite(u)

Next ==
    \/ \E id \in Ids : NewPendingAuthorization(id) \/ PurgeChallenges(id) \/ PurgeRow(id)
    \/ \E u \in Updates :
          WFEChallenge(u) \/ UpdateAuthorization(u) \/ UpdateStep(u) \/ UpdateFails(u)
    \/ \E d \in Deactivations : AskDeactivation(d) \/ DeactivateRead(d) \/ DeactivateWrite(d)
    \/ RevokeStart \/ RevokeSelect \/ RevokeUpdate \/ RevokeFails
    \/ PurgeStart \/ PurgeSelect \/ PurgeNextTable \/ PurgeStops
    \/ ClockTick

Spec == Init /\ [][Next]_vars

\* The RA and the SA finish what they have begun.
FairSpec == Spec /\ \A u \in Updates : WF_vars(UpdateStep(u))

-----------------------------------------------------------------------------
\* Properties

\* The variables range over the rows of the tables (a final row never has the
\* status "pending") and the states of those who write them.
TypeOK ==
    /\ now \in Nat
    /\ created \subseteq Ids
    /\ pending \in [Ids -> PendingRows]
    /\ final \in [Ids -> FinalRows]
    /\ challenges \subseteq Ids
    /\ update \in [Updates -> UpdateStates]
    /\ deactivation \in [Deactivations -> DeactivationStates]
    /\ revoker \in RevokerStates
    /\ purger \in PurgerStates

\* However many updates race to finalize an authorization and whatever the
\* purger, deactivations and revocations do, an id is never in both tables:
\* FinalizeAuthorization moves it (sa.go, insert and versioned delete in one
\* transaction).
OneTable == \A id \in Ids : ~ (IsPending(id) /\ IsFinal(id))

\* A final authorization was decided by exactly one validation, and its
\* status tells which way that one went: only a successful one leads to
\* valid, deactivated or revoked, only a failed one to invalid.
DecidedByOneVerdict ==
    \A id \in Ids : IsFinal(id) =>
        \E u \in Updates :
            /\ update[u].id = id /\ update[u].step = "done"
            /\ update[u].verdict = IF final[id].status = "invalid" THEN "invalid" ELSE "valid"
            /\ \A v \in Updates \ {u} : ~ (update[v].id = id /\ update[v].step = "done")

\* An authorization keeps its challenges as long as it has not been expired
\* for the grace period, although the purger deletes challenges by id in a
\* statement of its own while updates move the id to the other table and
\* give it a new expiry.
ChallengesKept ==
    \A id \in Ids :
        /\ IsPending(id) /\ pending[id].expires + Grace > now => id \in challenges
        /\ IsFinal(id) /\ final[id].expires + Grace > now => id \in challenges

\* The purger never orphans challenges, wherever it is stopped ("so that we
\* don't ever orphan challenges", cmd/expired-authz-purger/main.go).
NoOrphans == \A id \in challenges : IsPending(id) \/ IsFinal(id)

\* A revocation by domain that reports success has left none of the
\* authorizations that were valid when it started valid, although it works in
\* batches and others write the table meanwhile.
ValidOnesRevoked ==
    revoker.step = "done" => \A id \in revoker.valid : final[id].status # "valid"

\* The status of a final authorization only ever goes from valid to
\* deactivated or revoked and from deactivated to revoked, and the row only
\* goes away once it has been expired for the grace period.
StatusDescends ==
    [][\A id \in Ids : IsFinal(id) =>
          \/ final'[id] = final[id]
          \/ /\ final'[id].expires = final[id].expires
             /\ <<final[id].status, final'[id].status>> \in
                   {<<"valid", "deactivated">>, <<"valid", "revoked">>,
                    <<"deactivated", "revoked">>}
          \/ final'[id].status = Absent /\ final[id].expires + Grace <= now]_vars

\* Once an update has been stored and its validation dispatched, the
\* authorization leaves the pending table, although a later update of it can
\* make the finalization fail on the row's version.
ValidationDecides ==
    \A u \in Updates :
        update[u].step = "validating" ~> ~ IsPending(update[u].id)
=============================================================================
