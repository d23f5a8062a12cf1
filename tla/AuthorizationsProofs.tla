------------------------- MODULE AuthorizationsProofs -------------------------
(***************************************************************************)
(* For any number of authorizations, updates and deactivations, any batch  *)
(* size and any lifetimes (with a grace period that is longer than the     *)
(* calls take): what Authorizations states of its tables.                  *)
(***************************************************************************)
EXTENDS Authorizations, TLAPS

\* Nothing is there for an id that was not drawn.
Known ==
    \A id \in Ids \ created : ~ IsPending(id) /\ ~ IsFinal(id) /\ id \notin challenges

\* A challenge update: what it works on has been there; the expiry it has read
\* is the row's, which never changes; it began before that expiry and has
\* taken no longer than its calls may; and the update that has finalized an
\* authorization is the last to do so.
Stored == {"updating", "validating", "verdict", "finalizing"}

UpdateOK(u) ==
    LET p == update[u]
    IN  /\ p.step # "idle" => p.id \in created
        /\ p.step \in Stored => p.status = "pending"
        /\ p.step \in InFlight => now <= p.began + RPCTime
        /\ p.step \in {"verdict", "finalizing", "done"} => p.verdict # "none"
        /\ p.step = "done" => ~ IsPending(p.id)
        /\ (p.status = "pending" /\ IsPending(p.id)) =>
              /\ p.step \in {"got", "asked", "updating"} => p.expires = pending[p.id].expires
              /\ p.step \in InFlight => p.began <= pending[p.id].expires

UpdateInv == \A u \in Updates : UpdateOK(u)

\* An id that was in authz once.
Settled(id) == id \in created /\ ~ IsPending(id)

\* The revoker: what it found in authz is not, and will not be, invalid; what
\* was valid when it began is done with once authz is.
RevokerInv ==
    /\ (revoker.step = "update" /\ revoker.table = "authz")
          => \A id \in revoker.found : Settled(id) /\ final[id].status # "invalid"
    /\ \A id \in revoker.valid :
          /\ Settled(id)
          /\ revoker.step \in {"select", "update"} /\ IsFinal(id) => final[id].expires > revoker.from
          /\ revoker.step = "done" \/ revoker.table = "pendingAuthorizations"
                => final[id].status # "valid"

Held == purger.todo \cup purger.current

\* The purger: what it holds has been expired for the grace period, and stays
\* in its table, since no update that could move it is under way any more.
PurgerInv ==
    /\ purger.step # "idle" => purger.before + Grace <= now
    /\ purger.step # "delete" => Held = {}
    /\ purger.current \cap challenges = {}
    /\ purger.table = "pendingAuthorizations" =>
          \A id \in Held : /\ id \in created /\ ~ IsFinal(id)
                           /\ IsPending(id) => pending[id].expires <= purger.before
    /\ purger.table = "authz" =>
          \A id \in Held : /\ Settled(id)
                           /\ IsFinal(id) => final[id].expires <= purger.before

Inv ==
    /\ TypeOK /\ Known /\ OneTable /\ DecidedByOneVerdict /\ UpdateInv
    /\ RevokerInv /\ PurgerInv /\ ChallengesKept /\ NoOrphans

-----------------------------------------------------------------------------
\* What a step does to the tables, and what that leaves alone.

USE LifetimesAssumption, GraceAssumption

\* What a step may do to an id that was drawn: its pending row keeps its
\* expiry, its final row too and only gets the status deactivated or revoked;
\* only from the pending table does it come to the final one.
Later(id) ==
    /\ IsPending(id)' => IsPending(id) /\ pending'[id].expires = pending[id].expires
    /\ IsFinal(id)' =>
          \/ IsPending(id)
          \/ /\ IsFinal(id)
             /\ final'[id].expires = final[id].expires
             /\ final'[id].status # final[id].status
                    => final'[id].status \in {"deactivated", "revoked"}

\* A step that leaves both tables alone is such a step.
LEMMA SameTables ==
    ASSUME UNCHANGED <<pending, final>>
    PROVE  \A id \in Ids : Later(id)
BY Zenon DEF Later, IsPending, IsFinal

\* An update that does not move does not mind the others' steps.
LEMMA UpdateStays ==
    ASSUME TypeOK, NEW u \in Updates, UpdateOK(u), update'[u] = update[u], now' = now,
           created \subseteq created', \A id \in created : Later(id)
    PROVE  UpdateOK(u)'
<1>1. update[u].step # "idle" => update[u].id \in created
  BY Zenon DEF UpdateOK
<1>2. CASE update[u].step = "idle"
  BY Zenon, <1>2 DEF UpdateOK, Stored, InFlight
<1>3. CASE update[u].step # "idle"
  BY Zenon, <1>1, <1>3 DEF UpdateOK, Stored, InFlight, Later, IsPending
<1> QED
  BY Zenon, <1>2, <1>3

\* Nor does the revoker.
LEMMA RevokerStays ==
    ASSUME RevokerInv, revoker' = revoker,
           created \subseteq created', \A id \in created : Later(id)
    PROVE  RevokerInv'
<1>1. \A id \in created : Settled(id) =>
          /\ Settled(id)'
          /\ IsFinal(id)' => IsFinal(id) /\ final'[id].expires = final[id].expires
          /\ final[id].status # "invalid" => final'[id].status # "invalid"
          /\ final[id].status # "valid" => final'[id].status # "valid"
  BY Zenon DEF Later, Settled, IsFinal, IsPending, Absent
<1> QED
  BY Zenon, <1>1 DEF RevokerInv, Settled

\* Nor does the purger, unless an id it holds leaves the pending table for the
\* final one.
LEMMA PurgerStays ==
    ASSUME TypeOK, PurgerInv, purger' = purger, now' \in Nat, now' >= now,
           challenges' \cap created \subseteq challenges,
           created \subseteq created', \A id \in created : Later(id),
           \A id \in Held : IsPending(id) => ~ IsFinal(id)'
    PROVE  PurgerInv'
<1>1. Held' = Held /\ purger.before \in Int /\ now \in Nat
  BY Zenon DEF Held, TypeOK, PurgerStates
<1>2. purger.table \in Tables
  BY Zenon DEF TypeOK, PurgerStates
<1>3. \A id \in Held : id \in created
  BY Zenon, <1>2 DEF PurgerInv, Tables, Settled
<1>4. purger.current \subseteq Held
  BY Zenon DEF Held
<1>5. (purger.current \cap challenges = {})'
  BY Zenon, <1>3, <1>4 DEF PurgerInv
<1>6. CASE purger.table = "pendingAuthorizations"
  BY <1>1, <1>3, <1>5, <1>6 DEF PurgerInv, Later, IsPending, IsFinal
<1>7. CASE purger.table = "authz"
  BY <1>1, <1>3, <1>5, <1>7 DEF PurgerInv, Later, Settled, IsPending, IsFinal
<1> QED
  BY Zenon, <1>2, <1>6, <1>7 DEF Tables

Done(u) == update[u].step = "done"

\* Nor does the decision of an authorization.
LEMMA DecidedStays ==
    ASSUME DecidedByOneVerdict,
           \A u \in Updates : /\ update'[u].id = update[u].id /\ Done(u)' = Done(u)
                              /\ Done(u) => update'[u].verdict = update[u].verdict,
           \A id \in Ids : IsFinal(id)' =>
               /\ IsFinal(id)
               /\ final'[id].status = "invalid" <=> final[id].status = "invalid"
    PROVE  DecidedByOneVerdict'
<1> SUFFICES ASSUME NEW id \in Ids, IsFinal(id)'
             PROVE  \E u \in Updates :
                      /\ update'[u].id = id /\ update'[u].step = "done"
                      /\ update'[u].verdict = IF final'[id].status = "invalid" THEN "invalid" ELSE "valid"
                      /\ \A v \in Updates \ {u} : ~ (update'[v].id = id /\ update'[v].step = "done")
  BY Zenon DEF DecidedByOneVerdict
<1>1. PICK u \in Updates :
          /\ update[u].id = id /\ update[u].step = "done"
          /\ update[u].verdict = IF final[id].status = "invalid" THEN "invalid" ELSE "valid"
          /\ \A v \in Updates \ {u} : ~ (update[v].id = id /\ update[v].step = "done")
  BY Zenon DEF DecidedByOneVerdict
<1> QED
  BY <1>1 DEF Done

\* A step of one update that leaves the tables and the others alone keeps the
\* invariant if the update is in order.
LEMMA UpdateMoves ==
    ASSUME Inv, NEW u \in Updates, NEW p \in UpdateStates,
           update' = [update EXCEPT ![u] = p], p.id = update[u].id,
           ~ Done(u), p.step # "done", UpdateOK(u)',
           UNCHANGED tables, OthersUnchanged
    PROVE  Inv'
<1>1. /\ UNCHANGED <<now, created, pending, final, challenges, deactivation, revoker, purger>>
      /\ update \in [Updates -> UpdateStates] /\ now \in Nat
      /\ \A id \in Ids : Later(id)
      /\ created \subseteq Ids
  BY Zenon, SameTables DEF tables, OthersUnchanged, Inv, TypeOK
<1>2. /\ update' \in [Updates -> UpdateStates]
      /\ update'[u] = p /\ \A v \in Updates \ {u} : update'[v] = update[v]
  BY Zenon, <1>1
<1>3. TypeOK'
  BY Zenon, <1>1, <1>2 DEF Inv, TypeOK
<1>4. UpdateInv'
  BY Zenon, <1>1, <1>2, UpdateStays DEF Inv, UpdateInv
<1>5. DecidedByOneVerdict'
  BY Zenon, <1>1, <1>2, DecidedStays DEF Inv, Done, IsFinal
<1>6. RevokerInv'
  BY Zenon, <1>1, RevokerStays DEF Inv
<1>7. PurgerInv'
  <2>1. \A id \in Held : IsPending(id) => ~ IsFinal(id)'
    BY Zenon, <1>1 DEF Inv, OneTable, IsFinal, IsPending, Held, TypeOK, PurgerStates
  <2> QED
    BY <1>1, <2>1, PurgerStays DEF Inv
<1>8. (Known /\ OneTable /\ ChallengesKept /\ NoOrphans)'
  BY Zenon, <1>1 DEF Inv, Known, OneTable, ChallengesKept, NoOrphans, IsPending, IsFinal
<1> QED
  BY Zenon, <1>3, <1>4, <1>5, <1>6, <1>7, <1>8 DEF Inv

\* An update that ends without a result is in order.
LEMMA EndInv ==
    ASSUME Inv, NEW u \in Updates, NEW step \in {"refused", "lost"}, End(u, step),
           ~ Done(u), update[u].step # "idle" \/ update[u].id \in created,
           UNCHANGED tables, OthersUnchanged
    PROVE  Inv'
<1> DEFINE p == [NoRequest(update[u].id) EXCEPT !.step = step]
<1>1. /\ update \in [Updates -> UpdateStates] /\ update[u].id \in Ids
      /\ update[u].id \in created
      /\ UNCHANGED created
  BY Zenon DEF Inv, TypeOK, UpdateStates, UpdateInv, UpdateOK, OthersUnchanged
<1>2. /\ p.step = step /\ p.id = update[u].id /\ p.status = Absent /\ p \in UpdateStates
  BY Zenon, <1>1 DEF NoRequest, UpdateStates, UpdateSteps
<1> HIDE DEF p
<1>3. update' = [update EXCEPT ![u] = p] /\ update'[u] = p
  BY Zenon, <1>1 DEF End, p
<1>4. UpdateOK(u)'
  BY Zenon, <1>1, <1>2, <1>3 DEF UpdateOK, Stored, InFlight, Absent
<1> QED
  BY Zenon, <1>2, <1>3, <1>4, UpdateMoves

-----------------------------------------------------------------------------
\* One lemma per action of Next.

\* In the initial state nothing has happened.
LEMMA InitInv == Init => Inv
<1> SUFFICES ASSUME Init PROVE Inv
  BY Zenon
<1>1. PICK on \in [Updates -> Ids] : update = [u \in Updates |-> NoRequest(on[u])]
  BY Zenon DEF Init
<1>2. \A u \in Updates : /\ update[u] \in UpdateStates /\ update[u].step = "idle"
                         /\ update[u].status = Absent
  BY Zenon, <1>1 DEF NoRequest, UpdateStates, UpdateSteps
<1>3. /\ NoPending \in PendingRows /\ NoFinal \in FinalRows
      /\ NoPending.status = Absent /\ NoFinal.status = Absent
  BY Zenon DEF NoPending, NoFinal, PendingRows, FinalRows
<1>4. NoRevocation \in RevokerStates /\ NoPurge \in PurgerStates
  BY DEF NoRevocation, NoPurge, RevokerStates, PurgerStates, Tables
<1>5. TypeOK
  BY <1>1, <1>2, <1>3, <1>4 DEF Init, TypeOK, DeactivationStates, DeactivationSteps
<1>6. Known /\ OneTable /\ DecidedByOneVerdict /\ ChallengesKept /\ NoOrphans
  BY Zenon, <1>3 DEF Init, Known, OneTable, DecidedByOneVerdict, ChallengesKept, NoOrphans,
              IsPending, IsFinal
<1>7. UpdateInv
  BY Zenon, <1>2 DEF UpdateInv, UpdateOK, Stored, InFlight, Absent
<1>8. RevokerInv /\ PurgerInv
  BY Zenon DEF Init, RevokerInv, PurgerInv, NoRevocation, NoPurge, Held
<1> QED
  BY Zenon, <1>5, <1>6, <1>7, <1>8 DEF Inv

\* A new authorization: nobody knows its id yet.
LEMMA NewPendingInv ==
    ASSUME Inv, NEW id \in Ids, NewPendingAuthorization(id)
    PROVE  Inv'
<1> DEFINE new == [status |-> "pending", expires |-> now + PendingLifetime, lockCol |-> 1]
<1>1. /\ pending' = [pending EXCEPT ![id] = new] /\ pending \in [Ids -> PendingRows]
      /\ now \in Nat /\ id \notin created /\ created' = created \cup {id}
      /\ challenges' = challenges \cup {id} /\ created \subseteq Ids
      /\ UNCHANGED <<now, final, update, deactivation, revoker, purger>>
  BY Zenon DEF NewPendingAuthorization, Inv, TypeOK
<1>2. new \in PendingRows /\ new.status = "pending"
  BY <1>1 DEF PendingRows, PendingStatuses
<1> HIDE DEF new
<1>3. /\ pending' \in [Ids -> PendingRows] /\ pending'[id] = new
      /\ \A i \in Ids \ {id} : pending'[i] = pending[i]
  BY Zenon, <1>1, <1>2
<1>4. TypeOK'
  BY Zenon, <1>1, <1>3 DEF Inv, TypeOK
<1>5. \A i \in created : Later(i)
  BY Zenon, <1>1, <1>3 DEF Later, IsPending, IsFinal
<1>6. UpdateInv'
  BY Zenon, <1>1, <1>5, UpdateStays DEF Inv, UpdateInv
<1>7. RevokerInv'
  BY Zenon, <1>1, <1>5, RevokerStays DEF Inv
<1>8. PurgerInv'
  <2>1. \A i \in Held : IsPending(i) => ~ IsFinal(i)'
    BY Zenon, <1>1 DEF Inv, OneTable, IsFinal, IsPending, Held, TypeOK, PurgerStates
  <2> QED
    BY <1>1, <1>5, <2>1, PurgerStays DEF Inv
<1>9. DecidedByOneVerdict'
  BY <1>1 DEF Inv, DecidedByOneVerdict, IsFinal
<1>10. (Known /\ OneTable /\ ChallengesKept /\ NoOrphans)'
  BY <1>1, <1>2, <1>3
  DEF Inv, Known, OneTable, ChallengesKept, NoOrphans, IsPending, IsFinal, Absent
<1> QED
  BY Zenon, <1>4, <1>6, <1>7, <1>8, <1>9, <1>10 DEF Inv

\* The front end's read: the status and the expiry of the row there is.
LEMMA WFEChallengeInv ==
    ASSUME Inv, NEW u \in Updates, WFEChallenge(u)
    PROVE  Inv'
<1> DEFINE id == update[u].id
           read == GetAuthorization(id)
           p == [update[u] EXCEPT !.step = "got", !.status = read.status, !.expires = read.expires]
<1>1. /\ update \in [Updates -> UpdateStates] /\ update[u] \in UpdateStates /\ id \in Ids
      /\ update[u].step = "idle" /\ id \in created
      /\ pending[id] \in PendingRows /\ final[id] \in FinalRows
      /\ UNCHANGED tables /\ OthersUnchanged
  BY Zenon DEF WFEChallenge, Inv, TypeOK, UpdateStates
<1>2. CASE End(u, "refused")
  BY Zenon, <1>1, <1>2, EndInv DEF Done
<1>3. CASE ~ End(u, "refused")
  <2>1. update' = [update EXCEPT ![u] = p]
    BY Zenon, <1>1, <1>3 DEF WFEChallenge, UpdateStates
  <2>2. /\ read.status \in Statuses \cup {Absent} /\ read.expires \in Nat
        /\ IsPending(id) => read.expires = pending[id].expires
    BY Zenon, <1>1 DEF GetAuthorization, PendingRows, FinalRows, Statuses
  <2> HIDE DEF read
  <2>3. /\ p \in UpdateStates /\ p.step = "got" /\ p.id = id /\ p.expires = read.expires
    BY Zenon, <1>1, <2>2 DEF UpdateStates, UpdateSteps
  <2> HIDE DEF p
  <2>4. update'[u] = p
    BY Zenon, <1>1, <2>1
  <2>5. UpdateOK(u)'
    BY Zenon, <1>1, <2>2, <2>3, <2>4 DEF UpdateOK, Stored, InFlight, tables, OthersUnchanged, IsPending
  <2> QED
    BY Zenon, <1>1, <2>1, <2>3, <2>5, UpdateMoves DEF Done
<1> QED
  BY Zenon, <1>2, <1>3

\* The RA's check of the expiry: the clock of the calls starts before it.
LEMMA UpdateAuthorizationInv ==
    ASSUME Inv, NEW u \in Updates, UpdateAuthorization(u)
    PROVE  Inv'
<1> DEFINE p == [update[u] EXCEPT !.step = "asked", !.began = now]
<1>1. /\ update \in [Updates -> UpdateStates] /\ update[u] \in UpdateStates
      /\ update[u].step = "got" /\ now \in Nat /\ UpdateOK(u)
      /\ UNCHANGED tables /\ OthersUnchanged
  BY Zenon DEF UpdateAuthorization, Inv, TypeOK, UpdateInv
<1>2. CASE End(u, "refused")
  BY Zenon, <1>1, <1>2, EndInv DEF Done
<1>3. CASE ~ End(u, "refused")
  <2>1. update' = [update EXCEPT ![u] = p] /\ update[u].expires >= now
    BY Zenon, <1>1, <1>3 DEF UpdateAuthorization, UpdateStates
  <2>2. /\ p \in UpdateStates /\ p.step = "asked" /\ p.id = update[u].id
        /\ p.expires = update[u].expires /\ p.status = update[u].status /\ p.began = now
    BY Zenon, <1>1 DEF UpdateStates, UpdateSteps
  <2> HIDE DEF p
  <2>3. update'[u] = p
    BY Zenon, <1>1, <2>1
  <2>4. UpdateOK(u)'
    BY <1>1, <2>1, <2>2, <2>3
    DEF UpdateOK, Stored, InFlight, tables, OthersUnchanged, IsPending
  <2> QED
    BY Zenon, <1>1, <2>1, <2>2, <2>4, UpdateMoves DEF Done
<1> QED
  BY Zenon, <1>2, <1>3

\* The reads of sa.UpdatePendingAuthorization let only a pending copy through.
LEMMA UpdatePendingReadInv ==
    ASSUME Inv, NEW u \in Updates, UpdatePendingRead(u)
    PROVE  Inv'
<1> DEFINE lockCol == pending[update[u].id].lockCol
           p == [update[u] EXCEPT !.step = "updating", !.version = lockCol]
<1>1. /\ update \in [Updates -> UpdateStates] /\ update[u] \in UpdateStates
      /\ update[u].step = "asked" /\ now \in Nat /\ UpdateOK(u)
      /\ lockCol \in Nat
      /\ UNCHANGED tables /\ OthersUnchanged
  BY Zenon DEF UpdatePendingRead, Inv, TypeOK, UpdateInv, UpdateStates, PendingRows
<1>2. CASE End(u, "refused")
  BY Zenon, <1>1, <1>2, EndInv DEF Done
<1>3. CASE ~ End(u, "refused")
  <2>1. update' = [update EXCEPT ![u] = p] /\ update[u].status = "pending"
    BY Zenon, <1>1, <1>3 DEF UpdatePendingRead, UpdateStates
  <2> HIDE DEF lockCol
  <2>2. /\ p \in UpdateStates /\ p.step = "updating" /\ p.id = update[u].id
        /\ p.expires = update[u].expires /\ p.status = "pending" /\ p.began = update[u].began
    BY Zenon, <1>1, <2>1 DEF UpdateStates, UpdateSteps
  <2> HIDE DEF p
  <2>3. update'[u] = p
    BY Zenon, <1>1, <2>1
  <2>4. UpdateOK(u)'
    BY Zenon, <1>1, <2>1, <2>2, <2>3
    DEF UpdateOK, Stored, InFlight, tables, OthersUnchanged, IsPending
  <2> QED
    BY Zenon, <1>1, <2>1, <2>2, <2>4, UpdateMoves DEF Done
<1> QED
  BY Zenon, <1>2, <1>3

\* The verdict is there, and may give the copy a new expiry.
LEMMA PerformValidationInv ==
    ASSUME Inv, NEW u \in Updates, PerformValidation(u)
    PROVE  Inv'
<1>1. /\ update \in [Updates -> UpdateStates] /\ update[u] \in UpdateStates
      /\ update[u].step = "validating" /\ now \in Nat /\ UpdateOK(u)
      /\ UNCHANGED tables /\ OthersUnchanged
  BY Zenon DEF PerformValidation, Inv, TypeOK, UpdateInv
<1>2. PICK v \in {"valid", "invalid"} :
          update' = [update EXCEPT ![u] = onValidationUpdate(update[u], v)]
  BY Zenon, <1>1 DEF PerformValidation
<1> DEFINE e == IF v = "valid" THEN now + Lifetime ELSE update[u].expires
           p == [update[u] EXCEPT !.step = "verdict", !.verdict = v, !.expires = e]
<1>3. e \in Nat
  BY <1>1 DEF UpdateStates
<1>4. update' = [update EXCEPT ![u] = p] /\ update'[u] = p
  BY Zenon, <1>1, <1>2 DEF onValidationUpdate, UpdateStates
<1> HIDE DEF e
<1>5. /\ p \in UpdateStates /\ p.step = "verdict" /\ p.id = update[u].id /\ p.verdict = v
      /\ p.status = update[u].status /\ p.began = update[u].began
  BY Zenon, <1>1, <1>3 DEF UpdateStates, UpdateSteps
<1> HIDE DEF p
<1>6. UpdateOK(u)'
  BY Zenon, <1>1, <1>4, <1>5
  DEF UpdateOK, Stored, InFlight, tables, OthersUnchanged, IsPending
<1> QED
  BY Zenon, <1>1, <1>4, <1>5, <1>6, UpdateMoves DEF Done

\* The reads of sa.FinalizeAuthorization only take the version.
LEMMA FinalizeReadInv ==
    ASSUME Inv, NEW u \in Updates, FinalizeRead(u)
    PROVE  Inv'
<1> DEFINE lockCol == pending[update[u].id].lockCol
           p == [update[u] EXCEPT !.step = "finalizing", !.version = lockCol]
<1>1. /\ update \in [Updates -> UpdateStates] /\ update[u] \in UpdateStates
      /\ update[u].step = "verdict" /\ now \in Nat /\ UpdateOK(u)
      /\ lockCol \in Nat
      /\ UNCHANGED tables /\ OthersUnchanged
  BY Zenon DEF FinalizeRead, Inv, TypeOK, UpdateInv, UpdateStates, PendingRows
<1>2. CASE End(u, "lost")
  BY Zenon, <1>1, <1>2, EndInv DEF Done
<1>3. CASE ~ End(u, "lost")
  <2>1. update' = [update EXCEPT ![u] = p]
    BY Zenon, <1>1, <1>3 DEF FinalizeRead, UpdateStates
  <2> HIDE DEF lockCol
  <2>2. /\ p \in UpdateStates /\ p.step = "finalizing" /\ p.id = update[u].id
        /\ p.status = update[u].status /\ p.began = update[u].began
        /\ p.verdict = update[u].verdict
    BY Zenon, <1>1 DEF UpdateStates, UpdateSteps
  <2> HIDE DEF p
  <2>3. update'[u] = p
    BY Zenon, <1>1, <2>1
  <2>4. UpdateOK(u)'
    BY Zenon, <1>1, <2>2, <2>3
    DEF UpdateOK, Stored, InFlight, tables, OthersUnchanged, IsPending
  <2> QED
    BY Zenon, <1>1, <2>1, <2>2, <2>4, UpdateMoves DEF Done
<1> QED
  BY Zenon, <1>2, <1>3

\* A call that fails ends its update.
LEMMA UpdateFailsInv ==
    ASSUME Inv, NEW u \in Updates, UpdateFails(u)
    PROVE  Inv'
BY Zenon, EndInv DEF UpdateFails, Done, InFlight

\* The step changes no more than the status and the version of pending rows,
\* and makes final rows deactivated or revoked, unless they are invalid.
SameRows(id) ==
    /\ IsPending(id)' <=> IsPending(id)
    /\ pending'[id].expires = pending[id].expires
    /\ IsFinal(id)' <=> IsFinal(id)
    /\ final'[id].expires = final[id].expires
    /\ final'[id].status = "invalid" <=> final[id].status = "invalid"
    /\ final'[id].status # final[id].status => final'[id].status \in {"deactivated", "revoked"}

\* Such a step keeps what is known of the tables and of the purger.
LEMMA Restated ==
    ASSUME Inv, UNCHANGED <<now, created, challenges, purger>>, \A id \in Ids : SameRows(id)
    PROVE  /\ \A id \in Ids : Later(id)
           /\ (Known /\ OneTable /\ ChallengesKept /\ NoOrphans /\ PurgerInv)'
<1>1. /\ now \in Nat /\ created \subseteq Ids /\ challenges \subseteq Ids
      /\ \A id \in Held : id \in Ids
  BY Zenon DEF Inv, TypeOK, Held, PurgerStates
<1>2. \A id \in Ids : Later(id)
  BY Zenon DEF SameRows, Later
<1>3. (Known /\ OneTable /\ NoOrphans)'
  BY Zenon, <1>1 DEF Inv, Known, OneTable, NoOrphans, SameRows
<1>4. ChallengesKept'
  BY Zenon, <1>1 DEF Inv, ChallengesKept, SameRows
<1>5. \A id \in Held : IsPending(id) => ~ IsFinal(id)'
  BY Zenon, <1>1 DEF Inv, OneTable, SameRows
<1>6. PurgerInv'
  BY <1>1, <1>2, <1>5, PurgerStays DEF Inv
<1> QED
  BY Zenon, <1>2, <1>3, <1>4, <1>6

\* The RA's answer overwrites the pending row with the expiry it has.
LEMMA UpdatePendingWriteInv ==
    ASSUME Inv, NEW u \in Updates, UpdatePendingWrite(u)
    PROVE  Inv'
<1> DEFINE r == update[u]
           id == r.id
<1>1. /\ update \in [Updates -> UpdateStates] /\ r \in UpdateStates /\ id \in Ids
      /\ r.step = "updating" /\ now \in Nat /\ UpdateOK(u) /\ created \subseteq Ids
      /\ pending \in [Ids -> PendingRows] /\ pending[id] \in PendingRows
      /\ r.status = "pending" /\ id \in created /\ r.version \in Nat /\ r.expires \in Nat
      /\ UNCHANGED <<now, created, deactivation, revoker, purger, final, challenges>>
      /\ OthersUnchanged
  BY Zenon DEF UpdatePendingWrite, Inv, TypeOK, UpdateInv, UpdateStates, UpdateOK, Stored,
         OthersUnchanged
<1>2. CASE ~ (IsPending(id) /\ pending[id].lockCol = r.version)
  BY Zenon, <1>1, <1>2, EndInv DEF UpdatePendingWrite, Done, tables
<1>3. CASE IsPending(id) /\ pending[id].lockCol = r.version
  <2> DEFINE new == [status |-> r.status, expires |-> r.expires, lockCol |-> r.version + 1]
             p1 == [r EXCEPT !.step = "validating"]
             p2 == [NoRequest(id) EXCEPT !.step = "refused"]
  <2>1. /\ pending' = [pending EXCEPT ![id] = new]
        /\ update' = [update EXCEPT ![u] = p1] \/ update' = [update EXCEPT ![u] = p2]
    BY Zenon, <1>1, <1>3 DEF UpdatePendingWrite, Advance, End, UpdateStates
  <2>2. /\ new \in PendingRows /\ new.status = "pending" /\ new.expires = pending[id].expires
    BY <1>1, <1>3 DEF PendingRows, PendingStatuses, UpdateOK
  <2> HIDE DEF new
  <2>3. /\ p1 \in UpdateStates /\ p1.step = "validating" /\ p1.id = id /\ p1.status = "pending"
        /\ p1.began = r.began
    BY Zenon, <1>1 DEF UpdateStates, UpdateSteps
  <2>4. /\ p2 \in UpdateStates /\ p2.step = "refused" /\ p2.id = id /\ p2.status = Absent
    BY Zenon, <1>1 DEF UpdateStates, UpdateSteps, NoRequest
  <2> HIDE DEF p1, p2
  <2>5. PICK p \in {p1, p2} : update' = [update EXCEPT ![u] = p]
    BY Zenon, <2>1
  <2>6. /\ update' \in [Updates -> UpdateStates] /\ update'[u] = p
        /\ \A v \in Updates \ {u} : update'[v] = update[v]
        /\ p.id = id /\ p.step # "done"
    BY Zenon, <1>1, <2>3, <2>4, <2>5
  <2>7. /\ pending' \in [Ids -> PendingRows] /\ pending'[id] = new
        /\ \A i \in Ids \ {id} : pending'[i] = pending[i]
    BY Zenon, <1>1, <2>1, <2>2
  <2>8. TypeOK'
    BY Zenon, <1>1, <2>6, <2>7 DEF Inv, TypeOK
  <2>9. \A i \in Ids : SameRows(i)
    BY Zenon, <1>1, <1>3, <2>2, <2>7 DEF SameRows, IsPending, IsFinal, Absent
  <2>10. /\ \A i \in Ids : Later(i)
         /\ (Known /\ OneTable /\ ChallengesKept /\ NoOrphans /\ PurgerInv)'
    BY Zenon, <1>1, <2>9, Restated
  <2>11. RevokerInv'
    BY Zenon, <1>1, <2>10, RevokerStays DEF Inv
  <2>12. UpdateOK(u)'
    <3>1. CASE p = p1
      BY Zenon, <3>1, <1>1, <1>3, <2>2, <2>3, <2>6, <2>7
      DEF UpdateOK, Stored, InFlight, IsPending
    <3>2. CASE p = p2
      BY Zenon, <3>2, <1>1, <2>4, <2>6 DEF UpdateOK, Stored, InFlight, Absent
    <3> QED
      BY Zenon, <3>1, <3>2
  <2>13. UpdateInv'
    BY Zenon, <1>1, <2>6, <2>10, <2>12, UpdateStays DEF Inv, UpdateInv
  <2>14. DecidedByOneVerdict'
    BY Zenon, <1>1, <2>6, DecidedStays DEF Inv, Done, IsFinal
  <2> QED
    BY Zenon, <2>8, <2>10, <2>11, <2>13, <2>14 DEF Inv
<1> QED
  BY Zenon, <1>2, <1>3

\* The finalization moves the id: it has its challenges and the purger does
\* not hold it, since the update began before the expiry; it is the first to
\* do so, since the id was pending.
LEMMA FinalizeWriteInv ==
    ASSUME Inv, NEW u \in Updates, FinalizeWrite(u)
    PROVE  Inv'
<1> DEFINE r == update[u]
           id == r.id
<1>1. /\ update \in [Updates -> UpdateStates] /\ r \in UpdateStates /\ id \in Ids
      /\ r.step = "finalizing" /\ now \in Nat /\ UpdateOK(u) /\ created \subseteq Ids
      /\ pending \in [Ids -> PendingRows] /\ final \in [Ids -> FinalRows]
      /\ pending[id] \in PendingRows /\ r.began \in Nat
      /\ r.status = "pending" /\ id \in created /\ r.expires \in Nat
      /\ r.verdict \in {"valid", "invalid"}
      /\ UNCHANGED <<now, created, deactivation, revoker, purger, challenges>>
      /\ OthersUnchanged
  BY Zenon DEF FinalizeWrite, Inv, TypeOK, UpdateInv, UpdateStates, UpdateOK, Stored,
         OthersUnchanged
<1>2. CASE ~ (~ IsFinal(id) /\ IsPending(id) /\ pending[id].lockCol = r.version)
  BY Zenon, <1>1, <1>2, EndInv DEF FinalizeWrite, Done, tables
<1>3. CASE ~ IsFinal(id) /\ IsPending(id) /\ pending[id].lockCol = r.version
  <2> DEFINE new == [status |-> r.verdict, expires |-> r.expires]
             p == [NoRequest(id) EXCEPT !.step = "done", !.verdict = r.verdict]
  <2>1. /\ final' = [final EXCEPT ![id] = new]
        /\ pending' = [pending EXCEPT ![id] = NoPending]
        /\ update' = [update EXCEPT ![u] = p]
    BY Zenon, <1>3 DEF FinalizeWrite
  <2>2. /\ new \in FinalRows /\ new.status = r.verdict
        /\ NoPending \in PendingRows /\ NoPending.status = Absent
    BY Zenon, <1>1 DEF FinalRows, FinalStatuses, NoPending, PendingRows
  <2>3. /\ p \in UpdateStates /\ p.step = "done" /\ p.id = id /\ p.verdict = r.verdict
        /\ p.status = Absent
    BY Zenon, <1>1 DEF UpdateStates, UpdateSteps, NoRequest
  <2> HIDE DEF new, p
  <2>4. /\ update' \in [Updates -> UpdateStates] /\ update'[u] = p
        /\ \A v \in Updates \ {u} : update'[v] = update[v]
    BY Zenon, <1>1, <2>1, <2>3
  <2>5. /\ pending' \in [Ids -> PendingRows] /\ pending'[id] = NoPending
        /\ \A i \in Ids \ {id} : pending'[i] = pending[i]
        /\ final' \in [Ids -> FinalRows] /\ final'[id] = new
        /\ \A i \in Ids \ {id} : final'[i] = final[i]
    BY Zenon, <1>1, <2>1, <2>2
  <2>6. TypeOK'
    BY Zenon, <1>1, <2>4, <2>5 DEF Inv, TypeOK
  <2>7. \A i \in Ids : Later(i)
    BY Zenon, <1>3, <2>2, <2>5 DEF Later, IsPending, IsFinal
  <2>8. now < pending[id].expires + Grace
    <3>1. now <= r.began + RPCTime /\ r.began <= pending[id].expires
      BY Zenon, <1>1, <1>3 DEF UpdateOK, InFlight
    <3> QED
      BY <1>1, <3>1 DEF PendingRows
  <2>9. id \in challenges
    BY Zenon, <1>1, <1>3, <2>8 DEF Inv, ChallengesKept, PendingRows
  <2>10. id \notin Held
    <3> SUFFICES ASSUME id \in Held PROVE FALSE
      BY Zenon
    <3>1. purger.step = "delete" /\ purger.before + Grace <= now /\ purger.before \in Int
      BY Zenon DEF Inv, TypeOK, PurgerStates, PurgerInv
    <3>2. purger.table = "pendingAuthorizations" /\ pending[id].expires <= purger.before
      BY Zenon, <1>3 DEF Inv, TypeOK, PurgerStates, PurgerInv, Tables, Settled
    <3> QED
      BY <1>1, <2>8, <3>1, <3>2 DEF PendingRows
  <2>11. PurgerInv'
    <3>1. \A i \in Held : IsPending(i) => ~ IsFinal(i)'
      BY Zenon, <2>5, <2>10 DEF Inv, OneTable, IsFinal, IsPending, Held, TypeOK, PurgerStates
    <3> QED
      BY <1>1, <2>7, <3>1, PurgerStays DEF Inv
  <2>12. RevokerInv'
    BY Zenon, <1>1, <2>7, RevokerStays DEF Inv
  <2>13. UpdateInv'
    <3>1. UpdateOK(u)'
      BY Zenon, <1>1, <2>2, <2>3, <2>4, <2>5 DEF UpdateOK, Stored, InFlight, IsPending, Absent
    <3> QED
      BY Zenon, <1>1, <2>4, <2>7, <3>1, UpdateStays DEF Inv, UpdateInv
  <2>14. (Known /\ OneTable /\ NoOrphans)'
    BY <1>1, <2>2, <2>5
    DEF Inv, TypeOK, Known, OneTable, NoOrphans, IsPending, IsFinal, Absent
  <2>15. ChallengesKept'
    BY Zenon, <1>1, <2>2, <2>5, <2>9 DEF Inv, ChallengesKept, IsPending, IsFinal
  <2>16. DecidedByOneVerdict'
    <3>1. \A v \in Updates : ~ (update[v].id = id /\ update[v].step = "done")
      BY Zenon, <1>3 DEF Inv, UpdateInv, UpdateOK
    <3>2. ASSUME NEW i \in Ids, IsFinal(i)'
          PROVE  \E w \in Updates :
                   /\ update'[w].id = i /\ update'[w].step = "done"
                   /\ update'[w].verdict = IF final'[i].status = "invalid" THEN "invalid" ELSE "valid"
                   /\ \A v \in Updates \ {w} : ~ (update'[v].id = i /\ update'[v].step = "done")
      <4>1. CASE i = id
        BY <1>1, <2>2, <2>3, <2>4, <2>5, <3>1, <4>1
      <4>2. CASE i # id
        <5>1. IsFinal(i) /\ final'[i] = final[i]
          BY Zenon, <2>5, <3>2, <4>2 DEF IsFinal
        <5>2. PICK w \in Updates :
                /\ update[w].id = i /\ update[w].step = "done"
                /\ update[w].verdict = IF final[i].status = "invalid" THEN "invalid" ELSE "valid"
                /\ \A v \in Updates \ {w} : ~ (update[v].id = i /\ update[v].step = "done")
          BY Zenon, <5>1 DEF Inv, DecidedByOneVerdict
        <5> QED
          BY <1>1, <2>3, <2>4, <4>2, <5>1, <5>2
      <4> QED
        BY Zenon, <4>1, <4>2
    <3> QED
      BY Zenon, <3>2 DEF DecidedByOneVerdict
  <2> QED
    BY Zenon, <2>6, <2>11, <2>12, <2>13, <2>14, <2>15, <2>16 DEF Inv
<1> QED
  BY Zenon, <1>2, <1>3

\* A deactivation that has not got to its write changes only its own progress.
LEMMA DeactivationInv ==
    ASSUME Inv, NEW d \in Deactivations, AskDeactivation(d) \/ DeactivateRead(d)
    PROVE  Inv'
<1>1. PICK step \in DeactivationSteps : deactivation' = [deactivation EXCEPT ![d].step = step]
  BY Zenon DEF AskDeactivation, DeactivateRead, MoveTo, DeactivationSteps
<1>2. UNCHANGED <<now, created, pending, final, challenges, update, revoker, purger>>
  BY Zenon DEF AskDeactivation, DeactivateRead, tables
<1>3. TypeOK'
  BY Zenon, <1>1, <1>2 DEF Inv, TypeOK, DeactivationStates
<1>4. (Known /\ OneTable /\ DecidedByOneVerdict /\ ChallengesKept /\ NoOrphans)'
  BY <1>2 DEF Inv, Known, OneTable, DecidedByOneVerdict, ChallengesKept, NoOrphans,
              IsPending, IsFinal
<1>5. (UpdateInv /\ RevokerInv /\ PurgerInv)'
  BY Zenon, <1>2 DEF Inv, UpdateInv, UpdateOK, RevokerInv, PurgerInv, Held, Settled,
              IsPending, IsFinal
<1> QED
  BY Zenon, <1>3, <1>4, <1>5 DEF Inv

\* A step that only restates rows, and the steps of those who take it.
LEMMA RestatedInv ==
    ASSUME Inv, UNCHANGED <<now, created, challenges, update, purger>>,
           pending' \in [Ids -> PendingRows], final' \in [Ids -> FinalRows],
           deactivation' \in [Deactivations -> DeactivationStates], revoker' \in RevokerStates,
           \A id \in Ids : SameRows(id),
           RevokerInv'
    PROVE  Inv'
<1>1. TypeOK'
  BY Zenon DEF Inv, TypeOK
<1>2. /\ \A id \in Ids : Later(id)
      /\ (Known /\ OneTable /\ ChallengesKept /\ NoOrphans /\ PurgerInv)'
  BY Zenon, Restated
<1>3. UpdateInv'
  BY Zenon, <1>2, UpdateStays DEF Inv, UpdateInv, TypeOK
<1>4. DecidedByOneVerdict'
  BY Zenon, DecidedStays DEF Inv, Done, SameRows
<1> QED
  BY Zenon, <1>1, <1>2, <1>3, <1>4 DEF Inv

\* The deactivation's write: pending or valid rows become deactivated.
LEMMA DeactivateWriteInv ==
    ASSUME Inv, NEW d \in Deactivations, DeactivateWrite(d)
    PROVE  Inv'
<1> DEFINE id == deactivation[d].id
<1>1. /\ deactivation \in [Deactivations -> DeactivationStates] /\ id \in Ids
      /\ pending \in [Ids -> PendingRows] /\ final \in [Ids -> FinalRows]
      /\ created \subseteq Ids
      /\ UNCHANGED <<now, created, challenges, update, revoker, purger>>
      /\ deactivation' = [deactivation EXCEPT ![d].step = "done"]
  BY Zenon DEF DeactivateWrite, MoveTo, Inv, TypeOK, DeactivationStates
<1>2. deactivation' \in [Deactivations -> DeactivationStates]
  BY Zenon, <1>1 DEF DeactivationStates, DeactivationSteps
<1>3. /\ pending' \in [Ids -> PendingRows] /\ final' \in [Ids -> FinalRows]
      /\ \A i \in Ids : SameRows(i)
  <2>1. CASE /\ pending' = IF pending[id].status = "pending"
                            THEN [pending EXCEPT ![id].status = "deactivated"] ELSE pending
             /\ UNCHANGED final
    <3>1. pending' \in [Ids -> PendingRows]
      BY Zenon, <1>1, <2>1 DEF PendingRows, PendingStatuses
    <3>2. \A i \in Ids : SameRows(i)
      BY Zenon, <1>1, <2>1 DEF SameRows, PendingRows, IsPending, IsFinal, Absent
    <3> QED
      BY Zenon, <1>1, <2>1, <3>1, <3>2
  <2>2. CASE /\ final' = IF final[id].status = "valid"
                          THEN [final EXCEPT ![id].status = "deactivated"] ELSE final
             /\ UNCHANGED pending
    <3>1. final' \in [Ids -> FinalRows]
      BY Zenon, <1>1, <2>2 DEF FinalRows, FinalStatuses
    <3>2. \A i \in Ids : SameRows(i)
      BY Zenon, <1>1, <2>2 DEF SameRows, FinalRows, IsPending, IsFinal, Absent
    <3> QED
      BY Zenon, <1>1, <2>2, <3>1, <3>2
  <2> QED
    BY Zenon, <2>1, <2>2 DEF DeactivateWrite
<1>4. RevokerInv'
  <2>1. \A i \in Ids : Later(i)
    BY Zenon, <1>1, <1>3, Restated
  <2> QED
    BY Zenon, <1>1, <2>1, RevokerStays DEF Inv
<1> QED
  BY Zenon, <1>1, <1>2, <1>3, <1>4, RestatedInv DEF Inv, TypeOK

\* The revoker's steps that leave the tables alone.
LEMMA RevokerOnly ==
    ASSUME Inv, UNCHANGED <<now, created, tables, update, deactivation, purger>>,
           revoker' \in RevokerStates, RevokerInv'
    PROVE  Inv'
<1>1. \A id \in Ids : SameRows(id)
  BY Zenon DEF tables, SameRows, IsPending, IsFinal
<1> QED
  BY Zenon, <1>1, RestatedInv DEF tables, Inv, TypeOK

\* It starts with what is valid and unexpired.
LEMMA RevokeStartInv == ASSUME Inv, RevokeStart PROVE Inv'
<1> DEFINE live == {id \in Ids : GetAuthorization(id).expires > now}
           valid == {id \in live : final[id].status = "valid"}
<1>1. /\ revoker' = [step |-> "select", table |-> "authz", found |-> {}, from |-> now,
                     valid |-> valid]
      /\ UNCHANGED <<now, created, tables, update, deactivation, purger>>
      /\ UNCHANGED <<pending, final>>
      /\ now \in Nat
  BY Zenon DEF RevokeStart, Inv, TypeOK, tables
<1>2. \A id \in valid : /\ id \in Ids /\ IsFinal(id)
                        /\ Settled(id)
                        /\ final[id].expires > now
  BY Zenon DEF Inv, Known, OneTable, Settled, IsPending, IsFinal, GetAuthorization, Absent
<1> HIDE DEF valid
<1>3. revoker' \in RevokerStates
  BY Zenon, <1>1, <1>2 DEF RevokerStates, Tables
<1>4. RevokerInv'
  BY Zenon, <1>1, <1>2 DEF RevokerInv, Settled, IsPending, IsFinal
<1> QED
  BY Zenon, <1>1, <1>3, <1>4, RevokerOnly

\* It is done with authz when it finds nothing there: what was valid when it
\* began would have been found.
LEMMA RevokeSelectInv == ASSUME Inv, RevokeSelect PROVE Inv'
<1> DEFINE eligible == Revocable(revoker.table, revoker.from)
<1>1. /\ revoker \in RevokerStates /\ revoker.step = "select" /\ RevokerInv
      /\ revoker.table \in Tables /\ revoker.valid \subseteq Ids
      /\ final \in [Ids -> FinalRows]
      /\ UNCHANGED <<now, created, tables, update, deactivation, purger>>
      /\ UNCHANGED <<created, pending, final>>
  BY Zenon DEF RevokeSelect, Inv, TypeOK, tables, RevokerStates
<1>2. CASE eligible # {}
  <2>1. PICK found \in SUBSET eligible :
             revoker' = [revoker EXCEPT !.step = "update", !.found = found]
    BY Zenon, <1>2 DEF RevokeSelect
  <2>2. found \subseteq Ids
    BY Zenon DEF Revocable
  <2>3. /\ revoker' \in RevokerStates /\ revoker'.step = "update" /\ revoker'.found = found
        /\ revoker'.table = revoker.table /\ revoker'.valid = revoker.valid
        /\ revoker'.from = revoker.from
    BY Zenon, <1>1, <2>1, <2>2 DEF RevokerStates
  <2>4. revoker.table = "authz" =>
            \A id \in found : Settled(id) /\ final[id].status # "invalid"
    BY Zenon DEF Revocable, Inv, Known, OneTable, Settled, IsFinal
  <2>5. RevokerInv'
    BY Zenon, <1>1, <2>3, <2>4 DEF RevokerInv, Settled, IsPending, IsFinal
  <2> QED
    BY Zenon, <1>1, <2>3, <2>5, RevokerOnly
<1>3. CASE eligible = {} /\ revoker.table = "authz"
  <2>1. revoker' = [revoker EXCEPT !.table = "pendingAuthorizations"]
    BY Zenon, <1>3 DEF RevokeSelect
  <2>2. /\ revoker' \in RevokerStates /\ revoker'.step = "select"
        /\ revoker'.table = "pendingAuthorizations" /\ revoker'.valid = revoker.valid
        /\ revoker'.from = revoker.from
    BY Zenon, <1>1, <2>1 DEF RevokerStates, Tables
  <2>3. \A id \in revoker.valid : final[id].status # "valid"
    BY Zenon, <1>1, <1>3 DEF Revocable, RevokerInv, IsFinal, Absent
  <2>4. RevokerInv'
    BY Zenon, <1>1, <2>2, <2>3 DEF RevokerInv, Settled, IsPending, IsFinal
  <2> QED
    BY Zenon, <1>1, <2>2, <2>4, RevokerOnly
<1>4. CASE eligible = {} /\ revoker.table = "pendingAuthorizations"
  <2>1. revoker' = [revoker EXCEPT !.step = "done", !.from = 0]
    BY Zenon, <1>4 DEF RevokeSelect
  <2>2. /\ revoker' \in RevokerStates /\ revoker'.step = "done"
        /\ revoker'.table = "pendingAuthorizations" /\ revoker'.valid = revoker.valid
    BY Zenon, <1>1, <1>4, <2>1 DEF RevokerStates
  <2>3. RevokerInv'
    BY Zenon, <1>1, <1>4, <2>2 DEF RevokerInv, Settled, IsPending, IsFinal
  <2> QED
    BY Zenon, <1>1, <2>2, <2>3, RevokerOnly
<1> QED
  BY Zenon, <1>1, <1>2, <1>3, <1>4 DEF Tables

\* A failure forgets the run.
LEMMA NoRevocationLeft ==
    ASSUME revoker' = [NoRevocation EXCEPT !.step = "failed"]
    PROVE  revoker' \in RevokerStates /\ RevokerInv'
<1>1. /\ revoker'.step = "failed" /\ revoker'.valid = {} /\ revoker' \in RevokerStates
  BY Zenon DEF NoRevocation, RevokerStates, Tables
<1> QED
  BY Zenon, <1>1 DEF RevokerInv

\* A call of the revoker that fails.
LEMMA RevokeFailsInv == ASSUME Inv, RevokeFails PROVE Inv'
BY Zenon, NoRevocationLeft, RevokerOnly DEF RevokeFails

\* The write restates the rows found: none of them is invalid.
LEMMA RevokeUpdateRows ==
    ASSUME Inv, RevokeUpdate
    PROVE  /\ pending' \in [Ids -> PendingRows] /\ final' \in [Ids -> FinalRows]
           /\ \A id \in Ids : SameRows(id)
<1> DEFINE there == {id \in revoker.found :
                     IF revoker.table = "authz" THEN IsFinal(id) ELSE IsPending(id)}
<1>1. /\ pending \in [Ids -> PendingRows] /\ final \in [Ids -> FinalRows]
      /\ revoker.step = "update"
  BY Zenon DEF Inv, TypeOK, RevokeUpdate
<1>2. CASE revoker.table = "authz"
  <2>1. /\ final' = [id \in Ids |-> IF id \in there
                        THEN [final[id] EXCEPT !.status = "revoked"] ELSE final[id]]
        /\ UNCHANGED pending
    BY Zenon, <1>2 DEF RevokeUpdate
  <2>2. \A id \in there : IsFinal(id) /\ final[id].status # "invalid"
    BY Zenon, <1>1, <1>2 DEF Inv, RevokerInv
  <2> HIDE DEF there
  <2>3. final' \in [Ids -> FinalRows]
    BY Zenon, <1>1, <2>1 DEF FinalRows, FinalStatuses
  <2>4. \A id \in Ids : SameRows(id)
    BY Zenon, <1>1, <2>1, <2>2 DEF SameRows, FinalRows, IsPending, IsFinal, Absent
  <2> QED
    BY Zenon, <1>1, <2>1, <2>3, <2>4
<1>3. CASE revoker.table # "authz"
  <2>1. /\ pending' = [id \in Ids |-> IF id \in there
                        THEN [pending[id] EXCEPT !.status = "revoked"] ELSE pending[id]]
        /\ UNCHANGED final
    BY Zenon, <1>3 DEF RevokeUpdate
  <2>2. \A id \in there : IsPending(id)
    BY Zenon, <1>3
  <2> HIDE DEF there
  <2>3. pending' \in [Ids -> PendingRows]
    BY Zenon, <1>1, <2>1 DEF PendingRows, PendingStatuses
  <2>4. \A id \in Ids : SameRows(id)
    BY Zenon, <1>1, <2>1, <2>2 DEF SameRows, PendingRows, IsPending, IsFinal, Absent
  <2> QED
    BY Zenon, <1>1, <2>1, <2>3, <2>4
<1> QED
  BY Zenon, <1>2, <1>3

\* The write, and the next selection or the error.
LEMMA RevokeUpdateInv == ASSUME Inv, RevokeUpdate PROVE Inv'
<1>1. /\ pending' \in [Ids -> PendingRows] /\ final' \in [Ids -> FinalRows]
      /\ \A id \in Ids : SameRows(id)
  BY Zenon, RevokeUpdateRows
<1>2. /\ UNCHANGED <<now, created, challenges, update, deactivation, purger>>
      /\ revoker \in RevokerStates /\ created \subseteq Ids /\ revoker.step = "update"
  BY Zenon DEF RevokeUpdate, Inv, TypeOK
<1>3. revoker' \in RevokerStates /\ RevokerInv'
  <2>1. CASE revoker' = [NoRevocation EXCEPT !.step = "failed"]
    BY Zenon, <2>1, NoRevocationLeft
  <2>2. CASE revoker' = [revoker EXCEPT !.step = "select", !.found = {}]
    <3>1. /\ revoker' \in RevokerStates /\ revoker'.step = "select"
          /\ revoker'.table = revoker.table /\ revoker'.valid = revoker.valid
          /\ revoker'.from = revoker.from
      BY Zenon, <1>2, <2>2 DEF RevokerStates
    <3>2. \A id \in created : Settled(id) =>
            /\ Settled(id)'
            /\ IsFinal(id)' => IsFinal(id) /\ final'[id].expires = final[id].expires
            /\ final[id].status # "valid" => final'[id].status # "valid"
      BY Zenon, <1>1, <1>2 DEF SameRows, Settled
    <3>3. RevokerInv'
      BY Zenon, <1>2, <3>1, <3>2 DEF Inv, RevokerInv, Settled
    <3> QED
      BY Zenon, <3>1, <3>3
  <2> QED
    BY Zenon, <2>1, <2>2 DEF RevokeUpdate
<1> QED
  BY Zenon, <1>1, <1>2, <1>3, RestatedInv DEF Inv, TypeOK

\* The purger's steps that leave the tables alone.
LEMMA PurgerOnly ==
    ASSUME Inv, UNCHANGED tables, PurgerUnchanged, purger' \in PurgerStates, PurgerInv'
    PROVE  Inv'
<1>1. UNCHANGED <<now, created, pending, final, challenges, update, deactivation, revoker>>
  BY Zenon DEF tables, PurgerUnchanged
<1>2. TypeOK'
  BY Zenon, <1>1 DEF Inv, TypeOK
<1>3. (Known /\ OneTable /\ DecidedByOneVerdict /\ ChallengesKept /\ NoOrphans)'
  BY <1>1 DEF Inv, Known, OneTable, DecidedByOneVerdict, ChallengesKept, NoOrphans,
              IsPending, IsFinal
<1>4. (UpdateInv /\ RevokerInv)'
  BY Zenon, <1>1 DEF Inv, UpdateInv, UpdateOK, RevokerInv, Settled, IsPending, IsFinal
<1> QED
  BY Zenon, <1>2, <1>3, <1>4 DEF Inv

\* The purger begins with the time a grace period ago.
LEMMA PurgeStartInv == ASSUME Inv, PurgeStart PROVE Inv'
<1> DEFINE b == now - Grace
<1>1. /\ purger \in PurgerStates /\ now \in Nat /\ Held = {} /\ purger.step = "idle"
      /\ purger' = [purger EXCEPT !.step = "select", !.before = b]
      /\ UNCHANGED tables /\ PurgerUnchanged /\ now' = now
  BY Zenon DEF PurgeStart, Inv, TypeOK, PurgerInv, PurgerUnchanged
<1>2. b \in Int /\ b + Grace <= now
  BY <1>1
<1> HIDE DEF b
<1>3. /\ purger' \in PurgerStates /\ purger'.todo = purger.todo
      /\ purger'.current = purger.current /\ purger'.before = b
  BY Zenon, <1>2, <1>1 DEF PurgerStates
<1>4. Held' = {} /\ purger'.current = {}
  BY Zenon, <1>1, <1>3 DEF Held
<1>5. PurgerInv'
  BY Zenon, <1>2, <1>1, <1>3, <1>4 DEF PurgerInv
<1> QED
  BY Zenon, <1>1, <1>3, <1>5, PurgerOnly

\* It holds what has been expired since then.
LEMMA PurgeSelectInv == ASSUME Inv, PurgeSelect PROVE Inv'
<1>1. PICK ids \in SUBSET Expired(purger.table, purger.before) :
          purger' = [purger EXCEPT !.step = "delete", !.todo = ids]
  BY Zenon DEF PurgeSelect
<1>2. /\ purger \in PurgerStates /\ purger.step = "select" /\ Held = {}
      /\ purger.current = {} /\ purger.before + Grace <= now
      /\ UNCHANGED tables /\ PurgerUnchanged
      /\ UNCHANGED <<now, created, pending, final, challenges>>
  BY Zenon DEF PurgeSelect, Inv, TypeOK, PurgerInv, Held, PurgerUnchanged, tables
<1>3. ids \subseteq Ids
  BY Zenon DEF Expired
<1>4. /\ purger' \in PurgerStates /\ purger'.step = "delete" /\ purger'.todo = ids
      /\ purger'.current = {} /\ purger'.before = purger.before /\ purger'.table = purger.table
  BY Zenon, <1>1, <1>2, <1>3 DEF PurgerStates
<1>5. Held' = ids
  BY Zenon, <1>4 DEF Held
<1>6. /\ purger.table = "pendingAuthorizations" =>
            \A id \in ids : /\ id \in created /\ ~ IsFinal(id)
                            /\ pending[id].expires <= purger.before
      /\ purger.table = "authz" =>
            \A id \in ids : Settled(id) /\ final[id].expires <= purger.before
  BY Zenon, <1>3 DEF Expired, Inv, Known, OneTable, Settled, IsPending, IsFinal
<1>7. PurgerInv'
  BY Zenon, <1>2, <1>4, <1>5, <1>6 DEF PurgerInv, Settled, IsPending, IsFinal
<1> QED
  BY Zenon, <1>2, <1>4, <1>7, PurgerOnly

\* It goes on to authz, or ends, with nothing held.
LEMMA PurgeEndInv == ASSUME Inv, PurgeNextTable \/ PurgeStops PROVE Inv'
<1>1. /\ UNCHANGED tables /\ PurgerUnchanged /\ now' = now /\ purger \in PurgerStates
  BY Zenon DEF PurgeNextTable, PurgeStops, PurgerUnchanged, Inv, TypeOK
<1>2. CASE purger' = NoPurge
  <2>1. /\ purger' \in PurgerStates /\ purger'.step = "idle" /\ Held' = {}
        /\ purger'.current = {}
    BY <1>2 DEF NoPurge, PurgerStates, Held, Tables
  <2>2. PurgerInv'
    BY Zenon, <2>1 DEF PurgerInv
  <2> QED
    BY Zenon, <1>1, <2>1, <2>2, PurgerOnly
<1>3. CASE purger' # NoPurge
  <2>1. /\ purger' = [purger EXCEPT !.step = "select", !.table = "authz"]
        /\ purger.todo = {} /\ purger.current = {} /\ purger.before + Grace <= now
    BY Zenon, <1>3 DEF PurgeNextTable, PurgeStops, Inv, PurgerInv
  <2>2. /\ purger' \in PurgerStates /\ purger'.step = "select" /\ purger'.current = {}
        /\ purger'.todo = {} /\ purger'.before = purger.before
    BY Zenon, <1>1, <2>1 DEF PurgerStates, Tables
  <2>3. PurgerInv'
    BY Zenon, <1>1, <2>1, <2>2 DEF PurgerInv, Held
  <2> QED
    BY Zenon, <1>1, <2>2, <2>3, PurgerOnly
<1> QED
  BY Zenon, <1>2, <1>3

\* What the purger deletes challenges for is past the grace period.
LEMMA PurgeChallengesInv ==
    ASSUME Inv, NEW id \in Ids, PurgeChallenges(id)
    PROVE  Inv'
<1>1. /\ purger \in PurgerStates /\ purger.step = "delete" /\ purger.current = {}
      /\ id \in purger.todo /\ challenges' = challenges \ {id}
      /\ purger' = [purger EXCEPT !.todo = @ \ {id}, !.current = {id}]
      /\ UNCHANGED <<now, created, pending, final, update, deactivation, revoker>>
      /\ purger.before + Grace <= now /\ now \in Nat /\ purger.before \in Int
      /\ purger.table \in Tables
      /\ pending[id] \in PendingRows /\ final[id] \in FinalRows
  BY Zenon DEF PurgeChallenges, PurgerUnchanged, Inv, TypeOK, PurgerInv, PurgerStates
<1>2. /\ purger' \in PurgerStates /\ purger'.step = "delete" /\ purger'.current = {id}
      /\ purger'.todo = purger.todo \ {id} /\ purger'.table = purger.table
      /\ purger'.before = purger.before
  BY Zenon, <1>1 DEF PurgerStates
<1>3. Held' = Held /\ id \in Held
  BY Zenon, <1>1, <1>2 DEF Held
<1>4. TypeOK'
  BY Zenon, <1>1, <1>2 DEF Inv, TypeOK
<1>5. PurgerInv'
  BY Zenon, <1>1, <1>2, <1>3 DEF Inv, PurgerInv, Settled, IsPending, IsFinal
<1>6. (Known /\ OneTable /\ DecidedByOneVerdict /\ NoOrphans)'
  BY <1>1 DEF Inv, Known, OneTable, DecidedByOneVerdict, NoOrphans, IsPending, IsFinal
<1>7. (UpdateInv /\ RevokerInv)'
  BY Zenon, <1>1 DEF Inv, UpdateInv, UpdateOK, RevokerInv, Settled, IsPending, IsFinal
<1>8. /\ IsPending(id) => pending[id].expires <= purger.before
      /\ IsFinal(id) => final[id].expires <= purger.before
  BY Zenon, <1>1, <1>3 DEF Inv, PurgerInv, Settled, Tables
<1>9. ChallengesKept'
  BY <1>1, <1>8 DEF Inv, ChallengesKept, IsPending, IsFinal, PendingRows, FinalRows
<1> QED
  BY Zenon, <1>4, <1>5, <1>6, <1>7, <1>9 DEF Inv

\* The row that goes away has no challenges any more.
LEMMA PurgeRowInv ==
    ASSUME Inv, NEW id \in Ids, PurgeRow(id)
    PROVE  Inv'
<1>1. /\ purger \in PurgerStates /\ purger.step = "delete" /\ id \in purger.current
      /\ purger' = [purger EXCEPT !.current = {}]
      /\ UNCHANGED <<now, created, challenges, update, deactivation, revoker>>
      /\ created \subseteq Ids /\ now \in Nat
      /\ pending \in [Ids -> PendingRows] /\ final \in [Ids -> FinalRows]
      /\ challenges \subseteq Ids /\ purger.table \in Tables
      /\ id \notin challenges
  BY Zenon DEF PurgeRow, PurgerUnchanged, Inv, TypeOK, PurgerInv, PurgerStates
<1>2. /\ purger' \in PurgerStates /\ purger'.step = "delete" /\ purger'.current = {}
      /\ purger'.todo = purger.todo /\ purger'.table = purger.table
      /\ purger'.before = purger.before
  BY Zenon, <1>1 DEF PurgerStates
<1>3. Held' \subseteq Held
  BY Zenon, <1>2 DEF Held
<1>4. /\ NoPending \in PendingRows /\ NoFinal \in FinalRows
      /\ NoPending.status = Absent /\ NoFinal.status = Absent
  BY Zenon DEF NoPending, NoFinal, PendingRows, FinalRows
<1>5. /\ pending' \in [Ids -> PendingRows] /\ final' \in [Ids -> FinalRows]
      /\ \A i \in Ids : pending'[i] = pending[i] \/ (i = id /\ pending'[i] = NoPending)
      /\ \A i \in Ids : final'[i] = final[i] \/ (i = id /\ final'[i] = NoFinal)
  <2>1. CASE purger.table = "authz"
    <3>1. final' = [final EXCEPT ![id] = NoFinal] /\ pending' = pending
      BY Zenon, <2>1 DEF PurgeRow
    <3> QED
      BY Zenon, <1>1, <1>4, <3>1
  <2>2. CASE purger.table # "authz"
    <3>1. pending' = [pending EXCEPT ![id] = NoPending] /\ final' = final
      BY Zenon, <2>2 DEF PurgeRow
    <3> QED
      BY Zenon, <1>1, <1>4, <3>1
  <2> QED
    BY Zenon, <2>1, <2>2
<1>6. \A i \in Ids : /\ IsPending(i)' => IsPending(i) /\ pending'[i] = pending[i]
                     /\ IsFinal(i)' => IsFinal(i) /\ final'[i] = final[i]
                     /\ i # id => pending'[i] = pending[i] /\ final'[i] = final[i]
  BY Zenon, <1>4, <1>5 DEF IsPending, IsFinal
<1>7. TypeOK'
  BY Zenon, <1>1, <1>2, <1>5 DEF Inv, TypeOK
<1>8. \A i \in Ids : Later(i)
  BY Zenon, <1>6 DEF Later
<1>9. UpdateInv'
  BY Zenon, <1>1, <1>8, UpdateStays DEF Inv, UpdateInv
<1>10. RevokerInv'
  BY Zenon, <1>1, <1>8, RevokerStays DEF Inv
<1>11. PurgerInv'
  <2>1. \A i \in Held : i \in Ids
    BY Zenon, <1>1 DEF Held, PurgerStates
  <2> QED
    BY Zenon, <1>1, <1>2, <1>3, <1>6, <2>1 DEF Inv, PurgerInv, Settled
<1>12. (Known /\ OneTable /\ ChallengesKept)'
  BY Zenon, <1>1, <1>6 DEF Inv, Known, OneTable, ChallengesKept
<1>13. NoOrphans'
  BY Zenon, <1>1, <1>6 DEF Inv, NoOrphans, IsPending, IsFinal
<1>14. DecidedByOneVerdict'
  BY Zenon, <1>1, <1>6, DecidedStays DEF Inv, Done
<1> QED
  BY Zenon, <1>7, <1>9, <1>10, <1>11, <1>12, <1>13, <1>14 DEF Inv

\* Time passes, but no further than the calls under way may take.
LEMMA ClockInv == ASSUME Inv, ClockTick PROVE Inv'
<1>1. /\ now \in Nat /\ now' = now + 1
      /\ UNCHANGED <<created, pending, final, challenges, update, deactivation, revoker, purger>>
      /\ \A id \in Ids : pending[id] \in PendingRows /\ final[id] \in FinalRows
      /\ \A u \in Updates : update[u] \in UpdateStates
  BY Zenon DEF ClockTick, tables, Inv, TypeOK
<1>2. TypeOK'
  BY <1>1 DEF Inv, TypeOK
<1>3. (Known /\ OneTable /\ DecidedByOneVerdict /\ NoOrphans /\ RevokerInv)'
  BY <1>1 DEF Inv, Known, OneTable, DecidedByOneVerdict, NoOrphans, RevokerInv, Settled,
              IsPending, IsFinal
<1>4. ChallengesKept'
  BY <1>1 DEF Inv, ChallengesKept, IsPending, IsFinal, PendingRows, FinalRows
<1>5. PurgerInv'
  BY <1>1 DEF Inv, TypeOK, PurgerStates, PurgerInv, Held, Settled, IsPending, IsFinal
<1>6. ASSUME NEW u \in Updates PROVE UpdateOK(u)'
  <2>1. update[u].step \in InFlight => now + 1 <= update[u].began + RPCTime
    <3>1. update[u].step \in InFlight => now < update[u].began + RPCTime
      BY Zenon DEF ClockTick
    <3>2. update[u].began \in Nat
      BY Zenon, <1>1 DEF UpdateStates
    <3> QED
      BY <1>1, <3>1, <3>2, LifetimesAssumption
  <2> QED
    BY Zenon, <1>1, <2>1 DEF Inv, UpdateInv, UpdateOK, IsPending
<1>7. UpdateInv'
  BY Zenon, <1>6 DEF UpdateInv
<1> QED
  BY Zenon, <1>2, <1>3, <1>4, <1>5, <1>7 DEF Inv

\* Every step keeps the invariant.
LEMMA NextInv == Inv /\ [Next]_vars => Inv'
<1> SUFFICES ASSUME Inv, [Next]_vars PROVE Inv'
  BY Zenon
<1>1. CASE \E id \in Ids : NewPendingAuthorization(id) \/ PurgeChallenges(id) \/ PurgeRow(id)
  BY Zenon, <1>1, NewPendingInv, PurgeChallengesInv, PurgeRowInv
<1>2. CASE \E u \in Updates :
             WFEChallenge(u) \/ UpdateAuthorization(u) \/ UpdateStep(u) \/ UpdateFails(u)
  BY Zenon, <1>2, WFEChallengeInv, UpdateAuthorizationInv, UpdatePendingReadInv, UpdatePendingWriteInv,
     PerformValidationInv, FinalizeReadInv, FinalizeWriteInv, UpdateFailsInv DEF UpdateStep
<1>3. CASE \E d \in Deactivations : AskDeactivation(d) \/ DeactivateRead(d) \/ DeactivateWrite(d)
  BY Zenon, <1>3, DeactivationInv, DeactivateWriteInv
<1>4. CASE RevokeStart \/ RevokeSelect \/ RevokeUpdate \/ RevokeFails
  BY Zenon, <1>4, RevokeStartInv, RevokeSelectInv, RevokeUpdateInv, RevokeFailsInv
<1>5. CASE PurgeStart \/ PurgeSelect \/ PurgeNextTable \/ PurgeStops
  BY Zenon, <1>5, PurgeStartInv, PurgeSelectInv, PurgeEndInv
<1>6. CASE ClockTick
  BY Zenon, <1>6, ClockInv
<1>7. CASE UNCHANGED vars
  <2>1. UNCHANGED tables /\ PurgerUnchanged /\ purger' = purger
    BY Zenon, <1>7 DEF vars, tables, PurgerUnchanged
  <2>2. PurgerInv' /\ purger' \in PurgerStates
    BY Zenon, <1>7 DEF vars, Inv, TypeOK, PurgerInv, Held, Settled, IsPending, IsFinal
  <2> QED
    BY Zenon, <2>1, <2>2, PurgerOnly
<1> QED
  BY Zenon, <1>1, <1>2, <1>3, <1>4, <1>5, <1>6, <1>7 DEF Next

-----------------------------------------------------------------------------

\* The invariant holds in every reachable state.
THEOREM Invariance == Spec => []Inv
<1>1. Init => Inv
  BY Zenon, InitInv
<1>2. Inv /\ [Next]_vars => Inv'
  BY Zenon, NextInv
<1> QED
  BY <1>1, <1>2, PTL DEF Spec

\* The tables and those who write them keep their types.
THEOREM TypeCorrectness == Spec => []TypeOK
<1>1. Inv => TypeOK
  BY Zenon DEF Inv
<1> QED
  BY <1>1, Invariance, PTL

\* An authorization is never in both tables.
THEOREM InOneTable == Spec => []OneTable
<1>1. Inv => OneTable
  BY Zenon DEF Inv
<1> QED
  BY <1>1, Invariance, PTL

\* Every final authorization was decided by exactly one validation, and its
\* status tells which way.
THEOREM OneVerdict == Spec => []DecidedByOneVerdict
<1>1. Inv => DecidedByOneVerdict
  BY Zenon DEF Inv
<1> QED
  BY <1>1, Invariance, PTL

\* With a grace period longer than the calls take, the purger takes the
\* challenges of no authorization that is not past the grace period, although
\* its statements run between those of the updates.
THEOREM ChallengesStay == Spec => []ChallengesKept
<1>1. Inv => ChallengesKept
  BY Zenon DEF Inv
<1> QED
  BY <1>1, Invariance, PTL

\* Wherever the purger is stopped, it leaves no challenges without their
\* authorization.
THEOREM NothingOrphaned == Spec => []NoOrphans
<1>1. Inv => NoOrphans
  BY Zenon DEF Inv
<1> QED
  BY <1>1, Invariance, PTL

\* A revocation by domain that succeeds has left none of the authorizations
\* valid that were valid when it began, for any number of batches.
THEOREM RevocationComplete == Spec => []ValidOnesRevoked
<1>1. Inv => ValidOnesRevoked
  BY Zenon DEF Inv, RevokerInv, ValidOnesRevoked
<1> QED
  BY <1>1, Invariance, PTL

\* What a step may do to a final row.
Descends(id) ==
    \/ final'[id] = final[id]
    \/ /\ final'[id].expires = final[id].expires
       /\ <<final[id].status, final'[id].status>> \in
             {<<"valid", "deactivated">>, <<"valid", "revoked">>, <<"deactivated", "revoked">>}
    \/ final'[id].status = Absent /\ final[id].expires + Grace <= now

\* Every step keeps to that.
LEMMA StepDescends ==
    ASSUME Inv, [Next]_vars, NEW id \in Ids, IsFinal(id)
    PROVE  Descends(id)
<1>0. /\ final \in [Ids -> FinalRows] /\ final[id] \in FinalRows /\ now \in Nat
  BY Zenon DEF Inv, TypeOK
<1>1. CASE \E i \in Ids : NewPendingAuthorization(i) \/ PurgeChallenges(i) \/ PurgeRow(i)
  <2>1. PICK i \in Ids : NewPendingAuthorization(i) \/ PurgeChallenges(i) \/ PurgeRow(i)
    BY Zenon, <1>1
  <2>2. CASE final' = final
    BY Zenon, <2>2 DEF Descends
  <2>3. CASE final' # final
    <3>1. /\ purger.table = "authz" /\ i \in purger.current /\ purger.step = "delete"
          /\ final' = [final EXCEPT ![i] = NoFinal]
      BY Zenon, <2>1, <2>3 DEF NewPendingAuthorization, PurgeChallenges, PurgeRow
    <3>2. CASE i = id
      <4>1. /\ final[id].expires <= purger.before /\ purger.before + Grace <= now
            /\ purger.before \in Int
        BY Zenon, <3>1, <3>2 DEF Inv, TypeOK, PurgerStates, PurgerInv, Held
      <4>2. final[id].expires + Grace <= now
        BY <1>0, <4>1 DEF FinalRows
      <4> QED
        BY Zenon, <1>0, <3>1, <3>2, <4>2 DEF Descends, NoFinal
    <3>3. CASE i # id
      BY Zenon, <1>0, <3>1, <3>3 DEF Descends
    <3> QED
      BY Zenon, <3>2, <3>3
  <2> QED
    BY Zenon, <2>2, <2>3
<1>2. CASE \E u \in Updates :
             WFEChallenge(u) \/ UpdateAuthorization(u) \/ UpdateStep(u) \/ UpdateFails(u)
  <2>1. PICK u \in Updates :
             WFEChallenge(u) \/ UpdateAuthorization(u) \/ UpdateStep(u) \/ UpdateFails(u)
    BY Zenon, <1>2
  <2>2. CASE FinalizeWrite(u)
    BY Zenon, <1>0, <2>2 DEF FinalizeWrite, Descends
  <2>3. CASE ~ FinalizeWrite(u)
    BY Zenon, <2>1, <2>3 DEF WFEChallenge, UpdateAuthorization, UpdateStep, UpdateFails,
       UpdatePendingRead, UpdatePendingWrite, PerformValidation, FinalizeRead, tables, Descends
  <2> QED
    BY Zenon, <2>2, <2>3
<1>3. CASE \E d \in Deactivations : AskDeactivation(d) \/ DeactivateRead(d) \/ DeactivateWrite(d)
  <2>1. PICK d \in Deactivations : AskDeactivation(d) \/ DeactivateRead(d) \/ DeactivateWrite(d)
    BY Zenon, <1>3
  <2>2. CASE final' = final
    BY Zenon, <2>2 DEF Descends
  <2>3. CASE final' # final
    BY <1>0, <2>1, <2>3
    DEF AskDeactivation, DeactivateRead, DeactivateWrite, tables, Descends, FinalRows
  <2> QED
    BY Zenon, <2>2, <2>3
<1>4. CASE RevokeUpdate
  <2>1. CASE final' = final
    BY Zenon, <2>1 DEF Descends
  <2>2. CASE final' # final
    <3>1. /\ revoker.table = "authz" /\ revoker.step = "update"
          /\ final'[id] = IF id \in revoker.found
                          THEN [final[id] EXCEPT !.status = "revoked"] ELSE final[id]
      BY Zenon, <1>0, <1>4, <2>2 DEF RevokeUpdate
    <3>2. id \in revoker.found => final[id].status # "invalid"
      BY Zenon, <3>1 DEF Inv, RevokerInv
    <3> QED
      BY Zenon, <1>0, <3>1, <3>2 DEF Descends, FinalRows, FinalStatuses, IsFinal
  <2> QED
    BY Zenon, <2>1, <2>2
<1>5. CASE \/ RevokeStart \/ RevokeSelect \/ RevokeFails
           \/ PurgeStart \/ PurgeSelect \/ PurgeNextTable \/ PurgeStops \/ ClockTick
  BY Zenon, <1>5 DEF RevokeStart, RevokeSelect, RevokeFails, PurgeStart, PurgeSelect,
     PurgeNextTable, PurgeStops, ClockTick, tables, Descends
<1>6. CASE UNCHANGED vars
  BY Zenon, <1>6 DEF vars, Descends
<1> QED
  BY Zenon, <1>1, <1>2, <1>3, <1>4, <1>5, <1>6 DEF Next

\* The status of a final authorization only descends, and its row only goes
\* away after the grace period.
THEOREM StatusesDescend == Spec => StatusDescends
<1>1. Inv /\ [Next]_vars =>
        [\A id \in Ids : IsFinal(id) =>
          \/ final'[id] = final[id]
          \/ /\ final'[id].expires = final[id].expires
             /\ <<final[id].status, final'[id].status>> \in
                   {<<"valid", "deactivated">>, <<"valid", "revoked">>,
                    <<"deactivated", "revoked">>}
          \/ final'[id].status = Absent /\ final[id].expires + Grace <= now]_vars
  BY Zenon, StepDescends DEF Descends
<1> QED
  BY <1>1, Invariance, PTL DEF Spec, StatusDescends
=============================================================================
