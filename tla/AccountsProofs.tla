---------------------------- MODULE AccountsProofs ----------------------------
(***************************************************************************)
(* For any number of requests, accounts and authorizations: keys stay      *)
(* unique, the limits on authorizations bound and count what they say, and *)
(* stale updates and deactivations lose no more than module Accounts says. *)
(***************************************************************************)
EXTENDS Accounts, FiniteSetTheorems, SequenceTheorems, TLAPS

\* What an update has read is no newer than the row, and when it is as new and
\* the account was not deactivated since, the two differ in the fields the
\* request names.
Editing(q) == q.step \in {"merge", "select", "write"}

CopyOK(q) ==
    LET row == registrations[q.id]
    IN  /\ q.kind \in {"update", "rollover"} /\ q.id \in Ids
        /\ q.copy \in Rows /\ q.copy.status = "valid" /\ q.copy.lockCol <= row.lockCol
        /\ q.copy.lockCol = row.lockCol /\ row.status = "valid" =>
              /\ q.input.contact = None => q.copy.contact = row.contact
              /\ q.input.agreement = "" => q.copy.agreement = row.agreement
              /\ q.input.key = None => q.copy.key = row.key

RequestOK(q) ==
    /\ Editing(q) => CopyOK(q)
    /\ q.kind = "newreg" => q.input.key \in Keys
    /\ q.step = "deactivate" => q.id \in Ids
    /\ q.step \in {"pending", "invalid", "valid", "get"} => q.kind = "newauthz"

RequestInv == \A w \in Workers : RequestOK(request[w])

KeyInv == \A i, j \in Ids : registrations[i].key = registrations[j].key => i = j

\* The times of an authorization that is pending or failed.
AuthzInv ==
    \A a \in DOMAIN authzs :
        authzs[a].status \in {"pending", "invalid"} =>
            /\ authzs[a].created <= now
            /\ authzs[a].expires = authzs[a].created + PendingLifetime

\* The limit bounds the pending authorizations together with the requests that
\* have passed it, but for the last one to pass.
PendingOf(id) == {a \in DOMAIN authzs : /\ authzs[a].reg = id
                                        /\ authzs[a].expires > now
                                        /\ authzs[a].status = "pending"}
Passed(q) == q.kind = "newauthz" /\ q.step \in {"invalid", "valid", "get", "insert"}
PassedFor(id) == {w \in Workers : Passed(request[w]) /\ request[w].id = id}

Threshold(id) == GetThreshold(PendingPerAccount, "", id)

PendingInv ==
    Enabled(PendingPerAccount) =>
        \A id \in Nat : Cardinality(PendingOf(id)) + Cardinality(PassedFor(id))
                            <= Threshold(id) + Cardinality(Workers) - 1

Inv == TypeOK /\ RequestInv /\ KeyInv /\ AuthzInv /\ PendingInv

-----------------------------------------------------------------------------
\* Lemmas

\* Rows and requests have fields of their types.
LEMMA FieldTypes ==
    ASSUME TypeOK
    PROVE  /\ \A w \in Workers : request[w] \in Requests /\ request[w].id \in Nat
           /\ \A id \in Ids : registrations[id] \in Rows /\ registrations[id].lockCol \in Nat
           /\ Len(registrations) \in Nat /\ Ids = 1 .. Len(registrations)
           /\ Len(authzs) \in Nat /\ DOMAIN authzs = 1 .. Len(authzs)
           /\ \A a \in DOMAIN authzs : /\ authzs[a] \in Authzs /\ authzs[a].reg \in Nat
                                       /\ authzs[a].created \in Nat /\ authzs[a].expires \in Nat
<1>1. /\ Len(registrations) \in Nat /\ Ids = 1 .. Len(registrations)
      /\ \A id \in Ids : registrations[id] \in Rows
  <2>1. registrations \in Seq(Rows)
    BY Zenon DEF TypeOK
  <2> QED
    BY <2>1 DEF Ids
<1>2. /\ Len(authzs) \in Nat /\ DOMAIN authzs = 1 .. Len(authzs)
      /\ \A a \in DOMAIN authzs : authzs[a] \in Authzs
  <2>1. authzs \in Seq(Authzs)
    BY Zenon DEF TypeOK
  <2> QED
    BY <2>1
<1>3. \A id \in Ids : registrations[id].lockCol \in Nat
  BY Zenon, <1>1 DEF Rows
<1>4. \A a \in DOMAIN authzs : /\ authzs[a].reg \in Nat
                               /\ authzs[a].created \in Nat /\ authzs[a].expires \in Nat
  BY Zenon, <1>2 DEF Authzs
<1>5. \A w \in Workers : request[w] \in Requests
  BY Zenon DEF TypeOK
<1>6. \A w \in Workers : request[w].id \in Nat
  BY Zenon, <1>5 DEF Requests
<1> QED
  BY Zenon, <1>1, <1>2, <1>3, <1>4, <1>5, <1>6

\* The limits are numbers.
LEMMA Thresholds == \A id \in Nat : Threshold(id) \in Nat
BY Zenon, PolicyAssumption DEF Threshold, GetThreshold, RateLimitPolicy

\* The sets that the limits count are finite.
LEMMA Finite ==
    ASSUME TypeOK, NEW S \in SUBSET Workers, NEW T \in SUBSET (DOMAIN authzs)
    PROVE  /\ IsFiniteSet(S) /\ Cardinality(S) \in Nat /\ Cardinality(S) <= Cardinality(Workers)
           /\ IsFiniteSet(T) /\ Cardinality(T) \in Nat /\ Cardinality(Workers) \in Nat
<1>1. /\ IsFiniteSet(S) /\ Cardinality(S) \in Nat /\ Cardinality(S) <= Cardinality(Workers)
      /\ Cardinality(Workers) \in Nat
  BY Zenon, WorkersAssumption, FS_Subset, FS_CardinalityType
<1>2. IsFiniteSet(DOMAIN authzs)
  <2>1. Len(authzs) \in Nat /\ DOMAIN authzs = 1 .. Len(authzs)
    BY Zenon, FieldTypes
  <2>2. 1 \in Int /\ Len(authzs) \in Int
    BY <2>1
  <2> QED
    BY Zenon, <2>1, <2>2, FS_Interval
<1>3. IsFiniteSet(T) /\ Cardinality(T) \in Nat
  BY Zenon, <1>2, FS_Subset, FS_CardinalityType
<1> QED
  BY Zenon, <1>1, <1>3

\* An answered request is over.
LEMMA IdleOK ==
    /\ Idle \in Requests /\ Idle.step = "idle" /\ Idle.kind = None /\ Idle.id = 0
    /\ RequestOK(Idle) /\ ~ Passed(Idle)
<1>1. NoRow \in Rows \cup {NoRow} /\ NoInput \in Inputs
  BY Zenon DEF NoInput, Inputs, Agreements
<1>2. /\ Idle \in Requests /\ Idle.step = "idle" /\ Idle.kind = None /\ Idle.id = 0
  BY Zenon, <1>1 DEF Idle, Requests, Steps
<1> QED
  BY Zenon, <1>2 DEF RequestOK, Editing, Passed, None

\* Fewer requests past the limit, and fewer pending authorizations, stay
\* within the bound.
LEMMA FewerPending ==
    ASSUME Inv, TypeOK', \A id \in Nat : PendingOf(id)' \subseteq PendingOf(id),
           \A id \in Nat : PassedFor(id)' \subseteq PassedFor(id)
    PROVE  PendingInv'
<1> SUFFICES ASSUME Enabled(PendingPerAccount), NEW id \in Nat
             PROVE  Cardinality(PendingOf(id)') + Cardinality(PassedFor(id)')
                        <= Threshold(id) + Cardinality(Workers) - 1
  BY Zenon DEF PendingInv, Threshold
<1>1. /\ PendingOf(id) \in SUBSET (DOMAIN authzs) /\ PassedFor(id) \in SUBSET Workers
  BY Zenon DEF PendingOf, PassedFor
<1>2. /\ IsFiniteSet(PendingOf(id)) /\ IsFiniteSet(PassedFor(id))
      /\ Cardinality(PendingOf(id)) \in Nat /\ Cardinality(PassedFor(id)) \in Nat
      /\ Cardinality(Workers) \in Nat /\ Threshold(id) \in Nat
  BY Zenon, <1>1, Finite, Thresholds DEF Inv
<1>3. /\ Cardinality(PendingOf(id)') \in Nat /\ Cardinality(PassedFor(id)') \in Nat
      /\ Cardinality(PendingOf(id)') <= Cardinality(PendingOf(id))
      /\ Cardinality(PassedFor(id)') <= Cardinality(PassedFor(id))
  BY Zenon, <1>2, FS_Subset, FS_CardinalityType
<1>4. Cardinality(PendingOf(id)) + Cardinality(PassedFor(id))
          <= Threshold(id) + Cardinality(Workers) - 1
  BY Zenon DEF Inv, PendingInv
<1> DEFINE p == Cardinality(PendingOf(id))
           pp == Cardinality(PendingOf(id)')
           f == Cardinality(PassedFor(id))
           ff == Cardinality(PassedFor(id)')
           t == Threshold(id)
           n == Cardinality(Workers)
<1>5. /\ p \in Nat /\ pp \in Nat /\ f \in Nat /\ ff \in Nat /\ t \in Nat /\ n \in Nat
      /\ pp <= p /\ ff <= f /\ p + f <= t + n - 1
  BY Zenon, <1>2, <1>3, <1>4
<1> HIDE DEF p, pp, f, ff, t, n
<1>6. pp + ff <= t + n - 1
  BY <1>5
<1> QED
  BY Zenon, <1>6 DEF pp, ff, t, n

\* A step of one request that writes nothing.
LEMMA RequestStep ==
    ASSUME Inv, NEW w \in Workers, NEW q \in Requests, request' = [request EXCEPT ![w] = q],
           UNCHANGED <<now, mix, registrations, authzs>>, RequestOK(q),
           Passed(q) => Passed(request[w]) /\ q.id = request[w].id
    PROVE  Inv'
<1>1. \A v \in Workers : request'[v] = IF v = w THEN q ELSE request[v]
  BY Zenon DEF Inv, TypeOK
<1>2. TypeOK'
  BY Zenon, <1>1 DEF Inv, TypeOK
<1>3. ASSUME NEW v \in Workers PROVE RequestOK(request[v])'
  <2>1. RequestOK(request'[v])
    BY Zenon, <1>1 DEF Inv, RequestInv
  <2> QED
    BY Zenon, <2>1 DEF RequestOK, CopyOK, Editing, Ids
<1>4. KeyInv' /\ AuthzInv'
  BY Zenon DEF Inv, KeyInv, AuthzInv, Ids
<1>5. \A id \in Nat : PendingOf(id)' \subseteq PendingOf(id)
  BY Zenon DEF PendingOf
<1>6. \A id \in Nat : PassedFor(id)' \subseteq PassedFor(id)
  BY Zenon, <1>1 DEF PassedFor, Passed
<1>7. PendingInv'
  BY Zenon, <1>2, <1>5, <1>6, FewerPending
<1> QED
  BY Zenon, <1>2, <1>3, <1>4, <1>7 DEF Inv, RequestInv

\* A request that ends.
LEMMA FinishInv ==
    ASSUME Inv, NEW w \in Workers, Finish(w), UNCHANGED <<now, mix, registrations, authzs>>
    PROVE  Inv'
BY Zenon, IdleOK, RequestStep DEF Finish

\* A request that goes on, without passing the limit.
LEMMA GoInv ==
    ASSUME Inv, NEW w \in Workers, NEW step \in Steps, Go(w, step),
           UNCHANGED <<now, mix, registrations, authzs>>,
           step \notin {"merge", "select", "write", "deactivate"},
           step \in {"pending", "invalid", "valid", "get"} => request[w].kind = "newauthz",
           step \in {"invalid", "valid", "get", "insert"} /\ request[w].kind = "newauthz"
               => Passed(request[w])
    PROVE  Inv'
<1> DEFINE q == [request[w] EXCEPT !.step = step]
<1>1. request[w] \in Requests /\ RequestOK(request[w])
  BY Zenon, FieldTypes DEF Inv, RequestInv
<1>2. request' = [request EXCEPT ![w] = q]
  BY Zenon DEF Go
<1>3. /\ q \in Requests /\ q.step = step /\ q.kind = request[w].kind /\ q.id = request[w].id
      /\ q.input = request[w].input
  BY Zenon, <1>1 DEF Requests
<1> HIDE DEF q
<1>4. RequestOK(q) /\ (Passed(q) => Passed(request[w]))
  BY Zenon, <1>1, <1>3 DEF RequestOK, Editing, Passed
<1> QED
  BY Zenon, <1>2, <1>3, <1>4, RequestStep

\* Replacing an element of a sequence.
LEMMA Replaced ==
    ASSUME NEW S, NEW s \in Seq(S), NEW i \in DOMAIN s, NEW e \in S
    PROVE  /\ [s EXCEPT ![i] = e] \in Seq(S)
           /\ DOMAIN [s EXCEPT ![i] = e] = DOMAIN s
           /\ [s EXCEPT ![i] = e][i] = e
           /\ \A j \in DOMAIN s : j # i => [s EXCEPT ![i] = e][j] = s[j]
<1>1. i \in 1 .. Len(s)
  OBVIOUS
<1> QED
  BY Zenon, <1>1, ExceptSeq

\* Appending to a sequence.
LEMMA Appended ==
    ASSUME NEW S, NEW s \in Seq(S), NEW e \in S
    PROVE  /\ Append(s, e) \in Seq(S)
           /\ Len(s) \in Nat /\ DOMAIN s = 1 .. Len(s)
           /\ DOMAIN Append(s, e) = DOMAIN s \cup {Len(s) + 1}
           /\ Append(s, e)[Len(s) + 1] = e
           /\ \A j \in DOMAIN s : Append(s, e)[j] = s[j]
OBVIOUS

\* A copy stays as good while its row stays.
LEMMA CopyKept ==
    ASSUME NEW CONSTANT q, CopyOK(q), Ids \subseteq Ids',
           registrations'[q.id] = registrations[q.id]
    PROVE  CopyOK(q)'
BY Zenon DEF CopyOK

\* A request that has written the row of its account: the key stays unique,
\* and copies that others have of the row are older then, or of an account
\* that was deactivated.
LEMMA WriteStep ==
    ASSUME Inv, NEW w \in Workers, Finish(w), UNCHANGED <<now, mix, authzs>>,
           NEW id \in Ids, NEW row \in Rows,
           registrations' = [registrations EXCEPT ![id] = row],
           \A j \in Ids : registrations[j].key = row.key => j = id,
           \/ row.lockCol > registrations[id].lockCol
           \/ row.lockCol = registrations[id].lockCol /\ row.status = "deactivated"
    PROVE  Inv'
<1>1. /\ registrations \in Seq(Rows) /\ request \in [Workers -> Requests]
      /\ registrations[id].lockCol \in Nat /\ row.lockCol \in Nat
  BY Zenon, FieldTypes DEF Inv, TypeOK, Rows
<1>2. /\ registrations' \in Seq(Rows) /\ Ids' = Ids /\ registrations'[id] = row
      /\ \A j \in Ids : j # id => registrations'[j] = registrations[j]
  BY Zenon, <1>1, Replaced DEF Ids
<1>3. \A v \in Workers : request'[v] = IF v = w THEN Idle ELSE request[v]
  BY Zenon, <1>1 DEF Finish
<1>4. TypeOK'
  BY Zenon, <1>1, <1>2, IdleOK DEF Inv, TypeOK, Finish
<1>5. ASSUME NEW v \in Workers PROVE RequestOK(request[v])'
  <2>1. CASE v = w
    BY Zenon, <1>3, <2>1, IdleOK DEF RequestOK, Editing
  <2>2. CASE v # w
    <3>1. PICK q \in Requests : q = request[v] /\ request'[v] = q /\ RequestOK(q)
      BY Zenon, <1>3, <2>2, FieldTypes DEF Inv, RequestInv
    <3>2. ASSUME Editing(q) PROVE CopyOK(q)'
      <4>1. CopyOK(q) /\ q.id \in Ids /\ q.copy.lockCol \in Nat
        BY Zenon, <3>1, <3>2 DEF RequestOK, CopyOK, Rows
      <4>2. CASE q.id # id
        <5>1. registrations'[q.id] = registrations[q.id]
          BY Zenon, <1>2, <4>1, <4>2
        <5> QED
          BY Zenon, <1>2, <4>1, <5>1, CopyKept
      <4>3. CASE q.id = id
        <5>1. registrations'[q.id] = row /\ q.copy.lockCol <= registrations[id].lockCol
          BY Zenon, <1>2, <4>1, <4>3 DEF CopyOK
        <5>2. /\ q.copy.lockCol <= row.lockCol
              /\ ~ (q.copy.lockCol = row.lockCol /\ row.status = "valid")
          BY <1>1, <4>1, <5>1
        <5> QED
          BY Zenon, <1>2, <4>1, <5>1, <5>2 DEF CopyOK
      <4> QED
        BY Zenon, <4>2, <4>3
    <3> QED
      BY Zenon, <1>2, <3>1, <3>2 DEF RequestOK, Editing
  <2> QED
    BY Zenon, <2>1, <2>2
<1>6. KeyInv'
  BY <1>2 DEF Inv, KeyInv
<1>7. AuthzInv' /\ \A i \in Nat : PendingOf(i)' \subseteq PendingOf(i)
  BY Zenon DEF Inv, AuthzInv, PendingOf
<1>8. \A i \in Nat : PassedFor(i)' \subseteq PassedFor(i)
  BY Zenon, <1>3, IdleOK DEF PassedFor, Passed
<1>9. PendingInv'
  BY Zenon, <1>4, <1>7, <1>8, FewerPending
<1> QED
  BY Zenon, <1>4, <1>5, <1>6, <1>7, <1>9 DEF Inv, RequestInv

\* A request that has added an account with a key of its own.
LEMMA InsertStep ==
    ASSUME Inv, NEW w \in Workers, Finish(w), UNCHANGED <<now, mix, authzs>>,
           NEW row \in Rows, registrations' = Append(registrations, row),
           \A j \in Ids : registrations[j].key # row.key
    PROVE  Inv'
<1>1. /\ registrations \in Seq(Rows) /\ request \in [Workers -> Requests]
  BY Zenon DEF Inv, TypeOK
<1> DEFINE new == Len(registrations) + 1
<1>2. /\ registrations' \in Seq(Rows) /\ Ids' = Ids \cup {new} /\ registrations'[new] = row
      /\ \A j \in Ids : registrations'[j] = registrations[j]
  BY <1>1, Appended DEF Ids
<1> HIDE DEF new
<1>3. \A v \in Workers : request'[v] = IF v = w THEN Idle ELSE request[v]
  BY Zenon, <1>1 DEF Finish
<1>4. TypeOK'
  BY Zenon, <1>1, <1>2, IdleOK DEF Inv, TypeOK, Finish
<1>5. ASSUME NEW v \in Workers PROVE RequestOK(request[v])'
  <2>1. CASE v = w
    BY Zenon, <1>3, <2>1, IdleOK DEF RequestOK, Editing
  <2>2. CASE v # w
    <3>1. PICK q \in Requests : q = request[v] /\ request'[v] = q /\ RequestOK(q)
      BY Zenon, <1>3, <2>2, FieldTypes DEF Inv, RequestInv
    <3>2. ASSUME Editing(q) PROVE CopyOK(q)'
      <4>1. CopyOK(q) /\ q.id \in Ids
        BY Zenon, <3>1, <3>2 DEF RequestOK, CopyOK
      <4>2. registrations'[q.id] = registrations[q.id]
        BY Zenon, <1>2, <4>1
      <4> QED
        BY Zenon, <1>2, <4>1, <4>2, CopyKept
    <3> QED
      BY Zenon, <1>2, <3>1, <3>2 DEF RequestOK, Editing
  <2> QED
    BY Zenon, <2>1, <2>2
<1>6. KeyInv'
  <2>1. ASSUME NEW i \in Ids', NEW j \in Ids', registrations'[i].key = registrations'[j].key
        PROVE  i = j
    <3>1. (i \in Ids \/ i = new) /\ (j \in Ids \/ j = new)
      BY Zenon, <1>2
    <3>2. CASE i \in Ids /\ j \in Ids
      BY Zenon, <1>2, <2>1, <3>2 DEF Inv, KeyInv
    <3>3. CASE i = new /\ j \in Ids
      BY Zenon, <1>2, <2>1, <3>3
    <3>4. CASE i \in Ids /\ j = new
      BY Zenon, <1>2, <2>1, <3>4
    <3> QED
      BY Zenon, <3>1, <3>2, <3>3, <3>4
  <2> QED
    BY Zenon, <2>1 DEF KeyInv
<1>7. AuthzInv' /\ \A i \in Nat : PendingOf(i)' \subseteq PendingOf(i)
  BY Zenon DEF Inv, AuthzInv, PendingOf
<1>8. \A i \in Nat : PassedFor(i)' \subseteq PassedFor(i)
  BY Zenon, <1>3, IdleOK DEF PassedFor, Passed
<1>9. PendingInv'
  BY Zenon, <1>4, <1>7, <1>8, FewerPending
<1> QED
  BY Zenon, <1>4, <1>5, <1>6, <1>7, <1>9 DEF Inv, RequestInv

-----------------------------------------------------------------------------
\* One lemma per action of Next.

\* The first accounts have a key each.
LEMMA FirstRows ==
    ASSUME NEW n \in Nat, registrations \in [1 .. n -> Rows], NEW key,
           \A id \in 1 .. n : registrations[id].key = key[id],
           \A i, j \in 1 .. n : key[i] = key[j] => i = j
    PROVE  registrations \in Seq(Rows) /\ KeyInv
<1>1. DOMAIN registrations = 1 .. n
  BY Zenon
<1>2. registrations \in Seq(Rows)
  BY SeqDef
<1>3. KeyInv
  BY Zenon, <1>1 DEF KeyInv, Ids
<1> QED
  BY Zenon, <1>2, <1>3

\* They are rows of the table.
LEMMA FirstAccounts ==
    ASSUME NEW n \in Nat, NEW key \in [1 .. n -> Keys], NEW agreement \in Agreements,
           \A i, j \in 1 .. n : key[i] = key[j] => i = j,
           registrations = [id \in 1 .. n |->
               [NoRow EXCEPT !.key = key[id], !.agreement = agreement, !.lockCol = 1]]
    PROVE  registrations \in Seq(Rows) /\ KeyInv
<1>1. \A id \in 1 .. n : registrations[id] \in Rows /\ registrations[id].key = key[id]
  BY Zenon DEF NoRow, Rows
<1>2. DOMAIN registrations = 1 .. n
  BY Zenon
<1>3. registrations \in [1 .. n -> Rows]
  BY Zenon, <1>1, <1>2
<1> QED
  BY Zenon, <1>1, <1>3, FirstRows

\* Without authorizations and requests no limit is reached.
LEMMA NonePending ==
    ASSUME TypeOK, authzs = <<>>, \A w \in Workers : request[w] = Idle
    PROVE  AuthzInv /\ PendingInv
<1>1. DOMAIN authzs = {}
  BY FieldTypes
<1>2. ASSUME NEW id \in Nat
      PROVE  Cardinality(PendingOf(id)) + Cardinality(PassedFor(id))
                 <= Threshold(id) + Cardinality(Workers) - 1
  <2>1. PendingOf(id) = {} /\ PassedFor(id) = {}
    BY Zenon, <1>1, IdleOK DEF PendingOf, PassedFor
  <2>2. Cardinality({}) = 0
    BY Zenon, FS_EmptySet
  <2>3. Cardinality(Workers) \in Nat /\ Cardinality(Workers) # 0
    BY Zenon, WorkersAssumption, FS_EmptySet, FS_CardinalityType
  <2> QED
    BY <2>1, <2>2, <2>3, Thresholds
<1> QED
  BY Zenon, <1>1, <1>2 DEF AuthzInv, PendingInv

\* The invariant holds in the beginning.
LEMMA InitInv == Init => Inv
<1> SUFFICES ASSUME Init PROVE Inv
  BY Zenon
<1>1. mix \in SUBSET Kinds /\ registrations \in Seq(Rows) /\ KeyInv
  <2>1. PICK scenario \in Scenarios :
            /\ mix = scenario[2]
            /\ \E key \in Injection(1 .. scenario[1], Keys), agreement \in {"", "old"} :
                  registrations = [id \in 1 .. scenario[1] |->
                      [NoRow EXCEPT !.key = key[id], !.agreement = agreement, !.lockCol = 1]]
    BY Zenon DEF Init
  <2> DEFINE n == scenario[1]
  <2>2. n \in Nat /\ mix \in SUBSET Kinds
    BY Zenon, <2>1, ScenariosAssumption
  <2>3. PICK key \in Injection(1 .. n, Keys), agreement \in {"", "old"} :
            registrations = [id \in 1 .. n |->
                [NoRow EXCEPT !.key = key[id], !.agreement = agreement, !.lockCol = 1]]
    BY Zenon, <2>1
  <2> HIDE DEF n
  <2>4. key \in [1 .. n -> Keys] /\ \A i, j \in 1 .. n : key[i] = key[j] => i = j
    BY Zenon DEF Injection, IsInjective
  <2>5. agreement \in Agreements
    BY Zenon DEF Agreements
  <2> QED
    BY Zenon, <2>2, <2>3, <2>4, <2>5, FirstAccounts
<1>2. /\ now = 0 /\ authzs = <<>> /\ request = [w \in Workers |-> Idle]
      /\ \A w \in Workers : request[w] = Idle
  BY Zenon DEF Init
<1>3. TypeOK
  BY <1>1, <1>2, IdleOK DEF TypeOK
<1>4. RequestInv
  BY Zenon, <1>2, IdleOK DEF RequestInv
<1> QED
  BY Zenon, <1>1, <1>2, <1>3, <1>4, NonePending DEF Inv

\* A request of a valid account, which is read.
LEMMA verifyPOSTInv ==
    ASSUME Inv, NEW w \in Workers, NEW kind, NEW step, NEW id \in Ids, NEW input \in Inputs,
           \/ kind \in {"update", "rollover"} /\ step = "merge"
           \/ kind = "deactivate" /\ step = "deactivate"
           \/ kind = "newauthz" /\ step = "pending",
           verifyPOST(w, kind, step, id, input)
    PROVE  Inv'
<1> DEFINE row == registrations[id]
           q == [Idle EXCEPT !.kind = kind, !.step = step, !.id = id, !.copy = row, !.input = input]
<1>1. /\ request' = [request EXCEPT ![w] = q] /\ row.status = "valid"
      /\ UNCHANGED <<now, mix, registrations, authzs>>
  BY Zenon DEF verifyPOST
<1>2. row \in Rows /\ row.lockCol \in Nat /\ id \in Nat
  BY FieldTypes DEF Inv
<1>3. /\ q \in Requests /\ q.kind = kind /\ q.step = step /\ q.id = id /\ q.copy = row
      /\ q.input = input
  BY Zenon, <1>2 DEF Idle, Requests, Kinds, Steps
<1> HIDE DEF q
<1>4. Editing(q) => CopyOK(q)
  BY <1>1, <1>2, <1>3 DEF CopyOK, Editing
<1>5. RequestOK(q) /\ ~ Passed(q)
  BY Zenon, <1>3, <1>4 DEF RequestOK, Passed
<1> QED
  BY Zenon, <1>1, <1>3, <1>5, RequestStep

\* wfe.NewRegistration.
LEMMA NewRegistrationInv ==
    ASSUME Inv, NEW w \in Workers, NEW key \in Keys, NEW contact \in Contacts \cup {None},
           NEW agreement \in Agreements, NewRegistration(w, key, contact, agreement)
    PROVE  Inv'
<1> DEFINE input == [contact |-> contact, agreement |-> agreement, key |-> key]
           q == [Idle EXCEPT !.kind = "newreg", !.step = "limit", !.input = input]
<1>1. request' = [request EXCEPT ![w] = q] /\ UNCHANGED <<now, mix, registrations, authzs>>
  BY Zenon DEF NewRegistration
<1>2. input \in Inputs /\ input.key \in Keys
  BY Zenon DEF Inputs
<1> HIDE DEF input
<1>3. q \in Requests /\ q.kind = "newreg" /\ q.step = "limit" /\ q.input = input
  BY Zenon, <1>2 DEF Idle, Requests, Kinds, Steps
<1> HIDE DEF q
<1>4. RequestOK(q) /\ ~ Passed(q)
  BY Zenon, <1>2, <1>3 DEF RequestOK, Editing, Passed
<1> QED
  BY Zenon, <1>1, <1>3, <1>4, RequestStep

\* The limit on registrations, and the contacts.
LEMMA checkRegistrationLimitInv ==
    ASSUME Inv, NEW w \in Workers, checkRegistrationLimit(w)
    PROVE  Inv'
<1>1. /\ request[w].kind = "newreg" /\ UNCHANGED <<now, mix, registrations, authzs>>
      /\ Finish(w) \/ Go(w, "insert")
  BY Zenon DEF checkRegistrationLimit, validateContacts
<1> QED
  BY Zenon, <1>1, FinishInv, GoInv DEF Steps

\* sa.NewRegistration: the index on the key.
LEMMA NewRegistrationInsertInv ==
    ASSUME Inv, NEW w \in Workers, NewRegistrationInsert(w)
    PROVE  Inv'
<1> DEFINE input == request[w].input
           row == [key |-> input.key, contact |-> registrationToModel(input.contact),
                   agreement |-> input.agreement, status |-> "valid",
                   createdAt |-> now, lockCol |-> 1]
<1>1. /\ request[w].kind = "newreg" /\ Finish(w) /\ UNCHANGED <<now, mix, authzs>>
      /\ registrations' = IF Holding(input.key) = {} THEN Append(registrations, row)
                          ELSE registrations
  BY Zenon DEF NewRegistrationInsert
<1>2. input \in Inputs /\ input.key \in Keys /\ now \in Nat
  BY Zenon, <1>1, FieldTypes DEF Inv, TypeOK, RequestInv, RequestOK, Requests
<1> HIDE DEF input
<1>3. registrationToModel(input.contact) \in Contacts \cup {NoContact}
  BY Zenon, <1>2 DEF registrationToModel, Inputs
<1>4. row \in Rows /\ row.key = input.key
  BY Zenon, <1>2, <1>3 DEF Rows, Inputs
<1> HIDE DEF row
<1>5. CASE Holding(input.key) = {}
  <2>1. \A j \in Ids : registrations[j].key # row.key
    BY Zenon, <1>4, <1>5 DEF Holding
  <2> QED
    BY Zenon, <1>1, <1>4, <1>5, <2>1, InsertStep
<1>6. CASE Holding(input.key) # {}
  BY Zenon, <1>1, <1>6, FinishInv
<1> QED
  BY Zenon, <1>5, <1>6

\* Requests that begin with the account.
LEMMA BeginInv ==
    ASSUME Inv, NEW w \in Workers, NEW id \in Ids,
           \/ \E contact \in Contacts \cup {NoContact, None}, agreement \in Agreements :
                 UpdateRequest(w, id, contact, agreement)
           \/ \E key \in Keys : KeyRollover(w, id, key)
           \/ DeactivateRequest(w, id)
           \/ NewAuthorization(w, id)
    PROVE  Inv'
<1>1. ASSUME NEW contact \in Contacts \cup {NoContact, None}, NEW agreement \in Agreements,
             UpdateRequest(w, id, contact, agreement)
      PROVE  Inv'
  <2> DEFINE input == [contact |-> contact, agreement |-> agreement, key |-> registrations[id].key]
  <2>1. registrations[id].key \in Keys
    BY Zenon, FieldTypes DEF Inv, Rows
  <2>2. input \in Inputs
    BY Zenon, <2>1 DEF Inputs
  <2>3. verifyPOST(w, "update", "merge", id, input)
    BY Zenon, <1>1 DEF UpdateRequest
  <2> HIDE DEF input
  <2> QED
    BY Zenon, <2>2, <2>3, verifyPOSTInv
<1>2. ASSUME NEW key \in Keys, KeyRollover(w, id, key) PROVE Inv'
  <2> DEFINE input == [NoInput EXCEPT !.key = key]
  <2>1. input \in Inputs
    BY Zenon DEF Inputs, NoInput, Agreements
  <2>2. verifyPOST(w, "rollover", "merge", id, input)
    BY Zenon, <1>2 DEF KeyRollover
  <2> HIDE DEF input
  <2> QED
    BY Zenon, <2>1, <2>2, verifyPOSTInv
<1>3. NoInput \in Inputs
  BY Zenon DEF Inputs, NoInput, Agreements
<1>4. CASE DeactivateRequest(w, id)
  BY Zenon, <1>3, <1>4, verifyPOSTInv DEF DeactivateRequest
<1>5. CASE NewAuthorization(w, id)
  BY Zenon, <1>3, <1>5, verifyPOSTInv DEF NewAuthorization
<1> QED
  BY Zenon, <1>1, <1>2, <1>4, <1>5

\* The merge keeps the fields that the request does not name.
LEMMA UpdateRegistrationInv ==
    ASSUME Inv, NEW w \in Workers, UpdateRegistration(w)
    PROVE  Inv'
<1> DEFINE r == request[w].copy
           input == request[w].input
           merged == mergeUpdate(r, input)
<1>1. /\ request[w].step = "merge" /\ UNCHANGED <<now, mix, registrations, authzs>>
      /\ \/ Finish(w)
         \/ request' = [request EXCEPT ![w].copy = merged, ![w].step = "select"]
  BY Zenon DEF UpdateRegistration
<1>2. CASE Finish(w)
  BY Zenon, <1>1, <1>2, FinishInv
<1>3. CASE request' = [request EXCEPT ![w].copy = merged, ![w].step = "select"]
  <2>1. /\ request[w] \in Requests /\ CopyOK(request[w]) /\ RequestOK(request[w])
        /\ r \in Rows /\ input \in Inputs
    BY Zenon, <1>1, FieldTypes DEF Inv, RequestInv, RequestOK, Editing, CopyOK, Requests
  <2> DEFINE contact == IF input.contact = None THEN r.contact ELSE input.contact
             agreement == IF input.agreement = "" THEN r.agreement ELSE input.agreement
             key == IF input.key = None THEN r.key ELSE input.key
  <2>2. /\ merged = [r EXCEPT !.contact = contact, !.agreement = agreement, !.key = key]
        /\ contact \in Contacts \cup {NoContact} /\ agreement \in Agreements /\ key \in Keys
    BY Zenon, <2>1 DEF mergeUpdate, Inputs, Rows
  <2>3. /\ input.contact = None => contact = r.contact
        /\ input.agreement = "" => agreement = r.agreement
        /\ input.key = None => key = r.key
    BY Zenon
  <2> HIDE DEF contact, agreement, key, merged
  <2>4. /\ merged \in Rows /\ merged.contact = contact /\ merged.agreement = agreement
        /\ merged.key = key /\ merged.lockCol = r.lockCol /\ merged.status = r.status
    BY Zenon, <2>1, <2>2 DEF Rows
  <2> DEFINE q == [request[w] EXCEPT !.copy = merged, !.step = "select"]
  <2>5. request' = [request EXCEPT ![w] = q]
    BY Zenon, <1>3, <2>1 DEF Inv, TypeOK
  <2>6. /\ q \in Requests /\ q.copy = merged /\ q.step = "select" /\ q.id = request[w].id
        /\ q.kind = request[w].kind /\ q.input = input
    BY Zenon, <2>1, <2>4 DEF Requests, Steps
  <2> HIDE DEF q
  <2>7. CopyOK(q)
    BY Zenon, <2>1, <2>3, <2>4, <2>6 DEF CopyOK
  <2>8. RequestOK(q) /\ ~ Passed(q)
    BY Zenon, <2>1, <2>6, <2>7 DEF RequestOK, Passed
  <2> QED
    BY Zenon, <1>1, <2>5, <2>6, <2>8, RequestStep
<1> QED
  BY Zenon, <1>1, <1>2, <1>3

\* sa.UpdateRegistration's read.
LEMMA UpdateSelectInv ==
    ASSUME Inv, NEW w \in Workers, UpdateSelect(w)
    PROVE  Inv'
<1> DEFINE lock == registrations[request[w].id].lockCol
           q == [request[w] EXCEPT !.step = "write", !.lockCol = lock]
<1>1. /\ request[w].step = "select" /\ request[w] \in Requests /\ RequestOK(request[w])
      /\ CopyOK(request[w]) /\ lock \in Nat
  BY Zenon, FieldTypes DEF UpdateSelect, Inv, RequestInv, RequestOK, Editing, CopyOK
<1>2. request' = [request EXCEPT ![w] = q] /\ UNCHANGED <<now, mix, registrations, authzs>>
  BY Zenon DEF UpdateSelect, Inv, TypeOK
<1> HIDE DEF lock
<1>3. /\ q \in Requests /\ q.step = "write" /\ q.copy = request[w].copy /\ q.id = request[w].id
      /\ q.kind = request[w].kind /\ q.input = request[w].input
  BY Zenon, <1>1 DEF Requests, Steps
<1> HIDE DEF q
<1>4. CopyOK(q)
  BY Zenon, <1>1, <1>3 DEF CopyOK
<1>5. RequestOK(q) /\ ~ Passed(q)
  BY Zenon, <1>1, <1>3, <1>4 DEF RequestOK, Passed
<1> QED
  BY Zenon, <1>2, <1>3, <1>5, RequestStep

\* sa.UpdateRegistration's write: LockCol goes up, and the key is no other
\* account's.
LEMMA UpdateWriteInv ==
    ASSUME Inv, NEW w \in Workers, UpdateWrite(w)
    PROVE  Inv'
<1> DEFINE id == request[w].id
           r == request[w].copy
           lock == request[w].lockCol + 1
           row == [r EXCEPT !.lockCol = lock]
<1>1. /\ request[w].step = "write" /\ Finish(w) /\ UNCHANGED <<now, mix, authzs>>
      /\ registrations' =
             IF registrations[id].lockCol = request[w].lockCol /\ Holding(r.key) \subseteq {id}
             THEN [registrations EXCEPT ![id] = row] ELSE registrations
  BY Zenon DEF UpdateWrite
<1>2. id \in Ids /\ r \in Rows /\ registrations[id].lockCol \in Nat
  BY Zenon, <1>1, FieldTypes DEF Inv, RequestInv, RequestOK, Editing, CopyOK
<1>3. CASE registrations[id].lockCol = request[w].lockCol /\ Holding(r.key) \subseteq {id}
  <2>1. lock \in Nat /\ lock > registrations[id].lockCol
    BY <1>2, <1>3
  <2>2. \A j \in Ids : registrations[j].key = r.key => j = id
    BY Zenon, <1>3 DEF Holding
  <2>3. registrations' = [registrations EXCEPT ![id] = row]
    BY Zenon, <1>1, <1>3
  <2> HIDE DEF lock, r
  <2>4. row \in Rows /\ row.lockCol = lock /\ row.key = r.key
    BY Zenon, <1>2, <2>1 DEF Rows
  <2> HIDE DEF row, id
  <2>5. PICK i \in Ids, new \in Rows : i = id /\ new = row
    BY Zenon, <1>2, <2>4
  <2>6. /\ registrations' = [registrations EXCEPT ![i] = new]
        /\ \A j \in Ids : registrations[j].key = new.key => j = i
        /\ new.lockCol > registrations[i].lockCol
    BY Zenon, <2>1, <2>2, <2>3, <2>4, <2>5
  <2> QED
    BY Zenon, <1>1, <2>6, WriteStep
<1>4. CASE ~ (registrations[id].lockCol = request[w].lockCol /\ Holding(r.key) \subseteq {id})
  BY Zenon, <1>1, <1>4, FinishInv
<1> QED
  BY Zenon, <1>3, <1>4

\* sa.DeactivateRegistration.
LEMMA DeactivateRegistrationInv ==
    ASSUME Inv, NEW w \in Workers, DeactivateRegistration(w)
    PROVE  Inv'
<1> DEFINE id == request[w].id
           old == registrations[id]
           row == [old EXCEPT !.status = "deactivated"]
<1>1. /\ Finish(w) /\ UNCHANGED <<now, mix, authzs>>
      /\ registrations' = [registrations EXCEPT ![id] = row]
  BY Zenon DEF DeactivateRegistration
<1>2. id \in Ids /\ old \in Rows /\ old.lockCol \in Nat
  BY Zenon, FieldTypes DEF DeactivateRegistration, Inv, RequestInv, RequestOK
<1>3. \A j \in Ids : registrations[j].key = old.key => j = id
  BY Zenon, <1>2 DEF Inv, KeyInv
<1>4. row \in Rows /\ row.lockCol = old.lockCol /\ row.key = old.key /\ row.status = "deactivated"
  BY Zenon, <1>2 DEF Rows
<1>5. PICK i \in Ids, new \in Rows : i = id /\ new = row
  BY Zenon, <1>2, <1>4
<1>6. /\ registrations' = [registrations EXCEPT ![i] = new]
      /\ \A j \in Ids : registrations[j].key = new.key => j = i
      /\ new.lockCol = registrations[i].lockCol /\ new.status = "deactivated"
  BY Zenon, <1>1, <1>3, <1>4, <1>5
<1> HIDE DEF row, id, old
<1> QED
  BY Zenon, <1>1, <1>6, WriteStep

\* The limit on pending authorizations: who passes it saw fewer than the
\* threshold, and no more than all requests have passed then.
LEMMA checkPendingAuthorizationLimitInv ==
    ASSUME Inv, NEW w \in Workers, checkPendingAuthorizationLimit(w)
    PROVE  Inv'
<1>1. /\ request[w].step = "pending" /\ UNCHANGED <<now, mix, registrations, authzs>>
      /\ \/ Finish(w)
         \/ /\ Go(w, "invalid")
            /\ Enabled(PendingPerAccount) =>
                 ~ (CountPendingAuthorizations(request[w].id) >= Threshold(request[w].id))
  BY Zenon DEF checkPendingAuthorizationLimit, Threshold
<1>2. CASE Finish(w)
  BY Zenon, <1>1, <1>2, FinishInv
<1>3. CASE /\ Go(w, "invalid")
           /\ Enabled(PendingPerAccount) =>
                ~ (CountPendingAuthorizations(request[w].id) >= Threshold(request[w].id))
  <2> DEFINE q == [request[w] EXCEPT !.step = "invalid"]
  <2>1. /\ request[w] \in Requests /\ RequestOK(request[w]) /\ request[w].kind = "newauthz"
    BY Zenon, <1>1, FieldTypes DEF Inv, RequestInv, RequestOK
  <2>2. request' = [request EXCEPT ![w] = q]
    BY Zenon, <1>3 DEF Go
  <2>3. /\ q \in Requests /\ q.step = "invalid" /\ q.id = request[w].id /\ q.kind = "newauthz"
    BY Zenon, <2>1 DEF Requests, Steps
  <2> HIDE DEF q
  <2>4. \A v \in Workers : request'[v] = IF v = w THEN q ELSE request[v]
    BY Zenon, <2>2 DEF Inv, TypeOK
  <2>5. TypeOK'
    BY Zenon, <1>1, <2>2, <2>3 DEF Inv, TypeOK
  <2>6. ASSUME NEW v \in Workers PROVE RequestOK(request[v])'
    <3>1. RequestOK(request'[v])
      BY Zenon, <2>3, <2>4 DEF Inv, RequestInv, RequestOK, Editing
    <3> QED
      BY Zenon, <1>1, <3>1 DEF RequestOK, CopyOK, Editing, Ids
  <2>7. KeyInv' /\ AuthzInv'
    BY Zenon, <1>1 DEF Inv, KeyInv, AuthzInv, Ids
  <2>8. ASSUME Enabled(PendingPerAccount), NEW id \in Nat
        PROVE  Cardinality(PendingOf(id)') + Cardinality(PassedFor(id)')
                   <= Threshold(id) + Cardinality(Workers) - 1
    <3>1. /\ PendingOf(id)' = PendingOf(id) /\ PendingOf(id) \in SUBSET (DOMAIN authzs)
          /\ PassedFor(id) \in SUBSET Workers /\ PassedFor(id)' \in SUBSET Workers
      BY Zenon, <1>1 DEF PendingOf, PassedFor
    <3> DEFINE p == Cardinality(PendingOf(id))
               f == Cardinality(PassedFor(id)')
               n == Cardinality(Workers)
               t == Threshold(id)
    <3>2. /\ p \in Nat /\ f \in Nat /\ n \in Nat /\ f <= n /\ t \in Nat
      BY Zenon, <3>1, Finite, Thresholds DEF Inv
    <3>3. CASE id = request[w].id
      <4>1. CountPendingAuthorizations(id) = p
        BY Zenon DEF CountPendingAuthorizations, PendingOf
      <4>2. ~ (p >= t)
        BY Zenon, <1>3, <2>8, <3>3, <4>1
      <4> HIDE DEF p, f, n, t
      <4>3. p + f <= t + n - 1
        BY <3>2, <4>2
      <4> QED
        BY Zenon, <3>1, <4>3 DEF p, f, n, t
    <3>4. CASE id # request[w].id
      <4>1. PassedFor(id)' = PassedFor(id)
        BY Zenon, <1>1, <2>3, <2>4, <3>4 DEF PassedFor, Passed
      <4> QED
        BY Zenon, <2>8, <3>1, <4>1 DEF Inv, PendingInv
    <3> QED
      BY Zenon, <3>3, <3>4
  <2>9. PendingInv'
    BY Zenon, <2>8 DEF PendingInv, Threshold
  <2> QED
    BY Zenon, <2>5, <2>6, <2>7, <2>9 DEF Inv, RequestInv
<1> QED
  BY Zenon, <1>1, <1>2, <1>3

\* The steps of a request for an authorization after that.
LEMMA NewAuthzStepsInv ==
    ASSUME Inv, NEW w \in Workers, checkInvalidAuthorizationLimit(w) \/ FindValid(w) \/ Reuse(w)
    PROVE  Inv'
<1>0. request[w] \in Requests /\ RequestOK(request[w])
  BY Zenon, FieldTypes DEF Inv, RequestInv
<1>1. CASE checkInvalidAuthorizationLimit(w)
  <2>1. /\ request[w].step = "invalid" /\ UNCHANGED <<now, mix, registrations, authzs>>
        /\ Finish(w) \/ Go(w, "valid")
    BY Zenon, <1>1 DEF checkInvalidAuthorizationLimit, IsSafeDomain
  <2> QED
    BY Zenon, <1>0, <2>1, FinishInv, GoInv DEF Steps, RequestOK, Passed
<1>2. CASE FindValid(w)
  <2>1. PICK a \in GetValidAuthorizations(request[w].id) :
            request' = [request EXCEPT ![w].found = a,
                            ![w].step = IF a = 0 THEN "insert" ELSE "get"]
    BY Zenon, <1>2 DEF FindValid
  <2> DEFINE step == IF a = 0 THEN "insert" ELSE "get"
             q == [request[w] EXCEPT !.found = a, !.step = step]
  <2>2. a \in Nat
    BY FieldTypes DEF GetValidAuthorizations, Inv
  <2>3. /\ request' = [request EXCEPT ![w] = q] /\ request[w].step = "valid"
        /\ UNCHANGED <<now, mix, registrations, authzs>>
    BY Zenon, <1>2, <2>1 DEF FindValid, Inv, TypeOK
  <2>4. step \in {"insert", "get"} /\ step \in Steps
    BY Zenon DEF Steps
  <2> HIDE DEF step
  <2>5. /\ q \in Requests /\ q.step = step /\ q.kind = request[w].kind /\ q.id = request[w].id
        /\ q.input = request[w].input
    BY Zenon, <1>0, <2>2, <2>4 DEF Requests
  <2> HIDE DEF q
  <2>6. RequestOK(q) /\ Passed(request[w])
    BY Zenon, <1>0, <2>3, <2>4, <2>5 DEF RequestOK, Editing, Passed
  <2> QED
    BY Zenon, <2>3, <2>5, <2>6, RequestStep
<1>3. CASE Reuse(w)
  <2>1. /\ request[w].step = "get" /\ UNCHANGED <<now, mix, registrations, authzs>>
        /\ Finish(w) \/ Go(w, "insert")
    BY Zenon, <1>3 DEF Reuse
  <2> QED
    BY Zenon, <1>0, <2>1, FinishInv, GoInv DEF Steps, RequestOK, Passed
<1> QED
  BY Zenon, <1>1, <1>2, <1>3

\* sa.NewPendingAuthorization: one more is pending, and one request fewer is
\* past the limit.
LEMMA NewPendingAuthorizationInv ==
    ASSUME Inv, NEW w \in Workers, NewPendingAuthorization(w)
    PROVE  Inv'
<1>1. PICK e : e = [reg |-> request[w].id, status |-> "pending", created |-> now,
                    expires |-> now + PendingLifetime]
  BY Zenon
<1>2. /\ request[w].kind = "newauthz" /\ request[w].step = "insert" /\ Finish(w)
      /\ authzs' = Append(authzs, e) /\ UNCHANGED <<now, mix, registrations>>
  BY Zenon, <1>1 DEF NewPendingAuthorization
<1>3. /\ request[w].id \in Nat /\ now \in Nat /\ now + PendingLifetime \in Nat
      /\ authzs \in Seq(Authzs) /\ request \in [Workers -> Requests]
  BY PolicyAssumption, FieldTypes DEF Inv, TypeOK
<1>4. /\ e \in Authzs /\ e.reg = request[w].id /\ e.status = "pending" /\ e.created = now
      /\ e.expires = now + PendingLifetime
  <2>1. PICK x : x = now + PendingLifetime
    BY Zenon
  <2> QED
    BY Zenon, <1>1, <1>3, <2>1 DEF Authzs
<1> DEFINE k == Len(authzs) + 1
<1>5. /\ authzs' \in Seq(Authzs) /\ DOMAIN authzs' = DOMAIN authzs \cup {k} /\ authzs'[k] = e
      /\ \A a \in DOMAIN authzs : authzs'[a] = authzs[a]
  BY <1>2, <1>3, <1>4, Appended
<1> HIDE DEF k
<1>6. \A v \in Workers : request'[v] = IF v = w THEN Idle ELSE request[v]
  BY Zenon, <1>2, <1>3 DEF Finish
<1>7. TypeOK'
  BY Zenon, <1>2, <1>3, <1>5, IdleOK DEF Inv, TypeOK, Finish
<1>8. ASSUME NEW v \in Workers PROVE RequestOK(request[v])'
  <2>1. RequestOK(request'[v])
    BY Zenon, <1>6, IdleOK DEF Inv, RequestInv
  <2> QED
    BY Zenon, <1>2, <2>1 DEF RequestOK, CopyOK, Editing, Ids
<1>9. KeyInv'
  BY Zenon, <1>2 DEF Inv, KeyInv, Ids
<1>10. AuthzInv'
  <2>1. now <= now
    BY <1>3
  <2> QED
    BY Zenon, <1>2, <1>4, <1>5, <2>1 DEF Inv, AuthzInv
<1>11. ASSUME Enabled(PendingPerAccount), NEW id \in Nat
       PROVE  Cardinality(PendingOf(id)') + Cardinality(PassedFor(id)')
                  <= Threshold(id) + Cardinality(Workers) - 1
  <2>1. /\ PendingOf(id) \in SUBSET (DOMAIN authzs) /\ PassedFor(id) \in SUBSET Workers
        /\ PendingOf(id)' \in SUBSET (DOMAIN authzs') /\ PassedFor(id)' \in SUBSET PassedFor(id)
    BY Zenon, <1>2, <1>6, IdleOK DEF PendingOf, PassedFor
  <2> DEFINE p == Cardinality(PendingOf(id))
             pp == Cardinality(PendingOf(id)')
             f == Cardinality(PassedFor(id))
             ff == Cardinality(PassedFor(id)')
             n == Cardinality(Workers)
             t == Threshold(id)
  <2>2. /\ IsFiniteSet(PendingOf(id)) /\ IsFiniteSet(PassedFor(id))
        /\ p \in Nat /\ f \in Nat /\ n \in Nat /\ t \in Nat /\ p + f <= t + n - 1
    BY Zenon, <1>11, <2>1, Finite, Thresholds DEF Inv, PendingInv
  <2>3. CASE id = request[w].id
    <3>1. PendingOf(id)' \subseteq PendingOf(id) \cup {k}
      BY Zenon, <1>2, <1>5 DEF PendingOf
    <3>2. IsFiniteSet(PendingOf(id) \cup {k}) /\ Cardinality(PendingOf(id) \cup {k}) \in p .. p + 1
      <4>1. /\ IsFiniteSet(PendingOf(id) \cup {k})
            /\ Cardinality(PendingOf(id) \cup {k}) = p \/ Cardinality(PendingOf(id) \cup {k}) = p + 1
        BY Zenon, <2>2, FS_AddElement
      <4> HIDE DEF p
      <4> QED
        BY <2>2, <4>1
    <3>3. pp \in Nat /\ pp <= Cardinality(PendingOf(id) \cup {k})
      BY Zenon, <3>1, <3>2, FS_Subset, FS_CardinalityType
    <3>4. w \in PassedFor(id) /\ PassedFor(id)' = PassedFor(id) \ {w}
      BY Zenon, <1>2, <1>6, <2>3, IdleOK DEF PassedFor, Passed
    <3>5. ff = f - 1
      BY Zenon, <2>2, <3>4, FS_RemoveElement
    <3> HIDE DEF p, pp, f, ff, n, t
    <3>6. pp + ff <= t + n - 1
      BY <2>2, <3>2, <3>3, <3>5
    <3> QED
      BY Zenon, <3>6 DEF pp, ff, t, n
  <2>4. CASE id # request[w].id
    <3>1. PendingOf(id)' \subseteq PendingOf(id)
      BY Zenon, <1>2, <1>4, <1>5, <2>4 DEF PendingOf
    <3>2. /\ pp \in Nat /\ ff \in Nat /\ pp <= p /\ ff <= f
      BY Zenon, <2>1, <2>2, <3>1, FS_Subset, FS_CardinalityType
    <3> HIDE DEF p, pp, f, ff, n, t
    <3>3. pp + ff <= t + n - 1
      BY <2>2, <3>2
    <3> QED
      BY Zenon, <3>3 DEF pp, ff, t, n
  <2> QED
    BY Zenon, <2>3, <2>4
<1>12. PendingInv'
  BY Zenon, <1>11 DEF PendingInv, Threshold
<1> QED
  BY Zenon, <1>7, <1>8, <1>9, <1>10, <1>12 DEF Inv, RequestInv

\* Time passes, or an authorization leaves the pending ones.
LEMMA AuthzStep ==
    ASSUME Inv, TypeOK', AuthzInv', now' >= now, UNCHANGED <<registrations, request>>,
           DOMAIN authzs' = DOMAIN authzs,
           \A a \in DOMAIN authzs : authzs'[a].status = "pending" => authzs'[a] = authzs[a]
    PROVE  Inv'
<1>1. RequestInv' /\ KeyInv'
  BY Zenon DEF Inv, RequestInv, RequestOK, CopyOK, Editing, KeyInv, Ids
<1>2. now \in Nat /\ now' \in Nat /\ \A a \in DOMAIN authzs : authzs[a].expires \in Nat
  BY Zenon, FieldTypes DEF Inv, TypeOK
<1>3. \A id \in Nat : PendingOf(id)' \subseteq PendingOf(id)
  BY <1>2 DEF PendingOf
<1>4. \A id \in Nat : PassedFor(id)' \subseteq PassedFor(id)
  BY Zenon DEF PassedFor
<1>5. PendingInv'
  BY Zenon, <1>3, <1>4, FewerPending
<1> QED
  BY Zenon, <1>1, <1>5 DEF Inv

\* One authorization is decided or deactivated.
LEMMA DecideInv ==
    ASSUME Inv, NEW a \in DOMAIN authzs, Decide(a) \/ DeactivateAuthorization(a)
    PROVE  Inv'
<1>1. /\ UNCHANGED <<now, mix, registrations, request>> /\ authzs \in Seq(Authzs)
      /\ authzs[a] \in Authzs /\ now \in Nat /\ now + Lifetime \in Nat
  BY PolicyAssumption, FieldTypes DEF Decide, DeactivateAuthorization, Inv, TypeOK
<1>2. PICK x : x = now + Lifetime
  BY Zenon
<1>3. \/ authzs' = [authzs EXCEPT ![a] = [authzs[a] EXCEPT !.status = "invalid"]]
         /\ authzs[a].status = "pending"
      \/ authzs' = [authzs EXCEPT ![a] = [authzs[a] EXCEPT !.status = "valid", !.expires = x]]
      \/ authzs' = [authzs EXCEPT ![a] = [authzs[a] EXCEPT !.status = "deactivated"]]
  BY Zenon, <1>1, <1>2 DEF Decide, DeactivateAuthorization
<1>4. PICK e \in Authzs : /\ authzs' = [authzs EXCEPT ![a] = e] /\ e.status # "pending"
                          /\ e.status = "invalid" =>
                               /\ authzs[a].status = "pending" /\ e.created = authzs[a].created
                               /\ e.expires = authzs[a].expires
  <2>1. CASE /\ authzs' = [authzs EXCEPT ![a] = [authzs[a] EXCEPT !.status = "invalid"]]
             /\ authzs[a].status = "pending"
    <3> DEFINE new == [authzs[a] EXCEPT !.status = "invalid"]
    <3>1. /\ new \in Authzs /\ new.status = "invalid" /\ new.created = authzs[a].created
          /\ new.expires = authzs[a].expires
      BY Zenon, <1>1 DEF Authzs
    <3> HIDE DEF new
    <3>2. authzs' = [authzs EXCEPT ![a] = new]
      BY Zenon, <2>1 DEF new
    <3> QED
      BY Zenon, <2>1, <3>1, <3>2
  <2>2. CASE authzs' = [authzs EXCEPT ![a] = [authzs[a] EXCEPT !.status = "valid", !.expires = x]]
    <3>1. [authzs[a] EXCEPT !.status = "valid", !.expires = x] \in Authzs
      BY Zenon, <1>1, <1>2 DEF Authzs
    <3>2. [authzs[a] EXCEPT !.status = "valid", !.expires = x].status = "valid"
      BY Zenon, <1>1 DEF Authzs
    <3> QED
      BY Zenon, <2>2, <3>1, <3>2
  <2>3. CASE authzs' = [authzs EXCEPT ![a] = [authzs[a] EXCEPT !.status = "deactivated"]]
    <3> DEFINE new == [authzs[a] EXCEPT !.status = "deactivated"]
    <3>1. new \in Authzs /\ new.status = "deactivated"
      BY Zenon, <1>1 DEF Authzs
    <3> HIDE DEF new
    <3>2. authzs' = [authzs EXCEPT ![a] = new]
      BY Zenon, <2>3 DEF new
    <3> QED
      BY Zenon, <3>1, <3>2
  <2> QED
    BY Zenon, <1>3, <2>1, <2>2, <2>3
<1>5. /\ authzs' \in Seq(Authzs) /\ DOMAIN authzs' = DOMAIN authzs /\ authzs'[a] = e
      /\ \A b \in DOMAIN authzs : b # a => authzs'[b] = authzs[b]
  BY Zenon, <1>1, <1>4, Replaced
<1>6. TypeOK'
  BY Zenon, <1>1, <1>5 DEF Inv, TypeOK
<1>7. AuthzInv'
  BY Zenon, <1>1, <1>4, <1>5 DEF Inv, AuthzInv
<1>8. now' >= now
  BY <1>1
<1> QED
  BY Zenon, <1>1, <1>4, <1>5, <1>6, <1>7, <1>8, AuthzStep

\* Time passes, or nothing happens.
LEMMA TickInv == ASSUME Inv, Tick \/ UNCHANGED vars PROVE Inv'
<1>1. /\ now \in Nat /\ now' \in Nat /\ now' >= now
      /\ UNCHANGED <<mix, registrations, authzs, request>>
  BY DEF Inv, TypeOK, Tick, vars
<1>2. TypeOK'
  BY Zenon, <1>1 DEF Inv, TypeOK
<1>3. AuthzInv'
  BY <1>1, FieldTypes DEF Inv, AuthzInv
<1> QED
  BY Zenon, <1>1, <1>2, <1>3, AuthzStep

\* Every step keeps the invariant.
LEMMA NextInv == ASSUME Inv, [Next]_vars PROVE Inv'
<1>1. ASSUME NEW w \in Workers,
             \/ \E key \in Keys, contact \in Contacts \cup {None}, agreement \in Agreements :
                   NewRegistration(w, key, contact, agreement)
             \/ checkRegistrationLimit(w) \/ NewRegistrationInsert(w)
             \/ \E id \in Ids :
                   \/ \E contact \in Contacts \cup {NoContact, None}, agreement \in Agreements :
                         UpdateRequest(w, id, contact, agreement)
                   \/ \E key \in Keys : KeyRollover(w, id, key)
                   \/ DeactivateRequest(w, id)
                   \/ NewAuthorization(w, id)
             \/ UpdateRegistration(w) \/ UpdateSelect(w) \/ UpdateWrite(w)
             \/ DeactivateRegistration(w)
             \/ checkPendingAuthorizationLimit(w) \/ checkInvalidAuthorizationLimit(w)
             \/ FindValid(w) \/ Reuse(w) \/ NewPendingAuthorization(w)
      PROVE  Inv'
  BY Zenon, <1>1, NewRegistrationInv, checkRegistrationLimitInv, NewRegistrationInsertInv, BeginInv,
     UpdateRegistrationInv, UpdateSelectInv, UpdateWriteInv, DeactivateRegistrationInv,
     checkPendingAuthorizationLimitInv, NewAuthzStepsInv, NewPendingAuthorizationInv
<1> QED
  BY Zenon, <1>1, DecideInv, TickInv DEF Next

-----------------------------------------------------------------------------
\* Invariants

\* The invariant holds in every reachable state.
THEOREM Invariance == Spec => []Inv
<1>1. Init => Inv
  BY Zenon, InitInv
<1>2. Inv /\ [Next]_vars => Inv'
  BY Zenon, NextInv
<1> QED
  BY <1>1, <1>2, PTL DEF Spec

\* The tables and the requests keep their types.
THEOREM TypeCorrectness == Spec => []TypeOK
<1>1. Inv => TypeOK
  BY Zenon DEF Inv
<1> QED
  BY <1>1, Invariance, PTL

\* An account key belongs to one account.
THEOREM KeysAreUnique == Spec => []KeysUnique
<1>1. ASSUME Inv PROVE KeysUnique
  <2> SUFFICES ASSUME NEW key \in Keys PROVE Cardinality(Holding(key)) <= 1
    BY Zenon DEF KeysUnique
  <2>1. CASE Holding(key) = {}
    <3>1. Cardinality(Holding(key)) = 0
      BY Zenon, <2>1, FS_EmptySet
    <3> QED
      BY <3>1
  <2>2. CASE Holding(key) # {}
    <3>1. PICK i : i \in Holding(key)
      BY Zenon, <2>2
    <3>2. Holding(key) = {i}
      BY Zenon, <1>1, <3>1 DEF Inv, KeyInv, Holding
    <3>3. Cardinality({i}) = 1
      BY Zenon, FS_Singleton
    <3> QED
      BY <3>2, <3>3
  <2> QED
    BY Zenon, <2>1, <2>2
<1> QED
  BY <1>1, Invariance, PTL

\* The pending authorizations of an account overshoot the limit at most by the
\* other requests in progress.
THEOREM PendingIsBounded == Spec => []PendingBounded
<1>1. ASSUME Inv PROVE PendingBounded
  <2> SUFFICES ASSUME Enabled(PendingPerAccount), NEW id \in Ids
               PROVE  CountPendingAuthorizations(id) <= Threshold(id) + Cardinality(Workers) - 1
    BY Zenon DEF PendingBounded, Threshold
  <2>1. id \in Nat
    BY <1>1, FieldTypes DEF Inv
  <2>2. /\ PendingOf(id) \in SUBSET (DOMAIN authzs) /\ PassedFor(id) \in SUBSET Workers
    BY Zenon DEF PendingOf, PassedFor
  <2> DEFINE p == Cardinality(PendingOf(id))
             f == Cardinality(PassedFor(id))
             n == Cardinality(Workers)
             t == Threshold(id)
  <2>3. p \in Nat /\ f \in Nat /\ n \in Nat /\ t \in Nat /\ p + f <= t + n - 1
    BY Zenon, <1>1, <2>1, <2>2, Finite, Thresholds DEF Inv, PendingInv
  <2>4. CountPendingAuthorizations(id) = p
    BY Zenon DEF CountPendingAuthorizations, PendingOf
  <2> HIDE DEF p, f, n, t
  <2>5. p <= t + n - 1
    BY <2>3
  <2> QED
    BY Zenon, <2>4, <2>5 DEF t, n
<1> QED
  BY <1>1, Invariance, PTL

\* The limit on failed authorizations counts those made in its window.
THEOREM InvalidAreCounted == Spec => []InvalidCounted
<1>1. ASSUME Inv PROVE InvalidCounted
  <2> SUFFICES ASSUME NEW id \in Ids
               PROVE  RecentInvalid(id) =
                        Cardinality({a \in DOMAIN authzs :
                          /\ authzs[a].reg = id /\ authzs[a].status = "invalid"
                          /\ WindowBegin(InvalidPerAccount, now) < authzs[a].created})
    BY Zenon DEF InvalidCounted
  <2> DEFINE latest == now + PendingLifetime
             earliest == WindowBegin(InvalidPerAccount, latest)
  <2>1. ASSUME NEW a \in DOMAIN authzs, authzs[a].status = "invalid"
        PROVE  (earliest < authzs[a].expires /\ authzs[a].expires <= latest)
                  <=> WindowBegin(InvalidPerAccount, now) < authzs[a].created
    <3>1. /\ authzs[a].created \in Nat /\ authzs[a].created <= now
          /\ authzs[a].expires = authzs[a].created + PendingLifetime
          /\ now \in Nat /\ PendingLifetime \in Nat /\ InvalidPerAccount.window \in Nat
      BY Zenon, <1>1, <2>1, FieldTypes, PolicyAssumption DEF Inv, TypeOK, AuthzInv, RateLimitPolicy
    <3> QED
      BY <3>1 DEF WindowBegin
  <2> HIDE DEF latest, earliest
  <2>2. {a \in DOMAIN authzs : /\ authzs[a].reg = id /\ authzs[a].status = "invalid"
                               /\ earliest < authzs[a].expires /\ authzs[a].expires <= latest}
          = {a \in DOMAIN authzs : /\ authzs[a].reg = id /\ authzs[a].status = "invalid"
                                   /\ WindowBegin(InvalidPerAccount, now) < authzs[a].created}
    BY Zenon, <2>1
  <2> QED
    BY Zenon, <2>2 DEF RecentInvalid, CountInvalidAuthorizations, latest, earliest
<1> QED
  BY <1>1, Invariance, PTL

-----------------------------------------------------------------------------
\* What a step does to requests and rows

\* A request stays, ends, goes on for the same account, or is new: then its
\* account is valid.
Moves(v) ==
    LET q == request'[v]
    IN  \/ q = request[v]
        \/ q.kind \in {None, "newreg"}
        \/ q.kind = request[v].kind /\ q.id = request[v].id
        \/ q.id \in Ids /\ registrations[q.id].status = "valid"

\* A step of a request that is not an update's write.
Other(w) ==
    \/ \E key \in Keys, contact \in Contacts \cup {None}, agreement \in Agreements :
          NewRegistration(w, key, contact, agreement)
    \/ checkRegistrationLimit(w) \/ NewRegistrationInsert(w)
    \/ \E id \in Ids :
          \/ \E contact \in Contacts \cup {NoContact, None}, agreement \in Agreements :
                UpdateRequest(w, id, contact, agreement)
          \/ \E key \in Keys : KeyRollover(w, id, key)
          \/ DeactivateRequest(w, id)
          \/ NewAuthorization(w, id)
    \/ UpdateRegistration(w) \/ UpdateSelect(w) \/ DeactivateRegistration(w)
    \/ checkPendingAuthorizationLimit(w) \/ checkInvalidAuthorizationLimit(w)
    \/ FindValid(w) \/ Reuse(w) \/ NewPendingAuthorization(w)

\* The steps of the system.
LEMMA StepKinds ==
    ASSUME [Next]_vars
    PROVE  \/ \E w \in Workers : Other(w) \/ UpdateWrite(w)
           \/ UNCHANGED <<registrations, request>>
BY Zenon DEF Next, Other, Decide, DeactivateAuthorization, Tick, vars

\* A new request of an account.
LEMMA verifyPOSTMoves ==
    ASSUME TypeOK, NEW w \in Workers, NEW kind, NEW step, NEW id \in Ids, NEW input,
           verifyPOST(w, kind, step, id, input)
    PROVE  /\ request[w].step = "idle" /\ UNCHANGED registrations
           /\ \A v \in Workers : v # w => request'[v] = request[v]
           /\ request'[w].id = id /\ registrations[id].status = "valid"
<1> DEFINE q == [Idle EXCEPT !.kind = kind, !.step = step, !.id = id,
                     !.copy = registrations[id], !.input = input]
<1>1. /\ request' = [request EXCEPT ![w] = q] /\ request[w].step = "idle"
      /\ UNCHANGED registrations /\ registrations[id].status = "valid"
  BY Zenon DEF verifyPOST
<1>2. q.id = id
  BY Zenon DEF Idle
<1> HIDE DEF q
<1> QED
  BY Zenon, <1>1, <1>2 DEF TypeOK

\* An answer.
LEMMA FinishMoves ==
    ASSUME TypeOK, NEW w \in Workers, Finish(w)
    PROVE  request'[w].kind = None /\ \A v \in Workers : v # w => request'[v] = request[v]
BY Zenon, IdleOK DEF TypeOK, Finish

\* A step.
LEMMA GoMoves ==
    ASSUME TypeOK, NEW w \in Workers, NEW step, Go(w, step)
    PROVE  /\ request'[w].kind = request[w].kind /\ request'[w].id = request[w].id
           /\ \A v \in Workers : v # w => request'[v] = request[v]
<1> DEFINE q == [request[w] EXCEPT !.step = step]
<1>1. request' = [request EXCEPT ![w] = q] /\ request[w] \in Requests
  BY Zenon, FieldTypes DEF Go
<1>2. q.kind = request[w].kind /\ q.id = request[w].id
  BY Zenon, <1>1 DEF Requests
<1> HIDE DEF q
<1> QED
  BY Zenon, <1>1, <1>2 DEF TypeOK

\* A request moves on its own, and rows change only by an update's write or
\* by a deactivation.
LEMMA OtherMoves ==
    ASSUME Inv, NEW w \in Workers, Other(w)
    PROVE  /\ request[w].step # "write" /\ Moves(w)
           /\ \A v \in Workers : v # w => request'[v] = request[v]
           /\ Ids \subseteq Ids'
           /\ \A id \in Ids : \/ registrations'[id] = registrations[id]
                              \/ registrations'[id].status = "deactivated"
<1> DEFINE Goal == /\ request[w].step # "write" /\ Moves(w)
                   /\ \A v \in Workers : v # w => request'[v] = request[v]
                   /\ Ids \subseteq Ids'
                   /\ \A id \in Ids : \/ registrations'[id] = registrations[id]
                                      \/ registrations'[id].status = "deactivated"
<1>0. TypeOK /\ request[w] \in Requests /\ (UNCHANGED registrations => Ids' = Ids)
  BY Zenon, FieldTypes DEF Inv, Ids
<1>1. ASSUME request[w].step # "write", UNCHANGED registrations,
             Finish(w) \/ \E step \in Steps : Go(w, step)
      PROVE  Goal
  BY Zenon, <1>0, <1>1, FinishMoves, GoMoves DEF Moves
<1>2. ASSUME NEW key \in Keys, NEW contact \in Contacts \cup {None}, NEW agreement \in Agreements,
             NewRegistration(w, key, contact, agreement)
      PROVE  Goal
  <2> DEFINE input == [contact |-> contact, agreement |-> agreement, key |-> key]
             q == [Idle EXCEPT !.kind = "newreg", !.step = "limit", !.input = input]
  <2>1. /\ request' = [request EXCEPT ![w] = q] /\ request[w].step = "idle"
        /\ UNCHANGED registrations
    BY Zenon, <1>2 DEF NewRegistration
  <2>2. q.kind = "newreg"
    BY Zenon DEF Idle
  <2> HIDE DEF q
  <2>3. request'[w].kind = "newreg" /\ \A v \in Workers : v # w => request'[v] = request[v]
    BY Zenon, <1>0, <2>1, <2>2 DEF TypeOK
  <2> QED
    BY Zenon, <1>0, <2>1, <2>3 DEF Moves
<1>3. CASE checkRegistrationLimit(w)
  <2>1. Finish(w) \/ Go(w, "insert")
    BY Zenon, <1>3 DEF checkRegistrationLimit, validateContacts
  <2> QED
    BY Zenon, <1>1, <1>3, <2>1 DEF checkRegistrationLimit, Steps
<1>4. CASE NewRegistrationInsert(w)
  <2>1. PICK row : \/ registrations' = registrations
                   \/ registrations' = Append(registrations, row)
    BY Zenon, <1>4 DEF NewRegistrationInsert
  <2>2. /\ Ids \subseteq Ids' /\ \A id \in Ids : registrations'[id] = registrations[id]
    <3>1. registrations \in Seq(Rows)
      BY Zenon, <1>0 DEF TypeOK
    <3>2. CASE registrations' = Append(registrations, row)
      BY <3>1, <3>2 DEF Ids
    <3> QED
      BY Zenon, <1>0, <2>1, <3>2
  <2>3. Finish(w) /\ request[w].step = "insert"
    BY Zenon, <1>4 DEF NewRegistrationInsert
  <2> QED
    BY Zenon, <1>0, <2>2, <2>3, FinishMoves DEF Moves
<1>5. ASSUME NEW id \in Ids, NEW kind, NEW step, NEW input, verifyPOST(w, kind, step, id, input)
      PROVE  Goal
  <2>1. /\ request[w].step = "idle" /\ UNCHANGED registrations
        /\ \A v \in Workers : v # w => request'[v] = request[v]
        /\ request'[w].id = id /\ registrations[id].status = "valid"
    BY Zenon, <1>0, <1>5, verifyPOSTMoves
  <2> QED
    BY Zenon, <1>0, <2>1 DEF Moves
<1>6. ASSUME NEW id \in Ids,
             \/ \E contact \in Contacts \cup {NoContact, None}, agreement \in Agreements :
                   UpdateRequest(w, id, contact, agreement)
             \/ \E key \in Keys : KeyRollover(w, id, key)
             \/ DeactivateRequest(w, id)
             \/ NewAuthorization(w, id)
      PROVE  Goal
  BY Zenon, <1>5, <1>6 DEF UpdateRequest, KeyRollover, DeactivateRequest, NewAuthorization
<1>7. CASE UpdateRegistration(w)
  <2>1. PICK merged : \/ Finish(w)
                      \/ request' = [request EXCEPT ![w].copy = merged, ![w].step = "select"]
    BY Zenon, <1>7 DEF UpdateRegistration
  <2>2. CASE Finish(w)
    BY Zenon, <1>1, <1>7, <2>2 DEF UpdateRegistration
  <2>3. CASE request' = [request EXCEPT ![w].copy = merged, ![w].step = "select"]
    <3> DEFINE q == [request[w] EXCEPT !.copy = merged, !.step = "select"]
    <3>1. request' = [request EXCEPT ![w] = q]
      BY Zenon, <1>0, <2>3 DEF TypeOK
    <3>2. q.kind = request[w].kind /\ q.id = request[w].id
      BY Zenon, <1>0 DEF Requests
    <3> HIDE DEF q
    <3>3. /\ request'[w].kind = request[w].kind /\ request'[w].id = request[w].id
          /\ \A v \in Workers : v # w => request'[v] = request[v]
      BY Zenon, <1>0, <3>1, <3>2 DEF TypeOK
    <3> QED
      BY Zenon, <1>0, <1>7, <3>3 DEF Moves, UpdateRegistration
  <2> QED
    BY Zenon, <2>1, <2>2, <2>3
<1>8. CASE UpdateSelect(w)
  <2>1. PICK lock : request' = [request EXCEPT ![w].step = "write", ![w].lockCol = lock]
    BY Zenon, <1>8 DEF UpdateSelect
  <2> DEFINE q == [request[w] EXCEPT !.step = "write", !.lockCol = lock]
  <2>2. request' = [request EXCEPT ![w] = q]
    BY Zenon, <1>0, <2>1 DEF TypeOK
  <2>3. q.kind = request[w].kind /\ q.id = request[w].id
    BY Zenon, <1>0 DEF Requests
  <2> HIDE DEF q
  <2>4. /\ request'[w].kind = request[w].kind /\ request'[w].id = request[w].id
        /\ \A v \in Workers : v # w => request'[v] = request[v]
    BY Zenon, <1>0, <2>2, <2>3 DEF TypeOK
  <2> QED
    BY Zenon, <1>0, <1>8, <2>4 DEF Moves, UpdateSelect
<1>9. CASE DeactivateRegistration(w)
  <2>1. PICK i \in Ids, row \in Rows :
            registrations' = [registrations EXCEPT ![i] = row] /\ row.status = "deactivated"
    <3> DEFINE i == request[w].id
               row == [registrations[i] EXCEPT !.status = "deactivated"]
    <3>1. i \in Ids /\ registrations[i] \in Rows
      BY Zenon, <1>9, FieldTypes DEF DeactivateRegistration, Inv, RequestInv, RequestOK
    <3>2. row \in Rows /\ row.status = "deactivated"
      BY Zenon, <3>1 DEF Rows
    <3>3. registrations' = [registrations EXCEPT ![i] = row]
      BY Zenon, <1>9 DEF DeactivateRegistration
    <3> QED
      BY Zenon, <3>1, <3>2, <3>3
  <2>2. /\ Ids \subseteq Ids'
        /\ \A id \in Ids : \/ registrations'[id] = registrations[id]
                           \/ registrations'[id].status = "deactivated"
    <3>1. registrations \in Seq(Rows)
      BY Zenon, <1>0 DEF TypeOK
    <3> QED
      BY Zenon, <2>1, <3>1, Replaced DEF Ids
  <2>3. Finish(w) /\ request[w].step = "deactivate"
    BY Zenon, <1>9 DEF DeactivateRegistration
  <2> QED
    BY Zenon, <1>0, <2>2, <2>3, FinishMoves DEF Moves
<1>10. CASE checkPendingAuthorizationLimit(w) \/ checkInvalidAuthorizationLimit(w) \/ Reuse(w)
  <2>1. /\ request[w].step # "write" /\ UNCHANGED registrations
        /\ Finish(w) \/ Go(w, "invalid") \/ Go(w, "valid") \/ Go(w, "insert")
    BY Zenon, <1>10 DEF checkPendingAuthorizationLimit, checkInvalidAuthorizationLimit, IsSafeDomain, Reuse
  <2> QED
    BY Zenon, <1>1, <2>1 DEF Steps
<1>11. CASE FindValid(w)
  <2>1. PICK a, step : request' = [request EXCEPT ![w].found = a, ![w].step = step]
    BY Zenon, <1>11 DEF FindValid
  <2> DEFINE q == [request[w] EXCEPT !.found = a, !.step = step]
  <2>2. request' = [request EXCEPT ![w] = q]
    BY Zenon, <1>0, <2>1 DEF TypeOK
  <2>3. q.kind = request[w].kind /\ q.id = request[w].id
    BY Zenon, <1>0 DEF Requests
  <2> HIDE DEF q
  <2>4. /\ request'[w].kind = request[w].kind /\ request'[w].id = request[w].id
        /\ \A v \in Workers : v # w => request'[v] = request[v]
    BY Zenon, <1>0, <2>2, <2>3 DEF TypeOK
  <2> QED
    BY Zenon, <1>0, <1>11, <2>4 DEF Moves, FindValid
<1>12. CASE NewPendingAuthorization(w)
  BY Zenon, <1>1, <1>12 DEF NewPendingAuthorization
<1> QED
  BY <1>2, <1>3, <1>4, <1>6, <1>7, <1>8, <1>9, <1>10, <1>11, <1>12, Zenon DEF Other

\* An update's write: of its own account, from its copy.
LEMMA WriteMoves ==
    ASSUME Inv, NEW w \in Workers, UpdateWrite(w)
    PROVE  /\ request'[w].kind = None
           /\ \A v \in Workers : v # w => request'[v] = request[v]
           /\ CopyOK(request[w]) /\ Ids' = Ids
           /\ \A id \in Ids : id # request[w].id => registrations'[id] = registrations[id]
           /\ \/ registrations' = registrations
              \/ LET copy == request[w].copy
                     written == registrations'[request[w].id]
                 IN  /\ written.contact = copy.contact /\ written.agreement = copy.agreement
                     /\ written.key = copy.key /\ written.status = copy.status
<1> DEFINE r == request[w].copy
           lock == request[w].lockCol + 1
           row == [r EXCEPT !.lockCol = lock]
<1>1. /\ Finish(w) /\ request[w].step = "write"
      /\ \/ registrations' = registrations
         \/ registrations' = [registrations EXCEPT ![request[w].id] = row]
  BY Zenon DEF UpdateWrite
<1>2. CopyOK(request[w]) /\ r \in Rows /\ request[w].id \in Ids /\ lock \in Nat
      /\ registrations \in Seq(Rows)
  <2>1. CopyOK(request[w])
    BY Zenon, <1>1 DEF Inv, RequestInv, RequestOK, Editing
  <2>2. request[w] \in Requests /\ registrations \in Seq(Rows)
    BY Zenon, FieldTypes DEF Inv, TypeOK
  <2>3. request[w].lockCol \in Nat
    BY Zenon, <2>2 DEF Requests
  <2>4. lock \in Nat
    BY <2>3
  <2>5. r \in Rows /\ request[w].id \in Ids
    BY Zenon, <2>1 DEF CopyOK
  <2> QED
    BY Zenon, <2>1, <2>2, <2>4, <2>5
<1> HIDE DEF lock
<1>3. /\ row \in Rows /\ row.contact = r.contact /\ row.agreement = r.agreement
      /\ row.key = r.key /\ row.status = r.status
  BY Zenon, <1>2 DEF Rows
<1> HIDE DEF row
<1>4. /\ request'[w].kind = None /\ \A v \in Workers : v # w => request'[v] = request[v]
  BY Zenon, <1>1, FinishMoves DEF Inv
<1>5. CASE registrations' = [registrations EXCEPT ![request[w].id] = row]
  BY Zenon, <1>2, <1>3, <1>4, <1>5, Replaced DEF Ids
<1>6. CASE registrations' = registrations
  BY Zenon, <1>2, <1>4, <1>6 DEF Ids
<1> QED
  BY Zenon, <1>1, <1>5, <1>6

-----------------------------------------------------------------------------
\* Action properties

\* An update changes a field it does not name only if the row was written
\* after the update read it.
THEOREM UpdatesOnlyItsFields == Spec => UpdatesItsFields
<1>1. ASSUME Inv, [Next]_vars, NEW w \in Workers,
             request[w].step = "write", request'[w] # request[w]
      PROVE  LET row == registrations[request[w].id]
                 written == registrations'[request[w].id]
             IN  \A f \in Fields : row[f] # written[f] =>
                   \/ Names(w, f)
                   \/ row.lockCol # request[w].copy.lockCol
                   \/ row.status = "deactivated"
  <2> DEFINE row == registrations[request[w].id]
             written == registrations'[request[w].id]
             copy == request[w].copy
             input == request[w].input
  <2>1. UpdateWrite(w)
    BY Zenon, <1>1, StepKinds, OtherMoves, WriteMoves
  <2>2. /\ CopyOK(request[w]) /\ row \in Rows
        /\ \/ registrations' = registrations
           \/ /\ written.contact = copy.contact /\ written.agreement = copy.agreement
              /\ written.key = copy.key /\ written.status = copy.status
    BY Zenon, <1>1, <2>1, WriteMoves, FieldTypes DEF Inv, CopyOK
  <2>3. CASE registrations' = registrations
    BY Zenon, <2>3
  <2>4. CASE row.lockCol # copy.lockCol \/ row.status = "deactivated"
    BY Zenon, <2>4
  <2>5. CASE /\ row.lockCol = copy.lockCol /\ row.status # "deactivated"
             /\ written.contact = copy.contact /\ written.agreement = copy.agreement
             /\ written.key = copy.key /\ written.status = copy.status
    <3>1. /\ row.status = "valid" /\ copy.status = "valid"
          /\ input.contact = None => copy.contact = row.contact
          /\ input.agreement = "" => copy.agreement = row.agreement
          /\ input.key = None => copy.key = row.key
      BY Zenon, <2>2, <2>5 DEF CopyOK, Rows
    <3>2. /\ input.contact # "" /\ input.agreement # None /\ input.key # ""
      BY Zenon, <1>1, FieldTypes, NamesAssumption
         DEF Inv, Requests, Inputs, Agreements, None, NoContact, CurrentAgreement
    <3>3. ASSUME NEW f \in Fields, row[f] # written[f] PROVE Names(w, f)
      <4>1. CASE f = "contact"
        BY Zenon, <2>5, <3>1, <3>2, <3>3, <4>1 DEF Names
      <4>2. CASE f = "agreement"
        BY Zenon, <2>5, <3>1, <3>2, <3>3, <4>2 DEF Names
      <4>3. CASE f = "key"
        BY Zenon, <2>5, <3>1, <3>2, <3>3, <4>3 DEF Names
      <4>4. CASE f = "status"
        BY Zenon, <2>5, <3>1, <3>3, <4>4
      <4> QED
        BY Zenon, <4>1, <4>2, <4>3, <4>4 DEF Fields
    <3> QED
      BY Zenon, <3>3
  <2> QED
    BY Zenon, <2>2, <2>3, <2>4, <2>5
<1>2. Inv /\ [Next]_vars =>
        [\A w \in Workers : request[w].step = "write" /\ request'[w] # request[w] =>
           LET row == registrations[request[w].id]
               written == registrations'[request[w].id]
           IN  \A f \in Fields : row[f] # written[f] =>
                 \/ Names(w, f)
                 \/ row.lockCol # request[w].copy.lockCol
                 \/ row.status = "deactivated"]_vars
  BY Zenon, <1>1
<1> QED
  BY <1>2, Invariance, PTL DEF Spec, UpdatesItsFields

\* Once the updates that began before a deactivation have ended, the account
\* stays deactivated.
THEOREM DeactivationIsFinal == Spec => DeactivationFinal
<1>1. ASSUME Inv, [Next]_vars, NEW id \in Ids, Closed(id) PROVE Closed(id)'
  <2>1. ASSUME NEW w \in Workers, Other(w) PROVE Closed(id)'
    <3>1. registrations'[id].status = "deactivated"
      BY Zenon, <1>1, <2>1, OtherMoves DEF Closed
    <3>2. ASSUME NEW v \in Workers, request'[v].kind \in {"update", "rollover"}
          PROVE  request'[v].id # id
      <4>1. request'[v] = request[v] \/ Moves(v)
        BY Zenon, <1>1, <2>1, OtherMoves
      <4> QED
        BY Zenon, <1>1, <3>2, <4>1 DEF Closed, Moves, None
    <3> QED
      BY Zenon, <3>1, <3>2 DEF Closed
  <2>2. ASSUME NEW w \in Workers, UpdateWrite(w) PROVE Closed(id)'
    <3>1. request[w].id # id
      BY Zenon, <1>1, <2>2, WriteMoves DEF Closed, CopyOK
    <3>2. /\ registrations'[id] = registrations[id] /\ request'[w].kind = None
          /\ \A v \in Workers : v # w => request'[v] = request[v]
      BY Zenon, <1>1, <2>2, <3>1, WriteMoves
    <3> QED
      BY Zenon, <1>1, <3>2 DEF Closed, None
  <2>3. CASE UNCHANGED <<registrations, request>>
    BY Zenon, <1>1, <2>3 DEF Closed
  <2> QED
    BY Zenon, <1>1, <2>1, <2>2, <2>3, StepKinds
<1>2. Inv /\ [Next]_vars => [\A id \in Ids : Closed(id) => Closed(id)']_vars
  BY Zenon, <1>1
<1> QED
  BY <1>2, Invariance, PTL DEF Spec, DeactivationFinal
=============================================================================
