---------------------------- MODULE IssuanceProofs ----------------------------
(***************************************************************************)
(* For any requests, names, policies and times: certificates are for names *)
(* that were authorized a moment ago, the rate limits bound what they say, *)
(* and no certificate is lost while the CA lives.                          *)
(***************************************************************************)
EXTENDS Issuance, FiniteSetTheorems, SequenceTheorems, TLAPS

\* A request: who serves it, since when, and what it has seen.
RequestOK(w) ==
    LET q == request[w]
    IN  /\ q.step # "idle" => w \in scenario.workers
        /\ q.step = "store" => q.serial \in Serials
        /\ q.began <= now
        /\ q.step = "sign" => \A n \in q.names : authz[n] >= q.began

RequestInv == \A w \in Workers : RequestOK(w)

\* The orphans are what is stored late or by orphan-finder.
RepairInv ==
    /\ \A x \in late : x[1] \in orphans
    /\ finder # 0 => finder \in orphans

SignedInv == AuthorizedRecently /\ \A s \in Serials : signed[s].at <= now

-----------------------------------------------------------------------------
\* The limit on all certificates

PolicyInv == scenario.reloads # {} => policy = scenario.policy

total == scenario.policy.total
StoredBy(t) ==
    {s \in InOrder : WindowBegin(total, t) <= stored[s] /\ stored[s] < t}
BelowRecently(passed) ==
    passed # Never =>
        /\ passed <= now
        /\ \E t \in passed - StaleAfter - RPCTime .. passed :
              Cardinality(StoredBy(t)) < total.threshold

\* What was counted is a bound for the certificates stored until then.
CountingInv ==
    policy = scenario.policy /\ counting.step = "counted" =>
        /\ counting.from <= now /\ now <= counting.from + RPCTime
        /\ Cardinality(StoredBy(counting.from)) <= counting.count
CountInv ==
    policy = scenario.policy /\ totalIssued.at # Never =>
        /\ totalIssued.at <= now
        /\ \E t \in totalIssued.at - RPCTime .. totalIssued.at :
              Cardinality(StoredBy(t)) <= totalIssued.count
PassedInv ==
    policy = scenario.policy =>
        /\ \A w \in Workers : BelowRecently(request[w].passed)
        /\ \A s \in Serials : BelowRecently(signed[s].passed)

-----------------------------------------------------------------------------
\* The limit per name

perName == scenario.policy.perName
For(names, d) == d \in domainsForRateLimiting(names)
InWindow(s, t) == WindowBegin(perName, t) + Backdate < signed[s].at /\ signed[s].at <= t

\* The certificates of a window, and the requests that may still add to it.
Issued(d, t) == {s \in InOrder : For(signed[s].names, d) /\ FirstOfItsSet(s) /\ InWindow(s, t)}
Flying(q, d, t) ==
    \/ /\ q.step \in {"fqdn", "authz", "sign"} /\ t = now
       /\ For(q.names, d) /\ ~ FQDNSetExists(q.names)
    \/ /\ q.step = "store"
       /\ For(signed[q.serial].names, d) /\ FirstOfItsSet(q.serial) /\ InWindow(q.serial, t)
InFlight(d, t) == {w \in Workers : Flying(request[w], d, t)}

Domains == {Base(n) : n \in Names}
Threshold(d) == GetThreshold(perName, d, 1)

PerNameInv ==
    policy = scenario.policy /\ Enabled(perName) =>
        \A d \in Domains, t \in 0 .. now :
            Cardinality(Issued(d, t)) + Cardinality(InFlight(d, t))
                <= Threshold(d) + Cardinality(scenario.workers) - 1

Inv == /\ TypeOK /\ RequestInv /\ RepairInv /\ SignedInv /\ Accounted
       /\ PolicyInv /\ CountingInv /\ CountInv /\ PassedInv /\ PerNameInv

-----------------------------------------------------------------------------
\* Types of the parts

\* The policies the behaviour starts with.
LEMMA PolicyTypes ==
    ASSUME TypeOK
    PROVE  /\ total.window \in Nat /\ total.threshold \in Nat
           /\ perName.window \in Nat /\ perName.threshold \in Nat
           /\ policy.total.threshold \in Nat
           /\ \A d : Threshold(d) \in Nat
<1>1. scenario.policy \in Policies /\ policy \in Policies
  BY Zenon DEF TypeOK, ScenarioRecords
<1>2. RateLimitPolicy(total) /\ RateLimitPolicy(perName) /\ RateLimitPolicy(policy.total)
  BY Zenon, <1>1, PoliciesAssumption DEF total, perName
<1> QED
  BY Zenon, <1>2 DEF RateLimitPolicy, Threshold, GetThreshold

\* The workers and the certificates are finitely many.
LEMMA Finite ==
    ASSUME TypeOK
    PROVE  /\ IsFiniteSet(scenario.workers) /\ scenario.workers \subseteq Workers
           /\ Cardinality(scenario.workers) \in Nat /\ Cardinality(scenario.workers) >= 1
           /\ Serials = 1 .. Len(signed) /\ Len(signed) \in Nat
           /\ IsFiniteSet(Serials) /\ IsFiniteSet(DOMAIN stored)
           /\ DOMAIN stored \subseteq Serials
<1>1. scenario.workers \in (SUBSET Workers) \ {{}}
  BY Zenon DEF TypeOK, ScenarioRecords
<1>2. IsFiniteSet(scenario.workers) /\ Cardinality(scenario.workers) \in Nat
  BY Zenon, <1>1, ScenariosAssumption, FS_Subset, FS_CardinalityType
<1>3. Cardinality(scenario.workers) # 0
  BY Zenon, <1>1, <1>2, FS_EmptySet
<1>4. Serials = 1 .. Len(signed) /\ Len(signed) \in Nat
  <2>1. signed \in Seq(Certificates)
    BY Zenon DEF TypeOK
  <2> QED
    BY Zenon, <2>1, LenProperties DEF Serials
<1>5. IsFiniteSet(Serials)
  <2>1. 1 \in Int /\ Len(signed) \in Int
    BY <1>4
  <2> QED
    BY Zenon, <1>4, <2>1, FS_Interval
<1>6. DOMAIN stored \subseteq Serials
  BY Zenon DEF TypeOK
<1>7. IsFiniteSet(DOMAIN stored)
  BY Zenon, <1>5, <1>6, FS_Subset
<1> QED
  BY <1>1, <1>2, <1>3, <1>4, <1>5, <1>6, <1>7

\* The fields of a request and of a certificate.
LEMMA FieldTypes ==
    ASSUME TypeOK
    PROVE  /\ \A w \in Workers :
                 /\ request[w] \in Requests /\ request[w].step \in Steps
                 /\ request[w].names \subseteq Names /\ request[w].began \in Nat
                 /\ request[w].passed \in Nat \cup {Never} /\ request[w].serial \in Nat
           /\ \A s \in Serials :
                 /\ signed[s] \in Certificates /\ signed[s].names \subseteq Names
                 /\ signed[s].at \in Nat /\ signed[s].passed \in Nat \cup {Never}
           /\ \A s \in DOMAIN stored : stored[s] \in Nat
<1>1. ASSUME NEW w \in Workers
      PROVE  /\ request[w] \in Requests /\ request[w].step \in Steps
             /\ request[w].names \subseteq Names /\ request[w].began \in Nat
             /\ request[w].passed \in Nat \cup {Never} /\ request[w].serial \in Nat
  <2>1. request[w] \in Requests
    BY Zenon DEF TypeOK
  <2> QED
    BY Zenon, <2>1 DEF Requests
<1>2. ASSUME NEW s \in Serials
      PROVE  /\ signed[s] \in Certificates /\ signed[s].names \subseteq Names
             /\ signed[s].at \in Nat /\ signed[s].passed \in Nat \cup {Never}
  <2>1. signed[s] \in Certificates
    <3>1. signed \in Seq(Certificates)
      BY Zenon DEF TypeOK
    <3> QED
      BY Zenon, <3>1, Finite, LenProperties DEF Serials
  <2> QED
    BY Zenon, <2>1 DEF Certificates
<1>3. ASSUME NEW s \in DOMAIN stored PROVE stored[s] \in Nat
  <2>1. stored \in [DOMAIN stored -> Nat]
    BY Zenon DEF TypeOK
  <2> QED
    BY Zenon, <2>1
<1> QED
  BY Zenon, <1>1, <1>2, <1>3

-----------------------------------------------------------------------------
\* What every step keeps

\* Certificates stay as they were signed and stored, and one that is stored in
\* order is stored now.
Frame ==
    /\ scenario'.policy = scenario.policy /\ scenario'.workers = scenario.workers
    /\ policy' = scenario'.policy => policy = scenario.policy
    /\ now' >= now
    /\ Serials \subseteq Serials' /\ DOMAIN stored \subseteq DOMAIN stored'
    /\ \A s \in Serials : signed'[s] = signed[s]
    /\ \A s \in InOrder' : (s \in InOrder /\ stored'[s] = stored[s]) \/ stored'[s] = now

\* Those stored before a moment that has come do not become more.
LEMMA StoredShrinks ==
    ASSUME TypeOK, TypeOK', Frame, NEW t \in Int, t <= now
    PROVE  /\ Cardinality(StoredBy(t)) \in Nat
           /\ Cardinality(StoredBy(t)') \in Nat
           /\ Cardinality(StoredBy(t)') <= Cardinality(StoredBy(t))
<1>1. StoredBy(t)' \subseteq StoredBy(t)
  <2>1. total' = total
    BY Zenon DEF total, Frame
  <2>2. now \in Nat
    BY Zenon DEF TypeOK
  <2> QED
    BY <2>1, <2>2 DEF StoredBy, Frame, WindowBegin
<1>2. StoredBy(t) \subseteq DOMAIN stored
  BY Zenon DEF StoredBy, InOrder
<1>3. IsFiniteSet(StoredBy(t))
  BY Zenon, <1>2, Finite, FS_Subset
<1> HIDE DEF StoredBy
<1> QED
  BY Zenon, <1>1, <1>3, FS_Subset, FS_CardinalityType

\* So a request that passed the total limit did.
LEMMA BelowKept ==
    ASSUME TypeOK, TypeOK', Frame, NEW passed \in Nat \cup {Never}, BelowRecently(passed)
    PROVE  BelowRecently(passed)'
<1> SUFFICES ASSUME passed # Never
             PROVE  /\ passed <= now'
                    /\ \E t \in passed - StaleAfter - RPCTime .. passed :
                          Cardinality(StoredBy(t))' < total'.threshold
  BY Zenon DEF BelowRecently
<1>0. /\ now \in Nat /\ now' \in Nat /\ now' >= now /\ passed \in Nat /\ passed <= now
      /\ StaleAfter \in Nat /\ RPCTime \in Nat
  BY Zenon, TimesAssumption DEF TypeOK, Frame, BelowRecently
<1>1. PICK t \in passed - StaleAfter - RPCTime .. passed :
          Cardinality(StoredBy(t)) < total.threshold
  BY Zenon DEF BelowRecently
<1>2. total' = total
  BY Zenon DEF total, Frame
<1>3. t \in Int /\ t <= now
  BY <1>0
<1>4. Cardinality(StoredBy(t)) \in Nat /\ Cardinality(StoredBy(t)') \in Nat
      /\ Cardinality(StoredBy(t)') <= Cardinality(StoredBy(t))
  BY Zenon, <1>3, StoredShrinks
<1>5. total.threshold \in Nat
  BY Zenon, PolicyTypes
<1>6. Cardinality(StoredBy(t))' < total'.threshold
  <2> HIDE DEF StoredBy, total
  <2> QED
    BY <1>1, <1>2, <1>4, <1>5
<1> QED
  BY <1>0, <1>6

\* A count under way stays a bound.
LEMMA CountingKept ==
    ASSUME TypeOK, TypeOK', Frame, CountingInv,
           counting'.step = "counted" =>
               counting' = counting /\ now' <= counting.from + RPCTime
    PROVE  CountingInv'
<1> SUFFICES ASSUME policy' = scenario'.policy, counting'.step = "counted"
             PROVE  /\ counting'.from <= now' /\ now' <= counting'.from + RPCTime
                    /\ Cardinality(StoredBy(counting.from)') <= counting'.count
  BY Zenon DEF CountingInv
<1>1. PICK c : c = counting
  BY Zenon
<1>2. counting' = c /\ now' <= c.from + RPCTime
  BY Zenon, <1>1
<1>3. c.from <= now /\ Cardinality(StoredBy(c.from)) <= c.count
  BY Zenon, <1>1, <1>2 DEF CountingInv, Frame
<1>4. c.from \in Nat /\ c.count \in Nat /\ now \in Nat /\ now' \in Nat /\ now <= now'
  BY Zenon, <1>1 DEF TypeOK, Frame
<1>5. /\ Cardinality(StoredBy(c.from)) \in Nat /\ Cardinality(StoredBy(c.from)') \in Nat
      /\ Cardinality(StoredBy(c.from)') <= Cardinality(StoredBy(c.from))
  <2>1. c.from \in Int /\ c.from <= now
    BY <1>3, <1>4
  <2> QED
    BY Zenon, <2>1, StoredShrinks
<1>6. StoredBy(counting.from)' = StoredBy(c.from)'
  BY Zenon, <1>2 DEF StoredBy
<1> HIDE DEF StoredBy
<1> QED
  BY <1>2, <1>3, <1>4, <1>5, <1>6

\* The count of the last update does, too.
LEMMA CountKept ==
    ASSUME TypeOK, TypeOK', Frame, CountInv, totalIssued' = totalIssued
    PROVE  CountInv'
<1> SUFFICES ASSUME policy' = scenario'.policy, totalIssued.at # Never
             PROVE  /\ totalIssued.at <= now'
                    /\ \E t \in totalIssued.at - RPCTime .. totalIssued.at :
                          Cardinality(StoredBy(t)') <= totalIssued.count
  BY Zenon DEF CountInv
<1>1. /\ totalIssued.at \in Nat /\ totalIssued.count \in Nat /\ RPCTime \in Nat
      /\ now \in Nat /\ now' \in Nat /\ now <= now'
  BY Zenon, TimesAssumption DEF TypeOK, Frame
<1>2. /\ totalIssued.at <= now
      /\ \E t \in totalIssued.at - RPCTime .. totalIssued.at :
            Cardinality(StoredBy(t)) <= totalIssued.count
  BY Zenon DEF CountInv, Frame
<1>3. PICK t \in totalIssued.at - RPCTime .. totalIssued.at :
          Cardinality(StoredBy(t)) <= totalIssued.count
  BY Zenon, <1>2
<1>4. t \in Int /\ t <= now
  BY <1>1, <1>2
<1>5. /\ Cardinality(StoredBy(t)) \in Nat /\ Cardinality(StoredBy(t)') \in Nat
      /\ Cardinality(StoredBy(t)') <= Cardinality(StoredBy(t))
  BY Zenon, <1>4, StoredShrinks
<1>6. Cardinality(StoredBy(t)') <= totalIssued.count
  <2> HIDE DEF StoredBy
  <2> QED
    BY <1>1, <1>3, <1>5
<1> QED
  BY <1>1, <1>2, <1>6

\* Nobody passes the total limit but by checkTotalCertificatesLimit.
LEMMA PassedKept ==
    ASSUME TypeOK, TypeOK', Frame, PassedInv,
           policy' = scenario'.policy => \A w \in Workers :
               \/ request'[w].passed \in {request[w].passed, Never}
               \/ BelowRecently(request'[w].passed),
           \A s \in Serials' \ Serials : \E w \in Workers :
               signed'[s].passed = request[w].passed
    PROVE  PassedInv'
<1> SUFFICES ASSUME policy' = scenario'.policy
             PROVE  /\ \A w \in Workers : BelowRecently(request[w].passed)'
                    /\ \A s \in Serials' : BelowRecently(signed[s].passed)'
  BY Zenon DEF PassedInv
<1>1. policy = scenario.policy
  BY Zenon DEF Frame
<1>2. ASSUME NEW p \in Nat \cup {Never}, BelowRecently(p) PROVE BelowRecently(p)'
  BY Zenon, <1>2, BelowKept
<1>3. ASSUME NEW w \in Workers PROVE BelowRecently(request[w].passed)'
  <2>1. PICK p : p = request'[w].passed
    BY Zenon
  <2>2. p \in Nat \cup {Never}
    BY Zenon, <2>1, FieldTypes DEF TypeOK, Requests
  <2>3. BelowRecently(p)
    BY Zenon, <1>1, <2>1 DEF PassedInv, BelowRecently
  <2>4. BelowRecently(p)'
    BY Zenon, <1>2, <2>2, <2>3
  <2> QED
    BY Zenon, <2>1, <2>4 DEF BelowRecently
<1>4. ASSUME NEW s \in Serials' PROVE BelowRecently(signed[s].passed)'
  <2>1. PICK p : p = signed'[s].passed
    BY Zenon
  <2>2. BelowRecently(p) /\ p \in Nat \cup {Never}
    <3>1. CASE s \in Serials
      BY Zenon, <1>1, <2>1, <3>1, FieldTypes DEF PassedInv, Frame
    <3>2. CASE s \notin Serials
      BY Zenon, <1>1, <2>1, <3>2, FieldTypes DEF PassedInv
    <3> QED
      BY Zenon, <3>1, <3>2
  <2>3. BelowRecently(p)'
    BY Zenon, <1>2, <2>2
  <2> QED
    BY Zenon, <2>1, <2>3 DEF BelowRecently
<1> QED
  BY Zenon, <1>3, <1>4

\* The sets that the limit per name bounds are finite, and only the scenario's
\* workers are in flight.
LEMMA WindowSizes ==
    ASSUME TypeOK, RequestInv, NEW d, NEW t
    PROVE  /\ Issued(d, t) \subseteq DOMAIN stored /\ IsFiniteSet(Issued(d, t))
           /\ Cardinality(Issued(d, t)) \in Nat
           /\ InFlight(d, t) \subseteq scenario.workers /\ IsFiniteSet(InFlight(d, t))
           /\ Cardinality(InFlight(d, t)) \in Nat
           /\ Cardinality(InFlight(d, t)) <= Cardinality(scenario.workers)
<1>1. Issued(d, t) \subseteq DOMAIN stored
  BY Zenon DEF Issued, InOrder
<1>2. InFlight(d, t) \subseteq scenario.workers
  BY Zenon DEF InFlight, Flying, RequestInv, RequestOK
<1>3. IsFiniteSet(Issued(d, t)) /\ IsFiniteSet(InFlight(d, t))
  BY Zenon, <1>1, <1>2, Finite, FS_Subset
<1> HIDE DEF Issued, InFlight
<1> QED
  BY Zenon, <1>1, <1>2, <1>3, Finite, FS_Subset, FS_CardinalityType

\* When every window is within one there was, the limit per name stays.
LEMMA PerNameKept ==
    ASSUME TypeOK, TypeOK', RequestInv, PerNameInv, Frame,
           \A d \in Domains, t \in 0 .. now' : \E u \in 0 .. now :
               Issued(d, t)' \subseteq Issued(d, u) /\ InFlight(d, t)' \subseteq InFlight(d, u)
    PROVE  PerNameInv'
<1> SUFFICES ASSUME policy' = scenario'.policy, Enabled(perName)',
                    NEW d \in Domains, NEW t \in 0 .. now'
             PROVE  Cardinality(Issued(d, t)') + Cardinality(InFlight(d, t)')
                        <= Threshold(d)' + Cardinality(scenario'.workers) - 1
  BY Zenon DEF PerNameInv
<1>1. PICK u \in 0 .. now :
          Issued(d, t)' \subseteq Issued(d, u) /\ InFlight(d, t)' \subseteq InFlight(d, u)
  BY Zenon
<1>2. perName' = perName
  BY Zenon DEF perName, Frame
<1>3. Threshold(d)' = Threshold(d) /\ Enabled(perName)
  BY Zenon, <1>2 DEF Threshold, Enabled
<1>4. Cardinality(Issued(d, u)) + Cardinality(InFlight(d, u))
          <= Threshold(d) + Cardinality(scenario.workers) - 1
  BY Zenon, <1>3 DEF PerNameInv, Frame
<1>5. /\ IsFiniteSet(Issued(d, u)) /\ Cardinality(Issued(d, u)) \in Nat
      /\ IsFiniteSet(InFlight(d, u)) /\ Cardinality(InFlight(d, u)) \in Nat
  BY Zenon, WindowSizes
<1>6. /\ Cardinality(Issued(d, t)') \in Nat
      /\ Cardinality(Issued(d, t)') <= Cardinality(Issued(d, u))
      /\ Cardinality(InFlight(d, t)') \in Nat
      /\ Cardinality(InFlight(d, t)') <= Cardinality(InFlight(d, u))
  <2> HIDE DEF Issued, InFlight
  <2> QED
    BY Zenon, <1>1, <1>5, FS_Subset, FS_CardinalityType
<1>7. /\ Threshold(d) \in Nat /\ Cardinality(scenario.workers) \in Nat
      /\ scenario'.workers = scenario.workers
  BY Zenon, PolicyTypes, Finite DEF Frame
<1> HIDE DEF Issued, InFlight, Threshold
<1> QED
  BY <1>3, <1>4, <1>5, <1>6, <1>7

\* A certificate that is first of its set was, and a request in flight was.
LEMMA WindowsKept ==
    ASSUME TypeOK, TypeOK', RequestInv, Frame, now' = now, NEW d, NEW t
    PROVE  /\ InOrder' \subseteq InOrder => Issued(d, t)' \subseteq Issued(d, t)
           /\ \A s \in Serials : s \in Issued(d, t)' =>
                 For(signed[s].names, d) /\ FirstOfItsSet(s) /\ InWindow(s, t)
           /\ \A w \in Workers : request'[w] = request[w] =>
                 (Flying(request[w], d, t)' => Flying(request[w], d, t))
<1>0. perName' = perName
  BY Zenon DEF perName, Frame
<1>1. \A s \in Serials : /\ FirstOfItsSet(s)' => FirstOfItsSet(s)
                         /\ InWindow(s, t)' <=> InWindow(s, t)
                         /\ For(signed[s].names, d)' <=> For(signed[s].names, d)
  <2> SUFFICES ASSUME NEW s \in Serials
               PROVE  /\ FirstOfItsSet(s)' => FirstOfItsSet(s)
                      /\ InWindow(s, t)' <=> InWindow(s, t)
                      /\ For(signed[s].names, d)' <=> For(signed[s].names, d)
    BY Zenon
  <2>1. signed'[s] = signed[s]
    BY Zenon DEF Frame
  <2>2. FirstOfItsSet(s)' => FirstOfItsSet(s)
    BY Zenon, <2>1, Finite DEF FirstOfItsSet, Frame
  <2> QED
    BY Zenon, <1>0, <2>1, <2>2 DEF InWindow, For, domainsForRateLimiting
<1>2. \A names : FQDNSetExists(names) => FQDNSetExists(names)'
  BY Zenon, Finite DEF FQDNSetExists, Frame
<1>3. InOrder \subseteq Serials
  BY Zenon, Finite DEF InOrder
<1>4. InOrder' \subseteq InOrder => Issued(d, t)' \subseteq Issued(d, t)
  BY Zenon, <1>1, <1>3 DEF Issued
<1>5. ASSUME NEW w \in Workers, request'[w] = request[w], Flying(request[w], d, t)'
      PROVE  Flying(request[w], d, t)
  <2>1. CASE request[w].step \in {"fqdn", "authz", "sign"}
    BY Zenon, <1>2, <1>5, <2>1 DEF Flying, For, domainsForRateLimiting
  <2>2. CASE request[w].step = "store"
    <3>1. PICK s : s = request[w].serial
      BY Zenon
    <3>2. s \in Serials
      BY Zenon, <2>2, <3>1 DEF RequestInv, RequestOK
    <3>3. For(signed[s].names, d)' /\ FirstOfItsSet(s)' /\ InWindow(s, t)'
      BY Zenon, <1>5, <2>2, <3>1 DEF Flying, For, domainsForRateLimiting, FirstOfItsSet, InWindow
    <3>4. For(signed[s].names, d) /\ FirstOfItsSet(s) /\ InWindow(s, t)
      BY Zenon, <1>1, <3>2, <3>3
    <3> QED
      BY Zenon, <2>2, <3>1, <3>4 DEF Flying
  <2> QED
    BY Zenon, <1>5, <2>1, <2>2 DEF Flying
<1>6. \A s \in Serials : s \in Issued(d, t)' =>
          For(signed[s].names, d) /\ FirstOfItsSet(s) /\ InWindow(s, t)
  BY Zenon, <1>1 DEF Issued
<1> QED
  BY Zenon, <1>4, <1>5, <1>6

-----------------------------------------------------------------------------
\* Steps of one request that leave everything else alone

Others == UNCHANGED <<now, scenario, policy, authz, totalIssued, counting, signed,
                      database, repair, publishing>>

\* The frame of steps that change neither certificates nor policies.
LEMMA StaysFrame ==
    ASSUME TypeOK, UNCHANGED <<now, scenario, policy, signed, stored, orphans>>
    PROVE  Frame /\ Serials' = Serials /\ InOrder' = InOrder
BY DEF Frame, Serials, InOrder, TypeOK

\* The types of the variables such a step leaves alone.
LEMMA OthersTypes ==
    ASSUME TypeOK, Others, request' \in [Workers -> Requests]
    PROVE  TypeOK'
BY Zenon DEF TypeOK, Others, database, repair, publishing, Serials, Logs

\* A request w becomes q, which is before its signature.
LEMMA RequestStep ==
    ASSUME Inv, Others, NEW w \in Workers, NEW q \in Requests,
           request' = [request EXCEPT ![w] = q],
           request[w].step # "store", q.step # "store",
           q.step # "idle" => w \in scenario.workers,
           q.began <= now,
           q.step = "sign" => \A n \in q.names : authz[n] >= q.began,
           policy = scenario.policy =>
               q.passed \in {request[w].passed, Never} \/ BelowRecently(q.passed),
           policy = scenario.policy /\ Enabled(perName) => \A d \in Domains :
               Flying(q, d, now) =>
                   \/ Flying(request[w], d, now)
                   \/ Cardinality(Issued(d, now)) <= Threshold(d) - 1
    PROVE  Inv'
<1>0. request \in [Workers -> Requests]
  BY Zenon DEF Inv, TypeOK
<1>1. /\ request' \in [Workers -> Requests] /\ request'[w] = q
      /\ \A v \in Workers : v # w => request'[v] = request[v]
  BY Zenon, <1>0
<1>2. TypeOK /\ TypeOK'
  BY Zenon, <1>1, OthersTypes DEF Inv
<1>3. Frame /\ Serials' = Serials /\ InOrder' = InOrder /\ now' = now /\ signed' = signed
  BY Zenon, <1>2, StaysFrame DEF Others, database, repair
<1>4. RequestInv /\ RequestInv'
  <2>1. RequestInv
    BY Zenon DEF Inv
  <2>2. ASSUME NEW v \in Workers PROVE RequestOK(v)'
    <3>1. UNCHANGED <<now, scenario, authz, signed>>
      BY Zenon DEF Others
    <3>2. CASE v = w
      BY Zenon, <1>1, <3>1, <3>2 DEF RequestOK
    <3>3. CASE v # w
      BY Zenon, <1>1, <2>1, <3>1, <3>3 DEF RequestInv, RequestOK, Serials
    <3> QED
      BY Zenon, <3>2, <3>3
  <2> QED
    BY Zenon, <2>1, <2>2 DEF RequestInv
<1>5. RepairInv' /\ SignedInv' /\ PolicyInv'
  BY Zenon DEF Inv, RepairInv, SignedInv, AuthorizedRecently, PolicyInv, Others, database, repair,
         Serials
<1>6. Accounted'
  <2>1. Accounted /\ UNCHANGED <<signed, stored, orphans, crashed>>
    BY Zenon DEF Inv, Others, database, repair
  <2> QED
    BY Zenon, <1>1, <2>1 DEF Accounted, Serials
<1>7. CountingInv' /\ CountInv'
  <2>1. CountingInv /\ CountInv /\ counting' = counting /\ totalIssued' = totalIssued
    BY Zenon DEF Inv, Others
  <2>2. counting'.step = "counted" => now' <= counting.from + RPCTime \/ policy' # scenario'.policy
    BY Zenon, <1>3, <2>1 DEF CountingInv, Others
  <2>3. CountInv'
    BY Zenon, <1>2, <1>3, <2>1, CountKept
  <2>4. CASE policy' # scenario'.policy
    BY Zenon, <2>3, <2>4 DEF CountingInv
  <2>5. CASE policy' = scenario'.policy
    BY Zenon, <1>2, <1>3, <2>1, <2>2, <2>3, <2>5, CountingKept
  <2> QED
    BY Zenon, <2>4, <2>5
<1>8. PassedInv'
  <2>1. policy' = scenario'.policy => \A v \in Workers :
            \/ request'[v].passed \in {request[v].passed, Never}
            \/ BelowRecently(request'[v].passed)
    BY Zenon, <1>1 DEF Others
  <2>2. PassedInv
    BY Zenon DEF Inv
  <2>3. \A s \in Serials' \ Serials : \E v \in Workers : signed'[s].passed = request[v].passed
    BY Zenon, <1>3
  <2> QED
    BY Zenon, <1>2, <1>3, <2>1, <2>2, <2>3, PassedKept
<1>9. PerNameInv'
  <2> SUFFICES ASSUME policy' = scenario'.policy, Enabled(perName)',
                      NEW d \in Domains, NEW t \in 0 .. now'
               PROVE  Cardinality(Issued(d, t)') + Cardinality(InFlight(d, t)')
                          <= Threshold(d)' + Cardinality(scenario'.workers) - 1
    BY Zenon DEF PerNameInv
  <2>1. policy = scenario.policy /\ Enabled(perName) /\ perName' = perName /\ t \in 0 .. now
        /\ Threshold(d)' = Threshold(d) /\ scenario'.workers = scenario.workers
    BY Zenon DEF Others, perName, Threshold
  <2>2. Issued(d, t)' \subseteq Issued(d, t)
    BY Zenon, <1>2, <1>3, <1>4, WindowsKept
  <2>3. \A v \in Workers : v # w => (Flying(request[v], d, t)' => Flying(request[v], d, t))
    BY Zenon, <1>1, <1>2, <1>3, <1>4, WindowsKept
  <2>4. Flying(request[w], d, t)' => Flying(q, d, now) /\ t = now
    BY Zenon, <1>1, <1>3 DEF Flying, FQDNSetExists, For, domainsForRateLimiting, Others, database
  <2>5. /\ Cardinality(Issued(d, t)) + Cardinality(InFlight(d, t))
               <= Threshold(d) + Cardinality(scenario.workers) - 1
    BY Zenon, <2>1 DEF Inv, PerNameInv
  <2>6. /\ IsFiniteSet(Issued(d, t)) /\ Cardinality(Issued(d, t)) \in Nat
        /\ IsFiniteSet(InFlight(d, t)) /\ Cardinality(InFlight(d, t)) \in Nat
    BY Zenon, <1>2, <1>4, WindowSizes
  <2>7. /\ Cardinality(InFlight(d, t)') \in Nat
        /\ Cardinality(InFlight(d, t)') <= Cardinality(scenario.workers)
    <3>1. InFlight(d, t)' \subseteq scenario'.workers
      BY Zenon, <1>4 DEF InFlight, Flying, RequestInv, RequestOK
    <3> HIDE DEF InFlight
    <3> QED
      BY Zenon, <1>2, <2>1, <3>1, Finite, FS_Subset, FS_CardinalityType
  <2>8. /\ Cardinality(Issued(d, t)') \in Nat
        /\ Cardinality(Issued(d, t)') <= Cardinality(Issued(d, t))
    <3> HIDE DEF Issued
    <3> QED
      BY Zenon, <2>2, <2>6, FS_Subset, FS_CardinalityType
  <2>9. Threshold(d) \in Nat /\ Cardinality(scenario.workers) \in Nat
    BY Zenon, <1>2, PolicyTypes, Finite
  <2>10. CASE InFlight(d, t)' \subseteq InFlight(d, t)
    <3>1. Cardinality(InFlight(d, t)') <= Cardinality(InFlight(d, t))
      <4> HIDE DEF InFlight
      <4> QED
        BY Zenon, <2>6, <2>10, FS_Subset
    <3> HIDE DEF Issued, InFlight, Threshold
    <3> QED
      BY <2>1, <2>5, <2>6, <2>7, <2>8, <2>9, <3>1
  <2>11. CASE ~ (InFlight(d, t)' \subseteq InFlight(d, t))
    <3>1. Flying(q, d, now) /\ t = now /\ ~ Flying(request[w], d, now)
      BY Zenon, <2>3, <2>4, <2>11 DEF InFlight
    <3>2. Cardinality(Issued(d, t)) <= Threshold(d) - 1
      BY Zenon, <2>1, <3>1
    <3> HIDE DEF Issued, InFlight, Threshold
    <3> QED
      BY <2>1, <2>6, <2>7, <2>8, <2>9, <3>2
  <2> QED
    BY Zenon, <2>10, <2>11
<1> QED
  BY Zenon, <1>2, <1>4, <1>5, <1>6, <1>7, <1>8, <1>9 DEF Inv

\* A request that is answered.
LEMMA IdleRequest ==
    /\ Idle \in Requests /\ Idle.step = "idle" /\ Idle.began = 0 /\ Idle.passed = Never
    /\ Idle.names = {} /\ Idle.serial = 0
BY Zenon DEF Idle, Requests, Steps

\* Answering a request keeps the invariant.
LEMMA FinishInv ==
    ASSUME Inv, Others, NEW w \in Workers, request[w].step # "store", Finish(w)
    PROVE  Inv'
<1>1. PICK q : q = Idle
  BY Zenon
<1>2. q \in Requests /\ q.step = "idle" /\ q.began = 0 /\ q.passed = Never
  BY Zenon, <1>1, IdleRequest
<1>3. request' = [request EXCEPT ![w] = q]
  BY Zenon, <1>1 DEF Finish
<1>4. q.began <= now
  BY <1>2 DEF Inv, TypeOK
<1>5. \A d \in Domains : ~ Flying(q, d, now)
  BY Zenon, <1>2 DEF Flying
<1> QED
  BY Zenon, <1>2, <1>3, <1>4, <1>5, RequestStep

\* A request that goes on to its next check.
LEMMA GoInv ==
    ASSUME Inv, Others, NEW w \in Workers, NEW step \in Steps, Go(w, step),
           request[w].step \notin {"idle", "store"}, step # "store",
           step = "sign" => \A n \in request[w].names : authz[n] >= request[w].began,
           policy = scenario.policy /\ Enabled(perName) => \A d \in Domains :
               /\ step \in {"fqdn", "authz", "sign"}
               /\ For(request[w].names, d) /\ ~ FQDNSetExists(request[w].names)
               => \/ Flying(request[w], d, now)
                  \/ Cardinality(Issued(d, now)) <= Threshold(d) - 1
    PROVE  Inv'
<1>0. TypeOK /\ RequestInv
  BY Zenon DEF Inv
<1>1. PICK q : q = [request[w] EXCEPT !.step = step]
  BY Zenon
<1>2. /\ q \in Requests /\ q.step = step /\ q.began = request[w].began
      /\ q.passed = request[w].passed /\ q.names = request[w].names
  BY Zenon, <1>0, <1>1, FieldTypes DEF Requests
<1>3. request' = [request EXCEPT ![w] = q]
  BY Zenon, <1>1 DEF Go
<1>4. w \in scenario.workers /\ q.began <= now
  BY Zenon, <1>0, <1>2 DEF RequestInv, RequestOK
<1>5. \A d : Flying(q, d, now) => /\ step \in {"fqdn", "authz", "sign"}
                                  /\ For(request[w].names, d)
                                  /\ ~ FQDNSetExists(request[w].names)
  BY Zenon, <1>2 DEF Flying
<1>6. q.step = "sign" => \A n \in q.names : authz[n] >= q.began
  BY Zenon, <1>2
<1>7. policy = scenario.policy /\ Enabled(perName) => \A d \in Domains :
          Flying(q, d, now) => \/ Flying(request[w], d, now)
                               \/ Cardinality(Issued(d, now)) <= Threshold(d) - 1
  BY Zenon, <1>5
<1> HIDE DEF Flying, Issued, Threshold
<1> QED
  BY Zenon, <1>2, <1>3, <1>4, <1>6, <1>7, RequestStep

\* A new request (ra.NewCertificate) keeps the invariant.
LEMMA NewCertificateInv ==
    ASSUME Inv, NEW w \in Workers, NEW names \in scenario.requests, NewCertificate(w, names)
    PROVE  Inv'
<1>0. TypeOK /\ Others
  BY Zenon DEF Inv, NewCertificate, Others
<1>1. PICK step : step = IF Enabled(policy.total) THEN "total" ELSE "names"
  BY Zenon
<1>2. step \in {"total", "names"}
  BY Zenon, <1>1
<1>3. PICK q : q = [Idle EXCEPT !.names = names, !.began = now, !.step = step]
  BY Zenon
<1>4. names \subseteq Names /\ now \in Nat
  BY Zenon, <1>0 DEF TypeOK, ScenarioRecords
<1>5. /\ q \in Requests /\ q.step = step /\ q.began = now /\ q.passed = Never
  BY Zenon, <1>2, <1>3, <1>4 DEF Idle, Requests, Steps
<1>6. request' = [request EXCEPT ![w] = q]
  BY Zenon, <1>1, <1>3 DEF NewCertificate
<1>7. w \in scenario.workers /\ request[w].step = "idle"
  BY Zenon DEF NewCertificate
<1>8. \A d \in Domains : ~ Flying(q, d, now)
  BY Zenon, <1>2, <1>5 DEF Flying
<1>9. q.began <= now
  BY <1>4, <1>5
<1> HIDE DEF Flying
<1> QED
  BY Zenon, <1>0, <1>2, <1>5, <1>6, <1>7, <1>8, <1>9, RequestStep

\* A request that fails or is too late keeps the invariant.
LEMMA AbandonInv == ASSUME Inv, NEW w \in Workers, Abandon(w) PROVE Inv'
<1>1. Others /\ Finish(w) /\ request[w].step # "store"
  BY Zenon DEF Abandon, Others
<1> QED
  BY Zenon, <1>1, FinishInv

\* Who passes the total limit: the last count, which is fresh, was below it.
LEMMA checkTotalCertificatesLimitInv ==
    ASSUME Inv, NEW w \in Workers, checkTotalCertificatesLimit(w) PROVE Inv'
<1>0. TypeOK /\ RequestInv /\ Others /\ request[w].step = "total"
  BY Zenon DEF Inv, checkTotalCertificatesLimit, Others
<1>1. CASE ~ TotalPasses
  BY Zenon, <1>0, <1>1, FinishInv DEF checkTotalCertificatesLimit
<1>2. CASE TotalPasses
  <2>1. PICK q : q = [request[w] EXCEPT !.step = "names", !.passed = now]
    BY Zenon
  <2>2. now \in Nat
    BY Zenon, <1>0 DEF TypeOK
  <2>3. /\ q \in Requests /\ q.step = "names" /\ q.began = request[w].began /\ q.passed = now
    BY Zenon, <1>0, <2>1, <2>2, FieldTypes DEF Requests, Steps
  <2>4. request' = [request EXCEPT ![w] = q]
    <3>1. request' = [request EXCEPT ![w].step = "names", ![w].passed = now]
      BY Zenon, <1>2 DEF checkTotalCertificatesLimit
    <3>2. request \in [Workers -> Requests]
      BY Zenon, <1>0 DEF TypeOK
    <3> QED
      BY Zenon, <2>1, <3>1, <3>2 DEF Requests
  <2>5. w \in scenario.workers /\ q.began <= now
    BY Zenon, <1>0, <2>3 DEF RequestInv, RequestOK
  <2>6. ASSUME policy = scenario.policy PROVE BelowRecently(q.passed)
    <3>1. /\ totalIssued.at # Never /\ now <= totalIssued.at + StaleAfter
          /\ totalIssued.count < total.threshold
      BY Zenon, <1>2, <2>6 DEF TotalPasses, total
    <3>2. /\ totalIssued.at \in Nat /\ totalIssued.count \in Nat /\ RPCTime \in Nat
          /\ StaleAfter \in Nat
      BY Zenon, <1>0, <3>1, TimesAssumption DEF TypeOK
    <3>3. CountInv
      BY Zenon DEF Inv
    <3>4. totalIssued.at <= now
      BY Zenon, <2>6, <3>1, <3>3 DEF CountInv
    <3>5. PICK t \in totalIssued.at - RPCTime .. totalIssued.at :
              Cardinality(StoredBy(t)) <= totalIssued.count
      BY Zenon, <2>6, <3>1, <3>3 DEF CountInv
    <3>6. t \in now - StaleAfter - RPCTime .. now
      BY <2>2, <3>1, <3>2, <3>4
    <3>7. Cardinality(StoredBy(t)) \in Nat /\ total.threshold \in Nat
      <4>1. StoredBy(t) \subseteq DOMAIN stored
        BY Zenon DEF StoredBy, InOrder
      <4> HIDE DEF StoredBy
      <4> QED
        BY Zenon, <1>0, <4>1, Finite, FS_Subset, FS_CardinalityType, PolicyTypes
    <3>8. Cardinality(StoredBy(t)) < total.threshold
      <4> HIDE DEF StoredBy
      <4> QED
        BY <3>1, <3>2, <3>5, <3>7
    <3> QED
      BY <2>2, <2>3, <3>6, <3>8 DEF BelowRecently
  <2>7. \A d \in Domains : ~ Flying(q, d, now)
    BY Zenon, <2>3 DEF Flying
  <2> HIDE DEF Flying, BelowRecently
  <2> QED
    BY Zenon, <1>0, <2>3, <2>4, <2>5, <2>6, <2>7, RequestStep
<1> QED
  BY Zenon, <1>1, <1>2

\* Who passes the limit per name finds the count of each of its domains below
\* it, and the certificates of the window that ends now are among those counted.
LEMMA checkCertificatesPerNameLimitInv ==
    ASSUME Inv, NEW w \in Workers, checkCertificatesPerNameLimit(w) PROVE Inv'
<1>0. TypeOK /\ RequestInv /\ SignedInv /\ Others /\ request[w].step = "names"
  BY Zenon DEF Inv, checkCertificatesPerNameLimit, Others
<1>1. PICK step : step = IF Enabled(policy.perName) /\ badNames(request[w].names) # {}
                         THEN "exists" ELSE "fqdn"
  BY Zenon
<1>2. step \in {"exists", "fqdn"} /\ step \in Steps /\ Go(w, step)
  BY Zenon, <1>1 DEF Steps, checkCertificatesPerNameLimit
<1>3. ASSUME policy = scenario.policy, Enabled(perName), NEW d \in Domains,
             step = "fqdn", For(request[w].names, d)
      PROVE  Cardinality(Issued(d, now)) <= Threshold(d) - 1
  <2> DEFINE Counted == {s \in DOMAIN stored :
                  /\ \E n \in signed[s].names : Base(n) = d
                  /\ WindowBegin(perName, now) < NotBefore(s) /\ NotBefore(s) <= now}
  <2>1. badNames(request[w].names) = {} /\ policy.perName = perName
    BY Zenon, <1>1, <1>3 DEF perName
  <2>2. ~ (Cardinality(Counted) >= Threshold(d))
    BY Zenon, <2>1, <1>3 DEF badNames, For, countCertificatesByName, Threshold
  <2>3. Issued(d, now) \subseteq Counted
    <3> SUFFICES ASSUME NEW s \in Issued(d, now) PROVE s \in Counted
      BY Zenon
    <3>1. s \in DOMAIN stored /\ s \in Serials
      BY Zenon, <1>0, Finite DEF Issued, InOrder
    <3>2. \E n \in signed[s].names : Base(n) = d
      BY Zenon DEF Issued, For, domainsForRateLimiting
    <3>3. /\ signed[s].at \in Nat /\ perName.window \in Nat /\ Backdate \in Nat /\ now \in Nat
      BY Zenon, <1>0, <3>1, FieldTypes, PolicyTypes, TimesAssumption DEF TypeOK
    <3>4. WindowBegin(perName, now) + Backdate < signed[s].at /\ signed[s].at <= now
      BY Zenon DEF Issued, InWindow
    <3>5. WindowBegin(perName, now) < NotBefore(s) /\ NotBefore(s) <= now
      BY <3>3, <3>4 DEF WindowBegin, NotBefore
    <3> QED
      BY Zenon, <3>1, <3>2, <3>5
  <2>4. IsFiniteSet(Counted)
    BY Zenon, <1>0, Finite, FS_Subset
  <2> HIDE DEF Counted, Issued
  <2>5. /\ Cardinality(Counted) \in Nat /\ Cardinality(Issued(d, now)) \in Nat
        /\ Cardinality(Issued(d, now)) <= Cardinality(Counted)
    BY Zenon, <2>3, <2>4, FS_Subset, FS_CardinalityType
  <2>6. Threshold(d) \in Nat
    BY Zenon, <1>0, PolicyTypes
  <2> HIDE DEF Threshold
  <2> QED
    BY <2>2, <2>5, <2>6
<1>4. policy = scenario.policy /\ Enabled(perName) => \A d \in Domains :
          step \in {"fqdn", "authz", "sign"} /\ For(request[w].names, d) =>
              Cardinality(Issued(d, now)) <= Threshold(d) - 1
  BY Zenon, <1>2, <1>3
<1> HIDE DEF Issued, Threshold
<1> QED
  BY Zenon, <1>0, <1>2, <1>4, GoInv

\* Renewals are no concern of the limit per name.
LEMMA RenewalBypassInv == ASSUME Inv, NEW w \in Workers, RenewalBypass(w) PROVE Inv'
<1>0. Others /\ request[w].step = "exists"
  BY Zenon DEF RenewalBypass, Others
<1>1. CASE FQDNSetExists(request[w].names)
  <2>1. Go(w, "fqdn") /\ "fqdn" \in Steps
    BY Zenon, <1>1 DEF RenewalBypass, Steps
  <2> QED
    BY Zenon, <1>0, <1>1, <2>1, GoInv
<1>2. CASE ~ FQDNSetExists(request[w].names)
  BY Zenon, <1>0, <1>2, FinishInv DEF RenewalBypass
<1> QED
  BY Zenon, <1>1, <1>2

\* Whoever goes on from "fqdn" or "authz" is in flight before and after.
LEMMA checkCertificatesPerFQDNSetLimitInv ==
    ASSUME Inv, NEW w \in Workers, checkCertificatesPerFQDNSetLimit(w) PROVE Inv'
<1>0. Others /\ request[w].step = "fqdn"
  BY Zenon DEF checkCertificatesPerFQDNSetLimit, Others
<1>1. CASE FQDNSetLimited(request[w].names)
  BY Zenon, <1>0, <1>1, FinishInv DEF checkCertificatesPerFQDNSetLimit
<1>2. CASE ~ FQDNSetLimited(request[w].names)
  <2>1. Go(w, "authz") /\ "authz" \in Steps
    BY Zenon, <1>2 DEF checkCertificatesPerFQDNSetLimit, Steps
  <2>2. \A d \in Domains : For(request[w].names, d) /\ ~ FQDNSetExists(request[w].names) =>
            Flying(request[w], d, now)
    BY Zenon, <1>0 DEF Flying
  <2> HIDE DEF Flying
  <2> QED
    BY Zenon, <1>0, <2>1, <2>2, GoInv
<1> QED
  BY Zenon, <1>1, <1>2

\* checkAuthorizations sees each authorization last beyond this moment.
LEMMA checkAuthorizationsInv ==
    ASSUME Inv, NEW w \in Workers, checkAuthorizations(w) PROVE Inv'
<1>0. TypeOK /\ RequestInv /\ Others /\ request[w].step = "authz"
  BY Zenon DEF Inv, checkAuthorizations, Others
<1>1. CASE ~ Authorized(request[w].names)
  BY Zenon, <1>0, <1>1, FinishInv DEF checkAuthorizations
<1>2. CASE Authorized(request[w].names)
  <2>1. Go(w, "sign") /\ "sign" \in Steps
    BY Zenon, <1>2 DEF checkAuthorizations, Steps
  <2>2. \A d \in Domains : For(request[w].names, d) /\ ~ FQDNSetExists(request[w].names) =>
            Flying(request[w], d, now)
    BY Zenon, <1>0 DEF Flying
  <2>3. \A n \in request[w].names : authz[n] >= request[w].began
    <3> SUFFICES ASSUME NEW n \in request[w].names PROVE authz[n] >= request[w].began
      BY Zenon
    <3>1. n \in Names /\ request[w].began \in Nat /\ now \in Nat /\ authz[n] \in Nat
      BY Zenon, <1>0, FieldTypes DEF TypeOK
    <3>2. authz[n] > now /\ request[w].began <= now
      BY Zenon, <1>0, <1>2 DEF Authorized, RequestInv, RequestOK
    <3> QED
      BY <3>1, <3>2
  <2> HIDE DEF Flying
  <2> QED
    BY Zenon, <1>0, <2>1, <2>2, <2>3, GoInv
<1> QED
  BY Zenon, <1>1, <1>2

\* One more certificate.
LEMMA Appended ==
    ASSUME TypeOK, NEW c \in Certificates, signed' = Append(signed, c)
    PROVE  /\ signed' \in Seq(Certificates) /\ Serials' = Serials \cup {Len(signed) + 1}
           /\ Len(signed) + 1 \notin Serials /\ Len(signed) + 1 \in Nat
           /\ signed'[Len(signed) + 1] = c
           /\ \A s \in Serials : signed'[s] = signed[s] /\ s < Len(signed) + 1
<1>1. signed \in Seq(Certificates)
  BY Zenon DEF TypeOK
<1>2. Serials = 1 .. Len(signed) /\ Len(signed) \in Nat
  BY Zenon, Finite
<1>3. /\ signed' \in Seq(Certificates) /\ Len(signed') = Len(signed) + 1
      /\ \A i \in 1 .. Len(signed) + 1 :
            signed'[i] = IF i = Len(signed) + 1 THEN c ELSE signed[i]
  BY <1>1, <1>2
<1>4. Serials' = 1 .. Len(signed) + 1
  BY Zenon, <1>3, LenProperties DEF Serials
<1> QED
  BY <1>2, <1>3, <1>4

\* The CA signs: its certificate counts now, as its request did.
LEMMA SignInv ==
    ASSUME Inv, NEW w \in Workers, request[w].step = "sign", InTime(w),
           signed' = Append(signed, [names |-> request[w].names, at |-> now,
                                     passed |-> request[w].passed]),
           request' = [request EXCEPT ![w].step = "store", ![w].serial = Len(signed) + 1],
           UNCHANGED <<now, scenario, policy, authz, totalIssued, counting, database,
                       repair, publishing>>
    PROVE  Inv'
<1>0. /\ TypeOK /\ RequestInv /\ SignedInv /\ PassedInv /\ now' = now /\ authz' = authz
      /\ now \in Nat /\ request \in [Workers -> Requests]
  BY Zenon DEF Inv, TypeOK
<1>1. PICK c : c = [names |-> request[w].names, at |-> now, passed |-> request[w].passed]
  BY Zenon
<1>2. /\ c \in Certificates /\ c.names = request[w].names /\ c.at = now
      /\ c.passed = request[w].passed
  BY Zenon, <1>0, <1>1, FieldTypes DEF Certificates
<1>3. PICK new : new = Len(signed) + 1
  BY Zenon
<1>4. /\ signed' \in Seq(Certificates) /\ Serials' = Serials \cup {new}
      /\ new \notin Serials /\ new \in Nat /\ signed'[new] = c
      /\ \A s \in Serials : signed'[s] = signed[s] /\ s < new
  BY Zenon, <1>0, <1>1, <1>2, <1>3, Appended
<1>5. PICK q : q = [request[w] EXCEPT !.step = "store", !.serial = new]
  BY Zenon
<1>6. /\ q \in Requests /\ q.step = "store" /\ q.serial = new /\ q.began = request[w].began
      /\ q.passed = request[w].passed
  BY Zenon, <1>0, <1>4, <1>5, FieldTypes DEF Requests, Steps
<1>7. request' = [request EXCEPT ![w] = q]
  BY Zenon, <1>0, <1>3, <1>5 DEF Requests
<1>8. /\ request' \in [Workers -> Requests] /\ request'[w] = q
      /\ \A v \in Workers : v # w => request'[v] = request[v]
  BY Zenon, <1>0, <1>6, <1>7
<1>9. TypeOK'
  BY Zenon, <1>0, <1>4, <1>8 DEF TypeOK, database, repair, publishing, Logs
<1>10. Frame /\ InOrder' = InOrder
  <2>1. /\ stored' = stored /\ orphans' = orphans /\ scenario' = scenario /\ policy' = policy
        /\ now' >= now
    BY <1>0 DEF database, repair
  <2>2. InOrder' = InOrder
    BY Zenon, <2>1 DEF InOrder
  <2>3. Serials \subseteq Serials' /\ \A s \in Serials : signed'[s] = signed[s]
    BY Zenon, <1>4
  <2> HIDE DEF Serials, InOrder
  <2> QED
    BY Zenon, <2>1, <2>2, <2>3 DEF Frame
<1>11. RequestInv'
  <2> SUFFICES ASSUME NEW v \in Workers PROVE RequestOK(v)'
    BY Zenon DEF RequestInv
  <2>1. RequestOK(v) /\ RequestOK(w) /\ scenario' = scenario
    BY Zenon, <1>0 DEF RequestInv
  <2>2. CASE v = w
    <3>1. w \in scenario.workers /\ new \in Serials' /\ q.began <= now
      BY Zenon, <1>4, <1>6, <2>1 DEF RequestOK
    <3> QED
      BY Zenon, <1>0, <1>6, <1>8, <2>1, <2>2, <3>1 DEF RequestOK
  <2>3. CASE v # w
    <3>1. Serials \subseteq Serials'
      BY Zenon, <1>4
    <3> HIDE DEF Serials
    <3> QED
      BY Zenon, <1>0, <1>8, <2>1, <2>3, <3>1 DEF RequestOK
  <2> QED
    BY Zenon, <2>2, <2>3
<1>12. RepairInv' /\ PolicyInv'
  BY Zenon DEF Inv, RepairInv, PolicyInv, database, repair
<1>13. SignedInv'
  <2>1. ASSUME NEW n \in c.names PROVE authz[n] >= now - RequestTimeout
    <3>1. n \in Names /\ request[w].began \in Nat /\ authz[n] \in Nat /\ RequestTimeout \in Nat
      BY Zenon, <1>0, <1>2, FieldTypes, TimesAssumption DEF TypeOK
    <3>2. now <= request[w].began + RequestTimeout /\ authz[n] >= request[w].began
      BY Zenon, <1>0, <1>2 DEF InTime, RequestInv, RequestOK
    <3> QED
      BY <1>0, <3>1, <3>2
  <2>2. ASSUME NEW s \in Serials'
        PROVE  /\ \A n \in signed'[s].names : authz[n] >= signed'[s].at - RequestTimeout
               /\ signed'[s].at <= now
    <3>1. CASE s = new
      <4>1. signed'[s].names = c.names /\ signed'[s].at = now
        BY Zenon, <1>2, <1>4, <3>1
      <4>2. \A n \in c.names : authz[n] >= now - RequestTimeout
        BY Zenon, <2>1
      <4>3. now <= now
        BY <1>0
      <4> QED
        BY <4>1, <4>2, <4>3, Zenon
    <3>2. CASE s \in Serials
      BY Zenon, <1>0, <1>4, <3>2 DEF SignedInv, AuthorizedRecently
    <3> QED
      BY Zenon, <1>4, <3>1, <3>2
  <2> QED
    BY Zenon, <1>0, <2>2 DEF SignedInv, AuthorizedRecently
<1>14. Accounted'
  <2>1. Accounted /\ UNCHANGED <<stored, orphans, crashed>>
    BY Zenon DEF Inv, database, repair
  <2> SUFFICES ASSUME NEW s \in Serials'
               PROVE  \/ s \in DOMAIN stored \cup orphans \cup crashed
                      \/ \E v \in Workers : request'[v].step = "store" /\ request'[v].serial = s
    BY Zenon, <2>1 DEF Accounted
  <2>2. CASE s = new
    BY Zenon, <1>6, <1>8, <2>2
  <2>3. CASE s \in Serials
    BY Zenon, <1>8, <2>1, <2>3 DEF Accounted
  <2> QED
    BY Zenon, <1>4, <2>2, <2>3
<1>15. CountingInv' /\ CountInv'
  <2>1. CountingInv /\ CountInv /\ counting' = counting /\ totalIssued' = totalIssued
    BY Zenon DEF Inv
  <2>2. CountInv'
    BY Zenon, <1>0, <1>9, <1>10, <2>1, CountKept
  <2>3. CASE policy' # scenario'.policy
    BY Zenon, <2>2, <2>3 DEF CountingInv
  <2>4. CASE policy' = scenario'.policy
    <3>1. counting'.step = "counted" => now' <= counting.from + RPCTime
      BY Zenon, <1>0, <2>1, <2>4 DEF CountingInv
    <3> QED
      BY Zenon, <1>0, <1>9, <1>10, <2>1, <2>2, <3>1, CountingKept
  <2> QED
    BY Zenon, <2>3, <2>4
<1>16. PassedInv'
  <2>1. \A v \in Workers : request'[v].passed \in {request[v].passed, Never}
    BY Zenon, <1>6, <1>8
  <2>2. \A s \in Serials' \ Serials : \E v \in Workers : signed'[s].passed = request[v].passed
    BY Zenon, <1>2, <1>4
  <2> QED
    BY Zenon, <1>0, <1>9, <1>10, <2>1, <2>2, PassedKept
<1>17. PerNameInv'
  <2>1. ASSUME NEW d \in Domains, NEW t \in 0 .. now'
        PROVE  /\ t \in 0 .. now /\ Issued(d, t)' \subseteq Issued(d, t)
               /\ InFlight(d, t)' \subseteq InFlight(d, t)
    <3>1. t \in 0 .. now /\ Issued(d, t)' \subseteq Issued(d, t)
      BY Zenon, <1>0, <1>9, <1>10, WindowsKept
    <3>2. \A v \in Workers : v # w => (Flying(request[v], d, t)' => Flying(request[v], d, t))
      BY Zenon, <1>0, <1>8, <1>9, <1>10, WindowsKept
    <3>3. ASSUME Flying(request[w], d, t)' PROVE Flying(request[w], d, t)
      <4>1. For(c.names, d) /\ FirstOfItsSet(new)' /\ now <= t
        BY Zenon, <1>2, <1>4, <1>6, <1>8, <3>3
        DEF Flying, For, domainsForRateLimiting, InWindow, FirstOfItsSet
      <4>2. t = now
        BY <1>0, <3>1, <4>1
      <4>3. ~ FQDNSetExists(c.names)
        <5> SUFFICES ASSUME NEW s \in DOMAIN stored, signed[s].names = c.names PROVE FALSE
          BY Zenon DEF FQDNSetExists
        <5>1. s \in Serials /\ stored' = stored
          BY Zenon, <1>0, Finite DEF database
        <5>2. signed'[s].names = signed'[new].names /\ s \in Nat /\ s < new
          <6>1. signed'[s].names = c.names /\ signed'[new].names = c.names /\ s < new
            BY Zenon, <1>4, <5>1
          <6>2. s \in Nat
            BY <1>0, <5>1, Finite
          <6> QED
            BY Zenon, <6>1, <6>2
        <5>3. s >= new
          BY Zenon, <4>1, <5>1, <5>2 DEF FirstOfItsSet
        <5> QED
          BY <1>4, <5>2, <5>3
      <4> QED
        BY Zenon, <1>2, <4>1, <4>2, <4>3 DEF Flying
    <3> QED
      BY Zenon, <3>1, <3>2, <3>3 DEF InFlight
  <2>2. PerNameInv
    BY Zenon DEF Inv
  <2>3. \A d \in Domains, t \in 0 .. now' : \E u \in 0 .. now :
            Issued(d, t)' \subseteq Issued(d, u) /\ InFlight(d, t)' \subseteq InFlight(d, u)
    <3> HIDE DEF Issued, InFlight
    <3> QED
      BY Zenon, <2>1
  <2> QED
    BY Zenon, <1>0, <1>9, <1>10, <2>2, <2>3, PerNameKept
<1> QED
  BY Zenon, <1>9, <1>11, <1>12, <1>13, <1>14, <1>15, <1>16, <1>17 DEF Inv

\* ca.IssueCertificate keeps the invariant.
LEMMA IssueCertificateInv == ASSUME Inv, NEW w \in Workers, IssueCertificate(w) PROVE Inv'
<1>1. CASE Finish(w) /\ UNCHANGED signed
  BY Zenon, <1>1, FinishInv DEF IssueCertificate, Others
<1>2. CASE InTime(w) /\ signed' = Append(signed, [names |-> request[w].names, at |-> now,
                                                  passed |-> request[w].passed])
           /\ request' = [request EXCEPT ![w].step = "store", ![w].serial = Len(signed) + 1]
  BY Zenon, <1>2, SignInv DEF IssueCertificate
<1> QED
  BY Zenon, <1>1, <1>2 DEF IssueCertificate

-----------------------------------------------------------------------------
\* Steps of the database, of the repair and of the publication

Kept == UNCHANGED <<now, scenario, policy, authz, totalIssued, counting, signed>>

\* Requests stay or end, and what is stored in order now is stored now.
LEMMA StoreStep ==
    ASSUME Inv, Kept, TypeOK', RepairInv', Accounted', PerNameInv',
           \A v \in Workers : request'[v] = request[v] \/ request'[v] = Idle,
           DOMAIN stored \subseteq DOMAIN stored',
           \A s \in InOrder' : (s \in InOrder /\ stored'[s] = stored[s]) \/ stored'[s] = now
    PROVE  Inv'
<1>0. /\ TypeOK /\ RequestInv /\ SignedInv /\ PassedInv /\ CountingInv /\ CountInv
      /\ PolicyInv
  BY Zenon DEF Inv
<1>1. UNCHANGED <<now, scenario, policy, authz, totalIssued, counting, signed>> /\ now \in Nat
      /\ Serials' = Serials
  BY Zenon, <1>0 DEF Kept, TypeOK, Serials
<1>2. Frame
  <2> HIDE DEF Serials, InOrder
  <2> QED
    BY <1>1 DEF Frame
<1>3. RequestInv'
  <2> SUFFICES ASSUME NEW v \in Workers PROVE RequestOK(v)'
    BY Zenon DEF RequestInv
  <2>1. RequestOK(v)
    BY Zenon, <1>0 DEF RequestInv
  <2>2. CASE request'[v] = request[v]
    <3> HIDE DEF Serials
    <3> QED
      BY Zenon, <1>1, <2>1, <2>2 DEF RequestOK
  <2>3. CASE request'[v] = Idle
    BY <1>1, <2>3, IdleRequest DEF RequestOK
  <2> QED
    BY Zenon, <2>2, <2>3
<1>4. SignedInv' /\ PolicyInv'
  BY Zenon, <1>0, <1>1 DEF SignedInv, PolicyInv, AuthorizedRecently
<1>5. CountInv'
  BY Zenon, <1>0, <1>1, <1>2, CountKept
<1>6. CountingInv'
  <2>1. CASE policy' # scenario'.policy
    BY Zenon, <2>1 DEF CountingInv
  <2>2. CASE policy' = scenario'.policy
    <3>1. counting'.step = "counted" => counting' = counting /\ now' <= counting.from + RPCTime
      BY Zenon, <1>0, <1>1, <2>2 DEF CountingInv
    <3> QED
      BY Zenon, <1>0, <1>2, <3>1, CountingKept
  <2> QED
    BY Zenon, <2>1, <2>2
<1>7. PassedInv'
  <2>1. \A v \in Workers : request'[v].passed \in {request[v].passed, Never}
    BY Zenon, IdleRequest
  <2>2. \A s \in Serials' \ Serials : \E v \in Workers : signed'[s].passed = request[v].passed
    BY Zenon, <1>1
  <2> QED
    BY Zenon, <1>0, <1>2, <2>1, <2>2, PassedKept
<1> QED
  BY Zenon, <1>3, <1>4, <1>5, <1>6, <1>7 DEF Inv

\* Nothing new is stored in order.
LEMMA QuietStep ==
    ASSUME Inv, Kept, TypeOK', RepairInv', Accounted',
           \A v \in Workers : request'[v] = request[v] \/ request'[v] = Idle,
           DOMAIN stored \subseteq DOMAIN stored',
           \A s \in InOrder' : s \in InOrder /\ stored'[s] = stored[s]
    PROVE  Inv'
<1>0. TypeOK /\ RequestInv /\ PerNameInv
  BY Zenon DEF Inv
<1>1. /\ now' = now /\ now \in Nat /\ scenario' = scenario /\ policy' = policy
      /\ signed' = signed /\ Serials' = Serials
  BY Zenon, <1>0 DEF Kept, TypeOK, Serials
<1>2. Frame /\ InOrder' \subseteq InOrder
  <2> HIDE DEF Serials, InOrder
  <2> QED
    BY <1>1 DEF Frame
<1>3. ASSUME NEW d \in Domains, NEW t \in 0 .. now'
      PROVE  /\ t \in 0 .. now /\ Issued(d, t)' \subseteq Issued(d, t)
             /\ InFlight(d, t)' \subseteq InFlight(d, t)
  <2>1. t \in 0 .. now /\ Issued(d, t)' \subseteq Issued(d, t)
    BY Zenon, <1>0, <1>1, <1>2, WindowsKept
  <2>2. \A v \in Workers : request'[v] = request[v] =>
            (Flying(request[v], d, t)' => Flying(request[v], d, t))
    BY Zenon, <1>0, <1>1, <1>2, WindowsKept
  <2>3. \A v \in Workers : request'[v] = Idle => ~ Flying(request[v], d, t)'
    BY Zenon, IdleRequest DEF Flying
  <2>4. InFlight(d, t)' \subseteq InFlight(d, t)
    <3> HIDE DEF Flying
    <3> QED
      BY Zenon, <2>2, <2>3 DEF InFlight
  <2> QED
    BY Zenon, <2>1, <2>4
<1>4. \A d \in Domains, t \in 0 .. now' : \E u \in 0 .. now :
          Issued(d, t)' \subseteq Issued(d, u) /\ InFlight(d, t)' \subseteq InFlight(d, u)
  <2> HIDE DEF Issued, InFlight
  <2> QED
    BY Zenon, <1>3
<1>5. PerNameInv'
  BY Zenon, <1>0, <1>2, <1>4, PerNameKept
<1> QED
  BY Zenon, <1>5, StoreStep

\* What AddCertificate does to the table.
LEMMA Added ==
    ASSUME TypeOK, NEW s \in Serials, NEW at \in Nat, AddCertificate(s, at)
    PROVE  /\ DOMAIN stored' = DOMAIN stored \cup {s} /\ stored' \in [DOMAIN stored' -> Nat]
           /\ DOMAIN stored' \subseteq Serials
           /\ \A t \in DOMAIN stored : stored'[t] = stored[t]
           /\ s \notin DOMAIN stored => stored'[s] = at
<1>1. DOMAIN stored \subseteq Serials /\ \A t \in DOMAIN stored : stored[t] \in Nat
  BY Zenon, FieldTypes, Finite
<1> QED
  BY Zenon, <1>1 DEF AddCertificate

\* The steps of the publication touch nothing else.
LEMMA PublishingInv ==
    ASSUME Inv, UNCHANGED <<now, scenario, policy, authz, requests, signed, database, repair>>,
           updater' \subseteq Serials, submissions' \cup receipts' \subseteq Serials \X Logs
    PROVE  Inv'
<1>1. /\ UNCHANGED <<request, stored, orphans, crashed, late, finder>> /\ Kept /\ TypeOK
      /\ RepairInv /\ Accounted
  BY Zenon DEF Inv, Kept, requests, database, repair
<1>2. TypeOK'
  BY Zenon, <1>1 DEF TypeOK, Kept, Serials, Logs
<1>3. RepairInv' /\ Accounted'
  BY Zenon, <1>1 DEF RepairInv, Accounted, Kept, Serials
<1>4. InOrder' = InOrder
  BY Zenon, <1>1 DEF InOrder
<1> HIDE DEF InOrder
<1> QED
  BY Zenon, <1>1, <1>2, <1>3, <1>4, QuietStep

\* The publisher and missingReceiptsTick keep the invariant.
LEMMA PublishInv ==
    ASSUME Inv,
           \/ \E s \in Serials, l \in Logs : SubmitToSingleCT(s, l)
           \/ PublisherCrash \/ missingReceiptsTick
           \/ \E s \in Serials : Resubmit(s)
    PROVE  Inv'
<1>0. TypeOK
  BY Zenon DEF Inv
<1>1. /\ updater \subseteq Serials /\ submissions \subseteq Serials \X Logs
      /\ receipts \subseteq Serials \X Logs
  BY Zenon, <1>0 DEF TypeOK
<1>2. ASSUME NEW s \in Serials, NEW l \in Logs, SubmitToSingleCT(s, l) PROVE Inv'
  <2>1. updater' \subseteq Serials /\ submissions' \cup receipts' \subseteq Serials \X Logs
    BY Zenon, <1>1, <1>2 DEF SubmitToSingleCT
  <2> QED
    BY Zenon, <1>2, <2>1, PublishingInv DEF SubmitToSingleCT
<1>3. CASE PublisherCrash
  <2>1. updater' \subseteq Serials /\ submissions' \cup receipts' \subseteq Serials \X Logs
    BY Zenon, <1>1, <1>3 DEF PublisherCrash
  <2> QED
    BY Zenon, <1>3, <2>1, PublishingInv DEF PublisherCrash
<1>4. CASE missingReceiptsTick
  <2>1. updater' \subseteq Serials /\ submissions' \cup receipts' \subseteq Serials \X Logs
    BY Zenon, <1>0, <1>1, <1>4, Finite DEF missingReceiptsTick, getSerialsIssuedSince
  <2> QED
    BY Zenon, <1>4, <2>1, PublishingInv DEF missingReceiptsTick
<1>5. ASSUME NEW s \in Serials, Resubmit(s) PROVE Inv'
  <2>1. updater' \subseteq Serials /\ submissions' \cup receipts' \subseteq Serials \X Logs
    BY Zenon, <1>1, <1>5 DEF Resubmit, missingLogs
  <2> QED
    BY Zenon, <1>5, <2>1, PublishingInv DEF Resubmit
<1> QED
  BY Zenon, <1>2, <1>3, <1>4, <1>5

\* orphan-finder finds a log line whose certificate is missing.
LEMMA checkDERInv == ASSUME Inv, NEW s \in Serials, checkDER(s) PROVE Inv'
<1>1. /\ UNCHANGED <<request, stored, orphans, crashed, late, publishing>> /\ Kept /\ TypeOK
      /\ RepairInv /\ Accounted /\ finder' = s /\ s \in orphans
  BY Zenon DEF Inv, Kept, requests, database, checkDER
<1>2. TypeOK'
  BY Zenon, <1>1 DEF TypeOK, Kept, Serials, Logs, publishing
<1>3. RepairInv' /\ Accounted'
  BY Zenon, <1>1 DEF RepairInv, Accounted, Kept, Serials
<1>4. InOrder' = InOrder
  BY Zenon, <1>1 DEF InOrder
<1> HIDE DEF InOrder
<1> QED
  BY Zenon, <1>1, <1>2, <1>3, <1>4, QuietStep

\* An orphan is stored late, by orphan-finder or by the call the CA gave up.
LEMMA OrphanStored ==
    ASSUME Inv, Kept, TypeOK', RepairInv', UNCHANGED <<request, orphans, crashed>>,
           NEW s \in orphans, NEW at \in Nat, AddCertificate(s, at)
    PROVE  Inv'
<1>1. TypeOK /\ Accounted /\ s \in Serials
  BY Zenon DEF Inv, TypeOK
<1>2. /\ DOMAIN stored' = DOMAIN stored \cup {s}
      /\ \A t \in DOMAIN stored : stored'[t] = stored[t]
  BY Zenon, <1>1, Added
<1>3. Accounted'
  BY Zenon, <1>1, <1>2 DEF Accounted, Kept, Serials
<1>4. \A t \in InOrder' : t \in InOrder /\ stored'[t] = stored[t]
  BY Zenon, <1>2 DEF InOrder
<1> HIDE DEF InOrder
<1> QED
  BY Zenon, <1>2, <1>3, <1>4, QuietStep

\* A transaction the CA gave up ends.
LEMMA LateStoreInv ==
    ASSUME Inv, NEW s \in Serials, NEW at \in 0 .. now, LateStore(s, at) PROVE Inv'
<1>1. /\ UNCHANGED <<request, orphans, crashed, finder, publishing>> /\ Kept /\ TypeOK
      /\ RepairInv /\ Accounted /\ <<s, at>> \in late /\ late' = late \ {<<s, at>>}
  BY Zenon DEF Inv, Kept, requests, repair, LateStore
<1>2. at \in Nat /\ s \in orphans
  BY Zenon, <1>1 DEF TypeOK, RepairInv
<1>3. RepairInv'
  BY Zenon, <1>1 DEF RepairInv
<1>4. CASE AddCertificate(s, at)
  <2>1. DOMAIN stored' \subseteq Serials /\ stored' \in [DOMAIN stored' -> Nat]
    BY Zenon, <1>1, <1>2, <1>4, Added
  <2>2. TypeOK'
    BY Zenon, <1>1, <2>1 DEF TypeOK, Kept, Serials, Logs, publishing
  <2> QED
    BY Zenon, <1>1, <1>2, <1>3, <1>4, <2>2, OrphanStored
<1>5. CASE UNCHANGED stored
  <2>1. TypeOK' /\ Accounted'
    BY Zenon, <1>1, <1>5 DEF TypeOK, Accounted, Kept, Serials, Logs, publishing
  <2>2. InOrder' = InOrder
    BY Zenon, <1>1, <1>5 DEF InOrder
  <2> HIDE DEF InOrder
  <2> QED
    BY Zenon, <1>1, <1>3, <1>5, <2>1, <2>2, QuietStep
<1> QED
  BY Zenon, <1>4, <1>5 DEF LateStore

\* orphan-finder stores what it found missing, or fails to.
LEMMA parseLogLineInv == ASSUME Inv, parseLogLine PROVE Inv'
<1>1. /\ UNCHANGED <<request, orphans, crashed, late, publishing>> /\ Kept /\ TypeOK
      /\ RepairInv /\ Accounted /\ finder' = 0 /\ finder \in orphans
  BY Zenon DEF Inv, RepairInv, Kept, requests, parseLogLine
<1>2. now \in Nat /\ finder \in Serials
  BY Zenon, <1>1 DEF TypeOK
<1>3. RepairInv'
  BY Zenon, <1>1 DEF RepairInv
<1>4. CASE AddCertificate(finder, now)
  <2>0. PICK s, at : s = finder /\ at = now
    BY Zenon
  <2>1. AddCertificate(s, at) /\ s \in orphans /\ s \in Serials /\ at \in Nat
    BY Zenon, <1>1, <1>2, <1>4, <2>0
  <2>2. DOMAIN stored' \subseteq Serials /\ stored' \in [DOMAIN stored' -> Nat]
    BY Zenon, <1>1, <2>1, Added
  <2>3. TypeOK'
    BY Zenon, <1>1, <2>2 DEF TypeOK, Kept, Serials, Logs, publishing
  <2> QED
    BY Zenon, <1>1, <1>3, <2>1, <2>3, OrphanStored
<1>5. CASE UNCHANGED stored
  <2>1. TypeOK' /\ Accounted'
    BY Zenon, <1>1, <1>5 DEF TypeOK, Accounted, Kept, Serials, Logs, publishing
  <2>2. InOrder' = InOrder
    BY Zenon, <1>1, <1>5 DEF InOrder
  <2> HIDE DEF InOrder
  <2> QED
    BY Zenon, <1>1, <1>3, <1>5, <2>1, <2>2, QuietStep
<1> QED
  BY Zenon, <1>4, <1>5 DEF parseLogLine

\* The request of a certificate ends.
LEMMA Finished ==
    ASSUME TypeOK, RequestInv, NEW w \in Workers, request[w].step = "store", Finish(w)
    PROVE  /\ request[w].serial \in Serials /\ request' \in [Workers -> Requests]
           /\ request'[w] = Idle /\ \A v \in Workers : v # w => request'[v] = request[v]
<1>1. request[w].serial \in Serials /\ request \in [Workers -> Requests]
  BY Zenon DEF RequestInv, RequestOK, TypeOK
<1> HIDE DEF Idle, Requests
<1> QED
  BY Zenon, <1>1, IdleRequest DEF Finish

\* AddCertificate fails for the CA: the certificate is an orphan.
LEMMA StoreFailsInv == ASSUME Inv, NEW w \in Workers, StoreFails(w) PROVE Inv'
<1>1. /\ UNCHANGED <<stored, crashed, finder, publishing>> /\ Kept /\ TypeOK
      /\ RepairInv /\ RequestInv /\ Accounted /\ now \in Nat
  BY Zenon DEF Inv, Kept, StoreFails, TypeOK
<1>2. PICK s : s = request[w].serial
  BY Zenon
<1>3. /\ s \in Serials /\ request' \in [Workers -> Requests] /\ request'[w] = Idle
      /\ \A v \in Workers : v # w => request'[v] = request[v]
  BY Zenon, <1>1, <1>2, Finished DEF StoreFails
<1>4. late' \subseteq late \cup {<<s, now>>} /\ orphans' = orphans \cup {s}
  BY Zenon, <1>2 DEF StoreFails
<1>5. TypeOK'
  BY <1>1, <1>3, <1>4 DEF TypeOK, Kept, Serials, Logs, publishing
<1>6. RepairInv'
  BY <1>1, <1>4 DEF RepairInv
<1>7. Accounted'
  BY Zenon, <1>1, <1>2, <1>3, <1>4 DEF Accounted, Kept, Serials
<1>8. \A t \in InOrder' : t \in InOrder /\ stored'[t] = stored[t]
  BY Zenon, <1>1, <1>4 DEF InOrder
<1>9. \A v \in Workers : request'[v] = request[v] \/ request'[v] = Idle
  BY Zenon, <1>3
<1> HIDE DEF InOrder, Idle
<1> QED
  BY Zenon, <1>1, <1>5, <1>6, <1>7, <1>8, <1>9, QuietStep

\* The CA dies before it can log.
LEMMA CACrashInv == ASSUME Inv, NEW w \in Workers, CACrash(w) PROVE Inv'
<1>1. /\ UNCHANGED <<stored, late, orphans, finder, publishing>> /\ Kept /\ TypeOK
      /\ RepairInv /\ RequestInv /\ Accounted
  BY Zenon DEF Inv, Kept, CACrash, database
<1>2. PICK s : s = request[w].serial
  BY Zenon
<1>3. /\ s \in Serials /\ request' \in [Workers -> Requests] /\ request'[w] = Idle
      /\ \A v \in Workers : v # w => request'[v] = request[v]
  BY Zenon, <1>1, <1>2, Finished DEF CACrash
<1>4. crashed' = crashed \cup {s}
  BY Zenon, <1>2 DEF CACrash
<1>5. TypeOK' /\ RepairInv'
  BY Zenon, <1>1, <1>3, <1>4 DEF TypeOK, RepairInv, Kept, Serials, Logs, publishing
<1>6. Accounted'
  BY Zenon, <1>1, <1>2, <1>3, <1>4 DEF Accounted, Kept, Serials
<1>7. InOrder' = InOrder
  BY Zenon, <1>1 DEF InOrder
<1>8. \A v \in Workers : request'[v] = request[v] \/ request'[v] = Idle
  BY Zenon, <1>3
<1> HIDE DEF InOrder, Idle
<1> QED
  BY Zenon, <1>1, <1>5, <1>6, <1>7, <1>8, QuietStep

\* Adding a certificate to a finite set of them makes it at most one larger.
LEMMA OneMore ==
    ASSUME NEW S, IsFiniteSet(S), NEW s
    PROVE  /\ IsFiniteSet(S \cup {s})
           /\ Cardinality(S \cup {s}) \in Nat
           /\ Cardinality(S \cup {s}) <= Cardinality(S) + 1
<1>0. Cardinality(S) \in Nat
  BY FS_CardinalityType, Zenon
<1>1. IsFiniteSet(S \cup {s})
  BY FS_AddElement, Zenon
<1>2. Cardinality(S \cup {s}) = Cardinality(S) \/ Cardinality(S \cup {s}) = Cardinality(S) + 1
  BY FS_AddElement, Zenon
<1> QED
  BY <1>0, <1>1, <1>2

\* AddCertificate succeeds: the certificate takes the place of its request in
\* the windows of its domains.
LEMMA StoreSucceedsInv == ASSUME Inv, NEW w \in Workers, StoreSucceeds(w) PROVE Inv'
<1>1. /\ UNCHANGED <<late, orphans, crashed, finder, receipts, updater>> /\ Kept /\ TypeOK
      /\ RepairInv /\ RequestInv /\ Accounted /\ PerNameInv /\ now \in Nat /\ now' = now
  BY Zenon DEF Inv, Kept, StoreSucceeds, repair, TypeOK
<1>2. PICK s : s = request[w].serial
  BY Zenon
<1>3. /\ s \in Serials /\ request' \in [Workers -> Requests] /\ request'[w] = Idle
      /\ \A v \in Workers : v # w => request'[v] = request[v]
  BY Zenon, <1>1, <1>2, Finished DEF StoreSucceeds
<1>4. /\ DOMAIN stored' = DOMAIN stored \cup {s} /\ stored' \in [DOMAIN stored' -> Nat]
      /\ DOMAIN stored' \subseteq Serials
      /\ \A t \in DOMAIN stored : stored'[t] = stored[t]
      /\ s \notin DOMAIN stored => stored'[s] = now
  <2>1. PICK at : at = now
    BY Zenon
  <2>2. AddCertificate(s, at) /\ at \in Nat
    BY Zenon, <1>1, <1>2, <2>1 DEF StoreSucceeds
  <2> QED
    BY Zenon, <1>1, <1>3, <2>1, <2>2, Added
<1>5. submissions' \subseteq Serials \X Logs
  BY Zenon, <1>1, <1>2, <1>3 DEF StoreSucceeds, TypeOK
<1>6. TypeOK'
  BY Zenon, <1>1, <1>3, <1>4, <1>5 DEF TypeOK, Kept, Serials, Logs
<1>7. RepairInv'
  BY Zenon, <1>1 DEF RepairInv
<1>8. Accounted'
  BY Zenon, <1>1, <1>2, <1>3, <1>4 DEF Accounted, Kept, Serials
<1>9. \A t \in InOrder' : \/ t \in InOrder /\ stored'[t] = stored[t]
                          \/ t = s /\ stored'[t] = now
  BY Zenon, <1>1, <1>4 DEF InOrder
<1>10. \A v \in Workers : request'[v] = request[v] \/ request'[v] = Idle
  BY Zenon, <1>3
<1>11. Frame
  <2>1. UNCHANGED <<scenario, policy, signed>> /\ Serials' = Serials
    BY Zenon, <1>1 DEF Kept, Serials
  <2> HIDE DEF Serials, InOrder
  <2> QED
    BY <1>1, <1>4, <1>9, <2>1 DEF Frame
<1>12. PerNameInv'
  <2> SUFFICES ASSUME policy' = scenario'.policy, Enabled(perName)',
                      NEW d \in Domains, NEW t \in 0 .. now'
               PROVE  Cardinality(Issued(d, t)') + Cardinality(InFlight(d, t)')
                          <= Threshold(d)' + Cardinality(scenario'.workers) - 1
    BY Zenon DEF PerNameInv
  <2>1. policy = scenario.policy /\ Enabled(perName) /\ t \in 0 .. now
        /\ Threshold(d)' = Threshold(d) /\ scenario'.workers = scenario.workers
    BY Zenon, <1>1 DEF Kept, perName, Threshold
  <2>2. Cardinality(Issued(d, t)) + Cardinality(InFlight(d, t))
            <= Threshold(d) + Cardinality(scenario.workers) - 1
    BY Zenon, <1>1, <2>1 DEF PerNameInv
  <2>3. /\ IsFiniteSet(Issued(d, t)) /\ Cardinality(Issued(d, t)) \in Nat
        /\ IsFiniteSet(InFlight(d, t)) /\ Cardinality(InFlight(d, t)) \in Nat
    BY Zenon, <1>1, WindowSizes
  <2>4. \A x \in Serials : x \in Issued(d, t)' =>
            For(signed[x].names, d) /\ FirstOfItsSet(x) /\ InWindow(x, t)
    BY Zenon, <1>1, <1>6, <1>11, WindowsKept
  <2>5. Issued(d, t)' \subseteq Issued(d, t) \cup {s}
    <3> SUFFICES ASSUME NEW x \in Issued(d, t)', x # s PROVE x \in Issued(d, t)
      BY Zenon
    <3>1. x \in InOrder
      BY Zenon, <1>9 DEF Issued
    <3>2. x \in Serials
      BY Zenon, <1>1, <3>1, Finite DEF InOrder
    <3> QED
      BY Zenon, <2>4, <3>1, <3>2 DEF Issued
  <2>6. InFlight(d, t)' \subseteq InFlight(d, t) \ {w}
    <3>1. \A v \in Workers : v # w => (Flying(request[v], d, t)' => Flying(request[v], d, t))
      BY Zenon, <1>1, <1>3, <1>6, <1>11, WindowsKept
    <3>2. ~ Flying(request[w], d, t)'
      BY Zenon, <1>3, IdleRequest DEF Flying
    <3> HIDE DEF Flying
    <3> QED
      BY Zenon, <3>1, <3>2 DEF InFlight
  <2>7. Threshold(d) \in Nat /\ Cardinality(scenario.workers) \in Nat
    BY Zenon, <1>1, PolicyTypes, Finite
  <2>8. CASE Issued(d, t)' \subseteq Issued(d, t)
    <3>1. /\ Cardinality(Issued(d, t)') \in Nat /\ Cardinality(InFlight(d, t)') \in Nat
          /\ Cardinality(Issued(d, t)') <= Cardinality(Issued(d, t))
          /\ Cardinality(InFlight(d, t)') <= Cardinality(InFlight(d, t))
      <4> HIDE DEF Issued, InFlight
      <4>1. InFlight(d, t)' \subseteq InFlight(d, t)
        BY Zenon, <2>6
      <4> QED
        BY Zenon, <2>3, <2>8, <4>1, FS_Subset, FS_CardinalityType
    <3> HIDE DEF Issued, InFlight, Threshold
    <3> QED
      BY <2>1, <2>2, <2>3, <2>7, <3>1
  <2>9. CASE ~ (Issued(d, t)' \subseteq Issued(d, t))
    <3>1. s \in Issued(d, t)'
      BY Zenon, <2>5, <2>9
    <3>2. w \in InFlight(d, t)
      <4>1. For(signed[s].names, d) /\ FirstOfItsSet(s) /\ InWindow(s, t)
        BY Zenon, <1>3, <2>4, <3>1
      <4> QED
        BY Zenon, <1>2, <4>1 DEF InFlight, Flying, StoreSucceeds
    <3> HIDE DEF Issued, InFlight, Threshold
    <3>3. /\ IsFiniteSet(Issued(d, t) \cup {s})
          /\ Cardinality(Issued(d, t) \cup {s}) \in Nat
          /\ Cardinality(Issued(d, t) \cup {s}) <= Cardinality(Issued(d, t)) + 1
      BY Zenon, <2>3, OneMore
    <3>4. /\ IsFiniteSet(InFlight(d, t) \ {w})
          /\ Cardinality(InFlight(d, t) \ {w}) \in Nat
          /\ Cardinality(InFlight(d, t) \ {w}) = Cardinality(InFlight(d, t)) - 1
      BY Zenon, <2>3, <3>2, FS_RemoveElement, FS_CardinalityType
    <3>5. /\ Cardinality(Issued(d, t)') \in Nat
          /\ Cardinality(Issued(d, t)') <= Cardinality(Issued(d, t) \cup {s})
      BY Zenon, <2>5, <3>3, FS_Subset, FS_CardinalityType
    <3>6. /\ Cardinality(InFlight(d, t)') \in Nat
          /\ Cardinality(InFlight(d, t)') <= Cardinality(InFlight(d, t) \ {w})
      BY Zenon, <2>6, <3>4, FS_Subset, FS_CardinalityType
    <3> DEFINE i == Cardinality(Issued(d, t))
               j == Cardinality(Issued(d, t)')
               f == Cardinality(InFlight(d, t))
               h == Cardinality(InFlight(d, t)')
               bound == Threshold(d) + Cardinality(scenario.workers) - 1
    <3>7. i \in Nat /\ j \in Nat /\ f \in Nat /\ h \in Nat
      BY Zenon, <2>3, <3>5, <3>6
    <3>8. bound \in Int /\ i + f <= bound
      BY <2>2, <2>7
    <3>9. j <= i + 1
      BY <3>3, <3>5, <3>7
    <3>10. h <= f - 1
      BY Zenon, <3>4, <3>6, <3>7
    <3>11. j + h <= bound
      <4> HIDE DEF i, j, f, h, bound
      <4> QED
        BY <3>7, <3>8, <3>9, <3>10
    <3> QED
      BY Zenon, <2>1, <3>11
  <2> QED
    BY Zenon, <2>8, <2>9
<1>13. DOMAIN stored \subseteq DOMAIN stored'
  BY Zenon, <1>4
<1>14. \A t \in InOrder' : (t \in InOrder /\ stored'[t] = stored[t]) \/ stored'[t] = now
  BY Zenon, <1>9
<1> HIDE DEF InOrder, Idle
<1> QED
  BY Zenon, <1>1, <1>6, <1>7, <1>8, <1>10, <1>12, <1>13, <1>14, StoreStep

-----------------------------------------------------------------------------
\* The other steps

\* Certificates and requests stay as they are.
LEMMA RestStep ==
    ASSUME Inv, UNCHANGED <<now, request, signed, database, repair, publishing>>,
           TypeOK', Frame, RequestInv', SignedInv', PolicyInv', CountingInv', CountInv'
    PROVE  Inv'
<1>1. /\ UNCHANGED <<now, request, signed, stored, late, orphans, crashed, finder>>
      /\ TypeOK /\ RequestInv /\ RepairInv /\ Accounted /\ PassedInv /\ PerNameInv
      /\ now \in Nat
  BY Zenon DEF Inv, database, repair, TypeOK
<1>2. Serials' = Serials /\ InOrder' = InOrder
  BY Zenon, <1>1 DEF Serials, InOrder
<1>3. RepairInv' /\ Accounted'
  BY Zenon, <1>1 DEF RepairInv, Accounted, Serials
<1>4. PassedInv'
  <2>1. \A v \in Workers : request'[v].passed \in {request[v].passed, Never}
    BY Zenon, <1>1
  <2>2. \A s \in Serials' \ Serials : \E v \in Workers : signed'[s].passed = request[v].passed
    BY Zenon, <1>2
  <2> QED
    BY Zenon, <1>1, <2>1, <2>2, PassedKept
<1>5. PerNameInv'
  <2>1. ASSUME NEW d \in Domains, NEW t \in 0 .. now'
        PROVE  /\ t \in 0 .. now /\ Issued(d, t)' \subseteq Issued(d, t)
               /\ InFlight(d, t)' \subseteq InFlight(d, t)
    <3>1. t \in 0 .. now /\ Issued(d, t)' \subseteq Issued(d, t)
      BY Zenon, <1>1, <1>2, WindowsKept
    <3>2. \A v \in Workers : Flying(request[v], d, t)' => Flying(request[v], d, t)
      BY Zenon, <1>1, WindowsKept
    <3> HIDE DEF Flying
    <3> QED
      BY Zenon, <3>1, <3>2 DEF InFlight
  <2>2. \A d \in Domains, t \in 0 .. now' : \E u \in 0 .. now :
            Issued(d, t)' \subseteq Issued(d, u) /\ InFlight(d, t)' \subseteq InFlight(d, u)
    <3> HIDE DEF Issued, InFlight
    <3> QED
      BY Zenon, <2>1
  <2> QED
    BY Zenon, <1>1, <2>2, PerNameKept
<1> QED
  BY Zenon, <1>3, <1>4, <1>5 DEF Inv

\* A reload is the last one, and before it the policy was the first.
LEMMA LoadPoliciesInv == ASSUME Inv, NEW p \in scenario.reloads, LoadPolicies(p) PROVE Inv'
<1>1. /\ UNCHANGED <<now, authz, totalIssued, counting, request, signed, database, repair,
                     publishing>>
      /\ TypeOK /\ RequestInv /\ SignedInv /\ PolicyInv /\ CountingInv /\ CountInv
      /\ policy' = p /\ scenario' = [scenario EXCEPT !.reloads = {}]
      /\ scenario \in ScenarioRecords /\ now \in Nat
  BY Zenon DEF Inv, LoadPolicies, requests, TypeOK
<1>2. /\ scenario' \in ScenarioRecords /\ scenario'.policy = scenario.policy
      /\ scenario'.workers = scenario.workers /\ scenario'.reloads = {}
      /\ scenario'.logs = scenario.logs /\ p \in Policies
  BY Zenon, <1>1 DEF ScenarioRecords
<1>3. policy = scenario.policy
  BY Zenon, <1>1 DEF PolicyInv
<1>4. TypeOK'
  BY Zenon, <1>1, <1>2 DEF TypeOK, database, repair, publishing, Serials, Logs
<1>5. Frame
  BY <1>1, <1>2, <1>3 DEF Frame, Serials, InOrder, database, repair
<1>6. RequestInv' /\ SignedInv' /\ PolicyInv'
  BY Zenon, <1>1, <1>2 DEF RequestInv, RequestOK, SignedInv, AuthorizedRecently, PolicyInv, Serials
<1>7. CountInv'
  BY Zenon, <1>1, <1>4, <1>5, CountKept
<1>8. CountingInv'
  <2>1. counting'.step = "counted" => counting' = counting /\ now' <= counting.from + RPCTime
    BY Zenon, <1>1, <1>3 DEF CountingInv
  <2> QED
    BY Zenon, <1>1, <1>4, <1>5, <2>1, CountingKept
<1> QED
  BY Zenon, <1>1, <1>4, <1>5, <1>6, <1>7, <1>8, RestStep

\* What a request or a certificate knew of an authorization that is lost was
\* true up to now.
LEMMA LoseAuthorizationInv == ASSUME Inv, NEW n \in Names, LoseAuthorization(n) PROVE Inv'
<1>1. /\ UNCHANGED <<now, scenario, policy, totalIssued, counting, request, signed, database,
                     repair, publishing>>
      /\ TypeOK /\ RequestInv /\ SignedInv /\ PolicyInv /\ CountingInv /\ CountInv
      /\ now \in Nat /\ authz \in [Names -> Nat] /\ authz' = [authz EXCEPT ![n] = now]
  BY Zenon DEF Inv, LoseAuthorization, requests, TypeOK
<1>2. authz' \in [Names -> Nat] /\ \A m \in Names : authz'[m] = authz[m] \/ authz'[m] = now
  BY Zenon, <1>1
<1>3. TypeOK'
  BY Zenon, <1>1, <1>2 DEF TypeOK, database, repair, publishing, Serials, Logs
<1>4. Frame
  BY Zenon, <1>1, StaysFrame DEF database, repair
<1>5. RequestInv'
  <2> SUFFICES ASSUME NEW v \in Workers PROVE RequestOK(v)'
    BY Zenon DEF RequestInv
  <2>1. RequestOK(v) /\ request[v].names \subseteq Names /\ request[v].began \in Nat
    BY Zenon, <1>1, FieldTypes DEF RequestInv
  <2>2. ASSUME request[v].step = "sign", NEW m \in request[v].names
        PROVE  authz'[m] >= request[v].began
    <3>1. /\ m \in Names /\ authz[m] >= request[v].began /\ now >= request[v].began
      BY Zenon, <1>1, <2>1, <2>2 DEF RequestOK
    <3> QED
      BY Zenon, <1>2, <3>1
  <2> QED
    BY Zenon, <1>1, <2>1, <2>2 DEF RequestOK, Serials
<1>6. SignedInv'
  <2>1. Serials' = Serials /\ signed' = signed /\ now' = now
    BY Zenon, <1>1 DEF Serials
  <2>2. ASSUME NEW s \in Serials, NEW m \in signed[s].names
        PROVE  authz'[m] >= signed[s].at - RequestTimeout
    <3>1. m \in Names /\ signed[s].at \in Nat /\ RequestTimeout \in Nat /\ signed[s].at <= now
      BY Zenon, <1>1, FieldTypes, TimesAssumption DEF SignedInv
    <3>2. authz[m] >= signed[s].at - RequestTimeout
      BY Zenon, <1>1 DEF SignedInv, AuthorizedRecently
    <3> QED
      BY <1>1, <1>2, <3>1, <3>2
  <2>3. \A s \in Serials : signed[s].at <= now
    BY Zenon, <1>1 DEF SignedInv
  <2> QED
    BY Zenon, <2>1, <2>2, <2>3 DEF SignedInv, AuthorizedRecently
<1>7. PolicyInv'
  BY Zenon, <1>1 DEF PolicyInv
<1>8. CountInv'
  BY Zenon, <1>1, <1>3, <1>4, CountKept
<1>9. CountingInv'
  <2>1. CASE policy' # scenario'.policy
    BY Zenon, <2>1 DEF CountingInv
  <2>2. CASE policy' = scenario'.policy
    <3>1. counting'.step = "counted" => counting' = counting /\ now' <= counting.from + RPCTime
      BY Zenon, <1>1, <2>2 DEF CountingInv
    <3> QED
      BY Zenon, <1>1, <1>3, <1>4, <3>1, CountingKept
  <2> QED
    BY Zenon, <2>1, <2>2
<1> QED
  BY Zenon, <1>1, <1>3, <1>4, <1>5, <1>6, <1>7, <1>8, <1>9, RestStep

\* The total is counted: all that is stored in order is counted.
LEMMA updateIssuedCountInv == ASSUME Inv, updateIssuedCount PROVE Inv'
<1>1. /\ UNCHANGED <<now, scenario, policy, authz, totalIssued, request, signed, database,
                     repair, publishing>>
      /\ TypeOK /\ RequestInv /\ SignedInv /\ PolicyInv /\ CountInv /\ now \in Nat
      /\ stored' = stored /\ orphans' = orphans
  BY Zenon DEF Inv, updateIssuedCount, TypeOK, database, repair
<1> DEFINE All == {s \in DOMAIN stored :
                      WindowBegin(policy.total, now) <= stored[s] /\ stored[s] < now}
<1>2. counting' = [step |-> "counted", from |-> now, count |-> Cardinality(All)]
  BY Zenon DEF updateIssuedCount, CountCertificatesRange
<1>3. IsFiniteSet(All) /\ Cardinality(All) \in Nat
  <2>1. All \subseteq DOMAIN stored
    BY Zenon
  <2> HIDE DEF All
  <2> QED
    BY Zenon, <1>1, <2>1, Finite, FS_Subset, FS_CardinalityType
<1>4. StoredBy(now) \subseteq All \/ policy # scenario.policy
  BY Zenon DEF StoredBy, InOrder, total
<1> HIDE DEF All
<1>5. /\ counting' \in [step : {"idle", "counted"}, count : Nat, from : Nat]
      /\ counting'.step = "counted" /\ counting'.from = now /\ counting'.count = Cardinality(All)
  BY Zenon, <1>1, <1>2, <1>3
<1>6. TypeOK'
  BY Zenon, <1>1, <1>5 DEF TypeOK, database, repair, publishing, Serials, Logs
<1>7. Frame
  BY Zenon, <1>1, StaysFrame
<1>8. RequestInv' /\ SignedInv' /\ PolicyInv'
  BY Zenon, <1>1 DEF RequestInv, RequestOK, SignedInv, AuthorizedRecently, PolicyInv, Serials
<1>9. CountInv'
  BY Zenon, <1>1, <1>6, <1>7, CountKept
<1>10. CountingInv'
  <2> SUFFICES ASSUME policy' = scenario'.policy
               PROVE  /\ counting'.from <= now' /\ now' <= counting'.from + RPCTime
                      /\ Cardinality(StoredBy(counting.from)') <= counting'.count
    BY Zenon DEF CountingInv
  <2>1. StoredBy(counting.from)' = StoredBy(now)
    BY Zenon, <1>1, <1>5 DEF StoredBy, InOrder, total
  <2>2. StoredBy(now) \subseteq All
    BY Zenon, <1>1, <1>4
  <2> HIDE DEF StoredBy
  <2>3. Cardinality(StoredBy(now)) <= Cardinality(All)
    BY Zenon, <1>3, <2>2, FS_Subset
  <2>4. RPCTime \in Nat
    BY Zenon, TimesAssumption
  <2> QED
    BY <1>1, <1>5, <2>1, <2>3, <2>4
<1> QED
  BY Zenon, <1>1, <1>6, <1>7, <1>8, <1>9, <1>10, RestStep

\* The count is written down with the time of the answer.
LEMMA updateIssuedCountDoneInv == ASSUME Inv, updateIssuedCountDone PROVE Inv'
<1>1. /\ UNCHANGED <<now, scenario, policy, authz, request, signed, database, repair,
                     publishing>>
      /\ TypeOK /\ RequestInv /\ SignedInv /\ PolicyInv /\ CountingInv /\ CountInv
      /\ now \in Nat /\ counting.step = "counted"
      /\ counting' = [step |-> "idle", count |-> 0, from |-> 0]
      /\ stored' = stored /\ orphans' = orphans
  BY Zenon DEF Inv, updateIssuedCountDone, TypeOK, database, repair
<1>2. /\ counting' \in [step : {"idle", "counted"}, count : Nat, from : Nat]
      /\ counting'.step = "idle" /\ counting.count \in Nat /\ counting.from \in Nat
  BY Zenon, <1>1 DEF TypeOK
<1>3. \/ totalIssued' = totalIssued
      \/ totalIssued' = [count |-> counting.count, at |-> now]
  BY Zenon DEF updateIssuedCountDone
<1>4. totalIssued' \in [count : Nat, at : Nat \cup {Never}]
  BY <1>1, <1>2, <1>3 DEF TypeOK
<1>5. TypeOK'
  BY Zenon, <1>1, <1>2, <1>4 DEF TypeOK, database, repair, publishing, Serials, Logs
<1>6. Frame
  BY Zenon, <1>1, StaysFrame
<1>7. RequestInv' /\ SignedInv' /\ PolicyInv' /\ CountingInv'
  BY Zenon, <1>1, <1>2
  DEF RequestInv, RequestOK, SignedInv, AuthorizedRecently, PolicyInv, CountingInv, Serials
<1>8. CountInv'
  <2>1. CASE totalIssued' = totalIssued
    BY Zenon, <1>1, <1>5, <1>6, <2>1, CountKept
  <2>2. CASE totalIssued' = [count |-> counting.count, at |-> now]
    <3> SUFFICES ASSUME policy' = scenario'.policy
                 PROVE  /\ totalIssued'.at <= now'
                        /\ \E t \in totalIssued'.at - RPCTime .. totalIssued'.at :
                              Cardinality(StoredBy(t)') <= totalIssued'.count
      BY Zenon DEF CountInv
    <3>1. PICK f : f = counting.from
      BY Zenon
    <3>2. /\ f <= now /\ now <= f + RPCTime /\ f \in Nat /\ RPCTime \in Nat
          /\ Cardinality(StoredBy(f)) <= counting.count
      BY Zenon, <1>1, <1>2, <3>1, TimesAssumption DEF CountingInv
    <3>3. StoredBy(f)' = StoredBy(f)
      BY Zenon, <1>1 DEF StoredBy, InOrder, total
    <3>4. f \in now - RPCTime .. now
      BY <1>1, <3>2
    <3>5. totalIssued'.at = now /\ totalIssued'.count = counting.count
      BY Zenon, <2>2
    <3> HIDE DEF StoredBy
    <3>6. Cardinality(StoredBy(f)') <= totalIssued'.count
      BY Zenon, <3>2, <3>3, <3>5
    <3> QED
      BY <1>1, <3>4, <3>5, <3>6
  <2> QED
    BY Zenon, <1>3, <2>1, <2>2
<1> QED
  BY Zenon, <1>1, <1>5, <1>6, <1>7, <1>8, RestStep

\* As the clock ticks, the window that ends now is within the one before.
LEMMA TickInv == ASSUME Inv, Tick PROVE Inv'
<1>1. /\ UNCHANGED <<scenario, policy, authz, totalIssued, counting, request, signed, stored,
                     late, orphans, crashed, finder, submissions, receipts, updater>>
      /\ TypeOK /\ RequestInv /\ SignedInv /\ PolicyInv /\ CountingInv /\ CountInv
      /\ PassedInv /\ PerNameInv /\ RepairInv /\ Accounted
      /\ now \in Nat /\ now' = now + 1 /\ now' \in Nat
  BY DEF Inv, Tick, TypeOK, requests, database, repair, publishing
<1>2. Serials' = Serials /\ InOrder' = InOrder
  BY Zenon, <1>1 DEF Serials, InOrder
<1>3. TypeOK' /\ RepairInv' /\ PolicyInv' /\ Accounted'
  BY Zenon, <1>1 DEF TypeOK, Logs, Serials, RepairInv, PolicyInv, Accounted
<1>4. Frame
  <2> HIDE DEF Serials, InOrder
  <2> QED
    BY <1>1, <1>2 DEF Frame
<1>5. RequestInv'
  <2> SUFFICES ASSUME NEW v \in Workers PROVE RequestOK(v)'
    BY Zenon DEF RequestInv
  <2>1. RequestOK(v) /\ request[v].began \in Nat
    BY Zenon, <1>1, FieldTypes DEF RequestInv
  <2> HIDE DEF Serials
  <2>2. request' = request /\ scenario' = scenario /\ authz' = authz
    BY Zenon, <1>1
  <2>3. request[v].began <= now
    BY Zenon, <2>1 DEF RequestOK
  <2>4. request[v].began <= now'
    BY <1>1, <2>1, <2>3
  <2> QED
    BY Zenon, <1>2, <2>1, <2>2, <2>4 DEF RequestOK
<1>6. SignedInv'
  <2>1. \A s \in Serials : signed[s].at <= now' /\ signed[s].at <= now
    BY <1>1, FieldTypes DEF SignedInv
  <2>2. AuthorizedRecently'
    BY Zenon, <1>1 DEF SignedInv, AuthorizedRecently, Serials
  <2> QED
    BY Zenon, <1>1, <1>2, <2>1, <2>2 DEF SignedInv
<1>7. CountInv'
  BY Zenon, <1>1, <1>3, <1>4, CountKept
<1>8. CountingInv'
  <2>1. counting'.step = "counted" => counting' = counting /\ now' <= counting.from + RPCTime
    <3>1. counting.from \in Nat /\ RPCTime \in Nat
      BY Zenon, <1>1, TimesAssumption DEF TypeOK
    <3>2. counting.step = "counted" => now < counting.from + RPCTime
      BY Zenon DEF Tick
    <3> QED
      BY <1>1, <3>1, <3>2
  <2> QED
    BY Zenon, <1>1, <1>3, <1>4, <2>1, CountingKept
<1>9. PassedInv'
  <2>1. \A v \in Workers : request'[v].passed \in {request[v].passed, Never}
    BY Zenon, <1>1
  <2>2. \A s \in Serials' \ Serials : \E v \in Workers : signed'[s].passed = request[v].passed
    BY Zenon, <1>2
  <2> QED
    BY Zenon, <1>1, <1>3, <1>4, <2>1, <2>2, PassedKept
<1>10. PerNameInv'
  <2>1. ASSUME NEW d \in Domains, NEW t \in 0 .. now'
        PROVE  \E u \in 0 .. now : /\ Issued(d, t)' \subseteq Issued(d, u)
                                   /\ InFlight(d, t)' \subseteq InFlight(d, u)
    <3>1. PICK u \in 0 .. now : t = u \/ (t = now + 1 /\ u = now)
      BY <1>1
    <3>2. \A s \in Serials : InWindow(s, t)' => InWindow(s, u)
      <4> SUFFICES ASSUME NEW s \in Serials, InWindow(s, t)' PROVE InWindow(s, u)
        BY Zenon
      <4>1. perName' = perName /\ signed'[s] = signed[s]
        BY Zenon, <1>1 DEF perName
      <4>2. /\ signed[s].at \in Nat /\ signed[s].at <= now /\ perName.window \in Nat
            /\ Backdate \in Nat
        BY Zenon, <1>1, FieldTypes, PolicyTypes, TimesAssumption DEF SignedInv
      <4>3. t - perName.window + Backdate < signed[s].at /\ signed[s].at <= t
        BY Zenon, <4>1 DEF InWindow, WindowBegin
      <4>4. u - perName.window + Backdate < signed[s].at /\ signed[s].at <= u
        BY <1>1, <3>1, <4>2, <4>3
      <4> QED
        BY Zenon, <4>4 DEF InWindow, WindowBegin
    <3>3. \A s \in Serials : /\ FirstOfItsSet(s)' <=> FirstOfItsSet(s)
                             /\ For(signed[s].names, d)' <=> For(signed[s].names, d)
      BY Zenon, <1>1 DEF FirstOfItsSet, For, domainsForRateLimiting
    <3>4. Issued(d, t)' \subseteq Issued(d, u)
      <4>1. InOrder \subseteq Serials
        BY Zenon, <1>1, Finite DEF InOrder
      <4> HIDE DEF InOrder, InWindow, FirstOfItsSet, For, Serials
      <4> QED
        BY Zenon, <1>2, <3>2, <3>3, <4>1 DEF Issued
    <3>5. ASSUME NEW v \in Workers, Flying(request[v], d, t)' PROVE Flying(request[v], d, u)
      <4>1. CASE request[v].step \in {"fqdn", "authz", "sign"}
        <5>1. t = now + 1 /\ u = now
          BY <1>1, <3>1, <3>5, <4>1 DEF Flying
        <5> QED
          BY Zenon, <1>1, <3>5, <4>1, <5>1 DEF Flying, For, domainsForRateLimiting, FQDNSetExists
      <4>2. CASE request[v].step = "store"
        <5>1. PICK s : s = request[v].serial
          BY Zenon
        <5>2. s \in Serials
          BY Zenon, <1>1, <4>2, <5>1 DEF RequestInv, RequestOK
        <5>3. For(signed[s].names, d)' /\ FirstOfItsSet(s)' /\ InWindow(s, t)'
          BY Zenon, <1>1, <3>5, <4>2, <5>1
          DEF Flying, For, domainsForRateLimiting, FirstOfItsSet, InWindow
        <5>4. For(signed[s].names, d) /\ FirstOfItsSet(s) /\ InWindow(s, u)
          BY Zenon, <3>2, <3>3, <5>2, <5>3
        <5> QED
          BY Zenon, <4>2, <5>1, <5>4 DEF Flying
      <4> QED
        BY Zenon, <1>1, <3>5, <4>1, <4>2 DEF Flying
    <3>6. InFlight(d, t)' \subseteq InFlight(d, u)
      <4> HIDE DEF Flying
      <4> QED
        BY Zenon, <3>5 DEF InFlight
    <3> HIDE DEF Issued, InFlight
    <3> QED
      BY Zenon, <3>4, <3>6
  <2> HIDE DEF Issued, InFlight
  <2> QED
    BY Zenon, <1>1, <1>3, <1>4, <2>1, PerNameKept
<1> QED
  BY Zenon, <1>3, <1>5, <1>6, <1>7, <1>8, <1>9, <1>10 DEF Inv

-----------------------------------------------------------------------------
\* The invariant

\* It holds at the start, when nothing is signed and nobody asks.
LEMMA InitInv == Init => Inv
<1> SUFFICES ASSUME Init PROVE Inv
  BY Zenon
<1>1. /\ now = 0 /\ scenario \in ScenarioRecords /\ policy = scenario.policy
      /\ policy \in Policies /\ authz \in [Names -> Nat]
  BY Zenon, ScenariosAssumption DEF Init, ScenarioRecords
<1>2. /\ totalIssued = [count |-> 0, at |-> Never]
      /\ counting = [step |-> "idle", count |-> 0, from |-> 0]
      /\ signed = <<>> /\ DOMAIN stored = {} /\ late = {} /\ orphans = {} /\ crashed = {}
      /\ finder = 0 /\ submissions = {} /\ receipts = {} /\ updater = {}
  BY Zenon DEF Init
<1>3. /\ request \in [Workers -> Requests] /\ \A w \in Workers : request[w] = Idle
  BY Zenon, IdleRequest DEF Init
<1>4. signed \in Seq(Certificates) /\ Serials = {}
  BY <1>2, EmptySeq DEF Serials
<1>5. stored \in [DOMAIN stored -> Nat]
  BY Zenon DEF Init
<1>6. TypeOK
  BY Zenon, <1>1, <1>2, <1>3, <1>4, <1>5 DEF TypeOK
<1>7. RequestInv
  BY <1>1, <1>3, IdleRequest DEF RequestInv, RequestOK
<1>8. RepairInv /\ SignedInv /\ Accounted /\ PolicyInv /\ CountingInv /\ CountInv
  BY Zenon, <1>1, <1>2, <1>4
  DEF RepairInv, SignedInv, AuthorizedRecently, Accounted, PolicyInv, CountingInv, CountInv
<1>9. PassedInv
  BY Zenon, <1>3, <1>4, IdleRequest DEF PassedInv, BelowRecently
<1>10. PerNameInv
  <2> SUFFICES ASSUME NEW d \in Domains, NEW t \in 0 .. now
               PROVE  Cardinality(Issued(d, t)) + Cardinality(InFlight(d, t))
                          <= Threshold(d) + Cardinality(scenario.workers) - 1
    BY Zenon DEF PerNameInv
  <2>1. Issued(d, t) = {}
    BY Zenon, <1>2 DEF Issued, InOrder
  <2>2. InFlight(d, t) = {}
    BY Zenon, <1>3, IdleRequest DEF InFlight, Flying
  <2>3. Cardinality(Issued(d, t)) = 0 /\ Cardinality(InFlight(d, t)) = 0
    BY Zenon, <2>1, <2>2, FS_EmptySet
  <2>4. /\ Threshold(d) \in Nat /\ Cardinality(scenario.workers) \in Nat
        /\ Cardinality(scenario.workers) >= 1
    BY Zenon, <1>6, PolicyTypes, Finite
  <2> HIDE DEF Issued, InFlight, Threshold
  <2> QED
    BY <2>3, <2>4
<1> QED
  BY Zenon, <1>6, <1>7, <1>8, <1>9, <1>10 DEF Inv

\* Every step of a request keeps the invariant.
LEMMA RequestInvs ==
    ASSUME Inv, NEW w \in Workers,
           \/ \E names \in scenario.requests : NewCertificate(w, names)
           \/ Abandon(w) \/ checkTotalCertificatesLimit(w)
           \/ checkCertificatesPerNameLimit(w) \/ RenewalBypass(w)
           \/ checkCertificatesPerFQDNSetLimit(w) \/ checkAuthorizations(w)
           \/ IssueCertificate(w) \/ StoreSucceeds(w) \/ StoreFails(w) \/ CACrash(w)
    PROVE  Inv'
BY Zenon, NewCertificateInv, AbandonInv, checkTotalCertificatesLimitInv,
   checkCertificatesPerNameLimitInv, RenewalBypassInv, checkCertificatesPerFQDNSetLimitInv,
   checkAuthorizationsInv, IssueCertificateInv, StoreSucceedsInv, StoreFailsInv, CACrashInv

\* So does every step.
LEMMA NextInv == ASSUME Inv, [Next]_vars PROVE Inv'
<1>1. CASE UNCHANGED vars
  <2>1. UNCHANGED <<now, scenario, policy, authz, requests, signed, database, repair>>
        /\ UNCHANGED <<submissions, receipts, updater>> /\ TypeOK
    BY Zenon, <1>1 DEF vars, publishing, Inv
  <2>2. updater' \subseteq Serials /\ submissions' \cup receipts' \subseteq Serials \X Logs
    BY Zenon, <2>1 DEF TypeOK
  <2> QED
    BY Zenon, <2>1, <2>2, PublishingInv
<1>2. CASE \E p \in scenario.reloads : LoadPolicies(p)
  BY Zenon, <1>2, LoadPoliciesInv
<1>3. CASE \E n \in Names : LoseAuthorization(n)
  BY Zenon, <1>3, LoseAuthorizationInv
<1>4. CASE updateIssuedCount \/ updateIssuedCountDone
  BY Zenon, <1>4, updateIssuedCountInv, updateIssuedCountDoneInv
<1>5. CASE \E w \in Workers :
               \/ \E names \in scenario.requests : NewCertificate(w, names)
               \/ Abandon(w) \/ checkTotalCertificatesLimit(w)
               \/ checkCertificatesPerNameLimit(w) \/ RenewalBypass(w)
               \/ checkCertificatesPerFQDNSetLimit(w) \/ checkAuthorizations(w)
               \/ IssueCertificate(w) \/ StoreSucceeds(w) \/ StoreFails(w) \/ CACrash(w)
  BY Zenon, <1>5, RequestInvs
<1>6. CASE \E s \in Serials : checkDER(s) \/ \E at \in 0 .. now : LateStore(s, at)
  BY Zenon, <1>6, checkDERInv, LateStoreInv
<1>7. CASE parseLogLine
  BY Zenon, <1>7, parseLogLineInv
<1>8. CASE \/ \E s \in Serials, l \in Logs : SubmitToSingleCT(s, l)
           \/ PublisherCrash \/ missingReceiptsTick
           \/ \E s \in Serials : Resubmit(s)
  BY Zenon, <1>8, PublishInv
<1>9. CASE Tick
  BY Zenon, <1>9, TickInv
<1> QED
  BY Zenon, <1>1, <1>2, <1>3, <1>4, <1>5, <1>6, <1>7, <1>8, <1>9 DEF Next

\* The inductive invariant holds in every behaviour.
THEOREM Invariance == Spec => []Inv
<1>1. Init => Inv
  BY Zenon, InitInv
<1>2. Inv /\ [Next]_vars => Inv'
  BY Zenon, NextInv
<1> QED
  BY <1>1, <1>2, PTL DEF Spec

-----------------------------------------------------------------------------
\* The theorems

\* The RA's, the CA's and the tools' state has the types of the code.
THEOREM TypeCorrectness == Spec => []TypeOK
<1>1. Inv => TypeOK
  BY Zenon DEF Inv
<1> QED
  BY <1>1, Invariance, PTL

\* Each name of a certificate was authorized at most a request's duration
\* before the CA signed it (checkAuthorizations, IssueCertificate).
THEOREM SignedWhenAuthorized == Spec => []AuthorizedRecently
<1>1. Inv => AuthorizedRecently
  BY Zenon DEF Inv, SignedInv
<1> QED
  BY <1>1, Invariance, PTL

\* Whatever fails, a signed certificate is about to be stored, stored or logged
\* as an orphan, unless the CA died (IssueCertificate's error path).
THEOREM NoneLost == Spec => []Accounted
<1>1. Inv => Accounted
  BY Zenon DEF Inv
<1> QED
  BY <1>1, Invariance, PTL

\* checkCertificatesPerNameLimit bounds the certificates of every window by the
\* threshold and the other requests in progress, for any policy and any number
\* of requests.
THEOREM PerNameIsBounded == Spec => []PerNameBounded
<1>1. ASSUME Inv PROVE PerNameBounded
  <2> SUFFICES ASSUME policy = scenario.policy, Enabled(policy.perName),
                      NEW d \in {Base(n) : n \in Names}, NEW t \in 0 .. now
               PROVE  SignedWithin({s \in InOrder :
                                       /\ d \in domainsForRateLimiting(signed[s].names)
                                       /\ FirstOfItsSet(s)}, policy.perName, t)
                         <= GetThreshold(policy.perName, d, 1)
                                + Cardinality(scenario.workers) - 1
    BY Zenon DEF PerNameBounded
  <2>1. TypeOK /\ RequestInv /\ PerNameInv /\ policy.perName = perName /\ d \in Domains
    BY Zenon, <1>1 DEF Inv, perName, Domains
  <2>2. Cardinality(Issued(d, t)) + Cardinality(InFlight(d, t))
            <= Threshold(d) + Cardinality(scenario.workers) - 1
    BY Zenon, <2>1 DEF PerNameInv
  <2>3. Issued(d, t) = {s \in {s \in InOrder : /\ d \in domainsForRateLimiting(signed[s].names)
                                               /\ FirstOfItsSet(s)} :
                           /\ WindowBegin(policy.perName, t) + Backdate < signed[s].at
                           /\ signed[s].at <= t}
    BY Zenon, <2>1 DEF Issued, For, InWindow
  <2>4. Cardinality(Issued(d, t)) \in Nat /\ Cardinality(InFlight(d, t)) \in Nat
    BY Zenon, <2>1, WindowSizes
  <2>5. /\ Threshold(d) \in Nat /\ Cardinality(scenario.workers) \in Nat
        /\ Threshold(d) = GetThreshold(policy.perName, d, 1)
    BY Zenon, <2>1, PolicyTypes, Finite DEF Threshold
  <2>6. Cardinality(Issued(d, t)) <= Threshold(d) + Cardinality(scenario.workers) - 1
    <3> HIDE DEF Issued, InFlight, Threshold
    <3> QED
      BY <2>2, <2>4, <2>5
  <2> QED
    BY Zenon, <2>3, <2>5, <2>6 DEF SignedWithin
<1> QED
  BY <1>1, Invariance, PTL

\* checkTotalCertificatesLimit lets pass only who finds the total below its
\* limit at most StaleAfter and a call's time ago.
THEOREM TotalWasBelow == Spec => []TotalRecentlyBelow
<1>1. ASSUME Inv PROVE TotalRecentlyBelow
  <2> SUFFICES ASSUME policy = scenario.policy, NEW s \in Serials, signed[s].passed # Never
               PROVE  \E t \in signed[s].passed - StaleAfter - RPCTime .. signed[s].passed :
                         Cardinality({x \in InOrder :
                                         /\ WindowBegin(policy.total, t) <= stored[x]
                                         /\ stored[x] < t}) < policy.total.threshold
    BY Zenon DEF TotalRecentlyBelow
  <2>1. BelowRecently(signed[s].passed) /\ policy.total = total
    BY Zenon, <1>1 DEF Inv, PassedInv, total
  <2> QED
    BY Zenon, <2>1 DEF BelowRecently, StoredBy
<1> QED
  BY <1>1, Invariance, PTL
=============================================================================
