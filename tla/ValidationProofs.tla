-------------------------- MODULE ValidationProofs --------------------------
(***************************************************************************)
(* For any world that answers, any number of labels, redirects, tries and  *)
(* proxies: the verdict of PerformValidation is exact, the closest CAA     *)
(* records decide, every dialled address is the recorded one, and the      *)
(* distributed lookup returns what the proxies agree on.                   *)
(***************************************************************************)
EXTENDS Validation, FiniteSetTheorems, SequenceTheorems, WellFoundedInduction, TLAPS

Queries == {"A", "AAAA", "TXT"}

Stages == {"start", "resolve", "txt", "dial", "respond", "wait", "done"}

\* An exchange whose server answers one of outcomes.
Exchanges(outcomes) ==
    [tries : Nat, outcome : outcomes \cup {Outcome("pending"), Outcome("cancelled")}]

ValidationRecords ==
    [url : BOOLEAN, used : Public \cup {None}, resolved : Seq(Public),
     port : {None, "80", "443", "8080"}]

\* What a proxy may send to the channel, and the record sets in it.
Replies == scenario.answers \cup {LookupError}

RecordSets == {o.records : o \in Replies}

\* The records LookupCAA keeps while it collects, and what it returns.
Kept == {<<>>} \cup {<<s>> : s \in RecordSets}

Returned == {<<>>, <<LookupError>>} \cup {<<Found(s)>> : s \in RecordSets}

Lookups ==
    [sent : SUBSET Proxies, channel : Seq(Replies), heard : Seq(Replies), failed : Nat,
     CAAs : Kept, result : Returned]

\* The values of the variables of the challenge's goroutine, and of the CAA
\* goroutine's.
ChallengeTypes ==
    /\ stage \in Stages
    /\ DOMAIN lookups = Queries
    /\ \A q \in Queries : lookups[q] \in Exchanges(scenario.dns[q])
    /\ records \in Seq(ValidationRecords)
    /\ dial \in Public \cup {None}
    /\ contacted \in Seq(Public)

CAATypes ==
    /\ caa \in [Labels -> Exchanges(scenario.caa)]
    /\ caaStage \in {"lookup", "gpdns", "report", "ended"}
    /\ gpdns \in [Labels -> Lookups]

TypeOK == scenario \in Scenarios /\ done \in BOOLEAN /\ ChallengeTypes /\ CAATypes

\* A hop that was resolved.
Complete(r) ==
    /\ r.port # None /\ r.used \in Public
    /\ r.resolved # <<>> /\ r.resolved[1] = r.used

\* The records of the hops that were dialled are complete, and only the hop
\* that is being resolved is not.
RecordsInv ==
    /\ Len(contacted) <= Len(records)
    /\ \A i \in DOMAIN contacted : Complete(records[i]) /\ contacted[i] = records[i].used
    /\ \A i \in DOMAIN records : records[i].url <=> scenario.type = "http-01"
    /\ scenario.type # "http-01" => Len(records) <= 1
    /\ stage \in {"start", "txt"} => records = <<>>
    /\ stage = "txt" => scenario.type = "dns-01"
    /\ stage \in {"resolve", "dial", "respond"} =>
         scenario.type \in {"http-01", "tls-sni-01", "tls-sni-02"}
    /\ stage \in {"resolve", "dial"} => Len(records) = Len(contacted) + 1
    /\ stage = "dial" => Complete(records[Len(records)]) /\ dial = records[Len(records)].used
    /\ stage = "respond" => records # <<>> /\ Len(records) = Len(contacted)

\* One label of the distributed lookup while it is undecided: what the
\* collecting loop has kept of the results it has heard.
Undecided(g) ==
    /\ g.failed <= maxFailures
    /\ g.CAAs = <<>> <=> Good(g) = {}
    /\ \A k \in Good(g) : g.heard[k].records = g.CAAs[1]
    /\ \A j \in Good(g), k \in DOMAIN g.heard : g.heard[k].err /\ j < k => g.CAAs[1] = {}

\* What it has counted.
Tally(g) ==
    /\ g.failed = Cardinality(DOMAIN g.heard \ Good(g))
    /\ g.result = <<>> => Undecided(g)

\* The local check found a problem.
Refused == CAAProblem(parseResults(LocalResults)) = "connection"

\* Nobody asks the proxies before the local check has found a problem.
CAAInv ==
    /\ caaStage = "gpdns" => Refused
    /\ \A i \in Labels : gpdns[i].sent # {} => Refused /\ caaStage # "lookup"
    /\ \A i \in Labels : gpdns[i].result # <<>> => Refused /\ caaStage # "lookup"
    /\ \A i \in Labels : Tally(gpdns[i])

\* What the answer, the problem and the channel say at each stage.
VerdictInv ==
    /\ stage \notin {"wait", "done"} => ~ Proven /\ problem = None
    /\ stage = "wait" => Proven /\ problem = None /\ RecordsSane
    /\ stage = "done" /\ Proven => caaStage = "ended"
    /\ ch = <<>> \/ (ch = <<CAAVerdict>> /\ caaStage = "ended")

Inv ==
    TypeOK /\ RecordsInv /\ CAAInv /\ QuorumAgrees /\ VerdictInv /\ VerdictExact

-----------------------------------------------------------------------------
(***************************************************************************)
(* Operators.                                                              *)
(***************************************************************************)
\* A nonempty set of natural numbers has a least element, and Min finds it.
LEMMA MinFacts ==
    ASSUME NEW S \in SUBSET Nat, S # {}
    PROVE  Min(S) \in S /\ \A y \in S : Min(S) <= y
<1>1. PICK x \in S : \A y \in S : ~ (<<y, x>> \in OpToRel(<, Nat))
  BY Zenon, NatLessThanWellFounded, WFMin
<1>2. ASSUME NEW y \in S PROVE x <= y
  <2>1. y \in Nat /\ x \in Nat
    BY Zenon
  <2>2. ~ (y < x)
    BY <1>1, <2>1, Zenon DEF OpToRel
  <2> QED
    BY <2>1, <2>2
<1> QED
  BY Zenon, <1>2 DEF Min

\* Every rank up to the size of a set of positions is the rank of one of them:
\* the number of members up to m grows by at most one with m.
LEMMA Ranks ==
    ASSUME NEW n \in Nat, NEW S \in SUBSET (1 .. n), NEW k \in 1 .. Cardinality(S)
    PROVE  \E i \in S : Cardinality({j \in S : j <= i}) = k
<1> DEFINE Upto(m) == {j \in S : j <= m}
           R(m) == Cardinality(Upto(m))
           M == {m \in Nat : m <= n /\ R(m) >= k}
<1>0. \A j \in S : j \in Nat /\ 1 <= j /\ j <= n
  OBVIOUS
<1>1. IsFiniteSet(S)
  <2>0. 1 \in Int /\ n \in Int
    OBVIOUS
  <2>1. IsFiniteSet(1 .. n)
    BY Zenon, <2>0, FS_Interval
  <2> QED
    BY <2>1, FS_Subset, Zenon
<1>2. ASSUME NEW m \in Nat PROVE IsFiniteSet(Upto(m)) /\ R(m) \in Nat
  <2>1. Upto(m) \subseteq S
    BY Zenon
  <2> QED
    BY <1>1, <2>1, FS_Subset, FS_CardinalityType, Zenon
<1>3. Upto(n) = S
  BY Zenon, <1>0
<1>4. n \in M
  BY <1>2, <1>3
<1>5. M \in SUBSET Nat
  BY Zenon
<1>6. PICK m : m \in M /\ \A y \in M : m <= y
  <2> HIDE DEF M
  <2> QED
    BY <1>4, <1>5, MinFacts, Zenon
<1>7. m \in Nat /\ m <= n /\ R(m) >= k
  BY Zenon, <1>6
<1>8. m # 0
  <2> SUFFICES ASSUME m = 0 PROVE FALSE
    BY Zenon
  <2>0. \A j \in S : ~ (j <= m)
    BY <1>0
  <2>1. Upto(m) = {}
    BY <2>0, Zenon
  <2>2. R(m) = 0
    BY <2>1, FS_EmptySet, Zenon
  <2> QED
    BY <1>7, <2>2
<1>9. m - 1 \in Nat /\ m - 1 <= n /\ m - 1 \notin M
  <2>1. m - 1 \in Nat /\ m - 1 <= n /\ ~ (m <= m - 1)
    BY <1>7, <1>8
  <2> HIDE DEF M
  <2> QED
    BY Zenon, <1>6, <2>1
<1>10. R(m - 1) < k
  <2>1. ~ (R(m - 1) >= k) /\ R(m - 1) \in Nat
    BY Zenon, <1>2, <1>9
  <2> HIDE DEF R
  <2> QED
    BY <2>1
<1>11. CASE m \in S
  <2>0. ~ (m <= m - 1) /\ m <= m /\ \A j \in S : j <= m <=> j <= m - 1 \/ j = m
    BY <1>0, <1>7
  <2>1. Upto(m) = Upto(m - 1) \cup {m} /\ m \notin Upto(m - 1)
    BY <1>11, <2>0, Zenon
  <2>2. R(m) = R(m - 1) + 1
    <3> HIDE DEF Upto
    <3> QED
      BY <1>2, <1>9, <2>1, FS_AddElement, Zenon
  <2>3. R(m) = k
    <3> DEFINE r == R(m)  q == R(m - 1)
    <3>1. r \in Nat /\ q \in Nat /\ r >= k /\ q < k /\ r = q + 1
      BY Zenon, <1>2, <1>7, <1>9, <1>10, <2>2
    <3> HIDE DEF r, q
    <3>2. r = k
      BY <3>1
    <3> QED
      BY Zenon, <3>2 DEF r
  <2> QED
    BY Zenon, <1>11, <2>3
<1>12. CASE m \notin S
  <2>0. \A j \in S : j <= m <=> j <= m - 1 \/ j = m
    BY <1>0, <1>7
  <2>1. Upto(m) = Upto(m - 1)
    BY <1>12, <2>0, Zenon
  <2>2. R(m) = R(m - 1)
    BY Zenon, <2>1
  <2>3. R(m - 1) \in Nat
    BY Zenon, <1>2, <1>9
  <2> QED
    BY <1>7, <1>10, <2>2, <2>3
<1> QED
  BY Zenon, <1>11, <1>12

\* LookupHost keeps public addresses only.
LEMMA PublicOnlyType == ASSUME NEW v \in Seq(STRING) PROVE PublicOnly(v) \in Seq(Public)
<1> DEFINE kept == {i \in DOMAIN v : v[i] \in Public}
           at(n) == CHOOSE i \in kept : Cardinality({j \in kept : j <= i}) = n
<1>1. Len(v) \in Nat /\ kept \in SUBSET (1 .. Len(v))
  BY Zenon, LenProperties
<1>2. IsFiniteSet(kept) /\ Cardinality(kept) \in Nat
  <2> HIDE DEF kept
  <2>0. 1 \in Int /\ Len(v) \in Int
    BY <1>1
  <2>1. IsFiniteSet(1 .. Len(v))
    BY Zenon, <2>0, FS_Interval
  <2> QED
    BY <1>1, <2>1, FS_Subset, FS_CardinalityType, Zenon
<1>3. ASSUME NEW n \in 1 .. Cardinality(kept) PROVE at(n) \in kept
  <2> HIDE DEF kept
  <2>1. \E i \in kept : Cardinality({j \in kept : j <= i}) = n
    BY <1>1, Ranks, Zenon
  <2> QED
    BY <2>1, Zenon
<1>4. \A n \in 1 .. Cardinality(kept) : v[at(n)] \in Public
  BY <1>3, Zenon
<1>5. PublicOnly(v) = [n \in 1 .. Cardinality(kept) |-> v[at(n)]]
  BY Zenon DEF PublicOnly
<1> HIDE DEF kept, at
<1> QED
  BY <1>2, <1>4, <1>5, IsASeq

\* The value of an answered exchange is a list.
LEMMA AnsweredValue ==
    ASSUME scenario \in Scenarios, NEW q \in Queries, NEW x \in Exchanges(scenario.dns[q]),
           Answered(x)
    PROVE  x.outcome \in scenario.dns[q] /\ x.outcome.value \in Seq(STRING)
<1>1. x.outcome \in scenario.dns[q] \cup {Outcome("pending"), Outcome("cancelled")}
  BY Zenon DEF Exchanges
<1>2. x.outcome.kind = "answer"
  BY Zenon DEF Answered
<1>3. x.outcome \in scenario.dns[q]
  BY <1>1, <1>2 DEF Outcome
<1> QED
  BY Zenon, <1>2, <1>3, ScenariosAssumption DEF Queries

\* LookupHost returns public addresses.
LEMMA HostType ==
    ASSUME scenario \in Scenarios, ChallengeTypes
    PROVE  LookupHost(lookups["A"], lookups["AAAA"]).addrs \in Seq(Public)
<1> DEFINE addresses(x) == IF Answered(x) THEN PublicOnly(x.outcome.value) ELSE <<>>
<1>1. ASSUME NEW q \in Queries PROVE addresses(lookups[q]) \in Seq(Public)
  <2>1. lookups[q] \in Exchanges(scenario.dns[q])
    BY Zenon DEF ChallengeTypes
  <2>2. CASE Answered(lookups[q])
    <3>1. PublicOnly(lookups[q].outcome.value) \in Seq(Public)
      BY <2>1, <2>2, AnsweredValue, PublicOnlyType, Zenon
    <3> QED
      BY <2>2, <3>1, Zenon
  <2>3. CASE ~ Answered(lookups[q])
    BY <2>3
  <2> QED
    BY Zenon, <2>2, <2>3
<1>2. LookupHost(lookups["A"], lookups["AAAA"]).addrs
        = addresses(lookups["A"]) \o addresses(lookups["AAAA"])
  BY Zenon DEF LookupHost
<1>3. addresses(lookups["A"]) \in Seq(Public) /\ addresses(lookups["AAAA"]) \in Seq(Public)
  BY Zenon, <1>1 DEF Queries
<1> HIDE DEF addresses
<1> QED
  BY Zenon, <1>2, <1>3, ConcatProperties

\* A result of a lookup.
Result(r) == r = LookupError \/ r = Found(r.records)

\* No records at all let this CA issue.
LEMMA NoRecords == validateCAASet({}) /\ CAAProblem(Found({})) = None
<1>1. validateCAASet({})
  BY Zenon DEF validateCAASet
<1> QED
  BY Zenon, <1>1 DEF CAAProblem, Found

\* parseResults, which picks one of the results of all the parallel lookups,
\* agrees with a climb from the name that stops at the first records or error.
LEMMA ClimbDecides ==
    ASSUME NEW n \in Nat, NEW results, results = [i \in 1 .. n |-> results[i]],
           \A i \in 1 .. n : Result(results[i])
    PROVE  CAAProblem(parseResults(results)) = None <=> Permits(results)
<1> DEFINE decisive == {i \in DOMAIN results : results[i].err \/ results[i].records # {}}
<1>1. DOMAIN results = 1 .. n /\ Len(results) = n
  <2>1. results \in [1 .. n -> {results[i] : i \in 1 .. n}]
    BY Zenon
  <2>2. results \in Seq({results[i] : i \in 1 .. n})
    BY Zenon, <2>1, SeqDef
  <2>3. DOMAIN results = 1 .. n
    BY Zenon, <2>1
  <2>4. Len(results) \in Nat /\ DOMAIN results = 1 .. Len(results)
    BY Zenon, <2>2, LenProperties
  <2> QED
    BY <2>3, <2>4
<1>2. ASSUME NEW i \in 1 .. n PROVE i \notin decisive <=> results[i] = Found({})
  <2>1. results[i] = LookupError \/ results[i] = Found(results[i].records)
    BY Zenon DEF Result
  <2> QED
    BY <1>1, <2>1 DEF LookupError, Found
<1>3. CASE decisive = {}
  <2>1. parseResults(results) = Found({})
    BY Zenon, <1>3 DEF parseResults
  <2>2. \A i \in 1 .. n : results[i] = Found({})
    BY Zenon, <1>2, <1>3
  <2>3. n \in 0 .. Len(results)
    BY <1>1
  <2>4. Permits(results)
    BY Zenon, <1>1, <2>2, <2>3 DEF Permits
  <2> QED
    BY Zenon, <2>1, <2>4, NoRecords
<1>4. CASE decisive # {}
  <2> DEFINE k == Min(decisive)
  <2>1. decisive \in SUBSET Nat
    BY <1>1
  <2>2. k \in decisive /\ \A y \in decisive : k <= y
    <3> HIDE DEF decisive
    <3> QED
      BY <1>4, <2>1, MinFacts, Zenon
  <2>3. parseResults(results) = results[k]
    BY <1>4, Zenon DEF parseResults
  <2> HIDE DEF k
  <2>4. k \in 1 .. n
    BY Zenon, <1>1, <2>2
  <2>5. \A i \in 1 .. k - 1 : results[i] = Found({})
    <3> SUFFICES ASSUME NEW i \in 1 .. k - 1 PROVE results[i] = Found({})
      BY Zenon
    <3>1. i \in 1 .. n /\ ~ (k <= i)
      BY <2>4
    <3> HIDE DEF decisive
    <3> QED
      BY Zenon, <1>2, <2>2, <3>1
  <2>6. results[k] # Found({})
    <3> HIDE DEF decisive
    <3> QED
      BY Zenon, <1>2, <2>2, <2>4
  <2> DEFINE Allowed == ~ results[k].err /\ results[k].records # {}
                        /\ validateCAASet(results[k].records)
  <2>7. results[k] = LookupError \/ results[k] = Found(results[k].records)
    BY Zenon, <2>4 DEF Result
  <2>8. CAAProblem(results[k]) = None <=> Allowed
    <3>1. CASE results[k] = LookupError
      <4>1. results[k].err
        BY <3>1 DEF LookupError
      <4> QED
        BY Zenon, <4>1 DEF CAAProblem, None
    <3>2. CASE results[k] = Found(results[k].records)
      <4>0. PICK R : results[k] = Found(R)
        BY <3>2, Zenon
      <4>1. ~ results[k].err /\ results[k].records # {}
        <5>1. results[k].err = FALSE /\ results[k].records = R
          BY <4>0 DEF Found
        <5> QED
          BY <2>6, <3>2, <5>1, Zenon
      <4> QED
        BY Zenon, <4>1 DEF CAAProblem, None
    <3> QED
      BY Zenon, <2>7, <3>1, <3>2
  <2>9. ASSUME Allowed PROVE Permits(results)
    <3>1. k - 1 \in 0 .. Len(results) /\ (k - 1) + 1 = k
      BY <1>1, <2>4
    <3> HIDE DEF Allowed
    <3>2. /\ \A i \in 1 .. (k - 1) : results[i] = Found({})
          /\ \/ k - 1 = Len(results)
             \/ ~ results[(k - 1) + 1].err /\ results[(k - 1) + 1].records # {}
                /\ validateCAASet(results[(k - 1) + 1].records)
      BY Zenon, <2>5, <2>9, <3>1 DEF Allowed
    <3> QED
      BY <3>1, <3>2, Zenon DEF Permits
  <2>10. ASSUME Permits(results) PROVE Allowed
    <3>1. PICK m \in 0 .. Len(results) :
            /\ \A i \in 1 .. m : results[i] = Found({})
            /\ \/ m = Len(results)
               \/ ~ results[m + 1].err /\ results[m + 1].records # {}
                  /\ validateCAASet(results[m + 1].records)
      BY <2>10, Zenon DEF Permits
    <3>2. m \in Nat /\ m <= n /\ ~ (k <= m)
      <4>1. m \in Nat /\ m <= n
        BY <1>1
      <4>2. k <= m => k \in 1 .. m
        BY <2>4, <4>1
      <4> QED
        BY Zenon, <2>6, <3>1, <4>1, <4>2
    <3>3. m + 1 \in 1 .. n /\ m # Len(results)
      BY <1>1, <2>4, <3>2
    <3>4. m + 1 \in decisive
      BY Zenon, <1>1, <3>1, <3>3
    <3>5. k <= m + 1
      <4> HIDE DEF decisive
      <4> QED
        BY Zenon, <2>2, <3>4
    <3>6. k = m + 1
      BY <2>4, <3>2, <3>5
    <3> QED
      BY Zenon, <3>1, <3>3, <3>6
  <2> QED
    BY Zenon, <2>3, <2>8, <2>9, <2>10
<1> QED
  BY Zenon, <1>3, <1>4

-----------------------------------------------------------------------------
(***************************************************************************)
(* What a step leaves alone.                                               *)
(***************************************************************************)
\* A name has a label.
LEMMA LabelsFacts ==
    ASSUME scenario \in Scenarios
    PROVE  Labels = 1 .. scenario.labels /\ scenario.labels \in Nat \ {0} /\ 1 \in Labels
<1>1. scenario.labels \in Nat \ {0}
  BY ScenariosAssumption, Zenon
<1> QED
  BY <1>1 DEF Labels

\* The sets that depend on the scenario only.
LEMMA SameScenario ==
    ASSUME scenario' = scenario
    PROVE  Labels' = Labels /\ Lookups' = Lookups /\ Replies' = Replies
<1>1. Labels' = Labels /\ Replies' = Replies
  BY Zenon DEF Labels, Replies
<1> QED
  BY Zenon, <1>1 DEF Lookups, Kept, Returned, RecordSets

\* The verdict depends on the local exchanges and on the results of the
\* distributed lookups.
LEMMA SameVerdict ==
    ASSUME scenario' = scenario, caa' = caa,
           \A i \in Labels : gpdns'[i].result = gpdns[i].result
    PROVE  /\ LocalResults' = LocalResults /\ GPDNSResults' = GPDNSResults
           /\ (Refused' <=> Refused)
           /\ CAAVerdict' = CAAVerdict
<1>1. Labels' = Labels
  BY Zenon, SameScenario
<1>2. LocalResults' = LocalResults
  BY Zenon, <1>1 DEF LocalResults, LookupCAA
<1>3. GPDNSResults' = GPDNSResults
  BY Zenon, <1>1 DEF GPDNSResults
<1>4. Refused' <=> Refused
  BY Zenon, <1>2 DEF Refused
<1>5. (\A i \in Labels' : gpdns'[i].result # <<>>) <=> (\A i \in Labels : gpdns[i].result # <<>>)
  BY Zenon, <1>1
<1> QED
  BY Zenon, <1>2, <1>3, <1>4, <1>5 DEF CAAVerdict

\* The verdict is None or a problem.
LEMMA VerdictValue ==
    /\ CAAVerdict \in {None, "connection"}
    /\ ~ Refused => CAAProblem(parseResults(LocalResults)) = None
  BY Zenon DEF CAAVerdict, CAAProblem, Refused

\* A step that leaves the CAA goroutine alone keeps what is known about it.
LEMMA CAAFrame ==
    ASSUME Inv, scenario' = scenario, caa' = caa, caaStage' = caaStage, gpdns' = gpdns
    PROVE  CAATypes' /\ CAAInv' /\ QuorumAgrees' /\ CAAVerdict' = CAAVerdict
<1>1. Labels' = Labels /\ Lookups' = Lookups
  BY Zenon, SameScenario
<1>2. (Refused' <=> Refused) /\ CAAVerdict' = CAAVerdict
  BY Zenon, SameVerdict
<1>3. CAATypes'
  BY Zenon, <1>1 DEF Inv, TypeOK, CAATypes
<1>4. CAAInv'
  BY Zenon, <1>1, <1>2 DEF Inv, CAAInv
<1>5. QuorumAgrees'
  BY Zenon, <1>1 DEF Inv, QuorumAgrees
<1> QED
  BY Zenon, <1>2, <1>3, <1>4, <1>5

\* A step that changes neither the goroutines' places nor what they found.
LEMMA QuietStep ==
    ASSUME Inv, ChallengeTypes', done' \in BOOLEAN, UNCHANGED caaVars,
           UNCHANGED <<scenario, stage, records, dial, contacted, answer, problem, ch>>
    PROVE  Inv'
<1>0. /\ scenario' = scenario /\ caa' = caa /\ caaStage' = caaStage /\ gpdns' = gpdns
      /\ ch' = ch
  BY Zenon DEF caaVars
<1>1. CAATypes' /\ CAAInv' /\ QuorumAgrees' /\ CAAVerdict' = CAAVerdict
  BY Zenon, <1>0, CAAFrame
<1>2. TypeOK'
  BY Zenon, <1>0, <1>1 DEF Inv, TypeOK
<1>3. RecordsInv'
  BY Zenon, <1>0 DEF Inv, RecordsInv
<1>4. (Proven' <=> Proven) /\ (RecordsSane' <=> RecordsSane)
  BY Zenon DEF Proven, RecordsSane
<1>5. VerdictInv' /\ VerdictExact'
  BY Zenon, <1>0, <1>1, <1>4 DEF Inv, VerdictInv, VerdictExact
<1> QED
  BY Zenon, <1>1, <1>2, <1>3, <1>5 DEF Inv

\* A step of the challenge's goroutine before its verdict, which goes on, ends
\* in a problem without a proof, or ends with a proof.
LEMMA ChallengeStep ==
    ASSUME Inv, UNCHANGED <<scenario, caaVars, ch, done>>, ChallengeTypes', RecordsInv',
           stage \notin {"wait", "done"},
           \/ stage' \notin {"wait", "done"} /\ answer' = answer /\ problem' = problem
           \/ stage' = "done" /\ problem' # None /\ ~ Proven'
           \/ stage' = "wait" /\ problem' = problem /\ Proven' /\ RecordsSane'
    PROVE  Inv'
<1>0. /\ scenario' = scenario /\ caa' = caa /\ caaStage' = caaStage /\ gpdns' = gpdns
      /\ ch' = ch /\ done' = done
  BY Zenon DEF caaVars
<1>1. CAATypes' /\ CAAInv' /\ QuorumAgrees' /\ CAAVerdict' = CAAVerdict
  BY Zenon, <1>0, CAAFrame
<1>3. TypeOK'
  BY Zenon, <1>0, <1>1 DEF Inv, TypeOK
<1>6. VerdictInv' /\ VerdictExact'
  <2>1. ~ Proven /\ problem = None
    BY Zenon DEF Inv, VerdictInv
  <2>2. ch' = <<>> \/ (ch' = <<CAAVerdict'>> /\ caaStage' = "ended")
    BY Zenon, <1>0, <1>1 DEF Inv, VerdictInv
  <2>3. CASE stage' \notin {"wait", "done"} /\ answer' = answer /\ problem' = problem
    <3>1. Proven' <=> Proven
      BY Zenon, <1>0, <2>3 DEF Proven
    <3> QED
      BY Zenon, <2>1, <2>2, <2>3, <3>1 DEF VerdictInv, VerdictExact
  <2>4. CASE stage' = "done" /\ problem' # None /\ ~ Proven'
    BY Zenon, <2>2, <2>4 DEF VerdictInv, VerdictExact
  <2>5. CASE stage' = "wait" /\ problem' = problem /\ Proven' /\ RecordsSane'
    BY Zenon, <2>1, <2>2, <2>5 DEF VerdictInv, VerdictExact
  <2> QED
    BY Zenon, <2>3, <2>4, <2>5
<1> QED
  BY Zenon, <1>1, <1>3, <1>6 DEF Inv

-----------------------------------------------------------------------------
(***************************************************************************)
(* The challenge's goroutine.                                              *)
(***************************************************************************)
\* Exchanges that were not begun, or just were, have their type.
LEMMA NewExchanges ==
    ASSUME NEW outcomes PROVE Asked \in Exchanges(outcomes) /\ Unasked \in Exchanges(outcomes)
  BY Zenon DEF Asked, Unasked, Exchanges, Outcome

\* Asking for some of the addresses keeps the types of the exchanges.
LEMMA AskedTypes ==
    ASSUME ChallengeTypes, scenario' = scenario,
           AskHost \/ lookups' = [lookups EXCEPT !["TXT"] = Asked]
                   \/ lookups' = [q \in DOMAIN lookups |-> Unasked] \/ lookups' = lookups
    PROVE  /\ DOMAIN lookups' = Queries
           /\ \A q \in Queries : lookups'[q] \in Exchanges(scenario'.dns[q])
<1>1. /\ DOMAIN lookups = Queries
      /\ \A q \in Queries : lookups[q] \in Exchanges(scenario.dns[q])
  BY Zenon DEF ChallengeTypes
<1>2. DOMAIN lookups' = Queries
  BY Zenon, <1>1 DEF AskHost
<1>3. \A q \in Queries : lookups'[q] \in {lookups[q], Asked, Unasked}
  BY Zenon, <1>1 DEF AskHost
<1> QED
  BY <1>1, <1>2, <1>3, NewExchanges, Zenon

\* validateChallenge keeps the invariant.
LEMMA validateChallengeInv == ASSUME Inv, validateChallenge PROVE Inv'
<1>0. stage = "start" /\ UNCHANGED <<scenario, caaVars, ch, done>>
  BY Zenon DEF validateChallenge
<1>1. ChallengeTypes /\ scenario' = scenario /\ contacted' = contacted /\ dial' = dial
  BY Zenon DEF validateChallenge, Inv, TypeOK
<1>2. records = <<>> /\ contacted = <<>>
  BY <1>0, <1>1, EmptySeq, LenProperties DEF Inv, RecordsInv, ChallengeTypes
<1>3. ~ Proven
  BY Zenon, <1>0 DEF Inv, VerdictInv
<1>4. Proven' <=> Proven
  BY Zenon DEF validateChallenge, Proven
<1>5. CASE Fail("malformed") /\ UNCHANGED <<lookups, records>>
  <2>1. ChallengeTypes'
    BY Zenon, <1>1, <1>5 DEF ChallengeTypes, Fail, Stages
  <2>2. RecordsInv'
    BY Zenon, <1>1, <1>2, <1>5 DEF RecordsInv, Fail, Inv
  <2> QED
    BY Zenon, <1>0, <1>3, <1>4, <1>5, <2>1, <2>2, ChallengeStep DEF Fail, None
<1>6. CASE /\ scenario.type \in {"http-01", "tls-sni-01", "tls-sni-02"}
           /\ stage' = "resolve" /\ AskHost /\ UNCHANGED problem
           /\ records' = <<[url |-> scenario.type = "http-01", used |-> None, resolved |-> <<>>,
                            port |-> IF scenario.type = "http-01" THEN "80" ELSE None]>>
  <2>1. PICK u \in BOOLEAN, p \in {"80", None} :
           /\ u = (scenario.type = "http-01")
           /\ records' = <<[url |-> u, used |-> None, resolved |-> <<>>, port |-> p]>>
    BY <1>6, Zenon
  <2>2. [url |-> u, used |-> None, resolved |-> <<>>, port |-> p] \in ValidationRecords
    BY Zenon, EmptySeq DEF ValidationRecords
  <2>3. records' \in Seq(ValidationRecords) /\ Len(records') = 1 /\ records'[1].url = u
    BY <2>1, <2>2
  <2>4. ChallengeTypes'
    BY Zenon, <1>1, <1>6, <2>3, AskedTypes DEF ChallengeTypes, Stages
  <2>5. RecordsInv'
    <3>1. Len(contacted') = 0 /\ DOMAIN contacted' = {} /\ DOMAIN records' = {1}
      BY <1>1, <1>2, <2>3
    <3>2. \A i \in DOMAIN records' : records'[i].url <=> scenario'.type = "http-01"
      BY Zenon, <1>1, <2>1, <2>3, <3>1
    <3> QED
      BY <1>1, <1>6, <2>3, <3>1, <3>2 DEF RecordsInv
  <2> QED
    BY Zenon, <1>0, <1>6, <2>4, <2>5, ChallengeStep DEF validateChallenge
<1>7. CASE /\ scenario.type = "dns-01" /\ stage' = "txt" /\ UNCHANGED <<records, problem>>
           /\ lookups' = [lookups EXCEPT !["TXT"] = Asked]
  <2>1. ChallengeTypes'
    BY Zenon, <1>1, <1>7, AskedTypes DEF ChallengeTypes, Stages
  <2>2. RecordsInv'
    BY Zenon, <1>1, <1>2, <1>7 DEF RecordsInv, Inv
  <2> QED
    BY Zenon, <1>0, <1>7, <2>1, <2>2, ChallengeStep DEF validateChallenge
<1> QED
  BY Zenon, <1>5, <1>6, <1>7 DEF validateChallenge

\* An exchange of the challenge's goroutine keeps the invariant.
LEMMA ExchangeInv == ASSUME Inv, NEW q \in DOMAIN lookups, Exchange(q) PROVE Inv'
<1>0. ChallengeTypes /\ q \in Queries
  BY Zenon DEF Inv, TypeOK, ChallengeTypes
<1>1. PICK o \in scenario.dns[q] : \E x \in exchangeOne(lookups[q], o) :
          lookups' = [lookups EXCEPT ![q] = x]
  BY Zenon DEF Exchange
<1>2. PICK x \in exchangeOne(lookups[q], o) : lookups' = [lookups EXCEPT ![q] = x]
  BY Zenon, <1>1
<1>3. x \in Exchanges(scenario.dns[q])
  <2>1. lookups[q] \in Exchanges(scenario.dns[q])
    BY Zenon, <1>0 DEF ChallengeTypes
  <2>2. PICK t \in Nat, y \in scenario.dns[q] \cup {Outcome("pending"), Outcome("cancelled")} :
            lookups[q] = [tries |-> t, outcome |-> y]
    BY Zenon, <2>1 DEF Exchanges
  <2>3. x \in {[tries |-> t, outcome |-> Outcome("cancelled")], [tries |-> t + 1, outcome |-> y],
               [tries |-> t, outcome |-> o]}
    BY <1>2, <2>2 DEF exchangeOne
  <2> QED
    BY <2>2, <2>3 DEF Exchanges
<1>4. UNCHANGED <<scenario, stage, records, dial, contacted, answer, problem, caaVars, ch, done>>
  BY Zenon DEF Exchange
<1>5. ChallengeTypes'
  BY Zenon, <1>0, <1>2, <1>3, <1>4 DEF ChallengeTypes
<1> QED
  BY Zenon, <1>4, <1>5, QuietStep DEF Inv, TypeOK

\* A step in which validateChallenge returns a problem keeps the invariant.
LEMMA FailStep ==
    ASSUME Inv, UNCHANGED <<scenario, caaVars, ch, done>>, UNCHANGED <<records, dial, contacted>>,
           lookups' = lookups \/ lookups' = [q \in DOMAIN lookups |-> Unasked],
           stage \notin {"wait", "done"}, NEW p, p # None, Fail(p), ~ Proven'
    PROVE  Inv'
<1>1. scenario' = scenario /\ stage' = "done" /\ problem' # None /\ ChallengeTypes
  BY Zenon DEF Fail, Inv, TypeOK
<1>2. ChallengeTypes'
  BY Zenon, <1>1, AskedTypes DEF ChallengeTypes, Stages
<1>3. RecordsInv'
  BY Zenon, <1>1 DEF Inv, RecordsInv
<1> QED
  BY Zenon, <1>1, <1>2, <1>3, ChallengeStep

\* The answer of the world makes no difference before there is one.
LEMMA NoAnswer ==
    ASSUME Inv, stage \notin {"wait", "done"}, scenario' = scenario, answer' = answer
    PROVE  ~ Proven'
<1>1. ~ Proven
  BY Zenon DEF Inv, VerdictInv
<1> QED
  BY Zenon, <1>1 DEF Proven

\* Once every hop was dialled, the records are sane.
LEMMA RespondSane ==
    ASSUME Inv, stage = "respond", scenario' = scenario, records' = records
    PROVE  RecordsSane'
<1>1. /\ records # <<>> /\ Len(records) = Len(contacted)
      /\ scenario.type \in {"http-01", "tls-sni-01", "tls-sni-02"}
      /\ \A i \in DOMAIN contacted : Complete(records[i])
      /\ \A i \in DOMAIN records : records[i].url <=> scenario.type = "http-01"
      /\ scenario.type # "http-01" => Len(records) <= 1
  BY Zenon DEF Inv, RecordsInv
<1>2. records \in Seq(ValidationRecords) /\ contacted \in Seq(Public)
  BY Zenon DEF Inv, TypeOK, ChallengeTypes
<1>3. DOMAIN records = DOMAIN contacted /\ 1 \in DOMAIN records
      /\ (scenario.type # "http-01" => Len(records) = 1)
  BY <1>1, <1>2
<1>4. \A i \in DOMAIN records :
         records[i].port # None /\ records[i].used # None /\ records[i].resolved # <<>>
  BY Zenon, <1>1, <1>3 DEF Complete, Public, None
<1>5. CASE scenario.type = "http-01"
  BY Zenon, <1>1, <1>4, <1>5 DEF RecordsSane
<1>6. CASE scenario.type \in {"tls-sni-01", "tls-sni-02"}
  BY Zenon, <1>1, <1>3, <1>4, <1>6 DEF RecordsSane
<1> QED
  BY Zenon, <1>1, <1>5, <1>6

\* A step in which the server's answer is accepted keeps the invariant.
LEMMA SucceedStep ==
    ASSUME Inv, UNCHANGED <<scenario, caaVars, ch, done>>,
           UNCHANGED <<lookups, records, dial, contacted>>, stage = "respond", Succeed, Proven'
    PROVE  Inv'
<1>1. scenario' = scenario /\ stage' = "wait" /\ problem' = problem /\ ChallengeTypes
  BY Zenon DEF Succeed, Inv, TypeOK
<1>2. ChallengeTypes'
  BY Zenon, <1>1 DEF ChallengeTypes, Stages
<1>3. RecordsInv'
  BY Zenon, <1>1 DEF Inv, RecordsInv
<1>4. RecordsSane'
  BY Zenon, <1>1, RespondSane
<1> QED
  BY Zenon, <1>1, <1>2, <1>3, <1>4, ChallengeStep

\* resolveAndConstructDialer keeps the invariant.
LEMMA resolveAndConstructDialerInv == ASSUME Inv, resolveAndConstructDialer PROVE Inv'
<1> DEFINE host == LookupHost(lookups["A"], lookups["AAAA"])
           n == Len(records)
<1>0. /\ stage = "resolve" /\ UNCHANGED <<scenario, caaVars, ch, done>>
      /\ scenario' = scenario /\ contacted' = contacted /\ answer' = answer
      /\ lookups' = [q \in DOMAIN lookups |-> Unasked]
  BY Zenon DEF resolveAndConstructDialer
<1>1. scenario \in Scenarios /\ ChallengeTypes
  BY Zenon DEF Inv, TypeOK
<1>2. host.addrs \in Seq(Public)
  BY Zenon, <1>1, HostType
<1>3. CASE Fail(ResolveProblem(host)) /\ UNCHANGED <<records, dial>>
  <2>1. ResolveProblem(host) # None
    BY Zenon DEF ResolveProblem, None
  <2>2. ~ Proven'
    BY Zenon, <1>0, NoAnswer
  <2> HIDE DEF host
  <2> QED
    BY Zenon, <1>0, <1>3, <2>1, <2>2, FailStep
<1>4. CASE /\ host.addrs # <<>>
           /\ records' = [records EXCEPT ![Len(records)].resolved = host.addrs,
                                         ![Len(records)].used = host.addrs[1],
                                         ![Len(records)].port = IF @ = None THEN "443" ELSE @]
           /\ dial' = host.addrs[1]
           /\ stage' = "dial"
           /\ UNCHANGED problem
  <2>1. PICK addrs : addrs = host.addrs /\ addrs \in Seq(Public) /\ addrs # <<>>
    BY Zenon, <1>2, <1>4
  <2>2. PICK u : u = addrs[1] /\ u \in Public
    BY <2>1
  <2>3. /\ records \in Seq(ValidationRecords) /\ n \in Nat /\ n = Len(contacted) + 1
        /\ Len(contacted) \in Nat /\ n \in DOMAIN records
    BY <1>0, <1>1 DEF ChallengeTypes, Inv, RecordsInv
  <2>4. PICK url \in BOOLEAN, used \in Public \cup {None}, resolved \in Seq(Public),
             port \in {None, "80", "443", "8080"} :
           records[n] = [url |-> url, used |-> used, resolved |-> resolved, port |-> port]
    <3>1. records[n] \in ValidationRecords
      BY <2>3
    <3> HIDE DEF n
    <3> QED
      BY Zenon, <3>1 DEF ValidationRecords
  <2>5. PICK p \in {"80", "443", "8080"} : p = (IF port = None THEN "443" ELSE port)
    BY Zenon DEF None
  <2> DEFINE hop == [url |-> url, used |-> u, resolved |-> addrs, port |-> p]
  <2> HIDE DEF host
  <2>6. hop \in ValidationRecords /\ records' = [records EXCEPT ![n] = hop]
    <3>1. records' = [records EXCEPT ![n].resolved = addrs, ![n].used = u,
                                     ![n].port = IF @ = None THEN "443" ELSE @]
      BY Zenon, <1>4, <2>1, <2>2
    <3>2. DOMAIN records' = DOMAIN records /\ \A i \in DOMAIN records : i # n => records'[i] = records[i]
      BY Zenon, <2>3, <3>1
    <3>3. records'[n] = [records[n] EXCEPT !.resolved = addrs, !.used = u,
                                           !.port = IF @ = None THEN "443" ELSE @]
      BY Zenon, <2>3, <3>1
    <3>4. records'[n] = hop
      <4>1. PICK r : r = records[n]
        BY Zenon
      <4>2. r = [url |-> url, used |-> used, resolved |-> resolved, port |-> port]
        BY Zenon, <2>4, <4>1
      <4>3. records'[n] = [r EXCEPT !.resolved = addrs, !.used = u,
                                    !.port = IF @ = None THEN "443" ELSE @]
        BY Zenon, <3>3, <4>1
      <4>4. records'[n] = [url |-> url, used |-> u, resolved |-> addrs,
                           port |-> IF port = None THEN "443" ELSE port]
        BY Zenon, <4>2, <4>3
      <4> QED
        BY Zenon, <2>5, <4>4
    <3>5. hop \in ValidationRecords
      BY Zenon, <2>1, <2>2 DEF ValidationRecords
    <3> HIDE DEF hop, n
    <3> QED
      BY Zenon, <2>3, <3>1, <3>2, <3>4, <3>5
  <2>7. /\ records' \in Seq(ValidationRecords) /\ Len(records') = n
        /\ \A i \in DOMAIN contacted : records'[i] = records[i]
        /\ \A i \in DOMAIN records : records'[i].url = records[i].url
        /\ Complete(records'[n]) /\ records'[n].used = u
    <3>0. hop.url = records[n].url /\ hop.used = u /\ Complete(hop)
      BY <2>1, <2>2, <2>4 DEF Complete, None
    <3> HIDE DEF hop
    <3>1. records' \in Seq(ValidationRecords) /\ Len(records') = n /\ DOMAIN records' = DOMAIN records
      BY <2>3, <2>6
    <3>2. \A i \in DOMAIN contacted : records'[i] = records[i]
      BY <1>1, <2>3, <2>6 DEF ChallengeTypes
    <3>3. records'[n] = hop
      BY Zenon, <2>3, <2>6
    <3>4. \A i \in DOMAIN records : records'[i].url = records[i].url
      BY Zenon, <2>3, <2>6, <3>0, <3>3
    <3>5. Complete(records'[n]) /\ records'[n].used = u
      BY Zenon, <3>0, <3>3
    <3> QED
      BY Zenon, <3>1, <3>2, <3>4, <3>5
  <2>8. dial' = u /\ stage' = "dial" /\ problem' = problem
    BY Zenon, <1>4, <2>1, <2>2
  <2>9. ChallengeTypes'
    BY Zenon, <1>0, <1>1, <2>2, <2>7, <2>8, AskedTypes DEF ChallengeTypes, Stages
  <2>10. RecordsInv'
    <3>1. /\ \A i \in DOMAIN contacted : Complete(records[i]) /\ contacted[i] = records[i].used
          /\ \A i \in DOMAIN records : records[i].url <=> scenario.type = "http-01"
          /\ scenario.type # "http-01" => Len(records) <= 1
          /\ scenario.type \in {"http-01", "tls-sni-01", "tls-sni-02"}
      BY Zenon, <1>0 DEF Inv, RecordsInv
    <3>2. DOMAIN records' = DOMAIN records /\ Len(contacted') <= Len(records')
      BY <1>0, <2>3, <2>7
    <3> QED
      BY Zenon, <1>0, <2>3, <2>7, <2>8, <3>1, <3>2 DEF RecordsInv
  <2> QED
    BY Zenon, <1>0, <2>8, <2>9, <2>10, ChallengeStep
<1> QED
  BY Zenon, <1>3, <1>4 DEF resolveAndConstructDialer

\* The dialer's Dial keeps the invariant: the address is the one in the last
\* record.
LEMMA DialInv == ASSUME Inv, Dial PROVE Inv'
<1>0. /\ stage = "dial" /\ stage' = "respond" /\ UNCHANGED <<scenario, caaVars, ch, done>>
      /\ scenario' = scenario /\ contacted' = Append(contacted, dial) /\ answer' = answer
      /\ lookups' = lookups /\ records' = records /\ problem' = problem /\ dial' = dial
  BY Zenon DEF Dial
<1>1. ChallengeTypes
  BY Zenon DEF Inv, TypeOK
<1>2. /\ Len(records) = Len(contacted) + 1
      /\ Complete(records[Len(records)]) /\ dial = records[Len(records)].used
      /\ \A i \in DOMAIN contacted : Complete(records[i]) /\ contacted[i] = records[i].used
      /\ scenario.type \in {"http-01", "tls-sni-01", "tls-sni-02"}
      /\ \A i \in DOMAIN records : records[i].url <=> scenario.type = "http-01"
      /\ scenario.type # "http-01" => Len(records) <= 1
  BY Zenon, <1>0 DEF Inv, RecordsInv
<1>3. dial \in Public /\ contacted \in Seq(Public) /\ records \in Seq(ValidationRecords)
  BY Zenon, <1>1, <1>2 DEF Complete, ChallengeTypes
<1>4. ChallengeTypes'
  BY <1>0, <1>1, <1>3 DEF ChallengeTypes, Stages
<1>5. /\ Len(contacted') = Len(contacted) + 1 /\ DOMAIN contacted' = 1 .. Len(contacted) + 1
      /\ contacted'[Len(contacted) + 1] = dial
      /\ \A i \in DOMAIN contacted : contacted'[i] = contacted[i]
      /\ Len(contacted) \in Nat /\ DOMAIN contacted = 1 .. Len(contacted) /\ records # <<>>
  BY <1>0, <1>2, <1>3
<1>6. ASSUME NEW i \in DOMAIN contacted'
      PROVE  Complete(records[i]) /\ contacted'[i] = records[i].used
  <2>1. i \in DOMAIN contacted \/ i = Len(contacted) + 1
    BY <1>5
  <2> QED
    BY Zenon, <1>2, <1>5, <2>1
<1>7. RecordsInv'
  <2>1. Len(contacted') = Len(records')
    BY Zenon, <1>0, <1>2, <1>5
  <2>2. Len(contacted') <= Len(records')
    BY <1>0, <1>3, <2>1
  <2> QED
    BY Zenon, <1>0, <1>2, <1>5, <1>6, <2>1, <2>2 DEF RecordsInv
<1> QED
  BY Zenon, <1>0, <1>4, <1>7, ChallengeStep

\* A connection that fails keeps the invariant.
LEMMA UnreachableInv == ASSUME Inv, Unreachable PROVE Inv'
<1>1. PICK e \in scenario.connErrors : Fail(parseHTTPConnError(e))
  BY Zenon DEF Unreachable
<1>2. parseHTTPConnError(e) # None
  BY Zenon DEF parseHTTPConnError, None
<1>3. ~ Proven'
  BY Zenon, NoAnswer DEF Unreachable
<1> QED
  BY Zenon, <1>1, <1>2, <1>3, FailStep DEF Unreachable

\* A redirect keeps the invariant.
LEMMA fetchHTTPInv == ASSUME Inv, fetchHTTP PROVE Inv'
<1>0. /\ stage = "respond" /\ UNCHANGED <<scenario, caaVars, ch, done>> /\ scenario.type = "http-01"
      /\ scenario' = scenario /\ contacted' = contacted /\ answer' = answer /\ dial' = dial
  BY Zenon DEF fetchHTTP
<1>1. PICK r \in scenario.redirects : logRedirect(r)
  BY Zenon DEF fetchHTTP
<1>2. ChallengeTypes
  BY Zenon DEF Inv, TypeOK
<1>3. CASE Fail("connection") /\ UNCHANGED <<lookups, records>>
  <2>1. ~ Proven'
    BY Zenon, <1>0, NoAnswer
  <2> QED
    BY Zenon, <1>0, <1>3, <2>1, FailStep DEF None
<1>4. CASE ~ (Len(records) >= maxRedirect \/ r.port \notin {None, "8080"})
  <2>1. stage' = "resolve" /\ AskHost /\ problem' = problem
    BY Zenon, <1>1, <1>4 DEF logRedirect
  <2>2. PICK p \in {"80", "443", "8080"} :
           records' = Append(records, [url |-> TRUE, used |-> None, resolved |-> <<>>, port |-> p])
    <3>1. records' = Append(records, [url |-> TRUE, used |-> None, resolved |-> <<>>,
                                      port |-> IF r.port # None THEN r.port
                                               ELSE IF r.tls THEN "443" ELSE "80"])
      BY Zenon, <1>1, <1>4 DEF logRedirect
    <3>2. PICK p : p = (IF r.port # None THEN r.port ELSE IF r.tls THEN "443" ELSE "80")
      BY Zenon
    <3>3. p \in {"80", "443", "8080"}
      BY Zenon, <1>4, <3>2 DEF None
    <3> QED
      BY Zenon, <3>1, <3>2, <3>3
  <2> DEFINE hop == [url |-> TRUE, used |-> None, resolved |-> <<>>, port |-> p]
  <2>3. hop \in ValidationRecords /\ hop.url
    BY Zenon, EmptySeq DEF ValidationRecords
  <2>4. records \in Seq(ValidationRecords) /\ records' = Append(records, hop)
    BY Zenon, <1>2, <2>2 DEF ChallengeTypes
  <2> HIDE DEF hop
  <2>5. /\ records' \in Seq(ValidationRecords) /\ Len(records') = Len(records) + 1
        /\ Len(records) \in Nat /\ DOMAIN records = 1 .. Len(records)
        /\ DOMAIN records' = 1 .. Len(records) + 1
        /\ \A i \in DOMAIN records : records'[i] = records[i]
        /\ records'[Len(records) + 1] = hop
    BY <2>3, <2>4
  <2>6. ChallengeTypes'
    BY Zenon, <1>0, <1>2, <2>1, <2>5, AskedTypes DEF ChallengeTypes, Stages
  <2>7. /\ Len(records) = Len(contacted)
        /\ \A i \in DOMAIN contacted : Complete(records[i]) /\ contacted[i] = records[i].used
        /\ \A i \in DOMAIN records : records[i].url <=> scenario.type = "http-01"
    BY Zenon, <1>0 DEF Inv, RecordsInv
  <2>8. DOMAIN contacted = DOMAIN records
    BY <1>2, <2>5, <2>7 DEF ChallengeTypes
  <2>9. RecordsInv'
    <3>1. \A i \in DOMAIN contacted' : Complete(records'[i]) /\ contacted'[i] = records'[i].used
      BY Zenon, <1>0, <2>5, <2>7, <2>8
    <3>2. \A i \in DOMAIN records' : records'[i].url <=> scenario'.type = "http-01"
      <4> SUFFICES ASSUME NEW i \in DOMAIN records' PROVE records'[i].url
        BY Zenon, <1>0
      <4>1. i \in DOMAIN records \/ i = Len(records) + 1
        BY <2>5
      <4> QED
        BY Zenon, <1>0, <2>3, <2>5, <2>7, <4>1
    <3>3. Len(contacted') <= Len(records') /\ Len(records') = Len(contacted') + 1
      BY <1>0, <2>5, <2>7
    <3> QED
      BY Zenon, <1>0, <2>1, <3>1, <3>2, <3>3 DEF RecordsInv
  <2> QED
    BY Zenon, <1>0, <2>1, <2>6, <2>9, ChallengeStep
<1> QED
  BY Zenon, <1>1, <1>3, <1>4 DEF logRedirect

\* validateHTTP01 keeps the invariant: it accepts exactly the key authorization.
LEMMA validateHTTP01Inv == ASSUME Inv, validateHTTP01 PROVE Inv'
<1>0. /\ stage = "respond" /\ UNCHANGED <<scenario, caaVars, ch, done>>
      /\ UNCHANGED <<lookups, records, dial, contacted>>
  BY Zenon DEF validateHTTP01
<1>1. PICK r \in scenario.bodies :
         /\ answer' = [kind |-> "http", value |-> r]
         /\ IF r.length = "short" /\ r.status = 200 /\ r.payload = "keyAuthorization"
            THEN Succeed ELSE Fail("unauthorized")
  BY Zenon DEF validateHTTP01
<1>2. r \in [status : Nat, length : {"short", "long"}, payload : STRING]
  BY ScenariosAssumption, Zenon DEF Inv, TypeOK
<1>3. Proven' <=> r = [status |-> 200, length |-> "short", payload |-> "keyAuthorization"]
  BY Zenon, <1>1 DEF Proven
<1>4. Proven' <=> r.length = "short" /\ r.status = 200 /\ r.payload = "keyAuthorization"
  BY <1>2, <1>3
<1>5. CASE Proven'
  BY Zenon, <1>0, <1>1, <1>4, <1>5, SucceedStep
<1>6. CASE ~ Proven'
  <2>1. Fail("unauthorized")
    BY Zenon, <1>1, <1>4, <1>6
  <2> QED
    BY Zenon, <1>0, <1>6, <2>1, FailStep DEF None
<1> QED
  BY Zenon, <1>5, <1>6

\* The names that validateTLSSNI02WithZNames accepts are the two derived ones in
\* either order.
LEMMA TwoNames ==
    ASSUME NEW s \in Seq(STRING)
    PROVE  Len(s) = 2 /\ {"SanA", "SanB"} \subseteq Range(s)
              <=> s \in {<<"SanA", "SanB">>, <<"SanB", "SanA">>}
<1>1. CASE Len(s) = 2
  <2>1. DOMAIN s = {1, 2}
    BY <1>1
  <2>2. Range(s) = {s[1], s[2]}
    BY <2>1, Zenon DEF Range
  <2>3. s = <<s[1], s[2]>>
    BY <1>1
  <2>4. {"SanA", "SanB"} \subseteq Range(s)
          <=> (s[1] = "SanA" /\ s[2] = "SanB") \/ (s[1] = "SanB" /\ s[2] = "SanA")
    BY Zenon, <2>2
  <2> QED
    BY <1>1, <2>3, <2>4
<1>2. CASE Len(s) # 2
  BY <1>2
<1> QED
  BY Zenon, <1>1, <1>2

\* getTLSSNICerts and the comparison of the names keep the invariant.
LEMMA getTLSSNICertsInv == ASSUME Inv, getTLSSNICerts PROVE Inv'
<1>0. /\ stage = "respond" /\ UNCHANGED <<scenario, caaVars, ch, done>>
      /\ UNCHANGED <<lookups, records, dial, contacted>> /\ scenario' = scenario
      /\ scenario.type \in {"tls-sni-01", "tls-sni-02"}
  BY Zenon DEF getTLSSNICerts
<1> DEFINE p(certs) == IF scenario.type = "tls-sni-01" THEN validateTLSSNI01WithZName(certs)
                       ELSE validateTLSSNI02WithZNames(certs)
<1>1. PICK certs \in scenario.certs :
         /\ answer' = [kind |-> "certs", value |-> certs]
         /\ IF p(certs) = None THEN Succeed ELSE Fail(p(certs))
  BY Zenon DEF getTLSSNICerts
<1>2. certs \in Seq(Seq(STRING))
  BY ScenariosAssumption, Zenon DEF Inv, TypeOK
<1>3. Proven' <=> p(certs) = None
  <2>1. CASE scenario.type = "tls-sni-01"
    <3>1. Proven' <=> certs # <<>> /\ "Z" \in Range(certs[1])
      BY Zenon, <1>0, <1>1, <2>1 DEF Proven
    <3> QED
      BY Zenon, <2>1, <3>1 DEF validateTLSSNI01WithZName, None
  <2>2. CASE scenario.type = "tls-sni-02"
    <3>1. Proven' <=> certs # <<>> /\ certs[1] \in {<<"SanA", "SanB">>, <<"SanB", "SanA">>}
      BY Zenon, <1>0, <1>1, <2>2 DEF Proven
    <3>2. certs # <<>> => certs[1] \in Seq(STRING)
      BY <1>2
    <3>3. certs # <<>> => ((Len(certs[1]) = 2 /\ {"SanA", "SanB"} \subseteq Range(certs[1]))
                             <=> certs[1] \in {<<"SanA", "SanB">>, <<"SanB", "SanA">>})
      BY <3>2, TwoNames, Zenon
    <3>4. p(certs) = None
            <=> certs # <<>> /\ Len(certs[1]) = 2 /\ {"SanA", "SanB"} \subseteq Range(certs[1])
      BY Zenon, <2>2 DEF validateTLSSNI02WithZNames, None
    <3> HIDE DEF p
    <3> QED
      BY Zenon, <3>1, <3>3, <3>4
  <2> QED
    BY Zenon, <1>0, <2>1, <2>2
<1> HIDE DEF p
<1>4. CASE Proven'
  BY Zenon, <1>0, <1>1, <1>3, <1>4, SucceedStep
<1>5. CASE ~ Proven'
  <2>1. p(certs) # None /\ Fail(p(certs))
    BY Zenon, <1>1, <1>3, <1>5
  <2> QED
    BY Zenon, <1>0, <1>5, <2>1, FailStep
<1> QED
  BY Zenon, <1>4, <1>5

\* validateDNS01 keeps the invariant: it accepts exactly the digest.
LEMMA validateDNS01Inv == ASSUME Inv, validateDNS01 PROVE Inv'
<1> DEFINE x == lookups["TXT"]
<1>0. /\ stage = "txt" /\ UNCHANGED <<scenario, caaVars, ch, done>> /\ dial' = dial
      /\ contacted' = contacted /\ scenario' = scenario /\ answer' = x.outcome
      /\ lookups' = [q \in DOMAIN lookups |-> Unasked]
  BY Zenon DEF validateDNS01
<1>1. ChallengeTypes /\ scenario.type = "dns-01" /\ records = <<>> /\ scenario \in Scenarios
  BY Zenon, <1>0 DEF Inv, TypeOK, RecordsInv
<1>2. x.outcome.kind \in Kinds \cup {"pending", "cancelled"}
  <2>1. x \in Exchanges(scenario.dns["TXT"])
    BY Zenon, <1>1 DEF ChallengeTypes, Queries
  <2>2. x.outcome \in scenario.dns["TXT"] \cup {Outcome("pending"), Outcome("cancelled")}
    BY Zenon, <2>1 DEF Exchanges
  <2>3. x.outcome \in scenario.dns["TXT"] => x.outcome.kind \in Kinds
    BY Zenon, <1>1, ScenariosAssumption
  <2>4. Outcome("pending").kind = "pending" /\ Outcome("cancelled").kind = "cancelled"
    BY Zenon DEF Outcome
  <2> HIDE DEF x
  <2> QED
    BY Zenon, <2>2, <2>3, <2>4
<1>3. Proven' <=> Answered(x) /\ "digest" \in Range(x.outcome.value)
  <2> HIDE DEF x
  <2> QED
    BY Zenon, <1>0, <1>2 DEF Proven, Answered, Kinds
<1>4. CASE Proven'
  <2>1. /\ stage' = "wait" /\ problem' = problem
        /\ records' = <<[url |-> FALSE, used |-> None, resolved |-> <<>>, port |-> None]>>
    BY Zenon, <1>3, <1>4 DEF validateDNS01, Succeed
  <2> DEFINE record == [url |-> FALSE, used |-> None, resolved |-> <<>>, port |-> None]
  <2>2. record \in ValidationRecords /\ ~ record.url
    BY Zenon, EmptySeq DEF ValidationRecords
  <2> HIDE DEF record
  <2>3. /\ records' \in Seq(ValidationRecords) /\ Len(records') = 1 /\ records' # <<>>
        /\ DOMAIN records' = {1} /\ ~ records'[1].url
    BY <2>1, <2>2 DEF record
  <2>4. ChallengeTypes'
    BY Zenon, <1>0, <1>1, <2>1, <2>3, AskedTypes DEF ChallengeTypes, Stages
  <2>5. RecordsInv'
    <3>1. Len(contacted') = 0 /\ DOMAIN contacted' = {}
      BY <1>0, <1>1 DEF ChallengeTypes, Inv, RecordsInv
    <3>2. \A i \in DOMAIN records' : records'[i].url <=> scenario'.type = "http-01"
      BY Zenon, <1>0, <1>1, <2>3
    <3> QED
      BY <1>0, <1>1, <2>1, <2>3, <3>1, <3>2 DEF RecordsInv
  <2>6. RecordsSane'
    BY Zenon, <1>0, <1>1, <2>3 DEF RecordsSane
  <2> QED
    BY Zenon, <1>0, <1>4, <2>1, <2>4, <2>5, <2>6, ChallengeStep
<1>5. CASE ~ Proven'
  <2>1. (Fail("connection") \/ Fail("unauthorized")) /\ records' = records
    BY Zenon, <1>3, <1>5 DEF validateDNS01
  <2> QED
    BY Zenon, <1>0, <1>5, <2>1, FailStep DEF None
<1> QED
  BY Zenon, <1>4, <1>5

-----------------------------------------------------------------------------
(***************************************************************************)
(* The CAA goroutine.                                                      *)
(***************************************************************************)
\* A step of the CAA goroutine or of the queries it started: it has not ended
\* and does not now, or its verdict stands.
LEMMA CAAStep ==
    ASSUME Inv, UNCHANGED <<scenario, challengeVars, ch, done>>,
           CAATypes', CAAInv', QuorumAgrees',
           \/ caaStage # "ended" /\ caaStage' # "ended"
           \/ caaStage' = caaStage /\ CAAVerdict' = CAAVerdict
    PROVE  Inv'
<1>0. /\ scenario' = scenario /\ stage' = stage /\ lookups' = lookups /\ records' = records
      /\ dial' = dial /\ contacted' = contacted /\ answer' = answer /\ problem' = problem
      /\ ch' = ch /\ done' = done
  BY Zenon DEF challengeVars
<1>1. TypeOK'
  BY Zenon, <1>0 DEF Inv, TypeOK, ChallengeTypes
<1>2. RecordsInv'
  BY Zenon, <1>0 DEF Inv, RecordsInv
<1>3. (Proven' <=> Proven) /\ (RecordsSane' <=> RecordsSane)
  BY Zenon, <1>0 DEF Proven, RecordsSane
<1>4. VerdictInv /\ VerdictExact
  BY Zenon DEF Inv
<1>5. VerdictInv' /\ VerdictExact'
  <2>1. CASE caaStage # "ended" /\ caaStage' # "ended"
    BY Zenon, <1>0, <1>3, <1>4, <2>1 DEF VerdictInv, VerdictExact
  <2>2. CASE caaStage' = caaStage /\ CAAVerdict' = CAAVerdict
    BY Zenon, <1>0, <1>3, <1>4, <2>2 DEF VerdictInv, VerdictExact
  <2> QED
    BY Zenon, <2>1, <2>2
<1> QED
  BY Zenon, <1>1, <1>2, <1>5 DEF Inv

\* The distributed lookups when no proxy was asked.
LEMMA Untouched ==
    ASSUME CAAInv, caaStage = "lookup"
    PROVE  \A i \in Labels : gpdns[i].sent = {} /\ gpdns[i].result = <<>>
  BY Zenon DEF CAAInv

\* A local lookup keeps the invariant.
LEMMA ExchangeCAAInv == ASSUME Inv, NEW i \in Labels, ExchangeCAA(i) PROVE Inv'
<1>0. /\ caaStage = "lookup" /\ caaStage' = caaStage /\ gpdns' = gpdns /\ scenario' = scenario
      /\ UNCHANGED <<scenario, challengeVars, ch, done>>
  BY Zenon DEF ExchangeCAA
<1>1. PICK o \in scenario.caa : \E x \in exchangeOne(caa[i], o) : caa' = [caa EXCEPT ![i] = x]
  BY Zenon DEF ExchangeCAA
<1>2. PICK x \in exchangeOne(caa[i], o) : caa' = [caa EXCEPT ![i] = x]
  BY Zenon, <1>1
<1>3. caa \in [Labels -> Exchanges(scenario.caa)] /\ CAAInv /\ CAATypes
  BY Zenon DEF Inv, TypeOK, CAATypes
<1>4. x \in Exchanges(scenario.caa)
  <2>1. PICK t \in Nat, y \in scenario.caa \cup {Outcome("pending"), Outcome("cancelled")} :
            caa[i] = [tries |-> t, outcome |-> y]
    <3>1. caa[i] \in Exchanges(scenario.caa)
      BY Zenon, <1>3
    <3> QED
      BY Zenon, <3>1 DEF Exchanges
  <2>2. x \in {[tries |-> t, outcome |-> Outcome("cancelled")], [tries |-> t + 1, outcome |-> y],
               [tries |-> t, outcome |-> o]}
    BY <1>2, <2>1 DEF exchangeOne
  <2> QED
    BY <2>1, <2>2 DEF Exchanges
<1>5. Labels' = Labels /\ Lookups' = Lookups
  BY Zenon, <1>0, SameScenario
<1>6. CAATypes'
  BY Zenon, <1>0, <1>2, <1>3, <1>4, <1>5 DEF CAATypes
<1>7. CAAInv'
  <2>1. \A j \in Labels : gpdns[j].sent = {} /\ gpdns[j].result = <<>> /\ Tally(gpdns[j])
    BY Zenon, <1>0, <1>3, Untouched DEF CAAInv
  <2> QED
    BY Zenon, <1>0, <1>5, <2>1 DEF CAAInv
<1>8. QuorumAgrees'
  BY Zenon, <1>0, <1>5 DEF Inv, QuorumAgrees
<1> QED
  BY Zenon, <1>0, <1>6, <1>7, <1>8, CAAStep

\* The end of the local check keeps the invariant.
LEMMA checkCAAInv == ASSUME Inv, checkCAA PROVE Inv'
<1>0. /\ caaStage = "lookup" /\ gpdns' = gpdns /\ caa' = caa /\ scenario' = scenario
      /\ UNCHANGED <<scenario, challengeVars, ch, done>>
  BY Zenon DEF checkCAA
<1>1. caaStage' = "report" \/ (caaStage' = "gpdns" /\ Refused)
  BY Zenon DEF checkCAA, Refused
<1>2. Labels' = Labels /\ Lookups' = Lookups
  BY Zenon, <1>0, SameScenario
<1>3. Refused' <=> Refused
  BY Zenon, <1>0, SameVerdict
<1>4. CAATypes'
  BY Zenon, <1>0, <1>1, <1>2 DEF Inv, TypeOK, CAATypes
<1>5. CAAInv'
  <2>1. CAAInv
    BY Zenon DEF Inv
  <2>2. \A j \in Labels : gpdns[j].sent = {} /\ gpdns[j].result = <<>> /\ Tally(gpdns[j])
    BY Zenon, <1>0, <2>1, Untouched DEF CAAInv
  <2> QED
    BY Zenon, <1>0, <1>1, <1>2, <1>3, <2>2 DEF CAAInv
<1>6. QuorumAgrees'
  BY Zenon, <1>0, <1>2 DEF Inv, QuorumAgrees
<1> QED
  BY Zenon, <1>0, <1>1, <1>4, <1>5, <1>6, CAAStep

\* The end of the distributed check keeps the invariant.
LEMMA checkGPDNSInv == ASSUME Inv, checkGPDNS PROVE Inv'
<1>0. /\ caaStage = "gpdns" /\ caaStage' = "report" /\ gpdns' = gpdns /\ caa' = caa
      /\ scenario' = scenario /\ UNCHANGED <<scenario, challengeVars, ch, done>>
  BY Zenon DEF checkGPDNS
<1>2. Labels' = Labels /\ Lookups' = Lookups
  BY Zenon, <1>0, SameScenario
<1>3. Refused' <=> Refused
  BY Zenon, <1>0, SameVerdict
<1>4. CAATypes'
  BY Zenon, <1>0, <1>2 DEF Inv, TypeOK, CAATypes
<1>5. CAAInv'
  BY Zenon, <1>0, <1>2, <1>3 DEF Inv, CAAInv
<1>6. QuorumAgrees'
  BY Zenon, <1>0, <1>2 DEF Inv, QuorumAgrees
<1> QED
  BY Zenon, <1>0, <1>4, <1>5, <1>6, CAAStep

\* The send on ch keeps the invariant.
LEMMA ReportInv == ASSUME Inv, Report PROVE Inv'
<1>0. /\ caaStage = "report" /\ caaStage' = "ended" /\ ch' = Append(ch, CAAVerdict)
      /\ caa' = caa /\ gpdns' = gpdns /\ scenario' = scenario /\ done' = done
      /\ stage' = stage /\ lookups' = lookups /\ records' = records
      /\ dial' = dial /\ contacted' = contacted /\ answer' = answer /\ problem' = problem
  BY Zenon DEF Report, challengeVars
<1>1. Labels' = Labels /\ Lookups' = Lookups
  BY Zenon, <1>0, SameScenario
<1>2. (Refused' <=> Refused) /\ CAAVerdict' = CAAVerdict
  BY Zenon, <1>0, SameVerdict
<1>3. TypeOK'
  BY Zenon, <1>0, <1>1 DEF Inv, TypeOK, ChallengeTypes, CAATypes
<1>4. RecordsInv'
  BY Zenon, <1>0 DEF Inv, RecordsInv
<1>5. CAAInv'
  BY Zenon, <1>0, <1>1, <1>2 DEF Inv, CAAInv
<1>6. QuorumAgrees'
  BY Zenon, <1>0, <1>1 DEF Inv, QuorumAgrees
<1>7. (Proven' <=> Proven) /\ (RecordsSane' <=> RecordsSane)
  BY Zenon, <1>0 DEF Proven, RecordsSane
<1>8. VerdictInv /\ VerdictExact
  BY Zenon DEF Inv
<1>9. ch = <<>>
  BY Zenon, <1>0, <1>8 DEF VerdictInv
<1>10. ch' = <<CAAVerdict'>>
  BY <1>0, <1>2, <1>9
<1>11. VerdictInv' /\ VerdictExact'
  BY Zenon, <1>0, <1>7, <1>8, <1>10 DEF VerdictInv, VerdictExact
<1> QED
  BY Zenon, <1>3, <1>4, <1>5, <1>6, <1>11 DEF Inv

\* The end of PerformValidation keeps the invariant.
LEMMA validateChallengeAndCAAInv == ASSUME Inv, validateChallengeAndCAA PROVE Inv'
<1>0. /\ stage = "wait" /\ stage' = "done" /\ ch # <<>> /\ ch' = Tail(ch)
      /\ caa' = caa /\ caaStage' = caaStage /\ gpdns' = gpdns
      /\ scenario' = scenario /\ done' = done /\ lookups' = lookups /\ records' = records
      /\ dial' = dial /\ contacted' = contacted /\ answer' = answer
      /\ problem' = IF Head(ch) # None THEN Head(ch)
                    ELSE IF ~ RecordsSane THEN "serverInternal" ELSE None
  BY Zenon DEF validateChallengeAndCAA, caaVars
<1>1. CAATypes' /\ CAAInv' /\ QuorumAgrees' /\ CAAVerdict' = CAAVerdict
  BY Zenon, <1>0, CAAFrame
<1>2. TypeOK'
  BY Zenon, <1>0, <1>1 DEF Inv, TypeOK, ChallengeTypes, Stages
<1>3. RecordsInv'
  BY Zenon, <1>0 DEF Inv, RecordsInv
<1>4. Proven' <=> Proven
  BY Zenon, <1>0 DEF Proven
<1>5. Proven /\ RecordsSane /\ ch = <<CAAVerdict>> /\ caaStage = "ended"
  BY Zenon, <1>0 DEF Inv, VerdictInv
<1>6. ch' = <<>> /\ Head(ch) = CAAVerdict
  BY <1>0, <1>5
<1>7. problem' = None <=> CAAVerdict = None
  BY Zenon, <1>0, <1>5, <1>6
<1>8. VerdictInv' /\ VerdictExact'
  BY Zenon, <1>0, <1>1, <1>4, <1>5, <1>6, <1>7 DEF VerdictInv, VerdictExact
<1> QED
  BY Zenon, <1>1, <1>2, <1>3, <1>8 DEF Inv

\* The end of the context keeps the invariant.
LEMMA CancelInv == ASSUME Inv, Cancel PROVE Inv'
<1>1. /\ scenario' = scenario /\ stage' = stage /\ lookups' = lookups /\ records' = records
      /\ dial' = dial /\ contacted' = contacted /\ answer' = answer /\ problem' = problem
      /\ ch' = ch /\ done' = TRUE
  BY Zenon DEF Cancel, challengeVars
<1>2. ChallengeTypes'
  BY Zenon, <1>1 DEF Inv, TypeOK, ChallengeTypes
<1> QED
  BY Zenon, <1>1, <1>2, QuietStep DEF Cancel

\* c has heard what g had, n results, and then r.
Heard(g, r, c, n) ==
    /\ Good(g) \subseteq 1 .. n /\ DOMAIN g.heard = 1 .. n
    /\ DOMAIN c.heard = (1 .. n) \cup {n + 1}
    /\ \A k \in 1 .. n : c.heard[k] = g.heard[k] /\ k < n + 1 /\ ~ (n + 1 < k)
    /\ c.heard[n + 1] = r /\ ~ (n + 1 < n + 1)
    /\ r.err => /\ Good(c) = Good(g)
                /\ Cardinality(DOMAIN c.heard \ Good(c))
                     = Cardinality(DOMAIN g.heard \ Good(g)) + 1
    /\ ~ r.err => /\ Good(c) = Good(g) \cup {n + 1}
                  /\ DOMAIN c.heard \ Good(c) = DOMAIN g.heard \ Good(g)

\* Hearing one more result.
LEMMA HeardMore ==
    ASSUME NEW g \in Lookups, NEW r \in Replies, NEW c, c.heard = Append(g.heard, r)
    PROVE  \E n \in Nat : Heard(g, r, c, n)
<1>0. PICK n : n = Len(g.heard) /\ g.heard \in Seq(Replies)
  BY Zenon DEF Lookups
<1>1. /\ n \in Nat /\ DOMAIN g.heard = 1 .. n /\ DOMAIN c.heard = 1 .. n + 1
      /\ \A k \in 1 .. n : c.heard[k] = g.heard[k]
      /\ c.heard[n + 1] = r
  BY <1>0, LenProperties, AppendProperties
<1>2. /\ 1 .. n + 1 = (1 .. n) \cup {n + 1} /\ n + 1 \notin 1 .. n /\ ~ (n + 1 < n + 1)
      /\ \A k \in 1 .. n : k < n + 1 /\ ~ (n + 1 < k)
  BY <1>1
<1>3. Good(g) \subseteq 1 .. n
  BY <1>1, Zenon DEF Good
<1>4. IsFiniteSet(DOMAIN g.heard \ Good(g)) /\ Cardinality(DOMAIN g.heard \ Good(g)) \in Nat
  <2>1. 1 \in Int /\ n \in Int
    BY <1>1
  <2>2. IsFiniteSet(1 .. n)
    BY Zenon, <2>1, FS_Interval
  <2>3. DOMAIN g.heard \ Good(g) \subseteq 1 .. n
    BY Zenon, <1>1
  <2> QED
    BY Zenon, <2>2, <2>3, FS_Subset, FS_CardinalityType
<1>5. CASE r.err
  <2>1. Good(c) = Good(g)
    BY Zenon, <1>1, <1>2, <1>5 DEF Good
  <2>2. DOMAIN c.heard \ Good(c) = (DOMAIN g.heard \ Good(g)) \cup {n + 1}
    BY Zenon, <1>1, <1>2, <1>3, <2>1
  <2>3. n + 1 \notin DOMAIN g.heard \ Good(g)
    BY Zenon, <1>1, <1>2
  <2>4. Cardinality(DOMAIN c.heard \ Good(c)) = Cardinality(DOMAIN g.heard \ Good(g)) + 1
    BY Zenon, <1>4, <2>2, <2>3, FS_AddElement
  <2> QED
    BY Zenon, <1>1, <1>2, <1>3, <1>5, <2>1, <2>4 DEF Heard
<1>6. CASE ~ r.err
  <2>1. Good(c) = Good(g) \cup {n + 1}
    BY Zenon, <1>1, <1>2, <1>6 DEF Good
  <2>2. DOMAIN c.heard \ Good(c) = DOMAIN g.heard \ Good(g)
    BY Zenon, <1>1, <1>2, <1>3, <2>1
  <2> QED
    BY Zenon, <1>1, <1>2, <1>3, <1>6, <2>1, <2>2 DEF Heard
<1> QED
  BY Zenon, <1>5, <1>6

\* A lookup that is undecided would be decided for its records.
LEMMA UndecidedAgreed ==
    ASSUME NEW g, g.failed = Cardinality(DOMAIN g.heard \ Good(g)), Undecided(g) PROVE Agreed(g)
  BY Zenon DEF Undecided, Agreed

\* What a lookup has heard, counted and kept decides whether it is undecided and
\* whether its proxies agreed.
LEMMA SameHeard ==
    ASSUME NEW g, NEW h, h.heard = g.heard, h.failed = g.failed, h.CAAs = g.CAAs
    PROVE  Good(h) = Good(g) /\ (Undecided(h) <=> Undecided(g)) /\ (Agreed(h) <=> Agreed(g))
<1>1. Good(h) = Good(g)
  BY Zenon DEF Good
<1> QED
  BY Zenon, <1>1 DEF Undecided, Agreed

\* The fields of a lookup.
LEMMA LookupFields ==
    ASSUME NEW sent \in SUBSET Proxies, NEW channel \in Seq(Replies), NEW heard \in Seq(Replies),
           NEW failed \in Nat, NEW CAAs \in Kept,
           NEW result \in Returned
    PROVE  [sent |-> sent, channel |-> channel, heard |-> heard, failed |-> failed,
            CAAs |-> CAAs, result |-> result] \in Lookups
  BY Zenon DEF Lookups

\* A result that may be in the channel: an error comes without records.
LEMMA ReplyFacts ==
    ASSUME scenario \in Scenarios
    PROVE  \A r \in Replies : /\ Result(r) /\ r.err \in BOOLEAN /\ (r.err => r.records = {})
                              /\ r.records \in RecordSets
<1> SUFFICES ASSUME NEW r \in Replies
             PROVE  Result(r) /\ r.err \in BOOLEAN /\ (r.err => r.records = {})
                    /\ r.records \in RecordSets
  BY Zenon
<1>1. Result(r)
  BY ScenariosAssumption, Zenon DEF Replies, Result
<1>2. CASE r = LookupError
  <2>1. r.err = TRUE /\ r.records = {}
    BY Zenon, <1>2 DEF LookupError
  <2> QED
    BY Zenon, <1>1, <2>1 DEF RecordSets
<1>3. CASE \E s : r = Found(s)
  <2>1. r.err = FALSE
    BY <1>3 DEF Found
  <2> QED
    BY Zenon, <1>1, <2>1 DEF RecordSets
<1> QED
  BY Zenon, <1>1, <1>2, <1>3 DEF Result

\* The lookup after the next result.
Heeded(g, r, failed, channel, CAAs, result) ==
    [sent |-> g.sent, channel |-> channel, heard |-> Append(g.heard, r),
     failed |-> failed, CAAs |-> CAAs, result |-> result]

\* It has its type and counts its failures.
Counted(c, g, r, failed, CAAs, result) ==
    /\ c \in Lookups /\ c.sent = g.sent /\ c.CAAs = CAAs /\ c.result = result
    /\ c.heard = Append(g.heard, r) /\ c.failed = failed
    /\ failed \in Nat /\ failed = Cardinality(DOMAIN c.heard \ Good(c))

\* So it is after the next result.
LEMMA NextLookup ==
    ASSUME scenario \in Scenarios, NEW g \in Lookups, Tally(g), NEW r \in Replies,
           NEW failed, failed = IF r.err THEN g.failed + 1 ELSE g.failed,
           NEW channel \in Seq(Replies), NEW CAAs \in Kept,
           NEW result \in Returned,
           NEW c, c = Heeded(g, r, failed, channel, CAAs, result)
    PROVE  Counted(c, g, r, failed, CAAs, result)
<1>1. g.heard \in Seq(Replies) /\ g.failed \in Nat /\ g.sent \in SUBSET Proxies
  BY Zenon DEF Lookups
<1>2. PICK heard \in Seq(Replies) : heard = Append(g.heard, r)
  BY Zenon, <1>1, AppendProperties
<1>3. failed \in Nat
  BY <1>1
<1>4. c = [sent |-> g.sent, channel |-> channel, heard |-> heard,
           failed |-> failed, CAAs |-> CAAs, result |-> result]
  BY Zenon, <1>2 DEF Heeded
<1>5. c \in Lookups
  <2>1. [sent |-> g.sent, channel |-> channel, heard |-> heard,
         failed |-> failed, CAAs |-> CAAs, result |-> result] \in Lookups
    BY Zenon, <1>1, <1>3, LookupFields
  <2> QED
    BY Zenon, <1>4, <2>1
<1>6. /\ c.sent = g.sent /\ c.CAAs = CAAs /\ c.result = result
      /\ c.heard = Append(g.heard, r) /\ c.failed = failed
  BY <1>2, <1>4
<1>11. /\ r.err => Cardinality(DOMAIN c.heard \ Good(c)) = Cardinality(DOMAIN g.heard \ Good(g)) + 1
       /\ ~ r.err => DOMAIN c.heard \ Good(c) = DOMAIN g.heard \ Good(g)
  <2>1. PICK n \in Nat : Heard(g, r, c, n)
    BY Zenon, <1>6, HeardMore
  <2> QED
    BY Zenon, <2>1 DEF Heard
<1>12. failed = Cardinality(DOMAIN c.heard \ Good(c))
  BY Zenon, <1>11 DEF Tally
<1> QED
  BY Zenon, <1>3, <1>5, <1>6, <1>12 DEF Counted

\* What the loop makes of the next result: the failures, the records it keeps
\* and what it returns.
Weighed(g, r, failed, CAAs, result) ==
    \/ failed > maxFailures /\ result = <<LookupError>>
    \/ /\ ~ (failed > maxFailures) /\ g.CAAs = <<>> /\ result = <<>>
       /\ CAAs = IF r.err THEN <<>> ELSE <<r.records>>
    \/ g.CAAs # <<>> /\ r.records # g.CAAs[1] /\ result = <<LookupError>>
    \/ /\ ~ (failed > maxFailures) /\ g.CAAs # <<>> /\ result = <<>>
       /\ r.records = g.CAAs[1] /\ CAAs = g.CAAs

\* The loop goes one of these ways.
LEMMA CollectedCases ==
    ASSUME scenario \in Scenarios, NEW g \in Lookups, g.result = <<>>, g.channel # <<>>,
           NEW r \in Replies, NEW failed, failed = IF r.err THEN g.failed + 1 ELSE g.failed
    PROVE  \E channel \in Seq(Replies), CAAs \in Kept,
              result \in Returned :
             /\ Collected(g, r) = Heeded(g, r, failed, channel, CAAs, result)
             /\ Weighed(g, r, failed, CAAs, result)
<1>1. /\ g = [sent |-> g.sent, channel |-> g.channel, heard |-> g.heard, failed |-> g.failed,
              CAAs |-> g.CAAs, result |-> g.result]
      /\ g.channel \in Seq(Replies) /\ g.CAAs \in Kept
  BY Zenon DEF Lookups
<1>2. Tail(g.channel) \in Seq(Replies) /\ <<>> \in Seq(Replies)
  BY <1>1
<1>3. r.records \in RecordSets
  BY Zenon DEF RecordSets
<1>4. CASE failed > maxFailures
  <2>1. Collected(g, r) = [sent |-> g.sent, channel |-> <<>>, heard |-> Append(g.heard, r),
                           failed |-> failed, CAAs |-> g.CAAs, result |-> <<LookupError>>]
    BY Zenon, <1>1, <1>4 DEF Collected
  <2> QED
    BY Zenon, <1>1, <1>2, <1>4, <2>1 DEF Weighed, Heeded, Returned
<1>5. CASE ~ (failed > maxFailures) /\ g.CAAs = <<>>
  <2>1. PICK CAAs : CAAs = IF r.err THEN <<>> ELSE <<r.records>>
    BY Zenon
  <2>2. CAAs \in Kept
    BY Zenon, <1>3, <2>1 DEF Kept
  <2>3. Collected(g, r) = [sent |-> g.sent, channel |-> Tail(g.channel),
                           heard |-> Append(g.heard, r), failed |-> failed,
                           CAAs |-> CAAs, result |-> <<>>]
    BY Zenon, <1>1, <1>5, <2>1 DEF Collected
  <2> QED
    BY Zenon, <1>2, <1>5, <2>1, <2>2, <2>3 DEF Weighed, Heeded, Returned
<1>6. CASE ~ (failed > maxFailures) /\ g.CAAs # <<>> /\ r.records # g.CAAs[1]
  <2>1. Collected(g, r) = [sent |-> g.sent, channel |-> <<>>, heard |-> Append(g.heard, r),
                           failed |-> failed, CAAs |-> g.CAAs, result |-> <<LookupError>>]
    BY Zenon, <1>1, <1>6 DEF Collected
  <2> QED
    BY Zenon, <1>1, <1>2, <1>6, <2>1 DEF Weighed, Heeded, Returned
<1>7. CASE ~ (failed > maxFailures) /\ g.CAAs # <<>> /\ r.records = g.CAAs[1]
  <2>1. Collected(g, r) = [sent |-> g.sent, channel |-> Tail(g.channel),
                           heard |-> Append(g.heard, r), failed |-> failed,
                           CAAs |-> g.CAAs, result |-> <<>>]
    BY Zenon, <1>1, <1>7 DEF Collected
  <2> QED
    BY Zenon, <1>1, <1>2, <1>7, <2>1 DEF Weighed, Heeded, Returned
<1> QED
  BY Zenon, <1>4, <1>5, <1>6, <1>7

\* Too many failures: the proxies did not agree.
LEMMA TooManyFailures ==
    ASSUME NEW c, NEW failed \in Nat, failed = Cardinality(DOMAIN c.heard \ Good(c)),
           failed > maxFailures
    PROVE  ~ Agreed(c)
<1>1. ~ (failed <= maxFailures)
  BY ValidationAssumption
<1> QED
  BY Zenon, <1>1 DEF Agreed

\* The first records, or another failure before there are any.
LEMMA FirstRecords ==
    ASSUME scenario \in Scenarios, NEW g \in Lookups, Undecided(g), NEW r \in Replies, NEW c,
           c.heard = Append(g.heard, r), c.failed <= maxFailures, g.CAAs = <<>>,
           c.CAAs = IF r.err THEN <<>> ELSE <<r.records>>
    PROVE  Undecided(c)
<1>1. PICK n \in Nat : Heard(g, r, c, n)
  BY Zenon, HeardMore
<1>2. Good(g) = {} /\ r.err \in BOOLEAN
  BY Zenon, ReplyFacts DEF Undecided
<1>3. CASE r.err
  <2>1. Good(c) = {} /\ c.CAAs = <<>>
    BY Zenon, <1>1, <1>2, <1>3 DEF Heard
  <2> QED
    BY Zenon, <2>1 DEF Undecided
<1>4. CASE ~ r.err
  <2>1. PICK a : a = r.records
    BY Zenon
  <2>2. c.CAAs = <<a>>
    BY Zenon, <1>4, <2>1
  <2>3. c.CAAs # <<>> /\ c.CAAs[1] = a
    <3>1. <<a>> # <<>> /\ <<a>>[1] = a
      BY Zenon
    <3> QED
      BY Zenon, <2>2, <3>1
  <2>4. Good(c) = {n + 1} /\ c.heard[n + 1] = r
    BY Zenon, <1>1, <1>2, <1>4 DEF Heard
  <2>5. \A k \in DOMAIN c.heard : ~ (n + 1 < k)
    BY Zenon, <1>1 DEF Heard
  <2> QED
    BY Zenon, <2>1, <2>3, <2>4, <2>5 DEF Undecided
<1> QED
  BY Zenon, <1>2, <1>3, <1>4

\* Records that differ from those the loop kept, or a failure that is compared
\* with them: the proxies did not agree.
LEMMA OtherRecords ==
    ASSUME scenario \in Scenarios, NEW g \in Lookups, Undecided(g), NEW r \in Replies, NEW c,
           c.heard = Append(g.heard, r), g.CAAs # <<>>, r.records # g.CAAs[1]
    PROVE  ~ Agreed(c)
<1>1. PICK n \in Nat : Heard(g, r, c, n)
  BY Zenon, HeardMore
<1>2. PICK a : a = g.CAAs[1]
  BY Zenon
<1>3. PICK j \in Good(g) : g.heard[j].records = a
  BY Zenon, <1>2 DEF Undecided
<1>4. /\ j \in 1 .. n /\ c.heard[j] = g.heard[j] /\ j < n + 1 /\ c.heard[n + 1] = r
      /\ n + 1 \in DOMAIN c.heard
  BY Zenon, <1>1, <1>3 DEF Heard
<1>5. r.err \in BOOLEAN /\ (r.err => r.records = {})
  BY Zenon, ReplyFacts
<1>6. CASE r.err
  <2>1. Good(c) = Good(g)
    BY Zenon, <1>1, <1>6 DEF Heard
  <2> QED
    BY Zenon, <1>2, <1>3, <1>4, <1>5, <1>6, <2>1 DEF Agreed
<1>7. CASE ~ r.err
  <2>1. Good(c) = Good(g) \cup {n + 1}
    BY Zenon, <1>1, <1>7 DEF Heard
  <2> QED
    BY Zenon, <1>2, <1>3, <1>4, <2>1 DEF Agreed
<1> QED
  BY Zenon, <1>5, <1>6, <1>7

\* The same records once more.
LEMMA SameRecords ==
    ASSUME scenario \in Scenarios, NEW g \in Lookups, Undecided(g), NEW r \in Replies, NEW c,
           c.heard = Append(g.heard, r), c.failed <= maxFailures, g.CAAs # <<>>,
           r.records = g.CAAs[1], c.CAAs = g.CAAs
    PROVE  Undecided(c)
<1>1. PICK n \in Nat : Heard(g, r, c, n)
  BY Zenon, HeardMore
<1>2. PICK a : a = g.CAAs[1]
  BY Zenon
<1>3. /\ Good(g) # {} /\ r.records = a /\ c.CAAs[1] = a /\ c.CAAs # <<>>
      /\ \A k \in Good(g) : g.heard[k].records = a
      /\ \A j \in Good(g), k \in DOMAIN g.heard : g.heard[k].err /\ j < k => a = {}
  BY Zenon, <1>2 DEF Undecided
<1>4. r.err \in BOOLEAN /\ (r.err => r.records = {})
  BY Zenon, ReplyFacts
<1>5. /\ DOMAIN c.heard = (1 .. n) \cup {n + 1} /\ Good(g) \subseteq 1 .. n
      /\ DOMAIN g.heard = 1 .. n /\ c.heard[n + 1] = r
      /\ \A k \in 1 .. n : c.heard[k] = g.heard[k]
      /\ \A k \in DOMAIN c.heard : ~ (n + 1 < k)
  BY Zenon, <1>1 DEF Heard
<1>6. CASE r.err
  <2>1. Good(c) = Good(g) /\ a = {}
    BY Zenon, <1>1, <1>3, <1>4, <1>6 DEF Heard
  <2>2. \A k \in Good(c) : c.heard[k].records = a
    BY Zenon, <1>3, <1>5, <2>1
  <2> QED
    BY Zenon, <1>3, <2>1, <2>2 DEF Undecided
<1>7. CASE ~ r.err
  <2>1. Good(c) = Good(g) \cup {n + 1}
    BY Zenon, <1>1, <1>7 DEF Heard
  <2>2. \A k \in Good(c) : c.heard[k].records = a
    BY Zenon, <1>3, <1>5, <2>1
  <2>3. ASSUME NEW j \in Good(c), NEW k \in DOMAIN c.heard, c.heard[k].err, j < k
        PROVE  a = {}
    <3>1. j \in Good(g)
      BY Zenon, <1>5, <2>1, <2>3
    <3>2. k \in 1 .. n
      BY Zenon, <1>5, <1>7, <2>3
    <3> QED
      BY Zenon, <1>3, <1>5, <2>3, <3>1, <3>2
  <2> QED
    BY Zenon, <1>3, <2>1, <2>2, <2>3 DEF Undecided
<1> QED
  BY Zenon, <1>4, <1>6, <1>7

\* The lookup the loop is left with: it counts its failures, and it goes on
\* undecided or fails because the proxies did not agree.
LEMMA CollectedTally ==
    ASSUME scenario \in Scenarios, NEW g \in Lookups, Tally(g), g.result = <<>>,
           g.channel # <<>>, NEW r \in Replies
    PROVE  \E c \in Lookups :
             /\ c = Collected(g, r) /\ c.sent = g.sent
             /\ c.failed = Cardinality(DOMAIN c.heard \ Good(c))
             /\ \/ c.result = <<>> /\ Undecided(c)
                \/ c.result = <<LookupError>> /\ ~ Agreed(c)
<1>1. PICK failed : failed = IF r.err THEN g.failed + 1 ELSE g.failed
  BY Zenon
<1>2. PICK channel \in Seq(Replies), CAAs \in Kept,
           result \in Returned :
             /\ Collected(g, r) = Heeded(g, r, failed, channel, CAAs, result)
             /\ Weighed(g, r, failed, CAAs, result)
  BY Zenon, <1>1, CollectedCases
<1>3. PICK c : c = Heeded(g, r, failed, channel, CAAs, result)
  BY Zenon
<1>4. /\ c \in Lookups /\ c.sent = g.sent /\ c.CAAs = CAAs /\ c.result = result
      /\ c.heard = Append(g.heard, r) /\ c.failed = failed
      /\ failed \in Nat /\ failed = Cardinality(DOMAIN c.heard \ Good(c))
  <2>1. Counted(c, g, r, failed, CAAs, result)
    BY Zenon, <1>1, <1>3, NextLookup
  <2> QED
    BY Zenon, <2>1 DEF Counted
<1>5. Undecided(g)
  BY Zenon DEF Tally
<1>6. \/ c.result = <<>> /\ Undecided(c)
      \/ c.result = <<LookupError>> /\ ~ Agreed(c)
  <2>0. ~ (failed > maxFailures) => c.failed <= maxFailures
    BY <1>4, ValidationAssumption
  <2>1. CASE failed > maxFailures /\ result = <<LookupError>>
    BY Zenon, <1>4, <2>1, TooManyFailures
  <2>2. CASE /\ ~ (failed > maxFailures) /\ g.CAAs = <<>> /\ result = <<>>
             /\ CAAs = IF r.err THEN <<>> ELSE <<r.records>>
    BY Zenon, <1>4, <1>5, <2>0, <2>2, FirstRecords
  <2>3. CASE g.CAAs # <<>> /\ r.records # g.CAAs[1] /\ result = <<LookupError>>
    BY Zenon, <1>4, <1>5, <2>3, OtherRecords
  <2>4. CASE /\ ~ (failed > maxFailures) /\ g.CAAs # <<>> /\ result = <<>>
             /\ r.records = g.CAAs[1] /\ CAAs = g.CAAs
    BY Zenon, <1>4, <1>5, <2>0, <2>4, SameRecords
  <2> QED
    BY Zenon, <1>2, <2>1, <2>2, <2>3, <2>4 DEF Weighed
<1> QED
  BY Zenon, <1>2, <1>3, <1>4, <1>6

\* A lookup that has ended says whether its proxies agreed.
Exact(g) == g.result # <<>> => (~ g.result[1].err <=> Agreed(g))

\* The distributed lookup of one label goes on.
LEMMA LookupStep ==
    ASSUME Inv, NEW i \in Labels, NEW h \in Lookups, gpdns' = [gpdns EXCEPT ![i] = h],
           UNCHANGED <<scenario, challengeVars, caa, caaStage, ch, done>>,
           Tally(h), Exact(h),
           caaStage = "gpdns" \/ (gpdns[i].sent # {} /\ h.result = gpdns[i].result)
    PROVE  Inv'
<1>0. /\ scenario' = scenario /\ caa' = caa /\ caaStage' = caaStage
      /\ UNCHANGED <<scenario, challengeVars, ch, done>>
  BY Zenon
<1>1. Labels' = Labels /\ Lookups' = Lookups
  BY Zenon, <1>0, SameScenario
<1>2. /\ gpdns \in [Labels -> Lookups] /\ CAATypes /\ CAAInv /\ QuorumAgrees
  BY Zenon DEF Inv, TypeOK, CAATypes
<1>3. gpdns' \in [Labels -> Lookups] /\ gpdns'[i] = h /\ \A j \in Labels \ {i} : gpdns'[j] = gpdns[j]
  BY Zenon, <1>2
<1>4. CAATypes'
  BY Zenon, <1>0, <1>1, <1>2, <1>3 DEF CAATypes
<1>5. Refused' <=> Refused
  <2>1. LocalResults' = LocalResults
    BY Zenon, <1>0, <1>1 DEF LocalResults, LookupCAA
  <2> QED
    BY Zenon, <2>1 DEF Refused
<1>6. Refused /\ caaStage # "lookup"
  BY Zenon, <1>2 DEF CAAInv
<1>7. CAAInv'
  <2>1. \A j \in Labels : Tally(gpdns'[j])
    BY Zenon, <1>2, <1>3 DEF CAAInv
  <2> QED
    BY Zenon, <1>0, <1>1, <1>5, <1>6, <2>1 DEF CAAInv
<1>8. QuorumAgrees'
  BY Zenon, <1>1, <1>2, <1>3 DEF QuorumAgrees, Exact
<1>9. CASE caaStage = "gpdns"
  BY Zenon, <1>0, <1>4, <1>7, <1>8, <1>9, CAAStep
<1>10. CASE h.result = gpdns[i].result
  <2>1. \A j \in Labels : gpdns'[j].result = gpdns[j].result
    BY Zenon, <1>3, <1>10
  <2>2. CAAVerdict' = CAAVerdict
    BY Zenon, <1>0, <2>1, SameVerdict
  <2> QED
    BY Zenon, <1>0, <1>4, <1>7, <1>8, <2>2, CAAStep
<1> QED
  BY Zenon, <1>9, <1>10

\* A query that a proxy answers keeps the invariant.
LEMMA queryCAAInv ==
    ASSUME Inv, NEW i \in Labels, NEW p \in Proxies, queryCAA(i, p) PROVE Inv'
<1>1. PICK o \in scenario.answers \cup (IF done THEN {LookupError} ELSE {}) :
        gpdns' = [gpdns EXCEPT ![i].sent = @ \cup {p},
                               ![i].channel = IF gpdns[i].result = <<>> THEN Append(@, o) ELSE @]
  BY Zenon DEF queryCAA
<1>2. o \in Replies
  BY Zenon, <1>1 DEF Replies
<1>3. PICK g \in Lookups : g = gpdns[i]
  BY Zenon DEF Inv, TypeOK, CAATypes
<1>4. /\ g = [sent |-> g.sent, channel |-> g.channel, heard |-> g.heard, failed |-> g.failed,
              CAAs |-> g.CAAs, result |-> g.result]
      /\ g.sent \in SUBSET Proxies /\ g.channel \in Seq(Replies) /\ g.heard \in Seq(Replies)
      /\ g.failed \in Nat /\ g.CAAs \in Kept /\ g.result \in Returned
  BY Zenon DEF Lookups
<1>5. PICK channel \in Seq(Replies) :
        channel = IF g.result = <<>> THEN Append(g.channel, o) ELSE g.channel
  BY Zenon, <1>2, <1>4, AppendProperties
<1>6. PICK sent \in SUBSET Proxies : sent = g.sent \cup {p}
  BY Zenon, <1>4
<1>7. PICK h : h = [sent |-> sent, channel |-> channel, heard |-> g.heard, failed |-> g.failed,
                    CAAs |-> g.CAAs, result |-> g.result]
  BY Zenon
<1>8. h \in Lookups
  <2>1. [sent |-> sent, channel |-> channel, heard |-> g.heard, failed |-> g.failed,
         CAAs |-> g.CAAs, result |-> g.result] \in Lookups
    BY Zenon, <1>4, LookupFields
  <2> QED
    BY Zenon, <1>7, <2>1
<1>9. gpdns' = [gpdns EXCEPT ![i] = h]
  <2>1. gpdns \in [Labels -> Lookups]
    BY Zenon DEF Inv, TypeOK, CAATypes
  <2>2. gpdns' = [gpdns EXCEPT ![i].sent = @ \cup {p}, ![i].channel = channel]
    BY Zenon, <1>1, <1>3, <1>5
  <2>3. gpdns' = [gpdns EXCEPT ![i] = [[g EXCEPT !.sent = sent] EXCEPT !.channel = channel]]
    BY Zenon, <1>3, <1>6, <2>1, <2>2
  <2>4. PICK a, b, c, d, e, f :
          g = [sent |-> a, channel |-> b, heard |-> c, failed |-> d, CAAs |-> e, result |-> f]
    BY Zenon, <1>4
  <2>5. [g EXCEPT !.sent = sent]
          = [sent |-> sent, channel |-> b, heard |-> c, failed |-> d, CAAs |-> e, result |-> f]
    BY <2>4
  <2>6. [[sent |-> sent, channel |-> b, heard |-> c, failed |-> d, CAAs |-> e, result |-> f]
          EXCEPT !.channel = channel]
          = [sent |-> sent, channel |-> channel, heard |-> c, failed |-> d, CAAs |-> e,
             result |-> f]
    OBVIOUS
  <2>7. g.heard = c /\ g.failed = d /\ g.CAAs = e /\ g.result = f
    BY Zenon, <2>4
  <2> QED
    BY Zenon, <1>7, <2>3, <2>5, <2>6, <2>7
<1>10. h.heard = g.heard /\ h.failed = g.failed /\ h.CAAs = g.CAAs /\ h.result = g.result
  BY Zenon, <1>7
<1>11. Good(h) = Good(g) /\ (Undecided(h) <=> Undecided(g)) /\ (Agreed(h) <=> Agreed(g))
  BY Zenon, <1>10, SameHeard
<1>12. Tally(g) /\ Exact(g)
  BY Zenon, <1>3 DEF Inv, CAAInv, QuorumAgrees, Exact
<1>13. Tally(h) /\ Exact(h)
  BY Zenon, <1>10, <1>11, <1>12 DEF Tally, Exact
<1>14. UNCHANGED <<scenario, challengeVars, caa, caaStage, ch, done>>
  BY Zenon DEF queryCAA
<1>15. caaStage = "gpdns" \/ (gpdns[i].sent # {} /\ h.result = gpdns[i].result)
  BY Zenon, <1>3, <1>10 DEF queryCAA
<1> QED
  BY Zenon, <1>8, <1>9, <1>13, <1>14, <1>15, LookupStep

\* What the loop returns after the last result.
LEMMA LastResult ==
    ASSUME scenario \in Scenarios, NEW c \in Lookups, c.result = <<>>, Undecided(c),
           c.failed = Cardinality(DOMAIN c.heard \ Good(c)), NEW h,
           h = [c EXCEPT !.result = <<Found(IF c.CAAs = <<>> THEN {} ELSE c.CAAs[1])>>]
    PROVE  h \in Lookups /\ Tally(h) /\ Exact(h)
<1>1. /\ c = [sent |-> c.sent, channel |-> c.channel, heard |-> c.heard, failed |-> c.failed,
              CAAs |-> c.CAAs, result |-> c.result]
      /\ c.sent \in SUBSET Proxies /\ c.channel \in Seq(Replies) /\ c.heard \in Seq(Replies)
      /\ c.failed \in Nat /\ c.CAAs \in Kept
  BY Zenon DEF Lookups
<1>2. PICK s : s = IF c.CAAs = <<>> THEN {} ELSE c.CAAs[1]
  BY Zenon
<1>3. s \in RecordSets
  <2>1. CASE c.CAAs = <<>>
    <3>1. LookupError.records = {} /\ LookupError \in Replies
      BY Zenon DEF LookupError, Replies
    <3> QED
      BY Zenon, <1>2, <2>1, <3>1 DEF RecordSets
  <2>2. CASE c.CAAs # <<>>
    <3>1. PICK t \in RecordSets : c.CAAs = <<t>>
      BY Zenon, <1>1, <2>2 DEF Kept
    <3>2. <<t>>[1] = t
      BY Zenon
    <3> QED
      BY Zenon, <1>2, <2>2, <3>1, <3>2
  <2> QED
    BY Zenon, <2>1, <2>2
<1>4. PICK result \in Returned : result = <<Found(s)>>
  BY Zenon, <1>3 DEF Returned
<1>5. h = [sent |-> c.sent, channel |-> c.channel, heard |-> c.heard, failed |-> c.failed,
           CAAs |-> c.CAAs, result |-> result]
  <2>1. h = [c EXCEPT !.result = result]
    BY Zenon, <1>2, <1>4
  <2> QED
    BY Zenon, <1>1, <2>1
<1>6. h \in Lookups
  <2>1. [sent |-> c.sent, channel |-> c.channel, heard |-> c.heard, failed |-> c.failed,
         CAAs |-> c.CAAs, result |-> result] \in Lookups
    BY Zenon, <1>1, LookupFields
  <2> QED
    BY Zenon, <1>5, <2>1
<1>7. /\ h.heard = c.heard /\ h.failed = c.failed /\ h.CAAs = c.CAAs /\ h.result = <<Found(s)>>
  BY <1>4, <1>5
<1>8. Good(h) = Good(c) /\ (Agreed(h) <=> Agreed(c))
  BY Zenon, <1>7, SameHeard
<1>9. Agreed(c)
  BY Zenon, UndecidedAgreed
<1>10. <<Found(s)>> # <<>> /\ <<Found(s)>>[1] = Found(s) /\ Found(s).err = FALSE
  BY Zenon DEF Found
<1>11. h.result # <<>> /\ h.result[1].err = FALSE
  BY Zenon, <1>7, <1>10
<1> QED
  BY Zenon, <1>6, <1>7, <1>8, <1>9, <1>11 DEF Tally, Exact

\* The collecting loop keeps the invariant.
LEMMA CollectInv == ASSUME Inv, NEW i \in Labels, Collect(i) PROVE Inv'
<1>1. PICK g \in Lookups : g = gpdns[i]
  BY Zenon DEF Inv, TypeOK, CAATypes
<1>2. scenario \in Scenarios /\ gpdns \in [Labels -> Lookups] /\ Tally(g)
  BY Zenon, <1>1 DEF Inv, TypeOK, CAATypes, CAAInv
<1>3. /\ caaStage = "gpdns" /\ g.result = <<>> /\ g.channel # <<>>
      /\ UNCHANGED <<scenario, challengeVars, caa, caaStage, ch, done>>
  BY Zenon, <1>1 DEF Collect
<1>4. PICK r \in Replies : r = Head(g.channel)
  <2>1. g.channel \in Seq(Replies)
    BY Zenon DEF Lookups
  <2> QED
    BY <1>3, <2>1
<1>5. PICK c \in Lookups :
             /\ c = Collected(g, r)
             /\ c.failed = Cardinality(DOMAIN c.heard \ Good(c))
             /\ \/ c.result = <<>> /\ Undecided(c)
                \/ c.result = <<LookupError>> /\ ~ Agreed(c)
  BY Zenon, <1>2, <1>3, CollectedTally
<1>6. PICK h : h = [c EXCEPT !.result = <<Found(IF c.CAAs = <<>> THEN {} ELSE c.CAAs[1])>>]
  BY Zenon
<1>7. gpdns' = [gpdns EXCEPT ![i] = IF c.result = <<>> /\ Len(c.heard) = Cardinality(Proxies)
                                    THEN h ELSE c]
  BY Zenon, <1>1, <1>4, <1>5, <1>6 DEF Collect
<1>8. CASE c.result = <<>> /\ Undecided(c) /\ Len(c.heard) = Cardinality(Proxies)
  <2>1. h \in Lookups /\ Tally(h) /\ Exact(h)
    BY Zenon, <1>2, <1>5, <1>6, <1>8, LastResult
  <2>2. gpdns' = [gpdns EXCEPT ![i] = h]
    BY Zenon, <1>7, <1>8
  <2> QED
    BY Zenon, <1>3, <2>1, <2>2, LookupStep
<1>9. CASE c.result = <<>> /\ Undecided(c) /\ Len(c.heard) # Cardinality(Proxies)
  <2>1. Tally(c) /\ Exact(c)
    BY Zenon, <1>5, <1>9 DEF Tally, Exact
  <2>2. gpdns' = [gpdns EXCEPT ![i] = c]
    BY Zenon, <1>7, <1>9
  <2> QED
    BY Zenon, <1>3, <1>5, <2>1, <2>2, LookupStep
<1>10. CASE c.result = <<LookupError>> /\ ~ Agreed(c)
  <2>1. <<LookupError>> # <<>> /\ <<LookupError>>[1] = LookupError /\ LookupError.err = TRUE
    BY Zenon DEF LookupError
  <2>2. c.result # <<>> /\ c.result[1].err = TRUE
    BY Zenon, <1>10, <2>1
  <2>3. Tally(c) /\ Exact(c)
    BY Zenon, <1>5, <1>10, <2>2 DEF Tally, Exact
  <2>4. gpdns' = [gpdns EXCEPT ![i] = c]
    BY Zenon, <1>7, <2>2
  <2> QED
    BY Zenon, <1>3, <1>5, <2>3, <2>4, LookupStep
<1> QED
  BY Zenon, <1>5, <1>8, <1>9, <1>10

-----------------------------------------------------------------------------
(***************************************************************************)
(* The specification.                                                      *)
(***************************************************************************)
\* The invariant holds initially.
LEMMA InitInv == ASSUME Init PROVE Inv
<1>1. ChallengeTypes
  <2>1. \A q \in Queries : Unasked \in Exchanges(scenario.dns[q])
    BY Zenon, NewExchanges
  <2> QED
    BY <2>1 DEF Init, ChallengeTypes, Stages, Queries
<1>2. PICK g : g = [sent |-> {}, channel |-> <<>>, heard |-> <<>>, failed |-> 0,
                    CAAs |-> <<>>, result |-> <<>>]
  BY Zenon
<1>3. g \in Lookups
  <2>1. {} \in SUBSET Proxies /\ <<>> \in Seq(Replies) /\ 0 \in Nat
    OBVIOUS
  <2>2. <<>> \in Kept /\ <<>> \in Returned
    BY Zenon DEF Kept, Returned
  <2> QED
    BY Zenon, <1>2, <2>1, <2>2, LookupFields
<1>4. gpdns = [i \in Labels |-> g]
  BY Zenon, <1>2 DEF Init
<1>5. CAATypes
  <2>1. Asked \in Exchanges(scenario.caa)
    BY Zenon, NewExchanges
  <2> QED
    BY Zenon, <1>3, <1>4, <2>1 DEF Init, CAATypes
<1>6. Tally(g)
  <2>1. /\ g.heard = <<>> /\ g.failed = 0 /\ g.CAAs = <<>> /\ DOMAIN g.heard = {}
        /\ 0 <= maxFailures
    BY <1>2, ValidationAssumption
  <2>2. Good(g) = {} /\ DOMAIN g.heard \ Good(g) = {}
    BY Zenon, <2>1 DEF Good
  <2>3. Cardinality(DOMAIN g.heard \ Good(g)) = 0
    BY Zenon, <2>2, FS_EmptySet
  <2>4. Undecided(g)
    BY Zenon, <2>1, <2>2 DEF Undecided
  <2> QED
    BY Zenon, <2>1, <2>3, <2>4 DEF Tally
<1>7. \A i \in Labels : gpdns[i].sent = {} /\ gpdns[i].result = <<>> /\ Tally(gpdns[i])
  <2>1. g.sent = {} /\ g.result = <<>>
    BY Zenon, <1>2
  <2>2. \A i \in Labels : gpdns[i] = g
    BY Zenon, <1>4
  <2> QED
    BY Zenon, <1>6, <2>1, <2>2
<1>8. CAAInv /\ QuorumAgrees
  BY Zenon, <1>7 DEF Init, CAAInv, QuorumAgrees
<1>9. RecordsInv
  BY DEF Init, RecordsInv
<1>10. ~ Proven
  <2>1. answer.kind = "none"
    BY Zenon DEF Init, Outcome, None
  <2> QED
    BY Zenon, <2>1 DEF Proven
<1>11. VerdictInv /\ VerdictExact
  BY Zenon, <1>10 DEF Init, VerdictInv, VerdictExact
<1> QED
  BY Zenon, <1>1, <1>5, <1>8, <1>9, <1>11 DEF Init, Inv, TypeOK

\* Every step keeps the invariant.
LEMMA NextInv == ASSUME Inv, [Next]_vars PROVE Inv'
<1>1. CASE UNCHANGED vars
  <2>0. /\ scenario' = scenario /\ stage' = stage /\ lookups' = lookups /\ records' = records
        /\ dial' = dial /\ contacted' = contacted /\ answer' = answer /\ problem' = problem
        /\ ch' = ch /\ done' = done
        /\ UNCHANGED caaVars
    BY Zenon, <1>1 DEF vars, caaVars
  <2>1. ChallengeTypes' /\ done' \in BOOLEAN
    BY Zenon, <2>0 DEF Inv, TypeOK, ChallengeTypes
  <2> QED
    BY Zenon, <2>0, <2>1, QuietStep
<1>2. CASE validateChallenge
  BY Zenon, <1>2, validateChallengeInv
<1>3. CASE resolveAndConstructDialer
  BY Zenon, <1>3, resolveAndConstructDialerInv
<1>4. CASE Dial
  BY Zenon, <1>4, DialInv
<1>5. CASE Unreachable
  BY Zenon, <1>5, UnreachableInv
<1>6. CASE fetchHTTP
  BY Zenon, <1>6, fetchHTTPInv
<1>7. CASE validateHTTP01
  BY Zenon, <1>7, validateHTTP01Inv
<1>8. CASE getTLSSNICerts
  BY Zenon, <1>8, getTLSSNICertsInv
<1>9. CASE validateDNS01
  BY Zenon, <1>9, validateDNS01Inv
<1>10. ASSUME NEW q \in DOMAIN lookups, Exchange(q) PROVE Inv'
  BY Zenon, <1>10, ExchangeInv
<1>11. ASSUME NEW i \in Labels, ExchangeCAA(i) PROVE Inv'
  BY Zenon, <1>11, ExchangeCAAInv
<1>12. ASSUME NEW i \in Labels, Collect(i) PROVE Inv'
  BY Zenon, <1>12, CollectInv
<1>13. ASSUME NEW i \in Labels, NEW p \in Proxies, queryCAA(i, p) PROVE Inv'
  BY Zenon, <1>13, queryCAAInv
<1>14. CASE checkCAA
  BY Zenon, <1>14, checkCAAInv
<1>15. CASE checkGPDNS
  BY Zenon, <1>15, checkGPDNSInv
<1>16. CASE Report
  BY Zenon, <1>16, ReportInv
<1>17. CASE validateChallengeAndCAA
  BY Zenon, <1>17, validateChallengeAndCAAInv
<1>18. CASE Cancel
  BY Zenon, <1>18, CancelInv
<1> QED
  BY Zenon, <1>1, <1>2, <1>3, <1>4, <1>5, <1>6, <1>7, <1>8, <1>9, <1>10, <1>11, <1>12, <1>13,
     <1>14, <1>15, <1>16, <1>17, <1>18 DEF Next

\* The inductive invariant of PerformValidation: the variables have their types,
\* the records follow the dialled addresses, nobody asks the proxies before the
\* local check has found a problem, each lookup keeps and counts what its proxies
\* answered, and the answer, the problem and the channel fit the stage.
THEOREM Invariance == Spec => []Inv
<1>1. Init => Inv
  BY Zenon, InitInv
<1>2. Inv /\ [Next]_vars => Inv'
  BY Zenon, NextInv
<1> QED
  BY <1>1, <1>2, PTL DEF Spec

\* PerformValidation finds no problem exactly when the server proved control of
\* the key and the CAA goroutine has ended without a problem.
THEOREM VerdictCorrect == Spec => []VerdictExact
<1>1. Inv => VerdictExact
  BY Zenon DEF Inv
<1> QED
  BY <1>1, Invariance, PTL

\* The distributed lookup of a label returns records exactly when its proxies
\* agreed.
THEOREM QuorumCorrect == Spec => []QuorumAgrees
<1>1. Inv => QuorumAgrees
  BY Zenon DEF Inv
<1> QED
  BY <1>1, Invariance, PTL

\* Every address that was dialled is the one in the record of its hop, and the
\* first public one of that hop's host.
THEOREM AddressesCorrect == Spec => []AddressesRecorded
<1>1. Inv => AddressesRecorded
  BY Zenon DEF Inv, RecordsInv, Complete, AddressesRecorded
<1> QED
  BY <1>1, Invariance, PTL

\* What a local lookup returns is a result.
LEMMA LookupResult == ASSUME NEW x PROVE Result(LookupCAA(x))
<1>1. \A s : Found(s) = Found(Found(s).records)
  BY Zenon DEF Found
<1>2. LookupCAA(x) = LookupError \/ \E s : LookupCAA(x) = Found(s)
  BY Zenon DEF LookupCAA
<1> QED
  BY Zenon, <1>1, <1>2 DEF Result

\* The parallel lookups of the CAA records decide as a climb one label at a time
\* would, and the distributed resolver's verdict replaces a refusal only.
THEOREM ClimbCorrect == Spec => []ClosestRecordsDecide
<1>1. ASSUME Inv PROVE ClosestRecordsDecide
  <2>0. scenario \in Scenarios /\ gpdns \in [Labels -> Lookups] /\ CAAInv
    BY Zenon, <1>1 DEF Inv, TypeOK, CAATypes
  <2>1. PICK n \in Nat : Labels = 1 .. n /\ 1 \in Labels
    BY Zenon, <2>0, LabelsFacts
  <2>2. CAAProblem(parseResults(LocalResults)) = None <=> Permits(LocalResults)
    <3>1. LocalResults = [i \in 1 .. n |-> LocalResults[i]]
      BY Zenon, <2>1 DEF LocalResults
    <3>2. \A i \in 1 .. n : Result(LocalResults[i])
      BY Zenon, <2>1, LookupResult DEF LocalResults
    <3> QED
      BY Zenon, <3>1, <3>2, ClimbDecides
  <2>3. CASE \A i \in Labels : gpdns[i].result # <<>>
    <3>1. GPDNSResults = [i \in 1 .. n |-> GPDNSResults[i]]
      BY Zenon, <2>1 DEF GPDNSResults
    <3>2. \A i \in 1 .. n : Result(GPDNSResults[i])
      <4> SUFFICES ASSUME NEW i \in Labels PROVE Result(GPDNSResults[i])
        BY Zenon, <2>1
      <4>1. PICK w \in Returned : w = gpdns[i].result /\ w # <<>>
        <5>1. gpdns[i].result \in Returned
          BY Zenon, <2>0 DEF Lookups
        <5> QED
          BY Zenon, <2>3, <5>1
      <4>2. PICK r : w = <<r>> /\ Result(r)
        <5>1. \A s : Found(s) = Found(Found(s).records)
          BY Zenon DEF Found
        <5> QED
          BY Zenon, <4>1, <5>1 DEF Returned, Result
      <4>3. <<r>>[1] = r
        BY Zenon
      <4> QED
        BY Zenon, <4>1, <4>2, <4>3 DEF GPDNSResults
    <3>3. CAAProblem(parseResults(GPDNSResults)) = None <=> Permits(GPDNSResults)
      BY Zenon, <3>1, <3>2, <2>1, ClimbDecides
    <3>4. Refused
      BY Zenon, <2>0, <2>1, <2>3 DEF CAAInv
    <3>5. ~ Permits(LocalResults)
      <4>1. "connection" # None
        BY Zenon DEF None
      <4> QED
        BY Zenon, <2>2, <3>4, <4>1 DEF Refused
    <3> QED
      BY Zenon, <2>3, <3>3, <3>5 DEF ClosestRecordsDecide, CAAVerdict
  <2>4. CASE ~ \A i \in Labels : gpdns[i].result # <<>>
    BY Zenon, <2>2, <2>4 DEF ClosestRecordsDecide, CAAVerdict
  <2> QED
    BY Zenon, <2>3, <2>4
<1>2. Inv => ClosestRecordsDecide
  BY Zenon, <1>1
<1> QED
  BY <1>2, Invariance, PTL
=============================================================================
