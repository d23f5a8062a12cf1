------------------------------- MODULE Issuance -------------------------------
(***************************************************************************)
(* How a certificate comes about.  The RA checks the rate limits and the   *)
(* authorizations, the CA signs and has the SA store; certificates the CA  *)
(* signed but could not store ("orphans") are in its log for the operators *)
(* to repair with orphan-finder; the publisher sends what was stored to    *)
(* the CT logs, and ocsp-updater makes up for receipts that are missing.   *)
(*                                                                         *)
(* All certificates are for one account.  The signer's and the SA's clocks *)
(* agree.                                                                  *)
(***************************************************************************)
EXTENDS Integers, Sequences, FiniteSets, RateLimits

CONSTANTS
    Workers,            \* the newCert requests in progress at one moment
    Names,              \* DNS names
    Base(_),            \* a name's eTLD+1 (publicsuffix.Domain)
    Scenarios,          \* what a behaviour has: the policies it starts with and
                        \* those after a reload, when authorizations expire, the
                        \* name sets asked for and how many certificates, the CT
                        \* logs, the workers, whether authorizations are lost,
                        \* and whether calls fail and processes die
    Backdate,           \* how far the signer sets NotBefore back
    StaleAfter,         \* the total count is good for five minutes
    RPCTime,            \* the timeout of one gRPC call
    RequestTimeout,     \* wfe.RequestTimeout, the deadline of a whole request
    OldestIssuedSCT,    \* the age at which missing receipts are given up
    MaxCertificates,    \* bound: the most certificates a scenario has
    MaxTime             \* bound: the model's last moment

ASSUME TimesAssumption ==
    /\ Backdate \in Nat /\ StaleAfter \in Nat /\ RPCTime \in Nat /\ RequestTimeout \in Nat
    /\ OldestIssuedSCT \in Nat /\ MaxCertificates \in Nat /\ MaxTime \in Nat

Policies == {sc.policy : sc \in Scenarios} \cup UNION {sc.reloads : sc \in Scenarios}
ScenarioRecords ==
    [policy : Policies, reloads : SUBSET Policies, expires : SUBSET Nat,
     requests : SUBSET (SUBSET Names), certificates : Nat,
     logs : {sc.logs : sc \in Scenarios}, workers : (SUBSET Workers) \ {{}},
     mayLose : BOOLEAN, mayFail : BOOLEAN]

ASSUME ScenariosAssumption == IsFiniteSet(Workers) /\ Scenarios \subseteq ScenarioRecords
ASSUME PoliciesAssumption ==
    \A p \in Policies : /\ RateLimitPolicy(p.total) /\ RateLimitPolicy(p.perName)
                        /\ RateLimitPolicy(p.perFQDN)

VARIABLES
    now,
    scenario,       \* the scenario, with the policies still to come
    policy,         \* the RA's rate limit policies: total, perName, perFQDN
    authz,          \* name -> until when the account is authorized for it
    totalIssued,    \* the RA's totalIssuedCount and totalIssuedLastUpdate
    counting,       \* the progress of updateIssuedCount
    request,        \* worker -> the progress of ra.NewCertificate
    signed,         \* the certificates signed, by serial
    stored,         \* serial -> when AddCertificate stored it
    late,           \* <<serial, issued>>: inserts the CA gave up, still running
    orphans,        \* serials in "orphaning certificate" lines of the CA's log
    crashed,        \* serials signed by a CA that died before storing
    finder,         \* the serial orphan-finder found missing, 0 for none
    submissions,    \* <<serial, log>>: what the publisher has yet to submit
    receipts,       \* the sctReceipts table
    updater         \* the serials missingReceiptsTick has yet to look at

requests == <<totalIssued, counting, request>>
database == <<stored, late>>
repair == <<orphans, crashed, finder>>
publishing == <<submissions, receipts, updater>>
vars == <<now, scenario, policy, authz, requests, signed, database, repair, publishing>>

Logs == scenario.logs
MayFail == scenario.mayFail
Serials == DOMAIN signed
Never == -1

Steps == {"idle", "total", "names", "exists", "fqdn", "authz", "sign", "store"}
Idle == [step |-> "idle", names |-> {}, began |-> 0, passed |-> Never, serial |-> 0]
Requests == [step : Steps, names : SUBSET Names, began : Nat,
             passed : Nat \cup {Never}, serial : Nat]
Certificates == [names : SUBSET Names, at : Nat, passed : Nat \cup {Never}]

Go(w, step) == request' = [request EXCEPT ![w].step = step]
Finish(w) == request' = [request EXCEPT ![w] = Idle]

-----------------------------------------------------------------------------

Init ==
    /\ now = 0
    /\ scenario \in Scenarios
    /\ policy = scenario.policy
    /\ authz \in [Names -> scenario.expires]
    /\ totalIssued = [count |-> 0, at |-> Never]
    /\ counting = [step |-> "idle", count |-> 0, from |-> 0]
    /\ request = [w \in Workers |-> Idle]
    /\ signed = <<>> /\ stored = [s \in {} |-> 0] /\ late = {}
    /\ orphans = {} /\ crashed = {} /\ finder = 0
    /\ submissions = {} /\ receipts = {} /\ updater = {}

\* The reloader calls LoadPolicies when the policy file changes.
LoadPolicies(p) ==
    /\ p \in scenario.reloads
    /\ policy' = p
    /\ scenario' = [scenario EXCEPT !.reloads = {}]
    /\ UNCHANGED <<now, authz, requests, signed, database, repair, publishing>>

\* An authorization is deactivated or revoked.
LoseAuthorization(n) ==
    /\ scenario.mayLose /\ authz[n] > now
    /\ authz' = [authz EXCEPT ![n] = now]
    /\ UNCHANGED <<now, scenario, policy, requests, signed, database, repair, publishing>>

-----------------------------------------------------------------------------
\* The SA's counts

NotBefore(s) == signed[s].at - Backdate

\* sa.CountCertificatesRange
CountCertificatesRange(start, end) ==
    Cardinality({s \in DOMAIN stored : start <= stored[s] /\ stored[s] < end})

\* ra.domainsForRateLimiting
domainsForRateLimiting(names) == {Base(n) : n \in names}

\* sa.countCertificatesByName: certificates, however many of their names are
\* the domain or under it.
countCertificatesByName(domain, earliest, latest) ==
    Cardinality({s \in DOMAIN stored :
        /\ \E n \in signed[s].names : Base(n) = domain
        /\ earliest < NotBefore(s) /\ NotBefore(s) <= latest})

\* sa.CountFQDNSets and sa.FQDNSetExists
CountFQDNSets(window, names) ==
    Cardinality({s \in DOMAIN stored : signed[s].names = names /\ NotBefore(s) > now - window})
FQDNSetExists(names) == \E s \in DOMAIN stored : signed[s].names = names

-----------------------------------------------------------------------------
\* ra.UpdateIssuedCountForever: the total is counted about once a minute, and
\* only while there is a limit.  The call to the SA takes RPCTime at most.

updateIssuedCount ==
    /\ counting.step = "idle"
    /\ Enabled(policy.total)
    /\ totalIssued.at # now
    /\ counting' = [step |-> "counted", from |-> now,
           count |-> CountCertificatesRange(WindowBegin(policy.total, now), now)]
    /\ UNCHANGED <<now, scenario, policy, authz, totalIssued, request, signed,
                   database, repair, publishing>>

\* The update is stamped with the time the answer came.
updateIssuedCountDone ==
    /\ counting.step = "counted"
    /\ \/ totalIssued' = [count |-> counting.count, at |-> now]
       \/ MayFail /\ UNCHANGED totalIssued
    /\ counting' = [step |-> "idle", count |-> 0, from |-> 0]
    /\ UNCHANGED <<now, scenario, policy, authz, request, signed, database, repair, publishing>>

-----------------------------------------------------------------------------
\* ra.NewCertificate.  What happens before checkLimits reads the account and
\* the CSR only.

NewCertificate(w, names) ==
    /\ w \in scenario.workers /\ request[w].step = "idle"
    /\ Len(signed) + Cardinality({v \in Workers : request[v].step # "idle"}) < scenario.certificates
    /\ request' = [request EXCEPT ![w] = [Idle EXCEPT !.names = names, !.began = now,
           !.step = IF Enabled(policy.total) THEN "total" ELSE "names"]]
    /\ UNCHANGED <<now, scenario, policy, authz, totalIssued, counting, signed,
                   database, repair, publishing>>

\* The request's deadline passes, or a call of it fails.
Abandon(w) ==
    /\ request[w].step \in {"names", "exists", "fqdn", "authz"}
    /\ MayFail \/ now > request[w].began + RequestTimeout
    /\ Finish(w)
    /\ UNCHANGED <<now, scenario, policy, authz, totalIssued, counting, signed,
                   database, repair, publishing>>

InTime(w) == now <= request[w].began + RequestTimeout

\* checkTotalCertificatesLimit, without the test for an old count.
TotalPassesStale == totalIssued.at # Never /\ totalIssued.count < policy.total.threshold

\* ra.checkTotalCertificatesLimit, which reads the policy again
TotalPasses ==
    /\ totalIssued.at # Never
    /\ now <= totalIssued.at + StaleAfter
    /\ totalIssued.count < policy.total.threshold

checkTotalCertificatesLimit(w) ==
    /\ request[w].step = "total"
    /\ IF TotalPasses
       THEN request' = [request EXCEPT ![w].step = "names", ![w].passed = now]
       ELSE Finish(w)
    /\ UNCHANGED <<now, scenario, policy, authz, totalIssued, counting, signed,
                   database, repair, publishing>>

\* checkCertificatesPerNameLimit, with > for >=.
badNamesOver(names) ==
    {d \in domainsForRateLimiting(names) :
        countCertificatesByName(d, WindowBegin(policy.perName, now), now)
            > GetThreshold(policy.perName, d, 1)}

\* ra.checkCertificatesPerNameLimit: the domains at their limit ...
badNames(names) ==
    {d \in domainsForRateLimiting(names) :
        countCertificatesByName(d, WindowBegin(policy.perName, now), now)
            >= GetThreshold(policy.perName, d, 1)}

checkCertificatesPerNameLimit(w) ==
    /\ request[w].step = "names" /\ InTime(w)
    /\ Go(w, IF Enabled(policy.perName) /\ badNames(request[w].names) # {}
             THEN "exists" ELSE "fqdn")
    /\ UNCHANGED <<now, scenario, policy, authz, totalIssued, counting, signed,
                   database, repair, publishing>>

\* ... do not matter to a certificate that renews another.
RenewalBypass(w) ==
    /\ request[w].step = "exists" /\ InTime(w)
    /\ IF FQDNSetExists(request[w].names) THEN Go(w, "fqdn") ELSE Finish(w)
    /\ UNCHANGED <<now, scenario, policy, authz, totalIssued, counting, signed,
                   database, repair, publishing>>

\* ra.checkCertificatesPerFQDNSetLimit
FQDNSetLimited(names) ==
    LET limit == policy.perFQDN
    IN  Enabled(limit) /\ CountFQDNSets(limit.window, names) > GetThreshold(limit, names, 1)

checkCertificatesPerFQDNSetLimit(w) ==
    /\ request[w].step = "fqdn" /\ InTime(w)
    /\ IF FQDNSetLimited(request[w].names) THEN Finish(w) ELSE Go(w, "authz")
    /\ UNCHANGED <<now, scenario, policy, authz, totalIssued, counting, signed,
                   database, repair, publishing>>

\* ra.checkAuthorizations, satisfied by one authorized name.
SomeAuthorized(names) == \E n \in names : authz[n] > now

\* ra.checkAuthorizations
Authorized(names) == \A n \in names : authz[n] > now

checkAuthorizations(w) ==
    /\ request[w].step = "authz" /\ InTime(w)
    /\ IF Authorized(request[w].names) THEN Go(w, "sign") ELSE Finish(w)
    /\ UNCHANGED <<now, scenario, policy, authz, totalIssued, counting, signed,
                   database, repair, publishing>>

-----------------------------------------------------------------------------
\* ca.IssueCertificate: sign, then have the SA store

IssueCertificate(w) ==
    /\ request[w].step = "sign"
    /\ \/ /\ InTime(w)
          /\ signed' = Append(signed, [names |-> request[w].names, at |-> now,
                                       passed |-> request[w].passed])
          /\ request' = [request EXCEPT ![w].step = "store", ![w].serial = Len(signed) + 1]
       \/ /\ MayFail \/ ~ InTime(w)
          /\ Finish(w)
          /\ UNCHANGED signed
    /\ UNCHANGED <<now, scenario, policy, authz, totalIssued, counting, database,
                   repair, publishing>>

\* sa.AddCertificate, issued when it is called: one transaction for the
\* certificate, its status, names and name set.  A serial that is there
\* already makes it fail.
AddCertificate(s, issued) ==
    stored' = [t \in DOMAIN stored \cup {s} |-> IF t \in DOMAIN stored THEN stored[t] ELSE issued]

\* The certificate is stored: the CA and the RA have the publisher submit it.
StoreSucceeds(w) ==
    /\ request[w].step = "store"
    /\ AddCertificate(request[w].serial, now)
    /\ submissions' = submissions \cup ({request[w].serial} \X Logs)
    /\ Finish(w)
    /\ UNCHANGED <<now, scenario, policy, authz, totalIssued, counting, signed, late,
                   repair, receipts, updater>>

\* AddCertificate fails, or takes longer than RPCTime and is still running: the
\* CA logs the certificate as an orphan either way.
StoreFails(w) ==
    /\ MayFail
    /\ request[w].step = "store"
    /\ late' \in {late, late \cup {<<request[w].serial, now>>}}
    /\ orphans' = orphans \cup {request[w].serial}
    /\ Finish(w)
    /\ UNCHANGED <<now, scenario, policy, authz, totalIssued, counting, signed, stored,
                   crashed, finder, publishing>>

\* A transaction the CA gave up comes to its end.
LateStore(s, at) ==
    /\ <<s, at>> \in late
    /\ late' = late \ {<<s, at>>}
    /\ AddCertificate(s, at) \/ UNCHANGED stored
    /\ UNCHANGED <<now, scenario, policy, authz, requests, signed, repair, publishing>>

\* The CA dies between signing and logging.
CACrash(w) ==
    /\ MayFail
    /\ request[w].step = "store"
    /\ crashed' = crashed \cup {request[w].serial}
    /\ Finish(w)
    /\ UNCHANGED <<now, scenario, policy, authz, totalIssued, counting, signed, database,
                   orphans, finder, publishing>>

-----------------------------------------------------------------------------
\* orphan-finder

\* checkDER, with its answers swapped.
checkDERSwapped(s) ==
    /\ finder = 0 /\ s \in orphans /\ s \in DOMAIN stored
    /\ finder' = s
    /\ UNCHANGED <<now, scenario, policy, authz, requests, signed, database, orphans,
                   crashed, publishing>>

\* checkDER: look the certificate of a log line up; not found, go on.
checkDER(s) ==
    /\ finder = 0 /\ s \in orphans /\ s \notin DOMAIN stored
    /\ finder' = s
    /\ UNCHANGED <<now, scenario, policy, authz, requests, signed, database, orphans,
                   crashed, publishing>>

\* parseLogLine: store it.
parseLogLine ==
    /\ finder # 0
    /\ finder' = 0
    /\ AddCertificate(finder, now) \/ (MayFail /\ UNCHANGED stored)
    /\ UNCHANGED <<now, scenario, policy, authz, requests, signed, late, orphans, crashed,
                   publishing>>

-----------------------------------------------------------------------------
\* CT: the publisher, and the updater's missingReceiptsTick

\* publisher.SubmitToCT takes the logs one after the other.  A submission that
\* fails is logged, and the next log has its turn.
SubmitToSingleCT(s, l) ==
    /\ <<s, l>> \in submissions
    /\ submissions' = submissions \ {<<s, l>>}
    /\ \/ receipts' = receipts \cup {<<s, l>>}
       \/ MayFail /\ UNCHANGED receipts
    /\ UNCHANGED <<now, scenario, policy, authz, requests, signed, database, repair, updater>>

PublisherCrash ==
    /\ MayFail /\ submissions # {}
    /\ submissions' = {}
    /\ UNCHANGED <<now, scenario, policy, authz, requests, signed, database, repair,
                   receipts, updater>>

\* updater.missingLogs, of the receipts of one certificate
missingLogs(s) == {l \in Logs : <<s, l>> \notin receipts}

\* updater.getSerialsIssuedSince
getSerialsIssuedSince(since) == {s \in DOMAIN stored : stored[s] > since}

\* missingReceiptsTick, of the certificates without any receipt.
missingReceiptsTickNone ==
    /\ updater = {}
    /\ updater' = {s \in getSerialsIssuedSince(now - OldestIssuedSCT) : missingLogs(s) = Logs}
    /\ \E s \in updater' : missingLogs(s) # {}
    /\ UNCHANGED <<now, scenario, policy, authz, requests, signed, database, repair,
                   submissions, receipts>>

\* updater.missingReceiptsTick: collect the serials ...
missingReceiptsTick ==
    /\ updater = {}
    /\ updater' = getSerialsIssuedSince(now - OldestIssuedSCT)
    /\ \E s \in updater' : missingLogs(s) # {}
    /\ UNCHANGED <<now, scenario, policy, authz, requests, signed, database, repair,
                   submissions, receipts>>

\* ... and submit each to the logs that have given no receipt for it.
Resubmit(s) ==
    /\ s \in updater
    /\ updater' = updater \ {s}
    /\ \E given \in SUBSET missingLogs(s) :
          /\ MayFail \/ given = missingLogs(s)
          /\ receipts' = receipts \cup ({s} \X given)
    /\ UNCHANGED <<now, scenario, policy, authz, requests, signed, database, repair,
                   submissions>>

\* Calls that have a timeout do not outlive it.
Tick ==
    /\ now < MaxTime
    /\ counting.step = "counted" => now < counting.from + RPCTime
    /\ now' = now + 1
    /\ UNCHANGED <<scenario, policy, authz, requests, signed, database, repair, publishing>>

Next ==
    \/ \E p \in scenario.reloads : LoadPolicies(p)
    \/ \E n \in Names : LoseAuthorization(n)
    \/ updateIssuedCount \/ updateIssuedCountDone
    \/ \E w \in Workers :
          \/ \E names \in scenario.requests : NewCertificate(w, names)
          \/ Abandon(w) \/ checkTotalCertificatesLimit(w)
          \/ checkCertificatesPerNameLimit(w) \/ RenewalBypass(w)
          \/ checkCertificatesPerFQDNSetLimit(w) \/ checkAuthorizations(w)
          \/ IssueCertificate(w) \/ StoreSucceeds(w) \/ StoreFails(w) \/ CACrash(w)
    \/ \E s \in Serials : checkDER(s) \/ Resubmit(s) \/ \E at \in 0 .. now : LateStore(s, at)
    \/ parseLogLine
    \/ \E s \in Serials, l \in Logs : SubmitToSingleCT(s, l)
    \/ PublisherCrash \/ missingReceiptsTick
    \/ Tick

Spec == Init /\ [][Next]_vars

\* The operators run orphan-finder until it has nothing left to add, the
\* updater ticks forever, and a log that is asked again and again gives its
\* receipt in the end.
AnyStep(w) ==
    \/ Abandon(w) \/ checkTotalCertificatesLimit(w) \/ checkCertificatesPerNameLimit(w)
    \/ RenewalBypass(w) \/ checkCertificatesPerFQDNSetLimit(w) \/ checkAuthorizations(w)
    \/ IssueCertificate(w) \/ StoreSucceeds(w) \/ StoreFails(w) \/ CACrash(w)
GivenReceipt(s) == Resubmit(s) /\ {s} \X Logs \subseteq receipts'
Repaired == parseLogLine /\ finder \in DOMAIN stored'
Fairness ==
    /\ \A w \in Workers : WF_vars(AnyStep(w))
    /\ \A s \in 1 .. MaxCertificates :
          /\ WF_vars(s \in Serials /\ checkDER(s))
          /\ WF_vars(s \in Serials /\ Resubmit(s))
          /\ SF_vars(s \in Serials /\ GivenReceipt(s))
    /\ WF_vars(missingReceiptsTick)
    /\ WF_vars(parseLogLine) /\ SF_vars(Repaired)
FairSpec == Spec /\ Fairness

-----------------------------------------------------------------------------
\* Properties

\* The state of the RA, the CA, the database and the tools.
TypeOK ==
    /\ now \in Nat /\ scenario \in ScenarioRecords /\ policy \in Policies
    /\ authz \in [Names -> Nat]
    /\ totalIssued \in [count : Nat, at : Nat \cup {Never}]
    /\ counting \in [step : {"idle", "counted"}, count : Nat, from : Nat]
    /\ request \in [Workers -> Requests]
    /\ signed \in Seq(Certificates)
    /\ DOMAIN stored \subseteq Serials /\ stored \in [DOMAIN stored -> Nat]
    /\ late \subseteq Serials \X Nat
    /\ orphans \cup crashed \cup updater \subseteq Serials
    /\ finder \in Serials \cup {0}
    /\ submissions \cup receipts \subseteq Serials \X Logs

\* checkAuthorizations looks at the authorizations before the CA signs, so
\* they may be gone by then; but each name of a certificate was authorized at
\* most a request's duration before its signature.
AuthorizedRecently ==
    \A s \in Serials : \A n \in signed[s].names : authz[n] >= signed[s].at - RequestTimeout

\* Certificates for a name set that no certificate stored before was for.
FirstOfItsSet(s) ==
    \A t \in DOMAIN stored : signed[t].names = signed[s].names => t >= s

\* Certificates that were stored when the CA meant them to be.
InOrder == DOMAIN stored \ orphans

\* The certificates of a set signed while a limit's window slides to t.  The
\* limits go by NotBefore, so a certificate leaves the window early by the
\* time the signer backdates it.
SignedWithin(serials, limit, t) ==
    Cardinality({s \in serials : /\ WindowBegin(limit, t) + Backdate < signed[s].at
                                 /\ signed[s].at <= t})

\* checkCertificatesPerNameLimit counts what is stored, while other requests
\* are past it: the certificates for a domain, renewals and repaired orphans
\* aside, overshoot the limit at most by the other requests in progress.
PerNameBounded ==
    LET limit == policy.perName
    IN  policy = scenario.policy /\ Enabled(limit) =>
          \A d \in {Base(n) : n \in Names}, t \in 0 .. now :
            SignedWithin({s \in InOrder : /\ d \in domainsForRateLimiting(signed[s].names)
                                          /\ FirstOfItsSet(s)}, limit, t)
              <= GetThreshold(limit, d, 1) + Cardinality(scenario.workers) - 1

\* A request passes checkTotalCertificatesLimit only if the total was below the
\* limit recently: at most StaleAfter and the time of the count's call ago.
TotalRecentlyBelow ==
    LET limit == policy.total
        CountAt(t) == Cardinality({s \in InOrder : /\ WindowBegin(limit, t) <= stored[s]
                                                   /\ stored[s] < t})
    IN  policy = scenario.policy =>
          \A s \in Serials : signed[s].passed # Never =>
            \E t \in signed[s].passed - StaleAfter - RPCTime .. signed[s].passed :
                CountAt(t) < limit.threshold

\* No certificate gets lost between the CA and the database: a signed one is
\* about to be stored, stored, or in the CA's log as an orphan, unless the CA
\* died.
Accounted ==
    \A s \in Serials :
        \/ s \in DOMAIN stored \cup orphans \cup crashed
        \/ \E w \in Workers : request[w].step = "store" /\ request[w].serial = s

\* However often the CA orphans certificates, orphan-finder gets even: again
\* and again every orphan of the log is stored, whoever stored it.
OrphansRepaired == []<>(orphans \subseteq DOMAIN stored)

\* Every certificate stored gets a receipt from every CT log, unless it is too
\* old for missingReceiptsTick, although the publisher forgets its failures.
EveryoneLogged ==
    []<>(\A s \in getSerialsIssuedSince(now - OldestIssuedSCT) : missingLogs(s) = {})
=============================================================================
