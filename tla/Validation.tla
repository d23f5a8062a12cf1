----------------------------- MODULE Validation -----------------------------
(***************************************************************************)
(* One PerformValidation of the validation authority (va/va.go): the       *)
(* goroutine that validates the challenge (http-01 with its redirects,     *)
(* tls-sni-01, tls-sni-02 or dns-01) beside the one that checks CAA, the   *)
(* parallel lookups each of them starts (bdns/dns.go), and the CAA check   *)
(* through several proxies (cdr/resolver.go).                              *)
(*                                                                         *)
(* The world answers every query with one of the outcomes the scenario     *)
(* allows: a scenario fixes the type of the challenge and what each part   *)
(* of the world may answer.                                                *)
(***************************************************************************)
EXTENDS CAA, Functions

CONSTANTS
  Scenarios,     \* what the world may answer; see MCValidation
  maxRedirect,   \* bound on the records of one http-01 fetch
  maxTries,      \* tries of one DNS exchange
  Proxies,       \* the clients of the distributed resolver
  maxFailures    \* how many of them may fail

ASSUME ValidationAssumption ==
  /\ maxRedirect \in Nat \ {0} /\ maxTries \in Nat \ {0}
  /\ maxFailures \in Nat /\ IsFiniteSet(Proxies)

\* The outcomes of a DNS exchange: an answer, an error code, SERVFAIL, or a
\* network error that is tried again or not.
Kinds == {"answer", "rcode", "servfail", "temporary", "permanent"}

\* What the world may answer has the shape the code gives it: a name has a
\* label, hosts and TXT records are lists, a body is what validateHTTP01 looks
\* at, certificates carry lists of names, and a proxy's error comes without
\* records.
ASSUME ScenariosAssumption ==
  \A s \in Scenarios :
    /\ s.labels \in Nat \ {0}
    /\ \A o \in s.caa : o.kind \in Kinds
    /\ \A q \in {"A", "AAAA", "TXT"} : \A o \in s.dns[q] :
         o.kind \in Kinds /\ (o.kind = "answer" => o.value \in Seq(STRING))
    /\ s.bodies \subseteq [status : Nat, length : {"short", "long"}, payload : STRING]
    /\ s.certs \subseteq Seq(Seq(STRING))
    /\ \A o \in s.answers : o = LookupError \/ o = Found(o.records)

VARIABLES
  scenario,      \* which of Scenarios this is
  stage,         \* where the challenge's goroutine is
  lookups,       \* its DNS exchanges: the A and AAAA, or the TXT, queries
  records,       \* the validation records so far
  dial,          \* the address the HTTP transport dials
  contacted,     \* the addresses dialled so far
  answer,        \* what the server answered to the challenge
  problem,       \* the problem found by the challenge's goroutine
  caa,           \* the CAA exchange of each label
  caaStage,      \* where the CAA goroutine is
  gpdns,         \* the distributed lookup of each label
  ch,            \* the channel on which the CAA goroutine reports
  done           \* whether the context of the call is done

vars == <<scenario, stage, lookups, records, dial, contacted, answer, problem,
          caa, caaStage, gpdns, ch, done>>

challengeVars == <<stage, lookups, records, dial, contacted, answer, problem>>
caaVars == <<caa, caaStage, gpdns>>

None == "none"

Labels == 1 .. scenario.labels

-----------------------------------------------------------------------------
(***************************************************************************)
(* bdns/dns.go                                                             *)
(***************************************************************************)
\* An exchange in progress or ended.  An outcome is [kind, value]: an answer,
\* a response with an error code, or a network error.
Asked == [tries |-> 1, outcome |-> [kind |-> "pending", value |-> {}]]

Unasked == [tries |-> 0, outcome |-> [kind |-> "pending", value |-> {}]]

Pending(x) == x.outcome.kind = "pending"

Ended(x) == ~ Pending(x)

Outcome(kind) == [kind |-> kind, value |-> {}]

\* What becomes of exchange x when its server's next outcome is o: a temporary
\* network error is retried with the same server up to maxTries times, and the
\* end of the context may win the race against the response.
exchangeOne(x, o) ==
  (IF done THEN {[x EXCEPT !.outcome = Outcome("cancelled")]} ELSE {})
  \cup {IF o.kind = "temporary" /\ x.tries < maxTries
        THEN [x EXCEPT !.tries = @ + 1]
        ELSE [x EXCEPT !.outcome = o]}

Answered(x) == x.outcome.kind = "answer"

Public == {"public4", "public6"}

\* The public addresses of a list, in its order.
PublicOnly(addrs) ==
  LET kept == {i \in DOMAIN addrs : addrs[i] \in Public}
  IN [n \in 1 .. Cardinality(kept) |->
        addrs[CHOOSE i \in kept : Cardinality({j \in kept : j <= i}) = n]]

\* LookupHost on the two ended exchanges: fails only if both did; private
\* addresses are left out, and IPv4 addresses come first.
LookupHost(a, aaaa) ==
  LET addresses(x) == IF Answered(x) THEN PublicOnly(x.outcome.value) ELSE <<>>
  IN [err |-> ~ Answered(a) /\ ~ Answered(aaaa), addrs |-> addresses(a) \o addresses(aaaa)]

\* LookupCAA: SERVFAIL passes when there is no list of exceptions or the name
\* is on it; the other error codes are not looked at.
LookupCAA(x) ==
  CASE x.outcome.kind = "answer" -> Found(x.outcome.value)
    [] x.outcome.kind = "rcode" -> Found({})
    [] x.outcome.kind = "servfail" /\ scenario.exempt -> Found({})
    [] OTHER -> LookupError

-----------------------------------------------------------------------------
(***************************************************************************)
(* core/objects.go                                                         *)
(***************************************************************************)
RecordsSane ==
  CASE records = <<>> -> FALSE
    [] records # <<>> /\ scenario.type = "http-01" ->
         \A i \in DOMAIN records :
           records[i].url /\ records[i].port # None /\ records[i].used # None
           /\ records[i].resolved # <<>>
    [] records # <<>> /\ scenario.type \in {"tls-sni-01", "tls-sni-02"} ->
         /\ Len(records) = 1
         /\ ~ records[1].url /\ records[1].port # None /\ records[1].used # None
         /\ records[1].resolved # <<>>
    [] records # <<>> /\ scenario.type = "dns-01" -> Len(records) = 1
    [] OTHER -> FALSE

-----------------------------------------------------------------------------
Init ==
  /\ scenario \in Scenarios
  /\ stage = "start"
  /\ lookups = [q \in {"A", "AAAA", "TXT"} |-> Unasked]
  /\ records = <<>>
  /\ dial = None
  /\ contacted = <<>>
  /\ answer = Outcome(None)
  /\ problem = None
  /\ caa = [i \in Labels |-> Asked]
  /\ caaStage = "lookup"
  /\ gpdns = [i \in Labels |-> [sent |-> {}, channel |-> <<>>, heard |-> <<>>, failed |-> 0,
                               CAAs |-> <<>>, result |-> <<>>]]
  /\ ch = <<>>
  /\ done = FALSE

\* validateChallenge returns a problem: PerformValidation does not wait for the
\* CAA goroutine.
Fail(p) == stage' = "done" /\ problem' = p

\* It returns without one.
Succeed == stage' = "wait" /\ UNCHANGED problem

AskHost == lookups' = [lookups EXCEPT !["A"] = Asked, !["AAAA"] = Asked]

\* The sanity check and the dispatch on the type.
validateChallenge ==
  /\ stage = "start"
  /\ \/ /\ ~ scenario.sane
        /\ Fail("malformed")
        /\ UNCHANGED <<lookups, records>>
     \/ /\ scenario.sane /\ scenario.type \in {"http-01", "tls-sni-01", "tls-sni-02"}
        /\ stage' = "resolve"
        /\ AskHost
        /\ records' = <<[url |-> scenario.type = "http-01", used |-> None, resolved |-> <<>>,
                         port |-> IF scenario.type = "http-01" THEN "80" ELSE None]>>
        /\ UNCHANGED problem
     \/ /\ scenario.sane /\ scenario.type = "dns-01"
        /\ stage' = "txt"
        /\ lookups' = [lookups EXCEPT !["TXT"] = Asked]
        /\ UNCHANGED <<records, problem>>
     \/ /\ scenario.sane /\ scenario.type \notin {"http-01", "tls-sni-01", "tls-sni-02", "dns-01"}
        /\ Fail("malformed")
        /\ UNCHANGED <<lookups, records>>
  /\ UNCHANGED <<scenario, dial, contacted, answer, caaVars, ch, done>>

\* One exchange of the challenge's goroutine makes progress.
Exchange(q) ==
  /\ lookups[q].tries > 0 /\ Pending(lookups[q])
  /\ \E o \in scenario.dns[q] : \E x \in exchangeOne(lookups[q], o) :
       lookups' = [lookups EXCEPT ![q] = x]
  /\ UNCHANGED <<scenario, stage, records, dial, contacted, answer, problem, caaVars, ch, done>>

\* getAddr's problem.  In a redirect it comes back through http.Client, where
\* parseHTTPConnError takes it for a connection failure.
ResolveProblem(host) ==
  IF host.err THEN "connection" ELSE IF Len(records) > 1 THEN "connection" ELSE "unknownHost"

\* resolveAndConstructDialer ends.  The failed hop stays among the records.
resolveAndConstructDialerStale ==
  /\ stage = "resolve"
  /\ Ended(lookups["A"]) /\ Ended(lookups["AAAA"])
  /\ LET host == LookupHost(lookups["A"], lookups["AAAA"])
     IN IF host.err \/ host.addrs = <<>>
        THEN Fail(ResolveProblem(host)) /\ UNCHANGED <<records, dial>>
        ELSE /\ records' = [records EXCEPT ![Len(records)].resolved = host.addrs,
                                           ![Len(records)].used = host.addrs[1],
                                           ![Len(records)].port = IF @ = None THEN "443" ELSE @]
             /\ dial' = IF dial = None THEN host.addrs[1] ELSE dial
             /\ stage' = "dial"
             /\ UNCHANGED problem
  /\ lookups' = [q \in DOMAIN lookups |-> Unasked]
  /\ UNCHANGED <<scenario, contacted, answer, caaVars, ch, done>>

resolveAndConstructDialer ==
  /\ stage = "resolve"
  /\ Ended(lookups["A"]) /\ Ended(lookups["AAAA"])
  /\ LET host == LookupHost(lookups["A"], lookups["AAAA"])
     IN IF host.err \/ host.addrs = <<>>
        THEN Fail(ResolveProblem(host)) /\ UNCHANGED <<records, dial>>
        ELSE /\ records' = [records EXCEPT ![Len(records)].resolved = host.addrs,
                                           ![Len(records)].used = host.addrs[1],
                                           ![Len(records)].port = IF @ = None THEN "443" ELSE @]
             /\ dial' = host.addrs[1]
             /\ stage' = "dial"
             /\ UNCHANGED problem
  /\ lookups' = [q \in DOMAIN lookups |-> Unasked]
  /\ UNCHANGED <<scenario, contacted, answer, caaVars, ch, done>>

Dial ==
  /\ stage = "dial"
  /\ contacted' = Append(contacted, dial)
  /\ stage' = "respond"
  /\ UNCHANGED <<scenario, lookups, records, dial, answer, problem, caaVars, ch, done>>

\* What the connection's failure becomes.
parseHTTPConnError(e) ==
  CASE e = "speaksHTTP" -> "malformed"
    [] e = "tlsAlert" -> "tls"
    [] OTHER -> "connection"

Unreachable ==
  /\ stage = "respond"
  /\ \E e \in scenario.connErrors : Fail(parseHTTPConnError(e))
  /\ UNCHANGED <<scenario, lookups, records, dial, contacted, answer, caaVars, ch, done>>

-----------------------------------------------------------------------------
(***************************************************************************)
(* http-01.  A response is a redirect to [port, tls] or [status, body]; a  *)
(* body is "short" when the padded key authorization stays below           *)
(* maxResponseSize and "long" when LimitedReader cuts it off.              *)
(***************************************************************************)
\* CheckRedirect: an error ends the request, otherwise the next hop is resolved.
logRedirect(r) ==
  IF Len(records) >= maxRedirect \/ r.port \notin {None, "8080"}
  THEN Fail("connection") /\ UNCHANGED <<lookups, records>>
  ELSE /\ records' = Append(records, [url |-> TRUE, used |-> None, resolved |-> <<>>,
                                      port |-> IF r.port # None THEN r.port
                                               ELSE IF r.tls THEN "443" ELSE "80"])
       /\ stage' = "resolve"
       /\ AskHost
       /\ UNCHANGED problem

fetchHTTP ==
  /\ stage = "respond" /\ scenario.type = "http-01"
  /\ \E r \in scenario.redirects : logRedirect(r)
  /\ UNCHANGED <<scenario, dial, contacted, answer, caaVars, ch, done>>

\* The body is read, compared with maxResponseSize, then the status and the
\* key authorization are looked at.
validateHTTP01 ==
  /\ stage = "respond" /\ scenario.type = "http-01"
  /\ \E r \in scenario.bodies :
       /\ answer' = [kind |-> "http", value |-> r]
       /\ IF r.length = "short" /\ r.status = 200 /\ r.payload = "keyAuthorization"
          THEN Succeed ELSE Fail("unauthorized")
  /\ UNCHANGED <<scenario, lookups, records, dial, contacted, caaVars, ch, done>>

-----------------------------------------------------------------------------
(***************************************************************************)
(* tls-sni-01 and tls-sni-02: the names of the first certificate; no       *)
(* certificate at all is <<>>.  "Z", "SanA" and "SanB" are the names       *)
(* derived from the token and the key authorization.                       *)
(***************************************************************************)
validateTLSSNI01WithZName(certs) ==
  IF certs # <<>> /\ "Z" \in Range(certs[1]) THEN None ELSE "unauthorized"

validateTLSSNI02WithZNames(certs) ==
  IF certs = <<>> THEN "unauthorized"
  ELSE IF Len(certs[1]) # 2 THEN "malformed"
  ELSE IF {"SanA", "SanB"} \subseteq Range(certs[1]) THEN None
  ELSE "unauthorized"

getTLSSNICerts ==
  /\ stage = "respond" /\ scenario.type \in {"tls-sni-01", "tls-sni-02"}
  /\ \E certs \in scenario.certs :
       LET p == IF scenario.type = "tls-sni-01" THEN validateTLSSNI01WithZName(certs)
                ELSE validateTLSSNI02WithZNames(certs)
       IN /\ answer' = [kind |-> "certs", value |-> certs]
          /\ IF p = None THEN Succeed ELSE Fail(p)
  /\ UNCHANGED <<scenario, lookups, records, dial, contacted, caaVars, ch, done>>

\* dns-01: the records are made only when the digest is found.
validateDNS01 ==
  /\ stage = "txt" /\ Ended(lookups["TXT"])
  /\ answer' = lookups["TXT"].outcome
  /\ IF ~ Answered(lookups["TXT"]) THEN Fail("connection") /\ UNCHANGED records
     ELSE IF "digest" \in Range(lookups["TXT"].outcome.value)
     THEN /\ Succeed
          /\ records' = <<[url |-> FALSE, used |-> None, resolved |-> <<>>, port |-> None]>>
     ELSE Fail("unauthorized") /\ UNCHANGED records
  /\ lookups' = [q \in DOMAIN lookups |-> Unasked]
  /\ UNCHANGED <<scenario, dial, contacted, caaVars, ch, done>>

-----------------------------------------------------------------------------
(***************************************************************************)
(* The CAA goroutine.                                                      *)
(***************************************************************************)
\* One of the lookups of parallelCAALookup makes progress.
ExchangeCAA(i) ==
  /\ caaStage = "lookup" /\ Pending(caa[i])
  /\ \E o \in scenario.caa : \E x \in exchangeOne(caa[i], o) : caa' = [caa EXCEPT ![i] = x]
  /\ UNCHANGED <<scenario, challengeVars, caaStage, gpdns, ch, done>>

\* checkCAAInternal's problem for what was found: both a failed lookup and
\* records that forbid issuance are a "connection" problem.
CAAProblem(found) ==
  IF found.err \/ ~ validateCAASet(found.records) THEN "connection" ELSE None

LocalResults == [i \in Labels |-> LookupCAA(caa[i])]

\* All lookups have ended.  A problem is checked again over the distributed
\* resolver if there is one.
checkCAA ==
  /\ caaStage = "lookup" /\ \A i \in Labels : Ended(caa[i])
  /\ caaStage' = IF scenario.gpdns /\ CAAProblem(parseResults(LocalResults)) = "connection"
                 THEN "gpdns" ELSE "report"
  /\ UNCHANGED <<scenario, challengeVars, caa, gpdns, ch, done>>

\* A proxy's query for label i ends and goes to the channel, which has room for
\* all of them: nobody reads it once LookupCAA has returned.
queryCAA(i, p) ==
  /\ caaStage = "gpdns" \/ gpdns[i].sent # {}
  /\ p \in Proxies \ gpdns[i].sent
  /\ \E o \in scenario.answers \cup (IF done THEN {LookupError} ELSE {}) :
       gpdns' = [gpdns EXCEPT ![i].sent = @ \cup {p},
                              ![i].channel = IF gpdns[i].result = <<>> THEN Append(@, o) ELSE @]
  /\ UNCHANGED <<scenario, challengeVars, caa, caaStage, ch, done>>

CollectedFirst(g, r) ==
  LET failed == IF r.err THEN g.failed + 1 ELSE g.failed
      next == [g EXCEPT !.channel = Tail(@), !.heard = Append(@, r), !.failed = failed]
  IN IF failed > maxFailures THEN [next EXCEPT !.result = <<LookupError>>, !.channel = <<>>]
     ELSE IF g.CAAs = <<>>
     THEN [next EXCEPT !.CAAs = IF r.err THEN <<>> ELSE <<r.records>>]
     ELSE next

\* What LookupCAA of cdr/resolver.go does with the next result r of label g.  A
\* tolerated failure goes on to the comparison with its nil records: CAAs stays
\* nil if it was, otherwise no records are compared with the records there are.
Collected(g, r) ==
  LET failed == IF r.err THEN g.failed + 1 ELSE g.failed
      next == [g EXCEPT !.channel = Tail(@), !.heard = Append(@, r), !.failed = failed]
  IN IF failed > maxFailures THEN [next EXCEPT !.result = <<LookupError>>, !.channel = <<>>]
     ELSE IF g.CAAs = <<>>
     THEN [next EXCEPT !.CAAs = IF r.err THEN <<>> ELSE <<r.records>>]
     ELSE IF r.records # g.CAAs[1] THEN [next EXCEPT !.result = <<LookupError>>, !.channel = <<>>]
     ELSE next

\* The collecting loop, which returns the records after the last client.
Collect(i) ==
  LET g == gpdns[i]
  IN /\ caaStage = "gpdns" /\ g.result = <<>> /\ g.channel # <<>>
     /\ LET c == Collected(g, Head(g.channel))
        IN gpdns' = [gpdns EXCEPT ![i] =
                       IF c.result = <<>> /\ Len(c.heard) = Cardinality(Proxies)
                       THEN [c EXCEPT !.result = <<Found(IF c.CAAs = <<>> THEN {} ELSE c.CAAs[1])>>]
                       ELSE c]
     /\ UNCHANGED <<scenario, challengeVars, caa, caaStage, ch, done>>

GPDNSResults == [i \in Labels |-> gpdns[i].result[1]]

checkGPDNS ==
  /\ caaStage = "gpdns" /\ \A i \in Labels : gpdns[i].result # <<>>
  /\ caaStage' = "report"
  /\ UNCHANGED <<scenario, challengeVars, caa, gpdns, ch, done>>

\* The verdict of the check that counted last.
CAAVerdict ==
  IF \A i \in Labels : gpdns[i].result # <<>>
  THEN CAAProblem(parseResults(GPDNSResults))
  ELSE CAAProblem(parseResults(LocalResults))

ReportUnbuffered ==
  /\ caaStage = "report" /\ stage = "wait"
  /\ ch' = Append(ch, CAAVerdict)
  /\ caaStage' = "ended"
  /\ UNCHANGED <<scenario, challengeVars, caa, gpdns, done>>

\* The send on ch, which has room for one problem.
Report ==
  /\ caaStage = "report" /\ Len(ch) < 1
  /\ ch' = Append(ch, CAAVerdict)
  /\ caaStage' = "ended"
  /\ UNCHANGED <<scenario, challengeVars, caa, gpdns, done>>

-----------------------------------------------------------------------------
validateChallengeOnly ==
  /\ stage = "wait"
  /\ problem' = IF ~ RecordsSane THEN "serverInternal" ELSE None
  /\ stage' = "done"
  /\ UNCHANGED <<scenario, lookups, records, dial, contacted, answer, caaVars, ch, done>>

\* The challenge was met: the CAA problem is awaited and, if there is none, the
\* records are checked (PerformValidation).
validateChallengeAndCAA ==
  /\ stage = "wait" /\ ch # <<>>
  /\ ch' = Tail(ch)
  /\ problem' = IF Head(ch) # None THEN Head(ch)
                ELSE IF ~ RecordsSane THEN "serverInternal" ELSE None
  /\ stage' = "done"
  /\ UNCHANGED <<scenario, lookups, records, dial, contacted, answer, caaVars, done>>

\* The RA's call times out or goes away.
Cancel ==
  /\ scenario.mayCancel /\ ~ done
  /\ done' = TRUE
  /\ UNCHANGED <<scenario, challengeVars, caaVars, ch>>

Next ==
  \/ validateChallenge \/ resolveAndConstructDialer \/ Dial \/ Unreachable
  \/ fetchHTTP \/ validateHTTP01 \/ getTLSSNICerts \/ validateDNS01
  \/ \E q \in DOMAIN lookups : Exchange(q)
  \/ \E i \in Labels : ExchangeCAA(i) \/ Collect(i)
  \/ \E i \in Labels, p \in Proxies : queryCAA(i, p)
  \/ checkCAA \/ checkGPDNS \/ Report \/ validateChallengeAndCAA \/ Cancel

Spec == Init /\ [][Next]_vars

\* Every exchange, dial and query has a timeout of its own, so each of them
\* ends, and the goroutines run on.
FairSpec == Spec /\ WF_vars(Next)

-----------------------------------------------------------------------------
(***************************************************************************)
(* Properties.                                                             *)
(***************************************************************************)
\* What the answer has to be for the challenge to be met.
Proven ==
  CASE answer.kind = "http" -> answer.value = [status |-> 200, length |-> "short",
                                               payload |-> "keyAuthorization"]
    [] answer.kind = "certs" /\ scenario.type = "tls-sni-01" ->
         answer.value # <<>> /\ "Z" \in Range(answer.value[1])
    [] answer.kind = "certs" /\ scenario.type = "tls-sni-02" ->
         answer.value # <<>> /\ answer.value[1] \in {<<"SanA", "SanB">>, <<"SanB", "SanA">>}
    [] answer.kind = "answer" -> "digest" \in Range(answer.value)
    [] OTHER -> FALSE

\* PerformValidation finds no problem exactly when the server (or the zone)
\* proved control of the key and the CAA goroutine found no problem either,
\* whichever of the two goroutines is first: no verdict is reached without
\* the CAA check, and its records are never the reason of a failure.
VerdictExact ==
  stage = "done" =>
    (problem = None <=> Proven /\ caaStage = "ended" /\ CAAVerdict = None)

\* RFC 6844's climb, on what was found at each label: no name closer than the
\* one whose records allow issuance has records or could not be looked up.
Permits(results) ==
  \E k \in 0 .. Len(results) :
    /\ \A i \in 1 .. k : results[i] = Found({})
    /\ \/ k = Len(results)
       \/ ~ results[k + 1].err /\ results[k + 1].records # {}
          /\ validateCAASet(results[k + 1].records)

\* The parallel lookups decide as a climb one label at a time would: the
\* closest records count, a lookup that failed closer to the name than any
\* records forbids issuance, and one that failed further up does not matter.
\* With a distributed resolver its verdict replaces a refusal, whether that
\* came from a failed lookup or from the records.
ClosestRecordsDecide ==
  caaStage = "ended" =>
    (CAAVerdict = None <=>
       \/ Permits(LocalResults)
       \/ /\ \A i \in Labels : gpdns[i].result # <<>>
          /\ Permits(GPDNSResults))

\* Every address that was dialled is the one in the record of its hop, the
\* first public address of that hop's host: the transport never dials a
\* former hop's address.
AddressesRecorded ==
  \A i \in DOMAIN contacted :
    /\ contacted[i] = records[i].used
    /\ contacted[i] = records[i].resolved[1] /\ contacted[i] \in Public

Good(g) == {k \in DOMAIN g.heard : ~ g.heard[k].err}

\* At most maxFailures of the proxies failed, those that answered agree, and no
\* proxy failed after one had answered with records.
Agreed(g) ==
  /\ Cardinality(DOMAIN g.heard \ Good(g)) <= maxFailures
  /\ \A j, k \in Good(g) : g.heard[j].records = g.heard[k].records
  /\ \A j \in Good(g), k \in DOMAIN g.heard :
       g.heard[k].err /\ j < k => g.heard[j].records = {}

\* The distributed lookup returns records exactly when its proxies agreed: a
\* tolerated failure counts as an answer without any records if it comes after
\* an answer.
QuorumAgrees ==
  \A i \in Labels :
    gpdns[i].result # <<>> => (~ gpdns[i].result[1].err <=> Agreed(gpdns[i]))

\* cdr/resolver.go: "New returns an initialized CAADistributedResolver which
\* requires a M of N quorum to succeed where N = len(proxies) and M = N -
\* maxFailures": a lookup fails only if too many proxies failed or two that
\* answered disagree.
QuorumSuffices ==
  \A i \in Labels :
    LET g == gpdns[i]
    IN g.result # <<>> /\ g.result[1].err =>
         \/ Cardinality(DOMAIN g.heard \ Good(g)) > maxFailures
         \/ \E j, k \in Good(g) : g.heard[j].records # g.heard[k].records

\* PerformValidation returns, and no goroutine is left behind: the CAA check
\* reports though nobody may be waiting for it any more, and every proxy's
\* query ends though LookupCAA may have returned without it.
NobodyBlocks ==
  <>(/\ stage = "done" /\ caaStage = "ended"
     /\ \A i \in Labels : gpdns[i].sent \in {{}, Proxies})
=============================================================================
