----------------------------- MODULE OCSPDelivery -----------------------------
(***************************************************************************)
(* From the certificateStatus table to a relying party: the CDN in front   *)
(* of the ocsp-responder caches a response until its nextUpdate, and the   *)
(* ocsp-updater asks the CDN to drop what it has cached for a certificate  *)
(* whose revoked response it has just had signed.  The purge starts before *)
(* the new response is stored, runs beside everything else, and gives up   *)
(* after a number of attempts.                                             *)
(***************************************************************************)
EXTENDS CertificateStatus, Sequences

CONSTANTS
    OCSPServers,        \* cert.OCSPServer, in the order of the certificate
    Validity,           \* nextUpdate - thisUpdate of a response
    Retries             \* CachePurgeClient.retries

Servers == {OCSPServers[i] : i \in DOMAIN OCSPServers}

ASSUME DeliveryAssumption ==
    OCSPServers \in Seq(Servers) \ {<<>>} /\ Validity \in Nat /\ Retries \in Nat

VARIABLES
    cache,              \* server -> serial -> what the CDN has cached
    purges,             \* the sendPurge goroutines: [serial, attempt]
    purged,             \* serials purged since their revoked response is stored
    since               \* serial -> when its row became revoked

deliveryVars == <<cache, purges, purged, since>>
allVars == <<vars, deliveryVars>>

NotCached == [status |-> "none", until |-> 0]

DeliveryInit ==
    /\ Init
    /\ cache = [e \in Servers |-> [s \in Serials |-> NotCached]]
    /\ purges = {}
    /\ purged = {}
    /\ since = [s \in Serials |-> 0]

\* DBSource.Response: no answer while ocspLastUpdated is zero.  A response is
\* valid from the time it was signed, which ocspLastUpdated records.
Response(s) ==
    IF s \in issued /\ row[s].ocspLastUpdated # 0
    THEN [status |-> row[s].ocspResponse.status, until |-> row[s].ocspLastUpdated + Validity]
    ELSE NotCached

\* Mutant: what is cached stays until it is purged.
FreshForever(e, s) == cache[e][s].status # "none"

Fresh(e, s) == now < cache[e][s].until

\* What a relying party gets at server e: the CDN's copy or, without one, the
\* responder's answer.
Served(e, s) == IF Fresh(e, s) THEN cache[e][s] ELSE Response(s)

\* Mutant: the cache counts from its own fetch, not from the signature.
FetchForever(e, s) ==
    /\ ~ Fresh(e, s)
    /\ now < Response(s).until /\ Response(s).until <= MaxTime
    /\ cache' = [cache EXCEPT ![e][s] = [Response(s) EXCEPT !.until = now + Validity]]
    /\ UNCHANGED <<vars, purges, purged, since>>

\* A request that the CDN passes on.  The responder makes the response
\* cacheable up to its nextUpdate, and not at all after it.  (Bound: a response
\* that outlives the model is not cached.)
Fetch(e, s) ==
    /\ ~ Fresh(e, s)
    /\ now < Response(s).until /\ Response(s).until <= MaxTime
    /\ cache' = [cache EXCEPT ![e][s] = Response(s)]
    /\ UNCHANGED <<vars, purges, purged, since>>

-----------------------------------------------------------------------------
\* Mutant: the first server's keys are purged.
PurgedServersFirst == {OCSPServers[1]}

\* sendPurge assigns the keys of each server to urls instead of adding them,
\* so those of the last server are purged.
PurgedServers == {OCSPServers[Len(OCSPServers)]}

\* generateRevokedResponse starts sendPurge before the response is stored.
GenerateRevoked(j) ==
    /\ Generate("RevokedCertificates", j)
    /\ purges' = purges \cup {[serial |-> j.serial, attempt |-> 0]}
    /\ UNCHANGED <<cache, purged, since>>

\* The CDN removes the objects.
purge(p) ==
    /\ cache' = [e \in Servers |-> IF e \in PurgedServers
                                   THEN [cache[e] EXCEPT ![p.serial] = NotCached]
                                   ELSE cache[e]]
    /\ purges' = purges \ {p}
    /\ purged' = IF row[p.serial].ocspResponse.status = "revoked"
                 THEN purged \cup {p.serial} ELSE purged
    /\ UNCHANGED <<vars, since>>

\* Purge: an attempt fails in a way that is worth a retry, or for good.
PurgeFails(p, fatal) ==
    /\ purges' = (purges \ {p}) \cup
                 (IF ~ fatal /\ p.attempt < Retries
                  THEN {[p EXCEPT !.attempt = @ + 1]} ELSE {})
    /\ UNCHANGED <<vars, cache, purged, since>>

\* The steps of CertificateStatus.  A second revocation may put an old
\* response back, which ends what a purge had achieved.
StatusStep ==
    /\ \/ \E s \in Serials, early \in BOOLEAN : AddCertificate(s, early)
       \/ \E q \in Revocations : WFERevoke(q) \/ AdminRevoke(q) \/ MarkRead(q) \/ MarkUpdate(q)
       \/ newCertificateTick
       \/ oldOCSPResponsesTick
       \/ revokedCertificatesTick
       \/ \E l \in Loops : \E j \in work[l] :
             \/ l # "RevokedCertificates" /\ Generate(l, j)
             \/ GenerateFails(l, j) \/ storeResponse(l, j) \/ storeResponseFails(l, j)
       \/ ClockTick
    /\ purged' = {s \in purged : row'[s].ocspResponse.status = "revoked"}
    /\ since' = [s \in Serials |->
                    IF row[s].status # "revoked" /\ row'[s].status = "revoked"
                    THEN now ELSE since[s]]
    /\ UNCHANGED <<cache, purges>>

\* A restart loses the goroutines too.
Restart ==
    /\ UpdaterRestart \/ (purges # {} /\ work' = [l \in Loops |-> {}]
                          /\ UNCHANGED <<now, issued, row, revocation>>)
    /\ purges' = {}
    /\ UNCHANGED <<cache, purged, since>>

DeliveryNext ==
    \/ StatusStep
    \/ \E j \in work["RevokedCertificates"] : GenerateRevoked(j)
    \/ \E e \in Servers, s \in Serials : Fetch(e, s)
    \/ \E p \in purges : purge(p) \/ \E fatal \in BOOLEAN : PurgeFails(p, fatal)
    \/ Restart

DeliverySpec == DeliveryInit /\ [][DeliveryNext]_allVars

\* The loops tick for ever, whatever a tick returned (looper.loop).  The CA
\* and the database do not fail for ever on one certificate: a signature, a
\* store and a tick that are tried again and again succeed at last, in
\* whichever loop.  Nothing is assumed of purges and requests.
GenerateAny(s) ==
    \/ \E l \in Loops \ {"RevokedCertificates"} : \E j \in work[l] :
          j.serial = s /\ Generate(l, j)
    \/ \E j \in work["RevokedCertificates"] : j.serial = s /\ GenerateRevoked(j)

DeliveryFairSpec ==
    /\ DeliverySpec
    /\ WF_vars(ClockTick)
    /\ WF_vars(newCertificateTick)
    /\ WF_vars(revokedCertificatesTick)
    /\ SF_vars(OldTickCompletes)
    /\ \A s \in Serials : SF_vars(GenerateAny(s)) /\ SF_vars(StoreFor(s))

-----------------------------------------------------------------------------
\* Properties

\* However the purges fare, a revoked certificate is served as good from a
\* cache for at most the validity of a response (and the clock skew) after
\* MarkCertificateRevoked wrote the row (not after its revokedDate, which may
\* be earlier): no good response that is signed later gets to the responder,
\* not even one whose signature was under way.
GoodServedBriefly ==
    \A e \in Servers, s \in Serials :
        (row[s].status = "revoked" /\ cache[e][s].status = "good")
            => cache[e][s].until <= since[s] + Validity + Skew

\* A purge that succeeds after the revoked response was stored lasts: from then
\* on the last server answers revoked (until another revocation of the same
\* certificate puts the old response back).  Purges that overtake the store,
\* and the other servers, are left to the expiry of the cached response.
PurgeLasts ==
    \A s \in purged, e \in {OCSPServers[Len(OCSPServers)]} : Served(e, s).status = "revoked"

\* Every server in the end answers revoked for a revoked certificate, also if
\* no purge ever succeeds.
RevocationReaches ==
    \A s \in Serials :
        <>[](row[s].status = "revoked" => \A e \in Servers : Served(e, s).status = "revoked")
=============================================================================
