--------------------------- MODULE CertificateStatus ---------------------------
(***************************************************************************)
(* The certificateStatus table and the processes that write it:            *)
(*   - the CA, which adds a row with the certificate (sa.AddCertificate);  *)
(*   - revocations, through the web front end (which refuses a certificate *)
(*     it reads as revoked) or through admin-revoker (which does not look),*)
(*     both ending in sa.MarkCertificateRevoked: a read of the row and an  *)
(*     optimistically locked write of the WHOLE row;                       *)
(*   - the ocsp-updater's NewCertificates, OldOCSPResponses and            *)
(*     RevokedCertificates loops, which read rows, have the CA sign, and   *)
(*     store the response with an UPDATE that ignores the lock column.     *)
(*                                                                         *)
(* Time is a counter of seconds, the granularity of the table's datetime   *)
(* columns.  The updater's clock is ahead of the SA's by Skew.             *)
(***************************************************************************)
EXTENDS Integers, FiniteSets

CONSTANTS
    Serials,            \* certificates
    Revocations,        \* revocation requests, each a process
    Reasons,            \* revocation reason codes
    MinTimeToExpiry,    \* updater.ocspMinTimeToExpiry
    StaleMaxAge,        \* updater.ocspStaleMaxAge
    Lifetime,           \* NotAfter - NotBefore of a certificate
    BatchSize,          \* looper.batchSize
    Parallel,           \* updater.parallelGenerateOCSPRequests
    Skew,               \* the updater's clock minus the SA's
    Start,              \* the time at which the model starts
    MaxTime,            \* bound: the model's last second
    MaxRevokeTime       \* bound: the last second at which a row is revoked

ASSUME ReasonsAssumption == Reasons \subseteq Nat /\ 0 \in Reasons
ASSUME TimesAssumption ==
    /\ MinTimeToExpiry \in Nat /\ StaleMaxAge \in Nat /\ Lifetime \in Nat
    /\ Skew \in Nat /\ MaxTime \in Nat /\ MaxRevokeTime \in Nat
    /\ Start \in Nat /\ Start > 0 /\ Start >= StaleMaxAge
ASSUME BatchAssumption == BatchSize \in Nat \ {0} /\ Parallel \in Nat \ {0}

VARIABLES
    now,                \* the SA's clock
    issued,             \* serials that have a row
    row,                \* serial -> its certificateStatus row
    revocation,         \* revocation request -> its progress
    work                \* updater loop -> the jobs of its running tick

vars == <<now, issued, row, revocation, work>>

Loops == {"NewCertificates", "OldOCSPResponses", "RevokedCertificates"}

\* A signed OCSP response, as far as a relying party can tell them apart.
Responses == [status : {"none", "good", "revoked"}, reason : Reasons, revokedAt : Nat]
NoResponse == [status |-> "none", reason |-> 0, revokedAt |-> 0]

Rows == [status : {"good", "revoked"}, ocspLastUpdated : Nat, revokedDate : Nat,
         revokedReason : Reasons, ocspResponse : Responses, lockCol : Nat,
         notAfter : Nat, isExpired : BOOLEAN]
NoRow == [status |-> "good", ocspLastUpdated |-> 0, revokedDate |-> 0,
          revokedReason |-> 0, ocspResponse |-> NoResponse, lockCol |-> 0,
          notAfter |-> 0, isExpired |-> FALSE]

\* A row as a tick selected it; the response and its time once it is signed.
Jobs == [serial : Serials, status : {"good", "revoked"}, reason : Reasons,
         revokedDate : Nat, response : Responses, at : Nat]

Steps == {"idle", "asked", "read", "conflict", "failed", "revoked"}
RequestStates == [step : Steps, serial : Serials, reason : Reasons, row : Rows, readAt : Nat]

Signed(j) == j.response.status # "none"
UpdaterNow == now + Skew

-----------------------------------------------------------------------------

Init ==
    /\ now = Start
    /\ issued = {}
    /\ row = [s \in Serials |-> NoRow]
    /\ \E serial \in [Revocations -> Serials], reason \in [Revocations -> Reasons] :
          revocation = [q \in Revocations |->
              [step |-> "idle", serial |-> serial[q], reason |-> reason[q],
               row |-> NoRow, readAt |-> 0]]
    /\ work = [l \in Loops |-> {}]

\* ca.GenerateOCSP: only a revoked response carries a reason and a date.
GenerateOCSP(status, reason, revokedAt) ==
    IF status = "revoked"
    THEN [status |-> "revoked", reason |-> reason, revokedAt |-> revokedAt]
    ELSE [status |-> "good", reason |-> 0, revokedAt |-> 0]

\* The row sa.AddCertificate inserts; gorp inserts version 1.
NewRow(response, updated) ==
    [status |-> "good", ocspLastUpdated |-> updated, revokedDate |-> 0,
     revokedReason |-> 0, ocspResponse |-> response, lockCol |-> 1,
     notAfter |-> now + Lifetime, isExpired |-> FALSE]

\* Mutant: ocspLastUpdated is set also when there is no response.
AddCertificate_AlwaysUpdated(s, early) ==
    /\ s \notin issued
    /\ issued' = issued \cup {s}
    /\ row' = [row EXCEPT ![s] = NewRow(
                  IF early THEN GenerateOCSP("good", 0, 0) ELSE NoResponse, now)]
    /\ UNCHANGED <<now, revocation, work>>

\* sa.AddCertificate, with or without the response that the CA signs early.
AddCertificate(s, early) ==
    /\ s \notin issued
    /\ issued' = issued \cup {s}
    /\ row' = [row EXCEPT ![s] = NewRow(
                  IF early THEN GenerateOCSP("good", 0, 0) ELSE NoResponse,
                  IF early THEN now ELSE 0)]
    /\ UNCHANGED <<now, revocation, work>>

-----------------------------------------------------------------------------
\* Revocation requests

\* The web front end reads the status and refuses a revoked certificate.
WFERevoke(q) ==
    LET r == revocation[q]
    IN  /\ r.step = "idle"
        /\ r.serial \in issued
        /\ revocation' = [revocation EXCEPT ![q].step =
               IF row[r.serial].status = "revoked" THEN "conflict" ELSE "asked"]
        /\ UNCHANGED <<now, issued, row, work>>

\* admin-revoker goes to the RA without looking at the status.
AdminRevoke(q) ==
    /\ revocation[q].step = "idle"
    /\ revocation[q].serial \in issued
    /\ revocation' = [revocation EXCEPT ![q].step = "asked"]
    /\ UNCHANGED <<now, issued, row, work>>

\* sa.MarkCertificateRevoked up to its SELECT of the row.
MarkRead(q) ==
    /\ revocation[q].step = "asked"
    /\ now <= MaxRevokeTime
    /\ revocation' = [revocation EXCEPT ![q].step = "read",
                                        ![q].row = row[revocation[q].serial],
                                        ![q].readAt = now]
    /\ UNCHANGED <<now, issued, row, work>>

\* Mutant: only the columns of the revocation are written.
RevokedRow_Columns(r, date) ==
    [row[r.serial] EXCEPT !.status = "revoked", !.revokedDate = date,
                          !.revokedReason = r.reason, !.lockCol = r.row.lockCol + 1]

\* The row tx.Update writes: every column of the row that was read, with the
\* revocation and the next version.
RevokedRow(r, date) ==
    [r.row EXCEPT !.status = "revoked", !.revokedDate = date,
                  !.revokedReason = r.reason, !.lockCol = r.row.lockCol + 1]

\* Mutant: the version of the row is not compared.
MarkUpdate_NoVersion(q) ==
    LET r == revocation[q]
    IN  /\ r.step = "read"
        /\ \E date \in r.readAt .. now :
              /\ date <= MaxRevokeTime
              /\ row' = [row EXCEPT ![r.serial] = RevokedRow(r, date)]
        /\ revocation' = [revocation EXCEPT ![q].step = "revoked"]
        /\ UNCHANGED <<now, issued, work>>

\* The rest of sa.MarkCertificateRevoked: the clock is read at some moment
\* after the SELECT, and gorp updates the row if its version is the one read.
MarkUpdate(q) ==
    LET r == revocation[q]
    IN  /\ r.step = "read"
        /\ \/ /\ row[r.serial].lockCol = r.row.lockCol
              /\ \E date \in r.readAt .. now :
                    /\ date <= MaxRevokeTime
                    /\ row' = [row EXCEPT ![r.serial] = RevokedRow(r, date)]
              /\ revocation' = [revocation EXCEPT ![q].step = "revoked"]
           \/ /\ row[r.serial].lockCol # r.row.lockCol
              /\ revocation' = [revocation EXCEPT ![q].step = "failed"]
              /\ UNCHANGED row
        /\ UNCHANGED <<now, issued, work>>

-----------------------------------------------------------------------------
\* The ocsp-updater

MissingResponses == {s \in issued : row[s].ocspLastUpdated = 0}

StaleResponses ==
    {s \in issued : /\ row[s].ocspLastUpdated > UpdaterNow - StaleMaxAge
                    /\ row[s].ocspLastUpdated < UpdaterNow - MinTimeToExpiry
                    /\ ~ row[s].isExpired}

RevokedToUpdate ==
    {s \in issued : /\ row[s].status = "revoked"
                    /\ row[s].ocspLastUpdated <= row[s].revokedDate}

\* The results of a SELECT with a LIMIT, and of one that also has
\* ORDER BY ocspLastUpdated.
Limited(found) ==
    {b \in SUBSET found : \/ b = found /\ Cardinality(b) <= BatchSize
                          \/ Cardinality(b) = BatchSize}
LimitedOldest(found) ==
    {b \in Limited(found) : \A s \in b, u \in found \ b :
        row[s].ocspLastUpdated <= row[u].ocspLastUpdated}

Job(s, reason) ==
    [serial |-> s, status |-> row[s].status, reason |-> reason,
     revokedDate |-> row[s].revokedDate, response |-> NoResponse, at |-> 0]

\* A loop begins a tick only when its last tick has returned.
newCertificateTick ==
    /\ work["NewCertificates"] = {}
    /\ \E b \in Limited(MissingResponses) \ {{}} :
          work' = [work EXCEPT !["NewCertificates"] = {Job(s, row[s].revokedReason) : s \in b}]
    /\ UNCHANGED <<now, issued, row, revocation>>

revokedCertificatesTick ==
    /\ work["RevokedCertificates"] = {}
    /\ \E b \in Limited(RevokedToUpdate) \ {{}} :
          work' = [work EXCEPT !["RevokedCertificates"] = {Job(s, row[s].revokedReason) : s \in b}]
    /\ UNCHANGED <<now, issued, row, revocation>>

\* markExpired, for the rows of m.
MarkExpired(m) ==
    row' = [s \in Serials |-> IF s \in m THEN [row[s] EXCEPT !.isExpired = TRUE] ELSE row[s]]

\* The query of findStaleOCSPResponses does not select revokedReason, so the
\* job carries reason 0.  Certificates past their notAfter are marked before
\* any response is generated; a failing mark ends the tick.
oldOCSPResponsesTick ==
    /\ work["OldOCSPResponses"] = {}
    /\ \E b \in LimitedOldest(StaleResponses) \ {{}} :
          LET expired == {s \in b : UpdaterNow > row[s].notAfter}
          IN  \/ /\ MarkExpired(expired)
                 /\ work' = [work EXCEPT !["OldOCSPResponses"] = {Job(s, 0) : s \in b}]
              \/ /\ \E m \in SUBSET expired : m # expired /\ MarkExpired(m)
                 /\ UNCHANGED work
    /\ UNCHANGED <<now, issued, revocation>>

\* The RevokedCertificates loop handles its rows one after the other; the
\* others run up to Parallel goroutines.
HasCapacity(l) ==
    Cardinality({j \in work[l] : Signed(j)})
        < (IF l = "RevokedCertificates" THEN 1 ELSE Parallel)

\* generateResponse and generateRevokedResponse.
Generate(l, j) ==
    /\ j \in work[l] /\ ~ Signed(j)
    /\ HasCapacity(l)
    /\ work' = [work EXCEPT ![l] = (@ \ {j}) \cup
                  {[j EXCEPT !.response = GenerateOCSP(j.status, j.reason, j.revokedDate),
                             !.at = UpdaterNow]}]
    /\ UNCHANGED <<now, issued, row, revocation>>

\* A failed signature ends a RevokedCertificates tick, and only the one job
\* in the other loops.
GenerateFails(l, j) ==
    /\ j \in work[l] /\ ~ Signed(j)
    /\ HasCapacity(l)
    /\ work' = [work EXCEPT ![l] = IF l = "RevokedCertificates" THEN {} ELSE @ \ {j}]
    /\ UNCHANGED <<now, issued, row, revocation>>

\* UPDATE certificateStatus SET ocspResponse, ocspLastUpdated
\* WHERE serial = ... AND status = ...: no row matches if the status changed.
storeResponse(l, j) ==
    /\ j \in work[l] /\ Signed(j)
    /\ row' = IF row[j.serial].status = j.status
              THEN [row EXCEPT ![j.serial].ocspResponse = j.response,
                               ![j.serial].ocspLastUpdated = j.at]
              ELSE row
    /\ work' = [work EXCEPT ![l] = @ \ {j}]
    /\ UNCHANGED <<now, issued, revocation>>

storeResponseFails(l, j) ==
    /\ j \in work[l] /\ Signed(j)
    /\ work' = [work EXCEPT ![l] = @ \ {j}]
    /\ UNCHANGED <<now, issued, row, revocation>>

\* The updater crashes and starts again: its loops are only in memory.
UpdaterRestart ==
    /\ \E l \in Loops : work[l] # {}
    /\ work' = [l \in Loops |-> {}]
    /\ UNCHANGED <<now, issued, row, revocation>>

ClockTick ==
    /\ now < MaxTime
    /\ now' = now + 1
    /\ UNCHANGED <<issued, row, revocation, work>>

-----------------------------------------------------------------------------

Next ==
    \/ \E s \in Serials, early \in BOOLEAN : AddCertificate(s, early)
    \/ \E q \in Revocations : WFERevoke(q) \/ AdminRevoke(q) \/ MarkRead(q) \/ MarkUpdate(q)
    \/ newCertificateTick
    \/ oldOCSPResponsesTick
    \/ revokedCertificatesTick
    \/ \E l \in Loops : \E j \in work[l] :
          \/ Generate(l, j) \/ GenerateFails(l, j)
          \/ storeResponse(l, j) \/ storeResponseFails(l, j)
    \/ UpdaterRestart
    \/ ClockTick

Spec == Init /\ [][Next]_vars

\* For fairness: the CA and the database do not fail for ever on one
\* certificate.
StoreFor(s) ==
    \E l \in Loops : \E j \in work[l] : j.serial = s /\ storeResponse(l, j)
OldTickCompletes == oldOCSPResponsesTick /\ work' # work

-----------------------------------------------------------------------------
\* Properties

\* The variables range over the columns of the table and the states of the
\* requests and jobs that use it.
TypeOK ==
    /\ now \in Nat
    /\ issued \in SUBSET Serials
    /\ row \in [Serials -> Rows]
    /\ revocation \in [Revocations -> RequestStates]
    /\ work \in [Loops -> SUBSET Jobs]

\* s is revoked and the response the OCSP responder has for it says otherwise.
NeedsRevokedResponse(s) ==
    s \in issued /\ row[s].status = "revoked" /\ row[s].ocspResponse.status # "revoked"

\* No revocation escapes the RevokedCertificates loop: as long as the stored
\* response of a revoked certificate does not say so, the query of
\* findRevokedCertificatesToUpdate finds it, unless the response was signed
\* within the clock skew after the revocation.  The whole-row write of
\* MarkCertificateRevoked puts an old ocspLastUpdated back for this.
NoRevocationEscapes ==
    \A s \in Serials : NeedsRevokedResponse(s) =>
        \/ s \in RevokedToUpdate
        \/ row[s].ocspLastUpdated \in row[s].revokedDate + 1 .. row[s].revokedDate + Skew

\* What is served as revoked is revoked, and was so at the date served: the
\* stored response never reports a later revocation than the row does, even
\* when a certificate is revoked again while responses are being signed.
RevokedResponseBacked ==
    \A s \in Serials : row[s].ocspResponse.status = "revoked" =>
        /\ row[s].status = "revoked"
        /\ row[s].ocspResponse.revokedAt <= row[s].revokedDate

\* The status WHERE of storeResponse makes sure a 'revoked' response is not
\* overwritten with a 'good' one: only another MarkCertificateRevoked, which
\* writes back the response it read, can take it away.
UpdaterKeepsRevoked ==
    [][\A s \in Serials :
          (row[s].ocspResponse.status = "revoked" /\ row'[s].ocspResponse.status # "revoked")
              => row'[s].lockCol > row[s].lockCol]_vars

\* Every certificate gets a response, also when the CA signed none with it.
EveryCertificateAnswered ==
    \A s \in Serials : s \in issued ~> row[s].ocspResponse # NoResponse
=============================================================================
