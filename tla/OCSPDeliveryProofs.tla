-------------------------- MODULE OCSPDeliveryProofs --------------------------
(***************************************************************************)
(* For any number of certificates, revocations, jobs, servers and purges,  *)
(* any batch size and any clock skew.  First the table and its writers     *)
(* (CertificateStatus): no revocation escapes the RevokedCertificates      *)
(* loop, and the updater never replaces a 'revoked' response by another    *)
(* kind.  Then the delivery: how long a cache can answer good for a        *)
(* revoked certificate, and that a purge that comes after the store lasts. *)
(* The invariant of the table is used there as it is: every step of        *)
(* OCSPDelivery is one of CertificateStatus or leaves its variables alone. *)
(***************************************************************************)
EXTENDS OCSPDelivery, TLAPS

(***************************************************************************)
(* The certificate status table.                                           *)
(***************************************************************************)
\* No row carries a time its writer's clock has not reached, and a serial
\* without a certificate has the empty row.
RowInv ==
    \A s \in Serials :
        /\ row[s].ocspLastUpdated <= now + Skew
        /\ row[s].revokedDate <= now
        /\ s \notin issued => row[s] = NoRow

\* The row a revocation has read: no newer than the read, and, while the
\* version is the same, in agreement with the table about the revocation.
ReadInv ==
    \A q \in Revocations :
        LET r == revocation[q]
        IN  /\ r.step # "idle" => r.serial \in issued
            /\ r.step = "read" =>
                /\ r.readAt <= now
                /\ r.row.lockCol <= row[r.serial].lockCol
                /\ r.row.ocspLastUpdated <= r.readAt + Skew
                /\ r.row.revokedDate <= r.readAt
                /\ r.row.ocspResponse.status = "revoked"
                      => r.row.ocspResponse.revokedAt <= r.row.revokedDate
                /\ row[r.serial].lockCol = r.row.lockCol
                      => row[r.serial].revokedDate = r.row.revokedDate

\* A job of the updater: what was signed is what was selected, and what was
\* selected as revoked is still revoked, at that date or later.
JobOK(j) ==
    /\ j.serial \in issued
    /\ j.status = "revoked" => /\ row[j.serial].status = "revoked"
                               /\ j.revokedDate <= row[j.serial].revokedDate
    /\ Signed(j) => /\ j.response = GenerateOCSP(j.status, j.reason, j.revokedDate)
                    /\ j.at <= now + Skew

JobInv == \A l \in Loops : \A j \in work[l] : JobOK(j)

\* A response that does not say so yet is no newer than the revocation, give or
\* take the clock skew.
UpdatedBefore ==
    \A s \in Serials : NeedsRevokedResponse(s)
        => row[s].ocspLastUpdated <= row[s].revokedDate + Skew

Inv ==
    /\ TypeOK /\ RowInv /\ ReadInv /\ JobInv
    /\ UpdatedBefore /\ RevokedResponseBacked

-----------------------------------------------------------------------------

\* The values that rows, jobs and responses are built from have their types.
LEMMA Values ==
    /\ NoResponse \in Responses
    /\ NoRow \in Rows
    /\ \A status \in {"good", "revoked"}, reason \in Reasons, date \in Nat :
          /\ GenerateOCSP(status, reason, date) \in Responses
          /\ GenerateOCSP(status, reason, date).status = status
          /\ status = "revoked" => GenerateOCSP(status, reason, date).revokedAt = date
BY Zenon, ReasonsAssumption DEF NoResponse, NoRow, Responses, Rows, GenerateOCSP

\* In the initial state there are no certificates, requests or jobs.
LEMMA InitInv == Init => Inv
<1> SUFFICES ASSUME Init PROVE Inv
  BY Zenon
<1> USE ReasonsAssumption, TimesAssumption
<1>1. NoRow \in Rows /\ 0 \in Reasons
  BY Zenon, Values
<1>2. TypeOK
  BY <1>1 DEF Init, TypeOK, RequestStates, Steps, Loops
<1>3. RowInv /\ UpdatedBefore /\ RevokedResponseBacked
  BY DEF Init, RowInv, UpdatedBefore, NeedsRevokedResponse,
         RevokedResponseBacked, NoRow, NoResponse
<1>4. ReadInv
  BY DEF Init, ReadInv
<1>5. JobInv
  BY Zenon DEF Init, JobInv
<1> QED
  BY Zenon, <1>2, <1>3, <1>4, <1>5 DEF Inv

\* Marking rows as expired leaves every other column alone.
SameButExpired(s) ==
    \/ row'[s] = row[s]
    \/ s \in issued /\ row'[s] = [row[s] EXCEPT !.isExpired = TRUE]

\* What UpdateExpired leaves alone.
LEMMA SameColumns ==
    ASSUME TypeOK, NEW s \in Serials, SameButExpired(s)
    PROVE  /\ row'[s] \in Rows
           /\ row'[s].status = row[s].status
           /\ row'[s].ocspLastUpdated = row[s].ocspLastUpdated
           /\ row'[s].revokedDate = row[s].revokedDate
           /\ row'[s].ocspResponse = row[s].ocspResponse
           /\ row'[s].lockCol = row[s].lockCol
           /\ s \notin issued => row'[s] = row[s]
<1>1. row[s] \in Rows
  BY Zenon DEF TypeOK
<1>2. CASE row'[s] = row[s]
  BY Zenon, <1>1, <1>2
<1>3. CASE s \in issued /\ row'[s] = [row[s] EXCEPT !.isExpired = TRUE]
  BY Zenon, <1>1, <1>3 DEF Rows
<1> QED
  BY Zenon, <1>2, <1>3 DEF SameButExpired

\* A step that changes no more than isExpired in the table, and the jobs,
\* keeps the invariant if the new jobs are in order.
LEMMA WorkStep ==
    ASSUME Inv, UNCHANGED <<now, issued, revocation>>,
           row' = [s \in Serials |-> row'[s]],
           \A s \in Serials : SameButExpired(s),
           work' \in [Loops -> SUBSET Jobs],
           \A l \in Loops : \A j \in work'[l] : j \in work[l] \/ JobOK(j)
    PROVE  Inv'
<1>0. \A s \in Serials :
           /\ row'[s] \in Rows
           /\ row'[s].status = row[s].status
           /\ row'[s].ocspLastUpdated = row[s].ocspLastUpdated
           /\ row'[s].revokedDate = row[s].revokedDate
           /\ row'[s].ocspResponse = row[s].ocspResponse
           /\ row'[s].lockCol = row[s].lockCol
           /\ s \notin issued => row'[s] = row[s]
  BY Zenon, SameColumns DEF Inv
<1>1. TypeOK'
  BY Zenon, <1>0 DEF Inv, TypeOK
<1>2. RowInv' /\ UpdatedBefore' /\ RevokedResponseBacked'
  BY Zenon, <1>0 DEF Inv, RowInv, UpdatedBefore, NeedsRevokedResponse,
              RevokedResponseBacked
<1>3. ReadInv'
  BY Zenon, <1>0 DEF Inv, TypeOK, ReadInv, RequestStates
<1>4. ASSUME NEW l \in Loops, NEW j \in work'[l] PROVE JobOK(j)'
  <2>1. JobOK(j) /\ j.serial \in Serials
    BY <1>4 DEF Inv, TypeOK, JobInv, Jobs
  <2> QED
    BY Zenon, <2>1, <1>0 DEF JobOK, Signed
<1>5. JobInv'
  BY Zenon, <1>4 DEF JobInv
<1> QED
  BY Zenon, <1>1, <1>2, <1>3, <1>5 DEF Inv

\* A row that a tick selects makes a job in order.
LEMMA JobTyped ==
    ASSUME Inv, NEW s \in issued, NEW reason \in Reasons
    PROVE  Job(s, reason) \in Jobs /\ JobOK(Job(s, reason))
<1>1. s \in Serials /\ row[s] \in Rows /\ NoResponse \in Responses
  BY Zenon, Values DEF Inv, TypeOK
<1>2. Job(s, reason) \in Jobs
  BY Zenon, <1>1 DEF Job, Jobs, Rows
<1>3. JobOK(Job(s, reason))
  BY <1>1 DEF Job, JobOK, Signed, NoResponse, Rows
<1> QED
  BY Zenon, <1>2, <1>3

-----------------------------------------------------------------------------
\* One lemma per action of Next.

\* A new row says good; no request and no job refers to it yet.
LEMMA AddCertificateInv ==
    ASSUME Inv, NEW s \in Serials, NEW early \in BOOLEAN, AddCertificate(s, early)
    PROVE  Inv'
<1> USE ReasonsAssumption, TimesAssumption
<1>0. PICK response \in Responses, updated \in {0, now} :
           /\ response.status # "revoked"
           /\ row' = [row EXCEPT ![s] = NewRow(response, updated)]
  <2>1. /\ GenerateOCSP("good", 0, 0) \in Responses
        /\ GenerateOCSP("good", 0, 0).status = "good"
    BY Zenon DEF GenerateOCSP, Responses
  <2>2. NoResponse \in Responses /\ NoResponse.status = "none"
    BY Zenon, Values DEF NoResponse
  <2>3. CASE early
    BY Zenon, <2>3, <2>1 DEF AddCertificate
  <2>4. CASE ~ early
    BY Zenon, <2>4, <2>2 DEF AddCertificate
  <2> QED
    BY Zenon, <2>3, <2>4
<1> DEFINE new == NewRow(response, updated)
<1>1. /\ now \in Nat /\ row \in [Serials -> Rows] /\ s \notin issued
      /\ row' = [row EXCEPT ![s] = new] /\ issued' = issued \cup {s}
      /\ UNCHANGED <<now, revocation, work>>
  BY Zenon, <1>0 DEF Inv, TypeOK, AddCertificate
<1>2. /\ new \in Rows /\ new.status = "good" /\ new.ocspResponse.status # "revoked"
      /\ new.ocspLastUpdated <= now + Skew /\ new.revokedDate = 0
  BY <1>0, <1>1 DEF NewRow, Rows
<1> HIDE DEF new
<1>3. /\ \A u \in Serials : u # s => row'[u] = row[u]
      /\ row'[s] = new /\ row' \in [Serials -> Rows]
  BY Zenon, <1>1, <1>2
<1>4. TypeOK'
  BY Zenon, <1>1, <1>3 DEF Inv, TypeOK
<1>5. RowInv' /\ UpdatedBefore' /\ RevokedResponseBacked'
  BY <1>1, <1>2, <1>3
  DEF Inv, RowInv, UpdatedBefore, NeedsRevokedResponse, RevokedResponseBacked
<1>6. ReadInv'
  BY <1>1, <1>3 DEF Inv, ReadInv
<1>7. JobInv'
  BY <1>1, <1>3 DEF Inv, TypeOK, Jobs, JobInv, JobOK, Signed
<1> QED
  BY Zenon, <1>4, <1>5, <1>6, <1>7 DEF Inv

\* Asking for a revocation only moves the request.
LEMMA AskInv ==
    ASSUME Inv, NEW q \in Revocations, WFERevoke(q) \/ AdminRevoke(q)
    PROVE  Inv'
<1>1. PICK step \in {"conflict", "asked"} :
           /\ revocation' = [revocation EXCEPT ![q].step = step]
           /\ revocation[q].serial \in issued
           /\ UNCHANGED <<now, issued, row, work>>
  BY Zenon DEF WFERevoke, AdminRevoke
<1>2. TypeOK'
  BY Zenon, <1>1 DEF Inv, TypeOK, RequestStates, Steps
<1>3. ReadInv'
  BY Zenon, <1>1 DEF Inv, TypeOK, ReadInv, RequestStates
<1>4. RowInv' /\ JobInv' /\ UpdatedBefore' /\ RevokedResponseBacked'
  BY Zenon, <1>1 DEF Inv, RowInv, JobInv, JobOK, Signed, UpdatedBefore,
              NeedsRevokedResponse, RevokedResponseBacked
<1> QED
  BY Zenon, <1>2, <1>3, <1>4 DEF Inv

\* What MarkCertificateRevoked reads is the row of the table at that moment.
LEMMA MarkReadInv ==
    ASSUME Inv, NEW q \in Revocations, MarkRead(q)
    PROVE  Inv'
<1>1. /\ revocation[q] \in RequestStates
      /\ revocation[q].serial \in Serials /\ revocation[q].serial \in issued
      /\ row[revocation[q].serial] \in Rows
  BY Zenon DEF Inv, TypeOK, ReadInv, MarkRead, RequestStates
<1>2. /\ revocation' = [revocation EXCEPT ![q] = [revocation[q] EXCEPT
               !.step = "read", !.row = row[revocation[q].serial], !.readAt = now]]
      /\ UNCHANGED <<now, issued, row, work>>
  BY Zenon, <1>1 DEF Inv, TypeOK, MarkRead, RequestStates
<1>3. TypeOK'
  BY Zenon, <1>1, <1>2 DEF Inv, TypeOK, RequestStates, Steps
<1>4. ReadInv'
  <2> SUFFICES ASSUME NEW p \in Revocations
               PROVE  LET r == revocation'[p]
                      IN  /\ r.step # "idle" => r.serial \in issued
                          /\ r.step = "read" =>
                              /\ r.readAt <= now
                              /\ r.row.lockCol <= row[r.serial].lockCol
                              /\ r.row.ocspLastUpdated <= r.readAt + Skew
                              /\ r.row.revokedDate <= r.readAt
                              /\ r.row.ocspResponse.status = "revoked"
                                    => r.row.ocspResponse.revokedAt <= r.row.revokedDate
                              /\ row[r.serial].lockCol = r.row.lockCol
                                    => row[r.serial].revokedDate = r.row.revokedDate
    BY Zenon, <1>2 DEF ReadInv
  <2>1. CASE p = q
    BY <2>1, <1>1, <1>2
    DEF Inv, TypeOK, RowInv, RevokedResponseBacked, RequestStates, Rows
  <2>2. CASE p # q
    BY Zenon, <2>2, <1>2 DEF Inv, TypeOK, ReadInv
  <2> QED
    BY Zenon, <2>1, <2>2
<1>5. RowInv' /\ JobInv' /\ UpdatedBefore' /\ RevokedResponseBacked'
  BY Zenon, <1>2 DEF Inv, RowInv, JobInv, JobOK, Signed, UpdatedBefore,
              NeedsRevokedResponse, RevokedResponseBacked
<1> QED
  BY Zenon, <1>3, <1>4, <1>5 DEF Inv

\* The whole-row write: the old response and its ocspLastUpdated come back
\* with a revokedDate that is not before them.
LEMMA MarkUpdateInv ==
    ASSUME Inv, NEW q \in Revocations, MarkUpdate(q)
    PROVE  Inv'
<1> DEFINE r == revocation[q]
<1> USE TimesAssumption
<1>1. /\ r \in RequestStates /\ r.serial \in Serials /\ r.serial \in issued
      /\ r.row \in Rows /\ r.readAt \in Nat /\ now \in Nat
      /\ row \in [Serials -> Rows] /\ row[r.serial] \in Rows
      /\ r.step = "read" /\ r.reason \in Reasons
      /\ UNCHANGED <<now, issued, work>>
  BY Zenon DEF Inv, TypeOK, ReadInv, MarkUpdate, RequestStates
<1>2. /\ r.readAt <= now
      /\ r.row.ocspLastUpdated <= r.readAt + Skew
      /\ r.row.revokedDate <= r.readAt
      /\ r.row.ocspResponse.status = "revoked"
            => r.row.ocspResponse.revokedAt <= r.row.revokedDate
      /\ row[r.serial].lockCol = r.row.lockCol
            => row[r.serial].revokedDate = r.row.revokedDate
  BY Zenon, <1>1 DEF Inv, ReadInv
<1>3. CASE row[r.serial].lockCol # r.row.lockCol
  <2>1. revocation' = [revocation EXCEPT ![q].step = "failed"] /\ UNCHANGED row
    BY Zenon, <1>3 DEF MarkUpdate
  <2>2. TypeOK'
    BY Zenon, <1>1, <2>1 DEF Inv, TypeOK, RequestStates, Steps
  <2>3. ReadInv'
    BY Zenon, <1>1, <2>1 DEF Inv, TypeOK, ReadInv, RequestStates
  <2>4. RowInv' /\ JobInv' /\ UpdatedBefore' /\ RevokedResponseBacked'
    BY Zenon, <1>1, <2>1 DEF Inv, RowInv, JobInv, JobOK, Signed, UpdatedBefore,
                      NeedsRevokedResponse, RevokedResponseBacked
  <2> QED
    BY Zenon, <2>2, <2>3, <2>4 DEF Inv
<1>4. CASE row[r.serial].lockCol = r.row.lockCol
  <2>1. PICK date \in r.readAt .. now :
             /\ row' = [row EXCEPT ![r.serial] = RevokedRow(r, date)]
             /\ revocation' = [revocation EXCEPT ![q].step = "revoked"]
    BY Zenon, <1>4 DEF MarkUpdate
  <2> DEFINE new == RevokedRow(r, date)
  <2>2. /\ date \in Nat /\ r.readAt <= date /\ date <= now
        /\ new \in Rows
        /\ new.status = "revoked" /\ new.revokedDate = date
        /\ new.ocspLastUpdated = r.row.ocspLastUpdated
        /\ new.ocspResponse = r.row.ocspResponse
        /\ new.lockCol = row[r.serial].lockCol + 1
        /\ row[r.serial].lockCol \in Nat
        /\ r.row.ocspLastUpdated \in Nat /\ r.row.revokedDate \in Nat
        /\ r.row.ocspResponse.revokedAt \in Nat
    <3>1. date \in Nat /\ r.readAt <= date /\ date <= now
      BY <1>1
    <3>2. /\ r.row.ocspResponse \in Responses /\ r.row.lockCol \in Nat
          /\ r.row.ocspLastUpdated \in Nat /\ r.row.revokedDate \in Nat
          /\ r.row.notAfter \in Nat /\ r.row.isExpired \in BOOLEAN
          /\ r.row.ocspResponse.revokedAt \in Nat
      BY Zenon, <1>1 DEF Rows, Responses
    <3>3. new.status = "revoked" /\ new.revokedDate = date
      BY Zenon, <1>1 DEF RevokedRow, Rows
    <3>4. /\ new.ocspLastUpdated = r.row.ocspLastUpdated
          /\ new.ocspResponse = r.row.ocspResponse
      BY Zenon, <1>1 DEF RevokedRow, Rows
    <3>5. new.lockCol = r.row.lockCol + 1
      BY Zenon, <1>1 DEF RevokedRow, Rows
    <3>6. new \in Rows
      <4> DEFINE n1 == [r.row EXCEPT !.status = "revoked"]
                 n2 == [n1 EXCEPT !.revokedDate = date]
                 n3 == [n2 EXCEPT !.revokedReason = r.reason]
                 n4 == [n3 EXCEPT !.lockCol = r.row.lockCol + 1]
      <4>1. n1 \in Rows
        BY Zenon, <1>1 DEF Rows
      <4> HIDE DEF n1
      <4>2. n2 \in Rows
        BY Zenon, <4>1, <3>1 DEF Rows
      <4> HIDE DEF n2
      <4>3. n3 \in Rows
        BY Zenon, <4>2, <1>1 DEF Rows
      <4> HIDE DEF n3
      <4>4. n4 \in Rows
        BY <4>3, <3>2 DEF Rows
      <4>5. new = n4
        BY Zenon DEF RevokedRow, n1, n2, n3
      <4> QED
        BY Zenon, <4>4, <4>5
    <3> QED
      BY Zenon, <3>1, <3>2, <3>3, <3>4, <3>5, <3>6, <1>4
  <2> HIDE DEF new
  <2>3. /\ \A u \in Serials : u # r.serial => row'[u] = row[u]
        /\ row'[r.serial] = new /\ row' \in [Serials -> Rows]
    BY Zenon, <1>1, <2>1, <2>2 DEF new
  <2>4. /\ revocation' \in [Revocations -> RequestStates]
        /\ \A p \in Revocations : p # q => revocation'[p] = revocation[p]
        /\ revocation'[q].step = "revoked" /\ revocation'[q].serial = r.serial
    BY Zenon, <1>1, <2>1 DEF Inv, TypeOK, RequestStates, Steps
  <2>5. TypeOK'
    BY Zenon, <1>1, <2>3, <2>4 DEF Inv, TypeOK
  <2>6. RowInv'
    BY <1>1, <1>2, <2>2, <2>3 DEF Inv, RowInv
  <2>7. ReadInv'
    <3> SUFFICES ASSUME NEW p \in Revocations
                 PROVE  LET x == revocation'[p]
                        IN  /\ x.step # "idle" => x.serial \in issued
                            /\ x.step = "read" =>
                                /\ x.readAt <= now
                                /\ x.row.lockCol <= row'[x.serial].lockCol
                                /\ x.row.ocspLastUpdated <= x.readAt + Skew
                                /\ x.row.revokedDate <= x.readAt
                                /\ x.row.ocspResponse.status = "revoked"
                                      => x.row.ocspResponse.revokedAt <= x.row.revokedDate
                                /\ row'[x.serial].lockCol = x.row.lockCol
                                      => row'[x.serial].revokedDate = x.row.revokedDate
      BY Zenon, <1>1 DEF ReadInv
    <3>1. CASE p = q
      BY Zenon, <3>1, <1>1, <2>4
    <3>2. CASE p # q /\ revocation[p].serial # r.serial
      BY <3>2, <2>3, <2>4 DEF Inv, TypeOK, ReadInv, RequestStates
    <3>3. CASE p # q /\ revocation[p].serial = r.serial
      BY <3>3, <2>2, <2>3, <2>4 DEF Inv, TypeOK, ReadInv, RequestStates, Rows
    <3> QED
      BY Zenon, <3>1, <3>2, <3>3
  <2>8. JobInv'
    <3> SUFFICES ASSUME NEW l \in Loops, NEW j \in work[l] PROVE JobOK(j)'
      BY Zenon, <1>1 DEF JobInv
    <3>1. j \in Jobs /\ JobOK(j)
      BY Zenon DEF Inv, TypeOK, JobInv
    <3>2. CASE j.serial # r.serial
      BY Zenon, <3>1, <3>2, <1>1, <2>3 DEF JobOK, Jobs, Signed
    <3>3. CASE j.serial = r.serial
      <4>1. j.revokedDate \in Nat
        BY Zenon, <3>1 DEF Jobs
      <4> QED
        BY <3>1, <3>3, <4>1, <1>1, <1>2, <1>4, <2>2, <2>3 DEF JobOK, Signed
    <3> QED
      BY Zenon, <3>2, <3>3
  <2>9. UpdatedBefore' /\ RevokedResponseBacked'
    BY <1>1, <1>2, <2>2, <2>3
    DEF Inv, UpdatedBefore, NeedsRevokedResponse, RevokedResponseBacked
  <2> QED
    BY Zenon, <2>5, <2>6, <2>7, <2>8, <2>9 DEF Inv
<1> QED
  BY Zenon, <1>3, <1>4

\* Selecting rows and starting jobs for them.
LEMMA TickInv ==
    ASSUME Inv, newCertificateTick \/ revokedCertificatesTick
    PROVE  Inv'
<1>1. PICK l \in Loops, b \in SUBSET issued :
           work' = [work EXCEPT ![l] = {Job(s, row[s].revokedReason) : s \in b}]
  BY Zenon DEF newCertificateTick, revokedCertificatesTick, Limited, MissingResponses,
         RevokedToUpdate, Loops
<1>2. /\ UNCHANGED <<now, issued, row, revocation>>
      /\ row \in [Serials -> Rows] /\ issued \subseteq Serials
      /\ work \in [Loops -> SUBSET Jobs]
  BY Zenon DEF newCertificateTick, revokedCertificatesTick, Inv, TypeOK
<1>3. \A s \in b : Job(s, row[s].revokedReason) \in Jobs /\ JobOK(Job(s, row[s].revokedReason))
  BY Zenon, <1>2, JobTyped DEF Rows
<1>4. work' \in [Loops -> SUBSET Jobs]
  BY Zenon, <1>1, <1>2, <1>3
<1>5. \A k \in Loops : \A j \in work'[k] : j \in work[k] \/ JobOK(j)
  BY Zenon, <1>1, <1>2, <1>3
<1>6. row' = [s \in Serials |-> row'[s]] /\ \A s \in Serials : SameButExpired(s)
  BY Zenon, <1>2 DEF SameButExpired
<1> QED
  BY Zenon, <1>2, <1>4, <1>5, <1>6, WorkStep

\* The refresh loop: rows past their notAfter are marked, jobs started.
LEMMA OldTickInv ==
    ASSUME Inv, oldOCSPResponsesTick
    PROVE  Inv'
<1>1. PICK b \in SUBSET issued, m \in SUBSET issued :
           /\ MarkExpired(m)
           /\ \/ work' = [work EXCEPT !["OldOCSPResponses"] = {Job(s, 0) : s \in b}]
              \/ work' = work
  BY Zenon DEF oldOCSPResponsesTick, LimitedOldest, Limited, StaleResponses
<1>2. /\ UNCHANGED <<now, issued, revocation>>
      /\ row \in [Serials -> Rows] /\ issued \subseteq Serials
      /\ work \in [Loops -> SUBSET Jobs]
  BY Zenon DEF oldOCSPResponsesTick, Inv, TypeOK
<1>3. \A s \in b : Job(s, 0) \in Jobs /\ JobOK(Job(s, 0))
  BY Zenon, JobTyped, ReasonsAssumption
<1>4. work' \in [Loops -> SUBSET Jobs]
  BY <1>1, <1>2, <1>3 DEF Loops
<1>5. \A k \in Loops : \A j \in work'[k] : j \in work[k] \/ JobOK(j)
  BY <1>1, <1>2, <1>3 DEF Loops
<1>6. row' = [s \in Serials |-> row'[s]] /\ \A s \in Serials : SameButExpired(s)
  BY Zenon, <1>1, <1>2 DEF SameButExpired, MarkExpired
<1> QED
  BY Zenon, <1>2, <1>4, <1>5, <1>6, WorkStep

\* Signing what was selected.
LEMMA GenerateInv ==
    ASSUME Inv, NEW l \in Loops, NEW j \in work[l], Generate(l, j)
    PROVE  Inv'
<1> DEFINE response == GenerateOCSP(j.status, j.reason, j.revokedDate)
           signed == [j EXCEPT !.response = response, !.at = UpdaterNow]
<1>1. /\ UNCHANGED <<now, issued, row, revocation>>
      /\ work' = [work EXCEPT ![l] = (@ \ {j}) \cup {signed}]
      /\ row \in [Serials -> Rows] /\ work \in [Loops -> SUBSET Jobs]
      /\ now \in Nat /\ j \in Jobs /\ JobOK(j)
  BY Zenon DEF Generate, Inv, TypeOK, JobInv
<1>2. response \in Responses /\ UpdaterNow \in Nat
  BY <1>1, Values, TimesAssumption DEF Jobs, UpdaterNow
<1> HIDE DEF response
<1>3. /\ signed \in Jobs /\ signed.serial = j.serial /\ signed.status = j.status
      /\ signed.reason = j.reason /\ signed.revokedDate = j.revokedDate
      /\ signed.response = response /\ signed.at = UpdaterNow
  BY Zenon, <1>1, <1>2 DEF Jobs
<1> HIDE DEF signed
<1>4. JobOK(signed)
  BY <1>1, <1>2, <1>3, TimesAssumption DEF JobOK, response, UpdaterNow
<1>5. work' \in [Loops -> SUBSET Jobs]
  BY Zenon, <1>1, <1>3
<1>6. \A k \in Loops : \A i \in work'[k] : i \in work[k] \/ JobOK(i)
  BY Zenon, <1>1, <1>4
<1>7. row' = [s \in Serials |-> row'[s]] /\ \A s \in Serials : SameButExpired(s)
  BY Zenon, <1>1 DEF SameButExpired
<1> QED
  BY Zenon, <1>1, <1>5, <1>6, <1>7, WorkStep

\* Failures and a restart only take jobs away.
LEMMA DropInv ==
    ASSUME Inv, UNCHANGED <<now, issued, row, revocation>>,
           work' \in [Loops -> SUBSET Jobs], \A l \in Loops : work'[l] \subseteq work[l]
    PROVE  Inv'
<1>1. row' = [s \in Serials |-> row'[s]] /\ \A s \in Serials : SameButExpired(s)
  BY Zenon DEF SameButExpired, Inv, TypeOK
<1> QED
  BY Zenon, <1>1, WorkStep

\* The conditional UPDATE: a 'revoked' response goes to a row that is still
\* revoked, any other one to a row that is not.
LEMMA StoreInv ==
    ASSUME Inv, NEW l \in Loops, NEW j \in work[l], storeResponse(l, j)
    PROVE  Inv'
<1>1. /\ UNCHANGED <<now, issued, revocation>>
      /\ work' = [work EXCEPT ![l] = @ \ {j}] /\ Signed(j)
      /\ row \in [Serials -> Rows] /\ work \in [Loops -> SUBSET Jobs]
      /\ now \in Nat /\ j \in Jobs /\ JobOK(j) /\ j.serial \in Serials
      /\ j.serial \in issued
  BY Zenon DEF storeResponse, Inv, TypeOK, JobInv, JobOK, Jobs
<1>2. work' \in [Loops -> SUBSET Jobs] /\ \A k \in Loops : work'[k] \subseteq work[k]
  BY Zenon, <1>1
<1>3. CASE row[j.serial].status # j.status
  BY Zenon, <1>1, <1>2, <1>3, DropInv DEF storeResponse
<1>4. CASE row[j.serial].status = j.status
  <2> DEFINE u == j.serial
             new == [row[u] EXCEPT !.ocspResponse = j.response, !.ocspLastUpdated = j.at]
  <2>1. row' = [row EXCEPT ![u] = new]
    BY Zenon, <1>1, <1>4 DEF storeResponse, Rows
  <2>2. /\ new \in Rows /\ new.status = j.status
        /\ new.ocspResponse = j.response /\ new.ocspLastUpdated = j.at
        /\ new.revokedDate = row[u].revokedDate /\ new.lockCol = row[u].lockCol
    BY Zenon, <1>1, <1>4 DEF Jobs, Rows
  <2> HIDE DEF new
  <2>3. /\ \A v \in Serials : v # u => row'[v] = row[v]
        /\ row'[u] = new /\ row' \in [Serials -> Rows]
    BY Zenon, <1>1, <2>1, <2>2
  <2>4. /\ j.response.status = j.status
        /\ j.status = "revoked" => j.response.revokedAt = j.revokedDate
        /\ j.status = "revoked" => j.revokedDate <= row[u].revokedDate
        /\ j.at <= now + Skew
    BY <1>1, Values DEF JobOK, Jobs
  <2>5. TypeOK'
    BY Zenon, <1>1, <1>2, <2>3 DEF Inv, TypeOK
  <2>6. RowInv'
    BY Zenon, <1>1, <2>2, <2>3, <2>4 DEF Inv, RowInv
  <2>7. UpdatedBefore' /\ RevokedResponseBacked'
    BY <1>1, <2>2, <2>3, <2>4
    DEF Inv, UpdatedBefore, NeedsRevokedResponse, RevokedResponseBacked, Jobs
  <2>8. ReadInv'
    BY <1>1, <2>2, <2>3 DEF Inv, TypeOK, ReadInv, RequestStates
  <2>9. JobInv'
    <3> SUFFICES ASSUME NEW k \in Loops, NEW i \in work'[k] PROVE JobOK(i)'
      BY Zenon DEF JobInv
    <3>1. i \in Jobs /\ JobOK(i)
      BY Zenon, <1>1, <1>2 DEF Inv, JobInv
    <3> QED
      BY Zenon, <3>1, <1>1, <1>4, <2>2, <2>3 DEF JobOK, Jobs, Signed
  <2> QED
    BY Zenon, <2>5, <2>6, <2>7, <2>8, <2>9 DEF Inv
<1> QED
  BY Zenon, <1>3, <1>4

\* Time passes: what was not in the future is not in the future.
LEMMA ClockInv ==
    ASSUME Inv, ClockTick
    PROVE  Inv'
<1> USE TimesAssumption
<1>1. now \in Nat /\ now' = now + 1 /\ UNCHANGED <<issued, row, revocation, work>>
  BY Zenon DEF ClockTick, Inv, TypeOK
<1>2. TypeOK'
  BY <1>1 DEF Inv, TypeOK
<1>3. RowInv' /\ UpdatedBefore' /\ RevokedResponseBacked'
  BY <1>1 DEF Inv, TypeOK, Rows, RowInv, UpdatedBefore, NeedsRevokedResponse,
              RevokedResponseBacked
<1>4. ReadInv'
  BY <1>1 DEF Inv, TypeOK, ReadInv, RequestStates
<1>5. JobInv'
  BY <1>1 DEF Inv, TypeOK, JobInv, JobOK, Signed, Jobs
<1> QED
  BY Zenon, <1>2, <1>3, <1>4, <1>5 DEF Inv

\* Every step keeps the invariant.
LEMMA NextInv == Inv /\ [Next]_vars => Inv'
<1> SUFFICES ASSUME Inv, [Next]_vars PROVE Inv'
  BY Zenon
<1>1. CASE \E s \in Serials, early \in BOOLEAN : AddCertificate(s, early)
  BY Zenon, <1>1, AddCertificateInv
<1>2. CASE \E q \in Revocations : WFERevoke(q) \/ AdminRevoke(q) \/ MarkRead(q) \/ MarkUpdate(q)
  BY Zenon, <1>2, AskInv, MarkReadInv, MarkUpdateInv
<1>3. CASE newCertificateTick \/ revokedCertificatesTick
  BY Zenon, <1>3, TickInv
<1>4. CASE oldOCSPResponsesTick
  BY Zenon, <1>4, OldTickInv
<1>5. CASE \E l \in Loops : \E j \in work[l] :
               \/ Generate(l, j) \/ GenerateFails(l, j)
               \/ storeResponse(l, j) \/ storeResponseFails(l, j)
  <2>0. PICK l \in Loops : \E j \in work[l] :
               \/ Generate(l, j) \/ GenerateFails(l, j)
               \/ storeResponse(l, j) \/ storeResponseFails(l, j)
    BY Zenon, <1>5
  <2>1. PICK j \in work[l] :
               \/ Generate(l, j) \/ GenerateFails(l, j)
               \/ storeResponse(l, j) \/ storeResponseFails(l, j)
    BY Zenon, <2>0
  <2>2. CASE Generate(l, j)
    BY Zenon, <2>2, GenerateInv
  <2>3. CASE storeResponse(l, j)
    BY Zenon, <2>3, StoreInv
  <2>4. CASE GenerateFails(l, j) \/ storeResponseFails(l, j)
    <3>1. /\ UNCHANGED <<now, issued, row, revocation>>
          /\ work' \in [Loops -> SUBSET Jobs]
          /\ \A k \in Loops : work'[k] \subseteq work[k]
      BY Zenon, <2>4 DEF GenerateFails, storeResponseFails, Inv, TypeOK
    <3> QED
      BY Zenon, <3>1, DropInv
  <2> QED
    BY Zenon, <2>1, <2>2, <2>3, <2>4
<1>6. CASE UpdaterRestart
  <2>1. /\ UNCHANGED <<now, issued, row, revocation>>
        /\ work' \in [Loops -> SUBSET Jobs]
        /\ \A k \in Loops : work'[k] \subseteq work[k]
    BY Zenon, <1>6 DEF UpdaterRestart
  <2> QED
    BY Zenon, <2>1, DropInv
<1>7. CASE ClockTick
  BY Zenon, <1>7, ClockInv
<1>8. CASE UNCHANGED vars
  <2>1. UNCHANGED <<now, issued, row, revocation>> /\ work' = work
    BY Zenon, <1>8 DEF vars
  <2> QED
    BY Zenon, <2>1, DropInv DEF Inv, TypeOK
<1> QED
  BY Zenon, <1>1, <1>2, <1>3, <1>4, <1>5, <1>6, <1>7, <1>8 DEF Next

-----------------------------------------------------------------------------

\* The invariant holds in every reachable state.
THEOREM Invariance == Spec => []Inv
<1>1. Init => Inv
  BY Zenon, InitInv
<1>2. Inv /\ [Next]_vars => Inv'
  BY Zenon, NextInv
<1> QED
  BY <1>1, <1>2, PTL DEF Spec

\* The table, the requests and the jobs keep their types.
THEOREM TypeCorrectness == Spec => []TypeOK
<1>1. Inv => TypeOK
  BY Zenon DEF Inv
<1> QED
  BY <1>1, Invariance, PTL

\* Whatever the interleaving of revocations and updater loops, a revoked
\* certificate without a 'revoked' response is one the revoked loop's query
\* finds, up to the clock skew.
THEOREM RevocationsDoNotEscape == Spec => []NoRevocationEscapes
<1>1. ASSUME Inv PROVE NoRevocationEscapes
  <2> SUFFICES ASSUME NEW s \in Serials, NeedsRevokedResponse(s), s \notin RevokedToUpdate
               PROVE  row[s].ocspLastUpdated \in row[s].revokedDate + 1 .. row[s].revokedDate + Skew
    BY Zenon DEF NoRevocationEscapes
  <2>1. row[s].ocspLastUpdated \in Nat /\ row[s].revokedDate \in Nat /\ Skew \in Nat
    BY Zenon, <1>1, TimesAssumption DEF Inv, TypeOK, Rows
  <2>2. ~ row[s].ocspLastUpdated <= row[s].revokedDate
    BY Zenon DEF NeedsRevokedResponse, RevokedToUpdate
  <2>3. row[s].ocspLastUpdated <= row[s].revokedDate + Skew
    BY Zenon, <1>1 DEF Inv, UpdatedBefore
  <2> QED
    BY <2>1, <2>2, <2>3
<1> QED
  BY <1>1, Invariance, PTL

\* A stored 'revoked' response always belongs to a revoked row and reports a
\* date no later than the row's.
THEOREM RevokedResponsesAreBacked == Spec => []RevokedResponseBacked
<1>1. Inv => RevokedResponseBacked
  BY Zenon DEF Inv
<1> QED
  BY <1>1, Invariance, PTL

\* A step that takes a 'revoked' response away is a revocation.
LEMMA StepKeepsRevoked ==
    ASSUME Inv, [Next]_vars, NEW s \in Serials,
           row[s].ocspResponse.status = "revoked",
           row'[s].ocspResponse.status # "revoked"
    PROVE  row'[s].lockCol > row[s].lockCol
<1>0. row \in [Serials -> Rows] /\ row[s].status = "revoked" /\ row' # row
  BY Zenon DEF Inv, TypeOK, RevokedResponseBacked
<1>1. CASE \E u \in Serials, early \in BOOLEAN : AddCertificate(u, early)
  <2>1. PICK u \in Serials, early \in BOOLEAN : AddCertificate(u, early)
    BY Zenon, <1>1
  <2>2. u # s
    BY <2>1 DEF AddCertificate, Inv, RowInv, NoRow, NoResponse
  <2> QED
    BY Zenon, <1>0, <2>1, <2>2 DEF AddCertificate
<1>2. CASE \E q \in Revocations : WFERevoke(q) \/ AdminRevoke(q) \/ MarkRead(q) \/ MarkUpdate(q)
  <2>1. PICK q \in Revocations : MarkUpdate(q)
    BY Zenon, <1>0, <1>2 DEF WFERevoke, AdminRevoke, MarkRead
  <2> DEFINE r == revocation[q]
  <2>2. PICK date \in r.readAt .. now :
             /\ row[r.serial].lockCol = r.row.lockCol
             /\ row' = [row EXCEPT ![r.serial] = RevokedRow(r, date)]
    BY Zenon, <1>0, <2>1 DEF MarkUpdate
  <2>3. r.serial = s
    BY Zenon, <1>0, <2>2
  <2>4. r.row \in Rows /\ row[s] \in Rows
    BY Zenon DEF Inv, TypeOK, RequestStates
  <2>5. row'[s].lockCol = row[s].lockCol + 1
    <3>1. row'[s] = RevokedRow(r, date)
      BY Zenon, <1>0, <2>2, <2>3
    <3>2. RevokedRow(r, date).lockCol = r.row.lockCol + 1
      BY Zenon, <2>4 DEF RevokedRow, Rows
    <3> QED
      BY Zenon, <3>1, <3>2, <2>2, <2>3
  <2> QED
    BY <2>4, <2>5 DEF Rows
<1>3. CASE newCertificateTick \/ revokedCertificatesTick \/ UpdaterRestart \/ ClockTick
  BY Zenon, <1>0, <1>3 DEF newCertificateTick, revokedCertificatesTick, UpdaterRestart, ClockTick
<1>4. CASE oldOCSPResponsesTick
  <2>1. PICK m \in SUBSET issued : MarkExpired(m)
    BY Zenon, <1>4 DEF oldOCSPResponsesTick, LimitedOldest, Limited, StaleResponses
  <2>2. SameButExpired(s)
    BY Zenon, <1>0, <2>1 DEF SameButExpired, MarkExpired
  <2> QED
    BY Zenon, <2>2, SameColumns DEF Inv
<1>5. CASE \E l \in Loops : \E j \in work[l] :
               \/ Generate(l, j) \/ GenerateFails(l, j)
               \/ storeResponse(l, j) \/ storeResponseFails(l, j)
  <2>0. PICK l \in Loops : \E j \in work[l] : storeResponse(l, j)
    BY Zenon, <1>0, <1>5 DEF Generate, GenerateFails, storeResponseFails
  <2>1. PICK j \in work[l] : storeResponse(l, j)
    BY Zenon, <2>0
  <2>2. /\ row' = [row EXCEPT ![j.serial].ocspResponse = j.response,
                              ![j.serial].ocspLastUpdated = j.at]
        /\ row[j.serial].status = j.status
    BY Zenon, <1>0, <2>1 DEF storeResponse
  <2>3. j \in Jobs /\ JobOK(j) /\ Signed(j)
    BY Zenon, <2>1 DEF storeResponse, Inv, TypeOK, JobInv
  <2>4. j.serial = s
    BY Zenon, <1>0, <2>2
  <2>5. j.response.status = "revoked"
    BY <1>0, <2>2, <2>3, <2>4, Values DEF JobOK, Jobs
  <2>6. row'[s].ocspResponse = j.response
    BY Zenon, <1>0, <2>2, <2>4 DEF Rows
  <2> QED
    BY Zenon, <2>5, <2>6
<1>6. CASE UNCHANGED vars
  BY Zenon, <1>0, <1>6 DEF vars
<1> QED
  BY Zenon, <1>1, <1>2, <1>3, <1>4, <1>5, <1>6 DEF Next

\* The updater's loops never take a 'revoked' response away.
THEOREM UpdaterNeverUnrevokes == Spec => UpdaterKeepsRevoked
<1>1. Inv /\ [Next]_vars =>
        [\A s \in Serials :
          (row[s].ocspResponse.status = "revoked" /\ row'[s].ocspResponse.status # "revoked")
              => row'[s].lockCol > row[s].lockCol]_vars
  BY Zenon, StepKeepsRevoked
<1> QED
  BY <1>1, Invariance, PTL DEF Spec, UpdaterKeepsRevoked

-----------------------------------------------------------------------------
(***************************************************************************)
(* The delivery of the responses.                                          *)
(***************************************************************************)
\* If r is a row that is revoked and answers good, it was answered by time t.
GoodBefore(r, t) ==
    (r.status = "revoked" /\ r.ocspResponse.status = "good") => r.ocspLastUpdated <= t + Skew

\* So it is with the rows of the table, and with the row that a revocation has
\* read and may still write back.
AgeInv ==
    /\ since \in [Serials -> Nat]
    /\ \A s \in Serials : GoodBefore(row[s], since[s])
    /\ \A q \in Revocations :
          LET r == revocation[q]
          IN  (r.step = "read" /\ row[r.serial].lockCol = r.row.lockCol)
                  => r.row.status = row[r.serial].status /\ GoodBefore(r.row, since[r.serial])

\* What is cached.
CacheInv ==
    /\ cache \in [Servers -> [Serials -> [status : {"none", "good", "revoked"}, until : Nat]]]
    /\ \A e \in Servers, s \in Serials : cache[e][s].status = "good" =>
          /\ cache[e][s].until <= now + Validity + Skew
          /\ row[s].status = "revoked" => cache[e][s].until <= since[s] + Validity + Skew

Last == OCSPServers[Len(OCSPServers)]

\* What a purge has achieved.
PurgedInv ==
    /\ purged \subseteq Serials /\ \A p \in purges : p.serial \in Serials
    /\ \A s \in purged : /\ row[s].ocspResponse.status = "revoked"
                         /\ cache[Last][s] = NotCached \/ cache[Last][s].status = "revoked"

\* The table has a response only with the time of one.
AnsweredInv ==
    /\ now > 0
    /\ \A s \in Serials : row[s].ocspResponse.status # "none" => row[s].ocspLastUpdated # 0
    /\ \A q \in Revocations :
          revocation[q].row.ocspResponse.status # "none" => revocation[q].row.ocspLastUpdated # 0
    /\ \A l \in Loops : \A j \in work[l] : Signed(j) => j.at # 0

DeliveryInv == Inv /\ AgeInv /\ CacheInv /\ AnsweredInv /\ PurgedInv

-----------------------------------------------------------------------------
\* A step that leaves status and version of the rows alone, and in which a
\* revocation at most reads a row.
LEMMA SameAge ==
    ASSUME Inv, AgeInv, since' = since,
           \A s \in Serials : /\ row'[s].status = row[s].status
                              /\ row'[s].lockCol = row[s].lockCol
                              /\ GoodBefore(row'[s], since[s]),
           \A q \in Revocations :
              revocation'[q].step = "read" =>
                 \/ revocation'[q] = revocation[q]
                 \/ revocation'[q].row = row[revocation'[q].serial],
           \A q \in Revocations : revocation'[q].serial \in Serials
    PROVE  AgeInv'
  <1>1. ASSUME NEW q \in Revocations,
               revocation'[q].step = "read",
               row'[revocation'[q].serial].lockCol = revocation'[q].row.lockCol
        PROVE  /\ revocation'[q].row.status = row'[revocation'[q].serial].status
               /\ GoodBefore(revocation'[q].row, since'[revocation'[q].serial])
    <2>1. CASE revocation'[q] = revocation[q]
      BY <1>1, <2>1 DEF AgeInv
    <2>2. CASE revocation'[q].row = row[revocation'[q].serial]
      BY Zenon, <1>1, <2>2 DEF AgeInv
    <2> QED
      BY Zenon, <1>1, <2>1, <2>2
  <1> QED
    BY Zenon, <1>1 DEF AgeInv

\* The history variable: when a row became revoked.
SinceStep ==
    since' = [s \in Serials |-> IF row[s].status # "revoked" /\ row'[s].status = "revoked"
                                THEN now ELSE since[s]]

\* As long as no row becomes revoked the history stays as it is.
LEMMA SinceSame ==
    ASSUME AgeInv, SinceStep, \A s \in Serials : row'[s].status = row[s].status
    PROVE  since' = since
  BY Zenon DEF AgeInv, SinceStep

\* Requests keep their certificate.
LEMMA SerialsStay ==
    ASSUME Inv, [Next]_vars
    PROVE  \A q \in Revocations : revocation'[q].serial \in Serials
  <1>1. Inv'
    BY Zenon, NextInv
  <1> QED
    BY Zenon, <1>1 DEF Inv, TypeOK, RequestStates

\* A new row is not revoked, and nobody has read it.
LEMMA AddAge ==
    ASSUME Inv, AgeInv, SinceStep, NEW u \in Serials, NEW early \in BOOLEAN, AddCertificate(u, early)
    PROVE  AgeInv'
  <1>1. u \notin issued /\ UNCHANGED revocation /\ row \in [Serials -> Rows]
    BY Zenon DEF AddCertificate, Inv, TypeOK
  <1>2. row[u].status = "good" /\ row'[u].status = "good"
        /\ \A s \in Serials : s # u => row'[s] = row[s]
    BY <1>1 DEF AddCertificate, NewRow, Inv, RowInv, NoRow
  <1>3. since' = since
    BY Zenon, <1>2, SinceSame
  <1>4. \A q \in Revocations : revocation[q].step = "read" => revocation[q].serial # u
                                                           /\ revocation[q].serial \in Serials
    BY Zenon, <1>1 DEF Inv, TypeOK, ReadInv, RequestStates
  <1>5. \A s \in Serials : GoodBefore(row'[s], since[s])
    BY Zenon, <1>2 DEF AgeInv, GoodBefore
  <1> QED
    BY Zenon, <1>1, <1>2, <1>3, <1>4, <1>5 DEF AgeInv

\* MarkCertificateRevoked writes a row back that, if it was revoked already, is
\* as old as the one in the table, and otherwise was answered by now.
LEMMA MarkAge ==
    ASSUME Inv, AgeInv, SinceStep, NEW q \in Revocations, MarkUpdate(q),
           row[revocation[q].serial].lockCol = revocation[q].row.lockCol
    PROVE  AgeInv'
  <1> DEFINE r == revocation[q]
             u == r.serial
  <1>1. /\ r \in RequestStates /\ u \in Serials /\ r.row \in Rows /\ r.step = "read"
        /\ row \in [Serials -> Rows] /\ revocation \in [Revocations -> RequestStates]
        /\ now \in Nat /\ r.readAt \in Nat /\ Skew \in Nat
        /\ r.readAt <= now /\ r.row.ocspLastUpdated <= r.readAt + Skew
    BY Zenon, TimesAssumption DEF Inv, TypeOK, ReadInv, RequestStates, MarkUpdate
  <1>2. PICK date \in r.readAt .. now :
             /\ row' = [row EXCEPT ![u] = RevokedRow(r, date)]
             /\ revocation' = [revocation EXCEPT ![q].step = "revoked"]
    BY Zenon DEF MarkUpdate
  <1> DEFINE new == RevokedRow(r, date)
  <1>3. /\ new.status = "revoked" /\ new.ocspLastUpdated = r.row.ocspLastUpdated
        /\ new.ocspResponse = r.row.ocspResponse /\ new.lockCol = row[u].lockCol + 1
    BY Zenon, <1>1 DEF RevokedRow, Rows
  <1> HIDE DEF new
  <1>4. row'[u] = new /\ \A s \in Serials : s # u => row'[s] = row[s]
    BY Zenon, <1>1, <1>2 DEF new
  <1>5. \A s \in Serials : s # u => since'[s] = since[s]
    BY Zenon, <1>4 DEF SinceStep
  <1>6. GoodBefore(row'[u], since'[u])
    <2>1. CASE row[u].status = "revoked"
      <3>1. r.row.status = "revoked" /\ GoodBefore(r.row, since[u])
        BY Zenon, <1>1, <2>1 DEF AgeInv
      <3>2. since'[u] = since[u]
        BY Zenon, <1>1, <2>1 DEF SinceStep
      <3> QED
        BY Zenon, <1>3, <1>4, <3>1, <3>2 DEF GoodBefore
    <2>2. CASE row[u].status # "revoked"
      <3>1. since'[u] = now
        BY Zenon, <1>1, <1>3, <1>4, <2>2 DEF SinceStep
      <3>2. r.row.ocspLastUpdated \in Nat
        BY Zenon, <1>1 DEF Rows
      <3>3. r.row.ocspLastUpdated <= now + Skew
        BY <1>1, <3>2
      <3> QED
        BY Zenon, <1>3, <1>4, <3>1, <3>3 DEF GoodBefore
    <2> QED
      BY Zenon, <2>1, <2>2
  <1>7. since' \in [Serials -> Nat]
    BY Zenon, <1>1 DEF AgeInv, SinceStep
  <1>8. ASSUME NEW p \in Revocations, revocation'[p].step = "read"
        PROVE  revocation'[p] = revocation[p] /\ p # q
    BY Zenon, <1>1, <1>2, <1>8 DEF RequestStates
  <1>9. ASSUME NEW p \in Revocations, revocation[p].step = "read", revocation[p].serial = u
        PROVE  row'[u].lockCol # revocation[p].row.lockCol
    <2>1. revocation[p].row.lockCol <= row[u].lockCol /\ revocation[p].row.lockCol \in Nat
          /\ row[u].lockCol \in Nat
      BY Zenon, <1>1, <1>9 DEF Inv, TypeOK, ReadInv, RequestStates, Rows
    <2> QED
      BY <1>3, <1>4, <2>1
  <1>10. \A p \in Revocations : revocation[p].serial \in Serials
    BY Zenon, <1>1 DEF RequestStates
  <1>11. \A s \in Serials : GoodBefore(row'[s], since'[s])
    BY Zenon, <1>4, <1>5, <1>6 DEF AgeInv
  <1>12. ASSUME NEW p \in Revocations, revocation'[p].step = "read",
               row'[revocation'[p].serial].lockCol = revocation'[p].row.lockCol
        PROVE  /\ revocation'[p].row.status = row'[revocation'[p].serial].status
               /\ GoodBefore(revocation'[p].row, since'[revocation'[p].serial])
    <2>1. revocation'[p] = revocation[p] /\ revocation[p].serial # u
      BY Zenon, <1>8, <1>9, <1>12
    <2> QED
      BY <1>4, <1>5, <1>10, <1>12, <2>1 DEF AgeInv
  <1> QED
    BY Zenon, <1>7, <1>11, <1>12 DEF AgeInv

\* What the updater stores in a revoked row is not good.
LEMMA StoreAge ==
    ASSUME Inv, AgeInv, SinceStep, NEW l \in Loops, NEW j \in work[l], storeResponse(l, j)
    PROVE  AgeInv'
  <1> DEFINE u == j.serial
  <1>1. /\ UNCHANGED revocation /\ row \in [Serials -> Rows] /\ j \in Jobs /\ JobOK(j)
        /\ u \in Serials /\ Signed(j)
    BY DEF storeResponse, Inv, TypeOK, JobInv, Jobs
  <1>2. j.response.status = j.status
    BY <1>1, Values DEF JobOK, Jobs
  <1>3. ASSUME NEW s \in Serials
        PROVE  /\ row'[s].status = row[s].status /\ row'[s].lockCol = row[s].lockCol
               /\ GoodBefore(row'[s], since[s])
    <2>1. CASE row'[s] = row[s]
      BY Zenon, <2>1 DEF AgeInv
    <2>2. CASE row'[s] # row[s]
      <3>1. s = u /\ row[u].status = j.status
        BY Zenon, <1>1, <2>2 DEF storeResponse
      <3>2. /\ row'[s].status = row[s].status /\ row'[s].lockCol = row[s].lockCol
            /\ row'[s].ocspResponse = j.response
        BY Zenon, <1>1, <3>1 DEF storeResponse, Rows
      <3> QED
        BY Zenon, <1>2, <3>1, <3>2 DEF GoodBefore
    <2> QED
      BY Zenon, <2>1, <2>2
  <1>4. since' = since
    BY Zenon, <1>3, SinceSame
  <1>5. \A q \in Revocations : revocation[q].serial \in Serials
    BY Zenon DEF Inv, TypeOK, RequestStates
  <1> QED
    BY Zenon, <1>1, <1>3, <1>4, <1>5, SameAge

\* Steps that leave the table alone.
LEMMA TableAloneAge ==
    ASSUME Inv, AgeInv, SinceStep, row' = row, [Next]_vars,
           \A q \in Revocations :
              revocation'[q].step = "read" =>
                 \/ revocation'[q] = revocation[q]
                 \/ revocation'[q].row = row[revocation'[q].serial]
    PROVE  AgeInv'
  <1>1. since' = since
    BY Zenon, SinceSame
  <1>2. \A s \in Serials : /\ row'[s].status = row[s].status
                           /\ row'[s].lockCol = row[s].lockCol
                           /\ GoodBefore(row'[s], since[s])
    BY Zenon DEF AgeInv
  <1> QED
    BY Zenon, <1>1, <1>2, SerialsStay, SameAge

\* A request moves, or reads its row.
LEMMA RequestReads ==
    ASSUME Inv, NEW p \in Revocations,
           \/ WFERevoke(p) \/ AdminRevoke(p) \/ MarkRead(p)
           \/ MarkUpdate(p) /\ row[revocation[p].serial].lockCol # revocation[p].row.lockCol
    PROVE  /\ row' = row
           /\ \A q \in Revocations :
                 revocation'[q].step = "read" =>
                    \/ revocation'[q] = revocation[q]
                    \/ revocation'[q].row = row[revocation'[q].serial]
  <1>1. revocation \in [Revocations -> RequestStates]
    BY Zenon DEF Inv, TypeOK
  <1>2. CASE MarkRead(p)
    BY Zenon, <1>1, <1>2 DEF MarkRead, RequestStates
  <1>3. CASE WFERevoke(p) \/ AdminRevoke(p)
    <2>1. PICK step \in {"conflict", "asked"} :
             revocation' = [revocation EXCEPT ![p].step = step] /\ row' = row
      BY Zenon, <1>3 DEF WFERevoke, AdminRevoke
    <2> QED
      BY Zenon, <1>1, <2>1 DEF RequestStates
  <1>4. CASE MarkUpdate(p) /\ row[revocation[p].serial].lockCol # revocation[p].row.lockCol
    <2>1. revocation' = [revocation EXCEPT ![p].step = "failed"] /\ row' = row
      BY Zenon, <1>4 DEF MarkUpdate
    <2> QED
      BY Zenon, <1>1, <2>1 DEF RequestStates
  <1> QED
    BY Zenon, <1>2, <1>3, <1>4

\* AgeInv through every step of the table and its writers.
LEMMA AgeStep == ASSUME Inv, AgeInv, [Next]_vars, SinceStep PROVE AgeInv'
  <1>1. CASE \E s \in Serials, early \in BOOLEAN : AddCertificate(s, early)
    BY Zenon, <1>1, AddAge
  <1>2. CASE \E q \in Revocations : WFERevoke(q) \/ AdminRevoke(q) \/ MarkRead(q) \/ MarkUpdate(q)
    <2> PICK q \in Revocations : WFERevoke(q) \/ AdminRevoke(q) \/ MarkRead(q) \/ MarkUpdate(q)
      BY Zenon, <1>2
    <2>1. CASE MarkUpdate(q) /\ row[revocation[q].serial].lockCol = revocation[q].row.lockCol
      BY Zenon, <2>1, MarkAge
    <2>2. CASE \/ WFERevoke(q) \/ AdminRevoke(q) \/ MarkRead(q)
               \/ MarkUpdate(q) /\ row[revocation[q].serial].lockCol # revocation[q].row.lockCol
      BY Zenon, <2>2, RequestReads, TableAloneAge
    <2> QED
      BY Zenon, <2>1, <2>2
  <1>3. CASE oldOCSPResponsesTick
    <2>1. PICK m \in SUBSET issued : MarkExpired(m)
      BY Zenon, <1>3 DEF oldOCSPResponsesTick, LimitedOldest, Limited, StaleResponses
    <2>2. UNCHANGED revocation /\ issued \subseteq Serials /\ row \in [Serials -> Rows]
      BY Zenon, <1>3 DEF oldOCSPResponsesTick, Inv, TypeOK
    <2>3. \A s \in Serials : SameButExpired(s)
      BY Zenon, <2>1, <2>2 DEF SameButExpired, MarkExpired
    <2>4. \A s \in Serials :
              /\ row'[s].status = row[s].status /\ row'[s].lockCol = row[s].lockCol
              /\ row'[s].ocspResponse = row[s].ocspResponse
              /\ row'[s].ocspLastUpdated = row[s].ocspLastUpdated
      BY Zenon, <2>3, SameColumns DEF Inv
    <2>5. \A s \in Serials : GoodBefore(row'[s], since[s])
      BY Zenon, <2>4 DEF AgeInv, GoodBefore
    <2>6. since' = since
      BY Zenon, <2>4, SinceSame
    <2> QED
      BY Zenon, <2>2, <2>4, <2>5, <2>6, SerialsStay, SameAge
  <1>4. CASE \E l \in Loops : \E j \in work[l] : storeResponse(l, j)
    BY Zenon, <1>4, StoreAge
  <1>5. CASE UNCHANGED <<row, revocation>>
    BY Zenon, <1>5, TableAloneAge
  <1> QED
    BY Zenon, <1>1, <1>2, <1>3, <1>4, <1>5
    DEF Next, vars, newCertificateTick, revokedCertificatesTick, Generate, GenerateFails,
        storeResponseFails, UpdaterRestart, ClockTick

-----------------------------------------------------------------------------
\* Responses come with the time at which they were signed.
LEMMA AnsweredStep == ASSUME Inv, AnsweredInv, [Next]_vars PROVE AnsweredInv'
  <1> USE TimesAssumption
  <1>0. /\ now \in Nat /\ row \in [Serials -> Rows] /\ work \in [Loops -> SUBSET Jobs]
        /\ revocation \in [Revocations -> RequestStates] /\ issued \subseteq Serials
    BY Zenon DEF Inv, TypeOK
  <1>1. CASE \E s \in Serials, early \in BOOLEAN : AddCertificate(s, early)
    <2> PICK s \in Serials, early \in BOOLEAN : AddCertificate(s, early)
      BY Zenon, <1>1
    <2>1. /\ \A u \in Serials : u # s => row'[u] = row[u]
          /\ row'[s] = NewRow(IF early THEN GenerateOCSP("good", 0, 0) ELSE NoResponse,
                              IF early THEN now ELSE 0)
          /\ UNCHANGED <<now, revocation, work>>
      BY Zenon, <1>0 DEF AddCertificate
    <2>2. row'[s].ocspResponse.status # "none" => row'[s].ocspLastUpdated # 0
      BY <1>0, <2>1 DEF NewRow, NoResponse, AnsweredInv
    <2> QED
      BY Zenon, <2>1, <2>2 DEF AnsweredInv
  <1>2. CASE \E q \in Revocations : WFERevoke(q) \/ AdminRevoke(q) \/ MarkRead(q) \/ MarkUpdate(q)
    <2> PICK q \in Revocations : WFERevoke(q) \/ AdminRevoke(q) \/ MarkRead(q) \/ MarkUpdate(q)
      BY Zenon, <1>2
    <2>1. UNCHANGED <<now, work>>
      BY Zenon DEF WFERevoke, AdminRevoke, MarkRead, MarkUpdate
    <2>2. revocation[q].serial \in Serials /\ revocation[q].row \in Rows
      BY Zenon, <1>0 DEF RequestStates
    <2>3. ASSUME NEW p \in Revocations
          PROVE  revocation'[p].row.ocspResponse.status # "none"
                    => revocation'[p].row.ocspLastUpdated # 0
      <3>1. \/ revocation'[p].row = revocation[p].row
            \/ revocation'[p].row = row[revocation[q].serial]
        BY <1>0 DEF WFERevoke, AdminRevoke, MarkRead, MarkUpdate, RequestStates
      <3> QED
        BY Zenon, <2>2, <3>1 DEF AnsweredInv
    <2>4. ASSUME NEW s \in Serials
          PROVE  row'[s].ocspResponse.status # "none" => row'[s].ocspLastUpdated # 0
      <3>1. CASE row'[s] = row[s]
        BY Zenon, <3>1 DEF AnsweredInv
      <3>2. CASE row'[s] # row[s]
        <4>1. PICK date \in revocation[q].readAt .. now : row'[s] = RevokedRow(revocation[q], date)
          BY Zenon, <1>0, <2>2, <3>2 DEF WFERevoke, AdminRevoke, MarkRead, MarkUpdate
        <4>2. /\ row'[s].ocspResponse = revocation[q].row.ocspResponse
              /\ row'[s].ocspLastUpdated = revocation[q].row.ocspLastUpdated
          BY Zenon, <2>2, <4>1 DEF RevokedRow, Rows
        <4> QED
          BY Zenon, <4>2 DEF AnsweredInv
      <3> QED
        BY Zenon, <3>1, <3>2
    <2> QED
      BY Zenon, <2>1, <2>3, <2>4 DEF AnsweredInv
  <1>3. CASE newCertificateTick \/ revokedCertificatesTick \/ oldOCSPResponsesTick
    <2>1. UNCHANGED <<now, revocation>>
      BY Zenon, <1>3 DEF newCertificateTick, revokedCertificatesTick, oldOCSPResponsesTick
    <2>2. \A s \in Serials : SameButExpired(s)
      BY Zenon, <1>0, <1>3 DEF newCertificateTick, revokedCertificatesTick, oldOCSPResponsesTick,
         SameButExpired, MarkExpired, LimitedOldest, Limited, StaleResponses
    <2>3. \A s \in Serials : /\ row'[s].ocspResponse = row[s].ocspResponse
                             /\ row'[s].ocspLastUpdated = row[s].ocspLastUpdated
      BY Zenon, <2>2, SameColumns DEF Inv
    <2>4. ASSUME NEW l \in Loops, NEW j \in work'[l], Signed(j) PROVE j.at # 0
      <3>1. CASE j \in work[l]
        BY Zenon, <2>4, <3>1 DEF AnsweredInv
      <3>2. CASE j \notin work[l]
        <4>1. PICK k \in Loops, b \in SUBSET issued :
                 \/ work' = [work EXCEPT ![k] = {Job(s, row[s].revokedReason) : s \in b}]
                 \/ work' = [work EXCEPT ![k] = {Job(s, 0) : s \in b}]
                 \/ work' = work
          <5>1. CASE newCertificateTick \/ revokedCertificatesTick
            BY Zenon, <5>1 DEF newCertificateTick, revokedCertificatesTick, Limited, MissingResponses,
               RevokedToUpdate, Loops
          <5>2. CASE oldOCSPResponsesTick
            BY Zenon, <5>2 DEF oldOCSPResponsesTick, LimitedOldest, Limited, StaleResponses, Loops
          <5> QED
            BY Zenon, <1>3, <5>1, <5>2
        <4>2. PICK s \in b : j = Job(s, row[s].revokedReason) \/ j = Job(s, 0)
          BY <1>0, <3>2, <4>1
        <4> QED
          BY <2>4, <4>2 DEF Job, Signed, NoResponse
      <3> QED
        BY Zenon, <3>1, <3>2
    <2> QED
      BY Zenon, <2>1, <2>3, <2>4 DEF AnsweredInv
  <1>4. CASE \E l \in Loops : \E j \in work[l] : Generate(l, j)
    <2>1. PICK l \in Loops : \E j \in work[l] : Generate(l, j)
      BY Zenon, <1>4
    <2>2. PICK j \in work[l] : Generate(l, j)
      BY Zenon, <2>1
    <2> DEFINE new == [j EXCEPT !.response = GenerateOCSP(j.status, j.reason, j.revokedDate),
                                !.at = UpdaterNow]
    <2>3. j \in Jobs /\ UNCHANGED <<now, row, revocation>>
          /\ work' = [work EXCEPT ![l] = (@ \ {j}) \cup {new}]
      BY Zenon, <1>0, <2>2 DEF Generate
    <2>4. new.at = UpdaterNow
      BY Zenon, <2>3 DEF Jobs
    <2> HIDE DEF new
    <2>5. UpdaterNow # 0
      BY <1>0 DEF UpdaterNow, AnsweredInv
    <2>6. ASSUME NEW k \in Loops, NEW i \in work'[k], Signed(i) PROVE i.at # 0
      <3>1. i \in work[k] \/ i = new
        BY Zenon, <1>0, <2>3, <2>6
      <3> QED
        BY Zenon, <2>4, <2>5, <2>6, <3>1 DEF AnsweredInv
    <2> QED
      BY Zenon, <2>3, <2>6 DEF AnsweredInv
  <1>5. CASE \E l \in Loops : \E j \in work[l] : storeResponse(l, j)
    <2>1. PICK l \in Loops : \E j \in work[l] : storeResponse(l, j)
      BY Zenon, <1>5
    <2>2. PICK j \in work[l] : storeResponse(l, j)
      BY Zenon, <2>1
    <2>3. /\ UNCHANGED <<now, revocation>> /\ Signed(j) /\ j \in Jobs /\ j.serial \in Serials
          /\ \A k \in Loops : work'[k] \subseteq work[k]
      BY <1>0, <2>2 DEF storeResponse, Jobs
    <2>4. ASSUME NEW s \in Serials
          PROVE  row'[s].ocspResponse.status # "none" => row'[s].ocspLastUpdated # 0
      <3>1. CASE row'[s] = row[s]
        BY Zenon, <3>1 DEF AnsweredInv
      <3>2. CASE row'[s] # row[s]
        <4>1. row'[s].ocspLastUpdated = j.at
          BY Zenon, <1>0, <2>2, <2>3, <3>2 DEF storeResponse, Rows
        <4> QED
          BY Zenon, <2>3, <4>1 DEF AnsweredInv
      <3> QED
        BY Zenon, <3>1, <3>2
    <2> QED
      BY Zenon, <2>3, <2>4 DEF AnsweredInv
  <1>6. CASE /\ UNCHANGED <<row, revocation>> /\ now' \in {now, now + 1}
             /\ \A l \in Loops : work'[l] \subseteq work[l]
    BY <1>0, <1>6 DEF AnsweredInv
  <1> QED
    BY Zenon, <1>0, <1>1, <1>2, <1>3, <1>4, <1>5, <1>6
    DEF Next, vars, GenerateFails, storeResponseFails, UpdaterRestart, ClockTick

-----------------------------------------------------------------------------
\* What sendPurge purges is the last server of the certificate.
LEMMA LastServer == Last \in Servers /\ PurgedServers = {Last}
  BY DeliveryAssumption DEF Last, Servers, PurgedServers

\* The responder's answer, by the row it reads.
LEMMA ResponseFields ==
    ASSUME Inv, NEW s \in Serials
    PROVE  /\ Response(s) \in [status : {"none", "good", "revoked"}, until : Nat]
           /\ Response(s).status # "none"
                 => /\ Response(s).status = row[s].ocspResponse.status
                    /\ Response(s).until = row[s].ocspLastUpdated + Validity
  BY DeliveryAssumption DEF Response, NotCached, Inv, TypeOK, Rows, Responses

\* The steps of the table and its writers leave the caches alone.
LEMMA CacheAlone ==
    ASSUME Inv, AgeInv, CacheInv, SinceStep, UNCHANGED cache, Inv', now' \in {now, now + 1}
    PROVE  CacheInv'
  <1>0. now \in Nat /\ Validity \in Nat /\ Skew \in Nat /\ since \in [Serials -> Nat]
    BY Zenon, TimesAssumption, DeliveryAssumption DEF Inv, TypeOK, AgeInv
  <1>1. ASSUME NEW e \in Servers, NEW s \in Serials, cache[e][s].status = "good"
        PROVE  /\ cache[e][s].until <= now' + Validity + Skew
               /\ row'[s].status = "revoked" => cache[e][s].until <= since'[s] + Validity + Skew
    <2>1. cache[e][s].until \in Nat /\ cache[e][s].until <= now + Validity + Skew
      BY Zenon, <1>1 DEF CacheInv
    <2>2. cache[e][s].until <= now' + Validity + Skew
      BY <1>0, <2>1
    <2>3. CASE row[s].status = "revoked"
      <3>1. since'[s] = since[s]
        BY Zenon, <2>3 DEF SinceStep
      <3> QED
        BY Zenon, <1>1, <2>2, <2>3, <3>1 DEF CacheInv
    <2>4. CASE row[s].status # "revoked" /\ row'[s].status = "revoked"
      <3>1. since'[s] = now
        BY Zenon, <2>4 DEF SinceStep
      <3> QED
        BY Zenon, <2>1, <2>2, <3>1
    <2> QED
      BY Zenon, <2>2, <2>3, <2>4
  <1> QED
    BY Zenon, <1>1 DEF CacheInv

\* The steps of CertificateStatus.
LEMMA StatusKeeps == ASSUME DeliveryInv, StatusStep PROVE DeliveryInv'
  <1>1. [Next]_vars
    BY Zenon DEF StatusStep, Next
  <1>2. SinceStep /\ UNCHANGED <<cache, purges>>
        /\ purged' = {s \in purged : row'[s].ocspResponse.status = "revoked"}
    BY Zenon DEF StatusStep, SinceStep
  <1>3. Inv' /\ AgeInv' /\ AnsweredInv'
    BY Zenon, <1>1, <1>2, NextInv, AgeStep, AnsweredStep DEF DeliveryInv
  <1>4. now' \in {now, now + 1}
    BY Zenon, <1>1 DEF Next, vars, AddCertificate, WFERevoke, AdminRevoke, MarkRead, MarkUpdate,
       newCertificateTick, oldOCSPResponsesTick, revokedCertificatesTick, Generate, GenerateFails,
       storeResponse, storeResponseFails, UpdaterRestart, ClockTick
  <1>5. CacheInv'
    BY Zenon, <1>2, <1>3, <1>4, CacheAlone DEF DeliveryInv
  <1>6. PurgedInv'
    BY Zenon, <1>2 DEF DeliveryInv, PurgedInv
  <1> QED
    BY Zenon, <1>3, <1>5, <1>6 DEF DeliveryInv

\* Starting a purge, and losing the goroutines.
LEMMA PurgesChange ==
    ASSUME DeliveryInv, [Next]_vars, UNCHANGED <<cache, purged, since, now, issued, row, revocation>>,
           \A p \in purges' : p.serial \in Serials
    PROVE  DeliveryInv'
  <1>1. SinceStep
    BY Zenon DEF SinceStep, DeliveryInv, AgeInv
  <1>2. Inv' /\ AgeInv' /\ AnsweredInv'
    BY Zenon, <1>1, NextInv, AgeStep, AnsweredStep DEF DeliveryInv
  <1>3. CacheInv' /\ PurgedInv'
    BY Zenon DEF DeliveryInv, CacheInv, PurgedInv
  <1> QED
    BY Zenon, <1>2, <1>3 DEF DeliveryInv

\* The CDN and the purges leave the table alone.
LEMMA TableAlone ==
    ASSUME DeliveryInv, UNCHANGED vars, UNCHANGED since
    PROVE  Inv' /\ AgeInv' /\ AnsweredInv'
  <1>1. SinceStep
    BY Zenon DEF SinceStep, DeliveryInv, AgeInv, vars
  <1> QED
    BY Zenon, <1>1, NextInv, AgeStep, AnsweredStep DEF DeliveryInv

\* A cache takes over the responder's answer.
LEMMA FetchKeeps ==
    ASSUME DeliveryInv, NEW e \in Servers, NEW s \in Serials, Fetch(e, s)
    PROVE  DeliveryInv'
  <1>0. UNCHANGED vars /\ UNCHANGED <<purges, purged, since>>
        /\ cache' = [cache EXCEPT ![e][s] = Response(s)]
    BY Zenon DEF Fetch
  <1>1. UNCHANGED <<now, issued, row, revocation, work>>
    BY Zenon, <1>0 DEF vars
  <1>2. /\ cache' \in [Servers -> [Serials -> [status : {"none", "good", "revoked"}, until : Nat]]]
        /\ cache'[e][s] = Response(s)
        /\ \A f \in Servers, u \in Serials : <<f, u>> # <<e, s>> => cache'[f][u] = cache[f][u]
    BY Zenon, <1>0, ResponseFields DEF DeliveryInv, CacheInv
  <1>3. ASSUME Response(s).status = "good"
        PROVE  /\ Response(s).until <= now + Validity + Skew
               /\ row[s].status = "revoked" => Response(s).until <= since[s] + Validity + Skew
    <2>1. row[s].ocspResponse.status = "good" /\ Response(s).until = row[s].ocspLastUpdated + Validity
      BY Zenon, <1>3, ResponseFields DEF DeliveryInv
    <2>2. row[s].ocspLastUpdated <= now + Skew
          /\ (row[s].status = "revoked" => row[s].ocspLastUpdated <= since[s] + Skew)
      BY Zenon, <2>1 DEF DeliveryInv, Inv, RowInv, AgeInv, GoodBefore
    <2>3. row[s].ocspLastUpdated \in Nat /\ now \in Nat /\ Skew \in Nat /\ Validity \in Nat
          /\ since[s] \in Nat
      BY Zenon, TimesAssumption, DeliveryAssumption DEF DeliveryInv, Inv, TypeOK, Rows, AgeInv
    <2> QED
      BY <2>1, <2>2, <2>3
  <1>4. CacheInv'
    BY Zenon, <1>0, <1>1, <1>2, <1>3 DEF DeliveryInv, CacheInv
  <1>5. ASSUME NEW u \in purged
        PROVE  cache'[Last][u] = NotCached \/ cache'[Last][u].status = "revoked"
    <2>1. CASE <<Last, u>> = <<e, s>>
      <3>1. Response(s) = NotCached \/ Response(s).status = row[s].ocspResponse.status
        BY Zenon DEF Response
      <3> QED
        BY Zenon, <1>2, <2>1, <3>1 DEF DeliveryInv, PurgedInv
    <2>2. CASE <<Last, u>> # <<e, s>>
      BY Zenon, <1>2, <2>2, LastServer DEF DeliveryInv, PurgedInv
    <2> QED
      BY Zenon, <2>1, <2>2
  <1>6. PurgedInv'
    BY Zenon, <1>0, <1>1, <1>5 DEF DeliveryInv, PurgedInv
  <1> QED
    BY Zenon, <1>0, <1>4, <1>6, TableAlone DEF DeliveryInv

\* A purge that succeeds empties the last server's cache.
LEMMA PurgeKeeps ==
    ASSUME DeliveryInv, NEW p \in purges, purge(p)
    PROVE  DeliveryInv'
  <1>0. /\ UNCHANGED vars /\ UNCHANGED since /\ purges' = purges \ {p}
        /\ purged' \subseteq purged \cup {p.serial}
        /\ p.serial \in purged' => \/ p.serial \in purged
                                    \/ row[p.serial].ocspResponse.status = "revoked"
        /\ p.serial \in Serials
    BY Zenon DEF purge, DeliveryInv, PurgedInv
  <1>1. UNCHANGED <<now, issued, row, revocation, work>>
    BY Zenon, <1>0 DEF vars
  <1>2. cache' = [e \in Servers |-> IF e \in {Last}
                                     THEN [cache[e] EXCEPT ![p.serial] = NotCached] ELSE cache[e]]
    BY Zenon, LastServer DEF purge
  <1>3. /\ cache' \in [Servers -> [Serials -> [status : {"none", "good", "revoked"}, until : Nat]]]
        /\ \A e \in Servers, s \in Serials :
              cache'[e][s] = IF e = Last /\ s = p.serial THEN NotCached ELSE cache[e][s]
    BY Zenon, <1>0, <1>2 DEF DeliveryInv, CacheInv, NotCached
  <1>4. NotCached.status = "none"
    BY Zenon DEF NotCached
  <1>5. CacheInv'
    BY Zenon, <1>0, <1>1, <1>3, <1>4 DEF DeliveryInv, CacheInv
  <1>6. PurgedInv'
    BY <1>0, <1>1, <1>3, LastServer DEF DeliveryInv, PurgedInv
  <1> QED
    BY Zenon, <1>0, <1>5, <1>6, TableAlone DEF DeliveryInv

\* A restart that only loses purges is no step of the updater's loops.
LEMMA RestartIsStatusStep == ASSUME DeliveryInv, Restart PROVE [Next]_vars
  <1>1. work' = [l \in Loops |-> {}] /\ UNCHANGED <<now, issued, row, revocation>>
    BY Zenon DEF Restart, UpdaterRestart
  <1>2. CASE \E l \in Loops : work[l] # {}
    BY Zenon, <1>1, <1>2 DEF Next, UpdaterRestart
  <1>3. CASE \A l \in Loops : work[l] = {}
    BY Zenon, <1>1, <1>3 DEF vars, DeliveryInv, Inv, TypeOK
  <1> QED
    BY Zenon, <1>2, <1>3

\* Every step preserves the invariant of the delivery.
LEMMA DeliveryStep == DeliveryInv /\ [DeliveryNext]_allVars => DeliveryInv'
  <1> SUFFICES ASSUME DeliveryInv, [DeliveryNext]_allVars PROVE DeliveryInv'
    BY Zenon
  <1>1. CASE StatusStep
    BY Zenon, <1>1, StatusKeeps
  <1>2. CASE \E j \in work["RevokedCertificates"] : GenerateRevoked(j)
    <2> PICK j \in work["RevokedCertificates"] : GenerateRevoked(j)
      BY Zenon, <1>2
    <2>1. "RevokedCertificates" \in Loops
      BY Zenon DEF Loops
    <2>2. j.serial \in Serials
      BY <2>1 DEF DeliveryInv, Inv, TypeOK, Jobs
    <2>3. [Next]_vars
      BY Zenon, <2>1 DEF GenerateRevoked, Next
    <2>4. UNCHANGED <<cache, purged, since, now, issued, row, revocation>>
          /\ purges' = purges \cup {[serial |-> j.serial, attempt |-> 0]}
      BY Zenon DEF GenerateRevoked, Generate
    <2>5. \A p \in purges' : p.serial \in Serials
      BY <2>2, <2>4 DEF DeliveryInv, PurgedInv
    <2> QED
      BY Zenon, <2>3, <2>4, <2>5, PurgesChange
  <1>3. CASE \E e \in Servers, s \in Serials : Fetch(e, s)
    BY Zenon, <1>3, FetchKeeps
  <1>4. CASE \E p \in purges : purge(p)
    BY Zenon, <1>4, PurgeKeeps
  <1>5. CASE \E p \in purges, fatal \in BOOLEAN : PurgeFails(p, fatal)
    <2> PICK p \in purges, fatal \in BOOLEAN : PurgeFails(p, fatal)
      BY Zenon, <1>5
    <2>1. UNCHANGED vars /\ UNCHANGED <<cache, purged, since>>
      BY Zenon DEF PurgeFails
    <2>2. \A o \in purges' : o \in purges \/ o = [p EXCEPT !.attempt = @ + 1]
      BY Zenon DEF PurgeFails
    <2>3. [p EXCEPT !.attempt = @ + 1].serial = p.serial
      OBVIOUS
    <2>4. \A o \in purges' : o.serial \in Serials
      BY Zenon, <2>2, <2>3 DEF DeliveryInv, PurgedInv
    <2> QED
      BY Zenon, <2>1, <2>4, PurgesChange DEF vars
  <1>6. CASE Restart
    <2>1. UNCHANGED <<cache, purged, since, now, issued, row, revocation>> /\ purges' = {}
          /\ work' = [l \in Loops |-> {}]
      BY Zenon, <1>6 DEF Restart, UpdaterRestart
    <2>2. [Next]_vars
      BY Zenon, <1>6, RestartIsStatusStep
    <2> QED
      BY Zenon, <2>1, <2>2, PurgesChange
  <1>7. CASE UNCHANGED allVars
    <2>1. UNCHANGED vars /\ UNCHANGED <<cache, purges, purged, since>>
      BY Zenon, <1>7 DEF allVars, deliveryVars
    <2> QED
      BY Zenon, <2>1, PurgesChange DEF vars, DeliveryInv, PurgedInv
  <1> QED
    BY Zenon, <1>1, <1>2, <1>3, <1>4, <1>5, <1>6, <1>7 DEF DeliveryNext

\* At the start nothing is issued, cached or purged.
LEMMA DeliveryStart == DeliveryInit => DeliveryInv
  <1> SUFFICES ASSUME DeliveryInit PROVE DeliveryInv
    BY Zenon
  <1> USE TimesAssumption
  <1>1. Inv
    BY Zenon, InitInv DEF DeliveryInit
  <1>2. row = [s \in Serials |-> NoRow] /\ now = Start /\ work = [l \in Loops |-> {}]
        /\ since = [s \in Serials |-> 0] /\ purges = {} /\ purged = {}
        /\ cache = [e \in Servers |-> [s \in Serials |-> NotCached]]
    BY Zenon DEF DeliveryInit, Init
  <1>3. \A q \in Revocations : revocation[q].step = "idle" /\ revocation[q].row = NoRow
    BY DEF DeliveryInit, Init
  <1>4. NoRow.status = "good" /\ NoRow.ocspResponse.status = "none"
    BY Zenon DEF NoRow, NoResponse
  <1>5. AgeInv
    BY Zenon, <1>2, <1>3, <1>4 DEF AgeInv, GoodBefore
  <1>6. CacheInv
    BY Zenon, <1>2 DEF CacheInv, NotCached
  <1>7. AnsweredInv
    BY Zenon, <1>2, <1>3, <1>4 DEF AnsweredInv
  <1>8. PurgedInv
    BY Zenon, <1>2 DEF PurgedInv
  <1> QED
    BY Zenon, <1>1, <1>5, <1>6, <1>7, <1>8 DEF DeliveryInv

\* The invariant of the delivery holds in every reachable state.
THEOREM DeliveryInvariance == DeliverySpec => []DeliveryInv
  BY DeliveryStart, DeliveryStep, PTL DEF DeliverySpec

\* However purges, requests and the updater's loops interleave, a cache answers
\* good for a revoked certificate no longer than a response is valid after
\* MarkCertificateRevoked wrote its row, give or take the clock skew.
THEOREM GoodEnds == DeliverySpec => []GoodServedBriefly
  <1>1. DeliveryInv => GoodServedBriefly
    BY Zenon DEF DeliveryInv, CacheInv, GoodServedBriefly
  <1> QED
    BY <1>1, DeliveryInvariance, PTL

\* After a purge that comes after the store of generateRevokedResponse's
\* response, the last server answers revoked.
THEOREM PurgesLast == DeliverySpec => []PurgeLasts
  <1>1. ASSUME DeliveryInv PROVE PurgeLasts
    <2> SUFFICES ASSUME NEW s \in purged PROVE Served(Last, s).status = "revoked"
      BY Zenon DEF PurgeLasts, Last
    <2>1. s \in Serials /\ row[s].ocspResponse.status = "revoked"
          /\ (cache[Last][s] = NotCached \/ cache[Last][s].status = "revoked")
      BY Zenon, <1>1 DEF DeliveryInv, PurgedInv
    <2>2. row[s].ocspLastUpdated # 0
      BY Zenon, <1>1, <2>1 DEF DeliveryInv, AnsweredInv
    <2>3. s \in issued
      BY <1>1, <2>1 DEF DeliveryInv, Inv, RowInv, NoRow, NoResponse
    <2>4. Response(s).status = "revoked"
      BY Zenon, <2>1, <2>2, <2>3 DEF Response
    <2>5. Fresh(Last, s) => cache[Last][s] # NotCached
      BY <1>1 DEF Fresh, NotCached, DeliveryInv, Inv, TypeOK
    <2> QED
      BY Zenon, <2>1, <2>4, <2>5 DEF Served
  <1> QED
    BY <1>1, DeliveryInvariance, PTL

\* The delivery adds the CDN and the purges to CertificateStatus and takes
\* nothing from it: its steps are steps of the table and its writers or leave
\* them alone, so what is proved of CertificateStatus holds of it.
THEOREM ImplementsStatus == DeliverySpec => Spec
  <1>1. DeliveryInit => Init
    BY Zenon DEF DeliveryInit
  <1>2. DeliveryInv /\ [DeliveryNext]_allVars => [Next]_vars
    <2> SUFFICES ASSUME DeliveryInv, [DeliveryNext]_allVars PROVE [Next]_vars
      BY Zenon
    <2>1. CASE StatusStep
      BY Zenon, <2>1 DEF StatusStep, Next
    <2>2. CASE \E j \in work["RevokedCertificates"] : GenerateRevoked(j)
      BY Zenon, <2>2 DEF GenerateRevoked, Next, Loops
    <2>3. CASE \/ \E e \in Servers, s \in Serials : Fetch(e, s)
               \/ \E p \in purges : purge(p) \/ \E fatal \in BOOLEAN : PurgeFails(p, fatal)
               \/ UNCHANGED allVars
      BY Zenon, <2>3 DEF Fetch, purge, PurgeFails, allVars
    <2>4. CASE Restart
      BY Zenon, <2>4, RestartIsStatusStep
    <2> QED
      BY Zenon, <2>1, <2>2, <2>3, <2>4 DEF DeliveryNext
  <1> QED
    BY <1>1, <1>2, DeliveryInvariance, PTL DEF DeliverySpec, Spec
=============================================================================
