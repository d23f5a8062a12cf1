# A TLA+ model of Boulder

Boulder is an ACME certificate authority: a set of Go processes that talk over
gRPC and share one MySQL database.  This directory holds TLA+ modules of its
stateful parts, TLC configurations that check them on small instances, and
TLAPS proofs of the main results for all instances.  `PROJECT.json` lists the
parts of the system, the runs, the lines every definition models, and the
hazards, each at the line where it bites.

## The system

| Part | State | Operations | Talks to |
|---|---|---|---|
| WFE (`wfe/`, `nonce/`) | the nonce counters, in memory | ACME requests | RA, SA |
| RA (`ra/`) | validation goroutines, cached issuance count, rate limit policies | authorizations, certificates, registrations, revocations | SA, VA, CA, PA |
| SA (`sa/`) | the database: registrations, pendingAuthorizations, authz, challenges, certificates, certificateStatus, sctReceipts, fqdnSets, issuedNames | one transaction or statement per call; rows that gorp writes are versioned by `LockCol`, hand-written UPDATEs are not | MySQL |
| VA (`va/`, `cdr/`, `bdns/`) | none that lasts | validations, CAA lookups, retried DNS queries | DNS, HTTP |
| CA (`ca/`) | signers | issue, sign OCSP | SA, Publisher |
| Publisher (`publisher/`) | none | submit to CT logs, store receipts | SA |
| ocsp-updater | four loops, in memory | find rows, have the CA sign, store; purge the CDN; resubmit to CT | database, CA, Publisher |
| ocsp-responder | none | serve the stored response | database |
| expiration-mailer, expired-authz-purger, admin-revoker, orphan-finder | batch jobs | see their `main.go` | database, RA, SA |
| gRPC layer (`grpc/`) | none | wrappers on both sides, errors, deadlines, repeated calls | between all of them |

What makes it hard: transactions read a snapshot and write the current row;
some writers bump the version column and others do not; front ends act on
copies read before the request was verified; limits are counted in one call and
used up in another; validations run in goroutines that outlive the request;
calls are sent again when a connection breaks; loops work in batches, fail in
the middle and restart; two processes' clocks meet in one SQL comparison.

## Modules

| Module | Models | Kind |
|---|---|---|
| `OneTimeTokens` | what a nonce service promises | abstract specification |
| `NonceService` | `nonce/nonce.go` | component; run as it is |
| `FrontEnd` | requests in `wfe/wfe.go`, over `OneTimeTokens` | component |
| `CertificateStatus` | the certificateStatus table, its revokers and the updater's three response loops | composition |
| `OCSPDelivery` | responder, CDN and purges, over `CertificateStatus` | composition |
| `Authorizations` | pendingAuthorizations, authz, challenges, and their writers in WFE, RA, SA, admin-revoker and expired-authz-purger | composition |
| `RateLimits` | policies of `ratelimit/` | operators |
| `Accounts` | the registrations table, new authorizations and their limits | composition |
| `Issuance` | limits, signing, storing, orphans, CT submission | composition |
| `Messages` | messages and errors of `grpc/` | operators |
| `Calls` | a call, or a chain of calls, with its failures | component |
| `CAA` | which CAA records count, and what they allow | operators |
| `Validation` | one `PerformValidation` with `bdns` and `cdr` | composition |
| `ExpirationMailer` | `cmd/expiration-mailer`, `mail/mailer.go` | component |

`MC...` modules are instances for TLC, `...Proofs` modules hold theorems.
A definition that stands before another one and has its name with something
added (`badNamesOver` before `badNames`) is a mutant: a plausible mistake in that
code, which makes TLC report the property it is paired with in `PROJECT.json`.

**NonceService.**  A nonce is `<<key, counter>>`; the key stands for the AES key drawn
at start, and a nonce decrypts only under its own key.  `Nonce` and `Valid` hold the
mutex and are one step each (`Valid` = `Acceptable`, the refusals, and `Remember`, the
insertion and the eviction).  `Restart` is a new process.  `issued` and `spent` are
history.  The counter is an int64 that no process lives long enough to overflow,
so it is not given a width.

**FrontEnd.**  Each POST is a process.  `HandleFunc` draws the nonce of the answer;
`GetRegistrationByKey` is verifyPOST up to the status check, `Verified` the rest of it
with the redemption of the nonce and the handler's own reads, `CallRA` the call and
the answer.  `Elsewhere` is what others do to accounts, the certificate and
authorizations, `OtherRequest` every request that here only draws or redeems a
nonce.  The nonce service is `OneTimeTokens`, which `NonceService` is proved to
implement.  The redemption and the handler's reads of the certificate's status
and of authorizations are one step: they are separate calls in the code, but
nothing that happens between them can be told from something before the first.

**CertificateStatus.**  A row has the columns the writers use.  `AddCertificate`
inserts it, with or without the response signed early.  A revocation is a
process: the front end checks the status (`WFERevoke`) or admin-revoker does not
(`AdminRevoke`), then `MarkCertificateRevoked` reads (`MarkRead`) and writes back the
whole row if the version is unchanged (`MarkUpdate`).  A loop of the updater holds
the jobs of its running tick; `Generate` signs, `storeResponse` is the UPDATE that
matches the status and leaves the version alone.  Signing and storing may fail,
and the updater may restart.  Time counts seconds, the resolution of the
columns; the updater's clock runs `Skew` ahead of the SA's.

**OCSPDelivery.**  The steps of `CertificateStatus`, with `GenerateRevoked` starting a
purge beside the store.  `Fetch` is a relying party's request that makes a server of
the CDN ask the responder; what it caches lives until nextUpdate.  `purge` and
`PurgeFails` are the attempts of `Purge`: a failure may be fatal, and the last one
gives up.  Only the last URL list is purged, as in `sendPurge`.  The CDN itself is
external: it is assumed to honour nextUpdate and successful purges.

**Authorizations.**  Each challenge POST is a process.  Its steps are the front end's
read (`WFEChallenge`), the RA's checks (`UpdateAuthorization`), the two halves of
`UpdatePendingAuthorization`, the verdict with `onValidationUpdate`
(`PerformValidation`), and the two halves of `FinalizeAuthorization`.  The first half
of a transaction fixes what it reads; the second writes the current rows,
checking the version and the primary key as gorp and MySQL do.  Deactivations,
the revoker and the purger are processes too.  What the VA finds out is a free
choice.  Challenges are present or absent.  There is one domain, the one being
revoked.  `MayFail` adds lost answers, crashes, rollbacks and stops; `Revoking` and
`Purging` say whether the operators run the two tools.

**Accounts.**  Each request is a worker that makes one database access per step, so
that what it has read may be stale when it writes: a new registration counts, then
inserts; an update or a rollover merges into the copy that verifyPOST read and
writes the whole row with the version `UpdateRegistration` reads itself; a
deactivation is an UPDATE of the status only; a new authorization counts the
pending and the failed ones, looks for one to reuse, reads that again, or inserts.

**Issuance.**  `NewCertificate` goes through the total limit (against the count that
`updateIssuedCount` left), the limit per name with its bypass for renewals, the
limit per FQDN set, the authorizations, `IssueCertificate` and the store.  The store
fails before or after its effect, or takes effect later than the CA waits
(`LateStore`); then the certificate is an orphan in the log that `parseLogLine` and
`checkDER` work through.  Submissions to CT logs run on their own, are lost with
the process, and are made again by `missingReceiptsTick`.

**Messages, Calls.**  A field of a message is nil, empty or full, which is what the
wrappers tell apart; `Encode` is what the wire makes of it.  `Client` and `Server`
list, for each method, what is written and what is demanded.  An error is its
type, its code and its status.  A call is tried again when its connection is
lost (`FailFast(false)`), while the handler of the lost try runs on; a deadline ends
the call and the calls it makes.

**CAA, Validation.**  The challenge's goroutine and the CAA goroutine interleave with
each DNS exchange and each query of the distributed resolver.  The world's
answers are choices from the sets of a scenario.  Addresses are public or
private, a body is the key authorization or something else, a certificate is its
list of names.

**ExpirationMailer.**  A pass goes through the groups: `Select`, registration by
registration the reads, the mail and the marks.  The SMTP session is ready, in a
transaction, or closed.  Renewals and revocations happen at any time.  A pass is
assumed to end before the ticker has dropped a tick unless it crashes.

## Runs

| Run | Distinct states | Shows |
|---|---|---|
| `nonces` | 4,032 | at most one acceptance per nonce, no refusal before `maxUsed` later nonces were redeemed, refinement of `OneTimeTokens` |
| `front_end` | 54,726 | one RA call per nonce however often a request arrives; revocations only for the entitled |
| `certificate_status` | 617,714 | under all interleavings of two revocations with the loops, a revocation that is not served can be found, and revoked responses are backed |
| `ocsp_delivery` | 274,876 | every certificate gets a response, every revocation is served and reaches every server; good is served no longer than a response is valid; a purge after the store lasts |
| `authorizations` | 908,671 | one table per authorization, one validation decides it, its status only descends; a revocation by domain gets everything that was valid when it started |
| `authorizations_purge` | 809,580 | the purger takes only what is past its grace period and orphans nothing, wherever it stops; a dispatched validation leads to a final authorization |
| `accounts` | 2,141,954 | keys stay unique; the limit on pending authorizations is overshot at most by the other requests in progress; failed authorizations are counted right; updates change only their fields unless the row was written meanwhile; a deactivation is undone only by an update that was there before |
| `issuance` | 336,575 | names were authorized within a request's duration of the signature; how far the limits per name and in total are overshot; orphans get stored and receipts fetched in the end |
| `calls` | 40,363 | clients and servers understand each other; failures without a lost connection or deadline changed nothing; each additional row costs a lost connection; error types and contacts arrive |
| `validation` | 282,643 | the verdict is right in every order of the goroutines; the closest CAA records decide; when exactly the quorum succeeds; the addresses that were tried are recorded; no goroutine is left behind |
| `expiration_mailer` | 1,882,058 | each failure costs at most one mail too many and one pass of delay |

One run is expected to find a violation, `late_failure_mismatch`: the comment on
`cdr.New` promises that a lookup succeeds with a quorum of M = N - maxFailures, but
a tolerated failure that is heard after an answer with records is compared as an
empty record set and ends the lookup.  `QuorumAgrees` in `validation` says exactly
when a lookup succeeds.

### Bounds

- `nonces`: a map of two and five counters let the map overflow three times; one
  restart gives two keys with the same counters.
- `front_end`: two POSTs, equal or different, and two nonces: a replay needs two
  requests with one nonce, an entitlement race one request and the world.
- `certificate_status`: two revocations are what a lost update needs; the clock
  passes staleness, the age cut-off and expiry.
- `ocsp_delivery`: two servers, of which only the last is purged; one retry; a clock
  that runs past the validity of everything that was cached before the revocation.
- `authorizations`: two updates, on the same id or on two, give every version
  conflict; two ids and batches of one make the revoker's loop run more than
  once.  `authorizations_purge` runs past expiry, grace period and the new expiry of
  a finalized row.
- `accounts`: two workers race on every pair of requests; three keys let a rollover
  meet a registration; windows of one and times up to two let them slide.
- `issuance`: each scenario of `MCIssuance` has one limit, one kind of failure or
  one loss of authorizations on, with two requests at a time and up to three
  certificates, one more than a limit allows.
- `calls`: all methods with all contents of their messages, all errors through all
  chains; two tries per call and three lost connections on chains of up to three
  hops.
- `validation`: three redirects instead of ten, two tries, three proxies with one
  tolerated failure; each scenario varies one part, `Busy` all that fail together.
- `expiration_mailer`: windows of one and three ticks, so that a certificate meets
  both boundaries and failures can use up a window; two failures.
- Clocks stop at `MaxTime` and requests are finite, so most models come to rest;
  their configurations do not check for deadlock.  `nonces` does.

### Fairness

- `OCSPDelivery!DeliveryFairSpec`: `looper.loop` ticks for ever whatever a tick
  returned, hence weak fairness of the ticks; strong fairness of signing, storing
  and completed ticks says that the CA and the database do not fail for ever on
  one certificate.  Nothing is assumed of purges and of requests.
- `Authorizations!FairSpec`: weak fairness of an update once the RA works on it, in
  a run without failures: the code has no retry, and after a crash an authorization
  does stay pending until it expires.
- `Issuance!Fairness`: operators run orphan-finder on the log until it has nothing to
  add; the updater ticks; a log asked again and again gives its receipt at last.
- `Validation!FairSpec`: the goroutines run on; every exchange, dial and query has a
  timeout.

### Assumptions on the configuration

`GraceAssumption`: the purger's grace period exceeds the time an update, its
validation and its finalization may take under the gRPC timeouts.  The code only
refuses a grace period of zero.  `MailerAssumption`: nag times are distinct and
there is at least one; the mailer sorts them.  `PolicyAssumption` and
`PoliciesAssumption`: windows, thresholds and overrides are natural numbers.
`ScenariosAssumption` of `Validation`: what the outside world answers has the shapes
the code parses it into.  `ScenariosAssumption` of `Calls`: the first request and the
last reply were composed by their wrappers, the last server returns an error
that some component returns, and the RA's `UpdateRegistration` calls the SA only.  The
other assumptions say that times and bounds are natural numbers and that there
is a worker, a batch size and a server.

## Proofs

The theorems hold for every value of the constants that satisfies the modules'
assumptions: any number of nonces, requests, certificates, accounts, names,
policies, failures and times.  Each proof module has one inductive invariant,
shown to hold initially and under each action by a lemma of its own; the
theorems follow from it.  TLC checked the invariants before they were proved.

| Module | Theorems | Why the property is not inductive by itself |
|---|---|---|
| `NonceServiceProofs` | `NonceAcceptedAtMostOnce`, `RefusalOnlyWhenOvertaken`, `RefinesOneTimeTokens`, `UsedMapBounded`, `TypeCorrectness` | `Window` says that what was redeemed under the running key is used or at most `earliest`, `Memory` that the used counters lie above it and how many were redeemed beyond |
| `FrontEndProofs` | `OneCall`, `Entitled`, `Deactivated`, `Truthful`, `UsesOneTimeTokens` | `CallsRedeemed` and `OwnNonces` tie a call to the redemption of its own nonce; `EachKnows` says what a request has established at each step, which stays true because nothing it depends on is ever given back; `UsesOneTimeTokens` closes the chain to `RefinesOneTimeTokens`: the handlers use nonces only in the way the service is proved to implement |
| `FrontEndProofs`, on `Calls` | `CallsUnderstood`, `FailuresUndone`, `RowsCorrect`, `ErrorsCorrect`, `ContactsCorrect`, `CallInvariance` | `TreeInv`: the calls form a tree that has a leaf, and each further leaf was paid for with a lost connection; `RowsInv` gives each row a leaf of its own; `RequestsInv` and `ResultsInv` say what the message and the answer at each depth of the chain still carry of the first request and of the last error |
| `OCSPDeliveryProofs`, on `CertificateStatus` | `RevocationsDoNotEscape`, `RevokedResponsesAreBacked`, `UpdaterNeverUnrevokes`, `TypeCorrectness` | `ReadInv` relates a transaction's copy to the row while the version is unchanged, `JobInv` a job to the row it was made from, `UpdatedBefore` a good response to the date of the revocation |
| `OCSPDeliveryProofs` | `GoodEnds`, `PurgesLast`, `ImplementsStatus` | on top of that invariant, `AgeInv` bounds the age of good responses at the revocation, `CacheInv` what servers hold, `PurgedInv` what a purge leaves; `ImplementsStatus` is the refinement that carries the theorems above over to the composition |
| `AuthorizationsProofs` | `InOneTable`, `OneVerdict`, `ChallengesStay`, `NothingOrphaned`, `RevocationComplete`, `StatusesDescend`, `TypeCorrectness` | `UpdateInv`: an update in flight began before its pending row expired and lasts `RPCTime` at most; `PurgerInv`: what the purger holds expired a grace period ago, so no update can still move it; `RevokerInv`: what remains to be revoked is in the table |
| `AccountsProofs` | `KeysAreUnique`, `PendingIsBounded`, `InvalidAreCounted`, `UpdatesOnlyItsFields`, `DeactivationIsFinal`, `TypeCorrectness` | `RequestInv`: a copy equals the row while the version is unchanged; `AuthzInv`: expiry and creation differ by the lifetime; `PendingInv` counts, besides the pending authorizations, the requests that passed the check |
| `IssuanceProofs` | `SignedWhenAuthorized`, `PerNameIsBounded`, `TotalWasBelow`, `NoneLost`, `TypeCorrectness` | `PerNameInv` counts, in each window, the certificates and the requests that may still add one: a request is let in when the certificates alone are below the limit, and its certificate takes its place when it is stored.  `CountingInv`, `CountInv` and `PassedInv` hand the bound on to the update, to the count and to who passes: certificates stored before a moment never become more |
| `ExpirationMailerProofs` | `NagsAreBounded`, `NaggedOnTime`, `TypeCorrectness` | `CountInv`: a mail beyond the failures is recorded in `lastNag`; `TimelyInv` charges each pass a certificate missed in its window to a failure of its own |
| `ValidationProofs` | `VerdictCorrect`, `ClimbCorrect`, `AddressesCorrect`, `QuorumCorrect`, `Invariance` | `RecordsInv` keeps the validation records one hop ahead of the connections, and complete up to there; `Tally` says what the loop of the distributed lookup has kept of the results it heard; `VerdictInv` says what answer, problem and channel are at each stage.  `ClimbCorrect` rests on `MinFacts`: `parseResults` stops at the least label with records or an error |

Some properties have theorems and no run: `UsedBounded`, `DeactivatedStops`,
`AnswersTrue`, `UpdaterKeepsRevoked`, `Accounted`, and the type invariants.

For `Calls` the argument is about the tree of handlers.  A call that was tried n
times has started n handlers, each of which may make a call of its own.  A first
try takes the place of the caller among the leaves, so the leaves stay as many as
they were; a further try adds one, and only a lost connection causes it.  Hence
`TreeInv` counts 1 + `lost` leaves, for chains of any length and any number of
tries, and `RowsBounded` follows because a row is written by a last handler, which
is a leaf.  `ErrorsKept` is a lemma about one hop, `Alike` of the error before and
after `wrapError` and `unwrapError` for everything that may circulate
(`Circulating`), carried along the chain by `ResultsInv`.  That every request is
complete is a case distinction over the methods of `Messages`, a lemma for each table
of a service.

The proofs of `Calls` and of `CertificateStatus` are parts of `FrontEndProofs` and
`OCSPDeliveryProofs`: the callers of the first are the front end's, and the
second is the base of the composition.

Only model-checked: everything under fairness (`EveryCertificateAnswered`,
`RevocationReaches`, `ValidationDecides`, `OrphansRepaired`, `EveryoneLogged`,
`NobodyBlocks`), because the prover does not handle `ENABLED`, and the
counterexample of `late_failure_mismatch`.  Every other property that a run checks
has a theorem.

## Known behaviours

What the models allow, because the code does, and the properties are worded
around:

- *Revocation.*  `wfe.RevokeCertificate` checks the status before the RA writes, so two
  revocations can both succeed; the second one's date and reason replace the
  first's, and a response signed for the first may be served until the loop
  comes round.  The refresh of a revoked response does not select
  `revokedReason`, so the reason is 0 from the first refresh on.  Good responses
  that are in caches stay for their validity when the purge ran before the
  store.  Of several OCSP servers only the last is purged.  The loop in
  `akamai/cache-client.go` makes one attempt more than `retries` says.
- *Outages.*  A response older than `ocspStaleMaxAge` drops out of the refresh query for
  good.  Certificates older than `oldestIssuedSCT` get no further receipts.
  `getSerialsIssuedSince` and the mailer's passes go on after database errors.
- *Authorizations.*  A validation in flight can make an authorization valid that was
  deactivated or revoked by domain while it was pending: the finalization writes
  the copy it has.  A finalization that loses the race for the version is not
  repeated.
- *Accounts.*  `UpdateRegistration` writes all columns of a copy the front end read
  earlier under a version it reads itself, so it can undo a concurrent update;
  `DeactivateRegistration` does not bump the version, so an update in progress can
  undo it.
- *Limits.*  They are counted before they are used up.  They go by NotBefore, which is an
  hour before the signature.  Orphans count only when they are stored.  The limit
  per FQDN set refuses above the threshold, the others at it.
  `countCertificatesByName` reads at most 10,001 rows and never returns the
  `TooManyCertificatesError` its comment announces.
- *Authorizations of a certificate* are valid at the check; the comment in
  `ra.checkAuthorizations` speaks of the certificate's expiry.
- *CAA.*  `bdns.LookupCAA` takes every rcode but SERVFAIL as an answer.  `cdr` sorts
  records by value alone before it compares them.
- *Expiration mail.*  Certificates of accounts without contact are never marked, stay
  in the query, and can fill its LIMIT; `NaggedInTime` leaves such passes out.

## Not modelled

- `policy/`, `goodkey/`, `csr/`, `va/gsb.go`: decisions on one value, by string rules,
  number theory or an outside service.  Their verdicts are inputs.
- `cmd/cert-checker`, `cmd/contact-exporter`, `cmd/single-ocsp`, `cmd/notify-mailer`: single
  passes that read, or send, without shared state.
- `reloader/`: that policies change between two reads is modelled, polling is not.
- Read-only pages of the front end (index, directory, certificate, issuer, terms), CORS.
- Signatures, AES, TLS, ASN.1, SQL text and the EdgeGrid protocol: formats and
  cryptography, assumed to work.
- The gRPC balancer and credentials; MySQL itself, of which the models assume
  atomic statements, repeatable reads and unique keys; the CDN and the CT logs.
- Logging, metrics and feature flags, on which no property depends.
- `test/`, generated protobuf code and vendored packages.
