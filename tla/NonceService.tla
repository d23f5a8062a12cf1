----------------------------- MODULE NonceService -----------------------------
(***************************************************************************)
(* The replay-nonce service of the web front end (nonce/nonce.go).         *)
(*                                                                         *)
(* A nonce is a counter sealed under the AES-GCM key that NewNonceService  *)
(* draws at start-up, so here a nonce is a pair <<key, counter>> and only  *)
(* nonces sealed by the service exist: decrypt fails on anything else.     *)
(* The mutex makes each of Nonce and Valid one step; a restart of the      *)
(* process loses all counters and draws a new key.                         *)
(***************************************************************************)
EXTENDS Integers, FiniteSets, FiniteSetsExt

CONSTANTS
    MaxUsed,        \* ns.maxUsed: how many used counters are remembered
    MaxLatest,      \* bound: counters handed out per key
    MaxRestarts     \* bound: restarts of the process

ASSUME MaxUsedAssumption == MaxUsed \in Nat \ {0}
ASSUME BoundsAssumption == MaxLatest \in Nat /\ MaxRestarts \in Nat

VARIABLES
    key,        \* the key of the running process (ns.gcm)
    latest,     \* ns.latest
    earliest,   \* ns.earliest
    used,       \* ns.used: the set of counters mapped to true
    issued,     \* history: the nonces handed out, under any key
    spent       \* history: nonce -> how often Valid answered true

vars == <<key, latest, earliest, used, issued, spent>>

Keys == 0 .. MaxRestarts
Counters == 1 .. MaxLatest
Nonces == Keys \X Counters

-----------------------------------------------------------------------------

NewNonceService ==
    /\ latest = 0
    /\ earliest = 0
    /\ used = {}

Init ==
    /\ NewNonceService
    /\ key = 0
    /\ issued = {}
    /\ spent = [n \in Nonces |-> 0]

Nonce ==
    /\ latest < MaxLatest
    /\ latest' = latest + 1
    /\ issued' = issued \cup {<<key, latest + 1>>}
    /\ UNCHANGED <<key, earliest, used, spent>>

\* minUsed: its scan starts from ns.latest.
minUsed(set) == Min(set \cup {latest})

\* Valid's three refusals after decrypt; <<k, c>> decrypts only under its key.
Acceptable(k, c) ==
    /\ k = key
    /\ c <= latest
    /\ c > earliest
    /\ c \notin used

\* Mutants: the evicted counter is forgotten and earliest stays; the size is
\* compared before the insertion; the map is kept one short of maxUsed.
Remember_NoEarliest(c) ==
    LET now == used \cup {c}
    IN  /\ earliest' = earliest
        /\ used' = IF Cardinality(now) > MaxUsed THEN now \ {minUsed(now)} ELSE now

Remember_AtMax(c) ==
    LET now == used \cup {c}
    IN  IF Cardinality(now) >= MaxUsed
        THEN /\ earliest' = minUsed(now)
             /\ used' = now \ {minUsed(now)}
        ELSE /\ earliest' = earliest
             /\ used' = now

\* The eviction that keeps the used set at maxUsed.
Remember(c) ==
    LET now == used \cup {c}
    IN  IF Cardinality(now) > MaxUsed
        THEN /\ earliest' = minUsed(now)
             /\ used' = now \ {minUsed(now)}
        ELSE /\ earliest' = earliest
             /\ used' = now

Valid(k, c) ==
    IF Acceptable(k, c)
    THEN /\ Remember(c)
         /\ spent' = [spent EXCEPT ![<<k, c>>] = @ + 1]
         /\ UNCHANGED <<key, latest, issued>>
    ELSE UNCHANGED vars

\* Mutant: the key outlives the process, the counters do not.
Restart_SameKey ==
    /\ key < MaxRestarts
    /\ key' = key
    /\ latest' = 0
    /\ earliest' = 0
    /\ used' = {}
    /\ UNCHANGED <<issued, spent>>

Restart ==
    /\ key < MaxRestarts
    /\ key' = key + 1
    /\ latest' = 0
    /\ earliest' = 0
    /\ used' = {}
    /\ UNCHANGED <<issued, spent>>

\* Clients replay any nonce they were ever given, in any order.
Next ==
    \/ Nonce
    \/ \E n \in issued : Valid(n[1], n[2])
    \/ Restart

Spec == Init /\ [][Next]_vars

-----------------------------------------------------------------------------

\* The variables range over the types of the NonceService struct.
TypeOK ==
    /\ key \in Keys
    /\ latest \in 0 .. MaxLatest
    /\ earliest \in 0 .. MaxLatest
    /\ used \in SUBSET Counters
    /\ issued \in SUBSET Nonces
    /\ spent \in [Nonces -> Nat]

\* Valid answers true at most once for a nonce, also after its counter was
\* evicted from the used map, and across restarts.
AtMostOnce == \A n \in Nonces : spent[n] <= 1

\* The used map never outgrows maxUsed: each call of Valid adds one counter
\* and evicts one when that is too many.
UsedBounded == Cardinality(used) <= MaxUsed

\* The cost of the eviction is bounded: a nonce of the running process that
\* was never used is refused as too low only once more than maxUsed nonces
\* handed out after it have been accepted.
OvertakenBeforeRefused ==
    \A c \in Counters :
        (c <= earliest /\ spent[<<key, c>>] = 0)
            => Cardinality({d \in Counters : d > c /\ spent[<<key, d>>] > 0}) > MaxUsed

\* The service implements one-time tokens.
Tokens == INSTANCE OneTimeTokens WITH Tokens <- Nonces
ImplementsOneTimeTokens == Tokens!Spec
=============================================================================
