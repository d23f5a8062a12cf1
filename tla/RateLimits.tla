------------------------------ MODULE RateLimits ------------------------------
(***************************************************************************)
(* A rate limit policy (ratelimit/rate-limits.go): a window, a threshold,  *)
(* and overrides of the threshold by key (a domain or an address) and by   *)
(* account.                                                                *)
(***************************************************************************)
EXTENDS Integers

\* Overrides are functions from the keys they are given for.
RateLimitPolicy(rlp) ==
    /\ rlp.window \in Nat /\ rlp.threshold \in Nat
    /\ \A key \in DOMAIN rlp.overrides : rlp.overrides[key] \in Nat
    /\ \A id \in DOMAIN rlp.registrationOverrides : rlp.registrationOverrides[id] \in Nat

\* The regID argument of GetThreshold where accounts do not matter.
noRegistrationID == -1

\* RateLimitPolicy.Enabled
Enabled(rlp) == rlp.threshold # 0

\* RateLimitPolicy.GetThreshold: an account's override goes before a key's.
GetThreshold(rlp, key, regID) ==
    IF regID \in DOMAIN rlp.registrationOverrides THEN rlp.registrationOverrides[regID]
    ELSE IF key \in DOMAIN rlp.overrides THEN rlp.overrides[key]
    ELSE rlp.threshold

\* RateLimitPolicy.WindowBegin
WindowBegin(rlp, windowEnd) == windowEnd - rlp.window
=============================================================================
