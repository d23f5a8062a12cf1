---------------------------- MODULE OneTimeTokens ----------------------------
(***************************************************************************)
(* What a replay-nonce service promises: a token is handed out before it   *)
(* is redeemed, and is redeemed at most once.  "spent" counts redemptions, *)
(* so that a second redemption would be a visible step.                    *)
(***************************************************************************)
EXTENDS Naturals

CONSTANT Tokens

VARIABLES
    issued,     \* the tokens handed out so far
    spent       \* token -> how often it has been redeemed

Init ==
    /\ issued = {}
    /\ spent = [t \in Tokens |-> 0]

Issue(t) ==
    /\ issued' = issued \cup {t}
    /\ UNCHANGED spent

Redeem(t) ==
    /\ t \in issued
    /\ spent[t] = 0
    /\ spent' = [spent EXCEPT ![t] = 1]
    /\ UNCHANGED issued

Next == \E t \in Tokens : Issue(t) \/ Redeem(t)

Spec == Init /\ [][Next]_<<issued, spent>>
=============================================================================
