------------------------------ MODULE MCAccounts ------------------------------
(* Accounts on a small instance.                                           *)
EXTENDS Accounts, TLC

Limit(window, threshold) ==
    [window |-> window, threshold |-> threshold,
     overrides |-> [x \in {} |-> 0], registrationOverrides |-> [x \in {} |-> 0]]

MCRegistrationsPerIP == Limit(1, 1)
\* The second account has a limit of its own.
MCPendingPerAccount == [Limit(0, 2) EXCEPT !.registrationOverrides = [x \in {2} |-> 1]]
MCInvalidPerAccount == Limit(1, 2)
MCScenarios == {<<1, {"newreg", "rollover"}>>, <<1, {"update", "rollover", "deactivate"}>>,
                <<2, {"newauthz"}>>}
Symmetry == Permutations(Workers) \cup Permutations(Keys)
=============================================================================
