------------------------------ MODULE MCIssuance ------------------------------
(* Issuance on a small instance: two names under one domain.               *)
EXTENDS Issuance

MCBase(n) == "domain"
NoOverrides == [x \in {} |-> 0]
Limit(window, threshold) ==
    [window |-> window, threshold |-> threshold, overrides |-> NoOverrides,
     registrationOverrides |-> NoOverrides]
Off == Limit(0, 0)
NoLimits == [total |-> Off, perName |-> Off, perFQDN |-> Off]

\* Two requests at a time and no failures; the scenarios change some of it.
Plain ==
    [policy |-> NoLimits, reloads |-> {}, expires |-> {9}, requests |-> {{"a"}},
     certificates |-> 3, logs |-> {}, workers |-> Workers, mayLose |-> FALSE,
     mayFail |-> FALSE]

One == {CHOOSE w \in Workers : TRUE}

PerNameScenario ==
    [Plain EXCEPT !.policy.perName = Limit(3, 1), !.requests = {{"a"}, {"b"}, {"a", "b"}}]
FQDNSetScenario ==
    [Plain EXCEPT !.policy.perName = Limit(3, 1), !.policy.perFQDN = Limit(3, 1),
                  !.workers = One]
ReloadScenario ==
    [Plain EXCEPT !.certificates = 2, !.policy.total = Limit(3, 1), !.reloads = {NoLimits}]
AuthzScenario ==
    [Plain EXCEPT !.expires = {1, 9}, !.requests = {{"a", "b"}}, !.certificates = 1,
                  !.mayLose = TRUE]
FailureScenarios ==
    {[Plain EXCEPT !.certificates = 2, !.logs = {"l1"}, !.mayFail = TRUE,
                   !.workers = One],
     [Plain EXCEPT !.certificates = 1, !.logs = {"l1", "l2"}, !.mayFail = TRUE]}
MCScenarios == {PerNameScenario, FQDNSetScenario, ReloadScenario, AuthzScenario}
               \cup FailureScenarios
=============================================================================
