----------------------------- MODULE MCFrontEnd -----------------------------
(* Instances of FrontEnd for TLC. *)
EXTENDS FrontEnd

Request(e, s, f) == [endpoint |-> e, signer |-> s, flaw |-> f]

\* The same revocation twice, revocations of different signers, and each
\* endpoint beside a request with a flaw.
Pairs ==
    {<<Request("revoke-cert", s, "none"), Request("revoke-cert", s, "none")>> : s \in Signers}
    \cup {<<Request("new-cert", "owner", "none"), Request("new-cert", "owner", "none")>>,
          <<Request("challenge", "owner", "none"), Request("authz", "owner", "none")>>}
    \cup {<<Request("challenge", s, f), Request("new-cert", s, f)>> :
              s \in {"stranger"}, f \in {"agreement", "resource"}}
    \cup {<<Request("revoke-cert", "owner", f), Request("authz", "certificate key", f)>> :
              f \in Flaws}
    \cup {<<Request("revoke-cert", "owner", "payload"), Request("authz", "owner", "payload")>>,
          <<Request("new-cert", "owner", "payload"), Request("authz", "stranger", "none")>>}

SomeScenarios == {[p \in Posts |-> IF p = "p1" THEN r[1] ELSE r[2]] : r \in Pairs}
=============================================================================
