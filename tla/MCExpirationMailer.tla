------------------------- MODULE MCExpirationMailer -------------------------
(* Instances of ExpirationMailer for TLC. *)
EXTENDS ExpirationMailer

TwoGroups == <<1, 4>>

Own(f, g) == [c \in Certs |-> IF c = "c1" THEN f ELSE g]
Has(a, b) == [r \in Registrations |-> IF r = "r1" THEN a ELSE b]

\* One account or two, certificates that expire together or not, contacts of
\* each kind, and a limit that suffices or does not.
SomeScenarios ==
    {[owner |-> Own("r1", r), notAfter |-> Own(5, n), contact |-> Has("mail", k), limit |-> l] :
        r \in Registrations, n \in {5, 6}, k \in Contacts, l \in {1, 2}}
=============================================================================
