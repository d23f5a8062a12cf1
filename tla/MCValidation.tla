---------------------------- MODULE MCValidation ----------------------------
(***************************************************************************)
(* Scenarios: each lets one part of the world vary and keeps the others    *)
(* well-behaved, one with interference of both goroutines' failures, and   *)
(* the proxies of the distributed resolver on their own.                   *)
(***************************************************************************)
EXTENDS Validation

Answer(v) == [kind |-> "answer", value |-> v]

Temporary == Outcome("temporary")

Permanent == Outcome("permanent")

CAARecord(tag, flag, value) == [tag |-> tag, flag |-> flag, value |-> value]

Us == CAARecord("issue", 0, <<issuerDomain>>)

Other == CAARecord("issue", 0, <<"other">>)

NoHost == [A |-> {Answer(<<>>)}, AAAA |-> {Answer(<<>>)}, TXT |-> {Answer(<<>>)}]

Host == [NoHost EXCEPT !["A"] = {Answer(<<"public4">>)}]

KeyAuthorization == [status |-> 200, length |-> "short", payload |-> "keyAuthorization"]

Base ==
  [type |-> "http-01", sane |-> TRUE, labels |-> 2, caa |-> {Answer({})}, exempt |-> FALSE,
   gpdns |-> FALSE, answers |-> {}, dns |-> Host, connErrors |-> {}, redirects |-> {},
   bodies |-> {KeyAuthorization}, certs |-> {}, mayCancel |-> FALSE]

Hosts ==
  [A |-> {Answer(<<"private4">>), Answer(<<"private4", "public4">>), Permanent, Temporary},
   AAAA |-> {Answer(<<>>), Answer(<<"public6">>), Outcome("rcode")},
   TXT |-> {Answer(<<>>)}]

Redirect(port, tls) == [port |-> port, tls |-> tls]

HTTP == [Base EXCEPT !.dns = Hosts, !.labels = 1,
           !.connErrors = {"timeout"},
           !.redirects = {Redirect(None, TRUE), Redirect("0", FALSE)},
           !.bodies = {KeyAuthorization, [KeyAuthorization EXCEPT !.status = 404],
                       [KeyAuthorization EXCEPT !.length = "long"],
                       [KeyAuthorization EXCEPT !.payload = "other"]}]

Insane == [Base EXCEPT !.sane = FALSE, !.caa = {Answer({}), Temporary}]

\* Everything may fail at the same time.
Busy == [HTTP EXCEPT !.mayCancel = TRUE, !.labels = 2, !.redirects = {Redirect("8080", FALSE)},
           !.bodies = {KeyAuthorization},
           !.caa = {Answer({}), Answer({Us}), Temporary}]

TLSSNI(type) ==
  [Base EXCEPT !.type = type, !.connErrors = {"timeout", "tlsAlert", "speaksHTTP"},
     !.certs = {<<>>, <<<<"Z">>>>, <<<<"x", "Z">>>>, <<<<"SanA", "SanB">>>>,
                <<<<"SanB", "SanA">>>>, <<<<"SanA", "SanA">>>>, <<<<"SanA", "SanB", "x">>>>,
                <<<<"x">>, <<"Z">>>>},
     !.caa = {Answer({}), Answer({Other})}, !.labels = 1]

DNS == [Base EXCEPT !.type = "dns-01", !.mayCancel = TRUE,
          !.dns = [NoHost EXCEPT !["TXT"] = {Answer(<<>>), Answer(<<"other", "digest">>),
                                             Answer(<<"other">>), Outcome("servfail"), Temporary}]]

CAALookups ==
  [Base EXCEPT !.labels = 3,
     !.caa = {Answer({}), Answer({Us, Other}), Answer({Other}), Permanent}]

CAARecords(exempt) ==
  [Base EXCEPT !.labels = 1, !.exempt = exempt,
     !.caa = {Answer({CAARecord("iodef", 0, <<"x">>)}),
              Answer({CAARecord("issuewild", 128, <<"other">>)}),
              Answer({CAARecord("issue", 0, <<Space, issuerDomain, Space, Separator, "x">>)}),
              Answer({CAARecord("issue", 0, <<Separator, issuerDomain>>)}),
              Answer({Us, CAARecord("tbs", 1, <<"x">>)}),
              Answer({Us, CAARecord("tbs", 2, <<"x">>)}),
              Answer({Us, CAARecord("tbs", 130, <<"x">>)}),
              Outcome("rcode"), Outcome("servfail")}]

Unsupported == [Base EXCEPT !.type = "proofOfPossession-01"]

Distributed ==
  [Base EXCEPT !.labels = 1, !.caa = {Permanent}, !.gpdns = TRUE,
     !.answers = {LookupError, Found({}), Found({Us}), Found({Other})}]

DistributedClimb ==
  [Base EXCEPT !.labels = 2, !.caa = {Answer({Other})}, !.gpdns = TRUE,
     !.answers = {Found({}), Found({Us})}]

AllScenarios ==
  {HTTP, Insane, Busy, TLSSNI("tls-sni-01"), TLSSNI("tls-sni-02"), DNS, CAALookups,
   CAARecords(TRUE), CAARecords(FALSE), Unsupported, Distributed, DistributedClimb}

DistributedOnly == {Distributed}
=============================================================================
