-------------------------------- MODULE CAA --------------------------------
(***************************************************************************)
(* The pure part of the CAA check (va/va.go): which of the record sets     *)
(* found at a name and its parents counts, and whether it lets this CA     *)
(* issue.                                                                  *)
(*                                                                         *)
(* A CAA record is [tag, flag, value].  A value is a sequence of the       *)
(* tokens that extractIssuerDomain tells apart: white space, the separator *)
(* and anything else (a domain or a parameter).                            *)
(***************************************************************************)
EXTENDS Naturals, Sequences, FiniteSetsExt

issuerDomain == "happy-hacker-ca.invalid"

Space == " "

Separator == ";"

\* strings.Trim(v, " \t")
Trim(v) ==
  LET kept == {i \in DOMAIN v : v[i] # Space}
  IN IF kept = {} THEN <<>> ELSE SubSeq(v, Min(kept), Max(kept))

extractIssuerDomain(v) ==
  LET separators == {i \in DOMAIN v : v[i] = Separator}
  IN IF separators = {} THEN Trim(v) ELSE Trim(SubSeq(v, 1, Min(separators) - 1))

\* newCAASet, as predicates on one record.
Known == {"issue", "issuewild", "iodef"}

\* caaRecord.Flag & (128 | 1), the flag being one byte.
criticalUnknown(records) ==
  \E r \in records : r.tag \notin Known /\ (r.flag >= 128 \/ r.flag % 2 = 1)

validateCAASet(records) ==
  LET Issue == {r \in records : r.tag = "issue"}
  IN CASE records = {} -> TRUE
       [] records # {} /\ criticalUnknown(records) -> FALSE
       [] OTHER -> Issue = {} \/ \E r \in Issue : extractIssuerDomain(r.value) = <<issuerDomain>>

Found(records) == [err |-> FALSE, records |-> records]

LookupError == [err |-> TRUE, records |-> {}]

parseResultsFromRoot(results) ==
  LET decisive == {i \in DOMAIN results : results[i].err \/ results[i].records # {}}
  IN IF decisive = {} THEN Found({}) ELSE results[Max(decisive)]

\* results[i] is what was found at the name without its first i - 1 labels.
parseResults(results) ==
  LET decisive == {i \in DOMAIN results : results[i].err \/ results[i].records # {}}
  IN IF decisive = {} THEN Found({}) ELSE results[Min(decisive)]
=============================================================================
