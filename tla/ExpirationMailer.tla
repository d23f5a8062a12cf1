--------------------------- MODULE ExpirationMailer ---------------------------
(***************************************************************************)
(* The expiration-mailer: at every tick of its ticker it goes through its  *)
(* nag groups, selects the certificates that expire in the group's window  *)
(* and had no nag of that group yet, and sends one mail per registration   *)
(* over one SMTP session per group.  That a nag was sent is recorded after *)
(* the mail server took the mail, certificate by certificate.  Meanwhile   *)
(* certificates are renewed and revoked, and reads, connections, sends,    *)
(* updates and the process itself fail.                                    *)
(***************************************************************************)
EXTENDS Integers, Sequences, FiniteSets

CONSTANTS
    Certs,
    Registrations,
    NagTimes,       \* m.nagTimes: sorted, with NagCheckInterval added
    Scenarios,      \* what there is: owner and notAfter of the certificates,
                    \* the registrations' contacts, m.limit
    MaxFaults,      \* bound: failures
    MaxTime         \* bound: ticks

Contacts == {"nil", "no mail", "mail"}

ASSUME MailerAssumption ==
    /\ NagTimes \in Seq(Nat) /\ NagTimes # <<>>
    /\ \A i, j \in DOMAIN NagTimes : i < j => NagTimes[i] < NagTimes[j]
    /\ Scenarios \subseteq [owner : [Certs -> Registrations], notAfter : [Certs -> Nat],
                            contact : [Registrations -> Contacts], limit : Nat \ {0}]
    /\ IsFiniteSet(Certs)
    /\ MaxFaults \in Nat /\ MaxTime \in Nat \ {0}

VARIABLES
    now,            \* in ticks of the ticker
    due,            \* the tick has not been served yet
    scenario,
    lastNag,        \* lastExpirationNagSent; 0 is NULL
    renewed,        \* certificates whose names are in a later certificate
    revoked,
    run,            \* the process
    session,        \* the SMTP session: "closed", "ready" or "transaction"
    mails,          \* history: certificate -> group -> mails taken by the server
    faults,         \* history: failures so far
    crowded         \* history: a group had more certificates than m.limit

vars == <<now, due, scenario, lastNag, renewed, revoked, run, session, mails, faults, crowded>>
database == <<lastNag, renewed, revoked>>
history == <<mails, faults, crowded>>

Groups == DOMAIN NagTimes

\* step: what the process is about to do for the group; todo: certificates of
\* the group not handled yet; current: those of the registration at hand.
Runs == [step : {"idle", "select", "registrations", "send", "mark"}, group : Groups,
         todo : SUBSET Certs, current : SUBSET Certs]
Idle == [step |-> "idle", group |-> 1, todo |-> {}, current |-> {}]

Init ==
    /\ now = 1
    /\ due = TRUE
    /\ scenario \in Scenarios
    /\ lastNag = [c \in Certs |-> 0]
    /\ renewed = {} /\ revoked = {}
    /\ run = Idle
    /\ session = "closed"
    /\ mails = [c \in Certs |-> [g \in Groups |-> 0]]
    /\ faults = 0
    /\ crowded = FALSE

Fault(n) == faults + n <= MaxFaults /\ faults' = faults + n

notAfter(c) == scenario.notAfter[c]
Owned(r) == {c \in run.todo : scenario.owner[c] = r}

-----------------------------------------------------------------------------
\* main's loop over the ticker.
FindExpiringCertificates ==
    /\ run.step = "idle" /\ due
    /\ due' = FALSE
    /\ run' = [Idle EXCEPT !.step = "select"]
    /\ UNCHANGED <<now, scenario, database, session, history>>

Left(g) == now + (IF g = 1 THEN 0 ELSE NagTimes[g - 1])
Right(g) == now + NagTimes[g]

\* Mutant: a nag exactly at the group's time does not count.
NotNaggedAtBoundary(c, g) == lastNag[c] = 0 \/ notAfter(c) - lastNag[c] >= NagTimes[g]

\* COALESCE(TIMESTAMPDIFF(lastExpirationNagSent, notAfter) > nagCutoff, 1)
NotNagged(c, g) == lastNag[c] = 0 \/ notAfter(c) - lastNag[c] > NagTimes[g]

\* Mutant: the window ends before its right end.
ExpiringOpen(g) ==
    {c \in Certs : /\ notAfter(c) > Left(g) /\ notAfter(c) < Right(g)
                   /\ c \notin revoked
                   /\ NotNagged(c, g)}

Expiring(g) ==
    {c \in Certs : /\ notAfter(c) > Left(g) /\ notAfter(c) <= Right(g)
                   /\ c \notin revoked
                   /\ NotNagged(c, g)}

\* ORDER BY notAfter LIMIT m.limit
Selections(found) ==
    {b \in SUBSET found :
        /\ Cardinality(b) <= scenario.limit
        /\ b # found => Cardinality(b) = scenario.limit
        /\ \A c \in b, d \in found \ b : notAfter(c) <= notAfter(d)}

NextGroup ==
    IF run.group < Len(NagTimes)
    THEN [run EXCEPT !.step = "select", !.group = @ + 1, !.todo = {}, !.current = {}]
    ELSE Idle

\* The query of a group, and processCerts's Connect.
Select ==
    /\ run.step = "select"
    /\ crowded' = (crowded \/ Cardinality(Expiring(run.group)) > scenario.limit)
    /\ \E b \in Selections(Expiring(run.group)) :
          \/ /\ b = {}
             /\ run' = NextGroup
             /\ UNCHANGED <<session, faults>>
          \/ /\ b # {}
             /\ run' = [run EXCEPT !.step = "registrations", !.todo = b]
             /\ session' = "ready"
             /\ UNCHANGED faults
          \/ /\ b # {} /\ Fault(1)
             /\ run' = NextGroup
             /\ UNCHANGED session
    /\ UNCHANGED <<now, due, scenario, database, mails>>

\* The next registration, or the next group.
Proceed(todo) ==
    IF todo = {}
    THEN run' = NextGroup /\ session' = "closed"
    ELSE /\ run' = [run EXCEPT !.step = "registrations", !.todo = todo, !.current = {}]
         /\ UNCHANGED session

\* certIsRenewed of each certificate; if it fails, "assume not renewed".
StillNeeded(certs, misread) == (certs \ renewed) \cup misread

\* updateCertStatus, for each of certs.
MarkNagged(certs) == lastNag' = [c \in Certs |-> IF c \in certs THEN now ELSE lastNag[c]]

\* processCerts's loop body up to sendNags.  The map is visited in any order.
\* Renewed certificates are marked as if nagged, except those for which the
\* update fails.
ProcessRegistration(r) ==
    /\ run.step = "registrations" /\ Owned(r) # {}
    /\ \E misread \in SUBSET Owned(r), unmarked \in SUBSET (Owned(r) \cap renewed) :
          LET needed == StillNeeded(Owned(r), misread)
          IN  /\ unmarked \cap needed = {}
              /\ Fault(Cardinality(misread) + Cardinality(unmarked))
              /\ MarkNagged((Owned(r) \ needed) \ unmarked)
              /\ IF needed = {} \/ scenario.contact[r] = "nil"
                 THEN Proceed(run.todo \ Owned(r))
                 ELSE /\ run' = [run EXCEPT !.current = needed, !.todo = @ \ Owned(r),
                            !.step = IF scenario.contact[r] = "mail" THEN "send" ELSE "mark"]
                      /\ UNCHANGED session
    /\ UNCHANGED <<now, due, scenario, renewed, revoked, mails, crowded>>

\* GetRegistration fails.
RegistrationUnread(r) ==
    /\ run.step = "registrations" /\ Owned(r) # {}
    /\ Fault(1)
    /\ Proceed(run.todo \ Owned(r))
    /\ UNCHANGED <<now, due, scenario, database, mails, crowded>>

-----------------------------------------------------------------------------
\* SendMail and sendOne.

Taken == mails' = [c \in Certs |-> IF c \in run.current
                                   THEN [mails[c] EXCEPT ![run.group] = @ + 1] ELSE mails[c]]

\* The server takes the mail.
SendAccepted ==
    /\ run.step = "send" /\ session = "ready"
    /\ Taken
    /\ run' = [run EXCEPT !.step = "mark"]
    /\ UNCHANGED <<now, due, scenario, database, session, faults, crowded>>

\* EOF or a 421, before or after the server took the mail: reconnect, and send
\* it again.
SendInterrupted ==
    /\ run.step = "send"
    /\ Fault(1)
    /\ (session = "ready" /\ Taken) \/ UNCHANGED mails
    /\ session' = "ready"
    /\ UNCHANGED <<now, due, scenario, database, run, crowded>>

\* Any other error ends SendMail, a refused recipient in the middle of the SMTP
\* transaction, an address that generateMessage does not take before it; the
\* next registrations use the same session.
SendRefused ==
    /\ run.step = "send" /\ session = "ready"
    /\ Fault(1)
    /\ IF run.todo = {} THEN run' = NextGroup /\ session' = "closed"
       ELSE /\ run' = [run EXCEPT !.step = "registrations", !.current = {}]
            /\ session' \in {"ready", "transaction"}
    /\ UNCHANGED <<now, due, scenario, database, mails, crowded>>

\* A MAIL command within a transaction is refused by the server.
SendOutOfOrder ==
    /\ run.step = "send" /\ session = "transaction"
    /\ Proceed(run.todo)
    /\ UNCHANGED <<now, due, scenario, database, history>>

\* updateCertStatus for each certificate of the mail; failed ones stay as they are.
UpdateCertStatus ==
    /\ run.step = "mark"
    /\ \E failed \in SUBSET run.current :
          Fault(Cardinality(failed)) /\ MarkNagged(run.current \ failed)
    /\ Proceed(run.todo)
    /\ UNCHANGED <<now, due, scenario, renewed, revoked, mails, crowded>>

\* A query of findExpiringCertificates fails, which ends the process, or the
\* process dies; it is started again and waits for the next tick.
Crash ==
    /\ run.step # "idle"
    /\ Fault(1)
    /\ run' = Idle /\ session' = "closed"
    /\ UNCHANGED <<now, due, scenario, database, mails, crowded>>

-----------------------------------------------------------------------------
Renew(c) ==
    /\ renewed' = renewed \cup {c}
    /\ UNCHANGED <<now, due, scenario, lastNag, revoked, run, session, history>>

Revoke(c) ==
    /\ revoked' = revoked \cup {c}
    /\ UNCHANGED <<now, due, scenario, lastNag, renewed, run, session, history>>

\* A pass takes less than a tick; a tick without a pass is a fault.
Tick ==
    /\ now < MaxTime /\ run.step = "idle"
    /\ now' = now + 1 /\ due' = TRUE
    /\ IF due THEN Fault(1) ELSE UNCHANGED faults
    /\ UNCHANGED <<scenario, database, run, session, mails, crowded>>

Next ==
    \/ FindExpiringCertificates \/ Select
    \/ \E r \in Registrations : ProcessRegistration(r) \/ RegistrationUnread(r)
    \/ SendAccepted \/ SendInterrupted \/ SendRefused \/ SendOutOfOrder
    \/ UpdateCertStatus \/ Crash
    \/ \E c \in Certs : Renew(c) \/ Revoke(c)
    \/ Tick

Spec == Init /\ [][Next]_vars

-----------------------------------------------------------------------------
\* Properties

\* The columns, the process and the session.
TypeOK ==
    /\ now \in 1 .. MaxTime /\ due \in BOOLEAN /\ crowded \in BOOLEAN
    /\ scenario \in Scenarios
    /\ lastNag \in [Certs -> 0 .. MaxTime] /\ renewed \cup revoked \subseteq Certs
    /\ run \in Runs
    /\ session \in {"closed", "ready", "transaction"}
    /\ run.step \in {"registrations", "send", "mark"} => session # "closed"
    /\ mails \in [Certs -> [Groups -> Nat]] /\ faults \in 0 .. MaxFaults

\* Nobody is nagged twice in a group without a failure: the mail that was sent
\* takes its certificate out of the group's query, at the ends of the window
\* too, and each failure costs at most one mail too many.
NagsBounded ==
    \A c \in Certs, g \in Groups : mails[c][g] <= 1 + faults

Width(g) == NagTimes[g] - (IF g = 1 THEN 0 ELSE NagTimes[g - 1])

\* Each failure costs a certificate at most one pass: once as many passes as
\* there were failures, and one more, fell into a group's window, its account
\* got the mail, as long as no group was over the limit.
NaggedInTime ==
    (run.step = "idle" /\ ~ due /\ ~ crowded)
        => \A c \in Certs, g \in Groups :
              LET entered == notAfter(c) - NagTimes[g]
              IN  (/\ c \notin renewed \cup revoked
                   /\ scenario.contact[scenario.owner[c]] = "mail"
                   /\ entered >= 1 /\ now >= entered + faults /\ faults < Width(g))
                      => mails[c][g] >= 1
=============================================================================
