------------------------ MODULE ExpirationMailerProofs ------------------------
(***************************************************************************)
(* For any certificates, accounts, nag groups, limit and number of         *)
(* failures: nobody is nagged more than once in a group, but for one mail  *)
(* too many per failure, and everybody is nagged once a group's window had *)
(* more passes than there were failures.                                   *)
(***************************************************************************)
EXTENDS ExpirationMailer, FiniteSetTheorems, TLAPS


Working == run.step \in {"registrations", "send", "mark"}

\* A pass: what is still to do is in the group's window and had no nag of the
\* group, and the certificates at hand are not among it.
PassInv ==
    /\ \A c \in Certs : lastNag[c] <= now
    /\ ~ Working => run.current = {}
    /\ run.todo \cap run.current = {}
    /\ Working => /\ \A c \in run.todo \cup run.current : notAfter(c) <= Right(run.group)
                  /\ \A c \in run.todo : NotNagged(c, run.group)
    /\ run.step = "send" => \A c \in run.current : NotNagged(c, run.group)

\* Mails do not outnumber failures, but for the nag that is recorded or about
\* to be.
Recorded(c, g) ==
    \/ ~ NotNagged(c, g)
    \/ run.step = "mark" /\ run.group = g /\ c \in run.current

CountInv ==
    \A c \in Certs, g \in Groups :
        mails[c][g] <= faults \/ (Recorded(c, g) /\ mails[c][g] <= 1 + faults)

Inv == TypeOK /\ PassInv /\ CountInv

-----------------------------------------------------------------------------

\* The times and the groups have their types.
LEMMA Times ==
    ASSUME TypeOK
    PROVE  /\ \A c \in Certs : notAfter(c) \in Nat
           /\ \A g \in Groups : NagTimes[g] \in Nat
           /\ now \in Nat \ {0} /\ faults \in Nat
           /\ \A c \in Certs : lastNag[c] \in Nat
           /\ 1 \in Groups
<1>1. scenario.notAfter \in [Certs -> Nat]
  BY Zenon, MailerAssumption DEF TypeOK
<1>2. \A c \in Certs : notAfter(c) \in Nat
  BY Zenon, <1>1 DEF notAfter
<1> QED
  BY MailerAssumption, <1>2 DEF TypeOK, Groups

\* The next group begins, or the pass ends, with no certificates at hand.
LEMMA NextGroupOK ==
    ASSUME TypeOK
    PROVE  /\ NextGroup \in Runs
           /\ NextGroup.step \in {"idle", "select"} /\ NextGroup.current = {}
           /\ NextGroup.todo = {}
<1>1. CASE run.group < Len(NagTimes)
  <2> DEFINE h == run.group + 1
  <2>1. h \in Groups /\ run \in Runs
    BY <1>1 DEF TypeOK, Runs, Groups
  <2>2. NextGroup = [run EXCEPT !.step = "select", !.group = h, !.todo = {}, !.current = {}]
    BY Zenon, <1>1 DEF NextGroup
  <2> HIDE DEF h
  <2> QED
    BY Zenon, <2>1, <2>2 DEF Runs
<1>2. CASE ~ (run.group < Len(NagTimes))
  <2>1. NextGroup = Idle
    BY Zenon, <1>2 DEF NextGroup
  <2> QED
    BY Zenon, <2>1, Times DEF Idle, Runs
<1> QED
  BY Zenon, <1>1, <1>2

\* Recording a nag takes the certificate out of the group's query, and puts
\* none back into any.
LEMMA MarkNaggedOK ==
    ASSUME TypeOK, PassInv, NEW m \in SUBSET Certs, MarkNagged(m), UNCHANGED <<now, scenario>>
    PROVE  /\ lastNag' \in [Certs -> 0 .. MaxTime]
           /\ \A c \in Certs : lastNag'[c] <= now
           /\ \A c \in Certs, g \in Groups :
                 /\ NotNagged(c, g)' => NotNagged(c, g)
                 /\ c \notin m => (NotNagged(c, g)' <=> NotNagged(c, g))
                 /\ c \in m /\ notAfter(c) <= Right(g) => ~ NotNagged(c, g)'
<1>1. lastNag' = [c \in Certs |-> IF c \in m THEN now ELSE lastNag[c]]
  BY Zenon DEF MarkNagged
<1>2. lastNag' \in [Certs -> 0 .. MaxTime] /\ \A c \in Certs : lastNag'[c] <= now
  BY <1>1, Times DEF TypeOK, PassInv
<1>3. ASSUME NEW c \in Certs, NEW g \in Groups
      PROVE  /\ NotNagged(c, g)' => NotNagged(c, g)
             /\ c \notin m => (NotNagged(c, g)' <=> NotNagged(c, g))
             /\ c \in m /\ notAfter(c) <= Right(g) => ~ NotNagged(c, g)'
  <2>1. /\ notAfter(c) \in Nat /\ NagTimes[g] \in Nat /\ now \in Nat \ {0}
        /\ lastNag[c] \in Nat /\ lastNag[c] <= now /\ notAfter(c)' = notAfter(c)
    BY Zenon, Times DEF PassInv, notAfter
  <2>2. lastNag'[c] = IF c \in m THEN now ELSE lastNag[c]
    BY Zenon, <1>1
  <2> HIDE DEF notAfter
  <2> QED
    BY <2>1, <2>2 DEF NotNagged, Right
<1> QED
  BY Zenon, <1>2, <1>3

\* The process goes on to the next registration or to the next group.
Goes(todo) ==
    \/ run' = NextGroup
    \/ run' = [run EXCEPT !.step = "registrations", !.todo = todo, !.current = {}]

\* What is not recorded then was not sent, or is the failure's.
LEMMA GoesOn ==
    ASSUME Inv, Working, NEW todo \in SUBSET run.todo, Goes(todo),
           NEW m \in SUBSET Certs, MarkNagged(m), m \cap todo = {},
           UNCHANGED <<now, scenario, mails>>, faults' \in Nat, faults' >= faults,
           run.step = "mark" => \A c \in run.current : c \in m \/ faults' > faults
    PROVE  /\ run' \in Runs /\ run'.step \in {"idle", "select", "registrations"}
           /\ lastNag' \in [Certs -> 0 .. MaxTime]
           /\ PassInv' /\ CountInv'
<1>1. /\ lastNag' \in [Certs -> 0 .. MaxTime]
      /\ \A c \in Certs : lastNag'[c] <= now
      /\ \A c \in Certs, g \in Groups :
                 /\ NotNagged(c, g)' => NotNagged(c, g)
                 /\ c \notin m => (NotNagged(c, g)' <=> NotNagged(c, g))
                 /\ c \in m /\ notAfter(c) <= Right(g) => ~ NotNagged(c, g)'
  BY Zenon, MarkNaggedOK DEF Inv
<1>2. /\ run \in Runs /\ run.group \in Groups /\ run.todo \subseteq Certs
      /\ run.current \subseteq Certs
  BY Zenon DEF Inv, TypeOK, Runs
<1>3. /\ run' \in Runs /\ run'.step \in {"idle", "select", "registrations"}
      /\ run'.current = {}
      /\ run'.step = "registrations" => run'.todo = todo /\ run'.group = run.group
  <2>1. CASE run' = NextGroup
    BY Zenon, <2>1, NextGroupOK DEF Inv
  <2>2. CASE run' = [run EXCEPT !.step = "registrations", !.todo = todo, !.current = {}]
    BY Zenon, <2>2, <1>2 DEF Runs
  <2> QED
    BY Zenon, <2>1, <2>2 DEF Goes
<1>4. /\ \A c \in Certs : notAfter(c)' = notAfter(c)
      /\ \A g \in Groups : Right(g)' = Right(g)
  BY Zenon DEF notAfter, Right
<1>5. PassInv'
  BY Zenon, <1>1, <1>2, <1>3, <1>4 DEF Inv, PassInv, Working
<1>6. ASSUME NEW c \in Certs, NEW g \in Groups
      PROVE  mails[c][g] <= faults' \/ (~ NotNagged(c, g)' /\ mails[c][g] <= 1 + faults')
  <2>1. /\ mails[c][g] \in Nat /\ faults \in Nat
        /\ mails[c][g] <= faults \/ (Recorded(c, g) /\ mails[c][g] <= 1 + faults)
    BY Zenon, Times DEF Inv, TypeOK, CountInv
  <2>2. CASE mails[c][g] <= faults
    BY <2>1, <2>2
  <2>3. CASE ~ NotNagged(c, g) /\ mails[c][g] <= 1 + faults
    BY <1>1, <2>1, <2>3
  <2>4. CASE run.step = "mark" /\ run.group = g /\ c \in run.current /\ mails[c][g] <= 1 + faults
    <3>1. CASE c \in m
      BY <1>1, <1>2, <2>1, <2>4, <3>1 DEF Inv, PassInv, Working
    <3>2. CASE faults' > faults
      BY <2>1, <2>4, <3>2
    <3> QED
      BY Zenon, <2>4, <3>1, <3>2
  <2> QED
    BY Zenon, <2>1, <2>2, <2>3, <2>4 DEF Recorded
<1>7. CountInv'
  BY Zenon, <1>6 DEF CountInv, Recorded
<1> QED
  BY Zenon, <1>1, <1>3, <1>5, <1>7

\* Nothing recorded.
LEMMA NothingMarked == ASSUME TypeOK, lastNag' = lastNag PROVE MarkNagged({})
BY Zenon DEF TypeOK, MarkNagged

\* A failure is counted, and so are several.
LEMMA FaultOK ==
    ASSUME TypeOK, NEW n \in Nat, Fault(n)
    PROVE  faults' \in 0 .. MaxFaults /\ faults' >= faults /\ (n > 0 => faults' > faults)
BY DEF TypeOK, Fault

\* A set of certificates has a number, which is 0 for the empty set only.
LEMMA Counted ==
    ASSUME NEW m \in SUBSET Certs
    PROVE  Cardinality(m) \in Nat /\ (m # {} => Cardinality(m) > 0)
<1>1. IsFiniteSet(m) /\ Cardinality(m) \in Nat
  BY Zenon, MailerAssumption, FS_Subset, FS_CardinalityType
<1>2. m # {} => Cardinality(m) # 0
  BY Zenon, <1>1, FS_EmptySet
<1> QED
  BY <1>1, <1>2

\* Between passes, and when a pass breaks off, which is a failure.
LEMMA BreaksOff ==
    ASSUME Inv, run' \in Runs, run'.step \in {"idle", "select"}, run'.current = {},
           UNCHANGED <<scenario, lastNag, mails>>, now' \in Nat, now' >= now,
           faults' \in Nat, faults' >= faults, Working => faults' > faults
    PROVE  PassInv' /\ CountInv'
<1>1. /\ \A c \in Certs : notAfter(c)' = notAfter(c) /\ lastNag[c] \in Nat
      /\ \A c \in Certs, g \in Groups : NotNagged(c, g)' <=> NotNagged(c, g)
      /\ now \in Nat /\ faults \in Nat
  BY Zenon, Times DEF Inv, notAfter, NotNagged
<1>2. PassInv'
  BY <1>1 DEF Inv, PassInv, Working
<1>3. ASSUME NEW c \in Certs, NEW g \in Groups
      PROVE  mails[c][g] <= faults' \/ (~ NotNagged(c, g)' /\ mails[c][g] <= 1 + faults')
  <2>1. /\ mails[c][g] \in Nat
        /\ mails[c][g] <= faults \/ (Recorded(c, g) /\ mails[c][g] <= 1 + faults)
    BY Zenon DEF Inv, TypeOK, CountInv
  <2>2. CASE Working
    BY <1>1, <2>1, <2>2
  <2>3. CASE ~ Working
    BY <1>1, <2>1, <2>3 DEF Recorded, Working
  <2> QED
    BY Zenon, <2>2, <2>3
<1>4. CountInv'
  BY Zenon, <1>3 DEF CountInv, Recorded
<1> QED
  BY Zenon, <1>2, <1>4

\* Steps that leave the process, the times and the mails alone.
LEMMA SameRun ==
    ASSUME Inv, UNCHANGED <<now, scenario, lastNag, run, mails, faults>>
    PROVE  PassInv' /\ CountInv'
<1>1. /\ \A c \in Certs : notAfter(c)' = notAfter(c)
      /\ \A c \in Certs, g \in Groups : NotNagged(c, g)' <=> NotNagged(c, g)
      /\ \A g \in Groups : Right(g)' = Right(g)
      /\ run.group \in Groups /\ run.todo \subseteq Certs /\ run.current \subseteq Certs
  BY Zenon DEF Inv, TypeOK, Runs, notAfter, NotNagged, Right
<1> QED
  BY Zenon, <1>1 DEF Inv, PassInv, Working, CountInv, Recorded

-----------------------------------------------------------------------------
\* One lemma per action of Next.

\* The process starts with nobody nagged.
LEMMA InitInv == Init => Inv
<1> SUFFICES ASSUME Init PROVE Inv
  BY Zenon
<1>1. 1 \in Groups
  BY MailerAssumption DEF Groups
<1>2. Idle \in Runs /\ Idle.step = "idle" /\ Idle.todo = {} /\ Idle.current = {}
  BY Zenon, <1>1 DEF Idle, Runs
<1>3. TypeOK
  <2>1. mails \in [Certs -> [Groups -> Nat]] /\ lastNag \in [Certs -> 0 .. MaxTime]
    BY MailerAssumption DEF Init
  <2>2. due \in BOOLEAN /\ crowded \in BOOLEAN /\ renewed \cup revoked \subseteq Certs
    BY Zenon DEF Init
  <2>3. now \in 1 .. MaxTime /\ faults \in 0 .. MaxFaults
    BY MailerAssumption DEF Init
  <2> QED
    BY Zenon, <1>2, <2>1, <2>2, <2>3 DEF Init, TypeOK
<1>4. PassInv
  BY <1>2 DEF Init, PassInv, Working
<1>5. CountInv
  BY DEF Init, CountInv
<1> QED
  BY Zenon, <1>3, <1>4, <1>5 DEF Inv

\* A pass begins.
LEMMA FindInv == ASSUME Inv, FindExpiringCertificates PROVE Inv'
<1>1. /\ run' = [Idle EXCEPT !.step = "select"] /\ due' = FALSE /\ run.step = "idle"
      /\ UNCHANGED <<now, scenario, lastNag, renewed, revoked, session, mails, faults, crowded>>
  BY Zenon DEF FindExpiringCertificates, database, history
<1>2. run' \in Runs /\ run'.step = "select" /\ run'.current = {}
  BY Zenon, <1>1, Times DEF Idle, Runs, Inv
<1>3. TypeOK'
  BY Zenon, <1>1, <1>2 DEF Inv, TypeOK
<1>4. PassInv' /\ CountInv'
  BY <1>1, <1>2, Times, BreaksOff DEF Inv, Working
<1> QED
  BY Zenon, <1>3, <1>4 DEF Inv

\* The selection takes certificates in the window that had no nag.
LEMMA SelectInv == ASSUME Inv, Select PROVE Inv'
<1>1. /\ run.step = "select" /\ run \in Runs /\ run.group \in Groups /\ run.current = {}
      /\ UNCHANGED <<now, due, scenario, lastNag, renewed, revoked, mails>>
      /\ crowded' \in BOOLEAN
  BY Zenon DEF Select, database, Inv, TypeOK, Runs, PassInv, Working
<1>2. PICK b \in Selections(Expiring(run.group)) :
        \/ run' = NextGroup /\ UNCHANGED <<session, faults>>
        \/ /\ run' = [run EXCEPT !.step = "registrations", !.todo = b]
           /\ session' = "ready" /\ UNCHANGED faults
        \/ run' = NextGroup /\ Fault(1) /\ UNCHANGED session
  BY Zenon DEF Select
<1>3. CASE run' = NextGroup /\ session' = session /\ (faults' = faults \/ Fault(1))
  <2>1. /\ run' \in Runs /\ run'.step \in {"idle", "select"} /\ run'.current = {}
    BY Zenon, <1>3, NextGroupOK DEF Inv
  <2>2. faults' \in 0 .. MaxFaults /\ faults' >= faults
    BY <1>3, FaultOK DEF Inv, TypeOK
  <2>3. TypeOK'
    BY Zenon, <1>1, <1>3, <2>1, <2>2 DEF Inv, TypeOK
  <2>4. PassInv' /\ CountInv'
    BY <1>1, <2>1, <2>2, Times, BreaksOff DEF Inv, Working
  <2> QED
    BY Zenon, <2>3, <2>4 DEF Inv
<1>4. CASE /\ run' = [run EXCEPT !.step = "registrations", !.todo = b]
           /\ session' = "ready" /\ UNCHANGED faults
  <2>1. \A c \in b : c \in Certs /\ notAfter(c) <= Right(run.group) /\ NotNagged(c, run.group)
    BY Zenon DEF Selections, Expiring
  <2>2. /\ run' \in Runs /\ run'.step = "registrations" /\ run'.todo = b
        /\ run'.group = run.group /\ run'.current = {}
    BY Zenon, <1>1, <1>4, <2>1 DEF Runs
  <2>3. TypeOK'
    BY Zenon, <1>1, <1>4, <2>2 DEF Inv, TypeOK
  <2>4. /\ \A c \in Certs : notAfter(c)' = notAfter(c)
        /\ \A c \in Certs, g \in Groups : NotNagged(c, g)' <=> NotNagged(c, g)
        /\ \A g \in Groups : Right(g)' = Right(g)
    BY Zenon, <1>1 DEF notAfter, NotNagged, Right
  <2>5. PassInv'
    BY Zenon, <1>1, <2>1, <2>2, <2>4 DEF Inv, PassInv, Working
  <2>6. CountInv'
    BY Zenon, <1>1, <1>4, <2>2, <2>4 DEF Inv, CountInv, Recorded
  <2> QED
    BY Zenon, <2>3, <2>5, <2>6 DEF Inv
<1> QED
  BY Zenon, <1>2, <1>3, <1>4

\* The renewed certificates are recorded as nagged; the others are at hand.
LEMMA ProcessRegistrationInv ==
    ASSUME Inv, NEW r \in Registrations, ProcessRegistration(r)
    PROVE  Inv'
<1>1. PICK misread \in SUBSET Owned(r), unmarked \in SUBSET (Owned(r) \cap renewed) :
          /\ Fault(Cardinality(misread) + Cardinality(unmarked))
          /\ MarkNagged((Owned(r) \ StillNeeded(Owned(r), misread)) \ unmarked)
          /\ IF StillNeeded(Owned(r), misread) = {} \/ scenario.contact[r] = "nil"
             THEN Proceed(run.todo \ Owned(r))
             ELSE /\ run' = [run EXCEPT !.current = StillNeeded(Owned(r), misread),
                            !.todo = @ \ Owned(r),
                            !.step = IF scenario.contact[r] = "mail" THEN "send" ELSE "mark"]
                  /\ UNCHANGED session
  BY Zenon DEF ProcessRegistration
<1> DEFINE own == Owned(r)
           needed == StillNeeded(own, misread)
           m == (own \ needed) \ unmarked
           todo == run.todo \ own
<1>2. /\ run.step = "registrations" /\ run \in Runs /\ run.group \in Groups
      /\ run.todo \subseteq Certs /\ own \subseteq run.todo /\ session # "closed"
      /\ UNCHANGED <<now, due, scenario, renewed, revoked, mails, crowded>>
  BY Zenon DEF ProcessRegistration, Inv, TypeOK, Runs, Owned
<1>3. needed \subseteq own /\ m \in SUBSET Certs /\ todo \in SUBSET run.todo /\ m \cap todo = {}
  BY Zenon, <1>2 DEF StillNeeded
<1>4. faults' \in 0 .. MaxFaults /\ faults' >= faults
  <2>1. Cardinality(misread) \in Nat /\ Cardinality(unmarked) \in Nat
    BY Zenon, <1>2, Counted
  <2> QED
    BY <1>1, <2>1, FaultOK DEF Inv
<1> HIDE DEF needed, own
<1>5. CASE Proceed(todo)
  <2>1. Goes(todo) /\ (run'.step = "registrations" => session' # "closed")
        /\ session' \in {"closed", "ready", "transaction"}
    BY Zenon, <1>2, <1>5, NextGroupOK DEF Proceed, Goes, Inv, TypeOK
  <2>2. /\ run' \in Runs /\ run'.step \in {"idle", "select", "registrations"}
        /\ lastNag' \in [Certs -> 0 .. MaxTime]
        /\ PassInv' /\ CountInv'
    BY <1>1, <1>2, <1>3, <1>4, <2>1, GoesOn DEF Working, needed, own
  <2>3. TypeOK'
    BY Zenon, <1>2, <1>4, <2>1, <2>2 DEF Inv, TypeOK
  <2> QED
    BY Zenon, <2>2, <2>3 DEF Inv
<1>6. CASE ~ Proceed(todo)
  <2> DEFINE step == IF scenario.contact[r] = "mail" THEN "send" ELSE "mark"
  <2>1. /\ run' = [run EXCEPT !.current = needed, !.todo = todo, !.step = step]
        /\ UNCHANGED session
    BY Zenon, <1>1, <1>2, <1>6 DEF needed, own
  <2>2. step \in {"send", "mark"}
    BY Zenon
  <2> HIDE DEF step
  <2>3. /\ run' \in Runs /\ run'.step = step /\ run'.group = run.group
        /\ run'.todo = todo /\ run'.current = needed
    BY Zenon, <1>2, <1>3, <2>1, <2>2 DEF Runs
  <2>4. /\ lastNag' \in [Certs -> 0 .. MaxTime]
        /\ \A c \in Certs : lastNag'[c] <= now
        /\ \A c \in Certs, g \in Groups :
              /\ NotNagged(c, g)' => NotNagged(c, g)
              /\ c \notin m => (NotNagged(c, g)' <=> NotNagged(c, g))
    BY Zenon, <1>1, <1>2, <1>3, MarkNaggedOK DEF Inv, needed, own
  <2>5. TypeOK'
    BY Zenon, <1>2, <1>4, <2>1, <2>3, <2>4 DEF Inv, TypeOK
  <2>6. /\ \A c \in Certs : notAfter(c)' = notAfter(c)
        /\ \A g \in Groups : Right(g)' = Right(g)
    BY Zenon, <1>2 DEF notAfter, Right
  <2>7. PassInv'
    BY Zenon, <1>2, <1>3, <2>2, <2>3, <2>4, <2>6 DEF Inv, PassInv, Working
  <2>8. ASSUME NEW c \in Certs, NEW g \in Groups
        PROVE  mails[c][g] <= faults' \/ (~ NotNagged(c, g)' /\ mails[c][g] <= 1 + faults')
    <3>1. /\ mails[c][g] \in Nat /\ faults \in Nat /\ faults' \in Nat
          /\ mails[c][g] <= faults \/ (Recorded(c, g) /\ mails[c][g] <= 1 + faults)
      BY <1>4, Times DEF Inv, TypeOK, CountInv
    <3>2. Recorded(c, g) => ~ NotNagged(c, g)'
      BY Zenon, <1>2, <2>4 DEF Recorded
    <3> QED
      BY <1>4, <3>1, <3>2
  <2>9. CountInv'
    BY Zenon, <1>2, <2>8 DEF CountInv, Recorded
  <2> QED
    BY Zenon, <2>5, <2>7, <2>9 DEF Inv
<1> QED
  BY Zenon, <1>5, <1>6

\* A registration that cannot be read is left out; that is a failure.
LEMMA RegistrationUnreadInv ==
    ASSUME Inv, NEW r \in Registrations, RegistrationUnread(r)
    PROVE  Inv'
<1> DEFINE todo == run.todo \ Owned(r)
<1>1. /\ run.step = "registrations" /\ session # "closed" /\ Fault(1) /\ Proceed(todo)
      /\ UNCHANGED <<now, due, scenario, lastNag, renewed, revoked, mails, crowded>>
  BY Zenon DEF RegistrationUnread, Inv, TypeOK, database
<1>2. /\ faults' \in 0 .. MaxFaults /\ faults' >= faults /\ MarkNagged({})
      /\ todo \in SUBSET run.todo
  BY Zenon, <1>1, FaultOK, NothingMarked DEF Inv
<1> HIDE DEF todo
<1>3. Goes(todo) /\ (run'.step = "registrations" => session' # "closed")
      /\ session' \in {"closed", "ready", "transaction"}
  BY Zenon, <1>1, NextGroupOK DEF Proceed, Goes, Inv, TypeOK
<1>4. /\ run' \in Runs /\ run'.step \in {"idle", "select", "registrations"}
      /\ PassInv' /\ CountInv'
  BY <1>1, <1>2, <1>3, GoesOn DEF Working
<1>5. TypeOK'
  BY Zenon, <1>1, <1>2, <1>3, <1>4 DEF Inv, TypeOK
<1> QED
  BY Zenon, <1>4, <1>5 DEF Inv

\* The server takes a mail: one more for each of the certificates at hand.
LEMMA TakenOK ==
    ASSUME TypeOK, Taken
    PROVE  /\ mails' \in [Certs -> [Groups -> Nat]]
           /\ \A c \in Certs, g \in Groups :
                mails'[c][g] = IF c \in run.current /\ g = run.group
                               THEN mails[c][g] + 1 ELSE mails[c][g]
<1>1. /\ mails \in [Certs -> [Groups -> Nat]] /\ run.group \in Groups
      /\ mails' = [c \in Certs |-> IF c \in run.current
                        THEN [mails[c] EXCEPT ![run.group] = mails[c][run.group] + 1] ELSE mails[c]]
  BY Zenon DEF TypeOK, Runs, Taken
<1>2. ASSUME NEW c \in Certs
      PROVE  /\ mails'[c] \in [Groups -> Nat]
             /\ \A g \in Groups :
                  mails'[c][g] = IF c \in run.current /\ g = run.group
                                 THEN mails[c][g] + 1 ELSE mails[c][g]
  <2>1. mails[c] \in [Groups -> Nat]
    BY Zenon, <1>1
  <2>2. mails'[c] = IF c \in run.current
                    THEN [mails[c] EXCEPT ![run.group] = mails[c][run.group] + 1] ELSE mails[c]
    BY Zenon, <1>1
  <2> QED
    BY <1>1, <2>1, <2>2
<1>3. mails' = [c \in Certs |-> mails'[c]]
  BY Zenon, <1>1
<1> QED
  BY Zenon, <1>2, <1>3

\* The mail is sent once, and recorded next.
LEMMA SendAcceptedInv == ASSUME Inv, SendAccepted PROVE Inv'
<1>1. /\ run.step = "send" /\ run \in Runs /\ Taken /\ session = "ready"
      /\ run' = [run EXCEPT !.step = "mark"]
      /\ UNCHANGED <<now, due, scenario, lastNag, renewed, revoked, session, faults, crowded>>
  BY Zenon DEF SendAccepted, database, Inv, TypeOK
<1>2. /\ run' \in Runs /\ run'.step = "mark" /\ run'.group = run.group
      /\ run'.todo = run.todo /\ run'.current = run.current
      /\ run.group \in Groups /\ run.todo \subseteq Certs /\ run.current \subseteq Certs
  BY Zenon, <1>1 DEF Runs
<1>3. /\ mails' \in [Certs -> [Groups -> Nat]]
      /\ \A c \in Certs, g \in Groups :
           mails'[c][g] = IF c \in run.current /\ g = run.group
                          THEN mails[c][g] + 1 ELSE mails[c][g]
  BY Zenon, <1>1, TakenOK DEF Inv
<1>4. TypeOK'
  BY Zenon, <1>1, <1>2, <1>3 DEF Inv, TypeOK
<1>5. /\ \A c \in Certs : notAfter(c)' = notAfter(c)
      /\ \A c \in Certs, g \in Groups : NotNagged(c, g)' <=> NotNagged(c, g)
      /\ \A g \in Groups : Right(g)' = Right(g)
  BY Zenon, <1>1 DEF notAfter, NotNagged, Right
<1>6. PassInv'
  BY Zenon, <1>1, <1>2, <1>5 DEF Inv, PassInv, Working
<1>7. ASSUME NEW c \in Certs, NEW g \in Groups
      PROVE  mails'[c][g] <= faults \/ (Recorded(c, g)' /\ mails'[c][g] <= 1 + faults)
  <2>1. /\ mails[c][g] \in Nat /\ faults \in Nat
        /\ mails[c][g] <= faults \/ (Recorded(c, g) /\ mails[c][g] <= 1 + faults)
    BY Zenon, Times DEF Inv, TypeOK, CountInv
  <2>2. CASE c \in run.current /\ g = run.group
    <3>1. mails[c][g] <= faults
      BY Zenon, <1>1, <2>1, <2>2 DEF Inv, PassInv, Recorded
    <3>2. Recorded(c, g)'
      BY Zenon, <1>2, <2>2 DEF Recorded
    <3> QED
      BY <1>3, <2>1, <2>2, <3>1, <3>2
  <2>3. CASE ~ (c \in run.current /\ g = run.group)
    BY Zenon, <1>1, <1>3, <1>5, <2>1, <2>3 DEF Recorded
  <2> QED
    BY Zenon, <2>2, <2>3
<1>8. CountInv'
  BY Zenon, <1>1, <1>7 DEF CountInv
<1> QED
  BY Zenon, <1>4, <1>6, <1>8 DEF Inv

\* A connection that breaks is a failure: the mail may have been taken.
LEMMA SendInterruptedInv == ASSUME Inv, SendInterrupted PROVE Inv'
<1>1. /\ run.step = "send" /\ run \in Runs /\ Fault(1) /\ session' = "ready"
      /\ Taken \/ mails' = mails
      /\ UNCHANGED <<now, due, scenario, lastNag, renewed, revoked, run, crowded>>
  BY Zenon DEF SendInterrupted, database, Inv, TypeOK
<1>2. faults' \in 0 .. MaxFaults /\ faults' > faults /\ faults' \in Nat
  BY <1>1, FaultOK DEF Inv
<1>3. /\ mails' \in [Certs -> [Groups -> Nat]]
      /\ \A c \in Certs, g \in Groups :
           \/ mails'[c][g] = mails[c][g]
           \/ c \in run.current /\ g = run.group /\ mails'[c][g] = mails[c][g] + 1
  BY Zenon, <1>1, TakenOK DEF Inv, TypeOK
<1>4. TypeOK'
  BY Zenon, <1>1, <1>2, <1>3 DEF Inv, TypeOK
<1>5. /\ \A c \in Certs : notAfter(c)' = notAfter(c)
      /\ \A c \in Certs, g \in Groups : NotNagged(c, g)' <=> NotNagged(c, g)
      /\ \A g \in Groups : Right(g)' = Right(g)
      /\ run.group \in Groups /\ run.todo \subseteq Certs /\ run.current \subseteq Certs
  BY Zenon, <1>1 DEF notAfter, NotNagged, Right, Runs
<1>6. PassInv'
  BY Zenon, <1>1, <1>5 DEF Inv, PassInv, Working
<1>7. ASSUME NEW c \in Certs, NEW g \in Groups PROVE mails'[c][g] <= faults'
  <2>1. /\ mails[c][g] \in Nat /\ faults \in Nat
        /\ mails[c][g] <= faults \/ (Recorded(c, g) /\ mails[c][g] <= 1 + faults)
    BY Zenon, Times DEF Inv, TypeOK, CountInv
  <2>2. CASE mails'[c][g] = mails[c][g]
    BY <1>2, <2>1, <2>2
  <2>3. CASE c \in run.current /\ g = run.group /\ mails'[c][g] = mails[c][g] + 1
    <3>1. mails[c][g] <= faults
      BY Zenon, <1>1, <2>1, <2>3 DEF Inv, PassInv, Recorded
    <3> QED
      BY <1>2, <2>1, <2>3, <3>1
  <2> QED
    BY Zenon, <1>3, <2>2, <2>3
<1>8. CountInv'
  BY Zenon, <1>7 DEF CountInv
<1> QED
  BY Zenon, <1>4, <1>6, <1>8 DEF Inv

\* A mail that is not taken leaves its certificates unrecorded.
LEMMA SendFailsInv == ASSUME Inv, SendRefused \/ SendOutOfOrder PROVE Inv'
<1>1. /\ run.step = "send" /\ session # "closed" /\ run \in Runs
      /\ Fault(1) \/ faults' = faults
      /\ UNCHANGED <<now, due, scenario, lastNag, renewed, revoked, mails, crowded>>
  BY Zenon DEF SendRefused, SendOutOfOrder, Inv, TypeOK, database, history
<1>2. /\ faults' \in 0 .. MaxFaults /\ faults' >= faults /\ MarkNagged({})
      /\ run.todo \in SUBSET run.todo
  BY <1>1, FaultOK, NothingMarked DEF Inv, TypeOK
<1>3. Goes(run.todo) /\ (run'.step = "registrations" => session' # "closed")
      /\ session' \in {"closed", "ready", "transaction"}
  <2>1. CASE SendRefused
    <3>1. [run EXCEPT !.step = "registrations", !.current = {}]
            = [run EXCEPT !.step = "registrations", !.todo = run.todo, !.current = {}]
      BY Zenon, <1>1 DEF Runs
    <3> QED
      BY Zenon, <1>1, <2>1, <3>1, NextGroupOK DEF SendRefused, Goes, Inv
  <2>2. CASE SendOutOfOrder
    BY Zenon, <1>1, <2>2, NextGroupOK DEF SendOutOfOrder, Proceed, Goes, Inv, TypeOK
  <2> QED
    BY Zenon, <2>1, <2>2
<1>4. /\ run' \in Runs /\ run'.step \in {"idle", "select", "registrations"}
      /\ PassInv' /\ CountInv'
  BY <1>1, <1>2, <1>3, GoesOn DEF Working
<1>5. TypeOK'
  BY Zenon, <1>1, <1>2, <1>3, <1>4 DEF Inv, TypeOK
<1> QED
  BY Zenon, <1>4, <1>5 DEF Inv

\* The nags are recorded, but for the updates that fail.
LEMMA UpdateCertStatusInv == ASSUME Inv, UpdateCertStatus PROVE Inv'
<1>1. /\ run.step = "mark" /\ session # "closed" /\ Proceed(run.todo)
      /\ run.current \subseteq Certs /\ run.current \cap run.todo = {}
      /\ UNCHANGED <<now, due, scenario, renewed, revoked, mails, crowded>>
  BY Zenon DEF UpdateCertStatus, Inv, TypeOK, Runs, PassInv
<1>2. PICK failed \in SUBSET run.current :
          Fault(Cardinality(failed)) /\ MarkNagged(run.current \ failed)
  BY Zenon DEF UpdateCertStatus
<1> DEFINE m == run.current \ failed
<1>3. /\ faults' \in 0 .. MaxFaults /\ faults' >= faults
      /\ \A c \in run.current : c \in m \/ faults' > faults
  <2>1. Cardinality(failed) \in Nat /\ (failed # {} => Cardinality(failed) > 0)
    BY Zenon, <1>1, Counted
  <2>2. faults' \in 0 .. MaxFaults /\ faults' >= faults /\ (failed # {} => faults' > faults)
    BY Zenon, <1>2, <2>1, FaultOK DEF Inv
  <2> QED
    BY Zenon, <2>2
<1>4. m \in SUBSET Certs /\ m \cap run.todo = {} /\ MarkNagged(m)
  BY Zenon, <1>1, <1>2
<1> HIDE DEF m
<1>5. Goes(run.todo) /\ (run'.step = "registrations" => session' # "closed")
      /\ session' \in {"closed", "ready", "transaction"}
  BY Zenon, <1>1, NextGroupOK DEF Proceed, Goes, Inv, TypeOK
<1>6. /\ run' \in Runs /\ run'.step \in {"idle", "select", "registrations"}
      /\ lastNag' \in [Certs -> 0 .. MaxTime]
      /\ PassInv' /\ CountInv'
  BY <1>1, <1>3, <1>4, <1>5, GoesOn DEF Working
<1>7. TypeOK'
  BY Zenon, <1>1, <1>3, <1>5, <1>6 DEF Inv, TypeOK
<1> QED
  BY Zenon, <1>6, <1>7 DEF Inv

\* The process dies, which is a failure.
LEMMA CrashInv == ASSUME Inv, Crash PROVE Inv'
<1>1. /\ Fault(1) /\ run' = Idle /\ session' = "closed"
      /\ UNCHANGED <<now, due, scenario, lastNag, renewed, revoked, mails, crowded>>
  BY Zenon DEF Crash, database
<1>2. run' \in Runs /\ run'.step = "idle" /\ run'.current = {}
  BY Zenon, <1>1, Times DEF Idle, Runs, Inv
<1>3. faults' \in 0 .. MaxFaults /\ faults' > faults /\ faults' \in Nat /\ faults \in Nat
  BY <1>1, FaultOK, Times DEF Inv
<1>4. TypeOK'
  BY Zenon, <1>1, <1>2, <1>3 DEF Inv, TypeOK
<1>5. PassInv' /\ CountInv'
  BY <1>1, <1>2, <1>3, Times, BreaksOff DEF Inv
<1> QED
  BY Zenon, <1>4, <1>5 DEF Inv

\* Certificates are renewed and revoked.
LEMMA OthersInv == ASSUME Inv, NEW c \in Certs, Renew(c) \/ Revoke(c) PROVE Inv'
<1>1. /\ UNCHANGED <<now, due, scenario, lastNag, run, session, mails, faults, crowded>>
      /\ renewed' \cup revoked' \subseteq Certs
  BY Zenon DEF Renew, Revoke, history, Inv, TypeOK
<1>2. TypeOK'
  BY Zenon, <1>1 DEF Inv, TypeOK
<1> QED
  BY Zenon, <1>1, <1>2, SameRun DEF Inv

\* Time passes between the passes.
LEMMA TickInv == ASSUME Inv, Tick PROVE Inv'
<1>1. /\ run.step = "idle" /\ now < MaxTime /\ now' = now + 1 /\ due' = TRUE
      /\ Fault(1) \/ faults' = faults
      /\ UNCHANGED <<scenario, lastNag, renewed, revoked, run, session, mails, crowded>>
  BY Zenon DEF Tick, database
<1>2. faults' \in 0 .. MaxFaults /\ faults' >= faults
  BY <1>1, FaultOK DEF Inv, TypeOK
<1>3. now' \in 1 .. MaxTime /\ now' >= now /\ now' \in Nat
  BY MailerAssumption, <1>1 DEF Inv, TypeOK
<1>4. TypeOK'
  BY Zenon, <1>1, <1>2, <1>3 DEF Inv, TypeOK
<1>5. run' \in Runs /\ run'.current = {}
  BY Zenon, <1>1 DEF Inv, TypeOK, PassInv, Working
<1>6. PassInv' /\ CountInv'
  BY <1>1, <1>2, <1>3, <1>5, BreaksOff DEF Working
<1> QED
  BY Zenon, <1>4, <1>6 DEF Inv

\* Every step keeps the invariant.
LEMMA NextInv == Inv /\ [Next]_vars => Inv'
<1> SUFFICES ASSUME Inv, [Next]_vars PROVE Inv'
  BY Zenon
<1>1. CASE UNCHANGED vars
  <2>1. TypeOK'
    BY Zenon, <1>1 DEF vars, Inv, TypeOK
  <2> QED
    BY Zenon, <1>1, <2>1, SameRun DEF vars, Inv
<1> QED
  BY Zenon, <1>1, FindInv, SelectInv, ProcessRegistrationInv, RegistrationUnreadInv, SendAcceptedInv,
     SendInterruptedInv, SendFailsInv, UpdateCertStatusInv, CrashInv, OthersInv, TickInv DEF Next

-----------------------------------------------------------------------------

\* The invariant holds in every reachable state.
THEOREM Invariance == Spec => []Inv
<1>1. Init => Inv
  BY Zenon, InitInv
<1>2. Inv /\ [Next]_vars => Inv'
  BY Zenon, NextInv
<1> QED
  BY <1>1, <1>2, PTL DEF Spec

\* The columns, the process and the session keep their types.
THEOREM TypeCorrectness == Spec => []TypeOK
<1>1. Inv => TypeOK
  BY Zenon DEF Inv
<1> QED
  BY <1>1, Invariance, PTL

\* An account gets at most one mail per certificate and group, and one more
\* per failure.
THEOREM NagsAreBounded == Spec => []NagsBounded
<1>1. ASSUME Inv PROVE NagsBounded
  <2> SUFFICES ASSUME NEW c \in Certs, NEW g \in Groups PROVE mails[c][g] <= 1 + faults
    BY Zenon DEF NagsBounded
  <2>1. /\ mails[c][g] \in Nat /\ faults \in Nat
        /\ mails[c][g] <= faults \/ mails[c][g] <= 1 + faults
    BY Zenon, <1>1, Times DEF Inv, TypeOK, CountInv
  <2> QED
    BY <2>1
<1> QED
  BY <1>1, Invariance, PTL

-----------------------------------------------------------------------------
\* That every account is nagged in time.

\* The near end of a group's window.
Near(g) == IF g = 1 THEN 0 ELSE NagTimes[g - 1]

\* A certificate that waits for the mail of a group.
Missing(c, g) ==
    /\ ~ crowded
    /\ c \notin renewed \cup revoked /\ scenario.contact[scenario.owner[c]] = "mail"
    /\ notAfter(c) - NagTimes[g] >= 1
    /\ mails[c][g] = 0

\* No nag is recorded that the group's query would take for its own.
Unspoiled(c, g) ==
    \/ lastNag[c] = 0
    \/ notAfter(c) - lastNag[c] > NagTimes[g]
    \/ notAfter(c) - lastNag[c] <= Near(g)

\* Every pass of the window, n of them in the current tick, cost a failure.
Costs(c, g, n) ==
    now - (notAfter(c) - NagTimes[g]) + n <= faults \/ Width(g) <= faults

\* The tick's pass does nothing for the certificate in that group any more.
Over(c, g) ==
    \/ run.step = "idle" /\ ~ due
    \/ run.step # "idle" /\ g < run.group
    \/ /\ Working /\ g = run.group
       /\ c \notin run.todo \cup run.current \/ session = "transaction"

WindowInv ==
    /\ run.step # "idle" => ~ due
    /\ run.step = "registrations" => run.current = {}
    /\ Working => \A c \in run.todo \cup run.current : notAfter(c) > Left(run.group)
    /\ run.step = "mark" => \A c \in run.current :
          scenario.contact[scenario.owner[c]] = "mail" => mails[c][run.group] >= 1

Timely(c, g) ==
    Missing(c, g) => /\ Unspoiled(c, g) /\ Costs(c, g, 0)
                     /\ Over(c, g) => Costs(c, g, 1)

TimelyInv == \A c \in Certs, g \in Groups : Timely(c, g)

Timed == WindowInv /\ TimelyInv

\* The windows of the groups follow one another.
LEMMA Windows ==
    ASSUME TypeOK
    PROVE  /\ \A g \in Groups : /\ g \in Nat /\ Near(g) \in Nat /\ NagTimes[g] \in Nat
                                /\ Left(g) = now + Near(g) /\ Right(g) = now + NagTimes[g]
                                /\ Width(g) = NagTimes[g] - Near(g)
           /\ \A g, h \in Groups : g < h => NagTimes[g] <= Near(h)
<1>1. ASSUME NEW g \in Groups
      PROVE  g \in 1 .. Len(NagTimes) /\ NagTimes[g] \in Nat /\ (g # 1 => g - 1 \in Groups)
  BY MailerAssumption DEF Groups
<1>2. \A g \in Groups : /\ g \in Nat /\ Near(g) \in Nat /\ NagTimes[g] \in Nat
                        /\ Left(g) = now + Near(g) /\ Right(g) = now + NagTimes[g]
                        /\ Width(g) = NagTimes[g] - Near(g)
  BY <1>1 DEF Near, Left, Right, Width
<1>3. ASSUME NEW g \in Groups, NEW h \in Groups, g < h PROVE NagTimes[g] <= Near(h)
  <2>0. Len(NagTimes) \in Nat /\ g \in 1 .. Len(NagTimes) /\ h \in 1 .. Len(NagTimes)
    BY <1>1
  <2>1. h # 1 /\ h - 1 \in Groups /\ g <= h - 1 /\ g \in Int /\ h \in Int
    BY <1>1, <1>3, <2>0
  <2>2. NagTimes[g] \in Nat /\ NagTimes[h - 1] \in Nat /\ Near(h) = NagTimes[h - 1]
    BY Zenon, <1>1, <2>1 DEF Near
  <2>3. g = h - 1 \/ g < h - 1
    BY <2>1
  <2> QED
    BY MailerAssumption, <2>1, <2>2, <2>3 DEF Groups
<1> QED
  BY Zenon, <1>2, <1>3

\* Waiting does not begin again.
LEMMA WaitedBefore ==
    ASSUME NEW c \in Certs, NEW g \in Groups, Missing(c, g)', crowded => crowded',
           renewed \subseteq renewed', revoked \subseteq revoked', scenario' = scenario,
           mails[c][g] \in Nat, mails'[c][g] \in Nat, mails'[c][g] >= mails[c][g]
    PROVE  Missing(c, g)
BY DEF Missing, notAfter

\* Within a tick the costs stay paid, and a failure pays for the pass.
LEMMA Paid ==
    ASSUME TypeOK, NEW c \in Certs, NEW g \in Groups, UNCHANGED <<now, scenario>>,
           faults' \in Nat, faults' >= faults
    PROVE  /\ Costs(c, g, 0) => Costs(c, g, 0)'
           /\ Costs(c, g, 1) => Costs(c, g, 1)'
           /\ Costs(c, g, 0) /\ faults' > faults => Costs(c, g, 1)'
<1>1. /\ notAfter(c) \in Nat /\ NagTimes[g] \in Nat /\ now \in Nat /\ faults \in Nat
      /\ Width(g) \in Int /\ notAfter(c)' = notAfter(c)
  BY Times, Windows DEF notAfter
<1> QED
  BY <1>1 DEF Costs

\* A step within a tick that records no nag and takes no mail back, for a
\* certificate that was over before, or that a failure makes so.
LEMMA Waits ==
    ASSUME Inv, NEW c \in Certs, NEW g \in Groups, Timely(c, g),
           UNCHANGED <<now, scenario>>,
           Missing(c, g)' => lastNag'[c] = lastNag[c] \/ Unspoiled(c, g)',
           crowded => crowded', renewed \subseteq renewed', revoked \subseteq revoked',
           faults' \in Nat, faults' >= faults,
           mails'[c][g] \in Nat, mails'[c][g] >= mails[c][g],
           Missing(c, g)' => (Over(c, g)' => Over(c, g) \/ faults' > faults \/ Costs(c, g, 1))
    PROVE  Timely(c, g)'
<1> SUFFICES ASSUME Missing(c, g)'
             PROVE  (Unspoiled(c, g) /\ Costs(c, g, 0) /\ (Over(c, g) => Costs(c, g, 1)))'
  BY Zenon DEF Timely
<1>1. Missing(c, g)
  BY Zenon, WaitedBefore DEF Inv, TypeOK
<1>2. Unspoiled(c, g) /\ Costs(c, g, 0) /\ (Over(c, g) => Costs(c, g, 1))
  BY Zenon, <1>1 DEF Timely
<1>3. Unspoiled(c, g)'
  BY Zenon, <1>2 DEF Unspoiled, notAfter
<1>4. Costs(c, g, 0)' /\ (Over(c, g)' => Costs(c, g, 1)')
  BY Zenon, <1>2, Paid DEF Inv
<1> QED
  BY Zenon, <1>3, <1>4

\* What the process does next, in terms of the groups that are over.
LEMMA NextGroupOver ==
    ASSUME TypeOK, run' = NextGroup, due' = FALSE
    PROVE  \A c \in Certs, g \in Groups : Over(c, g)' => g <= run.group
<1>1. run.group \in Nat /\ \A g \in Groups : g \in Nat /\ g <= Len(NagTimes)
  BY MailerAssumption DEF TypeOK, Runs, Groups
<1>2. CASE run.group < Len(NagTimes)
  <2> DEFINE h == run.group + 1
  <2>1. run' = [run EXCEPT !.step = "select", !.group = h, !.todo = {}, !.current = {}]
    BY Zenon, <1>2 DEF NextGroup
  <2>2. run \in Runs /\ h \in Nat
    BY <1>1 DEF TypeOK
  <2> HIDE DEF h
  <2>3. run'.step = "select" /\ run'.group = h
    BY Zenon, <2>1, <2>2 DEF Runs
  <2> QED
    BY <1>1, <2>3 DEF Over, Working, h
<1>3. CASE ~ (run.group < Len(NagTimes))
  BY <1>1, <1>3
<1> QED
  BY Zenon, <1>2, <1>3

-----------------------------------------------------------------------------
\* Again one lemma per action of Next.

\* In the beginning no window has had a pass.
LEMMA InitTimed == Init => Timed
<1> SUFFICES ASSUME Init PROVE Timed
  BY Zenon
<1>1. Inv /\ run = Idle /\ run.step = "idle" /\ due = TRUE /\ now = 1 /\ faults = 0
  BY Zenon, InitInv DEF Init, Idle
<1>2. WindowInv
  BY Zenon, <1>1 DEF WindowInv, Working
<1>3. ASSUME NEW c \in Certs, NEW g \in Groups, Missing(c, g)
      PROVE  Unspoiled(c, g) /\ Costs(c, g, 0) /\ ~ Over(c, g)
  <2>1. notAfter(c) \in Nat /\ NagTimes[g] \in Nat /\ lastNag[c] = 0
    BY Zenon, <1>1, Times DEF Inv, Init
  <2>2. Costs(c, g, 0)
    BY <1>1, <1>3, <2>1 DEF Costs, Missing
  <2>3. ~ Over(c, g)
    BY Zenon, <1>1 DEF Over, Working
  <2> QED
    BY Zenon, <2>1, <2>2, <2>3 DEF Unspoiled
<1>4. TimelyInv
  BY Zenon, <1>3 DEF TimelyInv, Timely
<1> QED
  BY Zenon, <1>2, <1>4 DEF Timed

\* A pass has done nothing when it begins.
LEMMA FindTimed == ASSUME Inv, Timed, FindExpiringCertificates, Inv' PROVE Timed'
<1>1. /\ run' = [Idle EXCEPT !.step = "select"] /\ due' = FALSE /\ run.step = "idle"
      /\ UNCHANGED <<now, scenario, lastNag, renewed, revoked, session, mails, faults, crowded>>
  BY Zenon DEF FindExpiringCertificates, database, history
<1>2. run'.step = "select" /\ run'.group = 1
  BY Zenon, <1>1 DEF Idle
<1>3. WindowInv'
  BY Zenon, <1>1, <1>2 DEF WindowInv, Working
<1>4. ASSUME NEW c \in Certs, NEW g \in Groups PROVE Timely(c, g)'
  <2>1. ~ Over(c, g)'
    BY MailerAssumption, <1>2, Windows DEF Over, Working, Inv, Groups
  <2>2. mails[c][g] \in Nat /\ faults \in Nat /\ Timely(c, g)
    BY Zenon, Times DEF Inv, TypeOK, Timed, TimelyInv
  <2> QED
    BY <1>1, <2>1, <2>2, Waits
<1>5. TimelyInv'
  BY Zenon, <1>4 DEF TimelyInv
<1> QED
  BY Zenon, <1>3, <1>5 DEF Timed

\* A window that lies in the past has been as wide as its passes.
LEMMA PassedWindow ==
    ASSUME NEW x \in Nat, NEW nag \in Nat, NEW near \in Nat, NEW time \in Nat, NEW f \in Nat,
           NEW width, width = nag - near, x <= time + near,
           time - (x - nag) + 0 <= f \/ width <= f
    PROVE  width <= f
OBVIOUS

\* A window that lies in the future has had no pass.
LEMMA FutureWindow ==
    ASSUME NEW x \in Nat, NEW nag \in Nat, NEW time \in Nat, NEW f \in Nat, x > time + nag
    PROVE  time - (x - nag) + 1 <= f
OBVIOUS

\* A failure pays for one more pass.
LEMMA PaidByFault ==
    ASSUME NEW x \in Nat, NEW nag \in Nat, NEW time \in Nat, NEW f \in Nat, NEW more \in Nat,
           NEW width \in Int, more > f, time - (x - nag) + 0 <= f \/ width <= f,
           NEW next, next = time + 1, NEW y, y = x, NEW w, w = width
    PROVE  next - (y - nag) + 0 <= more \/ w <= more
OBVIOUS

\* A certificate that waits and is not selected, although the limit is not
\* exceeded, is outside the window.
LEMMA NotSelected ==
    ASSUME Inv, NEW c \in Certs, NEW g \in Groups, Timely(c, g), Missing(c, g),
           Cardinality(Expiring(g)) <= scenario.limit,
           NEW b \in Selections(Expiring(g)), c \notin b
    PROVE  Costs(c, g, 1)
<1> DEFINE found == Expiring(g)
<1>1. b = found
  <2>1. /\ b \subseteq found /\ (b # found => Cardinality(b) = scenario.limit)
        /\ scenario.limit \in Nat /\ found \subseteq Certs
    BY Zenon, MailerAssumption DEF Selections, Expiring, Inv, TypeOK
  <2> HIDE DEF found
  <2>2. IsFiniteSet(found) /\ Cardinality(found) \in Nat
    BY Zenon, MailerAssumption, <2>1, FS_Subset, FS_CardinalityType
  <2>3. Cardinality(b) <= Cardinality(found) /\ (Cardinality(b) = Cardinality(found) => b = found)
    BY Zenon, <2>1, <2>2, FS_Subset
  <2>4. Cardinality(found) <= scenario.limit
    BY Zenon DEF found
  <2> QED
    BY <2>1, <2>2, <2>3, <2>4
<1>2. /\ ~ (notAfter(c) > Left(g) /\ notAfter(c) <= Right(g) /\ NotNagged(c, g))
      /\ Unspoiled(c, g) /\ Costs(c, g, 0) /\ lastNag[c] <= now
  BY Zenon, <1>1 DEF Expiring, Missing, Timely, Inv, PassInv
<1>3. /\ notAfter(c) \in Nat /\ NagTimes[g] \in Nat /\ now \in Nat /\ faults \in Nat
      /\ lastNag[c] \in Nat /\ Near(g) \in Nat
      /\ Left(g) = now + Near(g) /\ Right(g) = now + NagTimes[g]
      /\ Width(g) = NagTimes[g] - Near(g)
  BY Zenon, Times, Windows DEF Inv
<1>4. notAfter(c) <= now + Near(g) \/ notAfter(c) > now + NagTimes[g]
  BY <1>2, <1>3 DEF NotNagged, Unspoiled
<1>5. CASE notAfter(c) <= now + Near(g)
  <2>1. now - (notAfter(c) - NagTimes[g]) + 0 <= faults \/ Width(g) <= faults
    BY Zenon, <1>2 DEF Costs
  <2>2. Width(g) <= faults
    BY Zenon, <1>3, <1>5, <2>1, PassedWindow
  <2> QED
    BY <2>2, Zenon DEF Costs
<1>6. CASE notAfter(c) > now + NagTimes[g]
  <2>1. now - (notAfter(c) - NagTimes[g]) + 1 <= faults
    BY Zenon, <1>3, <1>6, FutureWindow
  <2> QED
    BY <2>1, Zenon DEF Costs
<1> QED
  BY Zenon, <1>4, <1>5, <1>6

\* The selection of a group.
LEMMA SelectTimed == ASSUME Inv, Timed, Select, Inv' PROVE Timed'
<1>1. /\ run.step = "select" /\ run \in Runs /\ run.group \in Groups /\ run.current = {}
      /\ UNCHANGED <<now, due, scenario, lastNag, renewed, revoked, mails>>
      /\ crowded' = (crowded \/ Cardinality(Expiring(run.group)) > scenario.limit)
      /\ due = FALSE /\ scenario.limit \in Nat
      /\ Cardinality(Expiring(run.group)) \in Nat
  <2>1. Expiring(run.group) \in SUBSET Certs
    BY Zenon DEF Expiring
  <2> QED
    BY Zenon, MailerAssumption, <2>1, Counted
       DEF Select, database, Inv, TypeOK, Runs, PassInv, Working, Timed, WindowInv
<1>2. PICK b \in Selections(Expiring(run.group)) :
        \/ b = {} /\ run' = NextGroup /\ UNCHANGED <<session, faults>>
        \/ /\ run' = [run EXCEPT !.step = "registrations", !.todo = b]
           /\ session' = "ready" /\ UNCHANGED faults
        \/ run' = NextGroup /\ Fault(1) /\ UNCHANGED session
  BY Zenon DEF Select
<1>3. ASSUME NEW c \in Certs, NEW g \in Groups,
             Missing(c, g)' => (Over(c, g)' => Over(c, g) \/ faults' > faults \/ Costs(c, g, 1))
      PROVE  Timely(c, g)'
  <2>1. mails[c][g] \in Nat /\ faults \in Nat /\ Timely(c, g)
    BY Zenon, Times DEF Inv, TypeOK, Timed, TimelyInv
  <2>2. faults' \in Nat /\ faults' >= faults
    <3>1. CASE Fault(1)
      BY <3>1, FaultOK DEF Inv
    <3> QED
      BY <1>2, <2>1, <3>1
  <2>3. crowded => crowded'
    BY <1>1, Zenon
  <2>4. mails'[c][g] \in Nat /\ mails'[c][g] >= mails[c][g] /\ lastNag'[c] = lastNag[c]
    BY <1>1, <2>1
  <2> QED
    BY Zenon, <1>1, <1>3, <2>1, <2>2, <2>3, <2>4, Waits
<1>4. ASSUME NEW c \in Certs, NEW g \in Groups, g = run.group, Missing(c, g)', c \notin b
      PROVE  Costs(c, g, 1)
  <2>1. ~ crowded'
    BY Zenon, <1>4 DEF Missing
  <2>2. ~ crowded /\ ~ (Cardinality(Expiring(run.group)) > scenario.limit)
    BY <1>1, <2>1, Zenon
  <2>3. Cardinality(Expiring(g)) <= scenario.limit
    BY <1>1, <1>4, <2>2
  <2>4. mails[c][g] \in Nat /\ mails' = mails /\ Timely(c, g)
    BY Zenon, <1>1 DEF Inv, TypeOK, Timed, TimelyInv
  <2>5. Missing(c, g)
    BY <1>1, <1>4, <2>2, <2>4, WaitedBefore
  <2> QED
    BY Zenon, <1>4, <2>3, <2>4, <2>5, NotSelected
<1>5. CASE run' = NextGroup /\ (b = {} \/ Fault(1))
  <2>1. run'.step \in {"idle", "select"}
    BY Zenon, <1>5, NextGroupOK DEF Inv
  <2>2. WindowInv'
    BY Zenon, <1>1, <2>1 DEF WindowInv, Working
  <2>3. ASSUME NEW c \in Certs, NEW g \in Groups, Missing(c, g)', Over(c, g)'
        PROVE  Over(c, g) \/ faults' > faults \/ Costs(c, g, 1)
    <3>0. g \in Nat /\ run.group \in Nat
      BY Zenon, <1>1, Windows DEF Inv
    <3>1. g <= run.group
      BY Zenon, <1>1, <1>5, <2>3, NextGroupOver DEF Inv
    <3>2. CASE g < run.group
      BY Zenon, <1>1, <3>2 DEF Over
    <3>3. CASE g = run.group /\ b = {}
      BY Zenon, <1>4, <2>3, <3>3
    <3>4. CASE Fault(1)
      BY <3>4, FaultOK DEF Inv
    <3> QED
      BY <1>5, <3>0, <3>1, <3>2, <3>3, <3>4
  <2>4. TimelyInv'
    BY Zenon, <1>3, <2>3 DEF TimelyInv
  <2> QED
    BY Zenon, <2>2, <2>4 DEF Timed
<1>6. CASE run' = [run EXCEPT !.step = "registrations", !.todo = b] /\ session' = "ready"
  <2>1. \A c \in b : c \in Certs /\ notAfter(c) > Left(run.group)
    BY Zenon DEF Selections, Expiring
  <2>2. /\ run'.step = "registrations" /\ run'.todo = b
        /\ run'.group = run.group /\ run'.current = {}
    BY Zenon, <1>1, <1>6, <2>1 DEF Runs
  <2>3. WindowInv'
    BY Zenon, <1>1, <2>1, <2>2 DEF WindowInv, Working, notAfter, Left
  <2>4. ASSUME NEW c \in Certs, NEW g \in Groups, Missing(c, g)', Over(c, g)'
        PROVE  Over(c, g) \/ Costs(c, g, 1)
    <3>1. g < run.group \/ (g = run.group /\ c \notin b)
      BY Zenon, <1>6, <2>2, <2>4 DEF Over, Working
    <3>2. CASE g < run.group
      BY Zenon, <1>1, <3>2 DEF Over
    <3>3. CASE g = run.group /\ c \notin b
      BY Zenon, <1>4, <2>4, <3>3
    <3> QED
      BY Zenon, <3>1, <3>2, <3>3
  <2>5. TimelyInv'
    BY Zenon, <1>3, <2>4 DEF TimelyInv
  <2> QED
    BY Zenon, <2>3, <2>5 DEF Timed
<1> QED
  BY Zenon, <1>2, <1>5, <1>6

\* A step within a tick for all certificates and groups.
LEMMA TimedStep ==
    ASSUME Inv, Timed, Inv', WindowInv', UNCHANGED <<now, scenario>>,
           crowded => crowded', renewed \subseteq renewed', revoked \subseteq revoked',
           faults' >= faults,
           mails' = mails \/ \A c \in Certs, g \in Groups : mails'[c][g] >= mails[c][g],
           \A c \in Certs, g \in Groups :
              Missing(c, g)' =>
                 /\ lastNag'[c] = lastNag[c] \/ Unspoiled(c, g)'
                 /\ Over(c, g)' => Over(c, g) \/ faults' > faults
    PROVE  Timed'
<1>1. ASSUME NEW c \in Certs, NEW g \in Groups PROVE Timely(c, g)'
  <2>1. /\ mails[c][g] \in Nat /\ mails'[c][g] \in Nat /\ Timely(c, g)
        /\ faults \in Nat /\ faults' \in Nat
    BY Times DEF Inv, TypeOK, Timed, TimelyInv
  <2>2. mails'[c][g] >= mails[c][g]
    BY <2>1
  <2> QED
    BY Zenon, <2>1, <2>2, Waits
<1> QED
  BY Zenon, <1>1 DEF TimelyInv, Timed

\* Going on to the next registration or group: the group is over for a
\* certificate that is left behind.
LEMMA GoesTimed ==
    ASSUME Inv, Timed, Inv', Working, NEW todo \in SUBSET run.todo,
           \/ run' = NextGroup /\ todo = {}
           \/ /\ run' = [run EXCEPT !.step = "registrations", !.todo = todo, !.current = {}]
              /\ session' = session \/ faults' > faults,
           UNCHANGED <<now, due, scenario, renewed, revoked, mails, crowded>>,
           faults' >= faults,
           \A c \in Certs, g \in Groups :
              Missing(c, g)' =>
                 /\ lastNag'[c] = lastNag[c] \/ Unspoiled(c, g)'
                 /\ g = run.group /\ c \in (run.todo \ todo) \cup run.current
                       => session = "transaction" \/ faults' > faults
    PROVE  Timed'
<1>1. /\ run \in Runs /\ run.group \in Groups /\ run.todo \subseteq Certs /\ due = FALSE
      /\ run.step # "idle" /\ run.group \in Nat
  BY Zenon, Windows DEF Inv, TypeOK, Runs, Timed, WindowInv, Working
<1>2. CASE run' = NextGroup /\ todo = {}
  <2>1. run'.step \in {"idle", "select"}
    BY Zenon, <1>2, NextGroupOK DEF Inv
  <2>2. WindowInv'
    BY Zenon, <1>1, <2>1 DEF WindowInv, Working
  <2>3. ASSUME NEW c \in Certs, NEW g \in Groups, Missing(c, g)', Over(c, g)'
        PROVE  Over(c, g) \/ faults' > faults
    <3>1. g \in Nat
      BY Zenon, Windows DEF Inv
    <3>2. g <= run.group
      BY Zenon, <1>1, <1>2, <2>3, NextGroupOver DEF Inv
    <3>3. CASE g < run.group
      BY Zenon, <1>1, <3>3 DEF Over
    <3>4. CASE g = run.group
      BY Zenon, <1>1, <1>2, <2>3, <3>4 DEF Over
    <3> QED
      BY <1>1, <3>1, <3>2, <3>3, <3>4
  <2> QED
    BY Zenon, <2>2, <2>3, TimedStep
<1>3. CASE /\ run' = [run EXCEPT !.step = "registrations", !.todo = todo, !.current = {}]
           /\ session' = session \/ faults' > faults
  <2>1. /\ run'.step = "registrations" /\ run'.todo = todo /\ run'.current = {}
        /\ run'.group = run.group
    BY Zenon, <1>1, <1>3 DEF Runs
  <2>2. WindowInv'
    BY Zenon, <1>1, <2>1 DEF WindowInv, Working, Timed, notAfter, Left
  <2>3. ASSUME NEW c \in Certs, NEW g \in Groups, Missing(c, g)', Over(c, g)'
        PROVE  Over(c, g) \/ faults' > faults
    <3>1. g < run.group \/ (g = run.group /\ (c \notin todo \/ session' = "transaction"))
      BY Zenon, <2>1, <2>3 DEF Over, Working
    <3>2. CASE g < run.group
      BY Zenon, <1>1, <3>2 DEF Over
    <3>3. CASE g = run.group /\ c \notin todo
      BY Zenon, <1>1, <2>3, <3>3 DEF Over
    <3>4. CASE g = run.group /\ session' = "transaction"
      BY Zenon, <1>1, <1>3, <3>4 DEF Over
    <3> QED
      BY Zenon, <3>1, <3>2, <3>3, <3>4
  <2> QED
    BY Zenon, <2>2, <2>3, TimedStep
<1> QED
  BY Zenon, <1>2, <1>3

\* The registrations of a group, one after the other: a certificate that is
\* left out is renewed, or its account has no contact.
LEMMA ProcessRegistrationTimed ==
    ASSUME Inv, Timed, NEW r \in Registrations, ProcessRegistration(r), Inv'
    PROVE  Timed'
<1>1. PICK misread \in SUBSET Owned(r), unmarked \in SUBSET (Owned(r) \cap renewed) :
          /\ Fault(Cardinality(misread) + Cardinality(unmarked))
          /\ MarkNagged((Owned(r) \ StillNeeded(Owned(r), misread)) \ unmarked)
          /\ IF StillNeeded(Owned(r), misread) = {} \/ scenario.contact[r] = "nil"
             THEN Proceed(run.todo \ Owned(r))
             ELSE /\ run' = [run EXCEPT !.current = StillNeeded(Owned(r), misread),
                            !.todo = @ \ Owned(r),
                            !.step = IF scenario.contact[r] = "mail" THEN "send" ELSE "mark"]
                  /\ UNCHANGED session
  BY Zenon DEF ProcessRegistration
<1> DEFINE own == Owned(r)
           needed == StillNeeded(own, misread)
           m == (own \ needed) \ unmarked
           todo == run.todo \ own
<1>2. /\ run.step = "registrations" /\ run \in Runs /\ run.group \in Groups
      /\ run.todo \subseteq Certs /\ own \subseteq run.todo /\ run.current = {} /\ due = FALSE
      /\ UNCHANGED <<now, due, scenario, renewed, revoked, mails, crowded>>
      /\ \A c \in own : scenario.owner[c] = r
  BY Zenon DEF ProcessRegistration, Inv, TypeOK, Runs, Owned, Timed, WindowInv
<1>3. /\ needed \subseteq own /\ own \ needed \subseteq renewed /\ todo \in SUBSET run.todo
      /\ m \subseteq renewed
  BY Zenon DEF StillNeeded
<1>4. faults' \in Nat /\ faults' >= faults
  <2>1. Cardinality(misread) \in Nat /\ Cardinality(unmarked) \in Nat
    BY Zenon, <1>2, Counted
  <2> QED
    BY <1>1, <2>1, FaultOK DEF Inv
<1>5. \A c \in Certs : c \notin renewed => lastNag'[c] = lastNag[c]
  BY Zenon, <1>1, <1>3 DEF MarkNagged
<1>6. CASE needed = {} \/ scenario.contact[r] = "nil"
  <2>1. Proceed(todo)
    BY Zenon, <1>1, <1>6
  <2>2. \A c \in Certs, g \in Groups :
           Missing(c, g)' => lastNag'[c] = lastNag[c] /\ c \notin own
    BY Zenon, <1>2, <1>3, <1>5, <1>6 DEF Missing
  <2> HIDE DEF needed, own
  <2>3. \A c \in Certs, g \in Groups :
           Missing(c, g)' => lastNag'[c] = lastNag[c]
                             /\ c \notin (run.todo \ todo) \cup run.current
    BY Zenon, <1>2, <2>2
  <2> HIDE DEF todo
  <2>4. \/ run' = NextGroup /\ todo = {}
        \/ /\ run' = [run EXCEPT !.step = "registrations", !.todo = todo, !.current = {}]
           /\ session' = session
    BY Zenon, <2>1 DEF Proceed
  <2> QED
    BY Zenon, <1>2, <1>3, <1>4, <2>3, <2>4, GoesTimed DEF Working
<1>7. CASE ~ (needed = {} \/ scenario.contact[r] = "nil")
  <2> DEFINE step == IF scenario.contact[r] = "mail" THEN "send" ELSE "mark"
  <2>1. /\ run' = [run EXCEPT !.current = needed, !.todo = todo, !.step = step]
        /\ session' = session
    BY Zenon, <1>1, <1>2, <1>7
  <2>2. step \in {"send", "mark"} /\ (step = "mark" => scenario.contact[r] # "mail")
    BY Zenon
  <2>3. \A c \in needed \cup todo : c \in run.todo
    BY Zenon, <1>2, <1>3
  <2>4. \A c \in Certs : c \in run.todo /\ c \notin needed \cup todo => c \in renewed
    BY Zenon, <1>3
  <2>5. \A c \in needed : scenario.owner[c] = r
    BY Zenon, <1>2, <1>3
  <2> HIDE DEF step, needed, todo, m, own
  <2>6. /\ run'.step = step /\ run'.group = run.group
        /\ run'.todo = todo /\ run'.current = needed
    BY Zenon, <1>2, <2>1, <2>2 DEF Runs
  <2>7. WindowInv'
    BY Zenon, <1>2, <2>2, <2>3, <2>5, <2>6 DEF WindowInv, Working, Timed, notAfter, Left
  <2>8. ASSUME NEW c \in Certs, NEW g \in Groups, Missing(c, g)', Over(c, g)'
        PROVE  Over(c, g)
    <3>1. c \notin renewed
      BY Zenon, <1>2, <2>8 DEF Missing
    <3>2. \/ g < run.group
          \/ g = run.group /\ (c \notin todo \cup needed \/ session = "transaction")
      BY Zenon, <2>1, <2>2, <2>6, <2>8 DEF Over, Working
    <3> QED
      BY Zenon, <1>2, <2>4, <3>1, <3>2 DEF Over, Working
  <2>9. \A c \in Certs, g \in Groups : Missing(c, g)' => lastNag'[c] = lastNag[c]
    BY Zenon, <1>2, <1>5 DEF Missing
  <2> QED
    BY Zenon, <1>2, <1>4, <2>7, <2>8, <2>9, TimedStep
<1> QED
  BY Zenon, <1>6, <1>7

\* A registration that cannot be read is left out, which is a failure.
LEMMA RegistrationUnreadTimed ==
    ASSUME Inv, Timed, NEW r \in Registrations, RegistrationUnread(r), Inv'
    PROVE  Timed'
<1> DEFINE todo == run.todo \ Owned(r)
<1>1. /\ run.step = "registrations" /\ Fault(1) /\ Proceed(todo) /\ todo \in SUBSET run.todo
      /\ UNCHANGED <<now, due, scenario, lastNag, renewed, revoked, mails, crowded>>
  BY Zenon DEF RegistrationUnread, database
<1> HIDE DEF todo
<1>2. faults' >= faults /\ faults' > faults
  BY <1>1, FaultOK DEF Inv
<1>3. \/ run' = NextGroup /\ todo = {}
      \/ run' = [run EXCEPT !.step = "registrations", !.todo = todo, !.current = {}]
  BY Zenon, <1>1 DEF Proceed
<1> QED
  BY Zenon, <1>1, <1>2, <1>3, GoesTimed DEF Working

\* A mail that is taken ends the waiting.
LEMMA SendAcceptedTimed == ASSUME Inv, Timed, SendAccepted, Inv' PROVE Timed'
<1>1. /\ run.step = "send" /\ run \in Runs /\ Taken /\ session = "ready" /\ due = FALSE
      /\ run' = [run EXCEPT !.step = "mark"]
      /\ UNCHANGED <<now, due, scenario, lastNag, renewed, revoked, session, faults, crowded>>
  BY Zenon DEF SendAccepted, database, Inv, TypeOK, Timed, WindowInv
<1>2. /\ run'.step = "mark" /\ run'.group = run.group
      /\ run'.todo = run.todo /\ run'.current = run.current
      /\ run.group \in Groups /\ run.current \subseteq Certs
  BY Zenon, <1>1 DEF Runs
<1>3. /\ \A c \in Certs, g \in Groups :
           mails'[c][g] = IF c \in run.current /\ g = run.group
                          THEN mails[c][g] + 1 ELSE mails[c][g]
      /\ \A c \in Certs, g \in Groups : mails[c][g] \in Nat
      /\ faults \in Nat
  BY Zenon, <1>1, TakenOK, Times DEF Inv, TypeOK
<1>4. \A c \in run.current : mails'[c][run.group] >= 1
  BY <1>2, <1>3
<1>5. WindowInv'
  BY Zenon, <1>1, <1>2, <1>4 DEF WindowInv, Working, Timed, notAfter, Left
<1>6. \A c \in Certs, g \in Groups : mails'[c][g] >= mails[c][g]
  BY <1>3
<1>7. ASSUME NEW c \in Certs, NEW g \in Groups, Over(c, g)' PROVE Over(c, g)
  BY Zenon, <1>1, <1>2, <1>7 DEF Over, Working
<1> QED
  BY <1>1, <1>3, <1>5, <1>6, <1>7, TimedStep

\* A mail that is interrupted is a failure, even if the server took it.
LEMMA SendInterruptedTimed == ASSUME Inv, Timed, SendInterrupted, Inv' PROVE Timed'
<1>1. /\ run.step = "send" /\ Fault(1)
      /\ Taken \/ mails' = mails
      /\ UNCHANGED <<now, due, scenario, lastNag, renewed, revoked, run, crowded>>
  BY Zenon DEF SendInterrupted, database
<1>2. faults' >= faults /\ faults' > faults
  BY <1>1, FaultOK DEF Inv
<1>3. mails' = mails \/ \A c \in Certs, g \in Groups : mails'[c][g] >= mails[c][g]
  <2>1. CASE Taken
    <3>1. \A c \in Certs, g \in Groups :
             /\ mails'[c][g] = IF c \in run.current /\ g = run.group
                               THEN mails[c][g] + 1 ELSE mails[c][g]
             /\ mails[c][g] \in Nat
      BY Zenon, <1>1, <2>1, TakenOK DEF Inv, TypeOK
    <3> QED
      BY <3>1
  <2> QED
    BY Zenon, <1>1, <2>1
<1>4. WindowInv'
  BY Zenon, <1>1 DEF WindowInv, Working, Timed, notAfter, Left
<1> QED
  BY Zenon, <1>1, <1>2, <1>3, <1>4, TimedStep

\* A mail that is refused is a failure, or the session already was one.
LEMMA SendFailsTimed ==
    ASSUME Inv, Timed, SendRefused \/ SendOutOfOrder, Inv'
    PROVE  Timed'
<1>1. /\ run.step = "send" /\ run \in Runs
      /\ UNCHANGED <<now, due, scenario, lastNag, renewed, revoked, mails, crowded>>
  BY Zenon DEF SendRefused, SendOutOfOrder, database, history, Inv, TypeOK
<1>2. CASE SendRefused
  <2>1. faults' >= faults /\ faults' > faults
    BY <1>2, FaultOK DEF Inv, SendRefused
  <2>2. \/ run' = NextGroup /\ run.todo = {}
        \/ run' = [run EXCEPT !.step = "registrations", !.todo = run.todo, !.current = {}]
    <3>1. CASE run' = [run EXCEPT !.step = "registrations", !.current = {}]
      BY Zenon, <1>1, <3>1 DEF Runs
    <3> QED
      BY Zenon, <1>2, <3>1 DEF SendRefused
  <2> QED
    BY Zenon, <1>1, <2>1, <2>2, GoesTimed DEF Working
<1>3. CASE SendOutOfOrder
  <2>1. faults' = faults /\ faults' >= faults /\ session = "transaction" /\ Proceed(run.todo)
    BY <1>3, Times DEF Inv, SendOutOfOrder, history
  <2>2. \/ run' = NextGroup /\ run.todo = {}
        \/ /\ run' = [run EXCEPT !.step = "registrations", !.todo = run.todo, !.current = {}]
           /\ session' = session
    BY Zenon, <2>1 DEF Proceed
  <2> QED
    BY Zenon, <1>1, <2>1, <2>2, GoesTimed DEF Working
<1> QED
  BY Zenon, <1>2, <1>3

\* A nag recorded for one group is none of another one.
LEMMA MarkedElsewhere ==
    ASSUME Inv, NEW c \in Certs, NEW g \in Groups, NEW h \in Groups, g # h,
           UNCHANGED <<now, scenario>>, lastNag'[c] = now,
           notAfter(c) > Left(h), notAfter(c) <= Right(h)
    PROVE  Unspoiled(c, g)'
<1>1. /\ notAfter(c) \in Nat /\ now \in Nat /\ notAfter(c)' = notAfter(c)
      /\ NagTimes[g] \in Nat /\ Near(g) \in Nat /\ NagTimes[h] \in Nat /\ Near(h) \in Nat
      /\ notAfter(c) > now + Near(h) /\ notAfter(c) <= now + NagTimes[h]
      /\ g \in Nat /\ h \in Nat
      /\ g < h => NagTimes[g] <= Near(h)
      /\ h < g => NagTimes[h] <= Near(g)
  BY Zenon, Times, Windows DEF Inv, notAfter
<1>2. notAfter(c) - now > NagTimes[g] \/ notAfter(c) - now <= Near(g)
  BY <1>1
<1>3. Near(g)' = Near(g)
  BY Zenon DEF Near
<1> QED
  BY Zenon, <1>1, <1>2, <1>3 DEF Unspoiled

\* The certificates of a mail are marked: the mail was taken, and the nag is
\* none of another group.
LEMMA UpdateCertStatusTimed == ASSUME Inv, Timed, UpdateCertStatus, Inv' PROVE Timed'
<1>1. /\ run.step = "mark" /\ Proceed(run.todo) /\ run.group \in Groups
      /\ run.current \subseteq Certs
      /\ UNCHANGED <<now, due, scenario, renewed, revoked, mails, crowded>>
  BY Zenon DEF UpdateCertStatus, Inv, TypeOK, Runs
<1>2. PICK failed \in SUBSET run.current :
          Fault(Cardinality(failed)) /\ MarkNagged(run.current \ failed)
  BY Zenon DEF UpdateCertStatus
<1>3. faults' >= faults
  <2>1. Cardinality(failed) \in Nat
    BY Zenon, <1>1, Counted
  <2> QED
    BY Zenon, <1>2, <2>1, FaultOK DEF Inv
<1>4. ASSUME NEW c \in Certs, NEW g \in Groups, Missing(c, g)'
      PROVE  /\ lastNag'[c] = lastNag[c] \/ Unspoiled(c, g)'
             /\ g = run.group => c \notin run.current
  <2>1. g = run.group => c \notin run.current
    <3>1. mails[c][g] = 0 /\ scenario.contact[scenario.owner[c]] = "mail"
      BY Zenon, <1>1, <1>4 DEF Missing
    <3> QED
      BY <1>1, <3>1 DEF Timed, WindowInv
  <2>2. lastNag'[c] = lastNag[c] \/ (lastNag'[c] = now /\ c \in run.current)
    BY Zenon, <1>2 DEF MarkNagged
  <2>3. CASE lastNag'[c] = now /\ c \in run.current
    <3>1. notAfter(c) > Left(run.group) /\ notAfter(c) <= Right(run.group)
      BY Zenon, <1>1, <2>3 DEF Inv, PassInv, Timed, WindowInv, Working
    <3> QED
      BY Zenon, <1>1, <2>1, <2>3, <3>1, MarkedElsewhere
  <2> QED
    BY Zenon, <2>1, <2>2, <2>3
<1>5. \/ run' = NextGroup /\ run.todo = {}
      \/ /\ run' = [run EXCEPT !.step = "registrations", !.todo = run.todo, !.current = {}]
         /\ session' = session
  BY Zenon, <1>1 DEF Proceed
<1> QED
  BY Zenon, <1>1, <1>3, <1>4, <1>5, GoesTimed DEF Working

\* A crash is a failure.
LEMMA CrashTimed == ASSUME Inv, Timed, Crash, Inv' PROVE Timed'
<1>1. /\ run' = Idle /\ Fault(1)
      /\ UNCHANGED <<now, due, scenario, lastNag, renewed, revoked, mails, crowded>>
  BY Zenon DEF Crash, database
<1>2. faults' >= faults /\ faults' > faults
  BY <1>1, FaultOK DEF Inv
<1>3. WindowInv'
  BY Zenon, <1>1 DEF WindowInv, Working, Idle
<1> QED
  BY Zenon, <1>1, <1>2, <1>3, TimedStep

\* A renewal or a revocation ends the waiting, and so does nothing else.
LEMMA OthersTimed ==
    ASSUME Inv, Timed, (\E c \in Certs : Renew(c) \/ Revoke(c)) \/ UNCHANGED vars, Inv'
    PROVE  Timed'
<1>1. /\ UNCHANGED <<now, due, scenario, lastNag, run, session, mails, faults, crowded>>
      /\ renewed \subseteq renewed' /\ revoked \subseteq revoked' /\ faults \in Nat
  BY Zenon, Times DEF Renew, Revoke, history, vars, database, Inv
<1>2. WindowInv'
  BY Zenon, <1>1 DEF WindowInv, Working, Timed, notAfter, Left
<1>3. ASSUME NEW c \in Certs, NEW g \in Groups, Over(c, g)' PROVE Over(c, g)
  BY Zenon, <1>1, <1>3 DEF Over, Working
<1> QED
  BY <1>1, <1>2, <1>3, TimedStep

\* The pass of the tick that ends did its work or cost a failure, and a tick
\* without a pass is a failure.
LEMMA TickTimed == ASSUME Inv, Timed, Tick, Inv' PROVE Timed'
<1>1. /\ run.step = "idle" /\ now' = now + 1 /\ due' = TRUE
      /\ UNCHANGED <<scenario, lastNag, renewed, revoked, run, session, mails, crowded>>
      /\ now \in Nat /\ faults \in Nat /\ faults' \in Nat
  BY Times DEF Tick, database, Inv, TypeOK
<1>2. WindowInv'
  BY Zenon, <1>1 DEF WindowInv, Working
<1>3. ASSUME NEW c \in Certs, NEW g \in Groups, Missing(c, g)'
      PROVE  (Unspoiled(c, g) /\ Costs(c, g, 0) /\ ~ Over(c, g))'
  <2>1. Missing(c, g) /\ notAfter(c)' = notAfter(c) /\ Near(g)' = Near(g) /\ Width(g)' = Width(g)
    BY Zenon, <1>1, <1>3 DEF Missing, notAfter, Near, Width
  <2>2. Unspoiled(c, g) /\ Costs(c, g, 0) /\ (Over(c, g) => Costs(c, g, 1))
    BY Zenon, <2>1 DEF Timed, TimelyInv, Timely
  <2>3. /\ notAfter(c) \in Nat /\ NagTimes[g] \in Nat /\ Width(g) \in Int
    BY Times, Windows DEF Inv
  <2>4. Unspoiled(c, g)'
    BY Zenon, <1>1, <2>1, <2>2 DEF Unspoiled
  <2>5. Costs(c, g, 0)'
    <3>1. CASE due
      <4>1. faults' > faults
        BY <3>1, FaultOK DEF Tick, Inv
      <4>2. now - (notAfter(c) - NagTimes[g]) + 0 <= faults \/ Width(g) <= faults
        BY <2>2, Zenon DEF Costs
      <4>3. now' - (notAfter(c)' - NagTimes[g]) + 0 <= faults' \/ Width(g)' <= faults'
        BY Zenon, <1>1, <2>1, <2>3, <4>1, <4>2, PaidByFault
      <4> QED
        BY Zenon, <4>3 DEF Costs
    <3>2. CASE ~ due
      <4>1. faults' = faults /\ Over(c, g)
        BY Zenon, <1>1, <3>2 DEF Tick, Over
      <4> QED
        BY <1>1, <2>1, <2>2, <2>3, <4>1 DEF Costs
    <3> QED
      BY Zenon, <3>1, <3>2
  <2>6. ~ Over(c, g)'
    BY Zenon, <1>1 DEF Over, Working
  <2> QED
    BY Zenon, <2>4, <2>5, <2>6
<1>4. TimelyInv'
  BY Zenon, <1>3 DEF TimelyInv, Timely
<1> QED
  BY Zenon, <1>2, <1>4 DEF Timed

\* Every step keeps it.
LEMMA NextTimed == ASSUME Inv, Timed, [Next]_vars, Inv' PROVE Timed'
BY Zenon, FindTimed, SelectTimed, ProcessRegistrationTimed, RegistrationUnreadTimed, SendAcceptedTimed,
   SendInterruptedTimed, SendFailsTimed, UpdateCertStatusTimed, CrashTimed, OthersTimed, TickTimed
   DEF Next

\* An account whose certificate is in a group's window for more passes than
\* there were failures is nagged: each failure costs at most one pass.
THEOREM NaggedOnTime == Spec => []NaggedInTime
<1>1. Init => Timed
  BY Zenon, InitTimed
<1>2. Inv /\ Inv' /\ Timed /\ [Next]_vars => Timed'
  BY Zenon, NextTimed
<1>3. ASSUME Inv, Timed PROVE NaggedInTime
  <2> SUFFICES ASSUME run.step = "idle", ~ due, ~ crowded, NEW c \in Certs, NEW g \in Groups,
                      c \notin renewed \cup revoked,
                      scenario.contact[scenario.owner[c]] = "mail",
                      notAfter(c) - NagTimes[g] >= 1,
                      now >= notAfter(c) - NagTimes[g] + faults, faults < Width(g),
                      ~ (mails[c][g] >= 1)
               PROVE  FALSE
    BY Zenon DEF NaggedInTime
  <2>1. /\ notAfter(c) \in Nat /\ NagTimes[g] \in Nat /\ now \in Nat /\ faults \in Nat
        /\ Width(g) \in Int
    BY <1>3, Times, Windows DEF Inv
  <2>2. mails[c][g] = 0
    <3>1. mails[c][g] \in Nat
      BY Zenon, <1>3 DEF Inv, TypeOK
    <3> QED
      BY <3>1
  <2>3. Missing(c, g) /\ Over(c, g)
    BY Zenon, <2>2 DEF Missing, Over
  <2>4. Costs(c, g, 1)
    BY Zenon, <1>3, <2>3 DEF Timed, TimelyInv, Timely
  <2> QED
    BY <2>1, <2>4 DEF Costs
<1> QED
  BY <1>1, <1>2, <1>3, Invariance, PTL DEF Spec
=============================================================================
