-------------------------- MODULE NonceServiceProofs --------------------------
(***************************************************************************)
(* The nonce service never accepts a nonce twice, keeps its memory         *)
(* bounded, and refuses an unused nonce only when it has been overtaken,   *)
(* for every size of the used map and any number of nonces and restarts.   *)
(***************************************************************************)
EXTENDS NonceService, FiniteSetTheorems, WellFoundedInduction, TLAPS

\* What the counters of the running process mean: the used map holds
\* accepted counters above earliest, everything accepted is in the map or at
\* most earliest, earliest moves only when the map is full, and no nonce of a
\* later process exists yet; earliest itself was accepted.
Window ==
    /\ earliest <= latest
    /\ \A c \in used : earliest < c /\ c <= latest /\ spent[<<key, c>>] > 0
    /\ \A c \in Counters : spent[<<key, c>>] > 0 => c \in used \/ c <= earliest
    /\ \A n \in Nonces : n[1] > key => spent[n] = 0
    /\ earliest > 0 => spent[<<key, earliest>>] > 0

Memory ==
    /\ IsFiniteSet(used)
    /\ Cardinality(used) <= MaxUsed
    /\ earliest > 0 => Cardinality(used) = MaxUsed

Inv == TypeOK /\ Window /\ Memory /\ AtMostOnce

-----------------------------------------------------------------------------

\* A nonempty set of naturals has the least element that minUsed's scan finds.
LEMMA MinExists ==
    ASSUME NEW S \in SUBSET Nat, S # {}
    PROVE  Min(S) \in S /\ \A y \in S : Min(S) <= y
<1>1. PICK x \in S : \A y \in S : ~ (<<y, x>> \in OpToRel(<, Nat))
  BY Zenon, NatLessThanWellFounded, WFMin
<1>2. ASSUME NEW y \in S PROVE x <= y
  <2>1. y \in Nat /\ x \in Nat
    BY Zenon
  <2>2. ~ (y < x)
    BY <1>1, <2>1, Zenon DEF OpToRel
  <2> QED
    BY <2>1, <2>2
<1> QED
  BY Zenon, <1>2 DEF Min

\* Valid's eviction keeps the window consistent: what it forgets is at most
\* the new earliest, and everything it still remembers is above it.
LEMMA RememberKeeps ==
    ASSUME Inv, NEW c \in Counters, Acceptable(key, c), Remember(c)
    PROVE  /\ used' \in SUBSET Counters
           /\ earliest' \in 0 .. latest
           /\ earliest <= earliest'
           /\ earliest' = earliest \/ earliest' \in used \cup {c}
           /\ used' \subseteq used \cup {c}
           /\ \A d \in used' : earliest' < d
           /\ \A d \in used \cup {c} : d \in used' \/ d <= earliest'
           /\ Memory'
<1> DEFINE now == used \cup {c}
<1>1. /\ now \in SUBSET Counters /\ now \in SUBSET Nat
      /\ \A d \in now : earliest < d /\ d <= latest
      /\ latest \in Nat /\ earliest \in Nat /\ MaxUsed \in Nat
  <2>1. /\ latest \in Nat /\ earliest \in Nat /\ MaxUsed \in Nat
        /\ used \in SUBSET Counters /\ Counters \in SUBSET Nat
    BY BoundsAssumption, MaxUsedAssumption DEF Inv, TypeOK, Counters
  <2>2. \A d \in now : earliest < d /\ d <= latest
    BY Zenon, <2>1 DEF Inv, Window, Acceptable
  <2> QED
    BY Zenon, <2>1, <2>2
<1>2. /\ IsFiniteSet(used) /\ Cardinality(used) \in Nat
      /\ IsFiniteSet(now) /\ Cardinality(now) = Cardinality(used) + 1
      /\ Cardinality(used) <= MaxUsed
      /\ earliest > 0 => Cardinality(used) = MaxUsed
  BY Zenon, FS_AddElement, FS_CardinalityType DEF Inv, Memory, Acceptable
<1>3. CASE Cardinality(now) > MaxUsed
  <2> DEFINE m == Min(now \cup {latest})
  <2>1. /\ m \in now \cup {latest}
        /\ \A d \in now \cup {latest} : m <= d
    <3>1. now \cup {latest} \in SUBSET Nat /\ now \cup {latest} # {}
      BY Zenon, <1>1
    <3> QED
      BY Zenon, <3>1, MinExists
  <2>2. m \in now /\ m \in Nat /\ earliest < m /\ m <= latest
    <3>1. m <= c /\ c <= latest /\ c \in now
      BY Zenon, <2>1, <1>1
    <3> QED
      BY <3>1, <2>1, <1>1
  <2>3. earliest' = m /\ used' = now \ {m}
    BY Zenon, <1>3 DEF Remember, minUsed
  <2>4. Cardinality(used) = MaxUsed
    BY <1>2, <1>3, <1>1
  <2>5. IsFiniteSet(used') /\ Cardinality(used') = MaxUsed
    <3> HIDE DEF now, m
    <3>1. IsFiniteSet(now \ {m}) /\ Cardinality(now \ {m}) = Cardinality(now) - 1
      BY Zenon, <2>2, <1>2, FS_RemoveElement
    <3> QED
      BY <3>1, <2>3, <2>4, <1>2, <1>1
  <2>6. Memory'
    BY <2>5, <1>1, <2>2 DEF Memory
  <2>7. \A d \in used' : m < d
    BY <2>1, <2>3, <2>2, <1>1
  <2> QED
    BY <2>1, <2>2, <2>3, <2>6, <2>7, <1>1
<1>4. CASE ~ (Cardinality(now) > MaxUsed)
  <2>1. earliest' = earliest /\ used' = now
    BY Zenon, <1>4 DEF Remember
  <2>2. Memory'
    BY <2>1, <1>2, <1>4, <1>1 DEF Memory
  <2> QED
    BY <2>1, <2>2, <1>1
<1> QED
  BY Zenon, <1>3, <1>4

\* The empty service of NewNonceService satisfies the invariant.
LEMMA InitInv == Init => Inv
<1> SUFFICES ASSUME Init PROVE Inv
  BY Zenon
<1>1. IsFiniteSet(used) /\ Cardinality(used) = 0
  BY Zenon, FS_EmptySet DEF Init, NewNonceService
<1>2. TypeOK /\ Window /\ AtMostOnce
  BY BoundsAssumption
  DEF Init, NewNonceService, TypeOK, Window, AtMostOnce, Keys, Counters, Nonces
<1>3. Memory
  BY <1>1, MaxUsedAssumption DEF Memory, Init, NewNonceService
<1> QED
  BY Zenon, <1>2, <1>3 DEF Inv

\* Every step of the service, and a stutter, keeps the invariant.
LEMMA NextInv == Inv /\ [Next]_vars => Inv'
<1> SUFFICES ASSUME Inv, [Next]_vars PROVE Inv'
  BY Zenon
<1> USE BoundsAssumption, MaxUsedAssumption
<1>1. CASE Nonce
  <2>1. TypeOK'
    BY <1>1 DEF Inv, Nonce, TypeOK, Nonces, Keys, Counters
  <2>2. Window'
    BY <1>1 DEF Inv, Nonce, TypeOK, Window, Nonces, Keys, Counters
  <2>3. Memory' /\ AtMostOnce'
    BY Zenon, <1>1 DEF Inv, Nonce, Memory, AtMostOnce
  <2> QED
    BY Zenon, <2>1, <2>2, <2>3 DEF Inv
<1>2. CASE \E n \in issued : Valid(n[1], n[2])
  <2>1. PICK n \in issued : Valid(n[1], n[2])
    BY Zenon, <1>2
  <2>2. CASE Acceptable(n[1], n[2])
    <3> DEFINE c == n[2]
    <3>1. n \in Nonces /\ n = <<key, c>> /\ c \in Counters
      BY <2>2 DEF Inv, TypeOK, Nonces, Acceptable
    <3>2. /\ Acceptable(key, c) /\ Remember(c)
          /\ spent' = [spent EXCEPT ![<<key, c>>] = @ + 1]
          /\ UNCHANGED <<key, latest, issued>>
      BY <2>1, <2>2, <3>1 DEF Valid
    <3>3. /\ used' \in SUBSET Counters
          /\ earliest' \in 0 .. latest
          /\ earliest <= earliest'
          /\ earliest' = earliest \/ earliest' \in used \cup {c}
          /\ used' \subseteq used \cup {c}
          /\ \A d \in used' : earliest' < d
          /\ \A d \in used \cup {c} : d \in used' \/ d <= earliest'
          /\ Memory'
      BY Zenon, <3>1, <3>2, RememberKeeps
    <3>4. spent[<<key, c>>] = 0
      BY <3>1, <3>2 DEF Inv, TypeOK, Window, Acceptable, Counters, Nonces
    <3>5. /\ \A m \in Nonces : m # <<key, c>> => spent'[m] = spent[m]
          /\ spent'[<<key, c>>] = 1
          /\ spent' \in [Nonces -> Nat]
      BY <3>1, <3>2, <3>4 DEF Inv, TypeOK
    <3>6. TypeOK'
      BY <3>2, <3>3, <3>5 DEF Inv, TypeOK, Keys, Counters
    <3>7. Window'
      <4>1. earliest' <= latest'
        BY <3>2, <3>3 DEF Inv, TypeOK
      <4>2. ASSUME NEW d \in used'
            PROVE  earliest' < d /\ d <= latest' /\ spent'[<<key', d>>] > 0
        <5>1. d \in Counters /\ <<key, d>> \in Nonces
          BY Zenon, <3>3 DEF Inv, TypeOK, Nonces
        <5>2. CASE d = c
          BY <5>2, <3>2, <3>3, <3>5 DEF Acceptable
        <5>3. CASE d # c
          <6>1. d \in used /\ <<key, d>> # <<key, c>>
            BY Zenon, <5>3, <3>3
          <6> QED
            BY Zenon, <6>1, <5>1, <3>2, <3>3, <3>5 DEF Inv, Window
        <5> QED
          BY Zenon, <5>2, <5>3
      <4>3. ASSUME NEW d \in Counters, spent'[<<key', d>>] > 0
            PROVE  d \in used' \/ d <= earliest'
        <5>1. CASE d = c
          BY Zenon, <5>1, <3>3
        <5>2. CASE d # c
          <6>1. <<key, d>> \in Nonces /\ <<key, d>> # <<key, c>>
            BY Zenon, <5>2 DEF Inv, TypeOK, Nonces
          <6>2. d \in used \/ d <= earliest
            BY Zenon, <6>1, <4>3, <3>2, <3>5 DEF Inv, Window
          <6> QED
            BY <6>2, <3>3 DEF Inv, TypeOK, Counters
        <5> QED
          BY Zenon, <5>1, <5>2
      <4>4. ASSUME NEW m \in Nonces, m[1] > key'
            PROVE  spent'[m] = 0
        BY <4>4, <3>2, <3>5 DEF Inv, TypeOK, Window, Keys
      <4>5. ASSUME earliest' > 0 PROVE spent'[<<key', earliest'>>] > 0
        <5>1. earliest' \in Counters /\ <<key, earliest'>> \in Nonces
          BY <3>6, <4>5 DEF Inv, TypeOK, Counters, Nonces
        <5>2. CASE earliest' = c
          BY <5>2, <3>2, <3>5
        <5>3. CASE earliest' # c
          <6>1. spent[<<key, earliest'>>] > 0
            BY Zenon, <5>3, <4>5, <3>3 DEF Inv, Window
          <6>2. <<key, earliest'>> # <<key, c>>
            BY Zenon, <5>3
          <6> QED
            BY Zenon, <6>1, <6>2, <5>1, <3>2, <3>5
        <5> QED
          BY Zenon, <5>2, <5>3
      <4> QED
        BY Zenon, <4>1, <4>2, <4>3, <4>4, <4>5 DEF Window
    <3>8. AtMostOnce'
      BY <3>5 DEF Inv, AtMostOnce
    <3> QED
      BY Zenon, <3>3, <3>6, <3>7, <3>8 DEF Inv
  <2>3. CASE ~ Acceptable(n[1], n[2])
    BY Zenon, <2>1, <2>3 DEF Valid, vars, Inv, TypeOK, Window, Memory, AtMostOnce
  <2> QED
    BY Zenon, <2>2, <2>3
<1>3. CASE Restart
  <2>1. TypeOK' /\ Window' /\ AtMostOnce'
    BY <1>3 DEF Inv, Restart, TypeOK, Window, AtMostOnce, Nonces, Keys, Counters
  <2>2. IsFiniteSet(used') /\ Cardinality(used') = 0
    BY Zenon, <1>3, FS_EmptySet DEF Restart
  <2>3. Memory'
    BY <1>3, <2>2 DEF Memory, Restart
  <2> QED
    BY Zenon, <2>1, <2>3 DEF Inv
<1>4. CASE UNCHANGED vars
  BY Zenon, <1>4 DEF vars, Inv, TypeOK, Window, Memory, AtMostOnce
<1> QED
  BY Zenon, <1>1, <1>2, <1>3, <1>4 DEF Next

\* The counters overtaking a refused, unused nonce are at least earliest and
\* those in the full used map.
LEMMA InvImpliesOvertaken == Inv => OvertakenBeforeRefused
<1> SUFFICES ASSUME Inv, NEW c \in Counters, c <= earliest, spent[<<key, c>>] = 0
             PROVE  Cardinality({d \in Counters : d > c /\ spent[<<key, d>>] > 0}) > MaxUsed
  BY Zenon DEF OvertakenBeforeRefused
<1> DEFINE later == {d \in Counters : d > c /\ spent[<<key, d>>] > 0}
<1> USE BoundsAssumption, MaxUsedAssumption
<1>1. earliest > 0 /\ IsFiniteSet(used) /\ Cardinality(used) = MaxUsed
  BY DEF Inv, Memory, TypeOK, Counters
<1>2. used \cup {earliest} \subseteq later
  BY <1>1 DEF Inv, Window, TypeOK, Counters
<1>3. earliest \notin used
  BY DEF Inv, Window, TypeOK
<1>4. Cardinality(used \cup {earliest}) = MaxUsed + 1
  BY Zenon, <1>1, <1>3, FS_AddElement
<1>5. IsFiniteSet(later)
  <2>0. 1 \in Int /\ MaxLatest \in Int
    OBVIOUS
  <2>1. IsFiniteSet(Counters)
    BY Zenon, <2>0, FS_Interval DEF Counters
  <2> QED
    BY Zenon, <2>1, FS_Subset
<1>6. Cardinality(used \cup {earliest}) <= Cardinality(later)
  BY Zenon, <1>2, <1>5, FS_Subset
<1>7. Cardinality(later) \in Nat
  BY Zenon, <1>5, FS_CardinalityType
<1> QED
  BY <1>4, <1>6, <1>7

-----------------------------------------------------------------------------

\* The invariant holds in every reachable state.
THEOREM Invariance == Spec => []Inv
<1>1. Init => Inv
  BY Zenon, InitInv
<1>2. Inv /\ [Next]_vars => Inv'
  BY Zenon, NextInv
<1> QED
  BY <1>1, <1>2, PTL DEF Spec

\* The variables keep the types of the NonceService struct.
THEOREM TypeCorrectness == Spec => []TypeOK
<1>1. Inv => TypeOK
  BY Zenon DEF Inv
<1> QED
  BY <1>1, Invariance, PTL

\* No call of Valid accepts a nonce that was accepted before.
THEOREM NonceAcceptedAtMostOnce == Spec => []AtMostOnce
<1>1. Inv => AtMostOnce
  BY Zenon DEF Inv
<1> QED
  BY <1>1, Invariance, PTL

\* The used map never holds more than maxUsed counters.
THEOREM UsedMapBounded == Spec => []UsedBounded
<1>1. Inv => UsedBounded
  BY Zenon DEF Inv, Memory, UsedBounded
<1> QED
  BY <1>1, Invariance, PTL

\* An unused nonce is refused as too low only when more than maxUsed later
\* ones were accepted.
THEOREM RefusalOnlyWhenOvertaken == Spec => []OvertakenBeforeRefused
<1>1. Inv => OvertakenBeforeRefused
  BY Zenon, InvImpliesOvertaken
<1> QED
  BY <1>1, Invariance, PTL

\* Nonce and Valid refine issuing and redeeming a one-time token; a refused
\* call and a restart refine a stutter.
THEOREM RefinesOneTimeTokens == Spec => ImplementsOneTimeTokens
<1>1. Init => Tokens!Init
  BY Zenon DEF Init, Tokens!Init
<1>2. Inv /\ Inv' /\ [Next]_vars => [Tokens!Next]_<<issued, spent>>
  <2> SUFFICES ASSUME Inv, Inv', [Next]_vars
               PROVE  [Tokens!Next]_<<issued, spent>>
    BY Zenon
  <2> USE DEF Tokens!Next, Tokens!Issue, Tokens!Redeem
  <2>1. CASE Nonce
    <3>1. <<key, latest + 1>> \in Nonces
      BY Zenon, <2>1, BoundsAssumption DEF Inv, TypeOK, Nonce, Nonces, Keys, Counters
    <3> QED
      BY Zenon, <2>1, <3>1 DEF Nonce
  <2>2. CASE \E n \in issued : Valid(n[1], n[2])
    <3>1. PICK n \in issued : Valid(n[1], n[2])
      BY Zenon, <2>2
    <3>2. n \in Nonces /\ n = <<n[1], n[2]>> /\ n[2] \in Counters
      BY DEF Inv, TypeOK, Nonces
    <3>3. CASE Acceptable(n[1], n[2])
      <4>1. spent[n] = 0
        BY <3>2, <3>3 DEF Inv, TypeOK, Window, Acceptable, Counters, Nonces
      <4>2. spent' = [spent EXCEPT ![n] = @ + 1] /\ issued' = issued
        BY Zenon, <3>1, <3>2, <3>3 DEF Valid
      <4>3. spent' = [spent EXCEPT ![n] = 1]
        BY <4>1, <4>2, <3>2 DEF Inv, TypeOK
      <4> QED
        BY Zenon, <4>1, <4>2, <4>3, <3>2
    <3>4. CASE ~ Acceptable(n[1], n[2])
      BY Zenon, <3>1, <3>4 DEF Valid, vars
    <3> QED
      BY Zenon, <3>3, <3>4
  <2>3. CASE Restart
    BY Zenon, <2>3 DEF Restart
  <2>4. CASE UNCHANGED vars
    BY Zenon, <2>4 DEF vars
  <2> QED
    BY Zenon, <2>1, <2>2, <2>3, <2>4 DEF Next
<1> QED
  BY <1>1, <1>2, Invariance, PTL DEF Spec, Tokens!Spec, ImplementsOneTimeTokens
=============================================================================
