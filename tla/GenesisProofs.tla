---------------------------- MODULE GenesisProofs ----------------------------
(***************************************************************************)
(* The genesis state of any chain specification: when the build aborts,    *)
(* when the chain starts with its authorities elected, and that the total  *)
(* issuance is what the accounts hold.                                     *)
(***************************************************************************)
EXTENDS Genesis, SumTheorems

---------------------------------------------------------------------------
(* The genesis configuration *)

(* Where the pallets that build something stand.                             *)
LEMMA Order ==
    /\ Len(PALLETS) = 33
    /\ PALLETS[8] = "Balances" /\ PALLETS[10] = "Staking" /\ PALLETS[11] = "Session"
    /\ \A n \in 1..33 : /\ PALLETS[n] = "Balances" => n = 8
                        /\ PALLETS[n] = "Staking" => n = 10
                        /\ PALLETS[n] = "Session" => n = 11
                        /\ PALLETS[n] = "EVM" => n = 19
  BY DEF PALLETS

(* Names of the stashes, and of the accounts to be endowed, of s.            *)
Stashes(s) == [i \in DOMAIN s.authorities |-> s.authorities[i].stash]
Endowed(s) == s.endowed \o Stashes(s)

(* What testnet_genesis gives Staking, Session and the consensus pallets.    *)
LEMMA Config ==
    ASSUME NEW s \in Specs
    PROVE  LET c == testnet_genesis(s)
               A == s.authorities
           IN  /\ Len(A) \in Nat /\ DOMAIN A = 1..Len(A)
               /\ c.evm = s.evm
               /\ c.validator_count = Len(A) /\ c.minimum_validator_count = Len(A)
               /\ \A type \in SessionKeys : c[type] = {}
<1>1. s.authorities \in Seq(Range(s.authorities))
  BY SpecsAssumption
<1> QED
  BY <1>1 DEF testnet_genesis, SessionKeys

(* testnet_genesis makes each authority a staker, in order.                  *)
LEMMA ConfigStakers ==
    ASSUME NEW s \in Specs
    PROVE  LET c == testnet_genesis(s)
               A == s.authorities
           IN  /\ Len(c.stakers) = Len(A)
               /\ \A i \in DOMAIN A :
                     /\ c.stakers[i].stash = A[i].stash /\ c.stakers[i].controller = A[i].controller
                     /\ c.stakers[i].value = STASH
<1>1. s.authorities \in Seq(Range(s.authorities))
  BY SpecsAssumption
<1> QED
  BY <1>1 DEF testnet_genesis

(* testnet_genesis gives Session the keys of each authority, in order.       *)
LEMMA ConfigKeys ==
    ASSUME NEW s \in Specs
    PROVE  LET c == testnet_genesis(s)
               A == s.authorities
           IN  /\ Len(c.keys) = Len(A) /\ DOMAIN c.keys = DOMAIN A
               /\ \A i \in DOMAIN A :
                     /\ c.keys[i].account = A[i].stash /\ c.keys[i].validator = A[i].stash
                     /\ \A type \in SessionKeys : c.keys[i].keys[type] = A[i][type]
<1>1. s.authorities \in Seq(Range(s.authorities))
  BY SpecsAssumption
<1> DEFINE c == testnet_genesis(s)
           A == s.authorities
<1>2. /\ Len(c.keys) = Len(A) /\ DOMAIN c.keys = DOMAIN A
      /\ \A i \in DOMAIN A :
            /\ c.keys[i].account = A[i].stash /\ c.keys[i].validator = A[i].stash
            /\ c.keys[i].keys = session_keys(A[i].grandpa, A[i].babe, A[i].im_online,
                                             A[i].discovery)
  BY <1>1, SMTT(30) DEF testnet_genesis
<1>3. ASSUME NEW a, NEW type \in SessionKeys
      PROVE  session_keys(a.grandpa, a.babe, a.im_online, a.discovery)[type] = a[type]
  BY SMTT(30) DEF session_keys, SessionKeys
<1> HIDE DEF c, A
<1>4. ASSUME NEW i \in DOMAIN A, NEW type \in SessionKeys
      PROVE  c.keys[i].keys[type] = A[i][type]
  BY <1>2, <1>3
<1>5. /\ Len(c.keys) = Len(A) /\ DOMAIN c.keys = DOMAIN A
      /\ \A i \in DOMAIN A :
            /\ c.keys[i].account = A[i].stash /\ c.keys[i].validator = A[i].stash
            /\ \A type \in SessionKeys : c.keys[i].keys[type] = A[i][type]
  BY <1>2, <1>4
<1> QED
  BY <1>5 DEF c, A

(* What it gives Balances: every account of Endowed, in order, the stashes   *)
(* with AUTHOR_BALANCE.                                                      *)
LEMMA ConfigBalances ==
    ASSUME NEW s \in Specs
    PROVE  LET b == testnet_genesis(s).balances
               m == Len(s.endowed)
           IN  /\ m \in Nat /\ Len(b) \in Nat
               /\ DOMAIN b = 1..Len(b) /\ DOMAIN Endowed(s) = 1..Len(b)
               /\ \A i \in 1..Len(b) : b[i][1] = Endowed(s)[i] /\ b[i][2] \in Nat
               /\ \A i \in DOMAIN s.authorities :
                     /\ m + i \in 1..Len(b) /\ b[m + i][2] = AUTHOR_BALANCE
                     /\ Endowed(s)[m + i] = s.authorities[i].stash
<1> DEFINE A == s.authorities
           E == s.endowed
           T == Stashes(s)
           S == Range(E) \cup Range(T)
           m == Len(E)
           n == Len(A)
           b == testnet_genesis(s).balances
           c == Endowed(s)
<1>1. A \in Seq(Range(A)) /\ E \in Seq(Range(E))
  BY SpecsAssumption
<1>2. n \in Nat /\ DOMAIN A = 1..n /\ m \in Nat
  BY <1>1
<1>3. /\ T = [i \in 1..n |-> A[i].stash]
      /\ \A i \in 1..n : T[i] = A[i].stash
  BY <1>2 DEF Stashes
<1>4. b = [i \in DOMAIN E |-> <<E[i], ENDOWMENT>>] \o [i \in DOMAIN A |-> <<A[i].stash, AUTHOR_BALANCE>>]
  BY DEF testnet_genesis
<1>5. c = E \o T
  BY DEF Endowed
<1> HIDE DEF A, E, T, n, b, c
<1>6. E \in Seq(S) /\ T \in Seq(S) /\ Len(T) = n
  BY <1>1, <1>2, <1>3 DEF Range
<1>7. b = Zipped(E, ENDOWMENT) \o Zipped(T, AUTHOR_BALANCE)
  <2>1. DOMAIN T = DOMAIN A /\ \A i \in DOMAIN A : T[i] = A[i].stash
    BY <1>2, <1>3
  <2> QED
    BY <1>4, <2>1 DEF Zipped
<1>8. ENDOWMENT \in Nat /\ AUTHOR_BALANCE \in Nat
  BY DEF ENDOWMENT, AUTHOR_BALANCE
<1> HIDE DEF S, m
<1>9. Listed(b, c, Len(E), Len(T), T, AUTHOR_BALANCE)
  BY <1>5, <1>6, <1>7, <1>8, ZippedBalances, Zenon
<1>10. Listed(b, c, m, n, T, AUTHOR_BALANCE) /\ m + n \in Nat
  BY <1>2, <1>6, <1>9 DEF m
<1>11. /\ m \in Nat /\ Len(b) \in Nat
       /\ DOMAIN b = 1..Len(b) /\ DOMAIN c = 1..Len(b)
       /\ \A i \in 1..Len(b) : b[i][1] = c[i] /\ b[i][2] \in Nat
       /\ \A i \in DOMAIN A :
             /\ m + i \in 1..Len(b) /\ b[m + i][2] = AUTHOR_BALANCE
             /\ c[m + i] = A[i].stash
  BY <1>2, <1>3, <1>10, Zenon DEF Listed
<1> QED
  BY <1>11 DEF A, E, m, b, c

---------------------------------------------------------------------------
(* The stakers and the session keys *)

(* Staking has gone through the first n of the authorities A: each of their  *)
(* controllers has the ledger of a stash that is bonded to it.               *)
BondedUpTo(A, n, b, l) ==
    /\ DOMAIN l = {A[j].controller : j \in 1..n}
    /\ DOMAIN b \subseteq {A[j].stash : j \in 1..n}
    /\ \A c \in DOMAIN l : \E j \in 1..n :
          /\ A[j].controller = c /\ l[c] = [stash |-> A[j].stash, active |-> STASH]
          /\ A[j].stash \in DOMAIN b /\ b[A[j].stash] = c

(* Session has stored the keys of the first n, none of which is shared.      *)
KeyedUpTo(A, n, k) ==
    /\ DOMAIN k = {A[j].stash : j \in 1..n}
    /\ \A j \in 1..n : \A type \in SessionKeys : k[A[j].stash][type] = A[j][type]
    /\ \A i, j \in 1..n : \A type \in SessionKeys : A[i][type] = A[j][type] => i = j

(* Before Staking is built nothing is bonded.                                *)
LEMMA NoneBonded ==
    ASSUME NEW A, NEW b, NEW l, DOMAIN b = {}, DOMAIN l = {}
    PROVE  BondedUpTo(A, 0, b, l)
  BY DEF BondedUpTo

(* Before Session is built there are no keys.                                *)
LEMMA NoneKeyed ==
    ASSUME NEW A, NEW k, DOMAIN k = {}
    PROVE  KeyedUpTo(A, 0, k)
  BY DEF KeyedUpTo

(* The next staker is bonded, unless its controller has a ledger already.    *)
LEMMA BondOne ==
    ASSUME NEW A, NEW n \in Nat, NEW b, NEW l, NEW b2, NEW l2, BondedUpTo(A, n, b, l),
           \A i, j \in 1..(n + 1) : A[i].stash = A[j].stash => i = j,
           LET x == A[n + 1]
           IN  IF x.stash \notin DOMAIN b /\ x.controller \notin DOMAIN l
               THEN /\ b2 = Insert(b, x.stash, x.controller)
                    /\ l2 = Insert(l, x.controller, [stash |-> x.stash, active |-> STASH])
               ELSE b2 = b /\ l2 = l
    PROVE  BondedUpTo(A, n + 1, b2, l2)
<1> DEFINE s(j) == A[j].stash
           t(j) == A[j].controller
<1>1. 1..(n + 1) = (1..n) \cup {n + 1} /\ n + 1 \notin 1..n
  OBVIOUS
<1>2. /\ DOMAIN l = {t(j) : j \in 1..n} /\ DOMAIN b \subseteq {s(j) : j \in 1..n}
      /\ \A c \in DOMAIN l : \E j \in 1..n :
            /\ t(j) = c /\ l[c] = [stash |-> s(j), active |-> STASH]
            /\ s(j) \in DOMAIN b /\ b[s(j)] = c
  BY DEF BondedUpTo
<1>3. \A i, j \in 1..(n + 1) : s(i) = s(j) => i = j
  OBVIOUS
<1>4. s(n + 1) \notin DOMAIN b
  BY <1>1, <1>2, <1>3
<1>5. IF t(n + 1) \notin DOMAIN l
      THEN /\ b2 = Insert(b, s(n + 1), t(n + 1))
           /\ l2 = Insert(l, t(n + 1), [stash |-> s(n + 1), active |-> STASH])
      ELSE b2 = b /\ l2 = l
  BY <1>4
<1> HIDE DEF s, t
<1>6. /\ DOMAIN l2 = {t(j) : j \in 1..(n + 1)}
      /\ DOMAIN b2 \subseteq {s(j) : j \in 1..(n + 1)}
  <2>1. CASE t(n + 1) \in DOMAIN l
    <3>1. l2 = l /\ b2 = b
      BY <1>5, <2>1
    <3>2. {t(j) : j \in 1..(n + 1)} = {t(j) : j \in 1..n}
      BY <1>1, <1>2, <2>1
    <3>3. {s(j) : j \in 1..n} \subseteq {s(j) : j \in 1..(n + 1)}
      BY <1>1
    <3> QED
      BY <1>2, <3>1, <3>2, <3>3
  <2>2. CASE t(n + 1) \notin DOMAIN l
    <3>1. DOMAIN l2 = DOMAIN l \cup {t(n + 1)} /\ DOMAIN b2 = DOMAIN b \cup {s(n + 1)}
      BY <1>5, <2>2 DEF Insert
    <3> QED
      BY <1>1, <1>2, <3>1
  <2> QED
    BY <2>1, <2>2
<1>7. ASSUME NEW c \in DOMAIN l2
      PROVE  \E j \in 1..(n + 1) :
                /\ t(j) = c /\ l2[c] = [stash |-> s(j), active |-> STASH]
                /\ s(j) \in DOMAIN b2 /\ b2[s(j)] = c
  <2>1. CASE c \in DOMAIN l
    <3>1. PICK j \in 1..n : /\ t(j) = c /\ l[c] = [stash |-> s(j), active |-> STASH]
                            /\ s(j) \in DOMAIN b /\ b[s(j)] = c
      BY <1>2, <2>1
    <3>2. l2[c] = l[c] /\ s(j) \in DOMAIN b2 /\ b2[s(j)] = b[s(j)]
      <4>1. CASE t(n + 1) \in DOMAIN l
        BY <1>5, <3>1, <4>1
      <4>2. CASE t(n + 1) \notin DOMAIN l
        <5>1. c # t(n + 1) /\ s(j) # s(n + 1)
          BY <1>4, <2>1, <3>1, <4>2
        <5> QED
          BY <1>5, <2>1, <3>1, <4>2, <5>1 DEF Insert
      <4> QED
        BY <4>1, <4>2
    <3> QED
      BY <1>1, <3>1, <3>2
  <2>2. CASE c \notin DOMAIN l
    <3>1. c = t(n + 1) /\ t(n + 1) \notin DOMAIN l
      BY <1>5, <2>2 DEF Insert
    <3>2. /\ l2[c] = [stash |-> s(n + 1), active |-> STASH]
          /\ s(n + 1) \in DOMAIN b2 /\ b2[s(n + 1)] = c
      BY <1>5, <3>1 DEF Insert
    <3> QED
      BY <1>1, <3>1, <3>2
  <2> QED
    BY <2>1, <2>2
<1> QED
  BY <1>6, <1>7 DEF BondedUpTo, s, t

(* x are the keys of the next authority, and nobody else's.                  *)
NewKeys(A, n, k, x) ==
    /\ n \in Nat /\ KeyedUpTo(A, n, k)
    /\ \A i, j \in 1..(n + 1) : A[i].stash = A[j].stash => i = j
    /\ \A type \in SessionKeys : x[type] = A[n + 1][type]
    /\ \A v \in DOMAIN k : \A type \in SessionKeys : k[v][type] # x[type]

(* They are stored.                                                          *)
LEMMA KeyOne ==
    ASSUME NEW A, NEW n, NEW k, NEW x, NewKeys(A, n, k, x)
    PROVE  KeyedUpTo(A, n + 1, Insert(k, A[n + 1].stash, x))
<1> USE DEF NewKeys
<1> DEFINE s(j) == A[j].stash
           key(j, type) == A[j][type]
           k2 == Insert(k, s(n + 1), x)
<1>1. 1..(n + 1) = (1..n) \cup {n + 1} /\ n + 1 \notin 1..n
  OBVIOUS
<1>2. /\ DOMAIN k = {s(j) : j \in 1..n}
      /\ \A j \in 1..n : \A type \in SessionKeys : k[s(j)][type] = key(j, type)
      /\ \A i, j \in 1..n : \A type \in SessionKeys : key(i, type) = key(j, type) => i = j
  BY DEF KeyedUpTo
<1>3. /\ \A i, j \in 1..(n + 1) : s(i) = s(j) => i = j
      /\ \A type \in SessionKeys : x[type] = key(n + 1, type)
      /\ k2 = Insert(k, s(n + 1), x)
  OBVIOUS
<1> HIDE DEF s, key, k2
<1>4. DOMAIN k2 = DOMAIN k \cup {s(n + 1)} /\ k2[s(n + 1)] = x
      /\ \A v \in DOMAIN k : v # s(n + 1) => k2[v] = k[v]
  BY <1>3 DEF Insert
<1>5. DOMAIN k2 = {s(j) : j \in 1..(n + 1)}
  BY <1>1, <1>2, <1>4
<1>6. ASSUME NEW j \in 1..(n + 1), NEW type \in SessionKeys
      PROVE  k2[s(j)][type] = key(j, type)
  <2>1. CASE j = n + 1
    BY <1>3, <1>4, <2>1
  <2>2. CASE j \in 1..n
    <3>1. s(j) \in DOMAIN k /\ s(j) # s(n + 1)
      BY <1>1, <1>2, <1>3, <2>2
    <3> QED
      BY <1>2, <1>4, <2>2, <3>1
  <2> QED
    BY <1>1, <2>1, <2>2
<1>7. \A j \in 1..n : \A type \in SessionKeys : key(j, type) # key(n + 1, type)
  <2>1. \A j \in 1..n : s(j) \in DOMAIN k
    BY <1>2
  <2> QED
    BY <1>2, <1>3, <2>1
<1>8. \A i, j \in 1..(n + 1) : \A type \in SessionKeys : key(i, type) = key(j, type) => i = j
  BY <1>1, <1>2, <1>7
<1> QED
  BY <1>5, <1>6, <1>8 DEF KeyedUpTo, s, key, k2

(* The candidates C and the stashes S once Staking has gone through all n.   *)
Candidates(A, n, b, l, C, S) ==
    /\ n \in Nat /\ BondedUpTo(A, n, b, l)
    /\ \A i, j \in 1..n : A[i].stash = A[j].stash => i = j
    /\ C = {l[c].stash : c \in DOMAIN l} /\ S = {A[j].stash : j \in 1..n}

(* Staking elects all the stashes if no controller is shared, nobody if one  *)
(* is: a stash then stays unbonded, and there are fewer candidates than the  *)
(* minimum.                                                                  *)
LEMMA Election ==
    ASSUME NEW A, NEW n, NEW b, NEW l, NEW C, NEW S, Candidates(A, n, b, l, C, S)
    PROVE  /\ Cardinality(C) \in Nat
           /\ IF \A i, j \in 1..n : A[i].controller = A[j].controller => i = j
              THEN Cardinality(C) = n /\ kSubset(n, C) = {S}
              ELSE Cardinality(C) < n
<1> USE DEF Candidates
<1> DEFINE s(j) == A[j].stash
           t(j) == A[j].controller
           h(c) == l[c].stash
           Paired == \A i, j \in 1..n : t(i) = t(j) => i = j
           f == [j \in 1..n |-> s(j)]
<1>1. /\ DOMAIN l = {t(j) : j \in 1..n}
      /\ \A c \in DOMAIN l : \E j \in 1..n : t(j) = c /\ h(c) = s(j)
  <2>1. /\ DOMAIN l = {t(j) : j \in 1..n}
        /\ \A c \in DOMAIN l : \E j \in 1..n :
              t(j) = c /\ l[c] = [stash |-> s(j), active |-> STASH]
    BY ZenonT(60) DEF BondedUpTo
  <2> HIDE DEF s, t
  <2>2. ASSUME NEW c \in DOMAIN l
        PROVE  \E j \in 1..n : t(j) = c /\ h(c) = s(j)
    <3>1. PICK j \in 1..n : t(j) = c /\ l[c] = [stash |-> s(j), active |-> STASH]
      BY <2>1
    <3>2. h(c) = s(j)
      BY <3>1
    <3> QED
      BY <3>1, <3>2
  <2> QED
    BY <2>1, <2>2
<1>2. \A i, j \in 1..n : s(i) = s(j) => i = j
  OBVIOUS
<1>3. S = {s(j) : j \in 1..n} /\ C = {h(c) : c \in DOMAIN l}
  BY Zenon
<1>4. IsFiniteSet(S) /\ Cardinality(S) = n
  <2>1. IsFiniteSet(1..n) /\ Cardinality(1..n) = n
    BY FS_Interval
  <2>2. DOMAIN f = 1..n /\ \A j \in 1..n : f[j] = s(j)
    OBVIOUS
  <2> HIDE DEF s
  <2>3. f \in Surjection(1..n, S)
    BY <1>3 DEF Surjection
  <2>4. f \in Injection(1..n, S)
    BY <1>2, <1>3 DEF Injection, IsInjective
  <2> HIDE DEF f
  <2> QED
    BY <2>1, <2>3, <2>4, FS_Surjection
<1> HIDE DEF s, t, h
<1>5. C \subseteq S
  BY <1>1, <1>3, Zenon
<1>6. IsFiniteSet(C) /\ Cardinality(C) =< n /\ (Cardinality(C) = n => C = S)
  BY <1>4, <1>5, FS_Subset
<1>7. Cardinality(C) \in Nat
  BY <1>6, FS_CardinalityType
<1>8. CASE Paired
  <2>1. \A j \in 1..n : t(j) \in DOMAIN l /\ h(t(j)) = s(j)
    BY <1>1, <1>8
  <2>2. C = S
    <3>1. \A j \in 1..n : s(j) \in C
      BY <1>3, <2>1, Zenon
    <3>2. ASSUME NEW x \in S PROVE x \in C
      <4>1. PICK j \in 1..n : x = s(j)
        BY <1>3
      <4> QED
        BY <3>1, <4>1
    <3> QED
      BY <1>5, <3>2
  <2>3. kSubset(n, C) = {S}
    <3>1. \A T \in SUBSET S : Cardinality(T) = n => T = S
      BY <1>4, FS_Subset
    <3> QED
      BY <1>4, <2>2, <3>1, Zenon DEF kSubset
  <2> QED
    BY <1>4, <1>7, <1>8, <2>2, <2>3 DEF t
<1>9. CASE ~Paired
  <2>1. PICK i \in 1..n, j \in 1..n : t(i) = t(j) /\ i # j
    BY <1>9
  <2>2. ASSUME NEW k \in 1..n, s(k) \in C
        PROVE  h(t(k)) = s(k)
    <3>1. PICK c \in DOMAIN l : h(c) = s(k)
      BY <1>3, <2>2
    <3>2. PICK m \in 1..n : t(m) = c /\ h(c) = s(m)
      BY <1>1, <3>1
    <3>3. m = k
      BY <1>2, <3>1, <3>2
    <3> QED
      BY <3>1, <3>2, <3>3
  <2>3. C # S
    <3>1. SUFFICES ASSUME C = S PROVE FALSE
      OBVIOUS
    <3>2. s(i) \in C /\ s(j) \in C
      BY <1>3, <3>1
    <3>3. h(t(i)) = s(i) /\ h(t(j)) = s(j)
      BY <2>2, <3>2
    <3> QED
      BY <1>2, <2>1, <3>3
  <2>4. Cardinality(C) < n
    BY <1>6, <1>7, <2>3
  <2> QED
    BY <1>7, <1>9, <2>4, Zenon DEF t
<1> QED
  BY <1>8, <1>9

---------------------------------------------------------------------------
(* The inductive invariant *)

Members == spec.authorities
Names == {Members[j].stash : j \in 1..Len(Members)}
Paired == \A i, j \in 1..Len(Members) : Members[i].controller = Members[j].controller => i = j

\* How many of the authorities the pallet at the given position is done with.
Progress(position) ==
    IF next < position THEN 0 ELSE IF next = position THEN item - 1 ELSE Len(Members)

Counters ==
    /\ spec \in Specs /\ next \in 1..34 /\ item \in Nat \ {0}
    /\ IF next \in {10, 11} THEN item =< Len(Members) + 1 ELSE item = 1

\* Balances: once they are built, every stash has at least its endowment, and
\* nobody was endowed twice.
Money ==
    /\ IsFiniteSet(DOMAIN free) /\ \A a \in DOMAIN free : free[a] \in Nat
    /\ issuance = SumFunction(free)
    /\ next =< 8 => DOMAIN free = {}
    /\ next > 8 => /\ IsInjective(Endowed(spec))
                   /\ \A i \in 1..Len(Members) :
                         /\ Members[i].stash \in DOMAIN free
                         /\ free[Members[i].stash] >= AUTHOR_BALANCE

Stakes == BondedUpTo(Members, Progress(10), bonded, ledger)

\* Session: the consensus pallets have no authorities before it is done, then
\* those of the initial authorities, all elected or none.
Sessions ==
    /\ KeyedUpTo(Members, Progress(11), keys)
    /\ authorities = [type \in SessionKeys |-> authorities[type]]
    /\ next =< 11 => \A type \in SessionKeys : authorities[type] = {}
    /\ next > 11 => /\ Len(Members) > 0 /\ validators = Names
                    /\ exposed = IF Paired THEN Names ELSE {}
                    /\ \A type \in SessionKeys :
                          authorities[type] = {Members[j][type] : j \in 1..Len(Members)}

GenesisInv == Counters /\ Money /\ Stakes /\ Sessions /\ (panicked => ~WellFormed)

---------------------------------------------------------------------------
(* Every step keeps the invariant *)

(* The names of the invariant and of WellFormed, in terms of the list of     *)
(* authorities.                                                              *)
LEMMA SpecFacts ==
    ASSUME spec \in Specs
    PROVE  /\ Len(Members) \in Nat /\ DOMAIN Members = 1..Len(Members)
           /\ Distinct(Column("controller")) <=> Paired
           /\ WellFormed <=> /\ Len(Members) > 0 /\ IsInjective(Endowed(spec))
                             /\ \A type \in SessionKeys : \A i, j \in 1..Len(Members) :
                                   Members[i][type] = Members[j][type] => i = j
<1>1. Members \in Seq(Range(Members))
  BY SpecsAssumption DEF Members
<1>2. Len(Members) \in Nat /\ DOMAIN Members = 1..Len(Members)
  BY <1>1
<1>3. Members = <<>> <=> Len(Members) = 0
  BY <1>1
<1>4. ASSUME NEW field
      PROVE  Distinct(Column(field)) <=>
             \A i, j \in 1..Len(Members) : Members[i][field] = Members[j][field] => i = j
  BY <1>2 DEF Distinct, IsInjective, Column, Members
<1>5. Distinct(Column("controller")) <=> Paired
  BY <1>4 DEF Paired
<1>6. spec.endowed \o Column("stash") = Endowed(spec)
  BY DEF Column, Endowed, Stashes
<1>7. WellFormed <=> /\ Members # <<>> /\ Distinct(Endowed(spec))
                     /\ \A type \in SessionKeys : Distinct(Column(type))
  BY <1>6, Zenon DEF WellFormed, Members
<1> HIDE DEF Members
<1>8. Members # <<>> <=> Len(Members) > 0
  BY <1>2, <1>3
<1> QED
  BY <1>2, <1>4, <1>5, <1>7, <1>8, Zenon DEF Distinct

(* No stash is named twice if no account is endowed twice.                   *)
LEMMA StashesDiffer ==
    ASSUME spec \in Specs, IsInjective(Endowed(spec))
    PROVE  \A i, j \in 1..Len(Members) : Members[i].stash = Members[j].stash => i = j
<1> DEFINE m == Len(spec.endowed)
           n == Len(testnet_genesis(spec).balances)
<1>1. /\ m \in Nat /\ DOMAIN Endowed(spec) = 1..n
      /\ \A i \in DOMAIN Members : m + i \in 1..n /\ Endowed(spec)[m + i] = Members[i].stash
  BY ConfigBalances DEF Members
<1>2. Len(Members) \in Nat /\ DOMAIN Members = 1..Len(Members)
  BY SpecFacts
<1> HIDE DEF m, n
<1>3. SUFFICES ASSUME NEW i \in 1..Len(Members), NEW j \in 1..Len(Members),
                      Members[i].stash = Members[j].stash
               PROVE  i = j
  OBVIOUS
<1>4. Endowed(spec)[m + i] = Endowed(spec)[m + j]
  BY <1>1, <1>2, <1>3
<1>5. m + i = m + j
  BY <1>1, <1>2, <1>4 DEF IsInjective
<1> QED
  BY <1>1, <1>2, <1>5

(* Nothing that is read off the specification changes.                       *)
LEMMA SpecKept ==
    ASSUME spec' = spec
    PROVE  /\ Members' = Members /\ Names' = Names /\ (Paired' <=> Paired)
           /\ Endowed(spec)' = Endowed(spec) /\ (WellFormed' <=> WellFormed)
<1>1. Members' = Members
  BY DEF Members
<1>2. Names' = Names /\ (Paired' <=> Paired)
  BY <1>1 DEF Names, Paired
<1>3. Endowed(spec)' = Endowed(spec)
  BY DEF Endowed, Stashes
<1>4. WellFormed' <=> WellFormed
  BY Zenon DEF WellFormed, Column
<1> QED
  BY <1>1, <1>2, <1>3, <1>4

(* An assertion fails: nothing else is written.                              *)
LEMMA PanicKeeps ==
    ASSUME GenesisInv, Panic, ~WellFormed
    PROVE  GenesisInv'
<1> USE DEF Panic, staking, session, GenesisInv
<1>1. Members' = Members /\ Names' = Names /\ (Paired' <=> Paired) /\ ~WellFormed'
      /\ Endowed(spec)' = Endowed(spec)
  BY SpecKept
<1>2. Counters'
  BY <1>1 DEF Counters
<1>3. Money'
  BY <1>1 DEF Money
<1>4. Progress(10)' = Progress(10) /\ Progress(11)' = Progress(11)
  BY <1>1 DEF Progress
<1>5. Stakes'
  BY <1>1, <1>4 DEF Stakes
<1>6. Sessions'
  BY <1>1, <1>4 DEF Sessions
<1> QED
  BY <1>1, <1>2, <1>3, <1>5, <1>6

(* A pallet is done, after all of its list if it has one.                    *)
LEMMA BuiltCounts ==
    ASSUME Counters, ~Done, Built, next \in {10, 11} => item > Len(Members)
    PROVE  /\ Counters' /\ next' = next + 1 /\ next \in 1..33
           /\ Progress(10)' = Progress(10) /\ Progress(11)' = Progress(11)
<1>1. Members' = Members
  BY SpecKept DEF Built
<1>2. Len(Members) \in Nat
  BY SpecFacts DEF Counters
<1>3. next \in 1..33 /\ next' = next + 1 /\ item' = 1
  BY Order DEF Counters, Done, Built
<1>4. next \in {10, 11} => item = Len(Members) + 1
  BY <1>2 DEF Counters
<1>5. Counters'
  BY <1>1, <1>2, <1>3 DEF Counters, Built
<1>6. ASSUME NEW p \in {10, 11}
      PROVE  Progress(p)' = Progress(p)
  BY <1>1, <1>2, <1>3, <1>4, <1>6 DEF Progress
<1> QED
  BY <1>3, <1>5, <1>6

(* A pallet that leaves the balances alone, other than Balances itself.      *)
LEMMA MoneyKept ==
    ASSUME Money, UNCHANGED <<spec, free, issuance>>, next \in Nat, next' \in Nat,
           next' =< 8 => next =< 8, next' > 8 => next > 8
    PROVE  Money'
<1>1. Members' = Members /\ Endowed(spec)' = Endowed(spec)
  BY SpecKept
<1> QED
  BY <1>1 DEF Money

(* A pallet that leaves the session alone, other than Session itself.        *)
LEMMA SessionsKept ==
    ASSUME Sessions, UNCHANGED <<spec, keys, validators, exposed, authorities>>,
           next \in Nat, next' \in Nat, next' =< 11 => next =< 11, next' > 11 => next > 11,
           Progress(11)' = Progress(11)
    PROVE  Sessions'
<1>1. Members' = Members /\ Names' = Names /\ (Paired' <=> Paired)
  BY SpecKept
<1> QED
  BY <1>1 DEF Sessions

(* A pallet that leaves the stakes alone keeps their part of the invariant.  *)
LEMMA StakesKept ==
    ASSUME Stakes, UNCHANGED <<spec, bonded, ledger>>, Progress(10)' = Progress(10)
    PROVE  Stakes'
<1>1. Members' = Members
  BY SpecKept
<1> QED
  BY <1>1 DEF Stakes

(* Whose turn it is.                                                         *)
LEMMA Turn ==
    ASSUME GenesisInv, NEW pallet, At(pallet)
    PROVE  /\ next \in 1..33 /\ ~Done /\ ~panicked /\ spec \in Specs
           /\ Counters /\ Money /\ Stakes /\ Sessions
           /\ pallet = "Balances" => next = 8
           /\ pallet = "Staking" => next = 10
           /\ pallet = "Session" => next = 11
           /\ pallet = "EVM" => next = 19
           /\ pallet \notin {"Balances", "Staking", "Session"} => next \notin {8, 10, 11}
<1>1. /\ ~Done /\ ~panicked /\ spec \in Specs /\ PALLETS[next] = pallet
      /\ Counters /\ Money /\ Stakes /\ Sessions /\ next \in 1..34
  BY DEF GenesisInv, Counters, At
<1>2. next \in 1..33
  BY <1>1, Order DEF Done
<1> QED
  BY <1>1, <1>2, Order, Zenon

(* Balances builds or aborts on an account that is endowed twice.            *)
LEMMA BalancesKeeps ==
    ASSUME GenesisInv, balances_build
    PROVE  GenesisInv'
<1> DEFINE b == testnet_genesis(spec).balances
           n == Len(b)
           c == Endowed(spec)
           H == {b[i][1] : i \in DOMAIN b}
           given(a) == CHOOSE i \in DOMAIN b : b[i][1] = a
           m == Len(spec.endowed)
<1>1. Counters /\ Money /\ spec \in Specs /\ ~Done /\ ~panicked
  BY Turn DEF balances_build
<1>2. next = 8
  BY Turn DEF balances_build
<1>3. /\ m \in Nat /\ n \in Nat /\ DOMAIN b = 1..n /\ DOMAIN c = 1..n
      /\ \A i \in 1..n : b[i][1] = c[i] /\ b[i][2] \in Nat
      /\ \A i \in DOMAIN Members : /\ m + i \in 1..n /\ b[m + i][2] = AUTHOR_BALANCE
                                   /\ c[m + i] = Members[i].stash
  BY <1>1, ConfigBalances DEF Members
<1>4. IF Cardinality(H) < n
      THEN Panic
      ELSE /\ free' = [a \in DOMAIN free \cup H |-> IF a \in H THEN b[given(a)][2] ELSE free[a]]
           /\ issuance' = SumFunction([i \in DOMAIN b |-> b[i][2]])
           /\ Built /\ UNCHANGED <<staking, session, authorities>>
  BY SMTT(30) DEF balances_build, config
<1>5. Len(Members) \in Nat /\ DOMAIN Members = 1..Len(Members)
      /\ (~IsInjective(c) => ~WellFormed)
  BY <1>1, SpecFacts
<1> HIDE DEF b, c, n, m
<1>6. H = {c[i] : i \in 1..n}
  BY <1>3
<1>7. Cardinality(H) < n <=> ~IsInjective(c)
  BY <1>3, <1>6, HoldersCounted
<1>8. CASE Cardinality(H) < n
  BY <1>4, <1>5, <1>7, <1>8, PanicKeeps
<1>9. CASE ~(Cardinality(H) < n)
  <2>1. /\ free' = [a \in DOMAIN free \cup H |-> IF a \in H THEN b[given(a)][2] ELSE free[a]]
        /\ issuance' = SumFunction([i \in DOMAIN b |-> b[i][2]])
        /\ Built /\ UNCHANGED <<staking, session, authorities>>
        /\ IsInjective(c) /\ spec' = spec /\ panicked' = panicked
    BY <1>4, <1>7, <1>9 DEF Built
  <2>2. DOMAIN free = {}
    BY <1>1, <1>2 DEF Money
  <2>3. DOMAIN free' = H /\ \A a \in H : free'[a] = b[given(a)][2]
    BY <2>1, <2>2
  <2>4. /\ Counters' /\ next' = 9 /\ next' \in Nat /\ next \in Nat
        /\ Progress(10)' = Progress(10) /\ Progress(11)' = Progress(11)
    BY <1>1, <1>2, <2>1, BuiltCounts
  <2>5. /\ \A i \in 1..n : free'[c[i]] = b[i][2]
        /\ IsFiniteSet(DOMAIN free')
        /\ SumFunction(free') = SumFunction([i \in DOMAIN b |-> b[i][2]])
    <3>1. /\ DOMAIN free' = {c[i] : i \in 1..n}
          /\ \A a \in DOMAIN free' : free'[a] = b[CHOOSE i \in DOMAIN b : b[i][1] = a][2]
      BY <1>6, <2>3
    <3>2. Given(n, b, c, free')
      BY <1>3, <2>1, <3>1 DEF Given
    <3> QED
      BY <3>2, HoldersSum
  <2>6. \A a \in DOMAIN free' : free'[a] \in Nat
    BY <1>3, <1>6, <2>3, <2>5
  <2>7. \A i \in 1..Len(Members) : /\ Members[i].stash \in DOMAIN free'
                                   /\ free'[Members[i].stash] = AUTHOR_BALANCE
    BY <1>3, <1>5, <1>6, <2>3, <2>5
  <2>8. Members' = Members /\ Endowed(spec)' = c /\ (WellFormed' <=> WellFormed)
    BY <2>1, SpecKept DEF c
  <2>9. Money'
    <3>1. \A i \in 1..Len(Members) : /\ Members[i].stash \in DOMAIN free'
                                     /\ free'[Members[i].stash] >= AUTHOR_BALANCE
      BY <2>7 DEF AUTHOR_BALANCE
    <3>2. issuance' = SumFunction(free')
      BY <2>1, <2>5
    <3>3. ~(next' =< 8)
      BY <2>4
    <3> QED
      BY <2>1, <2>5, <2>6, <2>8, <3>1, <3>2, <3>3, Zenon DEF Money
  <2>10. Stakes'
    BY <2>1, <2>4, StakesKept DEF GenesisInv, staking
  <2>11. Sessions'
    BY <1>2, <2>1, <2>4, SessionsKept DEF GenesisInv, staking, session
  <2> QED
    BY <1>1, <2>1, <2>4, <2>9, <2>10, <2>11 DEF GenesisInv
<1> QED
  BY <1>8, <1>9

(* The EVM pallet mints what its accounts are given.                         *)
LEMMA EvmKeeps ==
    ASSUME GenesisInv, evm_build
    PROVE  GenesisInv'
<1> DEFINE e == spec.evm
           D == {<<"evm", a>> : a \in DOMAIN e}
           had(x) == IF x \in DOMAIN free THEN free[x] ELSE 0
<1>1. Counters /\ Money /\ spec \in Specs /\ ~Done /\ ~panicked
  BY Turn DEF evm_build
<1>2. next = 19
  BY Turn DEF evm_build
<1>3. testnet_genesis(spec).evm = e
  BY <1>1, Config
<1>4. /\ free' = [x \in DOMAIN free \cup D |-> IF x \in D THEN had(x) + e[x[2]] ELSE free[x]]
      /\ issuance' = issuance + SumFunction(e)
      /\ Built /\ UNCHANGED <<staking, session, authorities>> /\ spec' = spec /\ panicked' = panicked
  BY <1>3 DEF evm_build, config, Built
<1>5. IsFiniteSet(DOMAIN e) /\ \A a \in DOMAIN e : e[a] \in Nat
  BY <1>1, SpecsAssumption
<1> HIDE DEF e
<1>6. /\ DOMAIN free' = DOMAIN free \cup D
      /\ \A x \in D : free'[x] = (IF x \in DOMAIN free THEN free[x] ELSE 0) + e[x[2]]
      /\ \A x \in DOMAIN free' \ D : free'[x] = free[x]
  BY <1>4
<1> HIDE DEF D
<1>7. /\ IsFiniteSet(DOMAIN free') /\ \A a \in DOMAIN free' : free'[a] \in Nat
      /\ \A a \in DOMAIN free : free'[a] >= free[a]
      /\ SumFunction(free') = SumFunction(free) + SumFunction(e)
  <2>1. IsFiniteSet(DOMAIN free) /\ \A a \in DOMAIN free : free[a] \in Nat
    BY <1>1 DEF Money
  <2>2. D = {<<"evm", a>> : a \in DOMAIN e}
    BY DEF D
  <2>3. Deposited(free, e, D, free')
    BY <1>5, <1>6, <2>1, <2>2 DEF Deposited
  <2> QED
    BY <2>3, EvmSum
<1>8. /\ Counters' /\ next' = 20 /\ next' \in Nat /\ next \in Nat
      /\ Progress(10)' = Progress(10) /\ Progress(11)' = Progress(11)
  BY <1>1, <1>2, <1>4, BuiltCounts
<1>9. Members' = Members /\ Endowed(spec)' = Endowed(spec)
  BY <1>4, SpecKept
<1>10. Money'
  <2>1. issuance' = SumFunction(free')
    BY <1>1, <1>4, <1>7 DEF Money
  <2>2. ASSUME NEW i \in 1..Len(Members)
        PROVE  Members[i].stash \in DOMAIN free' /\ free'[Members[i].stash] >= AUTHOR_BALANCE
    <3> DEFINE x == Members[i].stash
    <3>1. x \in DOMAIN free /\ free[x] >= AUTHOR_BALANCE /\ free[x] \in Nat
      BY <1>1, <1>2 DEF Money
    <3>2. x \in DOMAIN free' /\ free'[x] >= free[x] /\ free'[x] \in Nat
      BY <1>6, <1>7, <3>1
    <3> HIDE DEF x
    <3>3. x \in DOMAIN free' /\ free'[x] >= AUTHOR_BALANCE
      BY <3>1, <3>2 DEF AUTHOR_BALANCE
    <3> QED
      BY <3>3 DEF x
  <2>3. IsInjective(Endowed(spec))
    BY <1>1, <1>2 DEF Money
  <2> QED
    BY <1>7, <1>8, <1>9, <2>1, <2>2, <2>3 DEF Money
<1>11. Stakes'
  BY <1>4, <1>8, StakesKept DEF GenesisInv, staking
<1>12. Sessions'
  BY <1>2, <1>4, <1>8, SessionsKept DEF GenesisInv, staking, session
<1> QED
  BY <1>1, <1>4, <1>8, <1>10, <1>11, <1>12 DEF GenesisInv

(* Staking bonds one staker after the other, each of which has the funds.    *)
LEMMA StakingKeeps ==
    ASSUME GenesisInv, staking_build
    PROVE  GenesisInv'
<1> DEFINE n == Len(Members)
<1>1. Counters /\ Money /\ Stakes /\ Sessions /\ spec \in Specs /\ ~Done /\ ~panicked /\ next = 10
  BY Turn DEF staking_build
<1>2. n \in Nat /\ DOMAIN Members = 1..n
  BY <1>1, SpecFacts
<1>3. /\ Len(testnet_genesis(spec).stakers) = n
      /\ \A i \in 1..n : LET s == testnet_genesis(spec).stakers[i]
                         IN  /\ s.stash = Members[i].stash /\ s.controller = Members[i].controller
                             /\ s.value = STASH
  BY <1>1, <1>2, ConfigStakers DEF Members
<1>4. IsInjective(Endowed(spec))
      /\ \A i \in 1..n : Members[i].stash \in DOMAIN free /\ free[Members[i].stash] >= AUTHOR_BALANCE
                         /\ free[Members[i].stash] \in Nat
  BY <1>1 DEF Money
<1>5. item \in Nat \ {0} /\ item =< n + 1
  BY <1>1 DEF Counters
<1>6. CASE item > n /\ Built /\ UNCHANGED <<free, issuance, staking, session, authorities>>
  <2>1. /\ Counters' /\ next' = 11 /\ next \in Nat /\ next' \in Nat
        /\ Progress(10)' = Progress(10) /\ Progress(11)' = Progress(11)
    BY <1>1, <1>6, BuiltCounts
  <2>2. spec' = spec /\ panicked' = panicked /\ UNCHANGED <<free, issuance>>
        /\ UNCHANGED <<bonded, ledger, exposed, keys, validators, authorities>>
    BY <1>6 DEF Built, staking, session
  <2>3. Money'
    BY <1>1, <2>1, <2>2, MoneyKept
  <2>4. Stakes'
    BY <1>1, <2>1, <2>2, StakesKept
  <2>5. Sessions'
    BY <1>1, <2>1, <2>2, SessionsKept
  <2> QED
    BY <1>1, <2>1, <2>2, <2>3, <2>4, <2>5 DEF GenesisInv
<1>7. CASE item =< n
  <2> DEFINE x == Members[item]
  <2>1. item \in 1..n
    BY <1>2, <1>5, <1>7
  <2>2. x.stash \in DOMAIN free /\ ~(free[x.stash] < STASH)
    BY <1>4, <2>1 DEF STASH, AUTHOR_BALANCE
  <2>3. /\ IF x.stash \notin DOMAIN bonded /\ x.controller \notin DOMAIN ledger
           THEN /\ bonded' = Insert(bonded, x.stash, x.controller)
                /\ ledger' = Insert(ledger, x.controller, [stash |-> x.stash, active |-> STASH])
           ELSE bonded' = bonded /\ ledger' = ledger
        /\ item' = item + 1
        /\ UNCHANGED <<spec, next, panicked, free, issuance, exposed, session, authorities>>
    <3> DEFINE s == testnet_genesis(spec).stakers[item]
    <3>1. s.stash = x.stash /\ s.controller = x.controller /\ s.value = STASH
      BY <1>3, <2>1
    <3>2. ~(item > Len(config.stakers)) /\ config.stakers[item] = s
      BY <1>2, <1>3, <1>5, <1>7 DEF config
    <3>3. IF s.stash \notin DOMAIN free \/ (s.stash \in DOMAIN free /\ free[s.stash] < s.value)
          THEN Panic
          ELSE /\ IF s.stash \notin DOMAIN bonded /\ s.controller \notin DOMAIN ledger
                  THEN /\ bonded' = Insert(bonded, s.stash, s.controller)
                       /\ ledger' = Insert(ledger, s.controller, [stash |-> s.stash, active |-> s.value])
                  ELSE UNCHANGED <<bonded, ledger>>
               /\ item' = item + 1
               /\ UNCHANGED <<spec, next, panicked, free, issuance, exposed, session, authorities>>
      BY <3>2, Zenon DEF staking_build
    <3> HIDE DEF s, x
    <3> QED
      BY <2>2, <3>1, <3>3
  <2>4. Members' = Members
    BY <2>3, SpecKept
  <2>5. Counters'
    BY <1>1, <1>2, <1>5, <1>7, <2>3, <2>4 DEF Counters
  <2>6. /\ Progress(10) = item - 1 /\ item - 1 \in Nat /\ Progress(10)' = item
        /\ Progress(11)' = Progress(11) /\ item - 1 + 1 = item
    BY <1>1, <1>5, <2>3, <2>4 DEF Progress
  <2>7. Stakes'
    <3>1. \A i, j \in 1..n : Members[i].stash = Members[j].stash => i = j
      BY <1>1, <1>4, StashesDiffer
    <3>2. \A i, j \in 1..item : Members[i].stash = Members[j].stash => i = j
      <4>1. 1..item \subseteq 1..n
        BY <1>2, <2>1
      <4> QED
        BY <3>1, <4>1
    <3>3. BondedUpTo(Members, item - 1, bonded, ledger)
      BY <1>1, <2>6 DEF Stakes
    <3>4. BondedUpTo(Members, item - 1 + 1, bonded', ledger')
      <4>1. PICK k \in Nat : k = item - 1 /\ k + 1 = item
        BY <1>5
      <4>2. BondedUpTo(Members, k + 1, bonded', ledger')
        BY <2>3, <3>2, <3>3, <4>1, BondOne
      <4> QED
        BY <4>1, <4>2
    <3> QED
      BY <2>4, <2>6, <3>4 DEF Stakes
  <2>8. Money'
    BY <1>1, <2>3, MoneyKept
  <2>9. Sessions'
    BY <1>1, <2>3, <2>6, SessionsKept DEF session
  <2> QED
    BY <1>1, <2>3, <2>5, <2>7, <2>8, <2>9, SMTT(30) DEF GenesisInv
<1>8. \/ item > n /\ Built /\ UNCHANGED <<free, issuance, staking, session, authorities>>
      \/ item =< n
  BY <1>3, Zenon DEF staking_build, config
<1> QED
  BY <1>6, <1>7, <1>8

(* The pallets that write nothing of this state keep the invariant.          *)
LEMMA OtherKeeps ==
    ASSUME GenesisInv, ~panicked, ~Done, next \notin {8, 10, 11}, Built,
           UNCHANGED <<free, issuance, staking, session, authorities>>
    PROVE  GenesisInv'
<1>1. Counters /\ Money /\ Stakes /\ Sessions /\ spec \in Specs
  BY DEF GenesisInv, Counters
<1>2. spec' = spec /\ panicked' = panicked
      /\ UNCHANGED <<free, issuance, bonded, ledger, exposed, keys, validators, authorities>>
  BY DEF Built, staking, session
<1>3. /\ Counters' /\ next' = next + 1 /\ next \in 1..33
      /\ Progress(10)' = Progress(10) /\ Progress(11)' = Progress(11)
  BY <1>1, BuiltCounts
<1>4. next \in Nat /\ next' \in Nat /\ (next' =< 8 <=> next =< 8) /\ (next' =< 11 <=> next =< 11)
      /\ (next' > 8 <=> next > 8) /\ (next' > 11 <=> next > 11)
  BY <1>3
<1>5. Money'
  BY <1>1, <1>2, <1>4, MoneyKept
<1>6. Stakes'
  BY <1>1, <1>2, <1>3, StakesKept
<1>7. Sessions'
  BY <1>1, <1>2, <1>3, <1>4, SessionsKept
<1> QED
  BY <1>2, <1>3, <1>5, <1>6, <1>7 DEF GenesisInv

(* A consensus pallet is given no authorities of its own: its list stays.    *)
LEMMA AuthoritiesKeep ==
    ASSUME GenesisInv, NEW pallet \in DOMAIN OwnKeys, authorities_build(pallet)
    PROVE  GenesisInv'
<1> DEFINE type == OwnKeys[pallet]
<1>1. type \in SessionKeys /\ pallet \notin {"Balances", "Staking", "Session"}
  BY DEF OwnKeys, SessionKeys
<1>2. Sessions /\ spec \in Specs /\ ~Done /\ ~panicked /\ next \notin {8, 10, 11}
  BY <1>1, Turn DEF authorities_build
<1>3. testnet_genesis(spec)[type] = {}
  BY <1>1, <1>2, Config
<1> HIDE DEF type
<1>4. /\ authorities' = [authorities EXCEPT ![type] = @ \cup {}]
      /\ Built /\ UNCHANGED <<free, issuance, staking, session>>
  BY <1>3 DEF authorities_build, config, type
<1>5. authorities' = authorities
  BY <1>1, <1>2, <1>4 DEF Sessions
<1> QED
  BY <1>2, <1>4, <1>5, OtherKeeps

(* The keys of the next authority.                                           *)
LEMMA SessionKeysKeep ==
    ASSUME GenesisInv, session_build, item =< Len(Members)
    PROVE  GenesisInv'
<1> DEFINE n == Len(Members)
           k == testnet_genesis(spec).keys[item]
           x == Members[item]
<1>1. Counters /\ Money /\ Stakes /\ Sessions /\ spec \in Specs /\ ~Done /\ ~panicked /\ next = 11
  BY Turn DEF session_build
<1>2. n \in Nat /\ DOMAIN Members = 1..n
  BY <1>1, SpecFacts
<1>3. item \in 1..n /\ item \in Nat
  BY <1>1, <1>2 DEF Counters
<1>4. /\ Len(testnet_genesis(spec).keys) = n
      /\ k.account = x.stash /\ k.validator = x.stash
      /\ \A type \in SessionKeys : k.keys[type] = x[type]
  BY <1>1, <1>2, <1>3, ConfigKeys DEF Members
<1>5. IF KeyTaken(k.validator, k.keys) \/ k.account \notin DOMAIN free
      THEN Panic
      ELSE /\ keys' = Insert(keys, k.validator, k.keys)
           /\ item' = item + 1
           /\ UNCHANGED <<spec, next, panicked, free, issuance, staking, validators, authorities>>
  <2>1. ~(item > Len(config.keys)) /\ config.keys[item] = k
    BY <1>2, <1>3, <1>4 DEF config
  <2> QED
    BY <2>1, Zenon DEF session_build
<1>6. /\ IsInjective(Endowed(spec)) /\ x.stash \in DOMAIN free
      /\ \A i, j \in 1..n : Members[i].stash = Members[j].stash => i = j
  BY <1>1, <1>3, StashesDiffer DEF Money
<1>7. PICK m \in Nat : m = item - 1 /\ m + 1 = item /\ Progress(11) = m /\ Progress(10) = n
  BY <1>1, <1>3 DEF Progress
<1>8. KeyedUpTo(Members, m, keys)
  BY <1>1, <1>7 DEF Sessions
<1>9. 1..(m + 1) \subseteq 1..n /\ 1..m \subseteq 1..n /\ \A i \in 1..m : i # item
  BY <1>2, <1>3, <1>7
<1>10. DOMAIN keys = {Members[j].stash : j \in 1..m} /\ x.stash \notin DOMAIN keys
  <2>1. DOMAIN keys = {Members[j].stash : j \in 1..m}
    BY <1>8 DEF KeyedUpTo
  <2> QED
    BY <1>3, <1>6, <1>9, <2>1
<1> HIDE DEF k
<1>11. CASE KeyTaken(k.validator, k.keys)
  <2>1. PICK v \in DOMAIN keys, type \in SessionKeys : keys[v][type] = k.keys[type]
    BY <1>11 DEF KeyTaken
  <2>2. PICK j \in 1..m : v = Members[j].stash
    BY <1>10
  <2>3. keys[v][type] = Members[j][type]
    BY <1>8, <2>2 DEF KeyedUpTo
  <2>4. Members[j][type] = Members[item][type] /\ j # item /\ j \in 1..n
    BY <1>4, <1>9, <2>1, <2>3
  <2>5. ~WellFormed
    BY <1>1, <1>3, <2>4, SpecFacts
  <2> QED
    BY <1>5, <1>11, <2>5, PanicKeeps
<1>12. CASE ~KeyTaken(k.validator, k.keys)
  <2>1. /\ keys' = Insert(keys, x.stash, k.keys)
        /\ item' = item + 1
        /\ UNCHANGED <<spec, next, panicked, free, issuance, staking, validators, authorities>>
    BY <1>4, <1>5, <1>6, <1>12
  <2>2. Members' = Members /\ Names' = Names /\ (Paired' <=> Paired)
    BY <2>1, SpecKept
  <2>3. Counters'
    BY <1>1, <1>2, <1>3, <2>1, <2>2 DEF Counters
  <2>4. Progress(11)' = m + 1 /\ Progress(10)' = Progress(10)
    BY <1>1, <1>3, <1>7, <2>1, <2>2 DEF Progress
  <2>5. KeyedUpTo(Members, m + 1, keys')
    <3>1. \A i, j \in 1..(m + 1) : Members[i].stash = Members[j].stash => i = j
      BY <1>6, <1>9
    <3>2. \A v \in DOMAIN keys : \A type \in SessionKeys : keys[v][type] # k.keys[type]
      BY <1>4, <1>10, <1>12 DEF KeyTaken
    <3>3. /\ \A type \in SessionKeys : k.keys[type] = Members[m + 1][type]
          /\ keys' = Insert(keys, Members[m + 1].stash, k.keys)
      BY <1>4, <1>7, <2>1
    <3> HIDE DEF x
    <3>4. NewKeys(Members, m, keys, k.keys)
      BY <1>8, <3>1, <3>2, <3>3 DEF NewKeys
    <3> QED
      BY <3>3, <3>4, KeyOne
  <2>6. Money'
    BY <1>1, <2>1, MoneyKept
  <2>7. Stakes'
    BY <1>1, <2>1, <2>4, StakesKept DEF staking
  <2>8. Sessions'
    BY <1>1, <2>1, <2>2, <2>4, <2>5 DEF Sessions
  <2> QED
    BY <1>1, <2>1, <2>3, <2>6, <2>7, <2>8 DEF GenesisInv
<1> QED
  BY <1>11, <1>12

(* The first session, once all keys are stored.                              *)
LEMMA FirstSessionKeeps ==
    ASSUME GenesisInv, session_build, item > Len(Members)
    PROVE  GenesisInv'
<1> DEFINE n == Len(Members)
           first(e) == IF elections # {} THEN e
                       ELSE {config.keys[i].validator : i \in DOMAIN config.keys}
<1>1. Counters /\ Money /\ Stakes /\ Sessions /\ spec \in Specs /\ ~Done /\ ~panicked /\ next = 11
  BY Turn DEF session_build
<1>2. n \in Nat /\ DOMAIN Members = 1..n
  BY <1>1, SpecFacts
<1>3. item = n + 1 /\ Progress(10) = n /\ Progress(11) = n
  BY <1>1, <1>2 DEF Counters, Progress
<1>4. /\ Len(config.keys) = n /\ DOMAIN config.keys = 1..n
      /\ \A i \in 1..n : config.keys[i].validator = Members[i].stash
      /\ config.validator_count = n /\ config.minimum_validator_count = n
  BY <1>1, <1>2, ConfigKeys, Config DEF Members, config
<1>5. PICK elected \in (IF elections = {} THEN {{}} ELSE elections) :
          IF first(elected) = {} \/ \E type \in SessionKeys : authorities[type] # {}
          THEN Panic
          ELSE /\ validators' = first(elected) /\ exposed' = elected
               /\ authorities' = [type \in SessionKeys |->
                                     {keys[v][type] : v \in first(elected) \cap DOMAIN keys}]
               /\ Built /\ UNCHANGED <<free, issuance, bonded, ledger, keys>>
  <2>1. ~(item =< Len(config.keys))
    BY <1>2, <1>3, <1>4
  <2> QED
    BY <2>1, Zenon DEF session_build
<1>6. \A i, j \in 1..n : Members[i].stash = Members[j].stash => i = j
  BY <1>1, StashesDiffer DEF Money
<1>7. /\ Cardinality(candidates) \in Nat
      /\ IF Paired THEN Cardinality(candidates) = n /\ kSubset(n, candidates) = {Names}
         ELSE Cardinality(candidates) < n
  <2>1. BondedUpTo(Members, n, bonded, ledger)
    BY <1>1, <1>3 DEF Stakes
  <2>2. /\ candidates = {ledger[c].stash : c \in DOMAIN ledger}
        /\ Names = {Members[j].stash : j \in 1..n}
    BY DEF candidates, Names
  <2>3. Candidates(Members, n, bonded, ledger, candidates, Names)
    BY <1>2, <1>6, <2>1, <2>2, Zenon DEF Candidates
  <2> QED
    BY <2>3, Election DEF Paired
<1>8. elections = IF Paired THEN {Names} ELSE {}
  <2>1. elections = LET m == IF Cardinality(candidates) < n THEN Cardinality(candidates) ELSE n
                    IN  IF m < n THEN {} ELSE kSubset(m, candidates)
    BY <1>4, Zenon DEF elections
  <2>2. CASE Paired
    BY <1>2, <1>7, <2>1, <2>2
  <2>3. CASE ~Paired
    BY <1>2, <1>7, <2>1, <2>3
  <2> QED
    BY <2>2, <2>3
<1>9. {config.keys[i].validator : i \in DOMAIN config.keys} = Names
  BY <1>4 DEF Names
<1>10. first(elected) = Names /\ elected = IF Paired THEN Names ELSE {}
  BY <1>5, <1>8, <1>9
<1>11. \A type \in SessionKeys : authorities[type] = {}
  BY <1>1 DEF Sessions
<1> HIDE DEF first
<1>12. Names = {} <=> n = 0
  <2>1. n # 0 => 1 \in 1..n
    BY <1>2
  <2>2. n = 0 => 1..n = {}
    OBVIOUS
  <2>3. Names = {} <=> 1..n = {}
    BY Zenon DEF Names
  <2> QED
    BY <2>1, <2>2, <2>3
<1>13. CASE n = 0
  <2>1. ~WellFormed
    BY <1>1, <1>13, SpecFacts
  <2> QED
    BY <1>5, <1>10, <1>12, <1>13, <2>1, PanicKeeps
<1>14. CASE n # 0
  <2>1. /\ validators' = Names /\ exposed' = IF Paired THEN Names ELSE {}
        /\ authorities' = [type \in SessionKeys |-> {keys[v][type] : v \in Names \cap DOMAIN keys}]
        /\ Built /\ UNCHANGED <<free, issuance, bonded, ledger, keys>>
        /\ spec' = spec /\ panicked' = panicked
    BY <1>5, <1>10, <1>11, <1>12, <1>14 DEF Built
  <2>2. Members' = Members /\ Names' = Names /\ (Paired' <=> Paired)
    BY <2>1, SpecKept
  <2>3. /\ Counters' /\ next' = 12 /\ next \in Nat /\ next' \in Nat
        /\ Progress(10)' = Progress(10) /\ Progress(11)' = Progress(11)
    BY <1>1, <2>1, BuiltCounts
  <2>4. /\ KeyedUpTo(Members, n, keys) /\ DOMAIN keys = Names
        /\ \A j \in 1..n : \A type \in SessionKeys : keys[Members[j].stash][type] = Members[j][type]
    BY <1>1, <1>3, SMTT(30) DEF Sessions, KeyedUpTo, Names
  <2>5. ASSUME NEW type \in SessionKeys
        PROVE  authorities'[type] = {Members[j][type] : j \in 1..n}
    <3>1. authorities'[type] = {keys[v][type] : v \in Names}
      BY <2>1, <2>4
    <3>2. {keys[v][type] : v \in Names} = {keys[Members[j].stash][type] : j \in 1..n}
      BY DEF Names
    <3>3. {keys[Members[j].stash][type] : j \in 1..n} = {Members[j][type] : j \in 1..n}
      BY <2>4
    <3> QED
      BY <3>1, <3>2, <3>3
  <2>6. authorities' = [type \in SessionKeys |-> authorities'[type]]
    BY <2>1
  <2>7. Sessions'
    BY <1>2, <1>3, <1>14, <2>1, <2>2, <2>3, <2>4, <2>5, <2>6, SMTT(30) DEF Sessions
  <2>8. Money'
    BY <1>1, <2>1, <2>3, MoneyKept
  <2>9. Stakes'
    BY <1>1, <2>1, <2>3, StakesKept
  <2> QED
    BY <1>1, <2>1, <2>3, <2>7, <2>8, <2>9 DEF GenesisInv
<1> QED
  BY <1>13, <1>14

(* Session sets one key set after the other and starts the first session.    *)
LEMMA SessionKeeps ==
    ASSUME GenesisInv, session_build
    PROVE  GenesisInv'
<1>1. Len(Members) \in Nat /\ item \in Nat
  BY SpecFacts DEF GenesisInv, Counters
<1> QED
  BY <1>1, SessionKeysKeep, FirstSessionKeeps

(* The invariant holds before the first pallet is built.                     *)
LEMMA GenesisStarts == Init => GenesisInv
<1>1. SUFFICES ASSUME Init PROVE GenesisInv
  OBVIOUS
<1>2. spec \in Specs /\ next = 1 /\ item = 1 /\ panicked = FALSE
  BY <1>1 DEF Init
<1>3. Counters
  BY <1>2 DEF Counters
<1>4. Money
  <2>1. DOMAIN free = {} /\ issuance = 0
    BY <1>1 DEF Init
  <2>2. SumFunction(free) = 0
    BY <2>1, SumEmpty DEF SumFunction
  <2> QED
    BY <1>2, <2>1, <2>2, FS_EmptySet DEF Money
<1>5. Progress(10) = 0 /\ Progress(11) = 0
  BY <1>2 DEF Progress
<1>6. Stakes
  BY <1>1, <1>5, NoneBonded DEF Init, Stakes
<1>7. Sessions
  <2>1. KeyedUpTo(Members, Progress(11), keys)
    BY <1>1, <1>5, NoneKeyed DEF Init
  <2> QED
    BY <1>1, <1>2, <2>1 DEF Init, Sessions
<1> QED
  BY <1>2, <1>3, <1>4, <1>6, <1>7 DEF GenesisInv

(* Every step of the build keeps the invariant.                              *)
LEMMA GenesisStep == GenesisInv /\ [Next]_vars => GenesisInv'
<1>1. SUFFICES ASSUME GenesisInv, [Next]_vars PROVE GenesisInv'
  OBVIOUS
<1>2. CASE balances_build
  BY <1>1, <1>2, BalancesKeeps
<1>3. CASE staking_build
  BY <1>1, <1>3, StakingKeeps
<1>4. CASE session_build
  BY <1>1, <1>4, SessionKeeps
<1>5. CASE evm_build
  BY <1>1, <1>5, EvmKeeps
<1>6. CASE \E pallet \in DOMAIN OwnKeys : authorities_build(pallet)
  BY <1>1, <1>6, AuthoritiesKeep
<1>7. CASE other_build
  <2>1. At(PALLETS[next]) /\ PALLETS[next] \notin {"Balances", "Staking", "Session"}
    BY <1>7, Zenon DEF other_build, At
  <2>2. next \notin {8, 10, 11}
    BY <1>1, <2>1, Turn
  <2> QED
    BY <1>1, <1>7, <2>2, OtherKeeps DEF other_build
<1>8. CASE UNCHANGED vars
  <2>1. /\ UNCHANGED <<spec, next, item, panicked, free, issuance, bonded, ledger, exposed>>
        /\ UNCHANGED <<keys, validators, authorities>>
    BY <1>8 DEF vars
  <2>2. Members' = Members /\ (WellFormed' <=> WellFormed)
    BY <2>1, SpecKept
  <2>3. Progress(10)' = Progress(10) /\ Progress(11)' = Progress(11)
    BY <2>1, <2>2 DEF Progress
  <2>4. Counters /\ Money /\ Stakes /\ Sessions /\ next \in Nat /\ next' \in Nat
    BY <1>1, <2>1 DEF GenesisInv, Counters
  <2>5. Counters'
    BY <2>1, <2>2, <2>4 DEF Counters
  <2>6. Money'
    BY <2>1, <2>4, MoneyKept
  <2>7. Stakes'
    BY <2>1, <2>3, <2>4, StakesKept
  <2>8. Sessions'
    BY <2>1, <2>3, <2>4, SessionsKept
  <2> QED
    BY <1>1, <2>1, <2>2, <2>5, <2>6, <2>7, <2>8 DEF GenesisInv
<1> QED
  BY <1>1, <1>2, <1>3, <1>4, <1>5, <1>6, <1>7, <1>8 DEF Next, Finished

---------------------------------------------------------------------------
(* What the genesis state promises *)

(* When all pallets are built, the specification was well formed.            *)
LEMMA BuiltWellFormed ==
    ASSUME GenesisInv, Done
    PROVE  WellFormed /\ next > 11 /\ next > 8 /\ Progress(10) = Len(Members)
<1>1. next \in Nat /\ next > 11 /\ next > 8 /\ spec \in Specs
  BY Order DEF GenesisInv, Counters, Done
<1>2. Progress(10) = Len(Members) /\ Progress(11) = Len(Members)
  BY <1>1 DEF Progress
<1>3. \A i, j \in 1..Len(Members) : \A type \in SessionKeys :
          Members[i][type] = Members[j][type] => i = j
  BY <1>2 DEF GenesisInv, Sessions, KeyedUpTo
<1>4. Len(Members) > 0 /\ IsInjective(Endowed(spec))
  BY <1>1 DEF GenesisInv, Sessions, Money
<1> QED
  BY <1>1, <1>2, <1>3, <1>4, SpecFacts

(* The initial authorities are in office exactly if no controller is shared. *)
LEMMA ReadyIffPaired ==
    ASSUME GenesisInv, Done
    PROVE  Ready <=> Paired
<1> DEFINE n == Len(Members)
<1>1. next > 11 /\ next > 8 /\ Progress(10) = n /\ spec \in Specs
  BY BuiltWellFormed DEF GenesisInv, Counters
<1>2. n \in Nat /\ DOMAIN Members = 1..n
  BY <1>1, SpecFacts
<1>3. /\ n > 0 /\ validators = Names /\ exposed = IF Paired THEN Names ELSE {}
      /\ \A type \in SessionKeys : authorities[type] = {Members[j][type] : j \in 1..n}
  BY <1>1 DEF GenesisInv, Sessions
<1>4. BondedUpTo(Members, n, bonded, ledger)
  BY <1>1 DEF GenesisInv, Stakes
<1>5. \A i \in 1..n : free[Members[i].stash] \in Nat /\ free[Members[i].stash] >= AUTHOR_BALANCE
  BY <1>1 DEF GenesisInv, Money
<1>6. Initial = {Members[i] : i \in 1..n}
  BY <1>2 DEF Initial, Members
<1>7. ASSUME Ready PROVE Paired
  <2>1. exposed = Names
    BY <1>3, <1>7 DEF Ready
  <2>2. 1 \in 1..n
    BY <1>2, <1>3
  <2>3. Names # {}
    BY <2>2 DEF Names
  <2> QED
    BY <1>3, <2>1, <2>3
<1>8. ASSUME Paired PROVE Ready
  <2>1. validators = {a.stash : a \in Initial} /\ exposed = validators
    <3>1. {a.stash : a \in Initial} = {Members[i].stash : i \in 1..n}
      BY <1>6
    <3> QED
      BY <1>3, <1>8, <3>1 DEF Names
  <2>2. ASSUME NEW a \in Initial
        PROVE  /\ a.stash \in DOMAIN bonded /\ bonded[a.stash] = a.controller
               /\ ledger[a.controller].stash = a.stash
               /\ ledger[a.controller].active =< free[a.stash]
    <3>1. PICK i \in 1..n : a = Members[i]
      BY <1>6
    <3>2. a.controller \in DOMAIN ledger
      BY <1>4, <3>1 DEF BondedUpTo
    <3>3. PICK j \in 1..n :
              /\ Members[j].controller = a.controller
              /\ ledger[a.controller] = [stash |-> Members[j].stash, active |-> STASH]
              /\ Members[j].stash \in DOMAIN bonded /\ bonded[Members[j].stash] = a.controller
      BY <1>4, <3>2 DEF BondedUpTo
    <3>4. i = j
      BY <1>8, <3>1, <3>3 DEF Paired
    <3>5. ledger[a.controller] = [stash |-> a.stash, active |-> STASH]
      BY <3>1, <3>3, <3>4
    <3>6. STASH =< free[a.stash]
      BY <1>5, <3>1 DEF STASH, AUTHOR_BALANCE
    <3> QED
      BY <3>1, <3>3, <3>4, <3>5, <3>6
  <2>3. ASSUME NEW type \in SessionKeys
        PROVE  authorities[type] = {a[type] : a \in Initial}
    BY <1>3, <1>6
  <2> QED
    BY <2>1, <2>2, <2>3 DEF Ready
<1> QED
  BY <1>7, <1>8

(* Genesis: the total issuance is the sum of the accounts' balances, with    *)
(* the accounts that the EVM pallet endows after Balances has set it.        *)
THEOREM GenesisIssuance == Spec => []IssuanceIsBacked
<1>1. GenesisInv => IssuanceIsBacked
  BY DEF GenesisInv, Money, IssuanceIsBacked
<1> QED
  BY <1>1, GenesisStarts, GenesisStep, PTL DEF Spec

(* testnet_genesis, on any list of authorities and endowed accounts: the     *)
(* assertions of the pallets abort the node exactly if the specification is  *)
(* not well formed.                                                          *)
THEOREM GenesisBuilds == Spec => []BuildsWhenWellFormed
<1>1. GenesisInv => BuildsWhenWellFormed
  BY BuiltWellFormed DEF GenesisInv, BuildsWhenWellFormed
<1> QED
  BY <1>1, GenesisStarts, GenesisStep, PTL DEF Spec

(* testnet_genesis, on any specification that can be built: the initial      *)
(* authorities start elected, bonded and in every consensus pallet exactly   *)
(* if no two of them share a controller.                                     *)
THEOREM GenesisReady == Spec => []ReadyWhenPaired
<1>1. GenesisInv => ReadyWhenPaired
  <2>1. SUFFICES ASSUME GenesisInv, Done PROVE Distinct(Column("controller")) <=> Ready
    BY DEF ReadyWhenPaired
  <2>2. Distinct(Column("controller")) <=> Paired
    BY <2>1, SpecFacts DEF GenesisInv, Counters
  <2> QED
    BY <2>1, <2>2, ReadyIffPaired
<1> QED
  BY <1>1, GenesisStarts, GenesisStep, PTL DEF Spec

---------------------------------------------------------------------------
(* The built-in chains *)

(* Well formed, and no controller is shared.                                 *)
Startable(s) ==
    /\ Len(s.authorities) > 0 /\ IsInjective(Endowed(s))
    /\ \A field \in SessionKeys \cup {"controller"} : \A i, j \in 1..Len(s.authorities) :
          s.authorities[i][field] = s.authorities[j][field] => i = j

(* The accounts in E are those derived from the paths in P.                  *)
Derived(E, P) == DOMAIN E = DOMAIN P /\ \A i \in DOMAIN P : E[i] = <<"account", P[i]>>

(* Accounts derived from different seed paths are different.                 *)
LEMMA DerivedInjective ==
    ASSUME NEW E, NEW P, Derived(E, P), IsInjective(P)
    PROVE  IsInjective(E)
  BY DEF Derived, IsInjective

(* Two lists derived from disjoint lists of seed paths are disjoint.         *)
LEMMA DerivedDisjoint ==
    ASSUME NEW E, NEW P, NEW T, NEW Q, Derived(E, P), Derived(T, Q),
           \A i \in DOMAIN P, j \in DOMAIN Q : P[i] # Q[j]
    PROVE  \A i \in DOMAIN E, j \in DOMAIN T : E[i] # T[j]
  BY DEF Derived

(* Accounts derived from different paths differ.                             *)
LEMMA PathsDiffer ==
    ASSUME NEW s \in Specs, NEW P, NEW Q, IsInjective(P), IsInjective(Q),
           \A i \in DOMAIN P, j \in DOMAIN Q : P[i] # Q[j],
           Derived(s.endowed, P), Derived(Stashes(s), Q)
    PROVE  IsInjective(Endowed(s))
<1> DEFINE E == s.endowed
           T == Stashes(s)
           S == Range(E) \cup Range(T)
<1>1. Len(s.authorities) \in Nat /\ DOMAIN s.authorities = 1..Len(s.authorities) /\ E \in Seq(Range(E))
  BY SpecsAssumption
<1>2. T = [i \in 1..Len(s.authorities) |-> T[i]]
  BY <1>1 DEF Stashes
<1>3. E \in Seq(S) /\ DOMAIN E = 1..Len(E)
  BY <1>1
<1>4. IsInjective(E) /\ IsInjective(T) /\ \A i \in DOMAIN E, j \in DOMAIN T : E[i] # T[j]
  BY DerivedInjective, DerivedDisjoint
<1> HIDE DEF T
<1>5. Range(T) \subseteq S
  OBVIOUS
<1> HIDE DEF E, S
<1>6. T \in Seq(S) /\ DOMAIN T = 1..Len(T)
  <2>1. PICK n \in Nat : T = [i \in 1..n |-> T[i]]
    BY <1>1, <1>2
  <2>2. T \in Seq(S)
    BY <1>5, <2>1, SeqOf
  <2> QED
    BY <2>2
<1>7. IsInjective(E \o T)
  BY <1>3, <1>4, <1>6, JoinInjective
<1> QED
  BY <1>7 DEF Endowed, E, T

(* The development chain can be built and started.                           *)
LEMMA DevelopmentStarts ==
    ASSUME development_config \in Specs
    PROVE  Startable(development_config)
<1> DEFINE s == development_config
           P == <<<<"Alice">>, <<"Bob">>, <<"Bob", "stash">>>>
           Q == <<<<"Alice", "stash">>>>
<1>1. IsInjective(P) /\ IsInjective(Q) /\ \A i \in DOMAIN P, j \in DOMAIN Q : P[i] # Q[j]
  BY DEF IsInjective
<1>2. s.endowed = accounts(P) /\ s.authorities = <<authority_keys_from_seed("Alice")>>
  BY DEF development_config
<1>3. Derived(s.endowed, P)
  BY <1>2 DEF Derived, accounts, get_account_id_from_seed, get_from_seed
<1>4. Derived(Stashes(s), Q)
  BY <1>2 DEF Derived, Stashes, authority_keys_from_seed, get_account_id_from_seed, get_from_seed
<1>5. IsInjective(Endowed(s))
  <2> HIDE DEF P, Q, s
  <2> QED
    BY <1>1, <1>3, <1>4, PathsDiffer DEF s
<1>6. Len(s.authorities) = 1
  BY <1>2
<1> QED
  BY <1>5, <1>6 DEF Startable

(* The local testnet can be built and started.                               *)
LEMMA LocalStarts ==
    ASSUME local_testnet_config \in Specs
    PROVE  Startable(local_testnet_config)
<1> DEFINE s == local_testnet_config
           P == <<<<"Alice">>, <<"Bob">>, <<"Charlie">>, <<"Dave">>, <<"Eve">>, <<"Ferdie">>,
                  <<"Charlie", "stash">>, <<"Dave", "stash">>, <<"Eve", "stash">>,
                  <<"Ferdie", "stash">>>>
           Q == <<<<"Alice", "stash">>, <<"Bob", "stash">>>>
<1>1. IsInjective(P) /\ IsInjective(Q)
  BY DEF IsInjective
<1>2. \A i \in DOMAIN P, j \in DOMAIN Q : P[i] # Q[j]
  OBVIOUS
<1>3. /\ s.endowed = accounts(P)
      /\ s.authorities = <<authority_keys_from_seed("Alice"), authority_keys_from_seed("Bob")>>
  BY DEF local_testnet_config
<1>4. Derived(s.endowed, P)
  BY <1>3 DEF Derived, accounts, get_account_id_from_seed, get_from_seed
<1>5. Derived(Stashes(s), Q)
  <2>1. /\ authority_keys_from_seed("Alice").stash = <<"account", Q[1]>>
        /\ authority_keys_from_seed("Bob").stash = <<"account", Q[2]>>
    BY DEF authority_keys_from_seed, get_account_id_from_seed, get_from_seed
  <2>2. DOMAIN s.authorities = 1..2 /\ DOMAIN Q = 1..2
    BY <1>3
  <2>3. \A i \in 1..2 : s.authorities[i].stash = <<"account", Q[i]>>
    BY <1>3, <2>1
  <2> HIDE DEF P, Q, s
  <2> QED
    BY <2>2, <2>3 DEF Derived, Stashes
<1>6. IsInjective(Endowed(s))
  <2> HIDE DEF P, Q, s
  <2> QED
    BY <1>1, <1>2, <1>4, <1>5, PathsDiffer DEF s
<1>7. Len(s.authorities) = 2
  BY <1>3
<1>8. \A field \in SessionKeys \cup {"controller"} :
          authority_keys_from_seed("Alice")[field] # authority_keys_from_seed("Bob")[field]
  BY DEF SessionKeys, authority_keys_from_seed, get_account_id_from_seed, get_from_seed
<1>9. ASSUME NEW field \in SessionKeys \cup {"controller"}, NEW i \in 1..2, NEW j \in 1..2,
             s.authorities[i][field] = s.authorities[j][field]
      PROVE  i = j
  BY <1>3, <1>8, <1>9
<1> QED
  BY <1>6, <1>7, <1>9 DEF Startable

(* Authorities with different accounts and keys differ in all of them.       *)
LEMMA HexDiffer ==
    ASSUME NEW a, NEW b, NEW g, NEW i, NEW d, NEW v, NEW w, NEW x, NEW y, NEW z,
           a # v, b # w, g # x, i # y, d # z
    PROVE  \A field \in SessionKeys \cup {"controller"} :
              hex_authority(a, b, g, i, d)[field] # hex_authority(v, w, x, y, z)[field]
<1> DEFINE A == hex_authority(a, b, g, i, d)
           B == hex_authority(v, w, x, y, z)
<1>1. A.controller # B.controller /\ A.babe # B.babe /\ A.grandpa # B.grandpa
  BY DEF hex_authority
<1>2. A.im_online # B.im_online /\ A.discovery # B.discovery
  BY DEF hex_authority
<1> HIDE DEF A, B
<1>3. \A field \in SessionKeys \cup {"controller"} : A[field] # B[field]
  BY <1>1, <1>2 DEF SessionKeys
<1> QED
  BY <1>3 DEF A, B

(* The public test networks have the same accounts and keys.                 *)
LEMMA TestnetStarts ==
    ASSUME NEW s \in Specs, s.endowed = local_rose_testnet_config.endowed,
           s.authorities = local_rose_testnet_config.authorities
    PROVE  Startable(s)
<1> DEFINE P == <<<<"0e42eb6f">>>>
           Q == <<<<"222c5fa2">>, <<"9235b080">>, <<"ec0dc859">>>>
           A == <<hex_authority("222c5fa2", "005b5b12", "6575c115", "f8bc696e", "64f317d4"),
                  hex_authority("9235b080", "dcb5d89f", "c7925c95", "14e2ecd1", "e404b380"),
                  hex_authority("ec0dc859", "c08908eb", "0ec2a175", "f49fda7f", "e0520566")>>
<1>1. IsInjective(P) /\ IsInjective(Q) /\ \A i \in DOMAIN P, j \in DOMAIN Q : P[i] # Q[j]
  BY DEF IsInjective
<1>2. s.endowed = <<<<"account", <<"0e42eb6f">>>>>> /\ s.authorities = A
  BY DEF local_rose_testnet_config
<1>3. Derived(s.endowed, P)
  BY <1>2 DEF Derived
<1>4. Derived(Stashes(s), Q)
  BY <1>2, SMTT(30) DEF Derived, Stashes, hex_authority
<1>5. IsInjective(Endowed(s))
  <2> HIDE DEF P, Q
  <2> QED
    BY <1>1, <1>3, <1>4, PathsDiffer
<1>6. Len(s.authorities) = 3
  BY <1>2
<1>7. \A field \in SessionKeys \cup {"controller"} :
          A[1][field] # A[2][field] /\ A[1][field] # A[3][field] /\ A[2][field] # A[3][field]
  <2>1. \A field \in SessionKeys \cup {"controller"} : A[1][field] # A[2][field]
    BY HexDiffer
  <2>2. \A field \in SessionKeys \cup {"controller"} : A[1][field] # A[3][field]
    BY HexDiffer
  <2>3. \A field \in SessionKeys \cup {"controller"} : A[2][field] # A[3][field]
    BY HexDiffer
  <2> QED
    BY <2>1, <2>2, <2>3, Zenon
<1> HIDE DEF A
<1>8. ASSUME NEW field \in SessionKeys \cup {"controller"}, NEW i \in 1..3, NEW j \in 1..3,
             s.authorities[i][field] = s.authorities[j][field]
      PROVE  i = j
  BY <1>2, <1>7, <1>8
<1> QED
  BY <1>5, <1>6, <1>8 DEF Startable

(* Every chain that load_spec knows by name can be built and started.        *)
LEMMA BuiltInStarts ==
    ASSUME NEW s \in Specs, s \in BuiltIn
    PROVE  Startable(s)
<1>1. \/ s = development_config \/ s = local_testnet_config
      \/ s = local_rose_testnet_config \/ s = iris_testnet_config
  BY DEF BuiltIn, load_spec
<1>2. /\ iris_testnet_config.endowed = local_rose_testnet_config.endowed
      /\ iris_testnet_config.authorities = local_rose_testnet_config.authorities
  BY DEF iris_testnet_config, local_rose_testnet_config
<1> QED
  BY <1>1, <1>2, DevelopmentStarts, LocalStarts, TestnetStarts

(* load_spec's chains all start: no assertion of a pallet aborts the node,   *)
(* and at the end the initial authorities are elected, bonded and in every   *)
(* consensus pallet.                                                         *)
THEOREM BuiltInChains == Spec => []BuiltInChainsStart
<1>1. GenesisInv => BuiltInChainsStart
  <2>1. SUFFICES ASSUME GenesisInv, spec \in BuiltIn
                 PROVE  ~panicked /\ (Done => Ready)
    BY DEF BuiltInChainsStart
  <2>2. spec \in Specs
    BY <2>1 DEF GenesisInv, Counters
  <2>3. Startable(spec)
    BY <2>1, <2>2, BuiltInStarts
  <2>4. Paired
    BY <2>3 DEF Startable, Paired, Members
  <2>5. WellFormed
    <3>1. /\ Len(Members) > 0 /\ IsInjective(Endowed(spec))
          /\ \A type \in SessionKeys : \A i, j \in 1..Len(Members) :
                Members[i][type] = Members[j][type] => i = j
      BY <2>3 DEF Startable, Members
    <3> QED
      BY <2>2, <3>1, SpecFacts, Zenon
  <2> QED
    BY <2>1, <2>4, <2>5, ReadyIffPaired DEF GenesisInv
<1> QED
  BY <1>1, GenesisStarts, GenesisStep, PTL DEF Spec

=============================================================================
