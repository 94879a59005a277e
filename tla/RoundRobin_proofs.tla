-------------------------- MODULE RoundRobin_proofs --------------------------
(***************************************************************************)
(* Proofs about RoundRobin: what NewWithMTLS builds of any configuration,  *)
(* and the turns that any number of callers take on any number of groups   *)
(* and clients, with counters that wrap anywhere.                          *)
(***************************************************************************)
EXTENDS RoundRobin, FiniteSetTheorems, SequenceTheorems,
        WellFoundedInduction, TLAPS

-----------------------------------------------------------------------------
(* Counters that wrap.                                                     *)

LEMMA DivMod ==
  ASSUME NEW a \in Nat, NEW d \in Nat \ {0}
  PROVE  /\ a \div d \in Nat /\ a % d \in 0..(d - 1)
         /\ a = d * (a \div d) + (a % d)
OBVIOUS

LEMMA DivModUnique ==
  ASSUME NEW a \in Nat, NEW d \in Nat \ {0},
         NEW q \in Nat, NEW r \in 0..(d - 1), a = d * q + r
  PROVE  a \div d = q /\ a % d = r
OBVIOUS

(* One more.                                                               *)
LEMMA DivModStep ==
  ASSUME NEW a \in Nat, NEW d \in Nat \ {0}
  PROVE  IF a % d = d - 1
           THEN (a + 1) % d = 0 /\ (a + 1) \div d = (a \div d) + 1
           ELSE (a + 1) % d = (a % d) + 1 /\ (a + 1) \div d = a \div d
<1> DEFINE q == a \div d
           r == a % d
<1>1. q \in Nat /\ r \in 0..(d - 1) /\ a = d * q + r
  BY DivMod
<1>2. a + 1 \in Nat
  OBVIOUS
<1> SUFFICES IF r = d - 1 THEN (a + 1) % d = 0 /\ (a + 1) \div d = q + 1
                          ELSE (a + 1) % d = r + 1 /\ (a + 1) \div d = q
  OBVIOUS
<1> HIDE DEF q, r
<1>3. CASE r = d - 1
  <2>1. a + 1 = d * (q + 1) + 0 /\ q + 1 \in Nat /\ 0 \in 0..(d - 1)
    BY <1>1, <1>3
  <2>2. (a + 1) \div d = q + 1 /\ (a + 1) % d = 0
    BY <2>1, <1>2, DivModUnique
  <2> QED
    BY <2>2, <1>3
<1>4. CASE r # d - 1
  <2>1. a + 1 = d * q + (r + 1) /\ r + 1 \in 0..(d - 1)
    BY <1>1, <1>4
  <2>2. (a + 1) \div d = q /\ (a + 1) % d = r + 1
    BY <2>1, <1>1, <1>2, DivModUnique
  <2> QED
    BY <2>2, <1>4
<1> QED
  BY <1>3, <1>4

(* Adding to a counter that has wrapped is wrapping what was added to.     *)
LEMMA ModMod ==
  ASSUME NEW a \in Nat, NEW d \in Nat \ {0}
  PROVE  ((a % d) + 1) % d = (a + 1) % d
<1> DEFINE r == a % d
<1>1. r \in 0..(d - 1) /\ r \in Nat
  BY DivMod
<1>2. r % d = r
  <2>1. r = d * 0 + r
    BY <1>1
  <2> HIDE DEF r
  <2> QED
    BY <2>1, <1>1, DivModUnique
<1>3. (a + 1) % d = IF r = d - 1 THEN 0 ELSE r + 1
  BY DivModStep
<1>4. (r + 1) % d = IF r % d = d - 1 THEN 0 ELSE (r % d) + 1
  <2> HIDE DEF r
  <2> QED
    BY <1>1, DivModStep
<1> QED
  BY <1>2, <1>3, <1>4

-----------------------------------------------------------------------------
(* The inductive invariant.                                                *)

(* f: how often each of c has had its turn, of t turns in all.  The        *)
(* counter took the values 1, 2, ... modulo Wrap: of two, the lower has    *)
(* had one turn more since the counter was last 0 if the turn is between   *)
(* them, and one more of each time round, if the last turn of a round is.  *)
(* At the start 0 was passed over.                                         *)
InTurn(f, c, t) ==
  LET now == (t % Wrap) % c
      last == (Wrap - 1) % c
  IN
  \A i, j \in 0..(c - 1) : i < j =>
    f[i] = f[j] + (IF i <= last /\ last < j THEN t \div Wrap ELSE 0)
                + (IF i <= now /\ now < j THEN 1 ELSE 0)
                - (IF i = 0 THEN 1 ELSE 0)

CallsOf == [k \in 0..(Len(sc.groups) - 1) |-> Calls(k + 1)]

(* The client is what was built, for good.                                 *)
Built ==
  \/ sc = NoClient /\ called = 0
  \/ \E name \in ResolveServerName(config) : sc = NewClient(config, name)

(* Every call has its turn at a group, and every call that has chosen a    *)
(* client had its turn at it.                                              *)
GroupsInTurn ==
  /\ roundRobin = called % Wrap
  /\ InTurn(CallsOf, Len(sc.groups), called)

ClientsInTurn ==
  \A g \in Groups :
    /\ groupRobin[g] = Turns(g) % Wrap
    /\ Calls(g) <= called
    /\ InTurn(served[g], sc.groups[g].clients, Turns(g))

IInv == TypeOK /\ Built /\ GroupsInTurn /\ ClientsInTurn

-----------------------------------------------------------------------------
(* Turns.                                                                  *)

LEMMA Residues ==
  ASSUME NEW c \in Nat \ {0}, NEW t \in Nat
  PROVE  /\ (Wrap - 1) % c \in 0..(c - 1) /\ (t % Wrap) % c \in 0..(c - 1)
         /\ t \div Wrap \in Nat
<1>1. Wrap \in Nat \ {0} /\ Wrap - 1 \in Nat
  BY WrapAssumption
<1>2. (Wrap - 1) % c \in 0..(c - 1)
  BY <1>1, DivMod
<1>3. t \div Wrap \in Nat /\ t % Wrap \in 0..(Wrap - 1)
  BY <1>1, DivMod
<1>4. (t % Wrap) % c \in 0..(c - 1)
  <2>1. t % Wrap \in Nat
    BY <1>3, <1>1
  <2> QED
    BY <2>1, DivMod
<1> QED
  BY <1>2, <1>3, <1>4

(* A turn is taken by the one the counter comes to.                        *)
LEMMA TurnTaken ==
  ASSUME NEW c \in Nat \ {0}, NEW t \in Nat,
         NEW f \in [0..(c - 1) -> Nat], InTurn(f, c, t),
         NEW e \in [0..(c - 1) -> Nat],
         \A k \in 0..(c - 1) :
           e[k] = f[k] + (IF k = ((t + 1) % Wrap) % c THEN 1 ELSE 0)
  PROVE  InTurn(e, c, t + 1)
<1> DEFINE last == (Wrap - 1) % c
           now == (t % Wrap) % c
           next == ((t + 1) % Wrap) % c
           round == t \div Wrap
           round2 == (t + 1) \div Wrap
<1>0. Wrap \in Nat \ {0} /\ Wrap - 1 \in Nat
  BY WrapAssumption
<1>1. last \in 0..(c - 1) /\ now \in 0..(c - 1) /\ round \in Nat
  BY Residues
<1>2. \/ now = last /\ next = 0 /\ round2 = round + 1
      \/ next = (IF now = c - 1 THEN 0 ELSE now + 1) /\ round2 = round
  <2>1. CASE t % Wrap = Wrap - 1
    <3>1. (t + 1) % Wrap = 0 /\ round2 = round + 1
      BY <2>1, <1>0, DivModStep
    <3>2. 0 % c = 0
      <4>1. 0 = c * 0 + 0 /\ 0 \in 0..(c - 1)
        OBVIOUS
      <4> QED
        BY <4>1, DivModUnique
    <3> QED
      BY <3>1, <3>2, <2>1
  <2>2. CASE t % Wrap # Wrap - 1
    <3>1. (t + 1) % Wrap = (t % Wrap) + 1 /\ round2 = round
      BY <2>2, <1>0, DivModStep
    <3>2. t % Wrap \in Nat
      BY <1>0, DivMod
    <3>3. ((t % Wrap) + 1) % c = IF now = c - 1 THEN 0 ELSE now + 1
      BY <3>2, DivModStep
    <3> QED
      BY <3>1, <3>3
  <2> QED
    BY <2>1, <2>2
<1>3. \A i, j \in 0..(c - 1) : i < j =>
        f[i] = f[j] + (IF i <= last /\ last < j THEN round ELSE 0)
                    + (IF i <= now /\ now < j THEN 1 ELSE 0)
                    - (IF i = 0 THEN 1 ELSE 0)
  BY DEF InTurn
<1>4. \A k \in 0..(c - 1) : e[k] = f[k] + (IF k = next THEN 1 ELSE 0)
  OBVIOUS
<1> SUFFICES ASSUME NEW i \in 0..(c - 1), NEW j \in 0..(c - 1), i < j
             PROVE  e[i] = e[j] + (IF i <= last /\ last < j THEN round2 ELSE 0)
                                + (IF i <= next /\ next < j THEN 1 ELSE 0)
                                - (IF i = 0 THEN 1 ELSE 0)
  BY DEF InTurn
<1> DEFINE inLast == IF i <= last /\ last < j THEN round ELSE 0
           inLast2 == IF i <= last /\ last < j THEN round2 ELSE 0
           inNow == IF i <= now /\ now < j THEN 1 ELSE 0
           inNext == IF i <= next /\ next < j THEN 1 ELSE 0
           passed == IF i = 0 THEN 1 ELSE 0
           iTurn == IF i = next THEN 1 ELSE 0
           jTurn == IF j = next THEN 1 ELSE 0
<1>5. f[i] = f[j] + inLast + inNow - passed
  BY <1>3
<1>6. /\ e[i] = f[i] + iTurn /\ e[j] = f[j] + jTurn
      /\ f[i] \in Int /\ f[j] \in Int /\ e[i] \in Int /\ e[j] \in Int
  BY <1>4
<1> HIDE DEF last, now, next, round, round2
<1>7. /\ i \in Int /\ j \in Int /\ c \in Int /\ last \in Int /\ now \in Int
      /\ next \in Int /\ round \in Int /\ round2 \in Int
      /\ 0 <= i /\ i < j /\ j <= c - 1 /\ 0 <= now /\ now <= c - 1
  BY <1>1, <1>2
<1>8. inLast2 + inNext = inLast + inNow + iTurn - jTurn
  BY <1>7, <1>2
<1>9. /\ inLast \in Int /\ inLast2 \in Int /\ inNow \in Int /\ inNext \in Int
      /\ passed \in Int /\ iTurn \in Int /\ jTurn \in Int
  BY <1>7
<1> HIDE DEF inLast, inLast2, inNow, inNext, passed, iTurn, jTurn
<1>10. ASSUME NEW fi \in Int, NEW fj \in Int, NEW ei, NEW ej,
              fi = fj + inLast + inNow - passed, ei = fi + iTurn, ej = fj + jTurn
       PROVE  ei = ej + inLast2 + inNext - passed
  BY ONLY <1>8, <1>9, <1>10
<1>11. e[i] = e[j] + inLast2 + inNext - passed
  BY <1>5, <1>6, <1>10
<1> QED
  BY <1>11 DEF inLast2, inNext, passed

(* At most one turn apart, and one more for each time the counter wrapped. *)
LEMMA Apart ==
  ASSUME NEW c \in Nat \ {0}, NEW t \in Nat,
         NEW f \in [0..(c - 1) -> Nat], InTurn(f, c, t),
         NEW i \in 0..(c - 1), NEW j \in 0..(c - 1)
  PROVE  /\ f[i] <= f[j] + 1 + (t \div Wrap)
         /\ Wrap % c = 0 => f[i] <= f[j] + 1
<1> DEFINE last == (Wrap - 1) % c
           now == (t % Wrap) % c
           round == t \div Wrap
<1>0. Wrap \in Nat \ {0} /\ Wrap - 1 \in Nat /\ Wrap = (Wrap - 1) + 1
  BY WrapAssumption
<1>1. last \in 0..(c - 1) /\ round \in Nat /\ now \in 0..(c - 1)
  BY Residues
<1>2. Wrap % c = 0 => last = c - 1
  <2>1. Wrap % c = IF last = c - 1 THEN 0 ELSE last + 1
    BY <1>0, DivModStep
  <2> QED
    BY <2>1, <1>1
<1>3. \A k, l \in 0..(c - 1) : k < l =>
        f[k] = f[l] + (IF k <= last /\ last < l THEN round ELSE 0)
                    + (IF k <= now /\ now < l THEN 1 ELSE 0)
                    - (IF k = 0 THEN 1 ELSE 0)
  BY DEF InTurn
<1>4. f[i] \in Nat /\ f[j] \in Nat
  OBVIOUS
<1> SUFFICES f[i] <= f[j] + 1 + round /\ (Wrap % c = 0 => f[i] <= f[j] + 1)
  OBVIOUS
<1> HIDE DEF last, now, round
<1>9. /\ i \in Int /\ j \in Int /\ c \in Int /\ last \in Int /\ now \in Int
      /\ round \in Int /\ 0 <= round /\ i <= c - 1 /\ j <= c - 1
      /\ 0 <= i /\ 0 <= j
  BY <1>1
<1> DEFINE inLast(k, l) == IF k <= last /\ last < l THEN round ELSE 0
           inNow(k, l) == IF k <= now /\ now < l THEN 1 ELSE 0
           passed(k) == IF k = 0 THEN 1 ELSE 0
<1>8. \A k, l \in 0..(c - 1) :
        /\ inLast(k, l) \in Int /\ 0 <= inLast(k, l) /\ inLast(k, l) <= round
        /\ Wrap % c = 0 => inLast(k, l) = 0
        /\ inNow(k, l) \in {0, 1} /\ passed(k) \in {0, 1}
  BY <1>1, <1>2, <1>9
<1>10. \A k, l \in 0..(c - 1) : k < l =>
         f[k] = f[l] + inLast(k, l) + inNow(k, l) - passed(k)
  BY <1>3
<1> HIDE DEF inLast, inNow, passed
<1>11. ASSUME NEW fk \in Nat, NEW fl \in Nat, NEW r \in Int, NEW m \in {0, 1},
              NEW z \in {0, 1}, 0 <= r, r <= round, fk = fl + r + m - z
       PROVE  fk <= fl + 1 + round /\ fl <= fk + 1 /\ (r = 0 => fk <= fl + 1)
  BY ONLY <1>9, <1>11
<1>5. ASSUME NEW k \in 0..(c - 1), NEW l \in 0..(c - 1), k < l
      PROVE  /\ f[k] <= f[l] + 1 + round /\ f[l] <= f[k] + 1
             /\ Wrap % c = 0 => f[k] <= f[l] + 1
  <2>1. f[k] = f[l] + inLast(k, l) + inNow(k, l) - passed(k)
    BY <1>10, <1>5
  <2>2. f[k] \in Nat /\ f[l] \in Nat
    OBVIOUS
  <2>3. /\ inLast(k, l) \in Int /\ 0 <= inLast(k, l) /\ inLast(k, l) <= round
        /\ Wrap % c = 0 => inLast(k, l) = 0
        /\ inNow(k, l) \in {0, 1} /\ passed(k) \in {0, 1}
    BY <1>8
  <2> QED
    BY ONLY <2>1, <2>2, <2>3, <1>11
<1>6. ASSUME NEW k \in Nat, NEW l \in Nat, l <= k + 1
      PROVE  l <= k + 1 + round
  BY <1>6, <1>9
<1>7. CASE i = j
  BY <1>4, <1>7, <1>9
<1> QED
  BY <1>4, <1>5, <1>6, <1>7, <1>9

-----------------------------------------------------------------------------
(* Sums.  SumFunction folds + over a function: it takes one element after  *)
(* another out of its domain.                                              *)

LEMMA NatSetInduction ==
  ASSUME NEW N, 0 \in N, \A n \in Nat : n \in N => n + 1 \in N
  PROVE  Nat \subseteq N
<1> SUFFICES ASSUME ~(Nat \subseteq N) PROVE FALSE
  OBVIOUS
<1> DEFINE rest == Nat \ N
           less == OpToRel(<, Nat)
<1>1. rest \subseteq Nat /\ rest # {}
  OBVIOUS
<1>2. IsWellFoundedOn(less, Nat)
  BY NatLessThanWellFounded
<1>3. \A x, y \in Nat : <<x, y>> \in less <=> x < y
  BY DEF OpToRel
<1>4. \E x \in rest : \A y \in rest : ~(<<y, x>> \in less)
  <2> HIDE DEF less, rest
  <2> QED
    BY <1>1, <1>2, WFMin
<1>5. PICK x \in rest : \A y \in rest : ~(y < x)
  <2> HIDE DEF less
  <2> QED
    BY <1>3, <1>4
<1>6. x # 0 /\ x - 1 \in Nat /\ x - 1 < x /\ x - 1 + 1 = x
  BY <1>5
<1> QED
  BY <1>5, <1>6

Pick(s) == CHOOSE x \in s : TRUE
Without(s) == s \ {Pick(s)}

LEMMA Picked ==
  ASSUME NEW s, s # {}
  PROVE  Pick(s) \in s
BY DEF Pick

LEMMA Smaller ==
  ASSUME NEW s, IsFiniteSet(s), s # {}
  PROVE  /\ Cardinality(s) \in Nat \ {0}
         /\ Cardinality(Without(s)) = Cardinality(s) - 1
<1>1. Pick(s) \in s
  BY Picked
<1> QED
  BY <1>1, FS_RemoveElement, FS_EmptySet, FS_CardinalityType DEF Without

LEMMA SubsetInduction ==
  ASSUME NEW S, IsFiniteSet(S), NEW T, {} \in T,
         \A s \in SUBSET S : s # {} /\ Without(s) \in T => s \in T
  PROVE  SUBSET S \subseteq T
<1> DEFINE N == {n \in Nat : \A s \in SUBSET S : Cardinality(s) = n => s \in T}
<1>1. \A s \in SUBSET S : IsFiniteSet(s) /\ Cardinality(s) \in Nat
  BY FS_Subset, FS_CardinalityType
<1>2. 0 \in N
  <2>1. \A s \in SUBSET S : Cardinality(s) = 0 => s = {}
    BY <1>1, FS_EmptySet
  <2> QED
    BY <2>1
<1>3. \A n \in Nat : n \in N => n + 1 \in N
  <2> SUFFICES ASSUME NEW n \in N, NEW s \in SUBSET S, Cardinality(s) = n + 1
               PROVE  s \in T
    OBVIOUS
  <2>1. s # {}
    BY FS_EmptySet
  <2>2. Cardinality(Without(s)) = n /\ Without(s) \in SUBSET S
    BY <2>1, <1>1, Smaller DEF Without
  <2>3. Without(s) \in T
    BY <2>2
  <2> QED
    BY <2>1, <2>3
<1>4. Nat \subseteq N
  <2> HIDE DEF N
  <2> QED
    BY <1>2, <1>3, NatSetInduction
<1> QED
  BY <1>1, <1>4

(* What the fold sums: h gives the sum of f over every part of S.          *)
SumStep(f, h, s) == IF s = {} THEN 0 ELSE f[Pick(s)] + h[Without(s)]
IsSum(f, S, h) == h = [s \in SUBSET S |-> SumStep(f, h, s)]

LEMMA SumExists ==
  ASSUME NEW S, IsFiniteSet(S), NEW f
  PROVE  \E h : IsSum(f, S, h)
<1> DEFINE U(n) == {s \in SUBSET S : Cardinality(s) <= n}
           Sums(n, h) == h = [s \in U(n) |-> SumStep(f, h, s)]
           N == {n \in Nat : \E h : Sums(n, h)}
<1>1. \A s \in SUBSET S :
        /\ IsFiniteSet(s) /\ Cardinality(s) \in Nat
        /\ Cardinality(s) <= Cardinality(S)
        /\ Without(s) \in SUBSET S
        /\ s # {} => Cardinality(Without(s)) = Cardinality(s) - 1
  BY FS_Subset, FS_CardinalityType, Smaller DEF Without
<1>2. 0 \in N
  <2>1. \A s \in U(0) : s = {}
    BY <1>1, FS_EmptySet
  <2>2. Sums(0, [s \in U(0) |-> 0])
    BY <2>1 DEF SumStep
  <2> QED
    BY <2>2
<1>3. \A n \in Nat : n \in N => n + 1 \in N
  <2> HIDE DEF Sums
  <2> SUFFICES ASSUME NEW n \in Nat, NEW h, Sums(n, h)
               PROVE  \E g : Sums(n + 1, g)
    OBVIOUS
  <2> USE DEF Sums
  <2> DEFINE g == [s \in U(n + 1) |-> SumStep(f, h, s)]
  <2>1. \A s \in U(n) : s \in U(n + 1) /\ h[s] = SumStep(f, h, s)
    BY <1>1
  <2>2. \A s \in U(n) : g[s] = h[s]
    BY <2>1
  <2>3. \A s \in U(n + 1) : s # {} => Without(s) \in U(n)
    BY <1>1
  <2>4. \A s \in U(n + 1) : SumStep(f, h, s) = SumStep(f, g, s)
    BY <2>2, <2>3 DEF SumStep
  <2>5. Sums(n + 1, g)
    BY <2>4
  <2> QED
    BY <2>5
<1>4. Nat \subseteq N
  <2> HIDE DEF N
  <2> QED
    BY <1>2, <1>3, NatSetInduction
<1>5. Cardinality(S) \in N /\ U(Cardinality(S)) = SUBSET S
  BY <1>1, <1>4, FS_CardinalityType
<1> QED
  BY <1>5 DEF IsSum

LEMMA SumStepped ==
  ASSUME NEW S, IsFiniteSet(S), NEW f, NEW h, IsSum(f, S, h)
  PROVE  /\ h[{}] = 0
         /\ \A s \in SUBSET S : s # {} =>
              /\ Without(s) \in SUBSET S
              /\ Pick(s) \in s
              /\ s = Without(s) \cup {Pick(s)} /\ Pick(s) \notin Without(s)
              /\ h[s] = f[Pick(s)] + h[Without(s)]
<1>1. \A s \in SUBSET S : h[s] = SumStep(f, h, s)
  BY DEF IsSum
<1>2. \A s \in SUBSET S : s # {} => Pick(s) \in s
  BY Picked
<1>3. {} \in SUBSET S
  OBVIOUS
<1> QED
  BY <1>1, <1>2, <1>3 DEF SumStep, Without

(* A sum of naturals is a natural, and no less than any of them.           *)
LEMMA SumBounds ==
  ASSUME NEW S, IsFiniteSet(S), NEW f \in [S -> Nat], NEW h, IsSum(f, S, h)
  PROVE  \A s \in SUBSET S : h[s] \in Nat /\ \A i \in s : f[i] <= h[s]
<1> DEFINE T == {s \in SUBSET S : h[s] \in Nat /\ \A i \in s : f[i] <= h[s]}
<1>1. {} \in T
  BY SumStepped
<1>2. \A s \in SUBSET S : s # {} /\ Without(s) \in T => s \in T
  <2> SUFFICES ASSUME NEW s \in SUBSET S, s # {}, Without(s) \in T
               PROVE  s \in T
    OBVIOUS
  <2> DEFINE p == Pick(s)
             w == Without(s)
  <2>1. p \in s /\ s = w \cup {p} /\ h[s] = f[p] + h[w]
    BY SumStepped
  <2>2. f[p] \in Nat /\ h[w] \in Nat /\ \A i \in w : f[i] \in Nat /\ f[i] <= h[w]
    BY <2>1
  <2> HIDE DEF p, w
  <2>3. h[s] \in Nat
    BY <2>1, <2>2
  <2>4. ASSUME NEW i \in s PROVE f[i] <= h[s]
    BY <2>1, <2>2
  <2> QED
    BY <2>3, <2>4
<1>3. SUBSET S \subseteq T
  <2> HIDE DEF T
  <2> QED
    BY <1>1, <1>2, SubsetInduction
<1> QED
  BY <1>3

(* One more of one is one more in all.                                     *)
OneMore(S, f, i, e) == \A k \in S : e[k] = f[k] + (IF k = i THEN 1 ELSE 0)

LEMMA SumOneMore ==
  ASSUME NEW S, IsFiniteSet(S), NEW f \in [S -> Nat], NEW i \in S,
         NEW h, IsSum(f, S, h),
         NEW e, OneMore(S, f, i, e), NEW g, IsSum(e, S, g)
  PROVE  g[S] = h[S] + 1
<1> DEFINE T == {s \in SUBSET S : g[s] = h[s] + (IF i \in s THEN 1 ELSE 0)}
<1>1. {} \in T
  BY SumStepped
<1>2. \A s \in SUBSET S : s # {} /\ Without(s) \in T => s \in T
  <2> SUFFICES ASSUME NEW s \in SUBSET S, s # {}, Without(s) \in T
               PROVE  s \in T
    OBVIOUS
  <2> DEFINE p == Pick(s)
             w == Without(s)
  <2>1. /\ p \in s /\ s = w \cup {p} /\ p \notin w /\ w \in SUBSET S
        /\ h[s] = f[p] + h[w]
    BY SumStepped
  <2>2. g[s] = e[p] + g[w]
    BY ONLY s \in SUBSET S, s # {}, IsFiniteSet(S), IsSum(e, S, g), SumStepped
  <2>3. f[p] \in Nat /\ h[w] \in Nat
    BY <2>1, SumBounds
  <2>4. e[p] = f[p] + (IF p = i THEN 1 ELSE 0)
    BY <2>1 DEF OneMore
  <2>5. g[w] = h[w] + (IF i \in w THEN 1 ELSE 0)
    OBVIOUS
  <2>8. s \in SUBSET S /\ (i \in s <=> i \in w \/ p = i)
    BY <2>1
  <2> HIDE DEF p, w
  <2>6. CASE p = i
    BY <2>1, <2>2, <2>3, <2>4, <2>5, <2>6, <2>8
  <2>7. CASE p # i
    BY <2>1, <2>2, <2>3, <2>4, <2>5, <2>7, <2>8
  <2> QED
    BY <2>6, <2>7
<1>3. SUBSET S \subseteq T
  <2> HIDE DEF T
  <2> QED
    BY <1>1, <1>2, SubsetInduction
<1>4. S \in SUBSET S /\ i \in S
  OBVIOUS
<1> QED
  BY <1>3, <1>4

(* Nothing adds up to nothing.                                             *)
LEMMA SumOfNone ==
  ASSUME NEW S, IsFiniteSet(S), NEW f, \A i \in S : f[i] = 0, NEW h, IsSum(f, S, h)
  PROVE  \A s \in SUBSET S : h[s] = 0
<1> DEFINE T == {s \in SUBSET S : h[s] = 0}
<1>1. {} \in T
  BY SumStepped
<1>2. \A s \in SUBSET S : s # {} /\ Without(s) \in T => s \in T
  <2> SUFFICES ASSUME NEW s \in SUBSET S, s # {}, h[Without(s)] = 0
               PROVE  h[s] = 0
    OBVIOUS
  <2>1. Pick(s) \in S /\ h[s] = f[Pick(s)] + h[Without(s)]
    BY SumStepped
  <2> QED
    BY <2>1
<1>3. SUBSET S \subseteq T
  <2> HIDE DEF T
  <2> QED
    BY <1>1, <1>2, SubsetInduction
<1> QED
  BY <1>3

LEMMA FoldIsSum ==
  ASSUME NEW S, IsFiniteSet(S), NEW f, DOMAIN f = S
  PROVE  \E h : IsSum(f, S, h) /\ SumFunction(f) = h[S]
<1> DEFINE P(h) == h = [s \in SUBSET S |->
                  IF s = {} THEN 0
                  ELSE f[CHOOSE x \in s : TRUE] + h[s \ {CHOOSE x \in s : TRUE}]]
<1>1. SumFunction(f) = (CHOOSE h : P(h))[S]
  BY DEF SumFunction, SumFunctionOnSet, FoldFunctionOnSet, MapThenFoldSet
<1>2. \A h : IsSum(f, S, h) <=> P(h)
  BY DEF IsSum, SumStep, Pick, Without
<1>3. \E h : P(h)
  <2> HIDE DEF P
  <2> QED
    BY <1>2, SumExists
<1>4. P(CHOOSE h : P(h))
  <2> HIDE DEF P
  <2> QED
    BY <1>3
<1> HIDE DEF P
<1> QED
  BY <1>1, <1>2, <1>4

LEMMA TurnsSum ==
  ASSUME NEW S, IsFiniteSet(S), NEW f \in [S -> Nat]
  PROVE  /\ SumFunction(f) \in Nat
         /\ \A i \in S : f[i] <= SumFunction(f)
<1>1. PICK h : IsSum(f, S, h) /\ SumFunction(f) = h[S]
  BY FoldIsSum
<1>2. h[S] \in Nat /\ \A i \in S : f[i] <= h[S]
  BY <1>1, SumBounds
<1> QED
  BY <1>1, <1>2

LEMMA TurnsOneMore ==
  ASSUME NEW S, IsFiniteSet(S), NEW f \in [S -> Nat], NEW i \in S,
         NEW e \in [S -> Nat], OneMore(S, f, i, e)
  PROVE  SumFunction(e) = SumFunction(f) + 1
<1>1. PICK h : IsSum(f, S, h) /\ SumFunction(f) = h[S]
  BY FoldIsSum
<1>2. PICK g : IsSum(e, S, g) /\ SumFunction(e) = g[S]
  BY FoldIsSum
<1>3. IsSum(f, S, h) /\ IsSum(e, S, g)
  BY <1>1, <1>2
<1>4. g[S] = h[S] + 1
  BY ONLY IsFiniteSet(S), f \in [S -> Nat], i \in S, OneMore(S, f, i, e),
          <1>3, SumOneMore
<1> QED
  BY <1>1, <1>2, <1>4

LEMMA TurnsOfNone ==
  ASSUME NEW S, IsFiniteSet(S), NEW f \in [S -> Nat], \A i \in S : f[i] = 0
  PROVE  SumFunction(f) = 0
<1>1. PICK h : IsSum(f, S, h) /\ SumFunction(f) = h[S]
  BY FoldIsSum
<1> QED
  BY <1>1, SumOfNone

(* A sum is no more than its largest part times their number, and less     *)
(* where a part is less.                                                   *)
LEMMA TurnsAtMost ==
  ASSUME NEW S, IsFiniteSet(S), NEW f \in [S -> Nat], NEW m \in Nat,
         \A i \in S : f[i] <= m
  PROVE  SumFunction(f) <= Cardinality(S) * m
<1>1. PICK h : IsSum(f, S, h) /\ SumFunction(f) = h[S]
  BY FoldIsSum
<1> DEFINE T == {s \in SUBSET S : h[s] <= Cardinality(s) * m}
<1>2. {} \in T
  <2>1. h[{}] = 0 /\ Cardinality({}) = 0
    BY <1>1, SumStepped, FS_EmptySet
  <2> QED
    BY <2>1
<1>3. \A s \in SUBSET S : s # {} /\ Without(s) \in T => s \in T
  <2> SUFFICES ASSUME NEW s \in SUBSET S, s # {},
                      h[Without(s)] <= Cardinality(Without(s)) * m
               PROVE  h[s] <= Cardinality(s) * m
    OBVIOUS
  <2> DEFINE n == Cardinality(Without(s))
             sum == h[Without(s)]
             x == f[Pick(s)]
  <2>1. Pick(s) \in S /\ Without(s) \in SUBSET S /\ h[s] = x + sum
    BY <1>1, SumStepped
  <2>2. x \in Nat /\ x <= m /\ sum \in Nat
    BY <2>1, <1>1, SumBounds
  <2>3. Cardinality(s) = n + 1 /\ n \in Nat
    BY FS_Subset, Smaller
  <2> HIDE DEF n, sum, x
  <2>4. (n + 1) * m = n * m + m /\ n * m \in Nat
    BY <2>3
  <2>5. sum <= n * m
    BY DEF n, sum
  <2> QED
    BY <2>1, <2>2, <2>3, <2>4, <2>5
<1>4. SUBSET S \subseteq T
  <2> HIDE DEF T
  <2> QED
    BY <1>2, <1>3, SubsetInduction
<1> QED
  BY <1>1, <1>4

-----------------------------------------------------------------------------
(* What NewWithMTLS builds.                                                *)

(* The loop over the addresses: what it keeps of the first n.              *)
Keep(s, k, n) ==
  IF n = 0 THEN <<>>
  ELSE IF s[n] = Blank THEN k[n - 1]
  ELSE Append(k[n - 1], s[n])

IsKept(s, k) == k = [n \in 0..Len(s) |-> Keep(s, k, n)]

LEMMA KeptExists ==
  ASSUME NEW s \in Seq(Addresses)
  PROVE  \E k : IsKept(s, k)
<1> DEFINE Kept(n, k) == k = [m \in 0..n |-> Keep(s, k, m)]
           N == {n \in Nat : \E k : Kept(n, k)}
<1>1. 0 \in N
  <2>1. Kept(0, [m \in 0..0 |-> <<>>])
    BY DEF Keep
  <2> QED
    BY <2>1
<1>2. \A n \in Nat : n \in N => n + 1 \in N
  <2> HIDE DEF Kept
  <2> SUFFICES ASSUME NEW n \in Nat, NEW k, Kept(n, k)
               PROVE  \E l : Kept(n + 1, l)
    OBVIOUS
  <2> USE DEF Kept
  <2> DEFINE l == [m \in 0..(n + 1) |-> Keep(s, k, m)]
  <2>1. \A m \in 0..n : m \in 0..(n + 1) /\ k[m] = Keep(s, k, m)
    OBVIOUS
  <2>2. \A m \in 0..n : l[m] = k[m]
    BY <2>1
  <2>3. \A m \in 0..(n + 1) : m # 0 => m - 1 \in 0..n
    OBVIOUS
  <2>4. \A m \in 0..(n + 1) : Keep(s, k, m) = Keep(s, l, m)
    BY <2>2, <2>3 DEF Keep
  <2>5. Kept(n + 1, l)
    BY <2>4
  <2> QED
    BY <2>5
<1>3. Nat \subseteq N
  <2> HIDE DEF N
  <2> QED
    BY <1>1, <1>2, NatSetInduction
<1>4. Len(s) \in N
  BY <1>3, LenProperties
<1> QED
  BY <1>4 DEF IsKept

LEMMA NonBlankIsKept ==
  ASSUME NEW s \in Seq(Addresses)
  PROVE  \E k : IsKept(s, k) /\ NonBlank(s) = k[Len(s)]
<1> DEFINE P(k) == k = [n \in 0..Len(s) |->
                          IF n = 0 THEN <<>>
                          ELSE IF s[n] = Blank THEN k[n - 1]
                          ELSE Append(k[n - 1], s[n])]
<1>1. NonBlank(s) = (CHOOSE k : P(k))[Len(s)]
  BY DEF NonBlank
<1>2. \A k : IsKept(s, k) <=> P(k)
  BY DEF IsKept, Keep
<1> HIDE DEF P
<1>3. \E k : P(k)
  BY <1>2, KeptExists
<1>4. P(CHOOSE k : P(k))
  BY <1>3
<1> QED
  BY <1>1, <1>2, <1>4

LEMMA Appended ==
  ASSUME NEW s \in Seq(Addresses), NEW a \in Addresses
  PROVE  /\ Append(s, a) \in Seq(Addresses)
         /\ ToSet(Append(s, a)) = ToSet(s) \cup {a}
<1>1. /\ Append(s, a) \in Seq(Addresses) /\ Len(Append(s, a)) = Len(s) + 1
      /\ \A i \in 1..Len(s) : Append(s, a)[i] = s[i]
      /\ Append(s, a)[Len(s) + 1] = a
      /\ DOMAIN Append(s, a) = 1..(Len(s) + 1)
  BY AppendProperties, LenProperties
<1>2. DOMAIN s = 1..Len(s) /\ Len(s) \in Nat
  BY LenProperties
<1> QED
  BY <1>1, <1>2 DEF ToSet

(* All that is not blank is kept.                                          *)
LEMMA NonBlankOf ==
  ASSUME NEW s \in Seq(Addresses)
  PROVE  /\ NonBlank(s) \in Seq(Addresses)
         /\ ToSet(NonBlank(s)) = ToSet(s) \ {Blank}
<1>1. PICK k : IsKept(s, k) /\ NonBlank(s) = k[Len(s)]
  BY NonBlankIsKept
<1>2. Len(s) \in Nat /\ DOMAIN s = 1..Len(s) /\ \A i \in 1..Len(s) : s[i] \in Addresses
  BY LenProperties, ElementOfSeq
<1>3. \A n \in 0..Len(s) : k[n] = Keep(s, k, n)
  BY <1>1 DEF IsKept
<1> DEFINE First(n) == {s[i] : i \in 1..n} \ {Blank}
           N == {n \in Nat : n <= Len(s) =>
                   k[n] \in Seq(Addresses) /\ ToSet(k[n]) = First(n)}
<1>4. 0 \in N
  <2>1. k[0] = <<>>
    BY <1>2, <1>3 DEF Keep
  <2>2. ToSet(<<>>) = {} /\ <<>> \in Seq(Addresses)
    BY DEF ToSet
  <2>3. First(0) = {}
    OBVIOUS
  <2> HIDE DEF First
  <2> QED
    BY <2>1, <2>2, <2>3
<1>5. \A n \in Nat : n \in N => n + 1 \in N
  <2> HIDE DEF First
  <2> SUFFICES ASSUME NEW n \in Nat, n + 1 <= Len(s),
                      k[n] \in Seq(Addresses), ToSet(k[n]) = First(n)
               PROVE  k[n + 1] \in Seq(Addresses) /\ ToSet(k[n + 1]) = First(n + 1)
    BY <1>2
  <2> USE DEF First
  <2>1. /\ n + 1 \in 0..Len(s) /\ n + 1 \in 1..Len(s) /\ n + 1 # 0
        /\ (n + 1) - 1 = n
    BY <1>2
  <2>2. k[n + 1] = IF s[n + 1] = Blank THEN k[n] ELSE Append(k[n], s[n + 1])
    BY <2>1, <1>3 DEF Keep
  <2>3. {s[i] : i \in 1..(n + 1)} = {s[i] : i \in 1..n} \cup {s[n + 1]}
    BY <2>1
  <2>4. s[n + 1] \in Addresses
    BY <2>1, <1>2
  <2>5. CASE s[n + 1] = Blank
    BY <2>2, <2>3, <2>5
  <2>6. CASE s[n + 1] # Blank
    BY <2>2, <2>3, <2>4, <2>6, Appended
  <2> QED
    BY <2>5, <2>6
<1>6. Nat \subseteq N
  <2> HIDE DEF N
  <2> QED
    BY <1>4, <1>5, NatSetInduction
<1>7. NonBlank(s) \in Seq(Addresses) /\ ToSet(NonBlank(s)) = First(Len(s))
  BY <1>1, <1>2, <1>6
<1>8. ToSet(s) = {s[i] : i \in 1..Len(s)}
  BY <1>2 DEF ToSet
<1> QED
  BY <1>7, <1>8

LEMMA Normalized ==
  ASSUME NEW cfg \in Configurations
  PROVE  LET n == NormalizeConfiguration(cfg) IN
         /\ n.Addrs \in Seq(Addresses) /\ n.Addrs # <<>>
         /\ Blank \notin ToSet(n.Addrs)
         /\ n.MaximumSimultaneousConnections \in Nat \ {0}
         /\ n.MaxDialDuration \in Nat \ {0}
<1> DEFINE n == NormalizeConfiguration(cfg)
           addrs == NonBlank(cfg.Addrs)
           default == [host |-> DefaultHost, port |-> TRUE]
<1>1. /\ cfg.Addrs \in Seq(Addresses)
      /\ cfg.MaximumSimultaneousConnections \in Int
      /\ cfg.MaxRequestDuration \in Int /\ cfg.MaxDialDuration \in Int
  BY DEF Configurations
<1>2. addrs \in Seq(Addresses) /\ Blank \notin ToSet(addrs)
  BY <1>1, NonBlankOf
<1>3. /\ n.Addrs = IF addrs = <<>> THEN <<default>> ELSE addrs
      /\ n.MaximumSimultaneousConnections =
           PositiveOr(cfg.MaximumSimultaneousConnections, DefaultConnections)
      /\ n.MaxDialDuration =
           PositiveOr(cfg.MaxDialDuration,
                      PositiveOr(cfg.MaxRequestDuration, DefaultDuration))
  BY DEF NormalizeConfiguration, NormalizeAddrs, Configurations
<1>4. \A k \in Int, d \in Nat \ {0} : PositiveOr(k, d) \in Nat \ {0}
  BY DEF PositiveOr
<1>5. DefaultConnections \in Nat \ {0} /\ DefaultDuration \in Nat \ {0}
  BY DefaultsAssumption
<1>6. default \in Addresses /\ default # Blank
  BY HostsAssumption DEF Addresses, Names, Blank
<1>7. <<default>> \in Seq(Addresses) /\ ToSet(<<default>>) = {default}
  <2> HIDE DEF default
  <2>1. DOMAIN <<default>> = {1} /\ <<default>>[1] = default
    OBVIOUS
  <2>2. ToSet(<<default>>) = {default}
    BY <2>1 DEF ToSet
  <2> QED
    BY <2>2, <1>6
<1>8. n.Addrs \in Seq(Addresses) /\ n.Addrs # <<>> /\ Blank \notin ToSet(n.Addrs)
  <2> HIDE DEF n, default
  <2> QED
    BY <1>2, <1>3, <1>6, <1>7
<1>9. n.MaximumSimultaneousConnections \in Nat \ {0} /\ n.MaxDialDuration \in Nat \ {0}
  <2> HIDE DEF n
  <2> QED
    BY <1>1, <1>3, <1>4, <1>5
<1> QED
  BY <1>8, <1>9

LEMMA NothingBlank ==
  ASSUME NEW s \in Seq(Addresses), Blank \notin ToSet(s)
  PROVE  NonBlank(s) = s
<1>1. PICK k : IsKept(s, k) /\ NonBlank(s) = k[Len(s)]
  BY NonBlankIsKept
<1>2. Len(s) \in Nat /\ DOMAIN s = 1..Len(s) /\ \A i \in 1..Len(s) : s[i] \in Addresses
  BY LenProperties, ElementOfSeq
<1>3. \A n \in 0..Len(s) : k[n] = Keep(s, k, n)
  BY <1>1 DEF IsKept
<1>4. \A i \in 1..Len(s) : s[i] # Blank
  BY <1>2 DEF ToSet
<1> DEFINE Start(t, n) == /\ t \in Seq(Addresses) /\ Len(t) = n
                          /\ \A i \in 1..n : t[i] = s[i]
           N == {n \in Nat : n <= Len(s) => Start(k[n], n)}
<1>5. 0 \in N
  <2>1. k[0] = <<>>
    BY <1>2, <1>3 DEF Keep
  <2>2. <<>> \in Seq(Addresses) /\ Len(<<>>) = 0 /\ 1..0 = {}
    OBVIOUS
  <2> QED
    BY <2>1, <2>2
<1>6. \A n \in Nat : n \in N => n + 1 \in N
  <2> SUFFICES ASSUME NEW n \in Nat, n + 1 <= Len(s), Start(k[n], n)
               PROVE  Start(k[n + 1], n + 1)
    BY <1>2
  <2>1. /\ n + 1 \in 0..Len(s) /\ n + 1 \in 1..Len(s) /\ n + 1 # 0
        /\ (n + 1) - 1 = n
    BY <1>2
  <2>2. k[n + 1] = Append(k[n], s[n + 1])
    BY <2>1, <1>3, <1>4 DEF Keep
  <2>3. s[n + 1] \in Addresses
    BY <2>1, <1>2
  <2>4. /\ k[n + 1] \in Seq(Addresses) /\ Len(k[n + 1]) = n + 1
        /\ \A i \in 1..n : k[n + 1][i] = k[n][i]
        /\ k[n + 1][n + 1] = s[n + 1]
    BY <2>2, <2>3, AppendProperties
  <2>5. \A i \in 1..(n + 1) : i \in 1..n \/ i = n + 1
    OBVIOUS
  <2> QED
    BY <2>4, <2>5
<1>7. Nat \subseteq N
  <2> HIDE DEF N
  <2> QED
    BY <1>5, <1>6, NatSetInduction
<1>8. Start(NonBlank(s), Len(s))
  BY <1>1, <1>2, <1>7
<1> QED
  BY <1>8, SeqEqual

(* shardedClient.go:287-345, mtls.go:240: the configuration is normalized  *)
(* for the server name and again for the client, and the addresses are     *)
(* split and blank ones passed over a second time.  Neither changes what   *)
(* the first made of it: the two see the same addresses, and the client    *)
(* has a group for each of them, in their order.                           *)
THEOREM NormalizedOnce ==
  ASSUME NEW cfg \in Configurations
  PROVE  LET n == NormalizeConfiguration(cfg) IN
         /\ NormalizeConfiguration(n) = n
         /\ \A name \in Hosts :
              NewClient(cfg, name).groups = [i \in DOMAIN n.Addrs |-> Group(n.Addrs[i], n)]
<1> DEFINE n == NormalizeConfiguration(cfg)
           m == NormalizeConfiguration(n)
<1>1. n.Addrs \in Seq(Addresses) /\ n.Addrs # <<>> /\ NonBlank(n.Addrs) = n.Addrs
  BY Normalized, NothingBlank
<1>2. /\ cfg.MaximumSimultaneousConnections \in Int /\ cfg.MaxPendingRequests \in Int
      /\ cfg.MaxRequestDuration \in Int /\ cfg.MaxDialDuration \in Int
      /\ cfg.DNSRefreshInterval \in Int
  BY DEF Configurations
<1>3. /\ \A k \in Int, d \in Nat \ {0} : PositiveOr(k, d) \in Nat \ {0}
      /\ \A k \in Nat \ {0} : \A d : PositiveOr(k, d) = k
  <2>1. \A k \in Int, d \in Nat \ {0} : PositiveOr(k, d) \in Nat \ {0}
    BY DEF PositiveOr
  <2>2. \A k \in Nat \ {0} : \A d : PositiveOr(k, d) = k
    <3>1. \A k \in Nat \ {0} : (k > 0) = TRUE
      OBVIOUS
    <3> QED
      BY <3>1, Zenon DEF PositiveOr
  <2> QED
    BY <2>1, <2>2
<1>4. /\ DefaultConnections \in Nat \ {0} /\ DefaultPending \in Nat \ {0}
      /\ DefaultDuration \in Nat \ {0} /\ DefaultRefresh \in Nat \ {0}
  BY DefaultsAssumption
<1> DEFINE request == PositiveOr(cfg.MaxRequestDuration, DefaultDuration)
<1>5. /\ n.ServerName = cfg.ServerName
      /\ n.MaximumSimultaneousConnections =
           PositiveOr(cfg.MaximumSimultaneousConnections, DefaultConnections)
      /\ n.MaxPendingRequests = PositiveOr(cfg.MaxPendingRequests, DefaultPending)
      /\ n.MaxRequestDuration = request
      /\ n.MaxDialDuration = PositiveOr(cfg.MaxDialDuration, request)
      /\ n.DNSRefreshInterval =
           IF cfg.DNSRefreshInterval = 0 THEN DefaultRefresh ELSE cfg.DNSRefreshInterval
  BY DEF NormalizeConfiguration, Configurations
<1>6. /\ n.MaximumSimultaneousConnections \in Nat \ {0}
      /\ n.MaxPendingRequests \in Nat \ {0} /\ n.MaxRequestDuration \in Nat \ {0}
      /\ n.MaxDialDuration \in Nat \ {0} /\ n.DNSRefreshInterval \in Int \ {0}
  <2>1. request \in Nat \ {0}
    BY <1>2, <1>3, <1>4
  <2>2. n.DNSRefreshInterval \in Int \ {0}
    <3> HIDE DEF n
    <3> QED
      BY <1>2, <1>4, <1>5
  <2> HIDE DEF n, request
  <2>3. /\ n.MaximumSimultaneousConnections \in Nat \ {0}
        /\ n.MaxPendingRequests \in Nat \ {0} /\ n.MaxDialDuration \in Nat \ {0}
    <3>1. PositiveOr(cfg.MaximumSimultaneousConnections, DefaultConnections) \in Nat \ {0}
      BY ONLY <1>2, <1>3, <1>4, Zenon
    <3>2. PositiveOr(cfg.MaxPendingRequests, DefaultPending) \in Nat \ {0}
      BY ONLY <1>2, <1>3, <1>4, Zenon
    <3>3. PositiveOr(cfg.MaxDialDuration, request) \in Nat \ {0}
      BY ONLY <1>2, <1>3, <2>1, Zenon
    <3> QED
      BY ONLY <1>5, <3>1, <3>2, <3>3, Zenon
  <2> QED
    BY <1>5, <2>1, <2>2, <2>3
<1>7. n \in Configurations
  <2>1. n = [cfg EXCEPT
               !.Addrs = n.Addrs,
               !.MaximumSimultaneousConnections = n.MaximumSimultaneousConnections,
               !.MaxPendingRequests = n.MaxPendingRequests,
               !.MaxRequestDuration = n.MaxRequestDuration,
               !.MaxDialDuration = n.MaxDialDuration,
               !.DNSRefreshInterval = n.DNSRefreshInterval]
    BY DEF NormalizeConfiguration, Configurations
  <2>2. /\ n.MaximumSimultaneousConnections \in Int /\ n.MaxPendingRequests \in Int
        /\ n.MaxRequestDuration \in Int /\ n.MaxDialDuration \in Int
        /\ n.DNSRefreshInterval \in Int
    <3> HIDE DEF n
    <3> QED
      BY <1>6
  <2>3. n.Addrs \in Seq(Addresses)
    BY <1>1
  <2> HIDE DEF n
  <2> QED
    BY ONLY cfg \in Configurations, <2>1, <2>2, <2>3 DEF Configurations
<1>8. m.Addrs = n.Addrs
  BY <1>1, <1>7 DEF NormalizeConfiguration, NormalizeAddrs, Configurations
<1>9. /\ m.ServerName = n.ServerName
      /\ m.MaximumSimultaneousConnections = n.MaximumSimultaneousConnections
      /\ m.MaxPendingRequests = n.MaxPendingRequests
      /\ m.MaxRequestDuration = n.MaxRequestDuration
      /\ m.MaxDialDuration = n.MaxDialDuration
      /\ m.DNSRefreshInterval = n.DNSRefreshInterval
  <2> HIDE DEF n
  <2>1. /\ m.ServerName = n.ServerName
        /\ m.MaximumSimultaneousConnections =
             PositiveOr(n.MaximumSimultaneousConnections, DefaultConnections)
        /\ m.MaxPendingRequests = PositiveOr(n.MaxPendingRequests, DefaultPending)
        /\ m.MaxRequestDuration = PositiveOr(n.MaxRequestDuration, DefaultDuration)
        /\ m.MaxDialDuration =
             PositiveOr(n.MaxDialDuration, PositiveOr(n.MaxRequestDuration, DefaultDuration))
        /\ m.DNSRefreshInterval =
             IF n.DNSRefreshInterval = 0 THEN DefaultRefresh ELSE n.DNSRefreshInterval
    BY <1>7 DEF NormalizeConfiguration, Configurations
  <2> HIDE DEF m
  <2>2. m.DNSRefreshInterval = n.DNSRefreshInterval
    BY <1>6, <2>1
  <2> QED
    BY <1>3, <1>6, <2>1, <2>2
<1>10. m = n
  <2>1. m = [n EXCEPT
               !.Addrs = m.Addrs,
               !.MaximumSimultaneousConnections = m.MaximumSimultaneousConnections,
               !.MaxPendingRequests = m.MaxPendingRequests,
               !.MaxRequestDuration = m.MaxRequestDuration,
               !.MaxDialDuration = m.MaxDialDuration,
               !.DNSRefreshInterval = m.DNSRefreshInterval]
    <3> HIDE DEF n
    <3> QED
      BY <1>7 DEF NormalizeConfiguration, Configurations
  <2> HIDE DEF n, m
  <2> QED
    BY <1>7, <1>8, <1>9, <2>1 DEF Configurations
<1>11. \A name \in Hosts :
         NewClient(cfg, name).groups = [i \in DOMAIN n.Addrs |-> Group(n.Addrs[i], n)]
  BY <1>1 DEF NewClient
<1> QED
  BY <1>10, <1>11

LEMMA HostsFinite ==
  ASSUME NEW s \in Seq(Addresses)
  PROVE  IsFiniteSet(HostsOf(s)) /\ HostsOf(s) \subseteq Hosts
<1> DEFINE all == {a.host : a \in ToSet(s)}
           f == [i \in 1..Len(s) |-> s[i].host]
<1>1. Len(s) \in Nat /\ DOMAIN s = 1..Len(s) /\ \A i \in 1..Len(s) : s[i] \in Addresses
  BY LenProperties, ElementOfSeq
<1>2. all = {s[i].host : i \in 1..Len(s)}
  BY <1>1 DEF ToSet
<1>3. f \in Surjection(1..Len(s), all)
  BY <1>2 DEF Surjection
<1>4. IsFiniteSet(1..Len(s))
  BY <1>1, FS_Interval
<1>5. IsFiniteSet(all)
  <2> HIDE DEF f, all
  <2> QED
    BY <1>3, <1>4, FS_Surjection
<1>6. HostsOf(s) \in SUBSET all
  BY DEF HostsOf
<1>7. IsFiniteSet(HostsOf(s))
  <2> HIDE DEF all
  <2> QED
    BY <1>5, <1>6, FS_Subset
<1>8. \A h \in all : h \in Hosts \cup {NoHost}
  BY <1>1, <1>2 DEF Addresses, Names
<1> QED
  BY <1>7, <1>8 DEF HostsOf

(* The name is a host, and the only one unless the application chose it.   *)
LEMMA Resolved ==
  ASSUME NEW cfg \in Configurations, NEW name \in ResolveServerName(cfg)
  PROVE  /\ name \in Hosts
         /\ cfg.ServerName = NoHost =>
              HostsOf(NormalizeConfiguration(cfg).Addrs) = {name}
<1> DEFINE hosts == HostsOf(NormalizeConfiguration(cfg).Addrs)
<1>1. IsFiniteSet(hosts) /\ hosts \subseteq Hosts
  BY Normalized, HostsFinite
<1>2. cfg.ServerName \in Hosts \cup {NoHost}
  BY DEF Configurations, Names
<1>3. name \in IF cfg.ServerName # NoHost THEN {cfg.ServerName}
               ELSE IF Cardinality(hosts) = 1 THEN hosts ELSE {}
  BY DEF ResolveServerName
<1> HIDE DEF hosts
<1>4. Cardinality(hosts) = 1 => \E h : hosts = {h}
  BY <1>1, FS_Singleton
<1>5. name \in Hosts /\ (cfg.ServerName = NoHost => hosts = {name})
  BY <1>1, <1>2, <1>3, <1>4
<1> QED
  BY <1>5 DEF hosts

(* A client has a group, every group a client and an address of the        *)
(* configuration, every dial a timeout.                                    *)
LEMMA NewClientGroups ==
  ASSUME NEW cfg \in Configurations, NEW name
  PROVE  LET c == NewClient(cfg, name) IN
         /\ c = [ServerName |-> name, groups |-> c.groups]
         /\ c.groups \in Seq([addr : Addresses, clients : Nat, maxDialDuration : Nat])
         /\ Len(c.groups) \in Nat \ {0} /\ DOMAIN c.groups = 1..Len(c.groups)
         /\ \A g \in DOMAIN c.groups :
              /\ c.groups[g].clients \in Nat \ {0}
              /\ c.groups[g].maxDialDuration \in Nat \ {0}
              /\ c.groups[g].addr.host
                   \in HostsOf(NormalizeConfiguration(cfg).Addrs) \cup {NoHost}
<1> DEFINE n == NormalizeConfiguration(cfg)
           addrs == NonBlank(n.Addrs)
           groups == [i \in DOMAIN addrs |-> Group(addrs[i], n)]
           Groupings == [addr : Addresses, clients : Nat, maxDialDuration : Nat]
<1>1. /\ n.Addrs \in Seq(Addresses) /\ n.Addrs # <<>>
      /\ Blank \notin ToSet(n.Addrs)
      /\ n.MaximumSimultaneousConnections \in Nat \ {0}
      /\ n.MaxDialDuration \in Nat \ {0}
  BY Normalized
<1>2. NewClient(cfg, name) = [ServerName |-> name, groups |-> groups]
  BY DEF NewClient
<1> HIDE DEF n
<1>3. addrs \in Seq(Addresses) /\ ToSet(addrs) = ToSet(n.Addrs)
  BY <1>1, NonBlankOf
<1>4. /\ Len(addrs) \in Nat \ {0} /\ DOMAIN addrs = 1..Len(addrs)
      /\ \A i \in 1..Len(addrs) : addrs[i] \in Addresses
  <2>1. n.Addrs[1] \in ToSet(n.Addrs)
    BY <1>1, EmptySeq, LenProperties DEF ToSet
  <2>2. addrs # <<>>
    <3>1. ToSet(<<>>) = {}
      BY DEF ToSet
    <3> HIDE DEF addrs
    <3> QED
      BY <3>1, <2>1, <1>3
  <2> HIDE DEF addrs
  <2> QED
    BY <2>2, <1>3, LenProperties, ElementOfSeq, EmptySeq
<1>5. \A i \in 1..Len(addrs) : addrs[i].host \in HostsOf(n.Addrs) \cup {NoHost}
  BY <1>3, <1>4 DEF HostsOf, ToSet
<1> HIDE DEF addrs
<1>6. \A i \in 1..Len(addrs) :
        /\ groups[i] \in Groupings
        /\ groups[i].clients \in Nat \ {0} /\ groups[i].maxDialDuration \in Nat \ {0}
        /\ groups[i].addr.host \in HostsOf(n.Addrs) \cup {NoHost}
  BY <1>1, <1>4, <1>5 DEF Group
<1>7. DOMAIN groups = 1..Len(addrs)
  BY <1>4
<1> HIDE DEF groups, Groupings
<1>8. groups \in Seq(Groupings) /\ Len(groups) = Len(addrs)
  <2>1. groups \in [1..Len(addrs) -> Groupings]
    BY <1>6, <1>7, <1>4 DEF groups
  <2> QED
    BY <2>1, <1>4, IsASeq, LenProperties
<1> QED
  BY <1>2, <1>4, <1>6, <1>7, <1>8 DEF Groupings, n

-----------------------------------------------------------------------------
(* The invariant.                                                          *)

LEMMA BuiltParts ==
  ASSUME TypeOK, Built
  PROVE  /\ Groups = 1..Len(sc.groups) /\ Len(sc.groups) \in Nat
         /\ sc = NoClient => called = 0 /\ sc.groups = <<>> /\ Len(sc.groups) = 0
         /\ sc # NoClient => Len(sc.groups) \in Nat \ {0}
         /\ \A g \in Groups :
              /\ g # NoGroup
              /\ sc.groups[g].clients \in Nat \ {0}
              /\ sc.groups[g].maxDialDuration \in Nat \ {0}
<1>1. config \in Configurations
  BY ConfigsAssumption DEF TypeOK
<1>2. CASE sc = NoClient /\ called = 0
  BY <1>2 DEF NoClient, Groups
<1>3. ASSUME NEW name \in ResolveServerName(config), sc = NewClient(config, name)
      PROVE  /\ sc # NoClient
             /\ Len(sc.groups) \in Nat \ {0} /\ Groups = 1..Len(sc.groups)
             /\ \A g \in Groups : /\ sc.groups[g].clients \in Nat \ {0}
                                  /\ sc.groups[g].maxDialDuration \in Nat \ {0}
  <2>1. /\ Len(sc.groups) \in Nat \ {0} /\ DOMAIN sc.groups = 1..Len(sc.groups)
        /\ \A g \in DOMAIN sc.groups :
             /\ sc.groups[g].clients \in Nat \ {0}
             /\ sc.groups[g].maxDialDuration \in Nat \ {0}
    BY <1>1, <1>3, NewClientGroups
  <2>2. sc # NoClient
    BY <2>1 DEF NoClient
  <2> QED
    BY <2>1, <2>2 DEF Groups
<1>4. Groups = 1..Len(sc.groups) /\ Len(sc.groups) \in Nat => \A g \in Groups : g # NoGroup
  BY DEF NoGroup
<1> QED
  BY <1>2, <1>3, <1>4 DEF Built

Waiting(g) == {p \in Callers : choosing[p] = g}

LEMMA CallsParts ==
  ASSUME TypeOK, Built, NEW g \in Groups
  PROVE  /\ IsFiniteSet(Clients(g)) /\ served[g] \in [Clients(g) -> Nat]
         /\ Turns(g) \in Nat /\ \A i \in Clients(g) : served[g][i] <= Turns(g)
         /\ IsFiniteSet(Waiting(g)) /\ Cardinality(Waiting(g)) \in Nat
         /\ Calls(g) = Turns(g) + Cardinality(Waiting(g)) /\ Calls(g) \in Nat
<1>1. sc.groups[g].clients \in Nat \ {0}
  BY BuiltParts
<1>2. IsFiniteSet(Clients(g))
  BY <1>1, FS_Interval DEF Clients
<1>3. served[g] \in [Clients(g) -> Nat]
  BY WrapAssumption DEF TypeOK
<1>4. Turns(g) \in Nat /\ \A i \in Clients(g) : served[g][i] <= Turns(g)
  BY <1>2, <1>3, TurnsSum DEF Turns
<1>5. IsFiniteSet(Waiting(g)) /\ Cardinality(Waiting(g)) \in Nat
  <2>1. Waiting(g) \in SUBSET Callers
    BY DEF Waiting
  <2> QED
    BY <2>1, CallersAssumption, FS_Subset, FS_CardinalityType
<1>6. Calls(g) = Turns(g) + Cardinality(Waiting(g))
  BY DEF Calls, Waiting
<1> QED
  BY <1>2, <1>3, <1>4, <1>5, <1>6

LEMMA CallsOfType ==
  ASSUME TypeOK, Built
  PROVE  CallsOf \in [0..(Len(sc.groups) - 1) -> Nat]
<1>1. \A k \in 0..(Len(sc.groups) - 1) : k + 1 \in Groups
  BY BuiltParts
<1>2. \A k \in 0..(Len(sc.groups) - 1) : Calls(k + 1) \in Nat
  BY <1>1, CallsParts
<1> QED
  BY <1>2 DEF CallsOf

LEMMA NoTurns ==
  ASSUME NEW c \in Nat, NEW f, \A i \in 0..(c - 1) : f[i] = 0
  PROVE  InTurn(f, c, 0) /\ 0 % Wrap = 0
<1>1. Wrap \in Nat \ {0}
  BY WrapAssumption
<1>2. \A d \in Nat \ {0} : 0 % d = 0 /\ 0 \div d = 0
  <2> SUFFICES ASSUME NEW d \in Nat \ {0} PROVE 0 % d = 0 /\ 0 \div d = 0
    OBVIOUS
  <2>1. 0 = d * 0 + 0 /\ 0 \in 0..(d - 1)
    OBVIOUS
  <2> QED
    BY <2>1, DivModUnique
<1>3. 0 % Wrap = 0 /\ 0 \div Wrap = 0
  BY <1>1, <1>2
<1> SUFFICES ASSUME NEW i \in 0..(c - 1), NEW j \in 0..(c - 1), i < j
             PROVE  f[i] = f[j]
                      + (IF i <= (Wrap - 1) % c /\ (Wrap - 1) % c < j
                           THEN 0 \div Wrap ELSE 0)
                      + (IF i <= (0 % Wrap) % c /\ (0 % Wrap) % c < j
                           THEN 1 ELSE 0)
                      - (IF i = 0 THEN 1 ELSE 0)
  BY <1>3 DEF InTurn
<1>4. c \in Nat \ {0}
  OBVIOUS
<1>5. (0 % Wrap) % c = 0
  BY <1>2, <1>3, <1>4
<1>6. (IF i <= (0 % Wrap) % c /\ (0 % Wrap) % c < j THEN 1 ELSE 0)
        = (IF i = 0 THEN 1 ELSE 0)
  BY <1>5
<1>7. (IF i <= (Wrap - 1) % c /\ (Wrap - 1) % c < j THEN 0 \div Wrap ELSE 0) = 0
  BY <1>3
<1>8. f[i] = 0 /\ f[j] = 0
  OBVIOUS
<1> QED
  BY <1>6, <1>7, <1>8

LEMMA InitOK == Init => IInv
<1> SUFFICES ASSUME Init PROVE IInv
  OBVIOUS
<1>1. sc.groups = <<>> /\ Groups = {} /\ sc.ServerName = NoHost /\ Len(sc.groups) = 0
  BY DEF Init, NoClient, Groups
<1>2. TypeOK
  <2>1. sc.ServerName \in Names
    BY <1>1 DEF Names
  <2>2. groupRobin \in [Groups -> 0..(Wrap - 1)] /\ DOMAIN served = Groups
    BY <1>1 DEF Init
  <2>3. roundRobin \in 0..(Wrap - 1) /\ called \in 0..MaxCalls
    BY WrapAssumption DEF Init
  <2> QED
    BY <1>1, <2>1, <2>2, <2>3 DEF Init, TypeOK
<1>3. Built
  BY DEF Init, Built
<1>4. GroupsInTurn
  <2>1. InTurn(CallsOf, 0, 0) /\ 0 % Wrap = 0
    BY NoTurns
  <2> QED
    BY <1>1, <2>1 DEF GroupsInTurn, Init
<1>5. ClientsInTurn
  BY <1>1 DEF ClientsInTurn
<1> QED
  BY <1>2, <1>3, <1>4, <1>5 DEF IInv

LEMMA NewWithMTLSOK == IInv /\ NewWithMTLS => IInv'
<1> SUFFICES ASSUME TypeOK, Built, GroupsInTurn, ClientsInTurn, NewWithMTLS
             PROVE  IInv'
  BY DEF IInv
<1>1. PICK name \in ResolveServerName(config) : sc' = NewClient(config, name)
  BY DEF NewWithMTLS
<1> DEFINE Sizes(g) == 0..(sc'.groups[g].clients - 1)
<1>2. config \in Configurations
  BY ConfigsAssumption DEF TypeOK
<1>3. name \in Names /\ name \in Hosts
  BY <1>2, Resolved DEF Names
<1>4. /\ sc'.ServerName = name
      /\ sc'.groups \in Seq([addr : Addresses, clients : Nat, maxDialDuration : Nat])
      /\ Len(sc'.groups) \in Nat \ {0} /\ DOMAIN sc'.groups = 1..Len(sc'.groups)
      /\ \A g \in DOMAIN sc'.groups : sc'.groups[g].clients \in Nat \ {0}
  <2>1. /\ NewClient(config, name)
             = [ServerName |-> name, groups |-> NewClient(config, name).groups]
        /\ sc'.groups \in Seq([addr : Addresses, clients : Nat, maxDialDuration : Nat])
        /\ Len(sc'.groups) \in Nat \ {0} /\ DOMAIN sc'.groups = 1..Len(sc'.groups)
        /\ \A g \in DOMAIN sc'.groups : sc'.groups[g].clients \in Nat \ {0}
    BY <1>1, <1>2, NewClientGroups
  <2>2. sc'.ServerName = name
    BY <2>1, <1>1
  <2> QED
    BY <2>1, <2>2
<1>5. sc = NoClient /\ called = 0 /\ called' = 0 /\ Groups = {}
  BY BuiltParts DEF NewWithMTLS, Groups
<1>6. /\ choosing' = choosing /\ choosing \in [Callers -> {NoGroup}]
      /\ roundRobin' = roundRobin
  BY <1>5 DEF NewWithMTLS, TypeOK
<1>7. /\ groupRobin' = [g \in DOMAIN sc'.groups |-> 0]
      /\ served' = [g \in DOMAIN sc'.groups |-> [i \in Sizes(g) |-> 0]]
  BY DEF NewWithMTLS
<1>8. Built'
  BY <1>1 DEF NewWithMTLS, Built
<1>9. TypeOK'
  <2>1. config' \in Configs
    BY DEF NewWithMTLS, TypeOK
  <2>2. groupRobin' \in [Groups' -> 0..(Wrap - 1)] /\ DOMAIN served' = Groups'
    BY <1>7, WrapAssumption DEF Groups
  <2>3. \A g \in Groups' : served'[g] \in [Clients(g)' -> 0..MaxCalls]
    BY <1>7, WrapAssumption DEF Groups, Clients
  <2>4. choosing' \in [Callers -> Groups' \cup {NoGroup}]
    BY <1>6
  <2>5. roundRobin' \in 0..(Wrap - 1) /\ called' \in 0..MaxCalls
    BY <1>5, <1>6 DEF TypeOK
  <2>6. sc'.ServerName \in Names
    BY <1>3, <1>4
  <2> QED
    BY <2>1, <2>2, <2>3, <2>4, <2>5, <2>6, <1>4 DEF TypeOK
<1>10. \A g \in Groups' : Turns(g)' = 0 /\ Calls(g)' = 0
  <2> SUFFICES ASSUME NEW g \in Groups' PROVE Turns(g)' = 0 /\ Calls(g)' = 0
    OBVIOUS
  <2>1. g # NoGroup /\ g \in DOMAIN sc'.groups
    BY <1>4 DEF Groups, NoGroup
  <2>2. /\ IsFiniteSet(Sizes(g)) /\ served'[g] \in [Sizes(g) -> Nat]
        /\ \A i \in Sizes(g) : served'[g][i] = 0
    <3>1. sc'.groups[g].clients - 1 \in Int
      BY <2>1, <1>4
    <3>2. IsFiniteSet(Sizes(g))
      BY <3>1, FS_Interval
    <3> HIDE DEF Sizes
    <3> QED
      BY <3>2, <2>1, <1>7
  <2>3. Turns(g)' = 0
    <3>1. SumFunction(served'[g]) = 0
      <4> HIDE DEF Sizes
      <4> QED
        BY <2>2, TurnsOfNone
    <3> QED
      BY <3>1 DEF Turns
  <2>4. {p \in Callers : choosing'[p] = g} = {}
    BY <2>1, <1>6
  <2> QED
    BY <2>3, <2>4, FS_EmptySet DEF Calls
<1>11. GroupsInTurn'
  <2>1. \A k \in 0..(Len(sc'.groups) - 1) : CallsOf'[k] = 0
    <3>1. \A k \in 0..(Len(sc'.groups) - 1) : k + 1 \in Groups'
      BY <1>4 DEF Groups
    <3> QED
      BY <3>1, <1>10 DEF CallsOf
  <2>2. InTurn(CallsOf', Len(sc'.groups), 0) /\ 0 % Wrap = 0
    BY <2>1, <1>4, NoTurns
  <2>3. roundRobin' = 0
    BY <1>5, <1>6, <2>2 DEF GroupsInTurn
  <2> QED
    BY <2>2, <2>3, <1>5 DEF GroupsInTurn, InTurn
<1>12. ClientsInTurn'
  <2> SUFFICES ASSUME NEW g \in Groups'
               PROVE  /\ groupRobin'[g] = Turns(g)' % Wrap
                      /\ Calls(g)' <= called'
                      /\ InTurn(served'[g], sc'.groups[g].clients, Turns(g)')
    BY DEF ClientsInTurn, InTurn
  <2>1. sc'.groups[g].clients \in Nat /\ g \in DOMAIN sc'.groups
    BY <1>4 DEF Groups
  <2>2. \A i \in Sizes(g) : served'[g][i] = 0
    BY <1>7, <2>1
  <2>3. InTurn(served'[g], sc'.groups[g].clients, 0) /\ 0 % Wrap = 0
    BY <2>1, <2>2, NoTurns
  <2> QED
    BY <2>1, <2>3, <1>5, <1>7, <1>10
<1> QED
  BY <1>8, <1>9, <1>11, <1>12 DEF IInv

LEMMA GetGroupOK == ASSUME IInv, NEW p \in Callers, GetGroup(p) PROVE IInv'
<1> DEFINE c == Len(sc.groups)
           t == called
           chosen == 1 + (((t + 1) % Wrap) % c)
<1>1. TypeOK /\ Built /\ GroupsInTurn /\ ClientsInTurn
  BY DEF IInv
<1>2. sc # NoClient /\ c \in Nat \ {0} /\ Groups = 1..c /\ t \in Nat
  BY <1>1, BuiltParts, WrapAssumption DEF GetGroup, TypeOK
<1>3. /\ config' = config /\ sc' = sc /\ groupRobin' = groupRobin /\ served' = served
      /\ called' = t + 1 /\ choosing[p] = NoGroup /\ t < MaxCalls
  BY DEF GetGroup
<1>4. roundRobin' = (t + 1) % Wrap /\ choosing' = [choosing EXCEPT ![p] = chosen]
  <2>1. AddUint64(roundRobin) = (t + 1) % Wrap
    BY <1>1, <1>2, ModMod, WrapAssumption DEF AddUint64, GroupsInTurn
  <2> QED
    BY <2>1 DEF GetGroup
<1>5. /\ (t + 1) % Wrap \in 0..(Wrap - 1) /\ ((t + 1) % Wrap) % c \in 0..(c - 1)
      /\ chosen \in Groups
  <2>1. (t + 1) % Wrap \in 0..(Wrap - 1)
    BY <1>2, DivMod, WrapAssumption
  <2>2. ((t + 1) % Wrap) % c \in 0..(c - 1)
    <3>1. t + 1 \in Nat
      BY <1>2
    <3> HIDE DEF c, t
    <3> QED
      BY <3>1, <1>2, Residues
  <2> QED
    BY <2>1, <2>2, <1>2
<1> HIDE DEF chosen
<1>6. Built'
  BY <1>1, <1>2, <1>3 DEF Built
<1>7. TypeOK'
  <2>1. choosing' \in [Callers -> Groups \cup {NoGroup}]
    BY <1>1, <1>4, <1>5 DEF TypeOK
  <2>2. called' \in 0..MaxCalls
    BY <1>2, <1>3, WrapAssumption
  <2> QED
    BY <2>1, <2>2, <1>1, <1>3, <1>4, <1>5 DEF TypeOK, Groups, Clients
<1>8. \A g \in Groups :
        /\ Turns(g)' = Turns(g)
        /\ Calls(g)' = Calls(g) + (IF g = chosen THEN 1 ELSE 0)
  <2> SUFFICES ASSUME NEW g \in Groups
               PROVE  /\ Turns(g)' = Turns(g)
                      /\ Calls(g)' = Calls(g) + (IF g = chosen THEN 1 ELSE 0)
    OBVIOUS
  <2>1. Turns(g)' = Turns(g)
    BY <1>3 DEF Turns
  <2>2. /\ Turns(g) \in Nat /\ IsFiniteSet(Waiting(g)) /\ Cardinality(Waiting(g)) \in Nat
        /\ Calls(g) = Turns(g) + Cardinality(Waiting(g))
    BY <1>1, CallsParts
  <2>3. p \notin Waiting(g)
    BY <1>1, <1>3, BuiltParts DEF Waiting
  <2>4. Waiting(g)' = IF g = chosen THEN Waiting(g) \cup {p} ELSE Waiting(g)
    BY <1>1, <1>4, <2>3 DEF TypeOK, Waiting
  <2>5. Cardinality(Waiting(g)') = Cardinality(Waiting(g)) + (IF g = chosen THEN 1 ELSE 0)
    <3>1. Cardinality(Waiting(g) \cup {p}) = Cardinality(Waiting(g)) + 1
      BY <2>2, <2>3, FS_AddElement
    <3> QED
      BY <3>1, <2>2, <2>4
  <2>6. Calls(g)' = Turns(g)' + Cardinality(Waiting(g)')
    BY DEF Calls, Waiting
  <2> QED
    BY <2>1, <2>2, <2>5, <2>6
<1>9. GroupsInTurn'
  <2> DEFINE f == CallsOf
             e == CallsOf'
  <2>1. f \in [0..(c - 1) -> Nat]
    BY <1>1, CallsOfType
  <2>2. \A k \in 0..(c - 1) :
          /\ k + 1 \in Groups /\ f[k] = Calls(k + 1) /\ e[k] = Calls(k + 1)'
    BY <1>2, <1>3 DEF CallsOf
  <2>3. \A k \in 0..(c - 1) :
          e[k] = f[k] + (IF k = ((t + 1) % Wrap) % c THEN 1 ELSE 0)
    <3> SUFFICES ASSUME NEW k \in 0..(c - 1)
                 PROVE  e[k] = f[k] + (IF k = ((t + 1) % Wrap) % c THEN 1 ELSE 0)
      OBVIOUS
    <3>1. k + 1 = chosen <=> k = ((t + 1) % Wrap) % c
      BY <1>5 DEF chosen
    <3>2. k + 1 \in Groups /\ f[k] = Calls(k + 1) /\ e[k] = Calls(k + 1)'
      BY <2>2
    <3>3. Calls(k + 1)' = Calls(k + 1) + (IF k + 1 = chosen THEN 1 ELSE 0)
      BY <3>2, <1>8
    <3>4. (IF k + 1 = chosen THEN 1 ELSE 0)
            = (IF k = ((t + 1) % Wrap) % c THEN 1 ELSE 0)
      BY <3>1
    <3> QED
      BY ONLY <3>2, <3>3, <3>4
  <2>4. e \in [0..(c - 1) -> Nat]
    <3>1. \A k \in 0..(c - 1) : e[k] \in Nat
      <4> SUFFICES ASSUME NEW k \in 0..(c - 1) PROVE e[k] \in Nat
        OBVIOUS
      <4>1. f[k] \in Nat
        BY <2>1
      <4>2. e[k] = f[k] + 1 \/ e[k] = f[k] + 0
        BY <2>3
      <4> HIDE DEF e, f
      <4> QED
        BY <4>1, <4>2
    <3>2. e = [k \in 0..(c - 1) |-> e[k]]
      BY <1>3 DEF CallsOf
    <3> HIDE DEF e, c
    <3> QED
      BY <3>1, <3>2
  <2>5. InTurn(f, c, t)
    BY <1>1 DEF GroupsInTurn
  <2>6. InTurn(e, c, t + 1)
    <3> HIDE DEF f, e, c, t
    <3> QED
      BY <2>1, <2>3, <2>4, <2>5, <1>2, TurnTaken
  <2> QED
    BY <2>6, <1>3, <1>4 DEF GroupsInTurn, InTurn
<1>10. ClientsInTurn'
  <2>1. \A g \in Groups : Calls(g)' <= called'
    <3>1. \A g \in Groups : Calls(g) \in Nat /\ Calls(g) <= t
      BY <1>1, CallsParts DEF ClientsInTurn
    <3> QED
      BY <3>1, <1>2, <1>3, <1>8
  <2> QED
    BY <2>1, <1>1, <1>3, <1>8 DEF ClientsInTurn, InTurn, Groups, Turns
<1> QED
  BY <1>6, <1>7, <1>9, <1>10 DEF IInv

LEMMA GetClientOK == ASSUME IInv, NEW p \in Callers, GetClient(p) PROVE IInv'
<1>0. PICK h : h = choosing[p]
  OBVIOUS
<1> DEFINE c == sc.groups[h].clients
           t == Turns(h)
           k == ((t + 1) % Wrap) % c
           f == served[h]
           e == served'[h]
<1>1. TypeOK /\ Built /\ GroupsInTurn /\ ClientsInTurn
  BY DEF IInv
<1>2. h \in Groups /\ h # NoGroup
  BY <1>0, <1>1 DEF GetClient, TypeOK
<1>3. /\ config' = config /\ sc' = sc /\ roundRobin' = roundRobin /\ called' = called
      /\ choosing' = [choosing EXCEPT ![p] = NoGroup]
  BY DEF GetClient
<1>4. c \in Nat \ {0} /\ f \in [0..(c - 1) -> Nat] /\ t \in Nat
      /\ IsFiniteSet(0..(c - 1)) /\ InTurn(f, c, t) /\ groupRobin[h] = t % Wrap
  BY <1>1, <1>2, BuiltParts, CallsParts DEF Clients, ClientsInTurn
<1>5. k \in 0..(c - 1) /\ (t + 1) % Wrap \in 0..(Wrap - 1) /\ t + 1 \in Nat
  <2> HIDE DEF c, t
  <2>1. t + 1 \in Nat
    BY <1>4
  <2>2. (t + 1) % Wrap \in 0..(Wrap - 1)
    BY <2>1, DivMod, WrapAssumption
  <2> QED
    BY <2>1, <2>2, <1>4, Residues
<1>6. AddUint64(groupRobin[h]) = (t + 1) % Wrap
  <2> HIDE DEF t
  <2> QED
    BY <1>4, ModMod, WrapAssumption DEF AddUint64
<1>7. /\ groupRobin' = [groupRobin EXCEPT ![h] = (t + 1) % Wrap]
      /\ served' = [served EXCEPT ![h][k] = @ + 1]
  BY <1>0, <1>6 DEF GetClient
<1>8. /\ e \in [0..(c - 1) -> Nat]
      /\ \A i \in 0..(c - 1) : e[i] = f[i] + (IF i = k THEN 1 ELSE 0)
      /\ \A g \in Groups : g # h => served'[g] = served[g]
      /\ DOMAIN served' = Groups
  <2>1. DOMAIN served = Groups
    BY <1>1 DEF TypeOK
  <2>2. served' = [served EXCEPT ![h] = [f EXCEPT ![k] = f[k] + 1]]
    BY <1>7
  <2> HIDE DEF k, c, f
  <2>3. e = [f EXCEPT ![k] = f[k] + 1]
    BY <2>1, <2>2, <1>2
  <2>4. \A i \in 0..(c - 1) : f[i] \in Nat
    BY <1>4
  <2> HIDE DEF e
  <2>5. e \in [0..(c - 1) -> Nat]
    BY <2>3, <2>4, <1>4, <1>5
  <2>6. \A i \in 0..(c - 1) : e[i] = f[i] + (IF i = k THEN 1 ELSE 0)
    BY <2>3, <2>4, <1>4, <1>5
  <2> QED
    BY <2>1, <2>2, <2>5, <2>6
<1>9. Turns(h)' = t + 1
  <2>1. SumFunction(e) = SumFunction(f) + 1
    <3> HIDE DEF e, f, k, c
    <3> QED
      <4>1. OneMore(0..(c - 1), f, k, e)
        BY <1>8 DEF OneMore
      <4> QED
        BY ONLY <4>1, <1>4, <1>5, <1>8, TurnsOneMore
  <2> QED
    BY <2>1 DEF Turns
<1>10. \A g \in Groups : g # h => Turns(g)' = Turns(g)
  BY <1>8 DEF Turns
<1>11. \A g \in Groups : Calls(g)' = Calls(g)
  <2> SUFFICES ASSUME NEW g \in Groups PROVE Calls(g)' = Calls(g)
    OBVIOUS
  <2>1. /\ Turns(g) \in Nat /\ IsFiniteSet(Waiting(g)) /\ Cardinality(Waiting(g)) \in Nat
        /\ Calls(g) = Turns(g) + Cardinality(Waiting(g))
    BY <1>1, CallsParts
  <2>2. Calls(g)' = Turns(g)' + Cardinality(Waiting(g)')
    BY DEF Calls, Waiting
  <2>3. g # NoGroup
    BY <1>1, BuiltParts
  <2>4. CASE g = h
    <3>1. p \in Waiting(g) /\ Waiting(g)' = Waiting(g) \ {p}
      BY <2>3, <2>4, <1>0, <1>1, <1>3 DEF TypeOK, Waiting
    <3>2. Cardinality(Waiting(g)') = Cardinality(Waiting(g)) - 1
      BY <3>1, <2>1, FS_RemoveElement
    <3> QED
      BY <3>2, <2>1, <2>2, <2>4, <1>9
  <2>5. CASE g # h
    <3>1. Waiting(g)' = Waiting(g)
      BY <2>3, <2>5, <1>0, <1>1, <1>3 DEF TypeOK, Waiting
    <3> QED
      BY <3>1, <2>1, <2>2, <2>5, <1>10
  <2> QED
    BY <2>4, <2>5
<1>12. Built'
  BY <1>1, <1>3 DEF Built
<1>13. \A g \in Groups : served'[g] \in [Clients(g) -> 0..MaxCalls]
  <2>1. ASSUME NEW i \in 0..(c - 1) PROVE e[i] \in 0..MaxCalls
    <3>1. \A j \in 0..(c - 1) : e[j] <= SumFunction(e)
      <4> HIDE DEF e, f, k, c
      <4> QED
        BY <1>4, <1>8, TurnsSum
    <3>2. e[i] <= t + 1 /\ e[i] \in Nat
      <4>1. SumFunction(e) = t + 1
        BY <1>9 DEF Turns
      <4> HIDE DEF e, f, k, c, t
      <4> QED
        BY <3>1, <4>1, <1>8
    <3>3. t + 1 <= Calls(h)'
      <4>1. Calls(h)' = Turns(h)' + Cardinality(Waiting(h)')
        BY DEF Calls, Waiting
      <4>2. Cardinality(Waiting(h)') \in Nat
        <5>1. Waiting(h)' \in SUBSET Callers
          BY DEF Waiting
        <5> QED
          BY <5>1, CallersAssumption, FS_Subset, FS_CardinalityType
      <4> HIDE DEF t
      <4> QED
        BY <4>1, <4>2, <1>5, <1>9
    <3>4. Calls(h)' <= called /\ called <= MaxCalls /\ called \in Nat /\ Calls(h)' \in Nat
      BY <1>1, <1>2, <1>11, CallsParts, WrapAssumption DEF ClientsInTurn, TypeOK
    <3> HIDE DEF e, t
    <3> QED
      BY <3>2, <3>3, <3>4, <1>5, WrapAssumption
  <2>2. e \in [Clients(h) -> 0..MaxCalls]
    <3> HIDE DEF e
    <3> QED
      BY <2>1, <1>8 DEF Clients
  <2> QED
    BY <2>2, <1>1, <1>8 DEF TypeOK
<1>14. TypeOK'
  <2>1. choosing' \in [Callers -> Groups \cup {NoGroup}]
    BY <1>1, <1>3 DEF TypeOK
  <2>2. groupRobin' \in [Groups -> 0..(Wrap - 1)]
    BY <1>1, <1>2, <1>5, <1>7 DEF TypeOK
  <2> QED
    BY <2>1, <2>2, <1>1, <1>3, <1>8, <1>13 DEF TypeOK, Groups, Clients
<1>15. GroupsInTurn'
  <2>1. CallsOf' = CallsOf
    <3>1. \A j \in 0..(Len(sc.groups) - 1) : j + 1 \in Groups
      BY <1>1, BuiltParts
    <3> QED
      BY <3>1, <1>3, <1>11 DEF CallsOf
  <2> QED
    BY <2>1, <1>1, <1>3 DEF GroupsInTurn, InTurn
<1>16. ClientsInTurn'
  <2>1. InTurn(e, c, t + 1)
    <3>1. \A i \in 0..(c - 1) : e[i] = f[i] + (IF i = ((t + 1) % Wrap) % c THEN 1 ELSE 0)
      BY <1>8
    <3> HIDE DEF e, f, c, t
    <3> QED
      BY <3>1, <1>4, <1>8, TurnTaken
  <2>2. groupRobin'[h] = (t + 1) % Wrap
    BY <1>1, <1>2, <1>7 DEF TypeOK
  <2>3. \A g \in Groups : g # h => groupRobin'[g] = groupRobin[g]
    BY <1>1, <1>7 DEF TypeOK
  <2> SUFFICES ASSUME NEW g \in Groups
               PROVE  /\ groupRobin'[g] = Turns(g)' % Wrap
                      /\ Calls(g)' <= called'
                      /\ InTurn(served'[g], sc.groups[g].clients, Turns(g)')
    BY <1>3 DEF ClientsInTurn, InTurn, Groups
  <2>4. Calls(g)' <= called'
    BY <1>1, <1>3, <1>11 DEF ClientsInTurn
  <2>5. CASE g = h
    BY <2>1, <2>2, <2>4, <2>5, <1>9
  <2>6. CASE g # h
    BY <2>3, <2>4, <2>6, <1>1, <1>8, <1>10 DEF ClientsInTurn
  <2> QED
    BY <2>5, <2>6
<1> QED
  BY <1>12, <1>14, <1>15, <1>16 DEF IInv

LEMMA Stuttering == IInv /\ UNCHANGED vars => IInv'
<1> SUFFICES ASSUME TypeOK, Built, GroupsInTurn, ClientsInTurn, UNCHANGED vars
             PROVE  IInv'
  BY DEF IInv
<1>1. TypeOK'
  BY DEF TypeOK, vars, counters, Groups, Clients
<1>2. Built'
  BY DEF Built, vars, counters
<1>3. \A g : Turns(g)' = Turns(g) /\ Calls(g)' = Calls(g)
  BY DEF Calls, Turns, vars, counters
<1>4. CallsOf' = CallsOf
  BY <1>3 DEF CallsOf, vars, counters
<1>5. GroupsInTurn'
  BY <1>4 DEF GroupsInTurn, InTurn, vars, counters
<1>6. ClientsInTurn'
  BY <1>3 DEF ClientsInTurn, InTurn, Groups, vars, counters
<1> QED
  BY <1>1, <1>2, <1>5, <1>6 DEF IInv

LEMMA ClientsApart ==
  ASSUME TypeOK, Built, ClientsInTurn,
         NEW g \in Groups, NEW i \in Clients(g), NEW j \in Clients(g)
  PROVE  /\ served[g][i] <= served[g][j] + 1 + (Turns(g) \div Wrap)
         /\ Wrap % sc.groups[g].clients = 0 => served[g][i] <= served[g][j] + 1
<1>1. /\ sc.groups[g].clients \in Nat \ {0} /\ Turns(g) \in Nat
      /\ served[g] \in [Clients(g) -> Nat]
      /\ InTurn(served[g], sc.groups[g].clients, Turns(g))
  BY BuiltParts, CallsParts DEF ClientsInTurn
<1> QED
  BY <1>1, Apart DEF Clients

LEMMA GroupsApart ==
  ASSUME TypeOK, Built, GroupsInTurn, NEW g \in Groups, NEW h \in Groups
  PROVE  /\ Calls(g) <= Calls(h) + 1 + (called \div Wrap)
         /\ Wrap % Len(sc.groups) = 0 => Calls(g) <= Calls(h) + 1
<1> DEFINE c == Len(sc.groups)
<1>1. c \in Nat /\ g \in 1..c /\ h \in 1..c
  BY BuiltParts
<1>2. CallsOf \in [0..(c - 1) -> Nat] /\ InTurn(CallsOf, c, called) /\ called \in Nat
  BY CallsOfType, WrapAssumption DEF GroupsInTurn, TypeOK
<1>3. CallsOf = [k \in 0..(c - 1) |-> Calls(k + 1)]
  BY DEF CallsOf
<1> SUFFICES /\ Calls(g) <= Calls(h) + 1 + (called \div Wrap)
             /\ Wrap % c = 0 => Calls(g) <= Calls(h) + 1
  OBVIOUS
<1> HIDE DEF c
<1>4. /\ c \in Nat \ {0} /\ g - 1 \in 0..(c - 1) /\ h - 1 \in 0..(c - 1)
      /\ (g - 1) + 1 = g /\ (h - 1) + 1 = h
  BY <1>1
<1>5. CallsOf[g - 1] = Calls(g) /\ CallsOf[h - 1] = Calls(h)
  BY <1>3, <1>4
<1> QED
  BY <1>2, <1>4, <1>5, Apart

(* shardedClient.go:108-115, 245-251: the client is the one NewWithMTLS    *)
(* built, its counters are the calls there were modulo Wrap, and every     *)
(* group and every client has had exactly the turns its place gives it.    *)
THEOREM TurnsCorrect == Spec => []IInv
<1>1. IInv /\ Next => IInv'
  <2> SUFFICES ASSUME IInv, Next PROVE IInv'
    OBVIOUS
  <2>1. CASE NewWithMTLS
    BY <2>1, NewWithMTLSOK
  <2>2. ASSUME NEW p \in Callers, GetGroup(p) PROVE IInv'
    BY <2>2, GetGroupOK
  <2>3. ASSUME NEW p \in Callers, GetClient(p) PROVE IInv'
    BY <2>3, GetClientOK
  <2> QED
    BY <2>1, <2>2, <2>3 DEF Next
<1> QED
  BY <1>1, InitOK, Stuttering, PTL DEF Spec

(* shardedClient.go:58-59, 100-107: the counters stay within their width   *)
(* and no client has more turns than there were calls.                     *)
THEOREM TypeCorrect == Spec => []TypeOK
<1>1. IInv => TypeOK
  BY DEF IInv
<1> QED
  BY <1>1, TurnsCorrect, PTL

(* shardedClient.go:108-115, 245-251: whatever is configured, a client has *)
(* a group and every group a client, so that neither modulus is zero.      *)
THEOREM Serves == Spec => []SomebodyToServe
<1>1. IInv => SomebodyToServe
  <2> SUFFICES ASSUME TypeOK, Built, sc # NoClient
               PROVE  /\ sc.groups # <<>>
                      /\ \A g \in Groups : /\ sc.groups[g].clients > 0
                                           /\ sc.groups[g].maxDialDuration > 0
    BY DEF IInv, SomebodyToServe
  <2>1. Len(sc.groups) \in Nat \ {0}
    BY BuiltParts
  <2>2. Len(<<>>) = 0
    OBVIOUS
  <2>3. \A n \in Nat \ {0} : n > 0
    OBVIOUS
  <2> QED
    BY <2>1, <2>2, <2>3, BuiltParts
<1> QED
  BY <1>1, TurnsCorrect, PTL

(* mtls.go:221-236: a name is always settled, and unless the application   *)
(* settles it, it is the host of every address that has one.               *)
THEOREM Verified == Spec => []VerifiedForItsHost
<1>1. IInv => VerifiedForItsHost
  <2> SUFFICES ASSUME TypeOK, Built, sc # NoClient
               PROVE  /\ sc.ServerName # NoHost
                      /\ config.ServerName = NoHost =>
                           \A g \in Groups :
                             sc.groups[g].addr.host \in {sc.ServerName, NoHost}
    BY DEF IInv, VerifiedForItsHost
  <2>1. config \in Configurations
    BY ConfigsAssumption DEF TypeOK
  <2>2. PICK name \in ResolveServerName(config) : sc = NewClient(config, name)
    BY DEF Built
  <2>3. /\ name \in Hosts
        /\ config.ServerName = NoHost =>
             HostsOf(NormalizeConfiguration(config).Addrs) = {name}
    BY <2>1, Resolved
  <2>4. /\ sc = [ServerName |-> name, groups |-> sc.groups]
        /\ \A g \in Groups :
             sc.groups[g].addr.host
               \in HostsOf(NormalizeConfiguration(config).Addrs) \cup {NoHost}
    BY <2>1, <2>2, NewClientGroups DEF Groups
  <2>5. sc.ServerName = name
    BY <2>4
  <2> QED
    BY <2>3, <2>4, <2>5, HostsAssumption
<1> QED
  BY <1>1, TurnsCorrect, PTL

(* shardedClient.go:108-115: however the callers interleave, two clients   *)
(* of a group are at most one turn apart, and one more each time the       *)
(* counter wrapped.                                                        *)
THEOREM ClientsTakeTurns == Spec => []InTurnWithinGroup
<1>1. IInv => InTurnWithinGroup
  BY ClientsApart DEF IInv, InTurnWithinGroup
<1> QED
  BY <1>1, TurnsCorrect, PTL

(* shardedClient.go:58-59, 245-251: so are two groups.                     *)
THEOREM GroupsTakeTurns == Spec => []InTurnAcrossGroups
<1>1. IInv => InTurnAcrossGroups
  BY GroupsApart DEF IInv, InTurnAcrossGroups
<1> QED
  BY <1>1, TurnsCorrect, PTL

(* shardedClient.go:108-115, 245-251: where the number of those that take  *)
(* turns divides 2^64 the turn never jumps.                                *)
Even ==
  /\ \A g \in Groups : Wrap % sc.groups[g].clients = 0 =>
       \A i, j \in Clients(g) : served[g][i] <= served[g][j] + 1
  /\ sc # NoClient /\ Wrap % Len(sc.groups) = 0 =>
       \A g, h \in Groups : Calls(g) <= Calls(h) + 1

(* Any two are then one turn apart at most, however many turns there were. *)
THEOREM EvenForever == Spec => []Even
<1>1. IInv => Even
  BY ClientsApart, GroupsApart DEF IInv, Even
<1> QED
  BY <1>1, TurnsCorrect, PTL

(* shardedClient.go:108-115: no client of a group is left out.             *)
Shared ==
  \A g \in Groups : \A j \in Clients(g) :
    Turns(g) <= sc.groups[g].clients * (served[g][j] + 1 + (Turns(g) \div Wrap))

(* Each has its share of the turns of the group, but for one turn, and     *)
(* for one more each time the counter wrapped.                             *)
THEOREM NobodyStarves == Spec => []Shared
<1>1. IInv => Shared
  <2> SUFFICES ASSUME TypeOK, Built, ClientsInTurn,
                      NEW g \in Groups, NEW j \in Clients(g)
               PROVE  Turns(g) <= sc.groups[g].clients
                                    * (served[g][j] + 1 + (Turns(g) \div Wrap))
    BY DEF IInv, Shared
  <2> DEFINE c == sc.groups[g].clients
             m == served[g][j] + 1 + (Turns(g) \div Wrap)
  <2>1. /\ c \in Nat \ {0} /\ IsFiniteSet(Clients(g))
        /\ served[g] \in [Clients(g) -> Nat] /\ Turns(g) \in Nat
    BY BuiltParts, CallsParts
  <2>2. m \in Nat
    <3>1. Turns(g) \div Wrap \in Nat
      BY <2>1, DivMod, WrapAssumption
    <3> QED
      BY <2>1, <3>1
  <2>3. \A i \in Clients(g) : served[g][i] <= m
    BY ClientsApart
  <2>4. Cardinality(Clients(g)) = c
    <3>1. Clients(g) = 0..(c - 1)
      BY DEF Clients
    <3> HIDE DEF c
    <3>2. /\ 0 \in Int /\ c - 1 \in Int /\ ~(0 > c - 1)
          /\ ((c - 1) - 0) + 1 = c
      BY <2>1
    <3>3. Cardinality(0..(c - 1)) = ((c - 1) - 0) + 1
      BY <3>2, FS_Interval
    <3> QED
      BY <3>1, <3>2, <3>3
  <2>5. SumFunction(served[g]) <= Cardinality(Clients(g)) * m
    <3> HIDE DEF m
    <3> QED
      BY <2>1, <2>2, <2>3, TurnsAtMost
  <2> QED
    BY <2>4, <2>5 DEF Turns
<1> QED
  BY <1>1, TurnsCorrect, PTL

=============================================================================
